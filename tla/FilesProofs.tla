----------------------------- MODULE FilesProofs -----------------------------
(***************************************************************************)
(* Proofs about the files in which the container keeps its configuration:  *)
(* the cron rules, the whitelist, clamavweb.conf and the pid file of       *)
(* /init.                                                                  *)
(***************************************************************************)
EXTENDS Files, TLAPS

-----------------------------------------------------------------------------
(* The cron rules.                                                         *)

\* A document with the rules of one user taken out, added or replaced.
Spares(u, doc) ==
    \A i \in Id : \/ doc[i] = conf[i]
                  \/ /\ conf[i] = None \/ conf[i].owner = u
                     /\ doc[i] = None \/ doc[i].owner = u

OwnersIn(doc, U) == \A i \in Id : doc[i] # None => doc[i].owner \in U

\* The holder of configFileMu is a user who is not reported gone, or process 1; what
\* he is about to save differs from the file in his own rules only, and has none of
\* them when he removes them.
HolderIsSound ==
    /\ op.pc \in {"validate", "rename"} => op.user \in User /\ Spares(op.user, op.doc)
    /\ op.pc # "free" => op.user \notin removed
    /\ op.what = "remove" =>
          /\ op.pc # "free" /\ op.user \in User
          /\ op.pc \in {"validate", "rename"} => OwnersIn(op.doc, User \ {op.user})
          /\ op.pc \in {"reload", "append"} => OwnersIn(conf, User \ {op.user})

Current == [i \in Id |-> IF i \in Cron!Enabled(conf) THEN conf[i] ELSE None]

\* While a reload fills the table it has the rules that are no longer left to append,
\* and the table counts as stale.
TableIsFilled ==
    /\ op.pc # "append" /\ ~stale => table = Current
    /\ op.pc = "append" =>
          /\ stale /\ op.left \subseteq Cron!Enabled(conf)
          /\ table = [i \in Id |-> IF i \in Cron!Enabled(conf) \ op.left THEN conf[i] ELSE None]

\* Unless the last reload was cut short, a change of the file has been followed by a
\* complete one when configFileMu is free.
ReloadFollows == ~cut => (op.pc \in {"free", "validate", "rename"} => ~stale)

CronIInv ==
    /\ Cron!TypeOK
    /\ HolderIsSound /\ TableIsFilled
    /\ OwnersIn(conf, User \ removed)
    /\ ReloadFollows

\* No line that the server writes is refused by the script.
LEMMA AlwaysValid ==
    ASSUME Cron!CronAssumption, NEW doc \in Cron!Doc
    PROVE  Cron!validate_cron_config(doc)
BY DEF Cron!CronAssumption, Cron!Doc, Cron!Rule, Cron!AllKinds, Cron!validate_cron_config,
   Cron!split_cron_config_line, Cron!quoteCronTarget, Cron!shellFields, Cron!Enabled

LEMMA CronInit == Cron!CronAssumption /\ Cron!Init => CronIInv
<1> SUFFICES ASSUME Cron!CronAssumption, Cron!Init PROVE CronIInv
  OBVIOUS
<1>1. /\ conf = [i \in Id |-> None] /\ table = conf /\ removed = {}
      /\ stale = FALSE /\ cut = FALSE
  BY DEF Cron!Init, Cron!NoDoc
<1>2. op.pc = "free" /\ op.what = "edit" /\ op \in Cron!Holder
  BY DEF Cron!Init, Cron!Free, Cron!NoDoc, Cron!Holder, Cron!Doc
<1>3. Cron!TypeOK
  BY <1>1, <1>2 DEF Cron!TypeOK, Cron!Doc
<1>4. HolderIsSound /\ OwnersIn(conf, User \ removed)
  BY <1>1, <1>2 DEF HolderIsSound, OwnersIn
<1>5. TableIsFilled
  BY <1>1, <1>2 DEF TableIsFilled, Current, Cron!Enabled
<1>6. QED
  BY <1>1, <1>3, <1>4, <1>5 DEF CronIInv, ReloadFollows

\* A request that saves a document in which only its own rules differ.
LEMMA CronSave ==
    ASSUME Cron!CronAssumption, CronIInv, NEW u \in User, NEW doc \in Cron!Doc,
           NEW what \in {"edit", "remove"}, Cron!May(u), Spares(u, doc),
           what = "remove" => OwnersIn(doc, User \ {u}),
           Cron!save(u, doc, what)
    PROVE  CronIInv'
<1>1. Cron!TypeOK'
  BY DEF CronIInv, Cron!TypeOK, Cron!save, Cron!Holder
<1>2. HolderIsSound'
  BY DEF CronIInv, Cron!TypeOK, Cron!save, Cron!May, HolderIsSound, Spares, OwnersIn, Cron!CronAssumption
<1>3. TableIsFilled' /\ ReloadFollows' /\ OwnersIn(conf, User \ removed)'
  BY DEF CronIInv, Cron!save, Cron!May, TableIsFilled, ReloadFollows, OwnersIn, Current, Cron!Enabled
<1>4. QED
  BY <1>1, <1>2, <1>3 DEF CronIInv

LEMMA CronRequests ==
    ASSUME Cron!CronAssumption, CronIInv, NEW u \in User, Cron!CronRequest(u)
    PROVE  CronIInv'
<1>1. conf \in Cron!Doc /\ None \notin User
  BY DEF CronIInv, Cron!TypeOK, Cron!CronAssumption
<1>2. ASSUME NEW kind \in Kind, NEW on \in BOOLEAN, Cron!addCronRule(u, kind, on)
      PROVE  CronIInv'
  <2> DEFINE Doc(i) == [conf EXCEPT ![i] = [owner |-> u, kind |-> kind, on |-> on]]
  <2>1. PICK i \in Id : conf[i] = None /\ Cron!save(u, Doc(i), "edit")
    BY <1>2 DEF Cron!addCronRule
  <2>2. Doc(i) \in Cron!Doc /\ Spares(u, Doc(i))
    BY <1>1, <2>1 DEF Cron!Doc, Cron!Rule, Spares
  <2>3. Cron!May(u)
    BY <1>2 DEF Cron!addCronRule
  <2> HIDE DEF Doc
  <2>4. QED
    BY <2>1, <2>2, <2>3, CronSave
<1>3. ASSUME NEW i \in Id, NEW kind \in Kind, NEW on \in BOOLEAN, Cron!updateCronRule(u, i, kind, on)
      PROVE  CronIInv'
  <2> DEFINE doc == [conf EXCEPT ![i] = [owner |-> u, kind |-> kind, on |-> on]]
  <2>1. Cron!May(u) /\ Cron!save(u, doc, "edit") /\ conf[i].owner = u
    BY <1>3 DEF Cron!updateCronRule, Cron!findCronRuleBlock
  <2>2. doc \in Cron!Doc /\ Spares(u, doc)
    BY <1>1, <2>1 DEF Cron!Doc, Cron!Rule, Spares
  <2> HIDE DEF doc
  <2>3. QED
    BY <2>1, <2>2, CronSave
<1>4. ASSUME NEW i \in Id, NEW on \in BOOLEAN, Cron!setCronRuleEnabled(u, i, on)
      PROVE  CronIInv'
  <2> DEFINE doc == [conf EXCEPT ![i].on = on]
  <2>1. Cron!May(u) /\ Cron!save(u, doc, "edit") /\ conf[i] # None /\ conf[i].owner = u
    BY <1>4 DEF Cron!setCronRuleEnabled, Cron!findCronRuleBlock
  <2>2. doc \in Cron!Doc /\ Spares(u, doc)
    BY <1>1, <2>1 DEF Cron!Doc, Cron!Rule, Spares
  <2> HIDE DEF doc
  <2>3. QED
    BY <2>1, <2>2, CronSave
<1>5. ASSUME NEW i \in Id, Cron!deleteCronRule(u, i)
      PROVE  CronIInv'
  <2> DEFINE doc == [conf EXCEPT ![i] = None]
  <2>1. Cron!May(u) /\ Cron!save(u, doc, "edit") /\ conf[i].owner = u
    BY <1>5 DEF Cron!deleteCronRule, Cron!findCronRuleBlock
  <2>2. doc \in Cron!Doc /\ Spares(u, doc)
    BY <1>1, <2>1 DEF Cron!Doc, Spares
  <2> HIDE DEF doc
  <2>3. QED
    BY <2>1, <2>2, CronSave
<1>6. CASE Cron!disableCronRulesForUser(u)
  <2> DEFINE mine == {i \in Cron!Enabled(conf) : conf[i].owner = u}
             doc == [i \in Id |-> IF i \in mine THEN [conf[i] EXCEPT !.on = FALSE] ELSE conf[i]]
  <2>1. Cron!May(u) /\ Cron!save(u, doc, "edit")
    BY <1>6 DEF Cron!disableCronRulesForUser
  <2>2. doc \in Cron!Doc /\ Spares(u, doc)
    BY <1>1 DEF Cron!Doc, Cron!Rule, Cron!Enabled, Spares
  <2> HIDE DEF doc
  <2>3. QED
    BY <2>1, <2>2, CronSave
<1>7. CASE Cron!removeCronRulesForUser(u)
  <2> DEFINE mine == {i \in Id : conf[i] # None /\ conf[i].owner = u}
             doc == [i \in Id |-> IF i \in mine THEN None ELSE conf[i]]
  <2>1. CASE mine = {}
    <3>1. /\ op.pc = "free" /\ removed' = removed \cup {u}
          /\ UNCHANGED <<conf, table, op, stale, cut, restarts>>
      BY <1>7, <2>1 DEF Cron!removeCronRulesForUser, Cron!May
    <3>2. Cron!TypeOK'
      BY <3>1 DEF CronIInv, Cron!TypeOK
    <3>3. HolderIsSound' /\ TableIsFilled' /\ ReloadFollows'
      BY <3>1 DEF CronIInv, HolderIsSound, TableIsFilled, ReloadFollows, Current, Cron!Enabled, Spares, OwnersIn
    <3>4. OwnersIn(conf, User \ removed)'
      BY <2>1, <3>1 DEF CronIInv, OwnersIn
    <3>5. QED
      BY <3>2, <3>3, <3>4 DEF CronIInv
  <2>2. CASE mine # {}
    <3>1. Cron!May(u) /\ Cron!save(u, doc, "remove")
      BY <1>7, <2>2 DEF Cron!removeCronRulesForUser
    <3>2. doc \in Cron!Doc /\ Spares(u, doc)
      BY <1>1 DEF Cron!Doc, Spares
    <3>3. OwnersIn(doc, User \ {u})
      BY <1>1 DEF CronIInv, OwnersIn
    <3> HIDE DEF doc
    <3>4. QED
      BY <3>1, <3>2, <3>3, CronSave
  <2>3. QED
    BY <2>1, <2>2
<1>8. CASE Cron!handleCronReload(u)
  <2>1. /\ op.pc = "free" /\ u \notin removed
        /\ op' = [[pc |-> "free", user |-> None, doc |-> [i \in Id |-> None], left |-> {}, what |-> "edit"]
                    EXCEPT !.pc = "reload", !.user = u]
        /\ UNCHANGED <<conf, table, stale, cut, removed, restarts>>
    BY <1>8 DEF Cron!handleCronReload, Cron!Free, Cron!NoDoc
  <2>2. op'.pc = "reload" /\ op'.user = u /\ op'.what = "edit"
    BY <2>1
  <2>3. op' \in Cron!Holder
    BY <2>1 DEF Cron!Holder, Cron!Doc
  <2>4. Cron!TypeOK'
    BY <2>1, <2>3 DEF CronIInv, Cron!TypeOK
  <2>5. HolderIsSound'
    BY <2>1, <2>2 DEF HolderIsSound
  <2>6. TableIsFilled' /\ ReloadFollows' /\ OwnersIn(conf, User \ removed)'
    BY <2>1, <2>2 DEF CronIInv, TableIsFilled, ReloadFollows, Current, Cron!Enabled, OwnersIn
  <2>7. QED
    BY <2>4, <2>5, <2>6 DEF CronIInv
<1>9. QED
  BY <1>2, <1>3, <1>4, <1>5, <1>6, <1>7, <1>8 DEF Cron!CronRequest

LEMMA IdleHolder ==
    ASSUME NEW k \in {"free", "reload"}
    PROVE  [pc |-> k, user |-> None, doc |-> [i \in Id |-> None], left |-> {}, what |-> "edit"] \in Cron!Holder
BY DEF Cron!Holder, Cron!Doc

\* What is known of the holder of the mutex when it is given back, and when it is
\* process 1 that reloads after a restart.
LEMMA CronIdle ==
    ASSUME NEW k \in {"free", "reload"}, op' = [Cron!Free EXCEPT !.pc = k], Cron!CronAssumption, removed' \subseteq User
    PROVE  op'.pc = k /\ op' \in Cron!Holder /\ HolderIsSound'
<1>1. op' = [pc |-> k, user |-> None, doc |-> [i \in Id |-> None], left |-> {}, what |-> "edit"]
  BY DEF Cron!Free, Cron!NoDoc
<1>2. op'.pc = k /\ op'.user = None /\ op'.what = "edit"
  BY <1>1
<1>3. op' \in Cron!Holder
  BY <1>1, IdleHolder
<1>4. HolderIsSound'
  BY <1>2 DEF HolderIsSound, Cron!CronAssumption
<1>5. QED
  BY <1>2, <1>3, <1>4

LEMMA CronEnded ==
    ASSUME Cron!Ended
    PROVE  op' = [Cron!Free EXCEPT !.pc = "free"]
BY DEF Cron!Ended, Cron!Free

\* configFileMu is given back with nothing changed, which happens only before the
\* rename or after a failure.
LEMMA CronGivesUp ==
    ASSUME Cron!CronAssumption, CronIInv, Cron!Ended,
           (op.pc \in {"validate", "rename"} /\ cut' = cut) \/ cut' = TRUE,
           UNCHANGED <<conf, table, stale, removed>>
    PROVE  CronIInv'
<1>1. op'.pc = "free" /\ op' \in Cron!Holder /\ HolderIsSound'
  BY CronEnded, CronIdle DEF CronIInv, Cron!TypeOK
<1>2. Cron!TypeOK'
  BY <1>1 DEF CronIInv, Cron!TypeOK
<1>3. TableIsFilled'
  BY <1>1 DEF CronIInv, TableIsFilled, Current, Cron!Enabled
<1>4. ReloadFollows' /\ OwnersIn(conf, User \ removed)'
  BY <1>1 DEF CronIInv, ReloadFollows, OwnersIn
<1>5. QED
  BY <1>1, <1>2, <1>3, <1>4 DEF CronIInv

LEMMA CronValidate ==
    ASSUME Cron!CronAssumption, CronIInv, Cron!validate
    PROVE  CronIInv'
<1>1. CASE Cron!Ended
  BY <1>1, CronGivesUp DEF Cron!validate
<1>2. CASE op' = [op EXCEPT !.pc = "rename"]
  <2>1. op.pc = "validate" /\ UNCHANGED <<conf, table, stale, cut, removed, restarts>>
    BY DEF Cron!validate
  <2>2. /\ op'.pc = "rename" /\ op'.user = op.user /\ op'.doc = op.doc /\ op'.what = op.what
        /\ op' \in Cron!Holder
    BY <1>2 DEF CronIInv, Cron!TypeOK, Cron!Holder
  <2>3. Cron!TypeOK'
    BY <2>1, <2>2 DEF CronIInv, Cron!TypeOK
  <2>4. HolderIsSound'
    BY <2>1, <2>2 DEF CronIInv, HolderIsSound, Spares, OwnersIn
  <2>5. TableIsFilled' /\ ReloadFollows' /\ OwnersIn(conf, User \ removed)'
    BY <2>1, <2>2 DEF CronIInv, TableIsFilled, ReloadFollows, Current, Cron!Enabled, OwnersIn
  <2>6. QED
    BY <2>3, <2>4, <2>5 DEF CronIInv
<1>3. QED
  BY <1>1, <1>2 DEF Cron!validate

LEMMA CronRename ==
    ASSUME Cron!CronAssumption, CronIInv, Cron!rename
    PROVE  CronIInv'
<1>1. CASE Cron!Ended /\ UNCHANGED <<conf, stale>>
  BY <1>1, CronGivesUp DEF Cron!rename
<1>2. CASE conf' = op.doc /\ stale' = TRUE /\ op' = [op EXCEPT !.pc = "reload"]
  <2>1. op.pc = "rename" /\ UNCHANGED <<table, cut, removed, restarts>>
    BY DEF Cron!rename
  <2>2. /\ op'.pc = "reload" /\ op'.user = op.user /\ op'.what = op.what
        /\ op' \in Cron!Holder /\ op.doc \in Cron!Doc
    BY <1>2 DEF CronIInv, Cron!TypeOK, Cron!Holder
  <2>3. Cron!TypeOK'
    BY <1>2, <2>1, <2>2 DEF CronIInv, Cron!TypeOK
  <2>4. HolderIsSound'
    BY <1>2, <2>1, <2>2 DEF CronIInv, HolderIsSound, OwnersIn
  <2>5. OwnersIn(conf, User \ removed)'
    <3> SUFFICES ASSUME NEW i \in Id, op.doc[i] # None
                 PROVE  op.doc[i].owner \in User \ removed
      BY <1>2, <2>1 DEF OwnersIn
    <3>1. op.user \in User \ removed /\ Spares(op.user, op.doc)
      BY <2>1 DEF CronIInv, HolderIsSound
    <3>2. CASE op.doc[i] = conf[i]
      BY <3>2 DEF CronIInv, OwnersIn
    <3>3. CASE op.doc[i].owner = op.user
      BY <3>1, <3>3
    <3>4. QED
      BY <3>1, <3>2, <3>3 DEF Spares
  <2>6. TableIsFilled' /\ ReloadFollows'
    BY <1>2, <2>2 DEF TableIsFilled, ReloadFollows
  <2>7. QED
    BY <2>3, <2>4, <2>5, <2>6 DEF CronIInv
<1>3. QED
  BY <1>1, <1>2 DEF Cron!rename

LEMMA CronHeader ==
    ASSUME Cron!CronAssumption, CronIInv, Cron!write_cron_header
    PROVE  CronIInv'
<1>1. CASE Cron!Ended /\ cut' = TRUE /\ UNCHANGED <<table, stale>>
  BY <1>1, CronGivesUp DEF Cron!write_cron_header
<1>2. CASE /\ table' = Cron!NoDoc /\ stale' = TRUE
           /\ op' = [op EXCEPT !.pc = "append", !.left = Cron!Enabled(conf)]
           /\ UNCHANGED cut
  <2>1. op.pc = "reload" /\ UNCHANGED <<conf, removed, restarts>>
    BY DEF Cron!write_cron_header
  <2>2. Cron!Enabled(conf) \subseteq Id
    BY DEF Cron!Enabled
  <2>3. /\ op'.pc = "append" /\ op'.user = op.user /\ op'.what = op.what
        /\ op'.left = Cron!Enabled(conf) /\ op' \in Cron!Holder
    BY <1>2, <2>2 DEF CronIInv, Cron!TypeOK, Cron!Holder
  <2>4. table' = [i \in Id |-> None]
    BY <1>2 DEF Cron!NoDoc
  <2>5. Cron!TypeOK'
    BY <1>2, <2>1, <2>3, <2>4 DEF CronIInv, Cron!TypeOK, Cron!Doc
  <2>6. HolderIsSound'
    BY <2>1, <2>3 DEF CronIInv, HolderIsSound, OwnersIn
  <2>7. TableIsFilled'
    BY <1>2, <2>1, <2>3, <2>4 DEF TableIsFilled, Cron!Enabled
  <2>8. ReloadFollows' /\ OwnersIn(conf, User \ removed)'
    BY <2>1, <2>3 DEF CronIInv, ReloadFollows, OwnersIn
  <2>9. QED
    BY <2>5, <2>6, <2>7, <2>8 DEF CronIInv
<1>3. QED
  BY <1>1, <1>2 DEF Cron!write_cron_header

LEMMA CronAppend ==
    ASSUME Cron!CronAssumption, CronIInv, NEW i \in Id, Cron!appendRule(i)
    PROVE  CronIInv'
<1>1. /\ op.pc = "append" /\ i \in op.left
      /\ table' = [table EXCEPT ![i] = conf[i]]
      /\ op' = [op EXCEPT !.left = op.left \ {i}]
      /\ UNCHANGED <<conf, stale, cut, removed, restarts>>
  BY DEF Cron!appendRule
<1>2. /\ op'.pc = "append" /\ op'.user = op.user /\ op'.what = op.what
      /\ op'.left = op.left \ {i} /\ op' \in Cron!Holder
  BY <1>1 DEF CronIInv, Cron!TypeOK, Cron!Holder
<1>3. Cron!TypeOK'
  BY <1>1, <1>2 DEF CronIInv, Cron!TypeOK, Cron!Doc
<1>4. HolderIsSound'
  BY <1>1, <1>2 DEF CronIInv, HolderIsSound, OwnersIn
<1>5. TableIsFilled'
  <2>1. i \in Cron!Enabled(conf) /\ stale
    BY <1>1 DEF CronIInv, TableIsFilled
  <2>2. table' = [j \in Id |-> IF j \in Cron!Enabled(conf) \ (op.left \ {i}) THEN conf[j] ELSE None]
    BY <1>1, <2>1 DEF CronIInv, TableIsFilled
  <2>3. Cron!Enabled(conf)' = Cron!Enabled(conf)
    BY <1>1 DEF Cron!Enabled
  <2>4. QED
    BY <1>1, <1>2, <2>1, <2>2, <2>3 DEF CronIInv, TableIsFilled
<1>6. ReloadFollows' /\ OwnersIn(conf, User \ removed)'
  BY <1>1, <1>2 DEF CronIInv, ReloadFollows, OwnersIn
<1>7. QED
  BY <1>3, <1>4, <1>5, <1>6 DEF CronIInv

LEMMA CronReloaded ==
    ASSUME Cron!CronAssumption, CronIInv, Cron!reloaded
    PROVE  CronIInv'
<1>1. /\ op.pc = "append" /\ op.left = {} /\ stale' = FALSE /\ cut' = FALSE
      /\ removed' = IF op.what = "remove" THEN removed \cup {op.user} ELSE removed
      /\ UNCHANGED <<conf, table, restarts>> /\ Cron!Ended
  BY DEF Cron!reloaded
<1>2. removed' \subseteq User
  BY <1>1 DEF CronIInv, HolderIsSound, Cron!TypeOK
<1>3. op'.pc = "free" /\ op' \in Cron!Holder /\ HolderIsSound'
  BY <1>1, <1>2, CronEnded, CronIdle
<1>4. Cron!TypeOK'
  BY <1>1, <1>2, <1>3 DEF CronIInv, Cron!TypeOK
<1>5. TableIsFilled'
  <2>1. table = Current
    BY <1>1 DEF CronIInv, TableIsFilled, Current
  <2>2. Current' = Current
    BY <1>1 DEF Current, Cron!Enabled
  <2>3. QED
    BY <1>1, <1>3, <2>1, <2>2 DEF TableIsFilled
<1>6. OwnersIn(conf, User \ removed)'
  BY <1>1 DEF CronIInv, HolderIsSound, OwnersIn
<1>7. QED
  BY <1>1, <1>3, <1>4, <1>5, <1>6 DEF CronIInv, ReloadFollows

LEMMA CronRestart ==
    ASSUME Cron!CronAssumption, CronIInv, Cron!restart
    PROVE  CronIInv'
<1>1. op' = [Cron!Free EXCEPT !.pc = "reload"] /\ UNCHANGED <<conf, table, stale, cut, removed>>
  BY DEF Cron!restart
<1>2. op'.pc = "reload" /\ op' \in Cron!Holder /\ HolderIsSound'
  BY <1>1, CronIdle DEF CronIInv, Cron!TypeOK
<1>3. Cron!TypeOK'
  BY <1>1, <1>2 DEF CronIInv, Cron!TypeOK
<1>4. TableIsFilled'
  BY <1>1, <1>2 DEF CronIInv, TableIsFilled, Current, Cron!Enabled
<1>5. ReloadFollows' /\ OwnersIn(conf, User \ removed)'
  BY <1>1, <1>2 DEF CronIInv, ReloadFollows, OwnersIn
<1>6. QED
  BY <1>2, <1>3, <1>4, <1>5 DEF CronIInv

LEMMA CronNext ==
    ASSUME Cron!CronAssumption, CronIInv, [Cron!Next]_(Cron!vars)
    PROVE  CronIInv'
<1>1. CASE \E u \in User : Cron!CronRequest(u)
  BY <1>1, CronRequests
<1>2. CASE Cron!validate \/ Cron!rename
  BY <1>2, CronValidate, CronRename
<1>3. CASE Cron!write_cron_header \/ Cron!reloaded \/ Cron!restart
  BY <1>3, CronHeader, CronReloaded, CronRestart
<1>4. CASE Cron!timeout
  BY <1>4, CronGivesUp DEF Cron!timeout
<1>5. CASE \E i \in Id : Cron!appendRule(i)
  BY <1>5, CronAppend
<1>6. CASE UNCHANGED Cron!vars
  <2>1. UNCHANGED <<conf, table, op, stale, cut, removed>>
    BY <1>6 DEF Cron!vars
  <2>2. Cron!TypeOK' /\ HolderIsSound'
    BY <2>1 DEF CronIInv, Cron!TypeOK, HolderIsSound, Spares, OwnersIn
  <2>3. TableIsFilled' /\ ReloadFollows' /\ OwnersIn(conf, User \ removed)'
    BY <2>1 DEF CronIInv, TableIsFilled, ReloadFollows, Current, Cron!Enabled, OwnersIn
  <2>4. QED
    BY <2>2, <2>3 DEF CronIInv
<1>7. QED
  BY <1>1, <1>2, <1>3, <1>4, <1>5, <1>6 DEF Cron!Next

\* The installed cron table is that of the file whenever no reload failed or is
\* under way, every rule that was accepted can be read back, and when the rules of a
\* deleted account are reported gone none of them runs (saveCronConfigDoc, cron.sh).
THEOREM CronFollowsFile == Cron!Spec => []CronInv
<1>1. Cron!Init => CronIInv
  BY CronInit, CronConstants
<1>2. CronIInv /\ [Cron!Next]_(Cron!vars) => CronIInv'
  BY CronNext, CronConstants
<1>3. ASSUME CronIInv PROVE CronInv
  <2>1. Cron!TypeOK /\ Cron!TableIsCurrent
    BY <1>3 DEF CronIInv, TableIsFilled, Current, Cron!TableIsCurrent
  <2>2. ASSUME "wide" \notin Kind PROVE Cron!FileIsReadable
    BY <2>1, <2>2, CronConstants DEF Cron!CronAssumption, Cron!TypeOK, Cron!Doc, Cron!Rule, Cron!AllKinds, Cron!FileIsReadable,
       Cron!readCronConfigDoc, Cron!parseCronRuleLine, Cron!quoteCronTarget, Cron!goFields
  <2>3. ASSUME ~cut, op.pc = "free", NEW i \in Id, table[i] # None
        PROVE  table[i].owner \notin removed
    <3>1. table = Current
      BY <1>3, <2>3 DEF CronIInv, TableIsFilled, ReloadFollows
    <3>2. table[i] = conf[i]
      BY <2>3, <3>1 DEF Current
    <3>3. QED
      BY <1>3, <2>3, <3>2 DEF CronIInv, OwnersIn
  <2>4. ~cut => Cron!RemovedIsSilent
    BY <2>3 DEF Cron!RemovedIsSilent
  <2>5. QED
    BY <2>1, <2>2, <2>4 DEF CronInv, Cron!CronInv
<1>4. QED
  BY <1>1, <1>2, <1>3, PTL DEF Cron!Spec

\* However the lines of the file have moved, a request changes only rules of its own
\* user (findCronRuleBlock, saveCronConfigDoc).
LEMMA CronSparesOthers == Cron!Spec => Cron!OthersAreSpared
<1>1. Cron!Init => CronIInv
  BY CronInit, CronConstants
<1>2. CronIInv /\ [Cron!Next]_(Cron!vars) => CronIInv'
  BY CronNext, CronConstants
<1>3. ASSUME CronIInv, Cron!Next, NEW i \in Id, conf[i] # None, conf[i].owner # op.user
      PROVE  conf'[i] = conf[i]
  <2>1. CASE Cron!rename
    BY <1>3, <2>1 DEF Cron!rename, CronIInv, HolderIsSound, Spares
  <2>2. CASE \E u \in User : Cron!CronRequest(u)
    BY <2>2 DEF Cron!CronRequest, Cron!addCronRule, Cron!updateCronRule, Cron!setCronRuleEnabled,
       Cron!deleteCronRule, Cron!disableCronRulesForUser, Cron!removeCronRulesForUser,
       Cron!handleCronReload, Cron!save
  <2>3. CASE Cron!validate \/ Cron!write_cron_header \/ Cron!reloaded \/ Cron!timeout \/ Cron!restart
    BY <2>3 DEF Cron!validate, Cron!write_cron_header, Cron!reloaded, Cron!timeout, Cron!restart
  <2>4. CASE \E j \in Id : Cron!appendRule(j)
    BY <2>4 DEF Cron!appendRule
  <2>5. QED
    BY <1>3, <2>1, <2>2, <2>3, <2>4 DEF Cron!Next
<1>4. CronIInv /\ [Cron!Next]_(Cron!vars) =>
        [\A i \in Id : conf[i] # None /\ conf[i].owner # op.user => conf'[i] = conf[i]]_(Cron!vars)
  BY <1>3
<1>5. QED
  BY <1>1, <1>2, <1>4, PTL DEF Cron!Spec, Cron!OthersAreSpared

-----------------------------------------------------------------------------
(* The whitelist.                                                          *)

\* The holder of the mutexes is a user who is not reported gone; a request that came
\* through the API has found clamd awake, and a removal has taken out all the lines
\* that it can read; when it comes to the reload the database has been rebuilt.
UpdateIsSound ==
    /\ update.pc # "free" => update.user \in User \ forgotten
    /\ update.pc # "free" /\ update.what = "edit" => ~asleep
    /\ update.pc \in {"add", "delete"} => update.what = "edit"
    /\ update.pc # "free" /\ update.what = "remove" =>
          \A l \in exclude : l[2] = update.user => ~List!parseWhitelistOwnedLine(l)
    /\ update.pc = "reload" => sfp = List!Trusted

\* Unless the last rebuild or reload failed, the database is that of the file, except
\* between the change of the file and the rebuild, and clamd has loaded it, except
\* until the reload.
DatabaseFollows ==
    /\ update.pc # "exclude" => sfp = List!Trusted
    /\ update.pc \in {"free", "add", "delete"} /\ ~asleep => loaded = sfp

NoneLeft == \A l \in exclude : l[2] \in forgotten => ~List!parseWhitelistOwnedLine(l)

ListIInv ==
    /\ List!TypeOK /\ UpdateIsSound
    /\ ~broken => DatabaseFollows
    /\ NoneLeft

LEMMA ListInit == List!Init => ListIInv
<1> SUFFICES ASSUME List!Init PROVE ListIInv
  OBVIOUS
<1>1. /\ exclude = {} /\ sfp = {} /\ loaded = {} /\ asleep = FALSE /\ scan = FALSE /\ forgotten = {}
      /\ broken = FALSE
      /\ update = [pc |-> "free", user |-> None, what |-> "edit"]
  BY DEF List!Init, List!Free
<1>2. List!TypeOK
  BY <1>1 DEF List!TypeOK, List!Holder
<1>3. UpdateIsSound /\ NoneLeft
  BY <1>1 DEF UpdateIsSound, NoneLeft
<1>4. List!Trusted = {}
  BY <1>1 DEF List!Trusted
<1>5. QED
  BY <1>1, <1>2, <1>3, <1>4 DEF ListIInv, DatabaseFollows

\* The effect of each action on the variables that are not flags.
LEMMA ListUpdate ==
    ASSUME List!WhitelistAssumption, ListIInv, NEW u \in User, NEW what \in {"add", "delete"},
           List!updateWhitelist(u, what)
    PROVE  ListIInv'
<1>1. /\ update.pc = "free" /\ u \notin forgotten /\ ~asleep
      /\ update' = [pc |-> what, user |-> u, what |-> "edit"]
      /\ UNCHANGED <<exclude, sfp, loaded, broken, forgotten, asleep, scan>>
  BY DEF List!updateWhitelist, List!Rest
<1>2. update'.pc = what /\ update'.user = u /\ update'.what = "edit" /\ update' \in List!Holder
  BY <1>1 DEF List!Holder
<1>3. List!TypeOK'
  BY <1>1, <1>2 DEF ListIInv, List!TypeOK
<1>4. UpdateIsSound' /\ NoneLeft'
  BY <1>1, <1>2 DEF ListIInv, UpdateIsSound, NoneLeft, List!parseWhitelistOwnedLine,
     List!Trusted, List!parse_exclude_line
<1>5. DatabaseFollows => DatabaseFollows'
  BY <1>1, <1>2 DEF DatabaseFollows, List!Trusted, List!parse_exclude_line
<1>6. QED
  BY <1>1, <1>3, <1>4, <1>5 DEF ListIInv

LEMMA ListAdd ==
    ASSUME List!WhitelistAssumption, ListIInv, NEW p \in Path, List!addWhitelistEntry(p)
    PROVE  ListIInv'
<1>1. /\ update.pc = "add" /\ exclude' = exclude \cup {<<p, update.user>>}
      /\ update' = [update EXCEPT !.pc = "exclude"]
      /\ UNCHANGED <<sfp, loaded, broken, forgotten, asleep, scan>>
  BY DEF List!addWhitelistEntry, List!Rest, List!To
<1>2. /\ update'.pc = "exclude" /\ update'.user = update.user /\ update'.what = update.what
      /\ update' \in List!Holder
  BY <1>1 DEF ListIInv, List!TypeOK, List!Holder
<1>3. update.user \in User \ forgotten /\ update.what = "edit"
  BY <1>1 DEF ListIInv, UpdateIsSound
<1>4. List!TypeOK'
  BY <1>1, <1>2, <1>3 DEF ListIInv, List!TypeOK
<1>5. UpdateIsSound' /\ NoneLeft'
  BY <1>1, <1>2, <1>3 DEF ListIInv, UpdateIsSound, NoneLeft, List!parseWhitelistOwnedLine,
     List!Trusted, List!parse_exclude_line
<1>6. DatabaseFollows'
  BY <1>2 DEF DatabaseFollows
<1>7. QED
  BY <1>4, <1>5, <1>6 DEF ListIInv

\* configFileMu and clamavPowerMu are given back.
LEMMA ListEnds ==
    ASSUME update' = List!Free
    PROVE  update'.pc = "free" /\ update' \in List!Holder
BY DEF List!Free, List!Holder

LEMMA ListDelete ==
    ASSUME List!WhitelistAssumption, ListIInv, NEW p \in Path, List!deleteWhitelistEntry(p)
    PROVE  ListIInv'
<1> DEFINE line == <<p, update.user>>
<1>1. update.pc = "delete" /\ UNCHANGED <<sfp, loaded, broken, forgotten, asleep, scan>>
  BY DEF List!deleteWhitelistEntry, List!Rest
<1>2. CASE exclude' = exclude \ {line} /\ update' = [update EXCEPT !.pc = "exclude"]
  <2>1. /\ update'.pc = "exclude" /\ update'.user = update.user /\ update'.what = update.what
        /\ update' \in List!Holder
    BY <1>2 DEF ListIInv, List!TypeOK, List!Holder
  <2>2. List!TypeOK'
    BY <1>1, <1>2, <2>1 DEF ListIInv, List!TypeOK
  <2>3. UpdateIsSound' /\ NoneLeft'
    BY <1>1, <1>2, <2>1 DEF ListIInv, UpdateIsSound, NoneLeft, List!parseWhitelistOwnedLine,
       List!Trusted, List!parse_exclude_line
  <2>4. DatabaseFollows'
    BY <2>1 DEF DatabaseFollows
  <2>5. QED
    BY <1>1, <2>2, <2>3, <2>4 DEF ListIInv
<1>3. CASE update' = List!Free /\ UNCHANGED exclude
  <2>1. update'.pc = "free" /\ update' \in List!Holder
    BY <1>3, ListEnds
  <2>2. List!TypeOK'
    BY <1>1, <1>3, <2>1 DEF ListIInv, List!TypeOK
  <2>3. UpdateIsSound' /\ NoneLeft'
    BY <1>1, <1>3, <2>1 DEF ListIInv, UpdateIsSound, NoneLeft, List!parseWhitelistOwnedLine,
       List!Trusted, List!parse_exclude_line
  <2>4. DatabaseFollows => DatabaseFollows'
    BY <1>1, <1>3, <2>1 DEF DatabaseFollows, List!Trusted, List!parse_exclude_line
  <2>5. QED
    BY <1>1, <2>2, <2>3, <2>4 DEF ListIInv
<1>4. QED
  BY <1>2, <1>3 DEF List!deleteWhitelistEntry, List!To

LEMMA ListRemove ==
    ASSUME List!WhitelistAssumption, ListIInv, NEW u \in User, List!removeWhitelistForUser(u)
    PROVE  ListIInv'
<1> DEFINE mine == {l \in exclude : l[2] = u /\ List!parseWhitelistOwnedLine(l)}
<1>1. /\ update.pc = "free" /\ u \notin forgotten /\ exclude' = exclude \ mine
      /\ UNCHANGED <<sfp, loaded, broken, asleep, scan>>
  BY DEF List!removeWhitelistForUser, List!Rest
<1>2. CASE mine = {} /\ forgotten' = forgotten \cup {u} /\ UNCHANGED update
  <2>1. exclude' = exclude
    BY <1>1, <1>2
  <2>2. List!TypeOK'
    BY <1>1, <1>2, <2>1 DEF ListIInv, List!TypeOK
  <2>3. UpdateIsSound' /\ NoneLeft'
    BY <1>1, <1>2, <2>1 DEF ListIInv, UpdateIsSound, NoneLeft, List!parseWhitelistOwnedLine,
       List!Trusted, List!parse_exclude_line
  <2>4. DatabaseFollows => DatabaseFollows'
    BY <1>1, <1>2, <2>1 DEF DatabaseFollows, List!Trusted, List!parse_exclude_line
  <2>5. QED
    BY <1>1, <2>2, <2>3, <2>4 DEF ListIInv
<1>3. CASE update' = [pc |-> "exclude", user |-> u, what |-> "remove"] /\ UNCHANGED forgotten
  <2>1. /\ update'.pc = "exclude" /\ update'.user = u /\ update'.what = "remove"
        /\ update' \in List!Holder
    BY <1>3 DEF List!Holder
  <2>2. List!TypeOK'
    BY <1>1, <1>3, <2>1 DEF ListIInv, List!TypeOK
  <2>3. UpdateIsSound' /\ NoneLeft'
    BY <1>1, <1>3, <2>1 DEF ListIInv, UpdateIsSound, NoneLeft, List!parseWhitelistOwnedLine,
       List!Trusted, List!parse_exclude_line
  <2>4. DatabaseFollows'
    BY <2>1 DEF DatabaseFollows
  <2>5. QED
    BY <1>1, <2>2, <2>3, <2>4 DEF ListIInv
<1>4. QED
  BY <1>2, <1>3 DEF List!removeWhitelistForUser

LEMMA TrustedIsPath == ListIInv => List!Trusted \subseteq Path
BY DEF ListIInv, List!TypeOK, List!Trusted

LEMMA ListRebuild ==
    ASSUME List!WhitelistAssumption, ListIInv, List!runExcludeScript
    PROVE  ListIInv'
<1>1. update.pc = "exclude" /\ UNCHANGED <<exclude, loaded, forgotten, asleep, scan>>
  BY DEF List!runExcludeScript, List!Rest
<1>2. CASE sfp' = List!Trusted /\ update' = [update EXCEPT !.pc = "reload"] /\ UNCHANGED broken
  <2>1. /\ update'.pc = "reload" /\ update'.user = update.user /\ update'.what = update.what
        /\ update' \in List!Holder
    BY <1>2 DEF ListIInv, List!TypeOK, List!Holder
  <2>2. List!TypeOK'
    BY <1>1, <1>2, <2>1, TrustedIsPath DEF ListIInv, List!TypeOK
  <2>3. UpdateIsSound' /\ NoneLeft'
    BY <1>1, <1>2, <2>1 DEF ListIInv, UpdateIsSound, NoneLeft, List!parseWhitelistOwnedLine,
       List!Trusted, List!parse_exclude_line
  <2>4. DatabaseFollows'
    BY <1>1, <1>2, <2>1 DEF DatabaseFollows, List!Trusted, List!parse_exclude_line
  <2>5. QED
    BY <1>2, <2>2, <2>3, <2>4 DEF ListIInv
<1>3. CASE /\ broken' = TRUE /\ update' = List!Free
           /\ \E part \in SUBSET List!Trusted : sfp' \in {sfp, part}
  <2>1. update'.pc = "free" /\ update' \in List!Holder
    BY <1>3, ListEnds
  <2>2. sfp' \subseteq Path
    BY <1>3, TrustedIsPath DEF ListIInv, List!TypeOK
  <2>3. List!TypeOK'
    BY <1>1, <1>3, <2>1, <2>2 DEF ListIInv, List!TypeOK
  <2>4. UpdateIsSound' /\ NoneLeft'
    BY <1>1, <2>1 DEF ListIInv, UpdateIsSound, NoneLeft, List!parseWhitelistOwnedLine,
       List!Trusted, List!parse_exclude_line
  <2>5. QED
    BY <1>3, <2>3, <2>4 DEF ListIInv
<1>4. QED
  BY <1>2, <1>3 DEF List!runExcludeScript, List!To

LEMMA ListReload ==
    ASSUME List!WhitelistAssumption, ListIInv, List!reloadClamdDatabase
    PROVE  ListIInv'
<1>1. /\ update.pc = "reload" /\ update' = List!Free
      /\ UNCHANGED <<exclude, sfp, asleep, scan>>
  BY DEF List!reloadClamdDatabase, List!Rest
<1>2. update'.pc = "free" /\ update' \in List!Holder
  BY <1>1, ListEnds
<1>3. update.user \in User
  BY <1>1 DEF ListIInv, UpdateIsSound
<1>4. CASE /\ ~asleep /\ loaded' = sfp /\ broken' = FALSE
           /\ forgotten' = IF update.what = "remove" THEN forgotten \cup {update.user} ELSE forgotten
  <2>1. List!TypeOK'
    BY <1>1, <1>2, <1>3, <1>4 DEF ListIInv, List!TypeOK
  <2>2. UpdateIsSound'
    BY <1>2 DEF UpdateIsSound
  <2>3. NoneLeft'
    BY <1>1, <1>4 DEF ListIInv, UpdateIsSound, NoneLeft, List!parseWhitelistOwnedLine,
       List!Trusted, List!parse_exclude_line
  <2>4. DatabaseFollows'
    BY <1>1, <1>2, <1>4 DEF ListIInv, UpdateIsSound, DatabaseFollows, List!Trusted, List!parse_exclude_line
  <2>5. QED
    BY <2>1, <2>2, <2>3, <2>4 DEF ListIInv
<1>5. CASE broken' = (broken \/ ~asleep) /\ UNCHANGED <<loaded, forgotten>>
  <2>1. List!TypeOK'
    BY <1>1, <1>2, <1>5 DEF ListIInv, List!TypeOK
  <2>2. UpdateIsSound' /\ NoneLeft'
    BY <1>1, <1>2, <1>5 DEF ListIInv, UpdateIsSound, NoneLeft, List!parseWhitelistOwnedLine,
       List!Trusted, List!parse_exclude_line
  <2>3. ~broken' => ~broken /\ DatabaseFollows'
    BY <1>1, <1>2, <1>5 DEF ListIInv, List!TypeOK, DatabaseFollows, List!Trusted, List!parse_exclude_line
  <2>4. QED
    BY <2>1, <2>2, <2>3 DEF ListIInv
<1>6. QED
  BY <1>4, <1>5 DEF List!reloadClamdDatabase

LEMMA ListScans ==
    ASSUME ListIInv, List!scanStarts \/ List!scanEnds
    PROVE  ListIInv'
<1>1. UNCHANGED <<exclude, sfp, loaded, update, broken, forgotten>> /\ asleep' = asleep
  BY DEF List!scanStarts, List!scanEnds
<1>2. scan' \in BOOLEAN /\ (asleep => ~scan')
  BY DEF List!scanStarts, List!scanEnds, ListIInv, List!TypeOK
<1>3. List!TypeOK'
  BY <1>1, <1>2 DEF ListIInv, List!TypeOK
<1>4. UpdateIsSound' /\ NoneLeft'
  BY <1>1 DEF ListIInv, UpdateIsSound, NoneLeft, List!parseWhitelistOwnedLine,
     List!Trusted, List!parse_exclude_line
<1>5. DatabaseFollows => DatabaseFollows'
  BY <1>1 DEF DatabaseFollows, List!Trusted, List!parse_exclude_line
<1>6. QED
  BY <1>1, <1>3, <1>4, <1>5 DEF ListIInv

LEMMA ListSleep ==
    ASSUME ListIInv, List!sleep
    PROVE  ListIInv'
<1>1. /\ update.pc = "free" /\ ~scan /\ asleep' = TRUE /\ loaded' = {}
      /\ UNCHANGED <<exclude, sfp, update, broken, forgotten>> /\ scan' = scan
  BY DEF List!sleep
<1>2. List!TypeOK'
  BY <1>1 DEF ListIInv, List!TypeOK
<1>3. UpdateIsSound' /\ NoneLeft'
  BY <1>1 DEF ListIInv, UpdateIsSound, NoneLeft, List!parseWhitelistOwnedLine,
     List!Trusted, List!parse_exclude_line
<1>4. DatabaseFollows => DatabaseFollows'
  BY <1>1 DEF DatabaseFollows, List!Trusted, List!parse_exclude_line
<1>5. QED
  BY <1>1, <1>2, <1>3, <1>4 DEF ListIInv

LEMMA ListWake ==
    ASSUME ListIInv, List!wake
    PROVE  ListIInv'
<1>1. /\ asleep /\ asleep' = FALSE /\ loaded' = sfp
      /\ UNCHANGED <<exclude, sfp, update, broken, forgotten>> /\ scan' = scan
  BY DEF List!wake
<1>2. List!TypeOK'
  BY <1>1 DEF ListIInv, List!TypeOK
<1>3. UpdateIsSound' /\ NoneLeft'
  BY <1>1 DEF ListIInv, UpdateIsSound, NoneLeft, List!parseWhitelistOwnedLine,
     List!Trusted, List!parse_exclude_line
<1>4. DatabaseFollows => DatabaseFollows'
  BY <1>1 DEF DatabaseFollows, List!Trusted, List!parse_exclude_line
<1>5. QED
  BY <1>1, <1>2, <1>3, <1>4 DEF ListIInv

LEMMA ListRestart ==
    ASSUME ListIInv, List!restart
    PROVE  ListIInv'
<1>1. /\ sfp' = List!Trusted /\ loaded' = List!Trusted /\ update' = List!Free
      /\ asleep' = FALSE /\ scan' = FALSE /\ broken' = FALSE
      /\ UNCHANGED <<exclude, forgotten>>
  BY DEF List!restart
<1>2. update'.pc = "free" /\ update' \in List!Holder
  BY <1>1, ListEnds
<1>3. List!TypeOK'
  BY <1>1, <1>2, TrustedIsPath DEF ListIInv, List!TypeOK
<1>4. UpdateIsSound' /\ NoneLeft'
  BY <1>1, <1>2 DEF ListIInv, UpdateIsSound, NoneLeft, List!parseWhitelistOwnedLine,
     List!Trusted, List!parse_exclude_line
<1>5. DatabaseFollows'
  BY <1>1, <1>2 DEF DatabaseFollows, List!Trusted, List!parse_exclude_line
<1>6. QED
  BY <1>3, <1>4, <1>5 DEF ListIInv

LEMMA ListNext ==
    ASSUME List!WhitelistAssumption, ListIInv, [List!Next]_(List!vars)
    PROVE  ListIInv'
<1>1. CASE \E u \in User : List!updateWhitelist(u, "add") \/ List!updateWhitelist(u, "delete")
  BY <1>1, ListUpdate
<1>2. CASE \E u \in User : List!removeWhitelistForUser(u)
  BY <1>2, ListRemove
<1>3. CASE \E p \in Path : List!addWhitelistEntry(p) \/ List!deleteWhitelistEntry(p)
  BY <1>3, ListAdd, ListDelete
<1>4. CASE List!runExcludeScript \/ List!reloadClamdDatabase
  BY <1>4, ListRebuild, ListReload
<1>5. CASE List!scanStarts \/ List!scanEnds
  BY <1>5, ListScans
<1>6. CASE List!sleep \/ List!wake \/ List!restart
  BY <1>6, ListSleep, ListWake, ListRestart
<1>7. CASE UNCHANGED List!vars
  <2>1. UNCHANGED <<exclude, sfp, loaded, update, broken, forgotten>> /\ asleep' = asleep /\ scan' = scan
    BY <1>7 DEF List!vars
  <2>2. List!TypeOK'
    BY <2>1 DEF ListIInv, List!TypeOK
  <2>3. UpdateIsSound' /\ NoneLeft'
    BY <2>1 DEF ListIInv, UpdateIsSound, NoneLeft, List!parseWhitelistOwnedLine,
       List!Trusted, List!parse_exclude_line
  <2>4. DatabaseFollows => DatabaseFollows'
    BY <2>1 DEF DatabaseFollows, List!Trusted, List!parse_exclude_line
  <2>5. QED
    BY <2>1, <2>2, <2>3, <2>4 DEF ListIInv
<1>8. QED
  BY <1>1, <1>2, <1>3, <1>4, <1>5, <1>6, <1>7 DEF List!Next

\* What clamd trusts is what the entries of all users say whenever it is awake and no
\* update is in progress, it never falls asleep between the check of a request and the
\* reload, and nothing of a deleted account is trusted any more when its entries are
\* reported gone (updateWhitelist, removeWhitelistForUser).
THEOREM TrustFollowsFile == List!Spec => []WhitelistInv
<1>1. List!Init => ListIInv
  BY ListInit
<1>2. ListIInv /\ [List!Next]_(List!vars) => ListIInv'
  BY ListNext, ListConstants
<1>3. ASSUME ListIInv PROVE WhitelistInv
  <2>1. List!TypeOK /\ List!AwakeForReload
    BY <1>3 DEF ListIInv, UpdateIsSound, List!AwakeForReload
  <2>2. ~broken => List!TrustIsCurrent
    BY <1>3 DEF ListIInv, DatabaseFollows, List!TrustIsCurrent
  <2>3. ASSUME ~broken, Wide = {} PROVE List!RemovedIsForgotten
    <3>1. \A l \in exclude : l[2] \notin forgotten
      BY <1>3, <2>3 DEF ListIInv, NoneLeft, List!parseWhitelistOwnedLine
    <3>2. ASSUME update.pc = "free", forgotten = User PROVE loaded = {}
      <4>1. exclude = {}
        BY <2>1, <3>1, <3>2 DEF List!TypeOK
      <4>2. List!Trusted = {}
        BY <4>1 DEF List!Trusted
      <4>3. sfp = {}
        BY <1>3, <2>3, <3>2, <4>2 DEF ListIInv, DatabaseFollows
      <4>4. QED
        BY <1>3, <2>3, <3>2, <4>3 DEF ListIInv, DatabaseFollows, List!TypeOK
    <3>3. QED
      BY <3>1, <3>2 DEF List!RemovedIsForgotten
  <2>4. QED
    BY <2>1, <2>2, <2>3 DEF WhitelistInv, List!WhitelistInv
<1>4. QED
  BY <1>1, <1>2, <1>3, PTL DEF List!Spec

\* An update takes away only entries of the user it is for, also when another user
\* has an entry for the same path (deleteWhitelistEntry, removeWhitelistForUser).
LEMMA ListSparesOthers == List!Spec => List!OthersAreSpared
<1>1. List!Init => ListIInv
  BY ListInit
<1>2. ListIInv /\ [List!Next]_(List!vars) => ListIInv'
  BY ListNext, ListConstants
<1>3. ASSUME ListIInv, List!Next, NEW l \in exclude, l \notin exclude'
      PROVE  l[2] = update'.user
  <2>1. ASSUME NEW p \in Path, List!deleteWhitelistEntry(p) PROVE l[2] = update'.user
    <3>1. l = <<p, update.user>> /\ update' = [update EXCEPT !.pc = "exclude"]
      BY <1>3, <2>1 DEF List!deleteWhitelistEntry, List!To
    <3>2. QED
      BY <1>3, <3>1 DEF ListIInv, List!TypeOK, List!Holder
  <2>2. CASE \E u \in User : List!removeWhitelistForUser(u)
    BY <1>3, <2>2 DEF List!removeWhitelistForUser
  <2>3. QED
    BY <1>3, <2>1, <2>2 DEF List!Next, List!updateWhitelist, List!addWhitelistEntry, List!runExcludeScript,
       List!reloadClamdDatabase, List!scanStarts, List!scanEnds, List!sleep, List!wake, List!restart
<1>4. ListIInv /\ [List!Next]_(List!vars) =>
        [\A l \in exclude : l \notin exclude' => l[2] = update'.user]_(List!vars)
  BY <1>3
<1>5. QED
  BY <1>1, <1>2, <1>4, PTL DEF List!Spec, List!OthersAreSpared

\* However the lines of the files have moved and whoever has an entry for the same
\* path, nobody changes a cron rule or takes away a whitelist entry of another user
\* (findCronRuleBlock, saveCronConfigDoc, deleteWhitelistEntry,
\* removeWhitelistForUser).
THEOREM OthersKeepTheirs == Cron!Spec /\ List!Spec => OthersAreSpared
BY CronSparesOthers, ListSparesOthers DEF OthersAreSpared

-----------------------------------------------------------------------------
(* clamavweb.conf.                                                         *)

\* A request asks for what it sets, and otherwise for what it found; no request is
\* handled by a server that is down; and as long as they come one at a time there
\* is no other, and what it found is still what the server works with.
RequestsAreSound ==
    \A r \in Request : req[r].pc # "idle" =>
        /\ server
        /\ \A k \in DOMAIN req[r].set : req[r].cfg[k] = req[r].set[k]
        /\ \A k \in Config!Key \ DOMAIN req[r].set : req[r].cfg[k] = req[r].old[k]
        /\ ~overlapped /\ req[r].pc = "update" => req[r].old = mem
        /\ ~overlapped => \A s \in Request \ {r} : req[s].pc = "idle"

\* Until somebody edits the file, the timer has the configured interval, has been
\* told of it, or will be told by the request that has just changed it.
TimerIsTold ==
    /\ edits = 0 => ~edited
    /\ ~overlapped /\ server /\ edits = 0 =>
          \/ notice \/ timer = mem["timer"]
          \/ \E r \in Request : req[r].pc = "notify" /\ req[r].old["timer"] # req[r].cfg["timer"]

ConfigIInv == Config!TypeOK /\ Config!MemoryIsFile /\ RequestsAreSound /\ TimerIsTold

LEMMA DefaultIsLegal ==
    /\ Config!defaultAppConfig \in [Config!Key -> Config!Value]
    /\ Config!validateAppConfig(Config!defaultAppConfig)
BY DEF Config!defaultAppConfig, Config!Key, Config!Value, Config!validateAppConfig

\* What the parser makes of a file is a configuration, and of a file with all its
\* keys it is that file.
LEMMA ParsedFile ==
    ASSUME Config!ConfigAssumption, NEW f \in [Config!Key -> Config!Value \cup {Absent}]
    PROVE  /\ Config!Parsed(f) \in [Config!Key -> Config!Value]
           /\ f \in [Config!Key -> Config!Value] => Config!Parsed(f) = f
BY DefaultIsLegal DEF Config!ConfigAssumption, Config!Parsed

\* A merged file has all its keys.
LEMMA MergedFile ==
    ASSUME NEW f \in [Config!Key -> Config!Value \cup {Absent}],
           NEW c \in [Config!Key -> Config!Value], NEW changed
    PROVE  Config!mergeAppConfigContent(f, c, changed) \in [Config!Key -> Config!Value]
BY DEF Config!mergeAppConfigContent

LEMMA NoRequestIsCopy == Config!NoRequest \in Config!Copy /\ Config!NoRequest.pc = "idle"
BY DefaultIsLegal DEF Config!NoRequest, Config!Copy

LEMMA ConfigInit == Config!ConfigAssumption /\ Config!Init => ConfigIInv
<1> SUFFICES ASSUME Config!ConfigAssumption, Config!Init PROVE ConfigIInv
  OBVIOUS
<1>1. /\ file = Config!defaultAppConfig /\ mem = file /\ bad = FALSE /\ server = TRUE
      /\ req = [r \in Request |-> Config!NoRequest] /\ notice = FALSE /\ timer = mem["timer"]
      /\ edited = FALSE /\ edits = 0 /\ overlapped = FALSE
  BY DEF Config!Init
<1>2. \A r \in Request : req[r] = Config!NoRequest
  BY <1>1
<1>3. mem \in [Config!Key -> Config!Value] /\ timer \in Config!Value
  BY <1>1, DefaultIsLegal DEF Config!Key
<1>4. file \in [Config!Key -> Config!Value \cup {Absent}]
  BY <1>1, <1>3
<1>5. Config!TypeOK
  BY <1>1, <1>3, <1>4, DefaultIsLegal, NoRequestIsCopy DEF Config!TypeOK
<1>6. Config!MemoryIsFile /\ TimerIsTold
  BY <1>1 DEF Config!MemoryIsFile, TimerIsTold
<1>7. RequestsAreSound
  BY <1>2, NoRequestIsCopy DEF RequestsAreSound
<1>8. QED
  BY <1>5, <1>6, <1>7 DEF ConfigIInv

\* The file in other hands.
LEMMA ConfigEdited ==
    ASSUME Config!ConfigAssumption, ConfigIInv,
           \/ \E k \in Config!Key, v \in Config!Value \cup {Absent} : Config!editFile(k, v)
           \/ Config!spoilFile
    PROVE  ConfigIInv'
<1>1. /\ edits' = edits + 1 /\ edited' = TRUE /\ mem' = mem /\ server' = server /\ req' = req
      /\ notice' = notice /\ timer' = timer /\ overlapped' = overlapped
  BY DEF Config!editFile, Config!spoilFile
<1>2. file' \in [Config!Key -> Config!Value \cup {Absent}] /\ bad' \in BOOLEAN
  BY DEF ConfigIInv, Config!TypeOK, Config!editFile, Config!spoilFile
<1>3. Config!TypeOK' /\ edits' # 0
  BY <1>1, <1>2 DEF ConfigIInv, Config!TypeOK, Config!validateAppConfig
<1>4. Config!MemoryIsFile' /\ TimerIsTold'
  BY <1>1, <1>3 DEF Config!MemoryIsFile, TimerIsTold
<1>5. RequestsAreSound'
  BY <1>1 DEF ConfigIInv, RequestsAreSound
<1>6. QED
  BY <1>3, <1>4, <1>5 DEF ConfigIInv

LEMMA ConfigGet ==
    ASSUME Config!ConfigAssumption, ConfigIInv, NEW r \in Request, NEW set \in Sets, Config!getConfig(r, set)
    PROVE  ConfigIInv'
<1> DEFINE cfg == [k \in Config!Key |-> IF k \in DOMAIN set THEN set[k] ELSE mem[k]]
           new == [pc |-> "update", set |-> set, old |-> mem, cfg |-> cfg]
<1>1. /\ server /\ req[r].pc = "idle" /\ req' = [req EXCEPT ![r] = new]
      /\ file' = file /\ bad' = bad /\ mem' = mem /\ server' = server /\ notice' = notice
      /\ timer' = timer /\ edited' = edited /\ edits' = edits
      /\ overlapped' = (overlapped \/ \E s \in Request \ {r} : req[s].pc # "idle")
  BY DEF Config!getConfig
<1>2. mem \in [Config!Key -> Config!Value]
  BY DEF ConfigIInv, Config!TypeOK
<1>3. cfg \in [Config!Key -> Config!Value]
  BY <1>2 DEF Config!ConfigAssumption
<1>4. /\ \A k \in DOMAIN set : cfg[k] = set[k]
      /\ \A k \in Config!Key \ DOMAIN set : cfg[k] = mem[k]
  BY DEF Config!ConfigAssumption
<1> HIDE DEF cfg
<1>5. /\ new \in Config!Copy /\ new.pc = "update" /\ new.set = set /\ new.old = mem /\ new.cfg = cfg
  BY <1>2, <1>3 DEF Config!Copy
<1> HIDE DEF new
<1>6. req'[r] = new /\ \A s \in Request \ {r} : req'[s] = req[s]
  BY <1>1 DEF ConfigIInv, Config!TypeOK
<1>7. Config!TypeOK'
  BY <1>1, <1>5 DEF ConfigIInv, Config!TypeOK, Config!validateAppConfig
<1>8. Config!MemoryIsFile'
  BY <1>1 DEF ConfigIInv, Config!MemoryIsFile
<1>9. RequestsAreSound'
  <2> SUFFICES ASSUME NEW s \in Request, req'[s].pc # "idle"
               PROVE  /\ server
                      /\ \A k \in DOMAIN req'[s].set : req'[s].cfg[k] = req'[s].set[k]
                      /\ \A k \in Config!Key \ DOMAIN req'[s].set : req'[s].cfg[k] = req'[s].old[k]
                      /\ ~overlapped' /\ req'[s].pc = "update" => req'[s].old = mem
                      /\ ~overlapped' => \A i \in Request \ {s} : req'[i].pc = "idle"
    BY <1>1 DEF RequestsAreSound
  <2>0. ASSUME ~overlapped' PROVE ~overlapped /\ \A i \in Request \ {r} : req[i].pc = "idle"
    BY <1>1, <2>0
  <2>1. CASE s = r
    BY <1>1, <1>4, <1>5, <1>6, <2>0, <2>1
  <2>2. CASE s # r
    BY <1>1, <1>6, <2>0, <2>2 DEF ConfigIInv, RequestsAreSound
  <2>3. QED
    BY <2>1, <2>2
<1>10. TimerIsTold'
  BY <1>1, <1>6 DEF ConfigIInv, TimerIsTold
<1>11. QED
  BY <1>7, <1>8, <1>9, <1>10 DEF ConfigIInv

\* The merged file, when nobody has edited it since, says what the request asks for.
LEMMA UneditedMerge ==
    ASSUME ConfigIInv, NEW r \in Request, req[r].pc = "update", ~edited
    PROVE  Config!Merged(r) = req[r].cfg
<1>1. file = mem /\ mem \in [Config!Key -> Config!Value] /\ req[r].cfg \in [Config!Key -> Config!Value]
  BY DEF ConfigIInv, RequestsAreSound, Config!MemoryIsFile, Config!TypeOK, Config!Copy
<1>2. QED
  BY <1>1 DEF Config!Merged, Config!mergeAppConfigContent, Config!changedAppConfigKeys

LEMMA ConfigUpdate ==
    ASSUME Config!ConfigAssumption, ConfigIInv, NEW r \in Request, Config!update(r)
    PROVE  ConfigIInv'
<1>1. /\ req[r].pc = "update" /\ Config!parseAppConfig(Config!Merged(r))
      /\ file' = Config!Merged(r) /\ mem' = Config!Final(r) /\ edited' = FALSE
      /\ req' = [req EXCEPT ![r].pc = "notify"]
      /\ bad' = bad /\ server' = server /\ notice' = notice /\ timer' = timer /\ edits' = edits
      /\ overlapped' = overlapped
  BY DEF Config!update
<1>2. req[r] \in Config!Copy /\ file \in [Config!Key -> Config!Value \cup {Absent}]
  BY DEF ConfigIInv, Config!TypeOK
<1>3. Config!Merged(r) \in [Config!Key -> Config!Value]
  BY <1>2, MergedFile DEF Config!Merged, Config!Copy
<1>4. mem' = Config!Merged(r)
  BY <1>1, <1>3, ParsedFile DEF Config!Final
<1>5. ~bad /\ Config!validateAppConfig(Config!Merged(r))
  BY <1>1, <1>4 DEF Config!parseAppConfig, Config!Final
<1>6. /\ req'[r].pc = "notify" /\ req'[r].set = req[r].set /\ req'[r].old = req[r].old
      /\ req'[r].cfg = req[r].cfg /\ req'[r] \in Config!Copy
      /\ \A s \in Request \ {r} : req'[s] = req[s]
  BY <1>1, <1>2 DEF ConfigIInv, Config!TypeOK, Config!Copy
<1>7. req' \in [Request -> Config!Copy]
  BY <1>1, <1>6 DEF ConfigIInv, Config!TypeOK
<1>8. Config!TypeOK'
  BY <1>1, <1>3, <1>4, <1>5, <1>7 DEF ConfigIInv, Config!TypeOK, Config!validateAppConfig
<1>9. Config!MemoryIsFile'
  BY <1>1, <1>4, <1>5 DEF Config!MemoryIsFile
<1>10. RequestsAreSound'
  <2> SUFFICES ASSUME NEW s \in Request, req'[s].pc # "idle"
               PROVE  /\ server
                      /\ \A k \in DOMAIN req'[s].set : req'[s].cfg[k] = req'[s].set[k]
                      /\ \A k \in Config!Key \ DOMAIN req'[s].set : req'[s].cfg[k] = req'[s].old[k]
                      /\ ~overlapped /\ req'[s].pc = "update" => req'[s].old = mem'
                      /\ ~overlapped => \A i \in Request \ {s} : req'[i].pc = "idle"
    BY <1>1 DEF RequestsAreSound
  <2>1. CASE s = r
    BY <1>1, <1>6, <2>1 DEF ConfigIInv, RequestsAreSound
  <2>2. CASE s # r
    BY <1>1, <1>6, <2>2 DEF ConfigIInv, RequestsAreSound
  <2>3. QED
    BY <2>1, <2>2
<1>11. TimerIsTold'
  <2> SUFFICES ASSUME ~overlapped, server, edits = 0, ~notice,
                      req[r].old["timer"] = req[r].cfg["timer"]
               PROVE  timer = mem'["timer"]
    BY <1>1, <1>6 DEF TimerIsTold
  <2>1. mem' = req[r].cfg
    BY <1>1, <1>4, UneditedMerge DEF ConfigIInv, TimerIsTold
  <2>2. mem'["timer"] = mem["timer"]
    BY <1>1, <2>1 DEF ConfigIInv, RequestsAreSound
  <2>3. ~ \E s \in Request : req[s].pc = "notify"
    BY <1>1 DEF ConfigIInv, RequestsAreSound
  <2>4. QED
    BY <2>2, <2>3 DEF ConfigIInv, TimerIsTold
<1>12. QED
  BY <1>8, <1>9, <1>10, <1>11 DEF ConfigIInv

\* A request ends, with or without a notice.
LEMMA ConfigEnds ==
    ASSUME Config!ConfigAssumption, ConfigIInv, NEW r \in Request, Config!updateFails(r) \/ Config!notify(r)
    PROVE  ConfigIInv'
<1>1. /\ req' = [req EXCEPT ![r] = Config!NoRequest] /\ file' = file /\ bad' = bad /\ mem' = mem
      /\ server' = server /\ timer' = timer /\ edited' = edited /\ edits' = edits
      /\ overlapped' = overlapped
  BY DEF Config!updateFails, Config!notify
<1>2. /\ notice' \in BOOLEAN /\ (notice => notice')
      /\ req[r].pc = "notify" /\ req[r].old["timer"] # req[r].cfg["timer"] => notice'
  BY DEF Config!updateFails, Config!notify, ConfigIInv, Config!TypeOK
<1>3. req'[r].pc = "idle" /\ \A s \in Request \ {r} : req'[s] = req[s]
  BY <1>1, NoRequestIsCopy DEF ConfigIInv, Config!TypeOK
<1>4. Config!TypeOK'
  BY <1>1, <1>2, NoRequestIsCopy DEF ConfigIInv, Config!TypeOK, Config!validateAppConfig
<1>5. Config!MemoryIsFile'
  BY <1>1 DEF ConfigIInv, Config!MemoryIsFile
<1>6. RequestsAreSound'
  BY <1>1, <1>3 DEF ConfigIInv, RequestsAreSound
<1>7. TimerIsTold'
  BY <1>1, <1>2, <1>3 DEF ConfigIInv, TimerIsTold
<1>8. QED
  BY <1>4, <1>5, <1>6, <1>7 DEF ConfigIInv

LEMMA ConfigTimer ==
    ASSUME ConfigIInv, Config!restartTimer \/ Config!periodic
    PROVE  ConfigIInv'
<1>1. /\ timer' = mem["timer"] /\ notice' \in BOOLEAN /\ req' = req /\ file' = file /\ bad' = bad
      /\ mem' = mem /\ server' = server /\ edited' = edited /\ edits' = edits
      /\ overlapped' = overlapped
  BY DEF Config!restartTimer, Config!periodic, ConfigIInv, Config!TypeOK
<1>2. mem["timer"] \in Config!Value
  BY DEF ConfigIInv, Config!TypeOK, Config!Key
<1>3. Config!TypeOK'
  BY <1>1, <1>2 DEF ConfigIInv, Config!TypeOK, Config!validateAppConfig
<1>4. Config!MemoryIsFile' /\ RequestsAreSound'
  BY <1>1 DEF ConfigIInv, Config!MemoryIsFile, RequestsAreSound
<1>5. TimerIsTold'
  BY <1>1 DEF ConfigIInv, TimerIsTold
<1>6. QED
  BY <1>3, <1>4, <1>5 DEF ConfigIInv

LEMMA ConfigRestart ==
    ASSUME Config!ConfigAssumption, ConfigIInv, Config!ensureAndReload
    PROVE  ConfigIInv'
<1> DEFINE new == Config!Parsed(file)
           merged == Config!mergeAppConfigContent(file, new, {})
<1>1. /\ req' = [r \in Request |-> Config!NoRequest] /\ notice' = FALSE
      /\ bad' = bad /\ edits' = edits /\ overlapped' = FALSE /\ server' = Config!parseAppConfig(file)
      /\ IF server' THEN file' = merged /\ mem' = new /\ timer' = new["timer"] /\ edited' = FALSE
                    ELSE file' = file /\ mem' = mem /\ timer' = timer /\ edited' = edited
  BY DEF Config!ensureAndReload
<1>2. file \in [Config!Key -> Config!Value \cup {Absent}]
  BY DEF ConfigIInv, Config!TypeOK
<1>3. new \in [Config!Key -> Config!Value]
  BY <1>2, ParsedFile
<1>4. merged = new
  BY <1>2, <1>3 DEF Config!mergeAppConfigContent, Config!Parsed
<1>5. /\ Config!parseAppConfig(file) <=> ~bad /\ Config!validateAppConfig(new)
      /\ Config!parseAppConfig(file) \in BOOLEAN
  BY DEF Config!parseAppConfig
<1>6. new["timer"] \in Config!Value
  BY <1>3 DEF Config!Key
<1>7. req' \in [Request -> Config!Copy] /\ \A r \in Request : req'[r].pc = "idle"
  BY <1>1, NoRequestIsCopy
<1> HIDE DEF new, merged
<1>8. RequestsAreSound'
  BY <1>7 DEF RequestsAreSound
<1>9. CASE server'
  <2>1. file' = new /\ mem' = new /\ timer' = new["timer"] /\ edited' = FALSE /\ ~bad
    BY <1>1, <1>4, <1>5, <1>9
  <2>2. Config!validateAppConfig(new) /\ server' \in BOOLEAN
    BY <1>1, <1>5, <1>9
  <2>3. Config!TypeOK'
    BY <1>1, <1>3, <1>6, <1>7, <2>1, <2>2 DEF ConfigIInv, Config!TypeOK, Config!validateAppConfig
  <2>4. Config!MemoryIsFile' /\ TimerIsTold'
    BY <1>1, <2>1 DEF Config!MemoryIsFile, TimerIsTold
  <2>5. QED
    BY <1>8, <2>3, <2>4 DEF ConfigIInv
<1>10. CASE ~server'
  <2>1. file' = file /\ mem' = mem /\ timer' = timer /\ edited' = edited
    BY <1>1, <1>10
  <2>2. server' \in BOOLEAN
    BY <1>1, <1>5
  <2>3. Config!TypeOK'
    BY <1>1, <1>7, <2>1, <2>2 DEF ConfigIInv, Config!TypeOK, Config!validateAppConfig
  <2>4. Config!MemoryIsFile' /\ TimerIsTold'
    BY <1>1, <1>10, <2>1 DEF Config!MemoryIsFile, ConfigIInv, TimerIsTold
  <2>5. QED
    BY <1>8, <2>3, <2>4 DEF ConfigIInv
<1>11. QED
  BY <1>9, <1>10

LEMMA ConfigNext ==
    ASSUME Config!ConfigAssumption, ConfigIInv, [Config!Next]_(Config!vars)
    PROVE  ConfigIInv'
<1>1. CASE \/ \E k \in Config!Key, v \in Config!Value \cup {Absent} : Config!editFile(k, v)
           \/ Config!spoilFile
  BY <1>1, ConfigEdited
<1>2. CASE Config!restartTimer \/ Config!periodic \/ Config!ensureAndReload
  BY <1>2, ConfigTimer, ConfigRestart
<1>3. CASE \E r \in Request, set \in Sets : Config!getConfig(r, set)
  BY <1>3, ConfigGet
<1>4. CASE \E r \in Request : Config!update(r) \/ Config!updateFails(r) \/ Config!notify(r)
  BY <1>4, ConfigUpdate, ConfigEnds
<1>5. CASE UNCHANGED Config!vars
  <2>1. /\ file' = file /\ bad' = bad /\ mem' = mem /\ server' = server /\ req' = req
        /\ notice' = notice /\ timer' = timer /\ edited' = edited /\ edits' = edits
        /\ overlapped' = overlapped
    BY <1>5 DEF Config!vars
  <2>2. Config!TypeOK' /\ Config!MemoryIsFile'
    BY <2>1 DEF ConfigIInv, Config!TypeOK, Config!MemoryIsFile, Config!validateAppConfig
  <2>3. RequestsAreSound' /\ TimerIsTold'
    BY <2>1 DEF ConfigIInv, RequestsAreSound, TimerIsTold
  <2>4. QED
    BY <2>2, <2>3 DEF ConfigIInv
<1>6. QED
  BY <1>1, <1>2, <1>3, <1>4, <1>5 DEF Config!Next

\* The server works with a legal configuration whatever is written into the file, the
\* two agree until somebody edits it, and as long as requests come one at a time the
\* timer follows (appConfigStore.update, ensureAndReload, handleServiceConfig).
THEOREM MemoryFollowsFile == Config!Spec => []ConfigInv
<1>1. Config!Init => ConfigIInv
  BY ConfigInit, ConfigConstants
<1>2. ConfigIInv /\ [Config!Next]_(Config!vars) => ConfigIInv'
  BY ConfigNext, ConfigConstants
<1>3. ASSUME ConfigIInv PROVE ConfigInv
  <2>1. ~overlapped => Config!TimersFollow
    BY <1>3 DEF ConfigIInv, TimerIsTold, Config!TimersFollow
  <2>2. QED
    BY <1>3, <2>1 DEF ConfigIInv, ConfigInv, Config!ConfigInv
<1>4. QED
  BY <1>1, <1>2, <1>3, PTL DEF Config!Spec

\* A request that succeeds has what it asked for although its copy may be outdated,
\* and spares the keys that were edited by hand (changedAppConfigKeys,
\* mergeAppConfigContent).
THEOREM RequestsAreApplied == Config!Spec => RequestIsApplied
<1>1. Config!Init => ConfigIInv
  BY ConfigInit, ConfigConstants
<1>2. ConfigIInv /\ [Config!Next]_(Config!vars) => ConfigIInv'
  BY ConfigNext, ConfigConstants
<1>3. ASSUME ConfigIInv, Config!Next, NEW r \in Request, req[r].pc = "update", req'[r].pc = "notify"
      PROVE  Config!update(r)
  <2>1. req \in [Request -> Config!Copy]
    BY <1>3 DEF ConfigIInv, Config!TypeOK
  <2>2. ASSUME NEW s \in Request, Config!update(s) PROVE Config!update(r)
    <3>1. req' = [req EXCEPT ![s].pc = "notify"]
      BY <2>2 DEF Config!update
    <3>2. s = r
      BY <1>3, <2>1, <3>1
    <3>3. QED
      BY <2>2, <3>2
  <2>3. ASSUME NEW s \in Request, NEW set \in Sets, Config!getConfig(s, set) PROVE FALSE
    <3>1. req[s].pc = "idle" /\ \A i \in Request \ {s} : req'[i] = req[i]
      BY <2>1, <2>3 DEF Config!getConfig
    <3>2. QED
      BY <1>3, <3>1 DEF Config!getConfig
  <2>4. ASSUME NEW s \in Request, Config!updateFails(s) \/ Config!notify(s) PROVE FALSE
    <3>1. req' = [req EXCEPT ![s] = Config!NoRequest]
      BY <2>4 DEF Config!updateFails, Config!notify
    <3>2. QED
      BY <1>3, <2>1, <3>1, NoRequestIsCopy
  <2>5. CASE Config!ensureAndReload
    BY <1>3, <2>5, NoRequestIsCopy DEF Config!ensureAndReload
  <2>6. QED
    BY <1>3, <2>2, <2>3, <2>4, <2>5 DEF Config!Next, Config!editFile, Config!spoilFile,
       Config!restartTimer, Config!periodic
<1>4. ASSUME ConfigIInv, NEW r \in Request, Config!update(r)
      PROVE  mem' = Config!Merged(r) /\ file' = Config!Merged(r) /\ req[r].pc = "update"
  <2>1. req[r].cfg \in [Config!Key -> Config!Value] /\ file \in [Config!Key -> Config!Value \cup {Absent}]
    BY <1>4 DEF ConfigIInv, Config!TypeOK, Config!Copy
  <2>2. Config!Merged(r) \in [Config!Key -> Config!Value]
    BY <2>1, MergedFile DEF Config!Merged
  <2>3. QED
    BY <1>4, <2>1, <2>2, ParsedFile, ConfigConstants DEF Config!update, Config!Final
<1>5. ASSUME ConfigIInv, NEW r \in Request, Config!update(r), ~edited, NEW k \in DOMAIN req[r].set
      PROVE  mem'[k] = req[r].set[k]
  BY <1>4, <1>5, UneditedMerge DEF ConfigIInv, RequestsAreSound
<1>6. ASSUME ConfigIInv, NEW r \in Request, Config!update(r), ~overlapped,
             NEW k \in Config!Key \ DOMAIN req[r].set, file[k] # Absent
      PROVE  file'[k] = file[k]
  <2>1. req[r].cfg[k] = mem[k]
    BY <1>4, <1>6 DEF ConfigIInv, RequestsAreSound
  <2>2. QED
    BY <1>4, <1>6, <2>1 DEF Config!Merged, Config!mergeAppConfigContent, Config!changedAppConfigKeys
<1>7. ASSUME ConfigIInv, Config!Next PROVE Config!Applied
  <2>1. Config!AppliesRequest
    BY <1>3, <1>5, <1>7 DEF Config!AppliesRequest
  <2>2. ~overlapped => Config!SparesOtherKeys
    BY <1>3, <1>6, <1>7 DEF Config!SparesOtherKeys
  <2>3. QED
    BY <2>1, <2>2 DEF Config!Applied
<1>8. ConfigIInv /\ [Config!Next]_(Config!vars) => [Config!Applied]_(Config!vars)
  BY <1>7
<1>9. QED
  BY <1>1, <1>2, <1>8, PTL DEF Config!Spec, RequestIsApplied, Config!RequestIsApplied

-----------------------------------------------------------------------------
(* The pid file of /init.                                                  *)

\* A wake has a pid of its own, which only it publishes; when it has waited for its
\* /init that one has exited, and when it has failed the file does not name it.
WakeIsSound(w) ==
    /\ wakePid[w] \in used \cup {None}
    /\ wake[w] \in {"publish", "boot", "await", "awaitUnpublished", "clear", "remove"} => wakePid[w] # None
    /\ wake[w] \in {"publish", "awaitUnpublished"} => pidFile # wakePid[w]
    /\ wake[w] \in {"clear", "remove", "failed"} /\ wakePid[w] # None => wakePid[w] \notin up
    /\ wake[w] = "failed" /\ wakePid[w] # None => pidFile # wakePid[w]

PidsAreSound ==
    /\ \A w \in Container!Child : WakeIsSound(w)
    /\ wakePid["cron"] = wakePid["server"] => wakePid["cron"] = None
    /\ pidFile \in used \cup {None} /\ initPid \in used \cup {None}

\* As long as the loop runs and no /init exits by itself or is given up, every /init that was
\* started lives, no wake gives up, and the pid file names the /init published last.
AllLive ==
    /\ used \subseteq up /\ termed \cap used = {}
    /\ main \notin {"clear", "remove"}
    /\ \A w \in Container!Child : wake[w] \notin {"await", "awaitUnpublished", "clear", "remove"}
    /\ pidFile = owner

ContainerIInv ==
    /\ Container!TypeOK /\ PidsAreSound
    /\ ~lost /\ main \in Container!Loop => AllLive

LEMMA ContainerInit == Container!SupervisionAssumption /\ Container!Init => ContainerIInv
<1> SUFFICES ASSUME Container!SupervisionAssumption, Container!Init PROVE ContainerIInv
  OBVIOUS
<1>1. Container!TypeOK
  BY DEF Container!SupervisionAssumption, Container!Init, Container!TypeOK, Container!Child,
     Container!Loop, Container!Stopping
<1>2. PidsAreSound
  BY DEF Container!SupervisionAssumption, Container!Init, PidsAreSound, WakeIsSound, Container!Child
<1>3. AllLive
  BY DEF Container!SupervisionAssumption, Container!Init, AllLive, Container!Child
<1>4. QED
  BY <1>1, <1>2, <1>3 DEF ContainerIInv

\* A step of process 1 leaves the wakes alone.
LEMMA ContainerMain ==
    ASSUME Container!SupervisionAssumption, ContainerIInv, Container!mainStep \/ Container!shutdown
    PROVE  ContainerIInv'
<1>1. UNCHANGED <<wake, wakePid, owner, used, lost, clamd>> /\ sleepLock' = sleepLock
  BY DEF Container!mainStep, Container!refresh_init_pid, Container!checkInit, Container!clearRead,
     Container!clearRemove, Container!checkChildren, Container!sleep5, Container!sendTerm,
     Container!forceKill, Container!waitChildren, Container!shutdown, Container!wakeVars, Container!envVars
<1>2. /\ up' \subseteq up /\ termed \subseteq termed' /\ termed' \subseteq termed \cup up
      /\ pidFile' \in {pidFile, None} /\ initPid' \in {initPid, pidFile, None}
      /\ main' \in Container!Loop \cup Container!Stopping \cup {"ended"}
  BY DEF Container!mainStep, Container!refresh_init_pid, Container!checkInit, Container!clearRead,
     Container!clearRemove, Container!checkChildren, Container!sleep5, Container!sendTerm,
     Container!forceKill, Container!waitChildren, Container!shutdown, Container!Loop, Container!Stopping
<1>3. Container!TypeOK'
  BY <1>1, <1>2 DEF ContainerIInv, Container!TypeOK
<1>4. PidsAreSound'
  BY <1>1, <1>2 DEF ContainerIInv, PidsAreSound, WakeIsSound
<1>5. ASSUME ~lost, main' \in Container!Loop PROVE AllLive'
  <2>1. main \in Container!Loop /\ up' = up /\ termed' = termed
    BY <1>5 DEF Container!mainStep, Container!refresh_init_pid, Container!checkInit, Container!clearRead,
     Container!clearRemove, Container!checkChildren, Container!sleep5, Container!sendTerm,
     Container!forceKill, Container!waitChildren, Container!shutdown, Container!Loop, Container!Stopping
  <2>2. AllLive
    BY <1>5, <2>1 DEF ContainerIInv
  <2>3. main' \notin {"clear", "remove"} /\ pidFile' = pidFile
    BY <1>5, <2>1, <2>2 DEF ContainerIInv, AllLive, PidsAreSound, Container!mainStep,
     Container!refresh_init_pid, Container!checkInit, Container!clearRead,
     Container!clearRemove, Container!checkChildren, Container!sleep5, Container!sendTerm,
     Container!forceKill, Container!waitChildren, Container!shutdown, Container!Loop
  <2>4. QED
    BY <1>1, <2>1, <2>2, <2>3 DEF AllLive
<1>6. QED
  BY <1>1, <1>3, <1>4, <1>5 DEF ContainerIInv

\* A step of a wake that changes nothing but where it is, and perhaps the marker.
LEMMA ContainerGoes ==
    ASSUME Container!SupervisionAssumption, ContainerIInv, NEW w \in Container!Child,
           NEW st \in {"idle", "start", "clear", "remove", "ready", "failed"},
           Container!goesTo(w, st),
           wakePid' \in {wakePid, [wakePid EXCEPT ![w] = None]},
           st \in {"clear", "remove", "failed"} =>
               /\ lost \/ main \notin Container!Loop
               /\ wakePid' = wakePid /\ wakePid[w] \notin up,
           st \in {"clear", "remove"} => wakePid[w] # None,
           st = "failed" => pidFile # wakePid[w],
           UNCHANGED <<pidFile, up, used, termed, clamd, main, initPid, owner, lost>>, sleepLock' \in BOOLEAN
    PROVE  ContainerIInv'
<1>1. wake'[w] = st /\ \A v \in Container!Child \ {w} : wake'[v] = wake[v] /\ wakePid'[v] = wakePid[v]
  BY DEF Container!goesTo, ContainerIInv, Container!TypeOK
<1>2. Container!TypeOK'
  BY DEF Container!goesTo, ContainerIInv, Container!TypeOK
<1>3. wakePid'[w] \in {wakePid[w], None}
  BY DEF ContainerIInv, Container!TypeOK
<1>4. ASSUME NEW v \in Container!Child PROVE WakeIsSound(v)'
  <2>1. CASE v = w
    BY <1>1, <1>3, <2>1 DEF ContainerIInv, PidsAreSound, WakeIsSound
  <2>2. CASE v # w
    BY <1>1, <2>2 DEF ContainerIInv, PidsAreSound, WakeIsSound
  <2>3. QED
    BY <2>1, <2>2
<1>5. wakePid'["cron"] = wakePid'["server"] => wakePid'["cron"] = None
  BY <1>1, <1>3 DEF ContainerIInv, PidsAreSound, Container!Child
<1>6. PidsAreSound'
  BY <1>4, <1>5 DEF ContainerIInv, PidsAreSound
<1>7. ~lost /\ main \in Container!Loop => AllLive'
  BY <1>1 DEF ContainerIInv, AllLive
<1>8. QED
  BY <1>2, <1>6, <1>7 DEF ContainerIInv

LEMMA ContainerStart ==
    ASSUME Container!SupervisionAssumption, ContainerIInv, NEW w \in Container!Child, Container!startInit(w)
    PROVE  ContainerIInv'
<1>1. PICK p \in Pid \ used :
        /\ wake' = [wake EXCEPT ![w] = "publish"]
        /\ up' = up \cup {p} /\ used' = used \cup {p} /\ wakePid' = [wakePid EXCEPT ![w] = p]
        /\ UNCHANGED <<pidFile, termed, clamd, main, initPid, owner, lost>> /\ sleepLock' = sleepLock
  BY DEF Container!startInit, Container!goesTo, Container!envVars
<1>2. /\ wake'[w] = "publish" /\ wakePid'[w] = p
      /\ \A v \in Container!Child \ {w} : wake'[v] = wake[v] /\ wakePid'[v] = wakePid[v]
  BY <1>1 DEF ContainerIInv, Container!TypeOK
<1>3. Container!TypeOK'
  BY <1>1 DEF ContainerIInv, Container!TypeOK
<1>4. p # None /\ p \notin Container!Child
  BY DEF Container!SupervisionAssumption
<1>5. ASSUME NEW v \in Container!Child PROVE WakeIsSound(v)'
  <2>1. CASE v = w
    BY <1>1, <1>2, <1>4, <2>1 DEF ContainerIInv, PidsAreSound, WakeIsSound
  <2>2. CASE v # w
    BY <1>1, <1>2, <1>4, <2>2 DEF ContainerIInv, PidsAreSound, WakeIsSound
  <2>3. QED
    BY <2>1, <2>2
<1>6. wakePid'["cron"] = wakePid'["server"] => wakePid'["cron"] = None
  BY <1>2, <1>4 DEF ContainerIInv, PidsAreSound, WakeIsSound, Container!Child
<1>7. PidsAreSound'
  BY <1>1, <1>5, <1>6 DEF ContainerIInv, PidsAreSound
<1>8. ~lost /\ main \in Container!Loop => AllLive'
  BY <1>1, <1>2, <1>4 DEF ContainerIInv, Container!TypeOK, AllLive
<1>9. QED
  BY <1>1, <1>3, <1>7, <1>8 DEF ContainerIInv

LEMMA ContainerPublish ==
    ASSUME Container!SupervisionAssumption, ContainerIInv, NEW w \in Container!Child, Container!write_init_pid(w)
    PROVE  ContainerIInv'
<1>1. /\ wake[w] = "publish" /\ wake' = [wake EXCEPT ![w] = "boot"]
      /\ pidFile' = wakePid[w] /\ owner' = wakePid[w]
      /\ UNCHANGED <<up, used, termed, clamd, main, initPid, wakePid, lost>> /\ sleepLock' = sleepLock
  BY DEF Container!write_init_pid, Container!goesTo, Container!envVars
<1>2. wake'[w] = "boot" /\ \A v \in Container!Child \ {w} : wake'[v] = wake[v]
  BY <1>1 DEF ContainerIInv, Container!TypeOK
<1>3. wakePid[w] # None /\ wakePid[w] \in used
  BY <1>1 DEF ContainerIInv, PidsAreSound, WakeIsSound
<1>4. Container!TypeOK'
  BY <1>1, <1>3 DEF ContainerIInv, Container!TypeOK
<1>5. ASSUME NEW v \in Container!Child PROVE WakeIsSound(v)'
  <2>1. CASE v = w
    BY <1>1, <1>2, <1>3, <2>1 DEF ContainerIInv, PidsAreSound, WakeIsSound
  <2>2. CASE v # w
    <3>1. wakePid[v] # wakePid[w]
      BY <1>3, <2>2 DEF ContainerIInv, PidsAreSound, Container!Child
    <3>2. QED
      BY <1>1, <1>2, <2>2, <3>1 DEF ContainerIInv, PidsAreSound, WakeIsSound
  <2>3. QED
    BY <2>1, <2>2
<1>6. PidsAreSound'
  BY <1>1, <1>3, <1>5 DEF ContainerIInv, PidsAreSound
<1>7. ~lost /\ main \in Container!Loop => AllLive'
  BY <1>1, <1>2 DEF ContainerIInv, AllLive
<1>8. QED
  BY <1>1, <1>4, <1>6, <1>7 DEF ContainerIInv

LEMMA ContainerGivesUp ==
    ASSUME Container!SupervisionAssumption, ContainerIInv, NEW w \in Container!Child,
           Container!publishFails(w) \/ Container!bootFails(w)
    PROVE  ContainerIInv'
<1>1. PICK st \in {"await", "awaitUnpublished"} :
        /\ wake' = [wake EXCEPT ![w] = st]
        /\ wake[w] \in {"publish", "boot"} /\ (st = "awaitUnpublished" => wake[w] = "publish")
        /\ termed' = termed \cup ({wakePid[w]} \cap up)
        /\ owner' = IF owner = wakePid[w] THEN None ELSE owner
        /\ lost' = TRUE
        /\ UNCHANGED <<pidFile, up, used, clamd, main, initPid, wakePid>> /\ sleepLock' = sleepLock
  BY DEF Container!publishFails, Container!bootFails, Container!giveUp, Container!goesTo, Container!envVars
<1>2. wake'[w] = st /\ \A v \in Container!Child \ {w} : wake'[v] = wake[v]
  BY <1>1 DEF ContainerIInv, Container!TypeOK
<1>3. wakePid[w] # None /\ wakePid[w] \in used
  BY <1>1 DEF ContainerIInv, PidsAreSound, WakeIsSound
<1>4. Container!TypeOK'
  BY <1>1, <1>3 DEF ContainerIInv, Container!TypeOK
<1>5. ASSUME NEW v \in Container!Child PROVE WakeIsSound(v)'
  <2>1. CASE v = w
    BY <1>1, <1>2, <1>3, <2>1 DEF ContainerIInv, PidsAreSound, WakeIsSound
  <2>2. CASE v # w
    BY <1>1, <1>2, <2>2 DEF ContainerIInv, PidsAreSound, WakeIsSound
  <2>3. QED
    BY <2>1, <2>2
<1>6. PidsAreSound'
  BY <1>1, <1>5 DEF ContainerIInv, PidsAreSound
<1>7. QED
  BY <1>1, <1>4, <1>6 DEF ContainerIInv

LEMMA ContainerClears ==
    ASSUME Container!SupervisionAssumption, ContainerIInv, NEW w \in Container!Child, Container!wakeClearRemove(w)
    PROVE  ContainerIInv'
<1>1. /\ wake[w] = "remove" /\ wake' = [wake EXCEPT ![w] = "failed"] /\ pidFile' = None
      /\ UNCHANGED <<up, used, termed, clamd, main, initPid, wakePid, owner, lost>> /\ sleepLock' = sleepLock
  BY DEF Container!wakeClearRemove, Container!goesTo, Container!envVars
<1>2. wake'[w] = "failed" /\ \A v \in Container!Child \ {w} : wake'[v] = wake[v]
  BY <1>1 DEF ContainerIInv, Container!TypeOK
<1>3. Container!TypeOK'
  BY <1>1 DEF ContainerIInv, Container!TypeOK
<1>4. ASSUME NEW v \in Container!Child PROVE WakeIsSound(v)'
  <2>1. CASE v = w
    BY <1>1, <1>2, <2>1 DEF ContainerIInv, PidsAreSound, WakeIsSound
  <2>2. CASE v # w
    BY <1>1, <1>2, <2>2 DEF ContainerIInv, PidsAreSound, WakeIsSound
  <2>3. QED
    BY <2>1, <2>2
<1>5. PidsAreSound'
  BY <1>1, <1>4 DEF ContainerIInv, PidsAreSound
<1>6. lost \/ main \notin Container!Loop
  BY <1>1 DEF ContainerIInv, AllLive
<1>7. QED
  BY <1>1, <1>3, <1>5, <1>6 DEF ContainerIInv

LEMMA ContainerWake ==
    ASSUME Container!SupervisionAssumption, ContainerIInv, NEW w \in Container!Child, Container!wakeStep(w)
    PROVE  ContainerIInv'
<1>0. sleepLock \in BOOLEAN /\ WakeIsSound(w)
  BY DEF ContainerIInv, Container!TypeOK, PidsAreSound
<1>1. CASE Container!ping(w)
  <2>1. PICK st \in {"ready", "start"} : Container!goesTo(w, st)
    BY <1>1 DEF Container!ping
  <2>2. /\ UNCHANGED <<pidFile, up, used, termed, clamd, main, initPid, owner, lost>> /\ sleepLock' = sleepLock
        /\ wakePid' = [wakePid EXCEPT ![w] = None]
    BY <1>1 DEF Container!ping, Container!envVars
  <2>3. QED
    BY <1>0, <2>1, <2>2, ContainerGoes
<1>2. CASE Container!booted(w) \/ Container!remove_sleep_lock(w)
  <2>1. PICK st \in {"ready", "idle"} : Container!goesTo(w, st)
    BY <1>2 DEF Container!booted, Container!remove_sleep_lock
  <2>2. /\ UNCHANGED <<pidFile, up, used, termed, clamd, main, initPid, owner, lost, wakePid>>
        /\ sleepLock' \in BOOLEAN
    BY <1>0, <1>2 DEF Container!booted, Container!remove_sleep_lock, Container!envVars
  <2>3. QED
    BY <2>1, <2>2, ContainerGoes
<1>3. CASE Container!awaitInit(w)
  <2>1. /\ wake[w] \in {"await", "awaitUnpublished"} /\ wakePid[w] \notin up
        /\ Container!goesTo(w, IF wake[w] = "await" THEN "clear" ELSE "failed")
        /\ UNCHANGED <<pidFile, up, used, termed, clamd, main, initPid, owner, lost, wakePid>>
        /\ sleepLock' = sleepLock
    BY <1>3 DEF Container!awaitInit, Container!envVars
  <2>2. lost \/ main \notin Container!Loop
    BY <2>1 DEF ContainerIInv, AllLive
  <2>3. CASE wake[w] = "await"
    <3>1. Container!goesTo(w, "clear") /\ wakePid[w] # None
      BY <1>0, <2>1, <2>3 DEF WakeIsSound
    <3>2. QED
      BY <1>0, <2>1, <2>2, <3>1, ContainerGoes
  <2>4. CASE wake[w] = "awaitUnpublished"
    <3>1. Container!goesTo(w, "failed") /\ pidFile # wakePid[w]
      BY <1>0, <2>1, <2>4 DEF WakeIsSound
    <3>2. QED
      BY <1>0, <2>1, <2>2, <3>1, ContainerGoes
  <2>5. QED
    BY <2>1, <2>3, <2>4
<1>4. CASE Container!wakeClearRead(w)
  <2>1. /\ wake[w] = "clear"
        /\ Container!goesTo(w, IF pidFile = wakePid[w] THEN "remove" ELSE "failed")
        /\ UNCHANGED <<pidFile, up, used, termed, clamd, main, initPid, owner, lost, wakePid>>
        /\ sleepLock' = sleepLock
    BY <1>4 DEF Container!wakeClearRead, Container!envVars
  <2>2. lost \/ main \notin Container!Loop
    BY <2>1 DEF ContainerIInv, AllLive
  <2>3. wakePid[w] # None /\ wakePid[w] \notin up
    BY <1>0, <2>1 DEF WakeIsSound
  <2>4. CASE pidFile = wakePid[w]
    <3>1. Container!goesTo(w, "remove")
      BY <2>1, <2>4
    <3>2. QED
      BY <1>0, <2>1, <2>2, <2>3, <3>1, ContainerGoes
  <2>5. CASE pidFile # wakePid[w]
    <3>1. Container!goesTo(w, "failed")
      BY <2>1, <2>5
    <3>2. QED
      BY <1>0, <2>1, <2>2, <2>3, <2>5, <3>1, ContainerGoes
  <2>6. QED
    BY <2>4, <2>5
<1>5. QED
  BY <1>1, <1>2, <1>3, <1>4, ContainerStart, ContainerPublish, ContainerGivesUp, ContainerClears DEF Container!wakeStep

LEMMA ContainerExits ==
    ASSUME Container!SupervisionAssumption, ContainerIInv, NEW p \in Pid \cup Container!Child, Container!exits(p)
    PROVE  ContainerIInv'
<1>1. /\ p \in up /\ up' = up \ {p} /\ lost' = (lost \/ p \in Pid \ termed)
      /\ UNCHANGED <<pidFile, used, termed, clamd, main, initPid, wake, wakePid, owner>>
      /\ sleepLock' = sleepLock
  BY DEF Container!exits, Container!envVars, Container!wakeVars
<1>2. Container!TypeOK' /\ PidsAreSound'
  BY <1>1 DEF ContainerIInv, Container!TypeOK, PidsAreSound, WakeIsSound
<1>3. ASSUME ~lost', main \in Container!Loop PROVE AllLive'
  <2>1. AllLive /\ p \notin Pid \ termed
    BY <1>1, <1>3 DEF ContainerIInv
  <2>2. p \notin used
    BY <2>1 DEF AllLive, ContainerIInv, Container!TypeOK
  <2>3. QED
    BY <1>1, <2>1, <2>2 DEF AllLive
<1>4. QED
  BY <1>1, <1>2, <1>3 DEF ContainerIInv

LEMMA ContainerNext ==
    ASSUME Container!SupervisionAssumption, ContainerIInv, [Container!Next]_(Container!vars)
    PROVE  ContainerIInv'
<1>1. CASE Container!mainStep \/ Container!shutdown
  BY <1>1, ContainerMain
<1>2. CASE \E w \in Container!Child : Container!wakeStep(w)
  BY <1>2, ContainerWake
<1>3. CASE Container!wakeTimesOut
  <2>1. /\ Container!goesTo("server", "idle") /\ sleepLock' = sleepLock
        /\ UNCHANGED <<pidFile, up, used, termed, clamd, main, initPid, owner, lost, wakePid>>
    BY <1>3 DEF Container!wakeTimesOut, Container!envVars
  <2>2. "server" \in Container!Child /\ sleepLock \in BOOLEAN
    BY DEF Container!Child, ContainerIInv, Container!TypeOK
  <2>3. QED
    BY <2>1, <2>2, ContainerGoes
<1>4. CASE Container!clamdBoots \/ Container!sleepClamAV
  <2>1. /\ clamd' \in {"up", "down"} /\ sleepLock' \in BOOLEAN
        /\ UNCHANGED <<pidFile, up, termed, main, initPid, wake, wakePid, owner, used, lost>>
    BY <1>4 DEF Container!clamdBoots, Container!sleepClamAV, Container!wakeVars, ContainerIInv, Container!TypeOK
  <2>2. Container!TypeOK' /\ PidsAreSound' /\ (AllLive => AllLive')
    BY <2>1 DEF ContainerIInv, Container!TypeOK, PidsAreSound, WakeIsSound, AllLive
  <2>3. QED
    BY <2>1, <2>2 DEF ContainerIInv
<1>5. CASE \E p \in Pid \cup Container!Child : Container!exits(p)
  BY <1>5, ContainerExits
<1>6. CASE UNCHANGED Container!vars
  <2>1. /\ UNCHANGED <<pidFile, up, used, termed, clamd, main, initPid, wake, wakePid, owner, lost>>
        /\ sleepLock' = sleepLock
    BY <1>6 DEF Container!vars
  <2>2. Container!TypeOK' /\ PidsAreSound' /\ (AllLive => AllLive')
    BY <2>1 DEF ContainerIInv, Container!TypeOK, PidsAreSound, WakeIsSound, AllLive
  <2>3. QED
    BY <2>1, <2>2 DEF ContainerIInv
<1>7. QED
  BY <1>1, <1>2, <1>3, <1>4, <1>5, <1>6 DEF Container!Next

\* A wake that failed leaves neither its /init nor a pid file that names it, whatever
\* process 1 and the other wake do with the file; and as long as an /init only exits
\* when it is told to, a shutdown stops the one published last (start_clamav,
\* clear_init_pid_if_current, refresh_init_pid).
THEOREM WakesCleanUp == Container!Spec => []ContainerInv
<1>1. Container!Init => ContainerIInv
  BY ContainerInit, ContainerConstants
<1>2. ContainerIInv /\ [Container!Next]_(Container!vars) => ContainerIInv'
  BY ContainerNext, ContainerConstants
<1>3. ASSUME ContainerIInv PROVE ContainerInv
  <2>1. Container!FailedLeavesNothing
    BY <1>3 DEF ContainerIInv, PidsAreSound, WakeIsSound, Container!FailedLeavesNothing
  <2>2. ~lost => Container!OwnerIsKnown
    BY <1>3 DEF ContainerIInv, AllLive, Container!OwnerIsKnown
  <2>3. QED
    BY <1>3, <2>1, <2>2 DEF ContainerIInv, ContainerInv, Container!ContainerInv
<1>4. QED
  BY <1>1, <1>2, <1>3, PTL DEF Container!Spec
=============================================================================
