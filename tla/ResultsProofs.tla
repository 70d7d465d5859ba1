---------------------------- MODULE ResultsProofs ----------------------------
(***************************************************************************)
(* Proofs about the quarantine and the history index.                      *)
(***************************************************************************)
EXTENDS Results, FiniteSetTheorems, TLAPS

-----------------------------------------------------------------------------
(* The quarantine.                                                         *)

RunPoint == {"none", "link", "rm1", "rm2", "verify", "prepare1", "prepare2", "copy", "mv",
             "publish", "rollback", "abort"}
ReqPoint == {"idle", "delete", "deleteRec", "recover", "create", "write", "removeFile"}

StoreTypes ==
    /\ src \in [File -> Store!Content] /\ q \in [Store!Slot -> Store!Content]
    /\ record \in [Store!Slot -> File \cup {None, "empty"}]
    /\ run \in [pc : RunPoint, f : File \cup {None}, n : Store!Slot]
    /\ h \in [Req -> [pc : ReqPoint, n : Store!Slot, f : File \cup {None},
                      data : Store!Datum \cup {None}]]
    /\ born \in [File -> 0..MaxNew] /\ gone \subseteq Store!Datum
    /\ run.f = None <=> run.pc = "none"
    /\ \A r \in Req :
          /\ h[r].pc # "idle" => h[r].f \in File
          /\ h[r].pc \in {"create", "write", "removeFile"} => h[r].data \in Store!Datum

\* A path holds what was created there or restored there.
Home ==
    /\ \A f \in File : src[f] # None => src[f].data[1] = f
    /\ \A r \in Req :
          h[r].pc \notin {"idle", "deleteRec"} /\ h[r].data # None => h[r].data[1] = h[r].f

\* What a run finds under the name it has reserved.
RunIsSound ==
    run.pc # "none" =>
        /\ record[run.n] = (IF run.pc = "rollback" THEN None ELSE "empty")
        /\ src[run.f] # None => src[run.f].whole
        /\ q[run.n] # None => q[run.n].data[1] = run.f
        /\ run.pc \in {"link", "copy", "mv"} => q[run.n] = None
        /\ run.pc \in {"rm1", "rm2", "verify", "publish"} => q[run.n] # None
        /\ run.pc \in {"rm1", "rm2", "verify", "publish", "rollback"} /\ q[run.n] # None => q[run.n].whole

ListedIsWhole ==
    \A n \in Store!Slot : record[n] \in File =>
        \/ q[n] # None /\ q[n].whole /\ q[n].data[1] = record[n]
        \/ q[n] = None /\ \E r \in Req : h[r].n = n /\ h[r].pc = "deleteRec"

PartialIsWritten ==
    \A f \in File : src[f] # None /\ ~src[f].whole =>
        \E r \in Req : h[r].pc = "write" /\ h[r].f = f /\ h[r].data = src[f].data

IsBorn(d) == d[2] <= born[d[1]]

BornBefore ==
    /\ \A f \in File : src[f] # None => IsBorn(src[f].data)
    /\ \A n \in Store!Slot : q[n] # None => IsBorn(q[n].data)
    /\ \A r \in Req : h[r].data # None => IsBorn(h[r].data)

\* The places a file is at (MaxName + 1 stands for its path), and those who may take
\* one of them away because they have seen it at another: requests that have made or
\* begun a copy, and the run.
PathCode == MaxName + 1
InStore(n, d) == q[n] # None /\ q[n].whole /\ q[n].data = d
AtPath(d) == src[d[1]] # None /\ src[d[1]].data = d
Copies(d) == {n \in Store!Slot : InStore(n, d)} \cup {n \in {PathCode} : AtPath(d)}

ReqOwes(r, d) == h[r].pc \in {"write", "removeFile"} /\ h[r].data = d
RunOwes(d) == run.pc # "none" /\ src[run.f] # None /\ src[run.f].data = d /\ InStore(run.n, d)
Debtors(d) == {r \in Req : ReqOwes(r, d)} \cup {x \in {None} : RunOwes(d)}

More(C, D) == Cardinality(C) > Cardinality(D)

MoreCopies ==
    \A d \in Store!Datum : IsBorn(d) /\ d \notin gone =>
        More(Copies(d), Debtors(d))

StoreSound ==
    Home /\ RunIsSound /\ ListedIsWhole /\ PartialIsWritten /\ BornBefore /\ MoreCopies

StoreIInv == StoreTypes /\ crossed \in BOOLEAN /\ (~crossed => StoreSound)
-----------------------------------------------------------------------------
(* More copies than debtors.                                               *)

LEMMA MoreThanNone ==
    ASSUME NEW C, IsFiniteSet(C), NEW c \in C
    PROVE  More(C, {})
<1>1. Cardinality(C) \in Nat /\ Cardinality(C) # 0
  BY FS_CardinalityType, FS_EmptySet
<1> QED
  BY <1>1, FS_EmptySet DEF More

LEMMA MoreKept ==
    ASSUME NEW C1, NEW D, IsFiniteSet(C1), IsFiniteSet(D), NEW C \in SUBSET C1, NEW D1 \in SUBSET D,
           More(C, D)
    PROVE  More(C1, D1)
<1>1. Cardinality(C) <= Cardinality(C1) /\ Cardinality(D1) <= Cardinality(D)
  BY FS_Subset
<1>2. /\ Cardinality(C) \in Nat /\ Cardinality(C1) \in Nat
      /\ Cardinality(D) \in Nat /\ Cardinality(D1) \in Nat
  BY FS_Subset, FS_CardinalityType
<1> QED
  BY <1>1, <1>2 DEF More

\* One of the debtors takes away one copy.
LEMMA MoreTaken ==
    ASSUME NEW C, NEW D, IsFiniteSet(C), IsFiniteSet(D), More(C, D), NEW c, NEW x \in D
    PROVE  More(C \ {c}, D \ {x})
<1>1. /\ Cardinality(C \ {c}) = IF c \in C THEN Cardinality(C) - 1 ELSE Cardinality(C)
      /\ Cardinality(D \ {x}) = Cardinality(D) - 1
  BY FS_RemoveElement
<1>2. Cardinality(C) \in Nat /\ Cardinality(D) \in Nat
  BY FS_CardinalityType
<1> QED
  BY <1>1, <1>2 DEF More

\* A copy more, and at most one debtor more.
LEMMA MoreAdded ==
    ASSUME NEW C, NEW D, IsFiniteSet(C), IsFiniteSet(D), More(C, D), NEW c, c \notin C, NEW x
    PROVE  More(C \cup {c}, D \cup {x})
<1>1. /\ Cardinality(C \cup {c}) = Cardinality(C) + 1
      /\ Cardinality(D \cup {x}) = IF x \in D THEN Cardinality(D) ELSE Cardinality(D) + 1
  BY FS_AddElement
<1>2. Cardinality(C) \in Nat /\ Cardinality(D) \in Nat
  BY FS_CardinalityType
<1> QED
  BY <1>1, <1>2 DEF More

\* A copy moves.
LEMMA MoreMoved ==
    ASSUME NEW C, NEW D, IsFiniteSet(C), IsFiniteSet(D), More(C, D), NEW c, NEW e, e \notin C
    PROVE  More((C \ {c}) \cup {e}, D)
<1>1. /\ IsFiniteSet(C \ {c})
      /\ Cardinality(C \ {c}) = IF c \in C THEN Cardinality(C) - 1 ELSE Cardinality(C)
  BY FS_RemoveElement
<1>2. Cardinality((C \ {c}) \cup {e}) = Cardinality(C \ {c}) + 1
  BY <1>1, FS_AddElement
<1>3. Cardinality(C) \in Nat /\ Cardinality(D) \in Nat
  BY FS_CardinalityType
<1> QED
  BY <1>1, <1>2, <1>3 DEF More

LEMMA CopiesAreFinite ==
    ASSUME Store!QuarantineAssumption, IsFiniteSet(Req), NEW d
    PROVE  /\ IsFiniteSet(Copies(d)) /\ IsFiniteSet(Debtors(d))
           /\ IsFiniteSet(Copies(d)') /\ IsFiniteSet(Debtors(d)')
<1>0. IsFiniteSet(Store!Slot)
  BY FS_Interval DEF Store!QuarantineAssumption, Store!Slot
<1>1. /\ IsFiniteSet(Store!Slot \cup {PathCode})
      /\ {Copies(d), Copies(d)'} \subseteq SUBSET (Store!Slot \cup {PathCode})
  BY <1>0, FS_AddElement DEF Copies
<1>2. /\ IsFiniteSet(Req \cup {None})
      /\ {Debtors(d), Debtors(d)'} \subseteq SUBSET (Req \cup {None})
  BY FS_AddElement DEF Debtors
<1> QED
  BY <1>1, <1>2, FS_Subset

-----------------------------------------------------------------------------
(* Its types.                                                              *)

LEMMA NoneIsNoCopy ==
    ASSUME Store!QuarantineAssumption
    PROVE  /\ None \notin Store!Copy /\ None \notin Store!Datum /\ None \notin File
           /\ None \notin Req /\ None \in Store!Content /\ 0 \in Store!Slot
BY DEF Store!QuarantineAssumption, Store!Content, Store!Slot

LEMMA CopyTypes ==
    ASSUME NEW c \in Store!Content, c # None
    PROVE  /\ c \in Store!Copy /\ c.data \in Store!Datum /\ c.whole \in BOOLEAN
           /\ [c EXCEPT !.whole = FALSE] \in Store!Content
           /\ [c EXCEPT !.whole = TRUE] \in Store!Content
BY DEF Store!Content, Store!Copy

LEMMA DatumTypes ==
    ASSUME NEW d \in Store!Datum
    PROVE  d[1] \in File /\ d[2] \in 0..MaxNew /\ d = <<d[1], d[2]>>
BY DEF Store!Datum

LEMMA StoreInitially ==
    ASSUME Store!QuarantineAssumption, IsFiniteSet(Req), Store!Init
    PROVE  StoreIInv
<1>1. StoreTypes /\ Home /\ RunIsSound /\ ListedIsWhole /\ PartialIsWritten
  <2> USE DEF Store!QuarantineAssumption, Store!Init, Store!Slot, Store!Datum, Store!Copy,
          Store!Content, Store!NoRun, Store!NoReq
  <2>1. StoreTypes
    BY DEF StoreTypes, RunPoint, ReqPoint
  <2>2. Home /\ RunIsSound /\ ListedIsWhole /\ PartialIsWritten
    BY DEF Home, RunIsSound, ListedIsWhole, PartialIsWritten
  <2> QED
    BY <2>1, <2>2
<1>2. crossed \in BOOLEAN
  BY DEF Store!Init
<1>3. BornBefore
  BY DEF BornBefore, IsBorn, Store!Init, Store!NoReq
<1>4. MoreCopies
  <2> SUFFICES ASSUME NEW d \in Store!Datum, IsBorn(d)
               PROVE  More(Copies(d), Debtors(d))
    BY DEF MoreCopies
  <2>1. d[1] \in File /\ d = <<d[1], 0>>
    BY DatumTypes DEF IsBorn, Store!Init, Store!QuarantineAssumption
  <2>2. src[d[1]] = [data |-> d, whole |-> TRUE]
    BY <2>1 DEF Store!Init
  <2>3. src[d[1]] \in Store!Copy /\ src[d[1]].data = d
    BY <2>2 DEF Store!Copy
  <2>4. PathCode \in Copies(d)
    BY <2>3, NoneIsNoCopy DEF Copies, AtPath
  <2>5. run.pc = "none" /\ \A r \in Req : h[r].pc = "idle"
    BY DEF Store!Init, Store!NoReq, Store!NoRun
  <2>6. Debtors(d) = {}
    BY <2>5 DEF Debtors, ReqOwes, RunOwes
  <2> QED
    BY <2>4, <2>6, MoreThanNone, CopiesAreFinite
<1> QED
  BY <1>1, <1>2, <1>3, <1>4 DEF StoreIInv, StoreSound

LEMMA RunTypesNext ==
    ASSUME Store!QuarantineAssumption, StoreTypes, Store!Run
    PROVE  StoreTypes'
<1>1. ASSUME NEW f \in File, Store!reserve_quarantine_name(f) PROVE StoreTypes'
  BY <1>1 DEF Store!reserve_quarantine_name, StoreTypes, RunPoint, Store!Keep, Store!QuarantineAssumption
<1>2. ASSUME run.pc # "none"
      PROVE  run.f \in File /\ run.n \in Store!Slot /\ src[run.f] \in Store!Content
             /\ q[run.n] \in Store!Content
  BY <1>2 DEF StoreTypes
<1>3. CASE Store!writeTmpRecord \/ Store!link
  BY <1>3 DEF Store!writeTmpRecord, Store!link, StoreTypes, RunPoint, Store!QuarantineAssumption,
     Store!ToRun, Store!Keep
<1>4. CASE Store!rmSource \/ Store!verify_completed_move \/ Store!prepare_move_fallback
  BY <1>4, NoneIsNoCopy DEF Store!rmSource, Store!verify_completed_move, Store!prepare_move_fallback,
     StoreTypes, RunPoint, Store!ToRun, Store!Keep
<1>5. CASE Store!copy \/ Store!mv \/ Store!kill
  <2>1. run.pc # "none"
    BY <1>5 DEF Store!copy, Store!mv, Store!kill
  <2>2. src[run.f] # None => [src[run.f] EXCEPT !.whole = FALSE] \in Store!Content
    BY <1>2, <2>1, CopyTypes
  <2>3. q' \in [Store!Slot -> Store!Content]
    BY <1>2, <1>5, <2>1, <2>2 DEF Store!copy, Store!mv, Store!kill, StoreTypes
  <2>4. src' \in [File -> Store!Content]
    BY <1>2, <1>5, <2>1, NoneIsNoCopy DEF Store!copy, Store!mv, Store!kill, StoreTypes
  <2>5. /\ run' \in [pc : RunPoint, f : File \cup {None}, n : Store!Slot]
        /\ run'.f = None <=> run'.pc = "none"
    BY <1>2, <1>5, <2>1, NoneIsNoCopy DEF Store!copy, Store!mv, Store!kill, StoreTypes, Store!ToRun,
       Store!NoRun, RunPoint
  <2> QED
    BY <1>5, <2>3, <2>4, <2>5 DEF Store!copy, Store!mv, Store!kill, StoreTypes, Store!Keep
<1>6. CASE Store!publish \/ Store!abort
  BY <1>6, NoneIsNoCopy DEF Store!publish, Store!abort, StoreTypes, RunPoint, Store!ToRun, Store!NoRun,
     Store!Keep
<1>7. CASE Store!rollback
  <2>1. run.pc # "none"
    BY <1>7 DEF Store!rollback
  <2>2. src[run.f] # None => src[run.f].data \in Store!Datum
    BY <1>2, <2>1, CopyTypes
  <2> QED
    BY <1>2, <1>7, <2>1, <2>2, NoneIsNoCopy DEF Store!rollback, StoreTypes, RunPoint, Store!NoRun
<1> QED
  BY <1>1, <1>3, <1>4, <1>5, <1>6, <1>7 DEF Store!Run

LEMMA RequestTypesNext ==
    ASSUME Store!QuarantineAssumption, StoreTypes, NEW r \in Req, Store!Request(r)
    PROVE  StoreTypes'
<1>0. /\ h[r].n \in Store!Slot /\ q[h[r].n] \in Store!Content
      /\ h[r].pc # "idle" => h[r].f \in File /\ src[h[r].f] \in Store!Content
  BY DEF StoreTypes
<1>1. ASSUME NEW n \in Store!Slot, NEW u, NEW pc \in {"delete", "recover"},
             Store!readQuarantineRecord(r, n, u, pc)
      PROVE  StoreTypes'
  <2>1. q[n] # None => q[n].data \in Store!Datum
    BY CopyTypes DEF StoreTypes
  <2> QED
    BY <1>1, <2>1 DEF Store!readQuarantineRecord, Store!Valid, StoreTypes, ReqPoint
<1>2. CASE Store!deleteFile(r) \/ Store!removeRec(r)
  <2>1. q[h[r].n] # None => q[h[r].n].data \in Store!Datum
    BY <1>0, CopyTypes
  <2> QED
    BY <1>0, <1>2, <2>1, NoneIsNoCopy DEF Store!deleteFile, Store!removeRec, StoreTypes, ReqPoint, Store!To,
       Store!Done, Store!NoReq
<1>3. CASE Store!openQuarantined(r)
  <2>1. q[h[r].n] # None => q[h[r].n].data \in Store!Datum
    BY <1>0, CopyTypes
  <2> QED
    BY <1>0, <1>3, <2>1, NoneIsNoCopy DEF Store!openQuarantined, StoreTypes, ReqPoint, Store!Done,
       Store!NoReq
<1>4. CASE Store!createRestored(r)
  <2>1. [data |-> h[r].data, whole |-> FALSE] \in Store!Content
    BY <1>4 DEF Store!createRestored, StoreTypes, Store!Content, Store!Copy
  <2> QED
    BY <1>0, <1>4, <2>1, NoneIsNoCopy DEF Store!createRestored, StoreTypes, ReqPoint, Store!To, Store!Done,
       Store!NoReq
<1>5. CASE Store!writeRestored(r)
  <2>1. Store!Own(r) => [src[h[r].f] EXCEPT !.whole = TRUE] \in Store!Content
    BY <1>0, <1>5, CopyTypes DEF Store!writeRestored, Store!Own
  <2> QED
    BY <1>0, <1>5, <2>1, NoneIsNoCopy DEF Store!writeRestored, StoreTypes, ReqPoint, Store!To, Store!Done,
       Store!NoReq, Store!RemoveRestored
<1>6. CASE Store!removeQuarantined(r)
  BY <1>0, <1>6, NoneIsNoCopy DEF Store!removeQuarantined, StoreTypes, ReqPoint, Store!To, Store!Done,
     Store!NoReq, Store!RemoveRestored
<1> QED
  BY <1>1, <1>2, <1>3, <1>4, <1>5, <1>6 DEF Store!Request

LEMMA StoreTypesNext ==
    ASSUME Store!QuarantineAssumption, StoreTypes, [Store!Next]_(Store!vars)
    PROVE  StoreTypes'
<1>1. ASSUME NEW f \in File, Store!createFile(f) PROVE StoreTypes'
  <2>1. <<f, born[f] + 1>> \in Store!Datum /\ born[f] + 1 \in 0..MaxNew
    BY <1>1 DEF StoreTypes, Store!createFile, Store!Datum, Store!QuarantineAssumption
  <2>2. [data |-> <<f, born[f] + 1>>, whole |-> TRUE] \in Store!Content
    BY <2>1 DEF Store!Content, Store!Copy
  <2> QED
    BY <1>1, <2>1, <2>2 DEF Store!createFile, StoreTypes
<1>2. ASSUME NEW f \in File, Store!removeFile(f) PROVE StoreTypes'
  <2>1. src[f] \in Store!Content /\ src[f] # None
    BY <1>2 DEF StoreTypes, Store!removeFile
  <2>2. src[f].data \in Store!Datum
    BY <2>1, CopyTypes
  <2> QED
    BY <1>2, <2>1, <2>2, NoneIsNoCopy DEF Store!removeFile, StoreTypes
<1>3. CASE UNCHANGED Store!vars
  BY <1>3 DEF Store!vars, StoreTypes
<1> QED
  BY <1>1, <1>2, <1>3, RunTypesNext, RequestTypesNext DEF Store!Next

\* crossed is never taken back, and says what it should.
LEMMA CrossedNext ==
    ASSUME crossed \in BOOLEAN, [Store!Next]_(Store!vars)
    PROVE  crossed' \in BOOLEAN /\ (crossed => crossed')
BY DEF Store!Next, Store!Run, Store!Request, Store!vars, Store!Keep, Store!reserve_quarantine_name,
   Store!writeTmpRecord, Store!link, Store!rmSource, Store!verify_completed_move,
   Store!prepare_move_fallback, Store!copy, Store!mv, Store!publish, Store!rollback, Store!abort,
   Store!kill, Store!readQuarantineRecord, Store!deleteFile, Store!removeRec, Store!openQuarantined,
   Store!createRestored, Store!writeRestored, Store!removeQuarantined, Store!RemoveRestored,
   Store!createFile, Store!removeFile, Zenon

LEMMA NotCrossed ==
    ASSUME ~crossed'
    PROVE  /\ Store!rmSource => src' = src \/ ~Store!Replaced
           /\ Store!prepare_move_fallback => ~Store!Replaced
           /\ \A r \in Req :
                 /\ Store!deleteFile(r) /\ q[h[r].n] # None => ~Store!Reused(r)
                 /\ Store!removeRec(r) /\ record[h[r].n] # None => ~Store!Reused(r) /\ q[h[r].n] = None
                 /\ Store!openQuarantined(r) /\ q[h[r].n] # None /\ src[h[r].f] = None => ~Store!Reused(r)
                 /\ Store!RemoveRestored(r) /\ src[h[r].f] # None => Store!Own(r)
                 /\ Store!removeQuarantined(r) /\ q[h[r].n] # None => ~Store!Reused(r)
BY Zenon DEF Store!rmSource, Store!prepare_move_fallback, Store!deleteFile, Store!removeRec, Store!openQuarantined,
  Store!RemoveRestored, Store!removeQuarantined

-----------------------------------------------------------------------------
(* Each part of the invariant, action by action.                           *)

LEMMA HomeNext ==
    ASSUME Store!QuarantineAssumption, StoreTypes, StoreSound, Store!Next, ~crossed'
    PROVE  Home'
<1> USE DEF StoreTypes, Home
<1>0. Home /\ RunIsSound /\ ListedIsWhole
  BY DEF StoreSound
<1>1. CASE UNCHANGED <<src, h>>
  BY <1>0, <1>1
<1>2. CASE Store!rmSource \/ Store!mv
  BY <1>0, <1>2 DEF Store!rmSource, Store!mv, Store!Keep
<1>3. CASE Store!rollback
  BY <1>0, <1>3 DEF Store!rollback, RunIsSound
<1>4. ASSUME NEW r \in Req, NEW n \in Store!Slot, NEW u, NEW pc \in {"delete", "recover"},
             Store!readQuarantineRecord(r, n, u, pc)
      PROVE  Home'
  <2>1. q[n] # None => q[n].data[1] = record[n]
    BY <1>0, <1>4 DEF Store!readQuarantineRecord, Store!Valid, ListedIsWhole
  <2>2. /\ UNCHANGED src /\ \A x \in Req \ {r} : h'[x] = h[x]
        /\ h'[r].f = record[n] /\ h'[r].data = IF q[n] = None THEN None ELSE q[n].data
    BY <1>4 DEF Store!readQuarantineRecord
  <2> QED
    BY <1>0, <2>1, <2>2
<1>5. ASSUME NEW r \in Req, Store!deleteFile(r) \/ Store!removeRec(r) PROVE Home'
  BY <1>0, <1>5 DEF Store!deleteFile, Store!removeRec, Store!To, Store!Done, Store!NoReq
<1>6. ASSUME NEW r \in Req, Store!openQuarantined(r) PROVE Home'
  <2>1. q[h[r].n] # None /\ src[h[r].f] = None => q[h[r].n].data = h[r].data
    BY <1>6, NotCrossed DEF Store!Reused
  <2> QED
    BY <1>0, <1>6, <2>1 DEF Store!openQuarantined, Store!Done, Store!NoReq
<1>7. ASSUME NEW r \in Req, Store!createRestored(r) PROVE Home'
  BY <1>0, <1>7, NoneIsNoCopy DEF Store!createRestored, Store!To, Store!Done, Store!NoReq
<1>8. ASSUME NEW r \in Req, Store!writeRestored(r) \/ Store!removeQuarantined(r) PROVE Home'
  <2>1. \A f \in File : src'[f] = None \/ (src[f] # None /\ src'[f].data = src[f].data)
    <3>1. h[r].f \in File
      BY <1>8 DEF Store!writeRestored, Store!removeQuarantined
    <3> QED
      BY <1>8, <3>1 DEF Store!writeRestored, Store!removeQuarantined, Store!RemoveRestored, Store!Own,
         Store!Content, Store!Copy
  <2>2. /\ \A x \in Req \ {r} : h'[x] = h[x]
        /\ h'[r].pc \in {"idle", "deleteRec"} \/ (h'[r].f = h[r].f /\ h'[r].data = h[r].data)
        /\ h[r].pc \in {"write", "removeFile"}
    BY <1>8 DEF Store!writeRestored, Store!removeQuarantined, Store!To, Store!Done, Store!NoReq
  <2> QED
    BY <1>0, <2>1, <2>2
<1>9. ASSUME NEW f \in File, Store!createFile(f) \/ Store!removeFile(f) PROVE Home'
  BY <1>0, <1>9 DEF Store!createFile, Store!removeFile
<1> QED
  BY <1>1, <1>2, <1>3, <1>4, <1>5, <1>6, <1>7, <1>8, <1>9
  DEF Store!Next, Store!Run, Store!Request, Store!Keep, Store!reserve_quarantine_name,
     Store!writeTmpRecord, Store!link, Store!verify_completed_move, Store!prepare_move_fallback,
     Store!copy, Store!publish, Store!abort, Store!kill

LEMMA ListedNext ==
    ASSUME Store!QuarantineAssumption, StoreTypes, StoreSound, Store!Next, ~crossed'
    PROVE  ListedIsWhole'
<1> USE DEF StoreTypes, ListedIsWhole
<1>0. Home /\ RunIsSound /\ ListedIsWhole
  BY DEF StoreSound
<1>1. CASE UNCHANGED <<q, record, h>>
  BY <1>0, <1>1
<1>2. ASSUME run.pc # "none", UNCHANGED h, \A n \in Store!Slot : n # run.n => q'[n] = q[n] /\ record'[n] = record[n],
             record'[run.n] \notin File
      PROVE  ListedIsWhole'
  BY <1>0, <1>2
<1>3. ASSUME NEW f \in File, Store!reserve_quarantine_name(f) PROVE ListedIsWhole'
  BY <1>0, <1>3 DEF Store!reserve_quarantine_name, Store!Keep, Store!QuarantineAssumption
<1>4. CASE Store!link \/ Store!copy \/ Store!mv \/ Store!kill \/ Store!prepare_move_fallback
           \/ Store!abort \/ Store!rollback
  <2>1. run.pc # "none" /\ run.n \in Store!Slot /\ UNCHANGED h
    BY <1>4 DEF Store!link, Store!copy, Store!mv, Store!kill, Store!prepare_move_fallback, Store!abort,
       Store!rollback, Store!Keep
  <2>2. \A n \in Store!Slot : n # run.n => q'[n] = q[n] /\ record'[n] = record[n]
    BY <1>4, <2>1 DEF Store!link, Store!copy, Store!mv, Store!kill, Store!prepare_move_fallback, Store!abort,
       Store!rollback
  <2>3. record'[run.n] \notin File
    BY <1>0, <1>4, <2>1 DEF Store!link, Store!copy, Store!mv, Store!kill, Store!prepare_move_fallback,
       Store!abort, Store!rollback, RunIsSound, Store!QuarantineAssumption
  <2> QED
    BY <1>2, <2>1, <2>2, <2>3
<1>5. CASE Store!publish
  BY <1>0, <1>5 DEF Store!publish, RunIsSound, Store!Keep, Store!QuarantineAssumption
<1>6. ASSUME NEW r \in Req, NEW n \in Store!Slot, NEW u, NEW pc \in {"delete", "recover"},
             Store!readQuarantineRecord(r, n, u, pc)
      PROVE  ListedIsWhole'
  <2>1. /\ UNCHANGED <<q, record>> /\ \A x \in Req \ {r} : h'[x] = h[x]
        /\ h[r].pc = "idle"
    BY <1>6 DEF Store!readQuarantineRecord
  <2> QED
    BY <1>0, <2>1
<1>7. ASSUME NEW r \in Req, Store!openQuarantined(r) \/ Store!createRestored(r) \/ Store!writeRestored(r)
      PROVE  ListedIsWhole'
  <2>1. /\ UNCHANGED <<q, record>> /\ \A x \in Req \ {r} : h'[x] = h[x]
        /\ h[r].pc # "deleteRec"
    BY <1>7 DEF Store!openQuarantined, Store!createRestored, Store!writeRestored, Store!To, Store!Done
  <2> QED
    BY <1>0, <2>1
<1>8. ASSUME NEW r \in Req, Store!deleteFile(r) \/ Store!removeQuarantined(r) PROVE ListedIsWhole'
  <2>1. /\ UNCHANGED record /\ \A x \in Req \ {r} : h'[x] = h[x]
        /\ h[r].pc # "deleteRec"
    BY <1>8 DEF Store!deleteFile, Store!removeQuarantined, Store!To, Store!Done
  <2>2. CASE q[h[r].n] = None
    <3>1. UNCHANGED q
      BY <1>8, <2>2 DEF Store!deleteFile, Store!removeQuarantined
    <3> QED
      BY <1>0, <2>1, <3>1
  <2>3. CASE q[h[r].n] # None
    <3>1. q' = [q EXCEPT ![h[r].n] = None] /\ h'[r].pc = "deleteRec" /\ h'[r].n = h[r].n
      BY <1>8, <2>3 DEF Store!deleteFile, Store!removeQuarantined, Store!To
    <3> QED
      BY <1>0, <2>1, <3>1
  <2> QED
    BY <2>2, <2>3
<1>9. ASSUME NEW r \in Req, Store!removeRec(r) PROVE ListedIsWhole'
  <2>1. /\ UNCHANGED q /\ \A x \in Req \ {r} : h'[x] = h[x]
        /\ record' = [record EXCEPT ![h[r].n] = None]
    BY <1>9 DEF Store!removeRec, Store!Done
  <2> QED
    BY <1>0, <2>1, NoneIsNoCopy
<1> QED
  BY <1>1, <1>3, <1>4, <1>5, <1>6, <1>7, <1>8, <1>9
  DEF Store!Next, Store!Run, Store!Request, Store!Keep, Store!writeTmpRecord, Store!rmSource,
     Store!verify_completed_move, Store!createFile, Store!removeFile

LEMMA RunIsSoundNext ==
    ASSUME Store!QuarantineAssumption, StoreTypes, StoreSound, Store!Next, ~crossed'
    PROVE  RunIsSound'
<1>0. Home /\ RunIsSound /\ ListedIsWhole
  BY DEF StoreSound
<1>1. ASSUME run' = run, src' = src, q' = q, record' = record PROVE RunIsSound'
  BY <1>0, <1>1 DEF RunIsSound
<1>2. CASE run'.pc = "none"
  BY <1>2 DEF RunIsSound
<1>3. ASSUME NEW f \in File, Store!reserve_quarantine_name(f) PROVE RunIsSound'
  BY <1>3 DEF Store!reserve_quarantine_name, StoreTypes, RunIsSound
<1>4. CASE Store!writeTmpRecord \/ Store!verify_completed_move
  BY <1>0, <1>4 DEF Store!writeTmpRecord, Store!verify_completed_move, StoreTypes, RunIsSound, Store!ToRun
<1>5. CASE Store!link
  BY <1>0, <1>5 DEF Store!link, StoreTypes, RunIsSound, Store!ToRun, Home
<1>6. CASE Store!rmSource
  BY <1>0, <1>6 DEF Store!rmSource, StoreTypes, RunIsSound, Store!ToRun
<1>7. CASE Store!prepare_move_fallback
  BY <1>0, <1>7 DEF Store!prepare_move_fallback, StoreTypes, RunIsSound, Store!ToRun
<1>8. CASE Store!copy
  <2>1. /\ run' = [run EXCEPT !.pc = run'.pc] /\ run.f \in File /\ run.n \in Store!Slot
        /\ UNCHANGED <<src, record>> /\ run.pc = "copy" /\ run'.pc \in {"rm2", "prepare2"}
    BY <1>8 DEF Store!copy, Store!ToRun, StoreTypes
  <2>2. CASE UNCHANGED q
    BY <1>0, <1>8, <2>1, <2>2 DEF RunIsSound, StoreTypes, Store!copy, Store!ToRun
  <2>3. CASE /\ src[run.f] # None /\ q' = [q EXCEPT ![run.n] = src[run.f]]
             /\ run'.pc = "rm2"
    BY <1>0, <2>1, <2>3 DEF RunIsSound, StoreTypes, Home
  <2>4. CASE /\ src[run.f] # None /\ q' = [q EXCEPT ![run.n] = [src[run.f] EXCEPT !.whole = FALSE]]
             /\ run'.pc = "prepare2"
    <3>1. src[run.f] \in Store!Copy
      BY <2>1, <2>4, CopyTypes DEF StoreTypes
    <3>2. q'[run.n].data = src[run.f].data
      BY <2>1, <2>4, <3>1 DEF StoreTypes, Store!Copy
    <3> QED
      BY <1>0, <2>1, <2>4, <3>2 DEF RunIsSound, StoreTypes, Home
  <2> QED
    BY <1>8, <2>1, <2>2, <2>3, <2>4 DEF Store!copy, Store!ToRun, StoreTypes
<1>9. CASE Store!mv
  <2>1. /\ run' = [run EXCEPT !.pc = run'.pc] /\ run.f \in File /\ run.n \in Store!Slot
        /\ UNCHANGED record /\ run.pc = "mv" /\ run'.pc \in {"verify", "abort"}
    BY <1>9 DEF Store!mv, Store!ToRun, StoreTypes
  <2>2. CASE UNCHANGED <<src, q>> /\ run'.pc = "abort"
    BY <1>0, <2>1, <2>2 DEF RunIsSound, StoreTypes
  <2>3. CASE /\ src[run.f] # None /\ q' = [q EXCEPT ![run.n] = src[run.f]]
             /\ src' = [src EXCEPT ![run.f] = None]
    BY <1>0, <2>1, <2>3 DEF RunIsSound, StoreTypes, Home
  <2>4. CASE /\ src[run.f] # None /\ q' = [q EXCEPT ![run.n] = [src[run.f] EXCEPT !.whole = FALSE]]
             /\ run'.pc = "abort" /\ UNCHANGED src
    <3>1. src[run.f] \in Store!Copy
      BY <2>1, <2>4, CopyTypes DEF StoreTypes
    <3>2. q'[run.n].data = src[run.f].data
      BY <2>1, <2>4, <3>1 DEF StoreTypes, Store!Copy
    <3> QED
      BY <1>0, <2>1, <2>4, <3>2 DEF RunIsSound, StoreTypes, Home
  <2> QED
    BY <1>9, <2>1, <2>2, <2>3, <2>4 DEF Store!mv, Store!ToRun, StoreTypes
<1>10. CASE Store!publish
  BY <1>0, <1>10 DEF Store!publish, StoreTypes, RunIsSound, Store!ToRun, Store!NoRun
<1>11. CASE Store!rollback \/ Store!abort \/ Store!kill
  BY <1>2, <1>11 DEF Store!rollback, Store!abort, Store!kill, Store!NoRun
<1>12. ASSUME NEW r \in Req, Store!deleteFile(r) \/ Store!removeQuarantined(r), run'.pc # "none"
       PROVE  RunIsSound'
  <2>1. UNCHANGED <<run, record>> /\ run.pc # "none" /\ run.f \in File /\ run.n \in Store!Slot
    BY <1>12 DEF Store!deleteFile, Store!removeQuarantined, StoreTypes
  <2>2. \/ src' = src
        \/ src' = [src EXCEPT ![h[r].f] = None]
    BY <1>12 DEF Store!deleteFile, Store!removeQuarantined, Store!RemoveRestored
  <2>3. CASE q' = q
    BY <1>0, <2>1, <2>2, <2>3 DEF RunIsSound, StoreTypes
  <2>4. CASE q[h[r].n] # None /\ q' = [q EXCEPT ![h[r].n] = None]
    <3>1. ~Store!Reused(r)
      BY <1>12, <2>4, NotCrossed
    <3>2. h[r].n = run.n => run.pc = "rollback"
      BY <1>0, <1>12, <2>1, <3>1 DEF RunIsSound, Store!Reused, StoreTypes, Store!QuarantineAssumption,
         Store!deleteFile, Store!removeQuarantined
    <3>3. q'[run.n] = q[run.n] \/ (run.pc = "rollback" /\ q'[run.n] = None)
      BY <2>1, <2>4, <3>2 DEF StoreTypes
    <3> QED
      BY <1>0, <2>1, <2>2, <3>3 DEF RunIsSound, StoreTypes
  <2> QED
    BY <1>12, <2>3, <2>4 DEF Store!deleteFile, Store!removeQuarantined
<1>13. ASSUME NEW r \in Req, Store!removeRec(r), run'.pc # "none" PROVE RunIsSound'
  <2>1. UNCHANGED <<run, src, q>> /\ run.pc # "none" /\ run.n \in Store!Slot /\ h[r].n \in Store!Slot
        /\ record' = [record EXCEPT ![h[r].n] = None] /\ h[r].f \in File
    BY <1>13 DEF Store!removeRec, StoreTypes
  <2>2. record[h[r].n] # None => ~Store!Reused(r)
    BY <1>13, NotCrossed
  <2>3. h[r].n = run.n => run.pc = "rollback"
    BY <1>0, <2>1, <2>2 DEF RunIsSound, Store!Reused, Store!QuarantineAssumption
  <2>4. record'[run.n] = record[run.n] \/ (run.pc = "rollback" /\ record'[run.n] = None)
    BY <2>1, <2>3 DEF StoreTypes
  <2> QED
    BY <1>0, <2>1, <2>4 DEF RunIsSound
<1>14. ASSUME NEW r \in Req, Store!createRestored(r), run'.pc # "none" PROVE RunIsSound'
  <2>1. /\ UNCHANGED <<run, q, record>> /\ run.f \in File
        /\ src'[run.f] = src[run.f]
    BY <1>14 DEF Store!createRestored, Store!Apart, StoreTypes
  <2> QED
    BY <1>0, <2>1 DEF RunIsSound
<1>15. ASSUME NEW r \in Req, Store!writeRestored(r), run'.pc # "none" PROVE RunIsSound'
  <2>1. UNCHANGED <<run, q, record>> /\ run.f \in File /\ h[r].f \in File
    BY <1>15 DEF Store!writeRestored, StoreTypes
  <2>2. src'[run.f] = src[run.f] \/ src'[run.f] = None \/ src'[run.f].whole
    BY <1>15, <2>1 DEF Store!writeRestored, Store!RemoveRestored, Store!Own, StoreTypes, Store!Content, Store!Copy
  <2> QED
    BY <1>0, <2>1, <2>2 DEF RunIsSound
<1>16. ASSUME NEW f \in File, Store!createFile(f) \/ Store!removeFile(f), run'.pc # "none"
       PROVE  RunIsSound'
  <2>1. UNCHANGED <<run, q, record>> /\ run.f \in File
    BY <1>16 DEF Store!createFile, Store!removeFile, StoreTypes
  <2>2. src'[run.f] = src[run.f] \/ src'[run.f] = None \/ src'[run.f].whole
    BY <1>16, <2>1 DEF Store!createFile, Store!removeFile, StoreTypes
  <2> QED
    BY <1>0, <2>1, <2>2 DEF RunIsSound
<1>17. ASSUME NEW r \in Req, NEW n \in Store!Slot, NEW u, NEW pc,
              Store!readQuarantineRecord(r, n, u, pc) \/ Store!openQuarantined(r)
       PROVE  RunIsSound'
  BY <1>1, <1>17 DEF Store!readQuarantineRecord, Store!openQuarantined
<1> QED
  BY <1>2, <1>3, <1>4, <1>5, <1>6, <1>7, <1>8, <1>9, <1>10, <1>11, <1>12, <1>13, <1>14, <1>15, <1>16,
     <1>17, NoneIsNoCopy DEF Store!Next, Store!Run, Store!Request

LEMMA PartialNext ==
    ASSUME Store!QuarantineAssumption, StoreTypes, StoreSound, Store!Next, ~crossed'
    PROVE  PartialIsWritten'
<1> USE DEF StoreTypes, PartialIsWritten
<1>0. RunIsSound /\ PartialIsWritten
  BY DEF StoreSound
<1>1. CASE UNCHANGED <<src, h>>
  BY <1>0, <1>1
<1>2. CASE Store!rmSource \/ Store!mv
  BY <1>0, <1>2 DEF Store!rmSource, Store!mv, Store!Keep
<1>3. CASE Store!rollback
  BY <1>0, <1>3 DEF Store!rollback, RunIsSound
<1>4. ASSUME NEW r \in Req, h[r].pc # "write", UNCHANGED src, \A x \in Req \ {r} : h'[x] = h[x]
      PROVE  PartialIsWritten'
  BY <1>0, <1>4
<1>5. ASSUME NEW r \in Req, NEW n \in Store!Slot, NEW u, NEW pc, Store!readQuarantineRecord(r, n, u, pc)
      PROVE  PartialIsWritten'
  BY <1>4, <1>5 DEF Store!readQuarantineRecord
<1>6. ASSUME NEW r \in Req, Store!deleteFile(r) \/ Store!removeRec(r) \/ Store!openQuarantined(r)
      PROVE  PartialIsWritten'
  BY <1>4, <1>6 DEF Store!deleteFile, Store!removeRec, Store!openQuarantined, Store!To, Store!Done
<1>7. ASSUME NEW r \in Req, Store!createRestored(r) PROVE PartialIsWritten'
  <2>1. CASE src[h[r].f] # None
    BY <1>4, <1>7, <2>1 DEF Store!createRestored, Store!Done
  <2>2. CASE src[h[r].f] = None
    <3>1. /\ h'[r].pc = "write" /\ h'[r].f = h[r].f /\ h'[r].data = h[r].data
          /\ \A x \in Req \ {r} : h'[x] = h[x]
          /\ h[r].pc = "create" /\ h[r].f \in File
      BY <1>7, <2>2 DEF Store!createRestored, Store!To
    <3>2. src' = [src EXCEPT ![h[r].f] = [data |-> h[r].data, whole |-> FALSE]]
      BY <1>7, <2>2 DEF Store!createRestored
    <3> QED
      BY <1>0, <3>1, <3>2
  <2> QED
    BY <2>1, <2>2
<1>8. ASSUME NEW r \in Req, Store!writeRestored(r) PROVE PartialIsWritten'
  <2>1. h[r].f \in File /\ h[r].pc = "write" /\ \A x \in Req \ {r} : h'[x] = h[x]
    BY <1>8 DEF Store!writeRestored, Store!To, Store!Done
  <2>2. CASE src' = [src EXCEPT ![h[r].f] = None]
    BY <1>0, <2>1, <2>2
  <2>3. CASE Store!Own(r) /\ src' = [src EXCEPT ![h[r].f].whole = TRUE]
    <3>1. src'[h[r].f].whole /\ \A f \in File \ {h[r].f} : src'[f] = src[f]
      BY <2>1, <2>3 DEF Store!Own, Store!Content, Store!Copy
    <3> QED
      BY <1>0, <2>1, <3>1
  <2>4. CASE ~Store!Own(r) /\ src' = src
    BY <1>0, <2>1, <2>4 DEF Store!Own
  <2> QED
    BY <1>8, <2>2, <2>3, <2>4 DEF Store!writeRestored, Store!RemoveRestored
<1>9. ASSUME NEW r \in Req, Store!removeQuarantined(r) PROVE PartialIsWritten'
  <2>1. h[r].f \in File /\ h[r].pc = "removeFile" /\ \A x \in Req \ {r} : h'[x] = h[x]
    BY <1>9 DEF Store!removeQuarantined, Store!To, Store!Done
  <2>2. src' = src \/ src' = [src EXCEPT ![h[r].f] = None]
    BY <1>9 DEF Store!removeQuarantined, Store!RemoveRestored
  <2> QED
    BY <1>0, <2>1, <2>2
<1>10. ASSUME NEW f \in File, Store!createFile(f) \/ Store!removeFile(f) PROVE PartialIsWritten'
  BY <1>0, <1>10 DEF Store!createFile, Store!removeFile
<1> QED
  BY <1>1, <1>2, <1>3, <1>5, <1>6, <1>7, <1>8, <1>9, <1>10
  DEF Store!Next, Store!Run, Store!Request, Store!Keep, Store!reserve_quarantine_name,
     Store!writeTmpRecord, Store!link, Store!verify_completed_move, Store!prepare_move_fallback,
     Store!copy, Store!publish, Store!abort, Store!kill

\* Only createFile brings in a new file.
LEMMA BornNext ==
    ASSUME Store!QuarantineAssumption, StoreTypes, StoreSound, Store!Next
    PROVE  BornBefore'
<1>0. BornBefore
  BY DEF StoreSound
<1>1. ASSUME NEW f \in File, Store!createFile(f) PROVE BornBefore'
  <2>1. /\ \A g \in File : born[g] \in Nat /\ born'[g] \in Nat /\ born[g] <= born'[g]
        /\ born'[f] = born[f] + 1
    BY <1>1 DEF Store!createFile, StoreTypes, Store!QuarantineAssumption
  <2>2. \A d \in Store!Datum : d[2] <= born[d[1]] => d[2] <= born'[d[1]]
    BY <2>1, DatumTypes
  <2>3. /\ src'[f].data = <<f, born[f] + 1>> /\ \A g \in File \ {f} : src'[g] = src[g]
        /\ UNCHANGED <<q, h>>
    BY <1>1 DEF Store!createFile, StoreTypes
  <2>4. src'[f].data[2] <= born'[src'[f].data[1]]
    BY <2>1, <2>3
  <2>5. /\ \A g \in File : src[g] # None => src[g].data \in Store!Datum
        /\ \A n \in Store!Slot : q[n] # None => q[n].data \in Store!Datum
        /\ \A r \in Req : h[r].data # None => h[r].data \in Store!Datum
    BY CopyTypes DEF StoreTypes
  <2> QED
    BY <1>0, <2>2, <2>3, <2>4, <2>5 DEF BornBefore, IsBorn
<1>2. ASSUME UNCHANGED born,
             \A f \in File : src'[f] # None =>
                 \/ src[f] # None /\ src'[f].data = src[f].data
                 \/ \E n \in Store!Slot : q[n] # None /\ src'[f].data = q[n].data
                 \/ \E r \in Req : h[r].data # None /\ src'[f].data = h[r].data,
             \A n \in Store!Slot : q'[n] # None =>
                 \/ q[n] # None /\ q'[n].data = q[n].data
                 \/ \E f \in File : src[f] # None /\ q'[n].data = src[f].data,
             \A r \in Req : h'[r].data # None =>
                 \/ h'[r].data = h[r].data
                 \/ \E n \in Store!Slot : q[n] # None /\ h'[r].data = q[n].data
      PROVE  BornBefore'
  BY <1>0, <1>2 DEF BornBefore, IsBorn
<1>3. ASSUME run.pc # "none" PROVE run.f \in File /\ run.n \in Store!Slot
  BY <1>3 DEF StoreTypes
<1>4. ASSUME NEW f \in File, Store!reserve_quarantine_name(f) PROVE BornBefore'
  BY <1>2, <1>4 DEF Store!reserve_quarantine_name, Store!Keep
<1>5. CASE Store!writeTmpRecord \/ Store!verify_completed_move \/ Store!publish \/ Store!abort
  BY <1>2, <1>5 DEF Store!writeTmpRecord, Store!verify_completed_move, Store!publish, Store!abort, Store!Keep
<1>6. CASE Store!link \/ Store!rmSource \/ Store!prepare_move_fallback
  BY <1>2, <1>3, <1>6 DEF Store!link, Store!rmSource, Store!prepare_move_fallback, Store!Keep, StoreTypes
<1>7. CASE Store!copy \/ Store!mv \/ Store!kill
  <2>1. /\ run.pc # "none" /\ UNCHANGED <<born, h>> /\ (src' = src \/ src' = [src EXCEPT ![run.f] = None])
        /\ \/ q' = q
           \/ src[run.f] # None /\ q' = [q EXCEPT ![run.n] = src[run.f]]
           \/ src[run.f] # None /\ q' = [q EXCEPT ![run.n] = [src[run.f] EXCEPT !.whole = FALSE]]
    BY <1>7 DEF Store!copy, Store!mv, Store!kill, Store!Keep
  <2>2. src[run.f] # None => [src[run.f] EXCEPT !.whole = FALSE].data = src[run.f].data
    BY <1>3, <2>1, CopyTypes DEF StoreTypes, Store!Copy
  <2> QED
    BY <1>2, <1>3, <2>1, <2>2 DEF StoreTypes
<1>8. CASE Store!rollback
  BY <1>2, <1>3, <1>8 DEF Store!rollback, StoreTypes
<1>9. ASSUME NEW r \in Req, NEW n \in Store!Slot, NEW u, NEW pc, Store!readQuarantineRecord(r, n, u, pc)
      PROVE  BornBefore'
  <2>1. /\ UNCHANGED <<born, src, q>> /\ \A x \in Req \ {r} : h'[x] = h[x]
        /\ h'[r].data = IF q[n] = None THEN None ELSE q[n].data
    BY <1>9 DEF Store!readQuarantineRecord, StoreTypes
  <2> QED
    BY <1>2, <2>1
<1>10. ASSUME NEW r \in Req, Store!deleteFile(r) \/ Store!removeRec(r) \/ Store!removeQuarantined(r)
       PROVE  BornBefore'
  BY <1>2, <1>10 DEF Store!deleteFile, Store!removeRec, Store!removeQuarantined, Store!RemoveRestored,
     Store!To, Store!Done, Store!NoReq, StoreTypes
<1>11. ASSUME NEW r \in Req, Store!openQuarantined(r) PROVE BornBefore'
  BY <1>2, <1>11 DEF Store!openQuarantined, Store!Done, Store!NoReq, StoreTypes
<1>12. ASSUME NEW r \in Req, Store!createRestored(r) PROVE BornBefore'
  <2>1. h[r].data # None /\ h[r].f \in File
    BY <1>12, NoneIsNoCopy DEF Store!createRestored, StoreTypes
  <2> QED
    BY <1>2, <1>12, <2>1 DEF Store!createRestored, Store!To, Store!Done, Store!NoReq, StoreTypes
<1>13. ASSUME NEW r \in Req, Store!writeRestored(r) PROVE BornBefore'
  <2>1. \A f \in File : src'[f] = None \/ (src[f] # None /\ src'[f].data = src[f].data)
    <3>1. h[r].f \in File
      BY <1>13 DEF Store!writeRestored, StoreTypes
    <3> QED
      BY <1>13, <3>1 DEF Store!writeRestored, Store!RemoveRestored, Store!Own, Store!Content, Store!Copy,
         StoreTypes
  <2> QED
    BY <1>2, <1>13, <2>1 DEF Store!writeRestored, Store!To, Store!Done, Store!NoReq, StoreTypes
<1>14. ASSUME NEW f \in File, Store!removeFile(f) PROVE BornBefore'
  BY <1>2, <1>14 DEF Store!removeFile, StoreTypes
<1> QED
  BY <1>1, <1>4, <1>5, <1>6, <1>7, <1>8, <1>9, <1>10, <1>11, <1>12, <1>13, <1>14
  DEF Store!Next, Store!Run, Store!Request

\* Nothing is taken away and nobody owes more.
LEMMA NothingTaken ==
    ASSUME Store!QuarantineAssumption, IsFiniteSet(Req), NEW d, More(Copies(d), Debtors(d)),
           \A n \in Store!Slot : InStore(n, d) => InStore(n, d)', AtPath(d) => AtPath(d)',
           \A r \in Req : ReqOwes(r, d)' => ReqOwes(r, d), RunOwes(d)' => RunOwes(d)
    PROVE  More(Copies(d)', Debtors(d)')
<1>1. Copies(d) \in SUBSET (Copies(d)') /\ Debtors(d)' \in SUBSET Debtors(d)
  BY DEF Copies, Debtors
<1> QED
  BY <1>1, MoreKept, CopiesAreFinite

\* The copy at place c goes and its debtor x with it.
LEMMA DebtIsPaid ==
    ASSUME Store!QuarantineAssumption, IsFiniteSet(Req), NEW d, More(Copies(d), Debtors(d)),
           NEW c, NEW x \in Req \cup {None},
           \A n \in Store!Slot \ {c} : InStore(n, d) => InStore(n, d)',
           c = PathCode \/ (AtPath(d) => AtPath(d)'),
           IF x = None THEN RunOwes(d) ELSE ReqOwes(x, d),
           \A r \in Req : ReqOwes(r, d)' => ReqOwes(r, d) /\ r # x,
           RunOwes(d)' => RunOwes(d) /\ x # None
    PROVE  More(Copies(d)', Debtors(d)')
<1>1. Copies(d) \ {c} \in SUBSET (Copies(d)')
  BY DEF Copies
<1>2. x \in Debtors(d) /\ Debtors(d)' \in SUBSET (Debtors(d) \ {x})
  BY NoneIsNoCopy DEF Debtors
<1>3. More(Copies(d) \ {c}, Debtors(d) \ {x})
  BY <1>2, MoreTaken, CopiesAreFinite
<1>4. IsFiniteSet(Debtors(d) \ {x})
  BY CopiesAreFinite, FS_RemoveElement
<1> QED
  BY <1>1, <1>2, <1>3, <1>4, MoreKept, CopiesAreFinite

\* A copy is made at place c, and at most x owes one more.
LEMMA CopyIsMade ==
    ASSUME Store!QuarantineAssumption, IsFiniteSet(Req), NEW d, More(Copies(d), Debtors(d)),
           NEW c \in Store!Slot \cup {PathCode}, NEW x,
           IF c = PathCode THEN ~AtPath(d) /\ AtPath(d)' ELSE ~InStore(c, d) /\ InStore(c, d)',
           \A n \in Store!Slot : InStore(n, d) => InStore(n, d)', AtPath(d) => AtPath(d)',
           \A r \in Req : ReqOwes(r, d)' => ReqOwes(r, d) \/ r = x,
           RunOwes(d)' => RunOwes(d) \/ x = None
    PROVE  More(Copies(d)', Debtors(d)')
<1>0. PathCode \notin Store!Slot
  BY DEF Store!QuarantineAssumption, PathCode, Store!Slot
<1>1. c \notin Copies(d) /\ Copies(d) \cup {c} \in SUBSET (Copies(d)')
  BY <1>0 DEF Copies
<1>2. Debtors(d)' \in SUBSET (Debtors(d) \cup {x})
  BY DEF Debtors
<1>3. More(Copies(d) \cup {c}, Debtors(d) \cup {x})
  BY <1>1, MoreAdded, CopiesAreFinite
<1>4. IsFiniteSet(Debtors(d) \cup {x})
  BY CopiesAreFinite, FS_AddElement
<1> QED
  BY <1>1, <1>2, <1>3, <1>4, MoreKept, CopiesAreFinite

\* The copy at place c moves to e.
LEMMA CopyIsMoved ==
    ASSUME Store!QuarantineAssumption, IsFiniteSet(Req), NEW d, More(Copies(d), Debtors(d)),
           NEW c, NEW e \in Store!Slot \cup {PathCode},
           IF e = PathCode THEN ~AtPath(d) /\ AtPath(d)' ELSE ~InStore(e, d) /\ InStore(e, d)',
           \A n \in Store!Slot \ {c} : InStore(n, d) => InStore(n, d)',
           c = PathCode \/ (AtPath(d) => AtPath(d)'),
           \A r \in Req : ReqOwes(r, d)' => ReqOwes(r, d), RunOwes(d)' => RunOwes(d)
    PROVE  More(Copies(d)', Debtors(d)')
<1>0. PathCode \notin Store!Slot
  BY DEF Store!QuarantineAssumption, PathCode, Store!Slot
<1>1. e \notin Copies(d) /\ (Copies(d) \ {c}) \cup {e} \in SUBSET (Copies(d)')
  BY <1>0 DEF Copies
<1>2. Debtors(d)' \in SUBSET Debtors(d)
  BY DEF Debtors
<1>3. More((Copies(d) \ {c}) \cup {e}, Debtors(d))
  BY <1>1, MoreMoved, CopiesAreFinite
<1> QED
  BY <1>1, <1>2, <1>3, MoreKept, CopiesAreFinite

LEMMA RunMore ==
    ASSUME Store!QuarantineAssumption, IsFiniteSet(Req), StoreTypes, StoreSound, Store!Run, ~crossed',
           NEW d \in Store!Datum, d \notin gone', More(Copies(d), Debtors(d))
    PROVE  More(Copies(d)', Debtors(d)')
<1>0. Home /\ RunIsSound
  BY DEF StoreSound
<1>1. /\ UNCHANGED h
      /\ \A r \in Req : ReqOwes(r, d)' => ReqOwes(r, d)
  BY DEF Store!Run, Store!Keep, Store!reserve_quarantine_name, Store!writeTmpRecord, Store!link,
     Store!rmSource, Store!verify_completed_move, Store!prepare_move_fallback, Store!copy, Store!mv,
     Store!publish, Store!rollback, Store!abort, Store!kill, ReqOwes
<1>2. ASSUME run.pc # "none"
      PROVE  /\ run.f \in File /\ run.n \in Store!Slot
             /\ src[run.f] # None => src[run.f].data[1] = run.f /\ src[run.f].whole
             /\ q[run.n] # None => q[run.n].data[1] = run.f
  BY <1>0, <1>2 DEF StoreTypes, Home, RunIsSound
<1>3. ASSUME UNCHANGED <<src, q>>, RunOwes(d)' => RunOwes(d) PROVE More(Copies(d)', Debtors(d)')
  BY <1>1, <1>3, NothingTaken DEF InStore, AtPath
\* A complete copy is made in the quarantine.
<1>4. ASSUME run.pc # "none", q[run.n] = None, src[run.f] # None, UNCHANGED src, run'.f = run.f,
             run'.n = run.n, q' = [q EXCEPT ![run.n] = src[run.f]]
      PROVE  More(Copies(d)', Debtors(d)')
  <2>1. /\ q'[run.n] = src[run.f] /\ \A n \in Store!Slot \ {run.n} : q'[n] = q[n]
        /\ AtPath(d) => AtPath(d)' /\ ~InStore(run.n, d)
    BY <1>2, <1>4 DEF StoreTypes, AtPath, InStore
  <2>2. CASE src[run.f].data = d
    <3>1. PICK c \in Store!Slot : c = run.n
      BY <1>2, <1>4
    <3>2. ~InStore(c, d) /\ InStore(c, d)' /\ \A n \in Store!Slot : InStore(n, d) => InStore(n, d)'
      BY <1>2, <1>4, <2>1, <2>2, <3>1 DEF InStore
    <3>3. c # PathCode
      BY DEF Store!QuarantineAssumption, PathCode, Store!Slot
    <3> QED
      BY <1>1, <2>1, <3>2, <3>3, CopyIsMade
  <2>3. CASE src[run.f].data # d
    <3>1. \A n \in Store!Slot : InStore(n, d) => InStore(n, d)'
      BY <1>4, <2>1 DEF InStore
    <3>2. ~RunOwes(d)'
      BY <1>4, <2>3 DEF RunOwes
    <3> QED
      BY <1>1, <2>1, <3>1, <3>2, NothingTaken
  <2> QED
    BY <2>2, <2>3
\* An incomplete one is left there.
<1>5. ASSUME run.pc # "none", q[run.n] = None, src[run.f] # None, UNCHANGED src,
             run'.pc = "none" \/ run'.n = run.n,
             q' = [q EXCEPT ![run.n] = [src[run.f] EXCEPT !.whole = FALSE]]
      PROVE  More(Copies(d)', Debtors(d)')
  <2>1. src[run.f] \in Store!Copy
    BY <1>2, <1>5, CopyTypes DEF StoreTypes
  <2>2. /\ q'[run.n].whole = FALSE /\ \A n \in Store!Slot \ {run.n} : q'[n] = q[n]
        /\ AtPath(d) => AtPath(d)'
    BY <1>2, <1>5, <2>1 DEF StoreTypes, AtPath, Store!Copy
  <2>3. \A n \in Store!Slot : InStore(n, d) => InStore(n, d)'
    BY <1>5, <2>2 DEF InStore
  <2>4. ~RunOwes(d)'
    BY <1>5, <2>2 DEF RunOwes, InStore
  <2> QED
    BY <1>1, <2>2, <2>3, <2>4, NothingTaken
<1>6. ASSUME NEW f \in File, Store!reserve_quarantine_name(f) PROVE More(Copies(d)', Debtors(d)')
  <2>1. UNCHANGED <<src, q>> /\ ~RunOwes(d)'
    BY <1>6 DEF Store!reserve_quarantine_name, RunOwes, InStore
  <2> QED
    BY <1>3, <2>1
<1>7. CASE Store!writeTmpRecord \/ Store!verify_completed_move \/ Store!publish \/ Store!abort
  <2>1. UNCHANGED <<src, q>> /\ (RunOwes(d)' => RunOwes(d))
    BY <1>7 DEF Store!writeTmpRecord, Store!verify_completed_move, Store!publish, Store!abort,
       Store!ToRun, Store!NoRun, RunOwes, InStore, StoreTypes
  <2> QED
    BY <1>3, <2>1
<1>8. CASE Store!link
  <2>1. CASE UNCHANGED q
    <3>1. UNCHANGED <<src, q>> /\ (RunOwes(d)' => RunOwes(d))
      BY <1>8, <2>1 DEF Store!link, Store!ToRun, RunOwes, InStore, StoreTypes
    <3> QED
      BY <1>3, <3>1
  <2>2. CASE src[run.f] # None /\ q' = [q EXCEPT ![run.n] = src[run.f]]
    <3>1. run.pc # "none" /\ q[run.n] = None /\ UNCHANGED src /\ run'.f = run.f /\ run'.n = run.n
      BY <1>0, <1>8 DEF Store!link, Store!ToRun, StoreTypes, RunIsSound
    <3> QED
      BY <1>4, <2>2, <3>1
  <2> QED
    BY <1>8, <2>1, <2>2 DEF Store!link
<1>9. CASE Store!rmSource
  <2>0. run.pc # "none" /\ run'.f = run.f /\ run'.n = run.n /\ UNCHANGED q /\ run.pc \in {"rm1", "rm2"}
    BY <1>9 DEF Store!rmSource, Store!ToRun, StoreTypes
  <2>1. CASE UNCHANGED src
    BY <1>3, <2>0, <2>1 DEF RunOwes, InStore
  <2>2. CASE src[run.f] # None /\ src' = [src EXCEPT ![run.f] = None]
    <3>1. ~RunOwes(d)' /\ \A n \in Store!Slot : InStore(n, d) => InStore(n, d)'
      BY <1>2, <2>0, <2>2 DEF RunOwes, InStore, StoreTypes
    <3>2. CASE src[run.f].data = d
      <4>1. src' # src
        BY <1>2, <2>0, <2>2 DEF StoreTypes
      <4>2. q[run.n] # None /\ q[run.n].whole /\ q[run.n].data = d
        BY <1>0, <1>9, <2>0, <2>2, <3>2, <4>1, NotCrossed DEF RunIsSound, Store!Replaced
      <4>3. RunOwes(d)
        BY <2>0, <2>2, <3>2, <4>2 DEF RunOwes, InStore
      <4> QED
        BY <1>1, <3>1, <4>3, DebtIsPaid, NoneIsNoCopy
    <3>3. CASE src[run.f].data # d
      <4>1. AtPath(d) => AtPath(d)'
        BY <1>2, <2>0, <2>2, <3>3, DatumTypes DEF AtPath, StoreTypes
      <4> QED
        BY <1>1, <3>1, <4>1, NothingTaken
    <3> QED
      BY <3>2, <3>3
  <2> QED
    BY <1>9, <2>1, <2>2 DEF Store!rmSource
<1>10. CASE Store!prepare_move_fallback
  <2>0. run.pc # "none" /\ run'.f = run.f /\ run'.n = run.n /\ UNCHANGED src
    BY <1>10 DEF Store!prepare_move_fallback, Store!ToRun, StoreTypes
  <2>1. CASE UNCHANGED q
    BY <1>3, <2>0, <2>1 DEF RunOwes, InStore
  <2>2. CASE src[run.f] # None /\ q' = [q EXCEPT ![run.n] = None]
    <3>1. /\ ~RunOwes(d)' /\ (AtPath(d) => AtPath(d)')
          /\ \A n \in Store!Slot \ {run.n} : InStore(n, d) => InStore(n, d)'
      BY <1>2, <2>0, <2>2 DEF RunOwes, InStore, AtPath, StoreTypes
    <3>2. CASE InStore(run.n, d)
      <4>1. RunOwes(d)
        BY <1>10, <2>0, <2>2, <3>2, NotCrossed DEF RunOwes, InStore, Store!Replaced
      <4> QED
        BY <1>1, <3>1, <4>1, DebtIsPaid, NoneIsNoCopy
    <3>3. CASE ~InStore(run.n, d)
      BY <1>1, <3>1, <3>3, NothingTaken
    <3> QED
      BY <3>2, <3>3
  <2> QED
    BY <1>10, <2>1, <2>2 DEF Store!prepare_move_fallback
<1>11. CASE Store!copy
  <2>0. /\ run.pc # "none" /\ run'.f = run.f /\ run'.n = run.n /\ UNCHANGED src
        /\ q[run.n] = None
    BY <1>0, <1>11 DEF Store!copy, Store!ToRun, StoreTypes, RunIsSound
  <2>1. CASE UNCHANGED q
    BY <1>3, <2>0, <2>1 DEF RunOwes, InStore
  <2> QED
    BY <1>4, <1>5, <1>11, <2>0, <2>1 DEF Store!copy
<1>12. CASE Store!mv
  <2>0. run.pc # "none" /\ run'.f = run.f /\ run'.n = run.n /\ q[run.n] = None
    BY <1>0, <1>12 DEF Store!mv, Store!ToRun, StoreTypes, RunIsSound
  <2>1. CASE UNCHANGED <<src, q>>
    BY <1>3, <2>0, <2>1 DEF RunOwes, InStore
  <2>2. CASE /\ src[run.f] # None /\ q' = [q EXCEPT ![run.n] = src[run.f]]
             /\ src' = [src EXCEPT ![run.f] = None]
    <3>1. /\ q'[run.n] = src[run.f] /\ \A n \in Store!Slot \ {run.n} : q'[n] = q[n]
          /\ src'[run.f] = None /\ \A f \in File \ {run.f} : src'[f] = src[f]
      BY <1>2, <2>0, <2>2 DEF StoreTypes
    <3>2. /\ ~RunOwes(d)' /\ ~InStore(run.n, d)
          /\ \A n \in Store!Slot : InStore(n, d) => InStore(n, d)'
      BY <2>0, <3>1 DEF RunOwes, InStore
    <3>3. CASE src[run.f].data = d
      <4>1. InStore(run.n, d)' /\ run.n # PathCode
        BY <1>2, <2>0, <2>2, <3>1, <3>3 DEF InStore, PathCode, Store!Slot, Store!QuarantineAssumption
      <4> QED
        BY <1>1, <1>2, <2>0, <3>2, <4>1, CopyIsMoved
    <3>4. CASE src[run.f].data # d
      <4>1. AtPath(d) => AtPath(d)'
        BY <1>2, <2>0, <2>2, <3>1, <3>4, DatumTypes DEF AtPath
      <4> QED
        BY <1>1, <3>2, <4>1, NothingTaken
    <3> QED
      BY <3>3, <3>4
  <2> QED
    BY <1>5, <1>12, <2>0, <2>1, <2>2 DEF Store!mv
<1>13. CASE Store!rollback
  <2>0. run.pc = "rollback" /\ ~RunOwes(d)'
    BY <1>13 DEF Store!rollback, RunOwes, Store!NoRun
  <2>1. CASE UNCHANGED <<src, q>>
    BY <1>3, <2>0, <2>1
  <2>2. CASE /\ q[run.n] # None /\ (src[run.f] # None => src[run.f].data \in gone')
             /\ src' = [src EXCEPT ![run.f] = q[run.n]]
             /\ q' = [q EXCEPT ![run.n] = None]
    <3>1. /\ src'[run.f] = q[run.n] /\ \A f \in File \ {run.f} : src'[f] = src[f]
          /\ \A n \in Store!Slot \ {run.n} : q'[n] = q[n]
          /\ q[run.n].data[1] = run.f /\ q[run.n].whole
      BY <1>0, <1>2, <2>0, <2>2 DEF StoreTypes, RunIsSound
    <3>2. \A n \in Store!Slot \ {run.n} : InStore(n, d) => InStore(n, d)'
      BY <3>1 DEF InStore
    <3>3. CASE q[run.n].data = d
      <4>1. ~AtPath(d) /\ AtPath(d)'
        BY <2>2, <3>1, <3>3 DEF AtPath
      <4> QED
        BY <1>1, <2>0, <3>2, <4>1, CopyIsMoved
    <3>4. CASE q[run.n].data # d
      <4>1. AtPath(d) => AtPath(d)'
        BY <2>2, <3>1, <3>4, DatumTypes DEF AtPath
      <4>2. ~InStore(run.n, d)
        BY <3>4 DEF InStore
      <4> QED
        BY <1>1, <2>0, <3>2, <4>1, <4>2, NothingTaken
    <3> QED
      BY <3>3, <3>4
  <2> QED
    BY <1>13, <2>1, <2>2 DEF Store!rollback
<1>14. CASE Store!kill
  <2>0. run.pc # "none" /\ UNCHANGED src /\ run'.pc = "none" /\ ~RunOwes(d)'
    BY <1>14 DEF Store!kill, Store!NoRun, RunOwes
  <2>1. CASE UNCHANGED q
    BY <1>3, <2>0, <2>1
  <2>2. CASE run.pc = "copy" /\ src[run.f] # None
    <3>1. q[run.n] = None
      BY <1>0, <2>2 DEF RunIsSound
    <3> QED
      BY <1>5, <1>14, <2>0, <2>2, <3>1 DEF Store!kill
  <2> QED
    BY <1>14, <2>1, <2>2 DEF Store!kill
<1> QED
  BY <1>6, <1>7, <1>8, <1>9, <1>10, <1>11, <1>12, <1>13, <1>14 DEF Store!Run

LEMMA RequestMore ==
    ASSUME Store!QuarantineAssumption, IsFiniteSet(Req), StoreTypes, StoreSound, ~crossed',
           NEW r \in Req, Store!Request(r),
           NEW d \in Store!Datum, d \notin gone', More(Copies(d), Debtors(d))
    PROVE  More(Copies(d)', Debtors(d)')
<1>0. Home
  BY DEF StoreSound
<1>1. /\ UNCHANGED run /\ \A x \in Req \ {r} : h'[x] = h[x]
      /\ run.pc # "none" => run.f \in File /\ run.n \in Store!Slot
      /\ h[r].n \in Store!Slot /\ (h[r].pc # "idle" => h[r].f \in File)
  BY DEF Store!Request, Store!readQuarantineRecord, Store!deleteFile, Store!removeRec, Store!openQuarantined,
     Store!createRestored, Store!writeRestored, Store!removeQuarantined, Store!To, Store!Done, StoreTypes
<1>2. \A x \in Req : ReqOwes(x, d)' => ReqOwes(x, d) \/ x = r
  BY <1>1 DEF ReqOwes
<1>3. ASSUME UNCHANGED <<src, q>>, ~ReqOwes(r, d)' PROVE More(Copies(d)', Debtors(d)')
  <2>1. RunOwes(d)' => RunOwes(d)
    BY <1>1, <1>3 DEF RunOwes, InStore
  <2> QED
    BY <1>2, <1>3, <2>1, NothingTaken DEF InStore, AtPath
<1>4. ASSUME NEW n \in Store!Slot, NEW u, NEW pc \in {"delete", "recover"},
             Store!readQuarantineRecord(r, n, u, pc)
      PROVE  More(Copies(d)', Debtors(d)')
  BY <1>3, <1>4 DEF Store!readQuarantineRecord, ReqOwes, StoreTypes
<1>5. CASE Store!removeRec(r) \/ Store!openQuarantined(r)
  BY <1>3, <1>5 DEF Store!removeRec, Store!openQuarantined, Store!Done, Store!NoReq, ReqOwes, StoreTypes
<1>6. CASE Store!deleteFile(r)
  <2>1. UNCHANGED src /\ ~ReqOwes(r, d)'
    BY <1>6 DEF Store!deleteFile, Store!Done, Store!To, Store!NoReq, ReqOwes, StoreTypes
  <2>2. CASE q[h[r].n] = None
    BY <1>3, <1>6, <2>1, <2>2 DEF Store!deleteFile
  <2>3. CASE q[h[r].n] # None
    <3>1. q' = [q EXCEPT ![h[r].n] = None] /\ q[h[r].n].data # d
      BY <1>6, <2>3 DEF Store!deleteFile
    <3>2. \A n \in Store!Slot : InStore(n, d) <=> InStore(n, d)'
      BY <1>1, <3>1 DEF InStore, StoreTypes
    <3>3. (RunOwes(d)' => RunOwes(d)) /\ (AtPath(d) => AtPath(d)')
      BY <1>1, <2>1, <3>1 DEF RunOwes, InStore, AtPath, StoreTypes
    <3> QED
      BY <1>2, <2>1, <3>2, <3>3, NothingTaken
  <2> QED
    BY <2>2, <2>3
<1>7. CASE Store!createRestored(r)
  <2>0. h[r].pc = "create" /\ h[r].f \in File /\ h[r].data[1] = h[r].f /\ UNCHANGED q
    BY <1>0, <1>1, <1>7, NoneIsNoCopy DEF Store!createRestored, Home, StoreTypes
  <2>1. CASE src[h[r].f] # None
    BY <1>3, <1>7, <2>1 DEF Store!createRestored, Store!Done, Store!NoReq, ReqOwes, StoreTypes
  <2>2. CASE src[h[r].f] = None
    <3>1. src' = [src EXCEPT ![h[r].f] = [data |-> h[r].data, whole |-> FALSE]] /\ h'[r].data = h[r].data
      BY <1>7, <2>2 DEF Store!createRestored, Store!To, StoreTypes
    <3>2. /\ src'[h[r].f].data = h[r].data /\ src'[h[r].f] # None
          /\ \A f \in File \ {h[r].f} : src'[f] = src[f]
      <4>1. h[r].data \in Store!Datum
        BY <2>0 DEF StoreTypes
      <4>2. [data |-> h[r].data, whole |-> FALSE] \in Store!Copy
        BY <4>1 DEF Store!Copy
      <4> QED
        BY <2>0, <3>1, <4>2, NoneIsNoCopy DEF StoreTypes
    <3>3. run.pc # "none" => run.f # h[r].f
      BY <1>7 DEF Store!createRestored, Store!Apart
    <3>4. /\ RunOwes(d)' => RunOwes(d)
          /\ \A n \in Store!Slot : InStore(n, d) => InStore(n, d)'
      BY <1>1, <2>0, <3>2, <3>3 DEF RunOwes, InStore
    <3>5. AtPath(d) => AtPath(d)'
      BY <2>2, <3>2, DatumTypes DEF AtPath
    <3>6. CASE h[r].data = d
      <4>1. ~AtPath(d) /\ AtPath(d)'
        BY <2>0, <2>2, <3>2, <3>6 DEF AtPath
      <4> QED
        BY <1>2, <3>4, <4>1, CopyIsMade
    <3>7. CASE h[r].data # d
      <4>1. ~ReqOwes(r, d)'
        BY <3>1, <3>7 DEF ReqOwes
      <4> QED
        BY <1>2, <3>4, <3>5, <4>1, NothingTaken
    <3> QED
      BY <3>6, <3>7
  <2> QED
    BY <2>1, <2>2
\* The request removes the copy it has made.
<1>8. ASSUME h[r].pc \in {"write", "removeFile"}, Store!RemoveRestored(r), Store!Done(r), UNCHANGED q
      PROVE  More(Copies(d)', Debtors(d)')
  <2>1. /\ src' = [src EXCEPT ![h[r].f] = None] /\ h[r].f \in File
        /\ src[h[r].f] # None => src[h[r].f].data = h[r].data
    BY <1>1, <1>8, NotCrossed DEF Store!RemoveRestored, Store!Own
  <2>2. /\ ~ReqOwes(r, d)' /\ (RunOwes(d)' => RunOwes(d))
        /\ \A n \in Store!Slot : InStore(n, d) => InStore(n, d)'
    BY <1>1, <1>8, <2>1 DEF ReqOwes, RunOwes, InStore, Store!Done, Store!NoReq, StoreTypes
  <2>3. CASE h[r].data = d
    <3>1. ReqOwes(r, d) /\ r # None
      BY <1>8, <2>3, NoneIsNoCopy DEF ReqOwes
    <3> QED
      BY <1>2, <2>2, <3>1, DebtIsPaid
  <2>4. CASE h[r].data # d
    <3>1. AtPath(d) => AtPath(d)'
      BY <2>1, <2>4, DatumTypes DEF AtPath, StoreTypes
    <3> QED
      BY <1>2, <2>2, <3>1, NothingTaken
  <2> QED
    BY <2>3, <2>4
<1>9. CASE Store!writeRestored(r)
  <2>1. CASE Store!RemoveRestored(r) /\ Store!Done(r)
    BY <1>8, <1>9, <2>1 DEF Store!writeRestored
  <2>2. CASE /\ src' = IF Store!Own(r) THEN [src EXCEPT ![h[r].f].whole = TRUE] ELSE src
             /\ Store!To(r, "removeFile")
    <3>1. h[r].f \in File /\ UNCHANGED q
      BY <1>1, <1>9 DEF Store!writeRestored
    <3>2. \A f \in File : src[f] # None => src'[f] # None /\ src'[f].data = src[f].data
      <4> SUFFICES ASSUME NEW f \in File, src[f] # None
                   PROVE  src'[f] # None /\ src'[f].data = src[f].data
        OBVIOUS
      <4>1. src[f] \in Store!Copy
        BY CopyTypes DEF StoreTypes
      <4>2. src'[f] = src[f] \/ src'[f] = [src[f] EXCEPT !.whole = TRUE]
        BY <2>2, <3>1 DEF StoreTypes
      <4>3. [src[f] EXCEPT !.whole = TRUE].data = src[f].data /\ [src[f] EXCEPT !.whole = TRUE] \in Store!Copy
        BY <4>1 DEF Store!Copy
      <4> QED
        BY <4>1, <4>2, <4>3, NoneIsNoCopy
    <3>3. \A f \in File : src[f] = None => src'[f] = None
      BY <2>2, <3>1 DEF Store!Own, StoreTypes
    <3>4. /\ ReqOwes(r, d)' => ReqOwes(r, d)
          /\ RunOwes(d)' => RunOwes(d)
          /\ \A n \in Store!Slot : InStore(n, d) => InStore(n, d)'
      BY <1>1, <1>9, <2>2, <3>1, <3>2, <3>3
      DEF ReqOwes, RunOwes, InStore, Store!To, Store!writeRestored, StoreTypes
    <3>5. AtPath(d) => AtPath(d)'
      BY <3>2, DatumTypes DEF AtPath
    <3> QED
      BY <1>2, <3>4, <3>5, NothingTaken
  <2> QED
    BY <1>9, <2>1, <2>2 DEF Store!writeRestored
<1>10. CASE Store!removeQuarantined(r)
  <2>1. CASE q[h[r].n] = None
    BY <1>8, <1>10, <2>1 DEF Store!removeQuarantined
  <2>2. CASE q[h[r].n] # None
    <3>1. /\ q' = [q EXCEPT ![h[r].n] = None] /\ UNCHANGED src /\ h'[r].pc = "deleteRec"
          /\ h[r].pc = "removeFile"
      BY <1>10, <2>2 DEF Store!removeQuarantined, Store!To, StoreTypes
    <3>2. q[h[r].n].data = h[r].data
      BY <1>10, <2>2, NotCrossed DEF Store!Reused
    <3>3. /\ ~ReqOwes(r, d)' /\ (RunOwes(d)' => RunOwes(d)) /\ (AtPath(d) => AtPath(d)')
          /\ \A n \in Store!Slot \ {h[r].n} : InStore(n, d) => InStore(n, d)'
      BY <1>1, <3>1 DEF ReqOwes, RunOwes, InStore, AtPath, StoreTypes
    <3>4. CASE h[r].data = d
      <4>1. ReqOwes(r, d) /\ r # None
        BY <3>1, <3>4, NoneIsNoCopy DEF ReqOwes
      <4> QED
        BY <1>2, <3>3, <4>1, DebtIsPaid
    <3>5. CASE h[r].data # d
      <4>1. ~InStore(h[r].n, d)
        BY <3>2, <3>5 DEF InStore
      <4> QED
        BY <1>2, <3>3, <4>1, NothingTaken
    <3> QED
      BY <3>4, <3>5
  <2> QED
    BY <2>1, <2>2
<1> QED
  BY <1>4, <1>5, <1>6, <1>7, <1>9, <1>10 DEF Store!Request

LEMMA MoreNext ==
    ASSUME Store!QuarantineAssumption, IsFiniteSet(Req), StoreTypes, StoreSound, Store!Next, ~crossed'
    PROVE  MoreCopies'
<1> SUFFICES ASSUME NEW d \in Store!Datum, d[2] <= born'[d[1]], d \notin gone'
             PROVE  More(Copies(d)', Debtors(d)')
  BY DEF MoreCopies, IsBorn
<1>1. ASSUME UNCHANGED born, gone \subseteq gone' PROVE More(Copies(d), Debtors(d))
  BY <1>1 DEF StoreSound, MoreCopies, IsBorn
<1>2. CASE Store!Run
  <2>1. UNCHANGED born /\ gone \subseteq gone'
    BY <1>2 DEF Store!Run, Store!Keep, Store!reserve_quarantine_name, Store!writeTmpRecord, Store!link,
       Store!rmSource, Store!verify_completed_move, Store!prepare_move_fallback, Store!copy, Store!mv,
       Store!publish, Store!rollback, Store!abort, Store!kill
  <2> QED
    BY <1>1, <1>2, <2>1, RunMore
<1>3. ASSUME NEW r \in Req, Store!Request(r) PROVE More(Copies(d)', Debtors(d)')
  <2>1. UNCHANGED born /\ gone \subseteq gone'
    BY <1>3 DEF Store!Request, Store!readQuarantineRecord, Store!deleteFile, Store!removeRec,
       Store!openQuarantined, Store!createRestored, Store!writeRestored, Store!removeQuarantined
  <2> QED
    BY <1>1, <1>3, <2>1, RequestMore
<1>4. ASSUME NEW f \in File, Store!createFile(f) PROVE More(Copies(d)', Debtors(d)')
  <2>1. /\ src[f] = None /\ src'[f].data = <<f, born[f] + 1>> /\ src'[f] # None
        /\ \A g \in File \ {f} : src'[g] = src[g]
    <3>1. <<f, born[f] + 1>> \in Store!Datum
      BY <1>4 DEF StoreTypes, Store!createFile, Store!Datum, Store!QuarantineAssumption
    <3>2. [data |-> <<f, born[f] + 1>>, whole |-> TRUE] \in Store!Copy
      BY <3>1 DEF Store!Copy
    <3> QED
      BY <1>4, <3>2, NoneIsNoCopy DEF Store!createFile, StoreTypes
  <2>2. /\ born'[f] = born[f] + 1 /\ (\A g \in File \ {f} : born'[g] = born[g])
        /\ born[f] \in Nat /\ UNCHANGED <<q, run, h, gone>>
    BY <1>4 DEF Store!createFile, StoreTypes
  <2>3. CASE d = <<f, born[f] + 1>>
    <3>1. ~IsBorn(d)
      BY <2>2, <2>3 DEF IsBorn
    <3>2. (\A r \in Req : ~ReqOwes(r, d)') /\ ~RunOwes(d)'
      BY <2>2, <3>1, NoneIsNoCopy DEF StoreSound, BornBefore, ReqOwes, RunOwes, InStore, StoreTypes
    <3>3. Debtors(d)' = {}
      BY <3>2 DEF Debtors
    <3>4. PathCode \in Copies(d)'
      BY <2>1, <2>3 DEF Copies, AtPath
    <3> QED
      BY <3>3, <3>4, MoreThanNone, CopiesAreFinite
  <2>4. CASE d # <<f, born[f] + 1>>
    <3>1. IsBorn(d)
      BY <2>2, <2>4, DatumTypes DEF IsBorn
    <3>2. More(Copies(d), Debtors(d))
      BY <2>2, <3>1 DEF StoreSound, MoreCopies
    <3>3. /\ \A r \in Req : ReqOwes(r, d)' => ReqOwes(r, d)
          /\ \A n \in Store!Slot : InStore(n, d) => InStore(n, d)'
      BY <2>2 DEF ReqOwes, InStore
    <3>4. AtPath(d) => AtPath(d)'
      BY <2>1, DatumTypes DEF AtPath
    <3>5. RunOwes(d)' => RunOwes(d)
      BY <2>1, <2>2, <2>4 DEF RunOwes, InStore, StoreTypes
    <3> QED
      BY <3>2, <3>3, <3>4, <3>5, NothingTaken
  <2> QED
    BY <2>3, <2>4
<1>5. ASSUME NEW f \in File, Store!removeFile(f) PROVE More(Copies(d)', Debtors(d)')
  <2>1. /\ src[f] # None /\ src' = [src EXCEPT ![f] = None] /\ UNCHANGED <<q, run, h, born>>
        /\ gone \subseteq gone'
        /\ src[f].data = d => run.f = f /\ InStore(run.n, d)
    BY <1>5 DEF Store!removeFile, InStore
  <2>2. More(Copies(d), Debtors(d))
    BY <1>1, <2>1
  <2>3. /\ \A r \in Req : ReqOwes(r, d)' => ReqOwes(r, d)
        /\ \A n \in Store!Slot : InStore(n, d) => InStore(n, d)'
    BY <2>1 DEF ReqOwes, InStore
  <2>4. RunOwes(d)' => RunOwes(d) /\ src[f].data # d
    BY <2>1 DEF RunOwes, InStore, StoreTypes
  <2>5. CASE src[f].data = d
    <3>1. RunOwes(d)
      BY <2>1, <2>5, NoneIsNoCopy DEF RunOwes, StoreTypes
    <3> QED
      BY <2>2, <2>3, <2>4, <2>5, <3>1, DebtIsPaid, NoneIsNoCopy
  <2>6. CASE src[f].data # d
    <3>1. AtPath(d) => AtPath(d)'
      BY <2>1, <2>6, DatumTypes DEF AtPath, StoreTypes
    <3> QED
      BY <2>2, <2>3, <2>4, <3>1, NothingTaken
  <2> QED
    BY <2>5, <2>6
<1> QED
  BY <1>2, <1>3, <1>4, <1>5 DEF Store!Next

-----------------------------------------------------------------------------
(* The theorems about the quarantine.                                      *)

LEMMA StoreNext ==
    ASSUME Store!QuarantineAssumption, IsFiniteSet(Req), StoreIInv, [Store!Next]_(Store!vars)
    PROVE  StoreIInv'
<1>1. StoreTypes' /\ crossed' \in BOOLEAN /\ (crossed => crossed')
  BY StoreTypesNext, CrossedNext DEF StoreIInv
<1>2. ASSUME ~crossed', Store!Next PROVE StoreSound'
  <2>1. StoreSound
    BY <1>1, <1>2 DEF StoreIInv
  <2>2. Home' /\ RunIsSound' /\ ListedIsWhole' /\ PartialIsWritten' /\ BornBefore' /\ MoreCopies'
    BY <1>2, <2>1, HomeNext, RunIsSoundNext, ListedNext, PartialNext, BornNext, MoreNext DEF StoreIInv
  <2> QED
    BY <2>2 DEF StoreSound
<1>3. ASSUME ~crossed', UNCHANGED Store!vars PROVE StoreSound'
  BY <1>1, <1>3 DEF StoreIInv, StoreSound, Store!vars, Home, RunIsSound, ListedIsWhole, PartialIsWritten,
     BornBefore, IsBorn, MoreCopies, Copies, Debtors, InStore, AtPath, ReqOwes, RunOwes
<1> QED
  BY <1>1, <1>2, <1>3 DEF StoreIInv

LEMMA StoreIInvImplies ==
    ASSUME Store!QuarantineAssumption, IsFiniteSet(Req), StoreIInv
    PROVE  DataKept /\ ListedIsRestorable
<1>1. Store!TypeOK
  BY DEF StoreIInv, StoreTypes, Store!TypeOK
<1>2. Store!DataKept
  <2> SUFFICES ASSUME ~crossed, NEW f \in File, NEW k \in 0..MaxNew, k <= born[f], <<f, k>> \notin gone
               PROVE  Store!Somewhere(<<f, k>>)
    BY DEF Store!DataKept
  <2> DEFINE d == <<f, k>>
  <2>1. d \in Store!Datum /\ IsBorn(d) /\ d[1] = f
    BY DEF Store!Datum, IsBorn
  <2>2. More(Copies(d), Debtors(d)) /\ PartialIsWritten
    BY <2>1 DEF StoreIInv, StoreSound, MoreCopies
  <2>3. PICK c \in Copies(d) : TRUE
    <3>1. Cardinality(Copies(d)) # 0
      BY <2>2, CopiesAreFinite, FS_CardinalityType DEF More
    <3> QED
      BY <3>1, FS_EmptySet
  <2>4. CASE c \in Store!Slot /\ InStore(c, d)
    BY <2>4 DEF Store!Somewhere, InStore
  <2>5. CASE AtPath(d)
    BY <2>1, <2>2, <2>5 DEF Store!Somewhere, AtPath, PartialIsWritten
  <2> QED
    BY <2>3, <2>4, <2>5 DEF Copies
<1>3. ListedIsRestorable
  BY DEF ListedIsRestorable, Store!ListedIsRestorable, Store!Valid, StoreIInv, StoreSound, ListedIsWhole
<1> QED
  BY <1>1, <1>2, <1>3 DEF DataKept

\* No quarantined file is lost, for any number of files, names and requests: while
\* nobody has acted on a name that was used again, every file that was not deleted
\* on purpose is complete at its path or in the quarantine, or a request is just
\* restoring it (quarantine_detected_file, restoreQuarantinedFile).
THEOREM NothingIsLost == Store!Spec => []DataKept
<1>1. Store!Init => StoreIInv
  BY StoreInitially, StoreConstants
<1>2. StoreIInv /\ [Store!Next]_(Store!vars) => StoreIInv'
  BY StoreNext, StoreConstants
<1>3. StoreIInv => DataKept
  BY StoreIInvImplies, StoreConstants
<1> QED
  BY <1>1, <1>2, <1>3, PTL DEF Store!Spec

\* What the quarantine lists can be restored to where its record says
\* (readQuarantineRecord, quarantine_detected_file).
THEOREM ListedCanBeRestored == Store!Spec => []ListedIsRestorable
<1>1. Store!Init => StoreIInv
  BY StoreInitially, StoreConstants
<1>2. StoreIInv /\ [Store!Next]_(Store!vars) => StoreIInv'
  BY StoreNext, StoreConstants
<1>3. StoreIInv => ListedIsRestorable
  BY StoreIInvImplies, StoreConstants
<1> QED
  BY <1>1, <1>2, <1>3, PTL DEF Store!Spec

-----------------------------------------------------------------------------
(* The history index.                                                      *)

Point == {"idle", "boot", "load", "readDir", "entry", "read", "commit", "failed", "select", "remove"}
Why == {"", "file", "upgrade", "start", "error", "periodic", "clean"}
State == [pc : Point, why : Why, old : [Job -> 0..MaxV], todo : SUBSET Job,
          f : Job \cup {None}, info : 0..MaxV, v : 0..MaxV]

Visits(x) == t[x].pc \in {"read", "commit"}

DataTypes ==
    /\ disk \in [Job -> Index!Version \cup {None}] /\ db \in [Job -> Index!Row \cup {None}]
    /\ wrote \in [Job -> 0..MaxV] /\ schema \in {2, 3}

ControlTypes ==
    /\ events \subseteq Job /\ pendingPaths \subseteq Job
    /\ watcher \in {"down", "on", "disabled"} /\ failures \in 0..MaxRetry
    /\ failures = MaxRetry => watcher = "disabled"

ThreadTypes ==
    /\ mu \in Index!Thread \cup {None}
    /\ t \in [Index!Thread -> State]
    /\ \A x \in Index!Thread :
          /\ Visits(x) => t[x].f \in Job /\ t[x].info \in 1..MaxV /\ t[x].old[t[x].f] = 0
          /\ t[x].pc = "commit" => t[x].v \in 1..MaxV
          /\ t[x].pc \in {"idle", "boot", "select", "remove"} => t[x].why = ""
    /\ t["cleaner"].why \in {"", "clean"} /\ t["cleaner"].pc # "boot"

CleanTypes == jobs \subseteq Mine /\ before \subseteq Job \X (1..MaxV)

IndexTypes == DataTypes /\ ControlTypes /\ ThreadTypes /\ CleanTypes

\* The mutex is held while a file is read and its row is written, and for all of a
\* full refresh.
InMutex(x) ==
    \/ t[x].pc \in {"readDir", "read", "commit", "failed"}
    \/ t[x].pc = "entry" /\ t[x].why # "file"

MutexIsHeld == \A x \in Index!Thread : InMutex(x) => mu = x

\* Rows are never ahead of the files, and a version that was read is not behind the
\* row it is about to replace.
RowsFollowFiles ==
    /\ \A f \in Job : disk[f] # None => disk[f].v = wrote[f]
    /\ \A f \in Job : db[f] # None => db[f].v <= wrote[f]
    /\ \A x \in Index!Thread : t[x].pc = "commit" =>
          /\ t[x].v <= wrote[t[x].f]
          /\ db[t[x].f] # None => db[t[x].f].v <= t[x].v

\* Until the upgrade is over nothing else runs.
UpgradeIsAlone ==
    /\ schema = 2 => t["cleaner"].pc = "idle" /\ (t["indexer"].pc = "boot" \/ t["indexer"].why = "upgrade")
    /\ t["indexer"].why = "upgrade" => schema = 2

HasDetections(f) == db[f] # None /\ Index!Readable(f) /\ disk[f].v = db[f].v => db[f].det

\* The rows of the files that the upgrade has visited are filled.
UpgradeFills ==
    \A f \in Job :
        /\ schema = 3 => HasDetections(f)
        /\ t["indexer"].why = "upgrade" =>
              /\ t["indexer"].pc = "entry" /\ f \notin t["indexer"].todo => HasDetections(f)
              /\ Visits("indexer") /\ f \notin t["indexer"].todo \cup {t["indexer"].f} => HasDetections(f)

\* A result the user had when he asked is found by the refresh, then selected.
Here(b) == disk[b[1]] # None /\ disk[b[1]].v = b[2]
InRefresh(x) == t[x].pc \in {"entry", "read", "commit"}

Found(f) ==
    /\ InRefresh("cleaner") =>
          \/ f \in t["cleaner"].todo
          \/ Visits("cleaner") /\ t["cleaner"].f = f
          \/ db[f] # None /\ t["cleaner"].old[f] = 0
    /\ t["cleaner"].pc = "select" =>
          /\ db[f] # None
          /\ InRefresh("indexer") /\ t["indexer"].why # "file" =>
                f \in t["indexer"].todo \/ t["indexer"].old[f] = 0
    /\ t["cleaner"].pc = "remove" => f \in jobs

CleanFinds ==
    /\ \A f \in Job : t["cleaner"].pc \in {"readDir", "entry", "read", "commit"} /\ t["cleaner"].old[f] # 0 =>
          db[f] # None
    /\ \A b \in before : b[2] <= wrote[b[1]]
    /\ \A b \in before : Here(b) => disk[b[1]].ok /\ b[1] \in Mine /\ Found(b[1])

IndexIInv ==
    /\ IndexTypes /\ MutexIsHeld /\ RowsFollowFiles /\ UpgradeIsAlone /\ UpgradeFills /\ CleanFinds
    /\ Index!OwedRefreshIsTimed

-----------------------------------------------------------------------------
(* What the steps do to the threads.                                       *)

LEMMA IndexFacts ==
    ASSUME Index!HistoryAssumption
    PROVE  /\ Mine \subseteq Job /\ MaxV \in Nat \ {0} /\ MaxRetry \in Nat \ {0} /\ None \notin Job
           /\ None \notin Index!Thread /\ None \notin Index!Version /\ None \notin Index!Row
           /\ 0 \in 0..MaxV /\ 1..MaxV \subseteq 0..MaxV /\ 1 \in 1..MaxV
           /\ Index!Thread = {"indexer", "cleaner"}
BY DEF Index!HistoryAssumption, Index!Thread

LEMMA IdleTypes ==
    ASSUME Index!HistoryAssumption
    PROVE  /\ Index!Idle \in State /\ Index!Boot \in State
           /\ Index!Boot.pc = "boot" /\ Index!Boot.why = ""
           /\ Index!Idle.pc = "idle" /\ Index!Idle.why = ""
<1>1. [f \in Job |-> 0] \in [Job -> 0..MaxV] /\ "idle" \in Point /\ "boot" \in Point /\ "" \in Why
  BY IndexFacts DEF Point, Why
<1>2. Index!Idle \in State
  BY <1>1, IndexFacts DEF Index!Idle, State
<1> QED
  BY <1>1, <1>2 DEF Index!Idle, Index!Boot, State

LEMMA PcTypes ==
    ASSUME NEW s \in State, NEW pc \in Point
    PROVE  /\ [s EXCEPT !.pc = pc] \in State /\ [s EXCEPT !.pc = pc].pc = pc
           /\ [s EXCEPT !.pc = pc].why = s.why
BY DEF State

LEMMA RowTypes ==
    ASSUME DataTypes, NEW f \in Job
    PROVE  /\ disk[f] # None => disk[f].v \in 1..MaxV /\ disk[f].mt \in 1..MaxV /\ disk[f].ok \in BOOLEAN
           /\ db[f] # None => db[f].v \in 1..MaxV /\ db[f].mt \in 1..MaxV
BY DEF DataTypes, Index!Version, Index!Row

Only(x) == t' \in [Index!Thread -> State] /\ \A y \in Index!Thread \ {x} : t'[y] = t[y]

\* The thread goes to another point and keeps what it knows.
Same(x) == t'[x].why = t[x].why /\ t'[x].todo = t[x].todo /\ t'[x].old = t[x].old

LEMMA LoadStep ==
    ASSUME Index!HistoryAssumption, IndexTypes, NEW x \in Index!Thread, Index!loadIndexedMtimes(x)
    PROVE  /\ Only(x) /\ t'[x].pc = "readDir" /\ t'[x].why = t[x].why
           /\ \A f \in Job : t'[x].old[f] # 0 => db[f] # None
<1> DEFINE old == [f \in Job |-> IF db[f] = None \/ Index!Force(x) THEN 0 ELSE db[f].mt]
<1>1. old \in [Job -> 0..MaxV]
  BY IndexFacts, RowTypes DEF IndexTypes
<1>2. t' = [t EXCEPT ![x] = [t[x] EXCEPT !.pc = "readDir", !.old = old]]
  BY DEF Index!loadIndexedMtimes, IndexTypes, ThreadTypes
<1>3. t[x] \in State /\ "readDir" \in Point /\ t \in [Index!Thread -> State]
  BY DEF IndexTypes, ThreadTypes, Point
<1>4. \A f \in Job : old[f] # 0 => db[f] # None
  OBVIOUS
<1> HIDE DEF old
<1> QED
  BY <1>1, <1>2, <1>3, <1>4 DEF State, Only

LEMMA ReadDirStep ==
    ASSUME IndexTypes, NEW x \in Index!Thread, Index!readDir(x)
    PROVE  /\ Only(x) /\ t'[x].why = t[x].why /\ t'[x].old = t[x].old
           /\ \/ t'[x].pc = "entry" /\ \A f \in Job : f \in t'[x].todo <=> disk[f] # None
              \/ t'[x].pc = "failed"
<1>1. t[x] \in State /\ {"entry", "failed"} \subseteq Point /\ t \in [Index!Thread -> State]
  BY DEF IndexTypes, ThreadTypes, Point
<1> DEFINE here == {f \in Job : disk[f] # None}
           listed == [t[x] EXCEPT !.pc = "entry", !.todo = here]
           lost == [t[x] EXCEPT !.pc = "failed"]
<1>2. t' = [t EXCEPT ![x] = listed] \/ t' = [t EXCEPT ![x] = lost]
  BY <1>1 DEF Index!readDir
<1>3. here \in SUBSET Job /\ \A f \in Job : f \in here <=> disk[f] # None
  OBVIOUS
<1> HIDE DEF here
<1>4. /\ listed \in State /\ listed.pc = "entry" /\ listed.why = t[x].why /\ listed.old = t[x].old
      /\ listed.todo = here
      /\ lost \in State /\ lost.pc = "failed" /\ lost.why = t[x].why /\ lost.old = t[x].old
  BY <1>1, <1>3 DEF State
<1> HIDE DEF listed, lost
<1> QED
  BY <1>1, <1>2, <1>3, <1>4 DEF Only

LEMMA StatStep ==
    ASSUME Index!HistoryAssumption, IndexTypes, NEW x \in Index!Thread, NEW f \in Job, Index!stat(x, f)
    PROVE  /\ Only(x) /\ t[x].pc = "entry" /\ t'[x].why = t[x].why /\ t'[x].todo = t[x].todo \ {f}
           /\ \A g \in Job : t'[x].old[g] = IF g = f THEN 0 ELSE t[x].old[g]
           /\ IF disk[f] = None \/ Index!Unchanged(x, f)
              THEN t'[x].pc = "entry"
              ELSE t'[x].pc = "read" /\ t'[x].f = f /\ t'[x].info = disk[f].mt
<1>1. t[x] \in State /\ {"entry", "read"} \subseteq Point /\ t \in [Index!Thread -> State]
  BY DEF IndexTypes, ThreadTypes, Point
<1> DEFINE rest == [t[x] EXCEPT !.todo = @ \ {f}, !.old[f] = 0]
           read1 == [rest EXCEPT !.pc = "read", !.f = f, !.info = disk[f].mt]
<1>2. /\ rest \in State /\ rest.pc = t[x].pc /\ rest.why = t[x].why /\ rest.todo = t[x].todo \ {f}
      /\ \A g \in Job : rest.old[g] = IF g = f THEN 0 ELSE t[x].old[g]
  BY <1>1, IndexFacts DEF State
<1>3. /\ t[x].pc = "entry"
      /\ t' = [t EXCEPT ![x] = IF disk[f] = None \/ Index!Unchanged(x, f) THEN rest ELSE read1]
  BY DEF Index!stat
<1>4. disk[f] # None => disk[f].mt \in 0..MaxV
  BY IndexFacts, RowTypes DEF IndexTypes
<1> HIDE DEF rest
<1>5. disk[f] # None =>
         /\ read1 \in State /\ read1.pc = "read" /\ read1.f = f /\ read1.info = disk[f].mt
         /\ read1.why = rest.why /\ read1.old = rest.old /\ read1.todo = rest.todo
  BY <1>1, <1>2, <1>4 DEF State
<1> HIDE DEF read1
<1> QED
  BY <1>1, <1>2, <1>3, <1>5 DEF Only

LEMMA ReadStep ==
    ASSUME Index!HistoryAssumption, IndexTypes, NEW x \in Index!Thread, Index!readFile(x)
    PROVE  /\ Only(x) /\ Same(x)
           /\ IF Index!Readable(t[x].f)
              THEN /\ t'[x].pc = "commit" /\ t'[x].f = t[x].f /\ t'[x].info = t[x].info
                   /\ t'[x].v = disk[t[x].f].v
              ELSE t'[x].pc = "entry"
<1>1. t[x] \in State /\ {"entry", "commit"} \subseteq Point /\ t \in [Index!Thread -> State] /\ t[x].f \in Job
  BY DEF IndexTypes, ThreadTypes, Point, Index!readFile, Visits
<1>2. disk[t[x].f] # None => disk[t[x].f].v \in 0..MaxV
  BY <1>1, IndexFacts, RowTypes DEF IndexTypes
<1> DEFINE got == [t[x] EXCEPT !.pc = "commit", !.v = disk[t[x].f].v]
           next == [t[x] EXCEPT !.pc = "entry", !.f = None]
<1>3. t' = [t EXCEPT ![x] = IF Index!Readable(t[x].f) THEN got ELSE next]
  BY <1>1 DEF Index!readFile, Index!Next1
<1>4. Index!Readable(t[x].f) =>
         /\ got \in State /\ got.pc = "commit" /\ got.why = t[x].why /\ got.todo = t[x].todo
         /\ got.old = t[x].old /\ got.f = t[x].f /\ got.info = t[x].info /\ got.v = disk[t[x].f].v
  BY <1>1, <1>2 DEF State, Index!Readable
<1>5. /\ next \in State /\ next.pc = "entry" /\ next.why = t[x].why /\ next.todo = t[x].todo
      /\ next.old = t[x].old
  BY <1>1 DEF State
<1> HIDE DEF got, next
<1> QED
  BY <1>1, <1>3, <1>4, <1>5 DEF Only, Same

LEMMA CommitStep ==
    ASSUME IndexTypes, NEW x \in Index!Thread, Index!commit(x)
    PROVE  /\ Only(x) /\ Same(x) /\ t'[x].pc = "entry"
<1>1. t[x] \in State /\ "entry" \in Point /\ t \in [Index!Thread -> State]
  BY DEF IndexTypes, ThreadTypes, Point
<1> QED
  BY <1>1 DEF Index!commit, Index!Next1, State, Only, Same

LEMMA EndStep ==
    ASSUME Index!HistoryAssumption, IndexTypes, NEW x \in Index!Thread,
           Index!endRefresh(x) \/ Index!refreshFails(x)
    PROVE  /\ Only(x) /\ t'[x].why = ""
           /\ IF x = "cleaner" THEN t'[x].pc = "select"
              ELSE IF Index!refreshFails(x) /\ t[x].why = "upgrade" THEN t'[x].pc = "boot"
              ELSE t'[x].pc = "idle"
<1>1. "select" \in Point /\ t \in [Index!Thread -> State] /\ "" \in Why /\ {} \in SUBSET Job
  BY DEF IndexTypes, ThreadTypes, Point, Why
<1>2. /\ [Index!Idle EXCEPT !.pc = "select"] \in State /\ [Index!Idle EXCEPT !.pc = "select"].pc = "select"
      /\ [Index!Idle EXCEPT !.pc = "select"].why = ""
  BY <1>1, IdleTypes, PcTypes
<1>3. \/ t' = [t EXCEPT ![x] = IF x = "cleaner" THEN [Index!Idle EXCEPT !.pc = "select"] ELSE Index!Idle]
         /\ t[x].pc = "entry"
      \/ t' = [t EXCEPT ![x] = IF x = "cleaner" THEN [Index!Idle EXCEPT !.pc = "select"]
                               ELSE IF t[x].why = "upgrade" THEN Index!Boot ELSE Index!Idle]
         /\ t[x].pc = "failed"
  BY DEF Index!endRefresh, Index!refreshFails
<1>4. Index!refreshFails(x) => t[x].pc = "failed"
  BY DEF Index!refreshFails
<1>5. Index!endRefresh(x) => t[x].pc = "entry"
  BY DEF Index!endRefresh
<1> QED
  BY <1>1, <1>2, <1>3, <1>4, <1>5, IdleTypes DEF Only


Still == UNCHANGED <<disk, wrote, db, schema, mu, t, jobs, before>>

\* A full refresh begins.
Begun ==
    /\ UNCHANGED <<disk, wrote, db, schema, mu, jobs, before>>
    /\ Only("indexer") /\ t'["indexer"].pc = "load"
    /\ \/ t["indexer"].pc = "boot" /\ t'["indexer"].why = IF schema = 2 THEN "upgrade" ELSE "start"
       \/ t["indexer"].pc = "idle" /\ t'["indexer"].why \in {"error", "periodic"}

LEMMA StartStep ==
    ASSUME Index!HistoryAssumption, IndexTypes, NEW w \in Why, Index!Start(w)
    PROVE  Only("indexer") /\ t'["indexer"].pc = "load" /\ t'["indexer"].why = w
<1>1. "load" \in Point /\ t \in [Index!Thread -> State] /\ "indexer" \in Index!Thread /\ {} \in SUBSET Job
  BY IndexFacts DEF IndexTypes, ThreadTypes, Point
<1> DEFINE begun == [Index!Idle EXCEPT !.pc = "load", !.why = w]
<1>2. t' = [t EXCEPT !["indexer"] = begun]
  BY DEF Index!Start
<1>3. Index!Idle \in State
  BY IdleTypes
<1>4. begun \in State /\ begun.pc = "load" /\ begun.why = w
  BY <1>1, <1>3 DEF State
<1> HIDE DEF begun
<1> QED
  BY <1>1, <1>2, <1>4 DEF Only

LEMMA StartsBegin ==
    ASSUME Index!HistoryAssumption, IndexTypes,
           Index!boot \/ Index!periodic \/ Index!takeError \/ Index!errorTimer
    PROVE  Begun \/ Still
<1>1. {"upgrade", "start", "error", "periodic"} \subseteq Why
  BY DEF Why
<1>2. CASE Index!boot
  <2>1. Index!Start(IF schema = 2 THEN "upgrade" ELSE "start") /\ t["indexer"].pc = "boot"
    BY <1>2 DEF Index!boot
  <2>2. (IF schema = 2 THEN "upgrade" ELSE "start") \in Why
    BY <1>1
  <2>3. /\ Only("indexer") /\ t'["indexer"].pc = "load"
        /\ t'["indexer"].why = IF schema = 2 THEN "upgrade" ELSE "start"
    BY <2>1, <2>2, StartStep
  <2> QED
    BY <1>2, <2>1, <2>3 DEF Index!boot, Index!Data, Index!cln, Begun
<1>3. CASE Index!periodic
  <2>1. Index!Start("periodic") /\ t["indexer"].pc = "idle"
    BY <1>3 DEF Index!periodic, Index!Ready
  <2>2. Only("indexer") /\ t'["indexer"].pc = "load" /\ t'["indexer"].why = "periodic"
    BY <1>1, <2>1, StartStep
  <2> QED
    BY <1>3, <2>1, <2>2 DEF Index!periodic, Index!Data, Index!cln, Begun
<1>4. ASSUME Index!Start("error"), t["indexer"].pc = "idle",
             UNCHANGED <<disk, wrote, db, schema, mu, jobs, before>>
      PROVE  Begun
  <2>1. Only("indexer") /\ t'["indexer"].pc = "load" /\ t'["indexer"].why = "error"
    BY <1>1, <1>4, StartStep
  <2> QED
    BY <1>4, <2>1 DEF Begun
<1>5. CASE Index!takeError
  <2>1. t' = t \/ Index!Start("error")
    BY <1>5, Zenon DEF Index!takeError, Index!runWatcherErrorRefresh
  <2>2. UNCHANGED <<disk, wrote, db, schema, mu, jobs, before>> /\ t["indexer"].pc = "idle"
    BY <1>5 DEF Index!takeError, Index!Data, Index!cln, Index!Ready
  <2> QED
    BY <1>4, <2>1, <2>2 DEF Still
<1>6. CASE Index!errorTimer
  <2>1. t' = t \/ Index!Start("error")
    BY <1>6, Zenon DEF Index!errorTimer, Index!runWatcherErrorRefresh
  <2>2. UNCHANGED <<disk, wrote, db, schema, mu, jobs, before>> /\ t["indexer"].pc = "idle"
    BY <1>6 DEF Index!errorTimer, Index!Data, Index!cln, Index!Ready
  <2> QED
    BY <1>4, <2>1, <2>2 DEF Still
<1> QED
  BY <1>2, <1>3, <1>5, <1>6

LEMMA DebounceStep ==
    ASSUME Index!HistoryAssumption, IndexTypes, Index!debounce
    PROVE  /\ Only("indexer") /\ t'["indexer"].pc = "entry" /\ t'["indexer"].why = "file"
           /\ t["indexer"].pc = "idle"
<1>1. /\ "entry" \in Point /\ t \in [Index!Thread -> State] /\ "indexer" \in Index!Thread
      /\ pendingPaths \in SUBSET Job /\ "file" \in Why
  BY IndexFacts DEF IndexTypes, ThreadTypes, ControlTypes, Point, Why
<1> DEFINE begun == [Index!Idle EXCEPT !.pc = "entry", !.why = "file", !.todo = pendingPaths]
<1>2. t' = [t EXCEPT !["indexer"] = begun] /\ t["indexer"].pc = "idle"
  BY DEF Index!debounce, Index!Ready
<1>3. Index!Idle \in State
  BY IdleTypes
<1>4. begun \in State /\ begun.pc = "entry" /\ begun.why = "file"
  BY <1>1, <1>3 DEF State
<1> HIDE DEF begun
<1> QED
  BY <1>1, <1>2, <1>4 DEF Only

\* The threads that come to rest, and a clean that begins and goes on.
LEMMA OtherSteps ==
    ASSUME Index!HistoryAssumption, IndexTypes
    PROVE  /\ Index!debounceDone => Only("indexer") /\ t'["indexer"].pc = "idle" /\ t'["indexer"].why = ""
           /\ Index!cleanRows => Only("cleaner") /\ t'["cleaner"].pc = "idle" /\ t'["cleaner"].why = ""
           /\ Index!cleanSelect =>
                 Only("cleaner") /\ t'["cleaner"].pc = "remove" /\ t'["cleaner"].why = t["cleaner"].why
           /\ Index!cleanUserResults =>
                 Only("cleaner") /\ t'["cleaner"].pc = "load" /\ t'["cleaner"].why = "clean"
           /\ Index!restart =>
                 /\ t' \in [Index!Thread -> State] /\ t'["indexer"] = Index!Boot /\ t'["cleaner"] = Index!Idle
<1>1. /\ {"load", "remove"} \subseteq Point /\ "clean" \in Why /\ t \in [Index!Thread -> State]
      /\ {"indexer", "cleaner"} \subseteq Index!Thread /\ {} \in SUBSET Job
  BY IndexFacts DEF IndexTypes, ThreadTypes, Point, Why
<1>2. ASSUME Index!debounceDone
      PROVE  Only("indexer") /\ t'["indexer"].pc = "idle" /\ t'["indexer"].why = ""
  <2>1. t' = [t EXCEPT !["indexer"] = Index!Idle]
    BY <1>2 DEF Index!debounceDone
  <2> QED
    BY <1>1, <2>1, IdleTypes DEF Only
<1>3. ASSUME Index!cleanRows
      PROVE  Only("cleaner") /\ t'["cleaner"].pc = "idle" /\ t'["cleaner"].why = ""
  <2>1. t' = [t EXCEPT !["cleaner"] = Index!Idle]
    BY <1>3 DEF Index!cleanRows
  <2> QED
    BY <1>1, <2>1, IdleTypes DEF Only
<1>4. ASSUME Index!cleanSelect
      PROVE  Only("cleaner") /\ t'["cleaner"].pc = "remove" /\ t'["cleaner"].why = t["cleaner"].why
  <2> DEFINE gone1 == [t["cleaner"] EXCEPT !.pc = "remove"]
  <2>1. t' = [t EXCEPT !["cleaner"] = gone1]
    BY <1>1, <1>4 DEF Index!cleanSelect
  <2>2. gone1 \in State /\ gone1.pc = "remove" /\ gone1.why = t["cleaner"].why
    BY <1>1, PcTypes
  <2> HIDE DEF gone1
  <2> QED
    BY <1>1, <2>1, <2>2 DEF Only
<1>5. ASSUME Index!cleanUserResults
      PROVE  Only("cleaner") /\ t'["cleaner"].pc = "load" /\ t'["cleaner"].why = "clean"
  <2> DEFINE begun == [Index!Idle EXCEPT !.pc = "load", !.why = "clean"]
  <2>1. t' = [t EXCEPT !["cleaner"] = begun]
    BY <1>5 DEF Index!cleanUserResults
  <2>2. Index!Idle \in State
    BY IdleTypes
  <2>3. begun \in State /\ begun.pc = "load" /\ begun.why = "clean"
    BY <1>1, <2>2 DEF State
  <2> HIDE DEF begun
  <2> QED
    BY <1>1, <2>1, <2>3 DEF Only
<1>6. ASSUME Index!restart
      PROVE  t' \in [Index!Thread -> State] /\ t'["indexer"] = Index!Boot /\ t'["cleaner"] = Index!Idle
  <2>1. t' = [x \in Index!Thread |-> IF x = "indexer" THEN Index!Boot ELSE Index!Idle]
    BY <1>6 DEF Index!restart
  <2> QED
    BY <1>1, <2>1, IdleTypes
<1> QED
  BY <1>2, <1>3, <1>4, <1>5, <1>6


-----------------------------------------------------------------------------
(* The types.                                                              *)

\* What a thread may be doing.
Sound(x, s) ==
    /\ s.pc \in {"read", "commit"} => s.f \in Job /\ s.info \in 1..MaxV /\ s.old[s.f] = 0
    /\ s.pc = "commit" => s.v \in 1..MaxV
    /\ s.pc \in {"idle", "boot", "select", "remove"} => s.why = ""
    /\ x = "cleaner" => s.why \in {"", "clean"} /\ s.pc # "boot"

LEMMA SoundThreads ==
    ASSUME Index!HistoryAssumption, ThreadTypes, NEW x \in Index!Thread
    PROVE  Sound(x, t[x])
BY IndexFacts DEF ThreadTypes, Sound, Visits

LEMMA ThreadTypesKept ==
    ASSUME Index!HistoryAssumption, ThreadTypes, NEW x \in Index!Thread, Only(x),
           mu' \in Index!Thread \cup {None}, Sound(x, t'[x])
    PROVE  ThreadTypes'
<1>1. \A y \in Index!Thread : Sound(y, t'[y])
  BY SoundThreads DEF Only
<1> QED
  BY <1>1, IndexFacts DEF ThreadTypes, Sound, Visits, Only

LEMMA RefreshThreadTypes ==
    ASSUME Index!HistoryAssumption, IndexTypes, NEW x \in Index!Thread, Index!Refresh(x)
    PROVE  ThreadTypes'
<1> USE DEF IndexTypes
<1>0. Sound(x, t[x]) /\ mu \in Index!Thread \cup {None}
  BY SoundThreads DEF ThreadTypes
<1>1. CASE Index!loadIndexedMtimes(x)
  <2>1. Only(x) /\ t'[x].pc = "readDir" /\ t'[x].why = t[x].why
    BY <1>1, LoadStep
  <2>2. mu' \in Index!Thread \cup {None}
    BY <1>1 DEF Index!loadIndexedMtimes
  <2>3. Sound(x, t'[x])
    BY <2>1, <1>0 DEF Sound
  <2> QED
    BY <2>1, <2>2, <2>3, ThreadTypesKept
<1>2. CASE Index!readDir(x)
  <2>1. Only(x) /\ t'[x].pc \in {"entry", "failed"} /\ t'[x].why = t[x].why
    BY <1>2, ReadDirStep
  <2>2. mu' \in Index!Thread \cup {None}
    BY <1>0, <1>2 DEF Index!readDir
  <2>3. Sound(x, t'[x])
    BY <2>1, <1>0 DEF Sound
  <2> QED
    BY <2>1, <2>2, <2>3, ThreadTypesKept
<1>3. ASSUME NEW f \in Job, Index!stat(x, f)
      PROVE  ThreadTypes'
  <2>1. /\ Only(x) /\ t'[x].why = t[x].why /\ t'[x].old[f] = 0
        /\ t'[x].pc = "entry" \/ (t'[x].pc = "read" /\ disk[f] # None /\ t'[x].f = f /\ t'[x].info = disk[f].mt)
    BY <1>3, StatStep
  <2>2. mu' \in Index!Thread \cup {None}
    BY <1>0, <1>3 DEF Index!stat
  <2>3. disk[f] # None => disk[f].mt \in 1..MaxV
    BY RowTypes
  <2>4. Sound(x, t'[x])
    BY <2>1, <2>3, <1>0 DEF Sound
  <2> QED
    BY <2>1, <2>2, <2>4, ThreadTypesKept
<1>4. CASE Index!readFile(x)
  <2>1. t[x].pc = "read"
    BY <1>4 DEF Index!readFile
  <2>2. /\ Only(x) /\ Same(x)
        /\ \/ t'[x].pc = "entry"
           \/ /\ disk[t[x].f] # None /\ t'[x].pc = "commit" /\ t'[x].f = t[x].f /\ t'[x].info = t[x].info
              /\ t'[x].v = disk[t[x].f].v
    BY <1>4, ReadStep DEF Index!Readable
  <2>3. mu' \in Index!Thread \cup {None}
    BY <1>0, <1>4 DEF Index!readFile, Index!Free
  <2>4. t[x].f \in Job
    BY <1>0, <2>1 DEF Sound
  <2>5. disk[t[x].f] # None => disk[t[x].f].v \in 1..MaxV
    BY <2>4, RowTypes
  <2>6. Sound(x, t'[x])
    BY <2>1, <2>2, <2>5, <1>0 DEF Sound, Same
  <2> QED
    BY <2>2, <2>3, <2>6, ThreadTypesKept
<1>5. CASE Index!commit(x)
  <2>1. Only(x) /\ t'[x].pc = "entry" /\ t'[x].why = t[x].why
    BY <1>5, CommitStep DEF Same
  <2>2. mu' \in Index!Thread \cup {None}
    BY <1>0, <1>5 DEF Index!commit, Index!Free
  <2>3. Sound(x, t'[x])
    BY <2>1, <1>0 DEF Sound
  <2> QED
    BY <2>1, <2>2, <2>3, ThreadTypesKept
<1>6. CASE Index!endRefresh(x) \/ Index!refreshFails(x)
  <2>1. /\ Only(x) /\ t'[x].why = "" /\ t'[x].pc \in {"select", "boot", "idle"}
        /\ x = "cleaner" => t'[x].pc = "select"
    BY <1>6, EndStep
  <2>2. mu' \in Index!Thread \cup {None}
    BY <1>6 DEF Index!endRefresh, Index!refreshFails
  <2>3. Sound(x, t'[x])
    BY <2>1 DEF Sound
  <2> QED
    BY <2>1, <2>2, <2>3, ThreadTypesKept
<1> QED
  BY <1>1, <1>2, <1>3, <1>4, <1>5, <1>6 DEF Index!Refresh


\* The steps that change what the invariant is about.
LEMMA IndexCases ==
    ASSUME Index!HistoryAssumption, IndexTypes, [Index!Next]_(Index!vars)
    PROVE  \/ Still \/ Begun \/ Index!debounce \/ Index!debounceDone \/ Index!restart
           \/ Index!cleanUserResults \/ Index!cleanSelect \/ Index!cleanRows
           \/ \E x \in Index!Thread : Index!Refresh(x)
           \/ \E f \in Job : Index!cleanRemove(f) \/ Index!writeJob(f)
<1>1. ASSUME Index!takeEvent \/ Index!cooldown
      PROVE  Still
  BY <1>1 DEF Index!takeEvent, Index!cooldown, Index!Data, Index!cln, Still
<1>2. ASSUME Index!watch \/ Index!watchClosed
      PROVE  Still
  BY <1>2 DEF Index!watch, Index!watchClosed, Index!cln, Still
<1>3. ASSUME UNCHANGED Index!vars
      PROVE  Still
  BY <1>3 DEF Index!vars, Index!cln, Still
<1>4. {"indexer", "cleaner"} \subseteq Index!Thread
  BY IndexFacts
<1> QED
  BY <1>1, <1>2, <1>3, <1>4, StartsBegin DEF Index!Next, Index!Indexer, Index!Cleaner

LEMMA ThreadTypesNext ==
    ASSUME Index!HistoryAssumption, IndexTypes, [Index!Next]_(Index!vars)
    PROVE  ThreadTypes'
<1>1. ThreadTypes /\ mu \in Index!Thread \cup {None} /\ {"indexer", "cleaner"} = Index!Thread
  BY IndexFacts DEF IndexTypes, ThreadTypes
<1>2. ASSUME Still
      PROVE  ThreadTypes'
  BY <1>1, <1>2 DEF Still, ThreadTypes, Visits
<1>3. ASSUME Begun
      PROVE  ThreadTypes'
  <2>1. Only("indexer") /\ t'["indexer"].pc = "load" /\ mu' = mu
    BY <1>3 DEF Begun
  <2>2. Sound("indexer", t'["indexer"])
    BY <2>1 DEF Sound
  <2> QED
    BY <1>1, <2>1, <2>2, ThreadTypesKept
<1>4. ASSUME Index!debounce
      PROVE  ThreadTypes'
  <2>1. Only("indexer") /\ t'["indexer"].pc = "entry"
    BY <1>4, DebounceStep
  <2>2. mu' = mu
    BY <1>4 DEF Index!debounce
  <2>3. Sound("indexer", t'["indexer"])
    BY <2>1 DEF Sound
  <2> QED
    BY <1>1, <2>1, <2>2, <2>3, ThreadTypesKept
<1>5. ASSUME Index!debounceDone
      PROVE  ThreadTypes'
  <2>1. Only("indexer") /\ t'["indexer"].pc = "idle" /\ t'["indexer"].why = ""
    BY <1>5, OtherSteps
  <2>2. mu' = mu
    BY <1>5 DEF Index!debounceDone
  <2>3. Sound("indexer", t'["indexer"])
    BY <2>1 DEF Sound
  <2> QED
    BY <1>1, <2>1, <2>2, <2>3, ThreadTypesKept
<1>6. ASSUME Index!cleanUserResults
      PROVE  ThreadTypes'
  <2>1. Only("cleaner") /\ t'["cleaner"].pc = "load" /\ t'["cleaner"].why = "clean"
    BY <1>6, OtherSteps
  <2>2. mu' = mu
    BY <1>6 DEF Index!cleanUserResults
  <2>3. Sound("cleaner", t'["cleaner"])
    BY <2>1 DEF Sound
  <2> QED
    BY <1>1, <2>1, <2>2, <2>3, ThreadTypesKept
<1>7. ASSUME Index!cleanSelect
      PROVE  ThreadTypes'
  <2>1. Only("cleaner") /\ t'["cleaner"].pc = "remove" /\ t'["cleaner"].why = t["cleaner"].why
    BY <1>7, OtherSteps
  <2>2. mu' = mu /\ t["cleaner"].pc = "select"
    BY <1>7 DEF Index!cleanSelect
  <2>3. Sound("cleaner", t'["cleaner"])
    BY <1>1, <2>1, <2>2, SoundThreads DEF Sound
  <2> QED
    BY <1>1, <2>1, <2>2, <2>3, ThreadTypesKept
<1>8. ASSUME Index!cleanRows
      PROVE  ThreadTypes'
  <2>1. Only("cleaner") /\ t'["cleaner"].pc = "idle" /\ t'["cleaner"].why = ""
    BY <1>8, OtherSteps
  <2>2. mu' = mu
    BY <1>8 DEF Index!cleanRows
  <2>3. Sound("cleaner", t'["cleaner"])
    BY <2>1 DEF Sound
  <2> QED
    BY <1>1, <2>1, <2>2, <2>3, ThreadTypesKept
<1>9. ASSUME Index!restart
      PROVE  ThreadTypes'
  <2>1. t' \in [Index!Thread -> State] /\ t'["indexer"] = Index!Boot /\ t'["cleaner"] = Index!Idle
    BY <1>9, OtherSteps
  <2>2. mu' = None
    BY <1>9 DEF Index!restart
  <2> QED
    BY <1>1, <2>1, <2>2, IdleTypes DEF ThreadTypes, Visits
<1>10. ASSUME NEW f \in Job, Index!cleanRemove(f) \/ Index!writeJob(f)
       PROVE  ThreadTypes'
  <2>1. UNCHANGED <<mu, t>>
    BY <1>10 DEF Index!cleanRemove, Index!writeJob
  <2> QED
    BY <1>1, <2>1 DEF ThreadTypes, Visits
<1> QED
  BY <1>2, <1>3, <1>4, <1>5, <1>6, <1>7, <1>8, <1>9, <1>10, IndexCases, RefreshThreadTypes

\* What a refresh does to the rows: they stay or go, and commit writes one.
RowsGo == db' \in [Job -> Index!Row \cup {None}] /\ \A f \in Job : db'[f] = db[f] \/ db'[f] = None

LEMMA RowStep ==
    ASSUME Index!HistoryAssumption, IndexTypes, NEW x \in Index!Thread, Index!Refresh(x)
    PROVE  /\ UNCHANGED <<disk, wrote, jobs>>
           /\ before' = before \/ (before' = {} /\ x = "cleaner" /\ t[x].pc = "failed")
           /\ schema' = schema \/ (schema' = 3 /\ Index!endRefresh(x) /\ t[x].why = "upgrade")
           /\ \/ RowsGo
              \/ /\ Index!commit(x) /\ t[x].f \in Job
                 /\ db' = [db EXCEPT ![t[x].f] = [v |-> t[x].v, mt |-> t[x].info, det |-> TRUE]]
                 /\ [v |-> t[x].v, mt |-> t[x].info, det |-> TRUE] \in Index!Row
<1>1. db \in [Job -> Index!Row \cup {None}] /\ Sound(x, t[x])
  BY SoundThreads DEF IndexTypes, DataTypes
<1>2. CASE Index!loadIndexedMtimes(x) \/ Index!readDir(x)
  BY <1>1, <1>2 DEF Index!loadIndexedMtimes, Index!readDir, Index!Data, Index!cln, RowsGo
<1>3. ASSUME NEW f \in Job, Index!stat(x, f)
      PROVE  /\ UNCHANGED <<disk, wrote, jobs, before, schema>>
             /\ RowsGo
  <2>1. UNCHANGED <<disk, wrote, jobs, before, schema>>
    BY <1>3 DEF Index!stat, Index!Data, Index!cln
  <2>2. db' = db \/ db' = [db EXCEPT ![f] = None]
    BY <1>3 DEF Index!stat
  <2> QED
    BY <1>1, <2>1, <2>2 DEF RowsGo
<1>4. CASE Index!readFile(x)
  <2>1. UNCHANGED <<disk, wrote, jobs, before, schema>>
    BY <1>4 DEF Index!readFile, Index!Data, Index!cln
  <2>2. db' = db \/ db' = [db EXCEPT ![t[x].f] = None]
    BY <1>4 DEF Index!readFile
  <2> QED
    BY <1>1, <2>1, <2>2 DEF RowsGo
<1>5. CASE Index!commit(x)
  <2>1. /\ UNCHANGED <<disk, wrote, jobs, before, schema>>
        /\ db' = [db EXCEPT ![t[x].f] = [v |-> t[x].v, mt |-> t[x].info, det |-> TRUE]] /\ t[x].pc = "commit"
    BY <1>5 DEF Index!commit, Index!Data, Index!cln
  <2>2. t[x].f \in Job /\ [v |-> t[x].v, mt |-> t[x].info, det |-> TRUE] \in Index!Row
    BY <1>1, <2>1 DEF Sound, Index!Row
  <2> QED
    BY <1>5, <2>1, <2>2
<1>6. CASE Index!endRefresh(x)
  <2>1. /\ UNCHANGED <<disk, wrote, jobs, before>>
        /\ schema' = IF t[x].why = "upgrade" THEN 3 ELSE schema
        /\ db' = [f \in Job |-> IF t[x].old[f] = 0 \/ ~Index!RemoveInvalid(x) THEN db[f] ELSE None]
    BY <1>6 DEF Index!endRefresh, Index!cln
  <2>2. RowsGo
    BY <1>1, <2>1 DEF RowsGo
  <2> QED
    BY <1>6, <2>1, <2>2
<1>7. CASE Index!refreshFails(x)
  BY <1>1, <1>7 DEF Index!refreshFails, Index!Data, RowsGo
<1> QED
  BY <1>2, <1>3, <1>4, <1>5, <1>6, <1>7 DEF Index!Refresh


\* scan_once.sh and the clean: one job file changes.
LEMMA FileStep ==
    ASSUME Index!HistoryAssumption, DataTypes, NEW f \in Job, Index!cleanRemove(f) \/ Index!writeJob(f)
    PROVE  /\ UNCHANGED <<db, schema, t, mu, before>> /\ DataTypes' /\ jobs' \subseteq jobs
           /\ \A g \in Job \ {f} : disk'[g] = disk[g] /\ wrote'[g] = wrote[g]
           /\ \/ Index!cleanRemove(f) /\ disk'[f] = None /\ wrote'[f] = wrote[f] /\ jobs' = jobs \ {f}
              \/ disk'[f] # None /\ disk'[f].v = wrote[f] + 1 /\ wrote'[f] = wrote[f] + 1 /\ jobs' = jobs
<1>1. CASE Index!cleanRemove(f)
  <2>1. UNCHANGED <<db, schema, t, mu, before, wrote>> /\ jobs' = jobs \ {f} /\ disk' = [disk EXCEPT ![f] = None]
    BY <1>1 DEF Index!cleanRemove, Index!cln
  <2> QED
    BY <1>1, <2>1 DEF DataTypes
<1>2. CASE Index!writeJob(f)
  <2>1. /\ UNCHANGED <<db, schema, t, mu, before, jobs>> /\ wrote[f] < MaxV
        /\ wrote' = [wrote EXCEPT ![f] = wrote[f] + 1]
    BY <1>2 DEF Index!writeJob, Index!cln, DataTypes
  <2>2. PICK ok \in BOOLEAN, same \in BOOLEAN :
           /\ same => disk[f] # None
           /\ disk' = [disk EXCEPT ![f] = [v |-> wrote[f] + 1, ok |-> ok,
                          mt |-> IF same THEN disk[f].mt ELSE wrote[f] + 1]]
    BY <1>2 DEF Index!writeJob
  <2> DEFINE mt == IF same THEN disk[f].mt ELSE wrote[f] + 1
  <2>3. wrote[f] \in 0..MaxV /\ MaxV \in Nat
    BY IndexFacts DEF DataTypes
  <2>4. wrote[f] + 1 \in 1..MaxV
    BY <2>1, <2>3
  <2>5. mt \in 1..MaxV
    BY <2>2, <2>4, RowTypes
  <2> DEFINE new == [v |-> wrote[f] + 1, ok |-> ok, mt |-> mt]
  <2>6. disk' = [disk EXCEPT ![f] = new]
    BY <2>2
  <2> HIDE DEF mt
  <2>7. new \in Index!Version /\ new.v = wrote[f] + 1
    BY <2>4, <2>5 DEF Index!Version
  <2> HIDE DEF new
  <2>8. new # None
    BY <2>7, IndexFacts
  <2>9. DataTypes'
    BY <2>1, <2>4, <2>6, <2>7, IndexFacts DEF DataTypes
  <2> QED
    BY <2>1, <2>6, <2>7, <2>8, <2>9 DEF DataTypes
<1> QED
  BY <1>1, <1>2

LEMMA DataTypesNext ==
    ASSUME Index!HistoryAssumption, IndexTypes, [Index!Next]_(Index!vars)
    PROVE  DataTypes'
<1>1. DataTypes
  BY DEF IndexTypes
<1>2. ASSUME Still \/ Begun
      PROVE  DataTypes'
  BY <1>1, <1>2 DEF Still, Begun, DataTypes
<1>3. ASSUME Index!debounce \/ Index!debounceDone \/ Index!cleanUserResults \/ Index!cleanSelect \/ Index!restart
      PROVE  DataTypes'
  <2>1. UNCHANGED <<disk, wrote, db, schema>>
    BY <1>3 DEF Index!debounce, Index!debounceDone, Index!cleanUserResults, Index!cleanSelect, Index!restart,
                Index!Data
  <2> QED
    BY <1>1, <2>1 DEF DataTypes
<1>4. ASSUME Index!cleanRows
      PROVE  DataTypes'
  BY <1>1, <1>4 DEF Index!cleanRows, Index!Data, DataTypes
<1>5. ASSUME NEW x \in Index!Thread, Index!Refresh(x)
      PROVE  DataTypes'
  <2>1. UNCHANGED <<disk, wrote>> /\ schema' \in {schema, 3}
    BY <1>5, RowStep
  <2>2. \/ db' \in [Job -> Index!Row \cup {None}]
        \/ \E r \in Index!Row, f \in Job : db' = [db EXCEPT ![f] = r]
    BY <1>5, RowStep DEF RowsGo
  <2> QED
    BY <1>1, <2>1, <2>2 DEF DataTypes
<1> QED
  BY <1>1, <1>2, <1>3, <1>4, <1>5, IndexCases, FileStep

LEMMA NotifyTypes ==
    ASSUME NEW f \in Job, events \subseteq Job, Index!Notify(f)
    PROVE  events' \subseteq Job
BY DEF Index!Notify

LEMMA ControlTypesNext ==
    ASSUME Index!HistoryAssumption, IndexTypes, [Index!Next]_(Index!vars)
    PROVE  ControlTypes'
<1>1. ControlTypes /\ MaxRetry \in Nat \ {0}
  BY IndexFacts DEF IndexTypes
<1>2. ASSUME UNCHANGED <<watcher, failures>>, events' \subseteq Job, pendingPaths' \subseteq Job
      PROVE  ControlTypes'
  BY <1>1, <1>2 DEF ControlTypes
<1>3. ASSUME NEW x \in Index!Thread, Index!Refresh(x)
      PROVE  UNCHANGED <<watcher, failures, events, pendingPaths>>
  BY <1>3 DEF Index!Refresh, Index!loadIndexedMtimes, Index!readDir, Index!stat, Index!readFile, Index!commit,
              Index!endRefresh, Index!refreshFails, Index!ctl
<1>4. ASSUME Index!boot \/ Index!debounceDone \/ Index!cleanSelect \/ Index!cleanRows \/ Index!cleanUserResults
             \/ Index!periodic
      PROVE  UNCHANGED <<watcher, failures, events, pendingPaths>>
  BY <1>4 DEF Index!boot, Index!debounceDone, Index!cleanSelect, Index!cleanRows, Index!cleanUserResults,
              Index!periodic, Index!ctl
<1>5. ASSUME Index!takeError \/ Index!errorTimer \/ Index!cooldown
      PROVE  UNCHANGED <<watcher, failures, events, pendingPaths>>
  BY <1>5 DEF Index!takeError, Index!errorTimer, Index!cooldown
<1>6. ASSUME NEW f \in Job, Index!cleanRemove(f) \/ Index!writeJob(f)
      PROVE  ControlTypes'
  <2>1. UNCHANGED <<watcher, failures, pendingPaths>> /\ (events' = events \/ Index!Notify(f))
    BY <1>6 DEF Index!cleanRemove, Index!writeJob, Index!quiet
  <2> QED
    BY <1>1, <1>2, <2>1, NotifyTypes DEF ControlTypes
<1>7. ASSUME Index!takeEvent
      PROVE  ControlTypes'
  BY <1>1, <1>7 DEF Index!takeEvent, ControlTypes
<1>8. ASSUME Index!debounce
      PROVE  ControlTypes'
  BY <1>1, <1>8 DEF Index!debounce, ControlTypes
<1>9. ASSUME Index!watch
      PROVE  ControlTypes'
  BY <1>1, <1>9 DEF Index!watch, ControlTypes
<1>10. ASSUME Index!watchClosed
       PROVE  ControlTypes'
  BY <1>1, <1>10 DEF Index!watchClosed, ControlTypes
<1>11. ASSUME Index!restart
       PROVE  ControlTypes'
  BY <1>1, <1>11 DEF Index!restart, ControlTypes
<1>12. ASSUME UNCHANGED Index!vars
       PROVE  UNCHANGED <<watcher, failures, events, pendingPaths>>
  BY <1>12 DEF Index!vars, Index!ctl
<1>13. ASSUME UNCHANGED <<watcher, failures, events, pendingPaths>>
       PROVE  ControlTypes'
  BY <1>1, <1>13 DEF ControlTypes
<1>14. {"indexer", "cleaner"} \subseteq Index!Thread
  BY IndexFacts
<1> QED
  BY <1>3, <1>4, <1>5, <1>6, <1>7, <1>8, <1>9, <1>10, <1>11, <1>12, <1>13, <1>14
     DEF Index!Next, Index!Indexer, Index!Cleaner

LEMMA CleanTypesNext ==
    ASSUME Index!HistoryAssumption, IndexTypes, [Index!Next]_(Index!vars)
    PROVE  CleanTypes'
<1>1. CleanTypes /\ DataTypes /\ Mine \subseteq Job
  BY IndexFacts DEF IndexTypes
<1>2. ASSUME Still \/ Begun
      PROVE  CleanTypes'
  BY <1>1, <1>2 DEF Still, Begun, CleanTypes
<1>3. ASSUME Index!debounce \/ Index!debounceDone
      PROVE  CleanTypes'
  BY <1>1, <1>3 DEF Index!debounce, Index!debounceDone, Index!cln, CleanTypes
<1>4. ASSUME Index!restart \/ Index!cleanSelect \/ Index!cleanRows
      PROVE  CleanTypes'
  BY <1>1, <1>4 DEF Index!restart, Index!cleanSelect, Index!cleanRows, CleanTypes
<1>5. ASSUME Index!cleanUserResults
      PROVE  CleanTypes'
  <2>1. jobs' = jobs /\ before' = {<<f, disk[f].v>> : f \in {g \in Mine : Index!Readable(g)}}
    BY <1>5 DEF Index!cleanUserResults
  <2>2. \A f \in Mine : Index!Readable(f) => disk[f].v \in 1..MaxV
    BY <1>1, RowTypes DEF Index!Readable
  <2>3. before' \subseteq Job \X (1..MaxV)
    BY <1>1, <2>1, <2>2
  <2> QED
    BY <1>1, <2>1, <2>3 DEF CleanTypes
<1>6. ASSUME NEW x \in Index!Thread, Index!Refresh(x)
      PROVE  CleanTypes'
  <2>1. jobs' = jobs /\ before' \subseteq before
    BY <1>6, RowStep
  <2> QED
    BY <1>1, <2>1 DEF CleanTypes
<1>7. ASSUME NEW f \in Job, Index!cleanRemove(f) \/ Index!writeJob(f)
      PROVE  CleanTypes'
  <2>1. jobs' \subseteq jobs /\ before' = before
    BY <1>1, <1>7, FileStep
  <2> QED
    BY <1>1, <2>1 DEF CleanTypes
<1> QED
  BY <1>2, <1>3, <1>4, <1>5, <1>6, <1>7, IndexCases

LEMMA IndexTypesNext ==
    ASSUME Index!HistoryAssumption, IndexTypes, [Index!Next]_(Index!vars)
    PROVE  IndexTypes'
BY DataTypesNext, ControlTypesNext, ThreadTypesNext, CleanTypesNext DEF IndexTypes


-----------------------------------------------------------------------------
(* The mutex.                                                              *)

LEMMA MutexKept ==
    ASSUME Index!HistoryAssumption, MutexIsHeld, NEW x \in Index!Thread, Only(x),
           InMutex(x)' => mu' = x,
           mu' = mu \/ mu \in {x, None}
    PROVE  MutexIsHeld'
BY IndexFacts DEF MutexIsHeld, InMutex, Only

LEMMA MutexNext ==
    ASSUME Index!HistoryAssumption, IndexTypes, MutexIsHeld, [Index!Next]_(Index!vars)
    PROVE  MutexIsHeld'
<1>1. {"indexer", "cleaner"} = Index!Thread
  BY IndexFacts
<1>2. ASSUME Still
      PROVE  MutexIsHeld'
  BY <1>2 DEF Still, MutexIsHeld, InMutex
<1>3. ASSUME Begun
      PROVE  MutexIsHeld'
  <2>1. Only("indexer") /\ t'["indexer"].pc = "load" /\ mu' = mu
    BY <1>3 DEF Begun
  <2> QED
    BY <1>1, <2>1, MutexKept DEF InMutex
<1>4. ASSUME Index!debounce
      PROVE  MutexIsHeld'
  <2>1. Only("indexer") /\ t'["indexer"].pc = "entry" /\ t'["indexer"].why = "file" /\ mu' = mu
    BY <1>4, DebounceStep DEF Index!debounce
  <2> QED
    BY <1>1, <2>1, MutexKept DEF InMutex
<1>5. ASSUME Index!debounceDone
      PROVE  MutexIsHeld'
  <2>1. Only("indexer") /\ t'["indexer"].pc = "idle" /\ mu' = mu
    BY <1>5, OtherSteps DEF Index!debounceDone
  <2> QED
    BY <1>1, <2>1, MutexKept DEF InMutex
<1>6. ASSUME Index!cleanUserResults \/ Index!cleanSelect \/ Index!cleanRows
      PROVE  MutexIsHeld'
  <2>1. Only("cleaner") /\ t'["cleaner"].pc \in {"load", "remove", "idle"}
    BY <1>6, OtherSteps
  <2>2. mu' = mu
    BY <1>6 DEF Index!cleanUserResults, Index!cleanSelect, Index!cleanRows
  <2> QED
    BY <1>1, <2>1, <2>2, MutexKept DEF InMutex
<1>7. ASSUME Index!restart
      PROVE  MutexIsHeld'
  <2>1. t'["indexer"].pc = "boot" /\ t'["cleaner"].pc = "idle"
    BY <1>7, OtherSteps, IdleTypes
  <2> QED
    BY <1>1, <2>1 DEF MutexIsHeld, InMutex
<1>8. ASSUME NEW f \in Job, Index!cleanRemove(f) \/ Index!writeJob(f)
      PROVE  MutexIsHeld'
  <2>1. UNCHANGED <<t, mu>>
    BY <1>8 DEF Index!cleanRemove, Index!writeJob
  <2> QED
    BY <2>1 DEF MutexIsHeld, InMutex
<1>9. ASSUME NEW x \in Index!Thread, Index!Refresh(x)
      PROVE  MutexIsHeld'
  <2>1. CASE Index!loadIndexedMtimes(x)
    <3>1. Only(x)
      BY <2>1, LoadStep
    <3>2. mu = None /\ mu' = x
      BY <2>1 DEF Index!loadIndexedMtimes
    <3> QED
      BY <3>1, <3>2, MutexKept
  <2>2. CASE Index!readDir(x)
    <3>1. Only(x)
      BY <2>2, ReadDirStep
    <3>2. mu' = mu /\ t[x].pc = "readDir"
      BY <2>2 DEF Index!readDir
    <3>3. mu = x
      BY <3>2 DEF MutexIsHeld, InMutex
    <3> QED
      BY <3>1, <3>2, <3>3, MutexKept
  <2>3. ASSUME NEW f \in Job, Index!stat(x, f)
        PROVE  MutexIsHeld'
    <3>1. /\ Only(x) /\ t[x].pc = "entry" /\ t'[x].why = t[x].why
          /\ IF disk[f] = None \/ Index!Unchanged(x, f) THEN t'[x].pc = "entry" ELSE t'[x].pc = "read"
      BY <2>3, StatStep
    <3>2. /\ t[x].why # "file" \/ mu = None
          /\ IF disk[f] = None \/ Index!Unchanged(x, f) THEN mu' = mu ELSE mu' = x
      BY <2>3 DEF Index!stat, Index!Full
    <3>3. t[x].why # "file" => mu = x
      BY <3>1 DEF MutexIsHeld, InMutex
    <3>4. InMutex(x)' => mu' = x
      BY <3>1, <3>2, <3>3 DEF InMutex
    <3> QED
      BY <3>1, <3>2, <3>3, <3>4, MutexKept
  <2>4. CASE Index!readFile(x)
    <3>1. /\ Only(x) /\ t'[x].why = t[x].why
          /\ IF Index!Readable(t[x].f) THEN t'[x].pc = "commit" ELSE t'[x].pc = "entry"
      BY <2>4, ReadStep DEF Same
    <3>2. /\ t[x].pc = "read"
          /\ IF Index!Readable(t[x].f) THEN mu' = mu ELSE mu' = IF t[x].why # "file" THEN mu ELSE None
      BY <2>4 DEF Index!readFile, Index!Free, Index!Full
    <3>3. mu = x
      BY <3>2 DEF MutexIsHeld, InMutex
    <3>4. InMutex(x)' => mu' = x
      BY <3>1, <3>2, <3>3 DEF InMutex
    <3> QED
      BY <3>1, <3>3, <3>4, MutexKept
  <2>5. CASE Index!commit(x)
    <3>1. Only(x) /\ t'[x].why = t[x].why /\ t'[x].pc = "entry"
      BY <2>5, CommitStep DEF Same
    <3>2. t[x].pc = "commit" /\ mu' = IF t[x].why # "file" THEN mu ELSE None
      BY <2>5 DEF Index!commit, Index!Free, Index!Full
    <3>3. mu = x
      BY <3>2 DEF MutexIsHeld, InMutex
    <3>4. InMutex(x)' => mu' = x
      BY <3>1, <3>2, <3>3 DEF InMutex
    <3> QED
      BY <3>1, <3>3, <3>4, MutexKept
  <2>6. CASE Index!endRefresh(x) \/ Index!refreshFails(x)
    <3>1. Only(x) /\ t'[x].pc \in {"select", "boot", "idle"}
      BY <2>6, EndStep
    <3>2. t[x].pc = "failed" \/ (t[x].pc = "entry" /\ t[x].why # "file")
      BY <2>6 DEF Index!endRefresh, Index!refreshFails, Index!Full
    <3>3. mu = x
      BY <3>2 DEF MutexIsHeld, InMutex
    <3>4. ~InMutex(x)'
      BY <3>1 DEF InMutex
    <3> QED
      BY <3>1, <3>3, <3>4, MutexKept
  <2> QED
    BY <1>9, <2>1, <2>2, <2>3, <2>4, <2>5, <2>6 DEF Index!Refresh
<1> QED
  BY <1>2, <1>3, <1>4, <1>5, <1>6, <1>7, <1>8, <1>9, IndexCases

LEMMA OneInMutex ==
    ASSUME MutexIsHeld, NEW x \in Index!Thread, NEW y \in Index!Thread, InMutex(x), InMutex(y)
    PROVE  x = y
BY DEF MutexIsHeld

-----------------------------------------------------------------------------
(* Rows and files.                                                         *)

\* Every step but commit leaves the rows or takes some away, and starts no commit
\* of an old version.
LEMMA RowsFollowNext ==
    ASSUME Index!HistoryAssumption, IndexTypes, MutexIsHeld, RowsFollowFiles, [Index!Next]_(Index!vars)
    PROVE  RowsFollowFiles'
<1>1. /\ {"indexer", "cleaner"} = Index!Thread /\ DataTypes /\ ThreadTypes
      /\ wrote \in [Job -> 0..MaxV] /\ MaxV \in Nat
  BY IndexFacts DEF IndexTypes, DataTypes
<1>2. ASSUME UNCHANGED <<disk, wrote>>, \A f \in Job : db'[f] = db[f] \/ db'[f] = None,
             NEW x \in Index!Thread, Only(x), t'[x].pc # "commit"
      PROVE  RowsFollowFiles'
  <2>1. \A y \in Index!Thread : t'[y].pc = "commit" => t'[y] = t[y] /\ t[y].pc = "commit"
    BY <1>2 DEF Only
  <2>2. \A y \in Index!Thread : t[y].pc = "commit" => t[y].f \in Job
    BY <1>1 DEF ThreadTypes, Visits
  <2> QED
    BY <1>2, <2>1, <2>2 DEF RowsFollowFiles
<1>3. ASSUME Still
      PROVE  RowsFollowFiles'
  BY <1>3 DEF Still, RowsFollowFiles
<1>4. ASSUME Begun
      PROVE  RowsFollowFiles'
  <2>1. Only("indexer") /\ t'["indexer"].pc # "commit" /\ UNCHANGED <<disk, wrote, db>>
    BY <1>4 DEF Begun
  <2> QED
    BY <1>1, <1>2, <2>1
<1>5. ASSUME Index!debounce \/ Index!debounceDone
      PROVE  RowsFollowFiles'
  <2>1. Only("indexer") /\ t'["indexer"].pc # "commit"
    BY <1>5, DebounceStep, OtherSteps
  <2>2. UNCHANGED <<disk, wrote, db>>
    BY <1>5 DEF Index!debounce, Index!debounceDone, Index!Data
  <2> QED
    BY <1>1, <1>2, <2>1, <2>2
<1>6. ASSUME Index!cleanUserResults \/ Index!cleanSelect \/ Index!cleanRows
      PROVE  RowsFollowFiles'
  <2>1. Only("cleaner") /\ t'["cleaner"].pc # "commit"
    BY <1>6, OtherSteps
  <2>2. UNCHANGED <<disk, wrote>> /\ \A f \in Job : db'[f] = db[f] \/ db'[f] = None
    BY <1>6 DEF Index!cleanUserResults, Index!cleanSelect, Index!cleanRows, Index!Data
  <2> QED
    BY <1>1, <1>2, <2>1, <2>2
<1>7. ASSUME Index!restart
      PROVE  RowsFollowFiles'
  <2>1. t'["indexer"].pc = "boot" /\ t'["cleaner"].pc = "idle"
    BY <1>7, OtherSteps, IdleTypes
  <2>2. UNCHANGED <<disk, wrote, db>>
    BY <1>7 DEF Index!restart
  <2> QED
    BY <1>1, <2>1, <2>2 DEF RowsFollowFiles
<1>8. ASSUME NEW f \in Job, Index!cleanRemove(f) \/ Index!writeJob(f)
      PROVE  RowsFollowFiles'
  <2>1. UNCHANGED <<t, db>>
    BY <1>1, <1>8, FileStep
  <2>2. /\ \A g \in Job \ {f} : disk'[g] = disk[g] /\ wrote'[g] = wrote[g]
        /\ \/ disk'[f] = None /\ wrote'[f] = wrote[f]
           \/ disk'[f].v = wrote[f] + 1 /\ wrote'[f] = wrote[f] + 1
    BY <1>1, <1>8, FileStep
  <2>3. \A g \in Job : wrote[g] \in Nat /\ wrote'[g] \in Nat /\ wrote[g] <= wrote'[g]
    BY <1>1, <2>2
  <2>4. \A g \in Job : disk'[g] # None => disk'[g].v = wrote'[g]
    BY <2>2 DEF RowsFollowFiles
  <2>5. \A g \in Job : db[g] # None => db[g].v \in Nat
    BY <1>1, RowTypes
  <2>6. ASSUME NEW y \in Index!Thread, t[y].pc = "commit"
        PROVE  t[y].f \in Job /\ t[y].v \in Nat
    <3>1. Sound(y, t[y])
      BY <1>1, SoundThreads
    <3> QED
      <4>1. t[y].f \in Job /\ t[y].v \in 1..MaxV
        BY <2>6, <3>1 DEF Sound
      <4> QED
        BY <1>1, <4>1
  <2>7. \A g \in Job : db[g] # None => db[g].v <= wrote'[g]
    BY <2>3, <2>5 DEF RowsFollowFiles
  <2>8. \A y \in Index!Thread : t[y].pc = "commit" => t[y].v <= wrote'[t[y].f]
    BY <2>3, <2>6 DEF RowsFollowFiles
  <2> QED
    BY <2>1, <2>4, <2>7, <2>8 DEF RowsFollowFiles
<1>9. ASSUME NEW x \in Index!Thread, Index!Refresh(x)
      PROVE  RowsFollowFiles'
  <2>1. UNCHANGED <<disk, wrote>>
    BY <1>9, RowStep
  <2>2. CASE Index!readFile(x)
    <3>1. t[x].pc = "read" /\ RowsGo
      BY <1>9, <2>2, RowStep DEF Index!readFile, Index!commit
    <3>2. t[x].f \in Job
      BY <1>1, <3>1 DEF ThreadTypes, Visits
    <3>3. /\ Only(x)
          /\ \/ t'[x].pc = "entry"
             \/ /\ disk[t[x].f] # None /\ t'[x].pc = "commit" /\ t'[x].f = t[x].f
                /\ t'[x].v = disk[t[x].f].v
      BY <2>2, ReadStep DEF Index!Readable
    <3>4. CASE t'[x].pc = "entry"
      BY <1>2, <2>1, <3>1, <3>3, <3>4 DEF RowsGo
    <3>5. CASE t'[x].pc = "commit"
      <4>1. t'[x].f = t[x].f /\ t'[x].v = wrote[t[x].f]
        BY <3>2, <3>3, <3>5 DEF RowsFollowFiles
      <4>2. \A f \in Job : db'[f] # None => db'[f].v <= wrote[f]
        BY <3>1 DEF RowsGo, RowsFollowFiles
      <4>3. wrote[t[x].f] \in Nat
        BY <1>1, <3>2
      <4>4. \A y \in Index!Thread \ {x} : t'[y].pc # "commit"
        BY <3>1, <3>3, OneInMutex DEF Only, InMutex
      <4> QED
        BY <2>1, <3>2, <4>1, <4>2, <4>3, <4>4 DEF RowsFollowFiles
    <3> QED
      BY <3>3, <3>4, <3>5
  <2>3. CASE Index!commit(x)
    <3>1. Only(x) /\ t'[x].pc = "entry" /\ t[x].pc = "commit"
      BY <2>3, CommitStep DEF Index!commit
    <3>2. \A y \in Index!Thread : t'[y].pc # "commit"
      BY <3>1, OneInMutex DEF Only, InMutex
    <3>3. t[x].f \in Job /\ db' = [db EXCEPT ![t[x].f] = [v |-> t[x].v, mt |-> t[x].info, det |-> TRUE]]
      BY <1>1, <2>3, <3>1 DEF Index!commit, ThreadTypes, Visits
    <3>4. \A f \in Job : db'[f] # None => db'[f].v <= wrote[f]
      BY <1>1, <3>1, <3>3 DEF RowsFollowFiles, DataTypes
    <3> QED
      BY <2>1, <3>2, <3>4 DEF RowsFollowFiles
  <2>4. ASSUME ~Index!readFile(x), ~Index!commit(x)
        PROVE  Only(x) /\ t'[x].pc # "commit" /\ RowsGo
    <3>1. RowsGo
      BY <1>9, <2>4, RowStep
    <3>2. Only(x) /\ t'[x].pc # "commit"
      BY <1>9, <2>4, LoadStep, ReadDirStep, StatStep, EndStep DEF Index!Refresh
    <3> QED
      BY <3>1, <3>2
  <2> QED
    BY <1>2, <2>1, <2>2, <2>3, <2>4 DEF RowsGo
<1> QED
  BY <1>3, <1>4, <1>5, <1>6, <1>7, <1>8, <1>9, IndexCases


-----------------------------------------------------------------------------
(* The upgrade.                                                            *)

LEMMA UpgradeIsAloneNext ==
    ASSUME Index!HistoryAssumption, IndexTypes, UpgradeIsAlone, [Index!Next]_(Index!vars)
    PROVE  UpgradeIsAlone'
<1>1. /\ {"indexer", "cleaner"} = Index!Thread
      /\ t["indexer"].pc \in {"idle", "boot"} => t["indexer"].why = "" /\ (t["indexer"].pc = "idle" => schema # 2)
      /\ t["cleaner"].why # "upgrade"
  BY IndexFacts DEF IndexTypes, ThreadTypes, UpgradeIsAlone
<1>2. ASSUME Still
      PROVE  UpgradeIsAlone'
  BY <1>2 DEF Still, UpgradeIsAlone
<1>3. ASSUME Begun
      PROVE  UpgradeIsAlone'
  BY <1>1, <1>3 DEF Begun, Only, UpgradeIsAlone
<1>4. ASSUME Index!debounce
      PROVE  UpgradeIsAlone'
  <2>1. Only("indexer") /\ t'["indexer"].why = "file" /\ t["indexer"].pc = "idle"
    BY <1>4, DebounceStep
  <2>2. schema' = schema
    BY <1>4 DEF Index!debounce, Index!Data
  <2> QED
    BY <1>1, <2>1, <2>2 DEF UpgradeIsAlone
<1>5. ASSUME Index!debounceDone
      PROVE  UpgradeIsAlone'
  <2>1. Only("indexer") /\ t'["indexer"].why = ""
    BY <1>5, OtherSteps
  <2>2. schema' = schema /\ t["indexer"].why = "file" /\ t["indexer"].pc = "entry"
    BY <1>5 DEF Index!debounceDone, Index!Data
  <2> QED
    BY <1>1, <2>1, <2>2 DEF UpgradeIsAlone
<1>6. ASSUME Index!cleanUserResults \/ Index!cleanSelect \/ Index!cleanRows
      PROVE  UpgradeIsAlone'
  <2>1. Only("cleaner")
    BY <1>6, OtherSteps
  <2>2. schema' = schema
    BY <1>6 DEF Index!cleanUserResults, Index!cleanSelect, Index!cleanRows, Index!Data
  <2>3. schema # 2
    BY <1>6 DEF Index!cleanUserResults, Index!cleanSelect, Index!cleanRows, Index!Served, UpgradeIsAlone
  <2> QED
    BY <1>1, <2>1, <2>2, <2>3 DEF UpgradeIsAlone, Only
<1>7. ASSUME Index!restart
      PROVE  UpgradeIsAlone'
  <2>1. t'["indexer"].pc = "boot" /\ t'["indexer"].why = "" /\ t'["cleaner"].pc = "idle"
    BY <1>7, OtherSteps, IdleTypes
  <2> QED
    BY <2>1 DEF UpgradeIsAlone
<1>8. ASSUME NEW f \in Job, Index!cleanRemove(f) \/ Index!writeJob(f)
      PROVE  UpgradeIsAlone'
  <2>1. UNCHANGED <<t, schema>>
    BY <1>8 DEF Index!cleanRemove, Index!writeJob
  <2> QED
    BY <2>1 DEF UpgradeIsAlone
<1>9. ASSUME Index!Refresh("indexer")
      PROVE  UpgradeIsAlone'
  <2>1. Only("indexer")
    BY <1>1, <1>9, LoadStep, ReadDirStep, StatStep, ReadStep, CommitStep, EndStep DEF Index!Refresh
  <2>2. CASE Index!endRefresh("indexer")
    <3>1. t'["indexer"].why = ""
      BY <1>1, <2>2, EndStep
    <3>2. schema' = (IF t["indexer"].why = "upgrade" THEN 3 ELSE schema) /\ t["indexer"].pc = "entry"
      BY <2>2 DEF Index!endRefresh
    <3>3. schema' # 2
      BY <3>2 DEF UpgradeIsAlone
    <3> QED
      BY <3>1, <3>3 DEF UpgradeIsAlone
  <2>3. CASE Index!refreshFails("indexer")
    <3>1. t["indexer"].pc = "failed" /\ schema' = schema
      BY <2>3 DEF Index!refreshFails, Index!Data
    <3>2. /\ t'["indexer"].why = ""
          /\ IF t["indexer"].why = "upgrade" THEN t'["indexer"].pc = "boot" ELSE t'["indexer"].pc = "idle"
      BY <1>1, <2>3, EndStep
    <3> QED
      BY <1>1, <2>1, <3>1, <3>2 DEF UpgradeIsAlone, Only
  <2>4. ASSUME ~Index!endRefresh("indexer"), ~Index!refreshFails("indexer")
        PROVE  t'["indexer"].why = t["indexer"].why /\ schema' = schema /\ t["indexer"].pc # "boot"
    <3>1. t'["indexer"].why = t["indexer"].why
      BY <1>1, <1>9, <2>4, LoadStep, ReadDirStep, StatStep, ReadStep, CommitStep DEF Index!Refresh, Same
    <3>2. schema' = schema
      BY <1>1, <1>9, <2>4, RowStep
    <3>3. t["indexer"].pc # "boot"
      BY <1>9, <2>4 DEF Index!Refresh, Index!loadIndexedMtimes, Index!readDir, Index!stat, Index!readFile,
                        Index!commit
    <3> QED
      BY <3>1, <3>2, <3>3
  <2> QED
    BY <1>1, <2>1, <2>2, <2>3, <2>4 DEF UpgradeIsAlone, Only
<1>10. ASSUME Index!Refresh("cleaner")
       PROVE  UpgradeIsAlone'
  <2>1. Only("cleaner")
    BY <1>1, <1>10, LoadStep, ReadDirStep, StatStep, ReadStep, CommitStep, EndStep DEF Index!Refresh
  <2>2. schema' = schema
    BY <1>1, <1>10, RowStep
  <2>3. t["cleaner"].pc # "idle"
    BY <1>10 DEF Index!Refresh, Index!loadIndexedMtimes, Index!readDir, Index!stat, Index!readFile,
                 Index!commit, Index!endRefresh, Index!refreshFails
  <2> QED
    BY <1>1, <2>1, <2>2, <2>3 DEF UpgradeIsAlone, Only
<1> QED
  BY <1>1, <1>2, <1>3, <1>4, <1>5, <1>6, <1>7, <1>8, <1>9, <1>10, IndexCases

\* No step takes the detections of a row away.
LEMMA DetectionsStay ==
    ASSUME Index!HistoryAssumption, IndexTypes, RowsFollowFiles, [Index!Next]_(Index!vars),
           NEW f \in Job, HasDetections(f)
    PROVE  HasDetections(f)'
<1>1. DataTypes
  BY DEF IndexTypes
<1>2. ASSUME disk' = disk, db'[f] \in {db[f], None} \/ db'[f].det
      PROVE  HasDetections(f)'
  BY <1>2 DEF HasDetections, Index!Readable
<1>3. ASSUME Still \/ Begun
      PROVE  HasDetections(f)'
  BY <1>2, <1>3 DEF Still, Begun
<1>4. ASSUME Index!debounce \/ Index!debounceDone \/ Index!restart
             \/ Index!cleanUserResults \/ Index!cleanSelect \/ Index!cleanRows
      PROVE  HasDetections(f)'
  <2>1. disk' = disk /\ db'[f] \in {db[f], None}
    BY <1>4 DEF Index!debounce, Index!debounceDone, Index!restart, Index!cleanUserResults, Index!cleanSelect,
                Index!cleanRows, Index!Data
  <2> QED
    BY <1>2, <2>1
<1>5. ASSUME NEW x \in Index!Thread, Index!Refresh(x)
      PROVE  HasDetections(f)'
  <2>1. disk' = disk
    BY <1>5, RowStep
  <2>2. db'[f] \in {db[f], None} \/ db'[f].det
    <3>1. CASE RowsGo
      BY <3>1 DEF RowsGo
    <3>2. CASE ~RowsGo
      <4> DEFINE row == [v |-> t[x].v, mt |-> t[x].info, det |-> TRUE]
      <4>1. db' = [db EXCEPT ![t[x].f] = row] /\ t[x].f \in Job
        BY <1>5, <3>2, RowStep
      <4>2. row.det
        OBVIOUS
      <4> HIDE DEF row
      <4> QED
        BY <1>1, <4>1, <4>2 DEF DataTypes
    <3> QED
      BY <3>1, <3>2
  <2> QED
    BY <1>2, <2>1, <2>2
<1>6. ASSUME NEW g \in Job, Index!cleanRemove(g) \/ Index!writeJob(g)
      PROVE  HasDetections(f)'
  <2>1. db' = db /\ (f # g => disk'[f] = disk[f])
    BY <1>1, <1>6, FileStep
  <2>2. disk'[g] = None \/ disk'[g].v = wrote[g] + 1
    BY <1>1, <1>6, FileStep
  <2>3. CASE f # g
    BY <2>1, <2>3 DEF HasDetections, Index!Readable
  <2>4. CASE f = g
    <3>1. wrote[f] \in Nat /\ (db[f] # None => db[f].v \in Nat /\ db[f].v <= wrote[f])
      BY <1>1, RowTypes, IndexFacts DEF RowsFollowFiles, DataTypes
    <3>2. disk'[f] # None /\ db[f] # None => disk'[f].v # db[f].v
      BY <2>2, <2>4, <3>1
    <3> QED
      BY <2>1, <3>2 DEF HasDetections, Index!Readable
  <2> QED
    BY <2>3, <2>4
<1> QED
  BY <1>3, <1>4, <1>5, <1>6, IndexCases


\* A step of the refresh moves its thread only.
LEMMA RefreshMoves ==
    ASSUME Index!HistoryAssumption, IndexTypes, NEW x \in Index!Thread, Index!Refresh(x)
    PROVE  Only(x) /\ t[x].pc \notin {"idle", "boot", "select", "remove"}
<1>1. Only(x)
  BY LoadStep, ReadDirStep, StatStep, ReadStep, CommitStep, EndStep DEF Index!Refresh
<1>2. t[x].pc \notin {"idle", "boot", "select", "remove"}
  BY DEF Index!Refresh, Index!loadIndexedMtimes, Index!readDir, Index!stat, Index!readFile,
         Index!commit, Index!endRefresh, Index!refreshFails
<1> QED
  BY <1>1, <1>2

\* What the upgrade has done by now, for one file.
Filled(f) ==
    t["indexer"].why = "upgrade" =>
        /\ t["indexer"].pc = "entry" /\ f \notin t["indexer"].todo => HasDetections(f)
        /\ Visits("indexer") /\ f \notin t["indexer"].todo \cup {t["indexer"].f} => HasDetections(f)

LEMMA FilledByRefresh ==
    ASSUME Index!HistoryAssumption, IndexTypes, Index!Refresh("indexer"),
           NEW f \in Job, HasDetections(f) => HasDetections(f)', Filled(f)
    PROVE  Filled(f)'
<1>1. "indexer" \in Index!Thread /\ DataTypes /\ ThreadTypes
  BY IndexFacts DEF IndexTypes
<1>2. CASE Index!loadIndexedMtimes("indexer")
  <2>1. t'["indexer"].pc = "readDir"
    BY <1>1, <1>2, LoadStep
  <2> QED
    BY <2>1 DEF Filled, Visits
<1>3. CASE Index!readDir("indexer")
  <2>1. t'["indexer"].pc = "failed" \/ (t'["indexer"].pc = "entry" /\ (f \notin t'["indexer"].todo => disk[f] = None))
    BY <1>1, <1>3, ReadDirStep
  <2>2. disk' = disk
    BY <1>3 DEF Index!readDir, Index!Data
  <2>3. disk[f] = None => HasDetections(f)'
    BY <2>2 DEF HasDetections, Index!Readable
  <2> QED
    BY <2>1, <2>3 DEF Filled, Visits
<1>4. ASSUME NEW g \in Job, Index!stat("indexer", g)
      PROVE  Filled(f)'
  <2>1. /\ t["indexer"].pc = "entry" /\ t'["indexer"].why = t["indexer"].why
        /\ t'["indexer"].todo = t["indexer"].todo \ {g}
        /\ IF disk[g] = None \/ Index!Unchanged("indexer", g) THEN t'["indexer"].pc = "entry"
           ELSE t'["indexer"].pc = "read" /\ t'["indexer"].f = g
    BY <1>1, <1>4, StatStep
  <2>2. disk' = disk
    BY <1>4 DEF Index!stat, Index!Data
  <2>3. disk[g] = None => HasDetections(g)'
    BY <2>2 DEF HasDetections, Index!Readable
  <2>4. t["indexer"].why = "upgrade" => ~Index!Unchanged("indexer", g)
    BY DEF Index!Unchanged, Index!Force
  <2> QED
    BY <2>1, <2>3, <2>4 DEF Filled, Visits
<1>5. CASE Index!readFile("indexer")
  <2>1. /\ t'["indexer"].why = t["indexer"].why /\ t'["indexer"].todo = t["indexer"].todo
        /\ IF Index!Readable(t["indexer"].f) THEN t'["indexer"].pc = "commit" /\ t'["indexer"].f = t["indexer"].f
           ELSE t'["indexer"].pc = "entry"
    BY <1>1, <1>5, ReadStep DEF Same
  <2>2. disk' = disk /\ t["indexer"].pc = "read"
    BY <1>5 DEF Index!readFile, Index!Data
  <2>3. ~Index!Readable(f) => HasDetections(f)'
    BY <2>2 DEF HasDetections, Index!Readable
  <2> QED
    BY <2>1, <2>2, <2>3 DEF Filled, Visits
<1>6. CASE Index!commit("indexer")
  <2>1. /\ t'["indexer"].why = t["indexer"].why /\ t'["indexer"].todo = t["indexer"].todo
        /\ t'["indexer"].pc = "entry"
    BY <1>1, <1>6, CommitStep DEF Same
  <2> DEFINE row == [v |-> t["indexer"].v, mt |-> t["indexer"].info, det |-> TRUE]
  <2>2. t["indexer"].pc = "commit" /\ db' = [db EXCEPT ![t["indexer"].f] = row]
    BY <1>6 DEF Index!commit
  <2>3. row.det
    OBVIOUS
  <2> HIDE DEF row
  <2>4. f = t["indexer"].f => HasDetections(f)'
    BY <1>1, <2>2, <2>3 DEF DataTypes, HasDetections
  <2> QED
    BY <2>1, <2>2, <2>4 DEF Filled, Visits
<1>7. CASE Index!endRefresh("indexer") \/ Index!refreshFails("indexer")
  <2>1. t'["indexer"].why = ""
    BY <1>1, <1>7, EndStep
  <2> QED
    BY <2>1 DEF Filled
<1> QED
  BY <1>2, <1>3, <1>4, <1>5, <1>6, <1>7 DEF Index!Refresh

LEMMA UpgradeFillsNext ==
    ASSUME Index!HistoryAssumption, IndexTypes, RowsFollowFiles, UpgradeIsAlone, UpgradeFills,
           [Index!Next]_(Index!vars)
    PROVE  UpgradeFills'
<1>1. \A f \in Job : HasDetections(f) => HasDetections(f)'
  BY DetectionsStay
<1>2. {"indexer", "cleaner"} = Index!Thread /\ DataTypes /\ ThreadTypes
  BY IndexFacts DEF IndexTypes
<1>3. SUFFICES ASSUME NEW f \in Job
               PROVE  (schema' = 3 => HasDetections(f)') /\ Filled(f)'
  BY DEF UpgradeFills, Filled
<1>4. HasDetections(f) => HasDetections(f)'
  BY <1>1
<1>5. Filled(f) /\ (schema = 3 => HasDetections(f))
  BY DEF UpgradeFills, Filled
<1>6. ASSUME schema' = schema, t'["indexer"] = t["indexer"]
      PROVE  (schema' = 3 => HasDetections(f)') /\ Filled(f)'
  BY <1>4, <1>5, <1>6 DEF Filled, Visits
<1>7. ASSUME schema' = schema, t'["indexer"].pc \in {"load", "idle", "boot"} \/ t'["indexer"].why = "file"
      PROVE  (schema' = 3 => HasDetections(f)') /\ Filled(f)'
  BY <1>4, <1>5, <1>7 DEF Filled, Visits
<1>8. CASE Still
  BY <1>6, <1>8 DEF Still
<1>9. CASE Begun
  BY <1>7, <1>9 DEF Begun
<1>10. CASE Index!debounce \/ Index!debounceDone \/ Index!restart
  <2>1. t'["indexer"].pc \in {"load", "idle", "boot"} \/ t'["indexer"].why = "file"
    BY <1>10, DebounceStep, OtherSteps, IdleTypes
  <2>2. schema' = schema
    BY <1>10 DEF Index!debounce, Index!debounceDone, Index!restart, Index!Data
  <2> QED
    BY <1>7, <2>1, <2>2
<1>11. CASE Index!cleanUserResults \/ Index!cleanSelect \/ Index!cleanRows
  <2>1. Only("cleaner")
    BY <1>11, OtherSteps
  <2>2. schema' = schema
    BY <1>11 DEF Index!cleanUserResults, Index!cleanSelect, Index!cleanRows, Index!Data
  <2> QED
    BY <1>2, <1>6, <2>1, <2>2 DEF Only
<1>12. ASSUME NEW g \in Job, Index!cleanRemove(g) \/ Index!writeJob(g)
       PROVE  (schema' = 3 => HasDetections(f)') /\ Filled(f)'
  <2>1. UNCHANGED <<t, schema>>
    BY <1>12 DEF Index!cleanRemove, Index!writeJob
  <2> QED
    BY <1>6, <2>1
<1>13. CASE Index!Refresh("cleaner")
  <2>1. Only("cleaner") /\ schema' = schema
    BY <1>2, <1>13, RefreshMoves, RowStep DEF ThreadTypes
  <2> QED
    BY <1>2, <1>6, <2>1 DEF Only
<1>14. CASE Index!Refresh("indexer")
  <2>1. Filled(f)'
    BY <1>4, <1>5, <1>14, FilledByRefresh
  <2>2. \/ schema' = schema
        \/ t["indexer"].pc = "entry" /\ t["indexer"].todo = {} /\ t["indexer"].why = "upgrade"
    BY <1>2, <1>14, RowStep DEF Index!endRefresh
  <2>3. schema' = 3 => HasDetections(f)'
    BY <1>4, <1>5, <2>2 DEF Filled
  <2> QED
    BY <2>1, <2>3
<1> QED
  BY <1>2, <1>8, <1>9, <1>10, <1>11, <1>12, <1>13, <1>14, IndexCases


-----------------------------------------------------------------------------
(* The clean.                                                              *)

\* A refresh only goes on when the mutex is free or its own.
LEMMA RefreshOwns ==
    ASSUME Index!HistoryAssumption, IndexTypes, MutexIsHeld, NEW x \in Index!Thread, Index!Refresh(x)
    PROVE  mu \in {None, x}
<1>1. CASE InMutex(x)
  BY <1>1 DEF MutexIsHeld
<1>2. CASE ~InMutex(x)
  BY <1>2 DEF Index!Refresh, Index!loadIndexedMtimes, Index!readDir, Index!stat, Index!readFile,
              Index!commit, Index!endRefresh, Index!refreshFails, Index!Full, InMutex
<1> QED
  BY <1>1, <1>2

\* While the clean refreshes the indexer does not.
LEMMA IndexerWaits ==
    ASSUME Index!HistoryAssumption, IndexTypes, MutexIsHeld, Index!Refresh("indexer")
    PROVE  t["cleaner"].pc \notin {"readDir", "entry", "read", "commit"}
<1>1. /\ {"indexer", "cleaner"} = Index!Thread /\ t["cleaner"].why # "file" /\ mu \in {None, "indexer"}
      /\ None \notin Index!Thread
  BY IndexFacts, RefreshOwns DEF IndexTypes, ThreadTypes
<1> QED
  BY <1>1 DEF MutexIsHeld, InMutex

Remembers == t["cleaner"].pc \in {"readDir", "entry", "read", "commit"}

LEMMA RememberedNext ==
    ASSUME Index!HistoryAssumption, IndexTypes, MutexIsHeld, CleanFinds, [Index!Next]_(Index!vars),
           NEW f \in Job, Remembers', t'["cleaner"].old[f] # 0
    PROVE  db'[f] # None
<1>1. {"indexer", "cleaner"} = Index!Thread /\ DataTypes /\ ThreadTypes
  BY IndexFacts DEF IndexTypes
<1>2. ASSUME t'["cleaner"] = t["cleaner"], db'[f] = db[f]
      PROVE  db'[f] # None
  BY <1>2 DEF CleanFinds, Remembers
<1>3. CASE Still
  BY <1>2, <1>3 DEF Still
<1>4. CASE Begun
  BY <1>1, <1>2, <1>4 DEF Begun, Only
<1>5. CASE Index!debounce \/ Index!debounceDone
  <2>1. Only("indexer")
    BY <1>5, DebounceStep, OtherSteps
  <2>2. db' = db
    BY <1>5 DEF Index!debounce, Index!debounceDone
  <2> QED
    BY <1>1, <1>2, <2>1, <2>2 DEF Only
<1>6. CASE Index!restart \/ Index!cleanUserResults \/ Index!cleanSelect \/ Index!cleanRows
  <2>1. t'["cleaner"].pc \in {"idle", "load", "remove"}
    BY <1>6, OtherSteps, IdleTypes
  <2> QED
    BY <2>1 DEF Remembers
<1>7. ASSUME NEW g \in Job, Index!cleanRemove(g) \/ Index!writeJob(g)
      PROVE  db'[f] # None
  <2>1. UNCHANGED <<t, db>>
    BY <1>7 DEF Index!cleanRemove, Index!writeJob
  <2> QED
    BY <1>2, <2>1
<1>8. CASE Index!Refresh("indexer")
  <2>1. Only("indexer") /\ t["cleaner"].pc \notin {"readDir", "entry", "read", "commit"}
    BY <1>1, <1>8, RefreshMoves, IndexerWaits
  <2> QED
    BY <1>1, <2>1 DEF Remembers, Only
<1>9. CASE Index!Refresh("cleaner")
  <2>1. CASE Index!loadIndexedMtimes("cleaner")
    BY <1>1, <2>1, LoadStep DEF Index!loadIndexedMtimes
  <2>2. CASE Index!readDir("cleaner")
    <3>1. t'["cleaner"].old = t["cleaner"].old /\ t["cleaner"].pc = "readDir" /\ db' = db
      BY <1>1, <2>2, ReadDirStep DEF Index!readDir
    <3> QED
      BY <3>1 DEF CleanFinds
  <2>3. ASSUME NEW g \in Job, Index!stat("cleaner", g)
        PROVE  db'[f] # None
    <3>1. t["cleaner"].pc = "entry" /\ t'["cleaner"].old[f] = IF f = g THEN 0 ELSE t["cleaner"].old[f]
      BY <1>1, <2>3, StatStep
    <3>2. db' = db
      BY <1>1, <2>3 DEF Index!stat, Index!Full, ThreadTypes
    <3> QED
      BY <3>1, <3>2 DEF CleanFinds
  <2>4. CASE Index!readFile("cleaner")
    <3>1. t'["cleaner"].old = t["cleaner"].old /\ t["cleaner"].pc = "read"
      BY <1>1, <2>4, ReadStep DEF Index!readFile, Same
    <3>2. db' = db \/ db' = [db EXCEPT ![t["cleaner"].f] = None]
      BY <2>4 DEF Index!readFile
    <3>3. t["cleaner"].f \in Job /\ t["cleaner"].old[t["cleaner"].f] = 0
      BY <1>1, <3>1 DEF ThreadTypes, Visits
    <3> QED
      BY <1>1, <3>1, <3>2, <3>3 DEF CleanFinds, DataTypes
  <2>5. CASE Index!commit("cleaner")
    <3>1. t'["cleaner"].old = t["cleaner"].old /\ t["cleaner"].pc = "commit"
      BY <1>1, <2>5, CommitStep DEF Index!commit, Same
    <3>2. t["cleaner"].f \in Job /\ t["cleaner"].old[t["cleaner"].f] = 0
      BY <1>1, <3>1 DEF ThreadTypes, Visits
    <3>3. f # t["cleaner"].f
      BY <3>1, <3>2
    <3>4. db'[f] = db[f]
      BY <1>1, <2>5, <3>3 DEF Index!commit, DataTypes
    <3> QED
      BY <3>1, <3>4 DEF CleanFinds
  <2>6. CASE Index!endRefresh("cleaner") \/ Index!refreshFails("cleaner")
    BY <1>1, <2>6, EndStep DEF Remembers
  <2> QED
    BY <1>9, <2>1, <2>2, <2>3, <2>4, <2>5, <2>6 DEF Index!Refresh
<1> QED
  BY <1>1, <1>3, <1>4, <1>5, <1>6, <1>7, <1>8, <1>9, IndexCases

LEMMA FoundByCleaner ==
    ASSUME Index!HistoryAssumption, IndexTypes, MutexIsHeld, CleanFinds, Index!Refresh("cleaner"),
           ~Index!refreshFails("cleaner"), NEW f \in Job, Found(f), Index!Readable(f)
    PROVE  Found(f)'
<1>1. {"indexer", "cleaner"} = Index!Thread /\ DataTypes /\ ThreadTypes /\ disk[f] # None
  BY IndexFacts DEF IndexTypes, Index!Readable
<1>2. CASE Index!loadIndexedMtimes("cleaner")
  <2>1. t'["cleaner"].pc = "readDir"
    BY <1>1, <1>2, LoadStep
  <2> QED
    BY <2>1 DEF Found, InRefresh
<1>3. CASE Index!readDir("cleaner")
  <2>1. t'["cleaner"].pc = "failed" \/ (t'["cleaner"].pc = "entry" /\ f \in t'["cleaner"].todo)
    BY <1>1, <1>3, ReadDirStep
  <2> QED
    BY <2>1 DEF Found, InRefresh
<1>4. ASSUME NEW g \in Job, Index!stat("cleaner", g)
      PROVE  Found(f)'
  <2>1. /\ t["cleaner"].pc = "entry" /\ t'["cleaner"].todo = t["cleaner"].todo \ {g}
        /\ t'["cleaner"].old[f] = IF f = g THEN 0 ELSE t["cleaner"].old[f]
        /\ IF disk[g] = None \/ Index!Unchanged("cleaner", g) THEN t'["cleaner"].pc = "entry"
           ELSE t'["cleaner"].pc = "read" /\ t'["cleaner"].f = g
    BY <1>1, <1>4, StatStep
  <2>2. db' = db
    BY <1>1, <1>4 DEF Index!stat, Index!Full, ThreadTypes
  <2>3. \/ f \in t["cleaner"].todo
        \/ db[f] # None /\ t["cleaner"].old[f] = 0
    BY <2>1 DEF Found, InRefresh, Visits
  <2>4. disk[f].mt # 0
    BY <1>1, RowTypes, IndexFacts
  <2>5. f = g /\ Index!Unchanged("cleaner", g) => db[f] # None
    BY <2>1, <2>4 DEF Index!Unchanged, CleanFinds
  <2> QED
    BY <1>1, <2>1, <2>2, <2>3, <2>5 DEF Found, InRefresh, Visits
<1>5. CASE Index!readFile("cleaner")
  <2>1. /\ t'["cleaner"].todo = t["cleaner"].todo /\ t'["cleaner"].old = t["cleaner"].old
        /\ t["cleaner"].pc = "read"
        /\ IF Index!Readable(t["cleaner"].f) THEN t'["cleaner"].pc = "commit" /\ t'["cleaner"].f = t["cleaner"].f
           ELSE t'["cleaner"].pc = "entry"
    BY <1>1, <1>5, ReadStep DEF Same, Index!readFile
  <2>2. IF Index!Readable(t["cleaner"].f) THEN db' = db
        ELSE db' = db \/ db' = [db EXCEPT ![t["cleaner"].f] = None]
    BY <1>5 DEF Index!readFile
  <2>3. f # t["cleaner"].f => db'[f] = db[f]
    BY <1>1, <2>2 DEF DataTypes
  <2> QED
    BY <2>1, <2>2, <2>3 DEF Found, InRefresh, Visits
<1>6. CASE Index!commit("cleaner")
  <2>1. /\ t'["cleaner"].todo = t["cleaner"].todo /\ t'["cleaner"].old = t["cleaner"].old
        /\ t["cleaner"].pc = "commit" /\ t'["cleaner"].pc = "entry"
    BY <1>1, <1>6, CommitStep DEF Same, Index!commit
  <2> DEFINE row == [v |-> t["cleaner"].v, mt |-> t["cleaner"].info, det |-> TRUE]
  <2>2. db' = [db EXCEPT ![t["cleaner"].f] = row] /\ t["cleaner"].f \in Job
    BY <1>1, <1>6, <2>1 DEF Index!commit, ThreadTypes, Visits
  <2>3. row \in Index!Row
    BY <1>1, <2>1, SoundThreads DEF Sound, Index!Row
  <2> HIDE DEF row
  <2>4. row # None /\ t["cleaner"].old[t["cleaner"].f] = 0
    BY <1>1, <2>1, <2>3, IndexFacts DEF ThreadTypes, Visits
  <2>5. IF f = t["cleaner"].f THEN db'[f] # None /\ t["cleaner"].old[f] = 0 ELSE db'[f] = db[f]
    BY <1>1, <2>2, <2>4 DEF DataTypes
  <2> QED
    BY <2>1, <2>5 DEF Found, InRefresh, Visits
<1>7. CASE Index!endRefresh("cleaner")
  <2>1. t'["cleaner"].pc = "select" /\ Only("cleaner")
    BY <1>1, <1>7, EndStep
  <2>2. /\ t["cleaner"].pc = "entry" /\ t["cleaner"].todo = {} /\ t["cleaner"].why # "file"
        /\ db' = [g \in Job |-> IF t["cleaner"].old[g] = 0 \/ ~Index!RemoveInvalid("cleaner") THEN db[g] ELSE None]
    BY <1>7 DEF Index!endRefresh, Index!Full
  <2>3. db[f] # None /\ t["cleaner"].old[f] = 0
    BY <2>2 DEF Found, InRefresh, Visits
  <2>4. ~InMutex("indexer")
    BY <1>1, <2>2, OneInMutex DEF InMutex
  <2> QED
    BY <1>1, <2>1, <2>2, <2>3, <2>4 DEF Found, InRefresh, InMutex, Only
<1> QED
  BY <1>2, <1>3, <1>4, <1>5, <1>6, <1>7 DEF Index!Refresh

LEMMA FoundByIndexer ==
    ASSUME Index!HistoryAssumption, IndexTypes, MutexIsHeld, Index!Refresh("indexer"),
           NEW f \in Job, Found(f), Index!Readable(f)
    PROVE  Found(f)'
<1>1. {"indexer", "cleaner"} = Index!Thread /\ DataTypes /\ ThreadTypes /\ disk[f] # None
  BY IndexFacts DEF IndexTypes, Index!Readable
<1>2. t'["cleaner"] = t["cleaner"] /\ ~InRefresh("cleaner") /\ jobs' = jobs
  BY <1>1, RefreshMoves, IndexerWaits, RowStep DEF Only, InRefresh
<1>3. SUFFICES ASSUME t["cleaner"].pc = "select"
               PROVE  /\ db'[f] # None
                      /\ InRefresh("indexer")' /\ t'["indexer"].why # "file" =>
                            f \in t'["indexer"].todo \/ t'["indexer"].old[f] = 0
  BY <1>2 DEF Found, InRefresh
<1>4. /\ db[f] # None
      /\ InRefresh("indexer") /\ t["indexer"].why # "file" =>
            f \in t["indexer"].todo \/ t["indexer"].old[f] = 0
  BY <1>3 DEF Found
<1>5. CASE Index!loadIndexedMtimes("indexer")
  <2>1. t'["indexer"].pc = "readDir" /\ db' = db
    BY <1>1, <1>5, LoadStep DEF Index!loadIndexedMtimes
  <2> QED
    BY <1>4, <2>1 DEF InRefresh
<1>6. CASE Index!readDir("indexer")
  <2>1. /\ t'["indexer"].pc = "failed" \/ (t'["indexer"].pc = "entry" /\ f \in t'["indexer"].todo)
        /\ db' = db
    BY <1>1, <1>6, ReadDirStep DEF Index!readDir
  <2> QED
    BY <1>4, <2>1 DEF InRefresh
<1>7. ASSUME NEW g \in Job, Index!stat("indexer", g)
      PROVE  /\ db'[f] # None
             /\ InRefresh("indexer")' /\ t'["indexer"].why # "file" =>
                   f \in t'["indexer"].todo \/ t'["indexer"].old[f] = 0
  <2>1. /\ t["indexer"].pc = "entry" /\ t'["indexer"].todo = t["indexer"].todo \ {g}
        /\ t'["indexer"].why = t["indexer"].why
        /\ t'["indexer"].old[f] = IF f = g THEN 0 ELSE t["indexer"].old[f]
    BY <1>1, <1>7, StatStep
  <2>2. db' = db \/ (disk[g] = None /\ db' = [db EXCEPT ![g] = None])
    BY <1>7 DEF Index!stat
  <2>3. db'[f] = db[f]
    BY <1>1, <2>2 DEF DataTypes
  <2> QED
    BY <1>4, <2>1, <2>3 DEF InRefresh
<1>8. CASE Index!readFile("indexer")
  <2>1. /\ t'["indexer"].todo = t["indexer"].todo /\ t'["indexer"].old = t["indexer"].old
        /\ t["indexer"].pc = "read" /\ t'["indexer"].why = t["indexer"].why
    BY <1>1, <1>8, ReadStep DEF Same, Index!readFile
  <2>2. db' = db \/ (~Index!Readable(t["indexer"].f) /\ db' = [db EXCEPT ![t["indexer"].f] = None])
    BY <1>8 DEF Index!readFile
  <2>3. db'[f] = db[f]
    BY <1>1, <2>2 DEF DataTypes
  <2> QED
    BY <1>4, <2>1, <2>3 DEF InRefresh
<1>9. CASE Index!commit("indexer")
  <2>1. /\ t'["indexer"].todo = t["indexer"].todo /\ t'["indexer"].old = t["indexer"].old
        /\ t["indexer"].pc = "commit" /\ t'["indexer"].why = t["indexer"].why
    BY <1>1, <1>9, CommitStep DEF Same, Index!commit
  <2> DEFINE row == [v |-> t["indexer"].v, mt |-> t["indexer"].info, det |-> TRUE]
  <2>2. db' = [db EXCEPT ![t["indexer"].f] = row]
    BY <1>9 DEF Index!commit
  <2>3. row \in Index!Row
    BY <1>1, <2>1, SoundThreads DEF Sound, Index!Row
  <2> HIDE DEF row
  <2>4. db'[f] # None
    BY <1>1, <1>4, <2>2, <2>3, IndexFacts DEF DataTypes
  <2> QED
    BY <1>4, <2>1, <2>4 DEF InRefresh
<1>10. CASE Index!endRefresh("indexer")
  <2>1. t'["indexer"].pc = "idle"
    BY <1>1, <1>10, EndStep DEF Index!endRefresh, Index!refreshFails
  <2>2. /\ t["indexer"].pc = "entry" /\ t["indexer"].todo = {} /\ t["indexer"].why # "file"
        /\ db' = [g \in Job |-> IF t["indexer"].old[g] = 0 \/ ~Index!RemoveInvalid("indexer") THEN db[g] ELSE None]
    BY <1>10 DEF Index!endRefresh, Index!Full
  <2>3. db'[f] = db[f]
    BY <1>4, <2>2 DEF InRefresh
  <2> QED
    BY <1>4, <2>1, <2>3 DEF InRefresh
<1>11. CASE Index!refreshFails("indexer")
  <2>1. t'["indexer"].pc \in {"idle", "boot"} /\ db' = db
    BY <1>1, <1>11, EndStep DEF Index!refreshFails
  <2> QED
    BY <1>4, <2>1 DEF InRefresh
<1> QED
  BY <1>5, <1>6, <1>7, <1>8, <1>9, <1>10, <1>11 DEF Index!Refresh


\* A result that is still there is found, whatever happens meanwhile.
LEMMA FoundNext ==
    ASSUME Index!HistoryAssumption, IndexTypes, MutexIsHeld, RowsFollowFiles, CleanFinds,
           [Index!Next]_(Index!vars), NEW b \in before', Here(b)'
    PROVE  disk'[b[1]].ok /\ b[1] \in Mine /\ Found(b[1])'
<1>1. /\ {"indexer", "cleaner"} = Index!Thread /\ DataTypes /\ ThreadTypes /\ CleanTypes /\ Mine \subseteq Job
      /\ MaxV \in Nat
  BY IndexFacts DEF IndexTypes
<1>2. before' \subseteq Job \X (1..MaxV)
  BY CleanTypesNext DEF CleanTypes
<1>3. b[1] \in Job /\ b[2] \in 1..MaxV
  BY <1>2
<1>4. ASSUME b \in before, disk'[b[1]] = disk[b[1]]
      PROVE  disk'[b[1]].ok /\ b[1] \in Mine /\ Found(b[1]) /\ Index!Readable(b[1])
  BY <1>4 DEF CleanFinds, Here, Index!Readable
<1>5. CASE Still
  <2>1. b \in before /\ disk' = disk /\ UNCHANGED <<t, db, jobs>>
    BY <1>5 DEF Still
  <2> QED
    BY <1>4, <2>1 DEF Found, InRefresh, Visits
<1>6. CASE Begun
  <2>1. b \in before /\ disk' = disk /\ UNCHANGED <<db, jobs>> /\ t'["cleaner"] = t["cleaner"]
        /\ t'["indexer"].pc = "load"
    BY <1>1, <1>6 DEF Begun, Only
  <2> QED
    BY <1>4, <2>1 DEF Found, InRefresh, Visits
<1>7. CASE Index!debounce \/ Index!debounceDone
  <2>1. /\ Only("indexer")
        /\ t'["indexer"].pc = "idle" \/ t'["indexer"].why = "file"
    BY <1>7, DebounceStep, OtherSteps
  <2>2. b \in before /\ disk' = disk /\ UNCHANGED <<db, jobs>>
    BY <1>7 DEF Index!debounce, Index!debounceDone, Index!Data, Index!cln
  <2> QED
    BY <1>1, <1>4, <2>1, <2>2 DEF Found, InRefresh, Visits, Only
<1>8. CASE Index!restart \/ Index!cleanRows
  BY <1>8 DEF Index!restart, Index!cleanRows
<1>9. CASE Index!cleanUserResults
  <2>1. disk' = disk /\ before' = {<<f, disk[f].v>> : f \in {g \in Mine : Index!Readable(g)}}
    BY <1>9 DEF Index!cleanUserResults, Index!Data
  <2>2. b[1] \in Mine /\ Index!Readable(b[1])
    BY <2>1
  <2>3. t'["cleaner"].pc = "load"
    BY <1>9, OtherSteps
  <2> QED
    BY <2>1, <2>2, <2>3 DEF Found, InRefresh, Index!Readable
<1>10. CASE Index!cleanSelect
  <2>1. /\ disk' = disk /\ before' = before /\ jobs' = {f \in Mine : db[f] # None}
        /\ t["cleaner"].pc = "select"
    BY <1>10 DEF Index!cleanSelect, Index!Data
  <2>2. t'["cleaner"].pc = "remove"
    BY <1>10, OtherSteps
  <2>3. disk'[b[1]].ok /\ b[1] \in Mine /\ Found(b[1])
    BY <1>4, <2>1
  <2>4. b[1] \in jobs'
    BY <2>1, <2>3 DEF Found
  <2> QED
    BY <2>2, <2>3, <2>4 DEF Found, InRefresh
<1>11. ASSUME NEW f \in Job, Index!cleanRemove(f) \/ Index!writeJob(f)
       PROVE  disk'[b[1]].ok /\ b[1] \in Mine /\ Found(b[1])'
  <2>1. UNCHANGED <<t, db>> /\ before' = before /\ jobs \ {f} \subseteq jobs'
    BY <1>1, <1>11, FileStep
  <2>2. /\ f # b[1] => disk'[b[1]] = disk[b[1]]
        /\ disk'[f] = None \/ disk'[f].v = wrote[f] + 1
    BY <1>1, <1>3, <1>11, FileStep
  <2>3. b[2] <= wrote[b[1]] /\ wrote[b[1]] \in Nat
    BY <1>1, <1>3, <2>1 DEF CleanFinds, DataTypes
  <2>4. f # b[1]
    BY <1>3, <2>2, <2>3 DEF Here
  <2>5. disk'[b[1]].ok /\ b[1] \in Mine /\ Found(b[1])
    BY <1>4, <2>1, <2>2, <2>4
  <2> QED
    BY <2>1, <2>4, <2>5 DEF Found, InRefresh, Visits
<1>12. CASE Index!Refresh("indexer")
  <2>1. b \in before /\ disk' = disk
    BY <1>1, <1>12, RowStep
  <2> QED
    BY <1>3, <1>4, <1>12, <2>1, FoundByIndexer
<1>13. CASE Index!Refresh("cleaner")
  <2>1. b \in before /\ disk' = disk
    BY <1>1, <1>13, RowStep
  <2>2. ~Index!refreshFails("cleaner")
    BY DEF Index!refreshFails
  <2> QED
    BY <1>3, <1>4, <1>13, <2>1, <2>2, FoundByCleaner
<1> QED
  BY <1>1, <1>5, <1>6, <1>7, <1>8, <1>9, <1>10, <1>11, <1>12, <1>13, IndexCases

LEMMA KnownVersions ==
    ASSUME Index!HistoryAssumption, IndexTypes, RowsFollowFiles, CleanFinds,
           [Index!Next]_(Index!vars), NEW b \in before'
    PROVE  b[2] <= wrote'[b[1]]
<1>1. DataTypes /\ CleanTypes /\ Mine \subseteq Job /\ MaxV \in Nat /\ wrote \in [Job -> 0..MaxV]
  BY IndexFacts DEF IndexTypes, DataTypes
<1>2. before' \subseteq Job \X (1..MaxV)
  BY CleanTypesNext DEF CleanTypes
<1>3. b[1] \in Job /\ b[2] \in 1..MaxV
  BY <1>2
<1>4. ASSUME b \in before, wrote'[b[1]] \in {wrote[b[1]], wrote[b[1]] + 1}
      PROVE  b[2] <= wrote'[b[1]]
  BY <1>1, <1>3, <1>4 DEF CleanFinds
<1>5. CASE Still \/ Begun
  BY <1>4, <1>5 DEF Still, Begun
<1>6. CASE Index!debounce \/ Index!debounceDone \/ Index!cleanSelect
  <2>1. wrote' = wrote /\ before' = before
    BY <1>6 DEF Index!debounce, Index!debounceDone, Index!cleanSelect, Index!Data, Index!cln
  <2> QED
    BY <1>4, <2>1
<1>7. CASE Index!restart \/ Index!cleanRows
  BY <1>7 DEF Index!restart, Index!cleanRows
<1>8. CASE Index!cleanUserResults
  <2>1. wrote' = wrote /\ before' = {<<f, disk[f].v>> : f \in {g \in Mine : Index!Readable(g)}}
    BY <1>8 DEF Index!cleanUserResults, Index!Data
  <2>2. disk[b[1]] # None /\ b[2] = disk[b[1]].v
    BY <2>1 DEF Index!Readable
  <2>3. b[2] = wrote'[b[1]]
    BY <1>3, <2>1, <2>2 DEF RowsFollowFiles
  <2> QED
    BY <1>3, <1>1, <2>3
<1>9. ASSUME NEW f \in Job, Index!cleanRemove(f) \/ Index!writeJob(f)
      PROVE  b[2] <= wrote'[b[1]]
  <2>1. before' = before /\ wrote'[b[1]] \in {wrote[b[1]], wrote[b[1]] + 1}
    BY <1>1, <1>3, <1>9, FileStep
  <2> QED
    BY <1>4, <2>1
<1>10. ASSUME NEW x \in Index!Thread, Index!Refresh(x)
       PROVE  b[2] <= wrote'[b[1]]
  <2>1. b \in before /\ wrote' = wrote
    BY <1>10, RowStep
  <2> QED
    BY <1>4, <2>1
<1> QED
  BY <1>5, <1>6, <1>7, <1>8, <1>9, <1>10, IndexCases

LEMMA CleanFindsNext ==
    ASSUME Index!HistoryAssumption, IndexTypes, MutexIsHeld, RowsFollowFiles, CleanFinds,
           [Index!Next]_(Index!vars)
    PROVE  CleanFinds'
BY RememberedNext, KnownVersions, FoundNext DEF CleanFinds, Remembers

LEMMA OwedNext ==
    ASSUME Index!OwedRefreshIsTimed, [Index!Next]_(Index!vars)
    PROVE  Index!OwedRefreshIsTimed'
<1>1. ASSUME UNCHANGED <<errPending, errTimer>>
      PROVE  Index!OwedRefreshIsTimed'
  BY <1>1, Zenon DEF Index!OwedRefreshIsTimed
<1>2. ASSUME errPending' = FALSE
      PROVE  Index!OwedRefreshIsTimed'
  BY <1>2 DEF Index!OwedRefreshIsTimed
<1>3. ASSUME errTimer' = TRUE
      PROVE  Index!OwedRefreshIsTimed'
  BY <1>3 DEF Index!OwedRefreshIsTimed
<1>4. ASSUME NEW x \in {"indexer", "cleaner"}, Index!Refresh(x)
      PROVE  Index!OwedRefreshIsTimed'
  BY <1>1, <1>2, <1>4 DEF Index!Refresh, Index!loadIndexedMtimes, Index!readDir, Index!stat, Index!readFile,
          Index!commit, Index!endRefresh, Index!refreshFails, Index!ctl
<1>5. ASSUME Index!boot \/ Index!debounceDone \/ Index!cleanSelect \/ Index!cleanRows \/ Index!cleanUserResults
             \/ Index!periodic
      PROVE  Index!OwedRefreshIsTimed'
  BY <1>1, <1>5 DEF Index!boot, Index!debounceDone, Index!cleanSelect, Index!cleanRows,
          Index!cleanUserResults, Index!periodic, Index!ctl
<1>6. ASSUME NEW f \in Job, Index!cleanRemove(f) \/ Index!writeJob(f)
      PROVE  Index!OwedRefreshIsTimed'
  BY <1>1, <1>6 DEF Index!cleanRemove, Index!writeJob, Index!quiet
<1>7. ASSUME Index!takeEvent \/ Index!debounce \/ Index!cooldown \/ Index!watch \/ Index!watchClosed
      PROVE  Index!OwedRefreshIsTimed'
  BY <1>1, <1>7 DEF Index!takeEvent, Index!debounce, Index!cooldown, Index!watch, Index!watchClosed
<1>8. ASSUME Index!restart
      PROVE  Index!OwedRefreshIsTimed'
  BY <1>2, <1>8 DEF Index!restart
<1>9. ASSUME Index!takeError
      PROVE  Index!OwedRefreshIsTimed'
  <2>1. errPending' = FALSE \/ errTimer' = TRUE
    BY <1>9, Zenon DEF Index!takeError, Index!runWatcherErrorRefresh
  <2> QED
    BY <1>2, <1>3, <2>1
<1>10. ASSUME Index!errorTimer
       PROVE  Index!OwedRefreshIsTimed'
  <2>1. errPending' = FALSE \/ (errPending' = errPending /\ ~errPending)
    BY <1>10, Zenon DEF Index!errorTimer, Index!runWatcherErrorRefresh
  <2>2. errPending' = errPending /\ ~errPending => Index!OwedRefreshIsTimed'
    BY Zenon DEF Index!OwedRefreshIsTimed
  <2> QED
    BY <1>2, <2>1, <2>2
<1>11. ASSUME UNCHANGED Index!vars
       PROVE  Index!OwedRefreshIsTimed'
  BY <1>1, <1>11 DEF Index!vars, Index!ctl
<1> QED
  BY <1>4, <1>5, <1>6, <1>7, <1>8, <1>9, <1>10, <1>11 DEF Index!Next, Index!Indexer, Index!Cleaner


-----------------------------------------------------------------------------
(* The inductive invariant of the index, and the theorems.                 *)

LEMMA IndexInitially ==
    ASSUME Index!HistoryAssumption, Index!Init
    PROVE  IndexIInv
<1>1. {"indexer", "cleaner"} = Index!Thread /\ 1 \in 1..MaxV /\ MaxV \in Nat \ {0} /\ MaxRetry \in Nat \ {0}
  BY IndexFacts
<1>2. t["indexer"] = Index!Boot /\ t["cleaner"] = Index!Idle /\ t \in [Index!Thread -> State]
  BY <1>1, IdleTypes DEF Index!Init
<1>3. /\ t["indexer"].pc = "boot" /\ t["indexer"].why = "" /\ t["cleaner"].pc = "idle" /\ t["cleaner"].why = ""
  BY <1>2, IdleTypes
<1>4. mu = None /\ before = {} /\ jobs = {} /\ events = {} /\ pendingPaths = {} /\ watcher = "down"
      /\ failures = 0 /\ errPending = FALSE
  BY DEF Index!Init
<1> DEFINE file1 == [v |-> 1, mt |-> 1, ok |-> TRUE]
           row1 == [v |-> 1, mt |-> 1, det |-> FALSE]
<1>5. \/ /\ schema = 3 /\ disk = [f \in Job |-> None] /\ wrote = [f \in Job |-> 0] /\ db = [f \in Job |-> None]
      \/ /\ schema = 2 /\ wrote = [f \in Job |-> 1] /\ db = [f \in Job |-> row1]
         /\ \E here \in SUBSET Job : disk = [f \in Job |-> IF f \in here THEN file1 ELSE None]
  BY DEF Index!Init
<1>6. file1 \in Index!Version /\ row1 \in Index!Row /\ file1.v = 1 /\ row1.v = 1
  BY <1>1 DEF Index!Version, Index!Row
<1> HIDE DEF file1, row1
<1>7. DataTypes
  <2>1. CASE schema = 3
    BY <1>1, <1>5, <2>1 DEF DataTypes
  <2>2. CASE schema # 3
    <3>1. PICK here \in SUBSET Job : disk = [f \in Job |-> IF f \in here THEN file1 ELSE None]
      BY <1>5, <2>2
    <3>2. disk \in [Job -> Index!Version \cup {None}]
      BY <1>6, <3>1
    <3>3. db \in [Job -> Index!Row \cup {None}]
      BY <1>5, <1>6, <2>2
    <3> QED
      BY <1>1, <1>5, <2>2, <3>2, <3>3 DEF DataTypes
  <2> QED
    BY <2>1, <2>2
<1>8. ThreadTypes
  BY <1>1, <1>2, <1>3, <1>4 DEF ThreadTypes, Visits
<1>9. ControlTypes /\ CleanTypes
  BY <1>1, <1>4 DEF ControlTypes, CleanTypes
<1>10. MutexIsHeld
  BY <1>1, <1>3 DEF MutexIsHeld, InMutex
<1>11. RowsFollowFiles
  <2>1. \A f \in Job : (disk[f] # None => disk[f].v = wrote[f]) /\ (db[f] # None => db[f].v <= wrote[f])
    BY <1>5, <1>6
  <2> QED
    BY <1>1, <1>3, <2>1 DEF RowsFollowFiles
<1>12. UpgradeIsAlone
  BY <1>3 DEF UpgradeIsAlone
<1>13. UpgradeFills
  <2>1. \A f \in Job : schema = 3 => HasDetections(f)
    BY <1>5 DEF HasDetections
  <2> QED
    BY <1>3, <2>1 DEF UpgradeFills
<1>14. CleanFinds
  BY <1>3, <1>4 DEF CleanFinds
<1>15. Index!OwedRefreshIsTimed
  BY <1>4 DEF Index!OwedRefreshIsTimed
<1> QED
  BY <1>7, <1>8, <1>9, <1>10, <1>11, <1>12, <1>13, <1>14, <1>15 DEF IndexIInv, IndexTypes

LEMMA IndexNext ==
    ASSUME Index!HistoryAssumption, IndexIInv, [Index!Next]_(Index!vars)
    PROVE  IndexIInv'
BY IndexTypesNext, MutexNext, RowsFollowNext, UpgradeIsAloneNext, UpgradeFillsNext, CleanFindsNext, OwedNext
   DEF IndexIInv

LEMMA IndexIInvImplies ==
    ASSUME Index!HistoryAssumption, IndexIInv
    PROVE  HistoryInv
<1>1. Index!TypeOK
  BY DEF IndexIInv, IndexTypes, DataTypes, ControlTypes, ThreadTypes, MutexIsHeld, InMutex, Index!TypeOK
<1>2. Index!Backfilled
  BY DEF IndexIInv, UpgradeFills, HasDetections, Index!Backfilled
<1> QED
  BY <1>1, <1>2 DEF IndexIInv, HistoryInv

\* Two goroutines and a job that is replaced at any moment: the rows only move on.
LEMMA RowsMoveOn ==
    ASSUME Index!HistoryAssumption, IndexIInv, [Index!Next]_(Index!vars), NEW f \in Job,
           db[f] # None, db'[f] # None
    PROVE  db'[f].v >= db[f].v
<1>1. DataTypes /\ db[f].v \in Nat /\ MaxV \in Nat
  BY RowTypes, IndexFacts DEF IndexIInv, IndexTypes
<1>2. ASSUME db'[f] \in {db[f], None}
      PROVE  db'[f].v >= db[f].v
  BY <1>1, <1>2
<1>3. CASE Still \/ Begun
  BY <1>2, <1>3 DEF Still, Begun
<1>4. CASE Index!debounce \/ Index!debounceDone \/ Index!restart
           \/ Index!cleanUserResults \/ Index!cleanSelect \/ Index!cleanRows
  <2>1. db'[f] \in {db[f], None}
    BY <1>4 DEF Index!debounce, Index!debounceDone, Index!restart, Index!cleanUserResults, Index!cleanSelect,
                Index!cleanRows
  <2> QED
    BY <1>2, <2>1
<1>5. ASSUME NEW g \in Job, Index!cleanRemove(g) \/ Index!writeJob(g)
      PROVE  db'[f].v >= db[f].v
  BY <1>1, <1>2, <1>5, FileStep
<1>6. ASSUME NEW x \in Index!Thread, Index!Refresh(x)
      PROVE  db'[f].v >= db[f].v
  <2>1. CASE RowsGo
    BY <1>2, <2>1 DEF RowsGo
  <2>2. CASE ~RowsGo
    <3> DEFINE row == [v |-> t[x].v, mt |-> t[x].info, det |-> TRUE]
    <3>1. db' = [db EXCEPT ![t[x].f] = row] /\ t[x].f \in Job /\ t[x].pc = "commit"
      BY <1>6, <2>2, RowStep DEF IndexIInv, Index!commit
    <3>2. row.v = t[x].v
      OBVIOUS
    <3> HIDE DEF row
    <3>3. CASE f # t[x].f
      BY <1>1, <1>2, <3>1, <3>3 DEF DataTypes
    <3>4. CASE f = t[x].f
      <4>1. db[f].v <= t[x].v
        BY <1>6, <3>1, <3>4 DEF IndexIInv, RowsFollowFiles
      <4>2. db'[f].v = t[x].v
        BY <1>1, <3>1, <3>2, <3>4 DEF DataTypes
      <4>3. t[x].v \in Nat
        <5>1. Sound(x, t[x])
          BY <1>6, SoundThreads DEF IndexIInv, IndexTypes
        <5>2. t[x].v \in 1..MaxV
          BY <3>1, <5>1 DEF Sound
        <5> QED
          BY <1>1, <5>2
      <4> QED
        BY <1>1, <4>1, <4>2, <4>3
    <3> QED
      BY <3>3, <3>4
  <2> QED
    BY <2>1, <2>2
<1> QED
  BY <1>3, <1>4, <1>5, <1>6, IndexCases DEF IndexIInv

LEMMA UpgradeDropsNothing ==
    ASSUME Index!HistoryAssumption, IndexIInv, [Index!Next]_(Index!vars), NEW f \in Job,
           schema = 2, db[f] # None
    PROVE  db'[f] # None
<1>1. /\ DataTypes /\ {"indexer", "cleaner"} = Index!Thread /\ IndexTypes
      /\ t["cleaner"].pc = "idle" /\ (t["indexer"].pc = "boot" \/ t["indexer"].why = "upgrade")
  BY IndexFacts DEF IndexIInv, IndexTypes, UpgradeIsAlone
<1>2. CASE Still \/ Begun
  BY <1>2 DEF Still, Begun
<1>3. CASE Index!debounce \/ Index!debounceDone \/ Index!restart \/ Index!cleanUserResults \/ Index!cleanSelect
           \/ Index!cleanRows
  BY <1>1, <1>3 DEF Index!debounce, Index!debounceDone, Index!restart, Index!cleanUserResults, Index!cleanSelect,
                    Index!cleanRows
<1>4. ASSUME NEW g \in Job, Index!cleanRemove(g) \/ Index!writeJob(g)
      PROVE  db'[f] # None
  BY <1>1, <1>4, FileStep
<1>5. CASE Index!Refresh("cleaner")
  BY <1>1, <1>5, RefreshMoves
<1>6. CASE Index!Refresh("indexer")
  <2>1. t["indexer"].why = "upgrade"
    BY <1>1, <1>6, RefreshMoves
  <2>2. CASE Index!commit("indexer")
    <3> DEFINE row == [v |-> t["indexer"].v, mt |-> t["indexer"].info, det |-> TRUE]
    <3>1. db' = [db EXCEPT ![t["indexer"].f] = row] /\ t["indexer"].pc = "commit"
      BY <2>2 DEF Index!commit
    <3>2. row \in Index!Row
      BY <1>1, <3>1, SoundThreads DEF Sound, Index!Row, IndexTypes
    <3> HIDE DEF row
    <3> QED
      BY <1>1, <3>1, <3>2, IndexFacts DEF DataTypes
  <2>3. CASE ~Index!commit("indexer")
    <3>1. db'[f] = db[f]
      BY <1>6, <2>1, <2>3 DEF Index!Refresh, Index!loadIndexedMtimes, Index!readDir, Index!stat, Index!readFile,
            Index!endRefresh, Index!refreshFails, Index!Full, Index!RemoveInvalid
    <3> QED
      BY <3>1
  <2> QED
    BY <2>2, <2>3
<1> QED
  BY <1>1, <1>2, <1>3, <1>4, <1>5, <1>6, IndexCases

LEMMA CleanRemoves ==
    ASSUME Index!HistoryAssumption, IndexIInv, [Index!Next]_(Index!vars),
           t["cleaner"].pc = "remove", t'["cleaner"].pc = "idle", restarts' = restarts,
           NEW b \in before
    PROVE  disk[b[1]] = None \/ disk[b[1]].v # b[2]
<1>1. /\ {"indexer", "cleaner"} = Index!Thread /\ IndexTypes /\ CleanFinds /\ DataTypes
  BY IndexFacts DEF IndexIInv, IndexTypes
<1>2. CASE jobs = {}
  BY <1>1, <1>2 DEF CleanFinds, Here, Found
<1>3. ASSUME Only("indexer")
      PROVE  FALSE
  BY <1>1, <1>3 DEF Only
<1>4. CASE Still
  BY <1>4 DEF Still
<1>5. CASE Begun
  BY <1>3, <1>5 DEF Begun
<1>6. CASE Index!debounce \/ Index!debounceDone
  BY <1>1, <1>3, <1>6, DebounceStep, OtherSteps
<1>7. CASE Index!cleanUserResults \/ Index!cleanSelect \/ Index!cleanRows
  BY <1>2, <1>7 DEF Index!cleanUserResults, Index!cleanSelect, Index!cleanRows
<1>8. CASE Index!restart
  <2>1. restarts' = restarts + 1 /\ restarts < MaxRestart
    BY <1>8 DEF Index!restart
  <2> QED
    BY <2>1
<1>9. ASSUME NEW f \in Job, Index!cleanRemove(f) \/ Index!writeJob(f)
      PROVE  FALSE
  <2>1. t' = t
    BY <1>9 DEF Index!cleanRemove, Index!writeJob
  <2> QED
    BY <2>1
<1>10. ASSUME NEW x \in Index!Thread, Index!Refresh(x)
       PROVE  FALSE
  BY <1>1, <1>3, <1>10, RefreshMoves
<1> QED
  BY <1>1, <1>2, <1>4, <1>5, <1>6, <1>7, <1>8, <1>9, <1>10, IndexCases

\* The history invariant holds for any number of jobs, versions, cleans and
\* restarts, with events lost, the watcher down and refreshes failing: the types
\* and the mutex of historyIndexer, no watcher error forgotten
\* (scheduleWatcherErrorRefresh), and after upgradeSchema every row of a valid file
\* has its detections.
THEOREM HistoryIsSound == Index!Spec => []HistoryInv
<1>1. Index!Init => IndexIInv
  BY IndexInitially, IndexConstants
<1>2. IndexIInv /\ [Index!Next]_(Index!vars) => IndexIInv'
  BY IndexNext, IndexConstants
<1>3. IndexIInv => HistoryInv
  BY IndexIInvImplies, IndexConstants
<1> QED
  BY <1>1, <1>2, <1>3, PTL DEF Index!Spec

\* indexFile never replaces a row by one of an older version of its job, and
\* upgradeSchema, also when it is interrupted, drops no row.
THEOREM HistoryKeepsRows == Index!Spec => RowsAreKept
<1>1. Index!Init => IndexIInv
  BY IndexInitially, IndexConstants
<1>2. IndexIInv /\ [Index!Next]_(Index!vars) => IndexIInv'
  BY IndexNext, IndexConstants
<1>3. IndexIInv /\ [Index!Next]_(Index!vars) =>
         [\A f \in DOMAIN db : db[f] # None /\ db'[f] # None => db'[f].v >= db[f].v]_(Index!vars)
  BY RowsMoveOn, IndexConstants DEF IndexIInv, IndexTypes, DataTypes
<1>4. IndexIInv /\ [Index!Next]_(Index!vars) =>
         [schema = 2 => \A f \in DOMAIN db : db[f] # None => db'[f] # None]_(Index!vars)
  BY UpgradeDropsNothing, IndexConstants DEF IndexIInv, IndexTypes, DataTypes
<1> QED
  BY <1>1, <1>2, <1>3, <1>4, PTL DEF Index!Spec, RowsAreKept, Index!NeverBackwards, Index!UpgradeKeepsRows

\* cleanUserResults, when it reports success and its refresh has not failed, has
\* removed every valid result the user had when he asked, with the indexer and scans
\* at work all the time.
THEOREM CleanRemovesAll == Index!Spec => CleanIsComplete
<1>1. Index!Init => IndexIInv
  BY IndexInitially, IndexConstants
<1>2. IndexIInv /\ [Index!Next]_(Index!vars) => IndexIInv'
  BY IndexNext, IndexConstants
<1>3. IndexIInv /\ [Index!Next]_(Index!vars) =>
         [t["cleaner"].pc = "remove" /\ t'["cleaner"].pc = "idle" /\ restarts' = restarts =>
             \A b \in before : disk[b[1]] = None \/ disk[b[1]].v # b[2]]_(Index!vars)
  BY CleanRemoves, IndexConstants
<1> QED
  BY <1>1, <1>2, <1>3, PTL DEF Index!Spec, CleanIsComplete, Index!CleanIsComplete
=============================================================================
