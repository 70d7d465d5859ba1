------------------------------ MODULE Quarantine ------------------------------
(***************************************************************************)
(* The quarantine directory: files moved in by scan_once.sh, restored and  *)
(* deleted by the server (server/quarantine.go, server/cleanup.go).        *)
(*                                                                         *)
(* A quarantined file and its record n.rec are two directory entries that  *)
(* change one at a time.  Runs of scan_once.sh are serial (ScanLock says   *)
(* when) and may be killed; requests are goroutines that share no lock     *)
(* with them or with each other, and other programs create and remove      *)
(* files at the scanned paths.                                             *)
(***************************************************************************)
EXTENDS Naturals

CONSTANTS
    File,       \* scanned paths with the same base name
    Owner,      \* File -> the user whose scan covers the path
    MaxName,    \* bound: base name (0) and suffixes .001 to MaxName
    Req,        \* requests handled at the same time
    Ops,        \* what else occurs, a subset of AllOps
    MaxNew,     \* bound: files other programs create at each path
    None

AllOps == {"kill", "fail", "create", "remove", "recover"}

Slot == 0..MaxName
Datum == File \X (0..MaxNew)    \* the k-th file created at a path
Copy == [data : Datum, whole : BOOLEAN]

\* What the constants are, for every instance.
QuarantineAssumption ==
    /\ Ops \subseteq AllOps /\ MaxName \in Nat /\ MaxNew \in Nat
    /\ None \notin (File \cup Req \cup Datum \cup Copy)
    /\ "empty" \notin (File \cup {None})

VARIABLES
    src,        \* path -> [data, whole] or None
    q,          \* quarantine name -> [data, whole] or None
    rec,        \* name.rec: None, "empty", or the path a valid record names
    run,        \* the run of scan_once.sh: [pc, f, n]
    h,          \* requests: [pc, n, f, data]
    born,       \* how many files have been created at a path
    gone,       \* history: data deleted on request, by its program, or that a
                \* rollback has been moved over
    crossed     \* history: somebody has removed, by name, something else than
                \* what he had looked at or copied under that name

vars == <<src, q, rec, run, h, born, gone, crossed>>

NoRun == [pc |-> "none", f |-> None, n |-> 0]
NoReq == [pc |-> "idle", n |-> 0, f |-> None, data |-> None]

Init ==
    /\ src = [f \in File |-> [data |-> <<f, 0>>, whole |-> TRUE]]
    /\ q = [n \in Slot |-> None]
    /\ rec = [n \in Slot |-> None]
    /\ run = NoRun
    /\ h = [r \in Req |-> NoReq]
    /\ born = [f \in File |-> 0]
    /\ gone = {} /\ crossed = FALSE

Fails == "fail" \in Ops
ToRun(pc) == run' = [run EXCEPT !.pc = pc]
Keep == UNCHANGED <<h, born, gone, crossed>>

-----------------------------------------------------------------------------
(* scan_once.sh: quarantine_detected_file, command by command.             *)

\* reserve_quarantine_name: the first name with neither file nor record gets an
\* empty record, which no reader accepts.
reserve_quarantine_name(f) ==
    /\ run.pc = "none"
    /\ src[f] # None /\ src[f].whole
    /\ \E n \in Slot :
          /\ q[n] = None /\ rec[n] = None
          /\ \A m \in Slot : m < n => q[m] # None \/ rec[m] # None
          /\ rec' = [rec EXCEPT ![n] = "empty"]
          /\ run' = [pc |-> "link", f |-> f, n |-> n]
    /\ UNCHANGED <<src, q>> /\ Keep

\* The temporary record is written, or cannot be.
writeTmpRecord ==
    /\ run.pc = "link"
    /\ Fails
    /\ ToRun("abort")
    /\ UNCHANGED <<src, q, rec>> /\ Keep

\* cp -l
link ==
    /\ run.pc = "link"
    /\ \/ src[run.f] = None /\ ToRun("abort") /\ UNCHANGED q
       \/ src[run.f] # None /\ q' = [q EXCEPT ![run.n] = src[run.f]] /\ ToRun("rm1")
       \/ src[run.f] # None /\ Fails /\ ToRun("prepare1") /\ UNCHANGED q
    /\ UNCHANGED <<src, rec>> /\ Keep

\* The file at the path is no longer the one whose copy is in the quarantine.
Replaced == q[run.n] # None /\ src[run.f] # None /\ q[run.n].data # src[run.f].data

\* rm of the source after cp -l (rm1) and after cp -p (rm2); verify_completed_move
\* then looks at both paths again.
rmSource ==
    /\ run.pc \in {"rm1", "rm2"}
    /\ \/ /\ src[run.f] # None
          /\ src' = [src EXCEPT ![run.f] = None]
          /\ crossed' = (crossed \/ Replaced)
          /\ ToRun("verify")
       \/ /\ src[run.f] = None \/ Fails
          /\ ToRun(IF run.pc = "rm1" THEN "prepare1" ELSE "prepare2")
          /\ UNCHANGED <<src, crossed>>
    /\ UNCHANGED <<q, rec, h, born, gone>>

verify_completed_move ==
    /\ run.pc = "verify"
    /\ ToRun(IF src[run.f] = None /\ q[run.n] # None THEN "publish" ELSE "abort")
    /\ UNCHANGED <<src, q, rec>> /\ Keep

\* Mutation: the target is cleaned whether or not the source still exists.
PrepareAlways ==
    /\ run.pc \in {"prepare1", "prepare2"}
    /\ q' = [q EXCEPT ![run.n] = None]
    /\ ToRun(IF src[run.f] = None THEN "abort" ELSE IF run.pc = "prepare1" THEN "copy" ELSE "mv")
    /\ crossed' = (crossed \/ Replaced)
    /\ UNCHANGED <<src, rec, h, born, gone>>

\* If the source has disappeared the target may be the only copy: it stays.
prepare_move_fallback ==
    /\ run.pc \in {"prepare1", "prepare2"}
    /\ \/ src[run.f] = None /\ ToRun("abort") /\ UNCHANGED q
       \/ src[run.f] # None /\ q' = [q EXCEPT ![run.n] = None]
          /\ ToRun(IF run.pc = "prepare1" THEN "copy" ELSE "mv")
       \/ src[run.f] # None /\ q[run.n] # None /\ Fails /\ ToRun("abort") /\ UNCHANGED q
    /\ crossed' = (crossed \/ Replaced)
    /\ UNCHANGED <<src, rec, h, born, gone>>

\* Mutation: a copy that failed half-way counts as complete.
CopyUnchecked ==
    /\ run.pc = "copy"
    /\ \/ src[run.f] # None /\ q' = [q EXCEPT ![run.n] = src[run.f]] /\ ToRun("rm2")
       \/ src[run.f] # None /\ Fails /\ ToRun("rm2")
          /\ q' = [q EXCEPT ![run.n] = [src[run.f] EXCEPT !.whole = FALSE]]
       \/ src[run.f] = None /\ ToRun("prepare2") /\ UNCHANGED q
    /\ UNCHANGED <<src, rec>> /\ Keep

\* cp -p
copy ==
    /\ run.pc = "copy"
    /\ \/ src[run.f] # None /\ q' = [q EXCEPT ![run.n] = src[run.f]] /\ ToRun("rm2")
       \/ src[run.f] # None /\ Fails /\ ToRun("prepare2")
          /\ q' = [q EXCEPT ![run.n] = [src[run.f] EXCEPT !.whole = FALSE]]
       \/ src[run.f] = None /\ ToRun("prepare2") /\ UNCHANGED q
    /\ UNCHANGED <<src, rec>> /\ Keep

\* mv; when it fails half-way its target is removed, unless the source has gone.
mv ==
    /\ run.pc = "mv"
    /\ \/ /\ src[run.f] # None
          /\ q' = [q EXCEPT ![run.n] = src[run.f]]
          /\ src' = [src EXCEPT ![run.f] = None]
          /\ ToRun("verify")
       \/ /\ src[run.f] = None \/ Fails
          /\ ToRun("abort") /\ UNCHANGED <<src, q>>
       \/ /\ src[run.f] # None /\ Fails      \* nor can its target be removed
          /\ q' = [q EXCEPT ![run.n] = [src[run.f] EXCEPT !.whole = FALSE]]
          /\ ToRun("abort") /\ UNCHANGED src
    /\ UNCHANGED rec /\ Keep

\* The record replaces the reservation; if it cannot, the file goes back by mv,
\* which asks nobody, or stays without a record.
publish ==
    /\ run.pc = "publish"
    /\ \/ rec' = [rec EXCEPT ![run.n] = run.f] /\ run' = NoRun
       \/ Fails /\ rec' = [rec EXCEPT ![run.n] = None] /\ ToRun("rollback")
    /\ UNCHANGED <<src, q>> /\ Keep

rollback ==
    /\ run.pc = "rollback"
    /\ \/ /\ q[run.n] # None
          /\ gone' = IF src[run.f] # None THEN gone \cup {src[run.f].data} ELSE gone
          /\ src' = [src EXCEPT ![run.f] = q[run.n]]
          /\ q' = [q EXCEPT ![run.n] = None]
       \/ (q[run.n] = None \/ Fails) /\ UNCHANGED <<src, q, gone>>
    /\ run' = NoRun
    /\ UNCHANGED <<rec, h, born, crossed>>

abort ==
    /\ run.pc = "abort"
    /\ rec' = [rec EXCEPT ![run.n] = None]
    /\ run' = NoRun
    /\ UNCHANGED <<src, q>> /\ Keep

\* The run is killed, between two commands or during a copy.
kill ==
    /\ "kill" \in Ops
    /\ run.pc # "none"
    /\ q' = IF run.pc = "copy" /\ src[run.f] # None
            THEN [q EXCEPT ![run.n] = [src[run.f] EXCEPT !.whole = FALSE]] ELSE q
    /\ run' = NoRun
    /\ UNCHANGED <<src, rec>> /\ Keep

-----------------------------------------------------------------------------
(* Requests.  Both read the record first and trust it from then on.        *)

Valid(n) == rec[n] \in File

\* readQuarantineRecord and the test of the owner.
readQuarantineRecord(r, n, u, pc) ==
    /\ h[r].pc = "idle"
    /\ Valid(n) /\ Owner[rec[n]] = u
    /\ h' = [h EXCEPT ![r] = [pc |-> pc, n |-> n, f |-> rec[n],
                              data |-> IF q[n] = None THEN None ELSE q[n].data]]
    /\ UNCHANGED <<src, q, rec, run, born, gone, crossed>>

\* What is under the name now is not what the request has read the record of.
Reused(r) ==
    \/ rec[h[r].n] \notin {None, h[r].f}
    \/ q[h[r].n] # None /\ q[h[r].n].data # h[r].data

To(r, pc) == h' = [h EXCEPT ![r].pc = pc]
Done(r) == h' = [h EXCEPT ![r] = NoReq]

\* deleteQuarantineSubject, also for every entry of cleanUserQuarantine.
deleteFile(r) ==
    LET n == h[r].n
    IN  /\ h[r].pc = "delete"
        /\ IF q[n] = None
           THEN Done(r) /\ UNCHANGED <<q, gone, crossed>>
           ELSE /\ q' = [q EXCEPT ![n] = None]
                /\ gone' = gone \cup {q[n].data}
                /\ crossed' = (crossed \/ Reused(r))
                /\ To(r, "deleteRec")
        /\ UNCHANGED <<src, rec, run, born>>

removeRec(r) ==
    /\ h[r].pc = "deleteRec"
    /\ rec' = [rec EXCEPT ![h[r].n] = None]
    /\ crossed' = (crossed \/ (rec[h[r].n] # None /\ (q[h[r].n] # None \/ Reused(r))))
    /\ Done(r)
    /\ UNCHANGED <<src, q, run, born, gone>>

\* recoverQuarantineSubject: the two os.Stat, then copyRegularFile opens the file ...
openQuarantined(r) ==
    LET n == h[r].n
    IN  /\ h[r].pc = "recover"
        /\ IF q[n] = None \/ src[h[r].f] # None
           THEN Done(r) /\ UNCHANGED crossed
           ELSE /\ h' = [h EXCEPT ![r].pc = "create", ![r].data = q[n].data]
                /\ crossed' = (crossed \/ Reused(r))
        /\ UNCHANGED <<src, q, rec, run, born, gone>>

\* A file that is being restored is not met by a run that is moving that path
\* (writeRestored takes far less time than a scan).
Apart(r) == run.pc = "none" \/ run.f # h[r].f

\* ... creates the restored file with O_EXCL ...
createRestored(r) ==
    /\ h[r].pc = "create" /\ Apart(r)
    /\ IF src[h[r].f] # None
       THEN Done(r) /\ UNCHANGED src
       ELSE /\ src' = [src EXCEPT ![h[r].f] = [data |-> h[r].data, whole |-> FALSE]]
            /\ To(r, "write")
    /\ UNCHANGED <<q, rec, run, born, gone, crossed>>

\* Whether what is at the path now is the copy this request made.
Own(r) == src[h[r].f] # None /\ src[h[r].f].data = h[r].data
RemoveRestored(r) ==
    /\ src' = [src EXCEPT ![h[r].f] = None]
    /\ crossed' = (crossed \/ (src[h[r].f] # None /\ ~Own(r)))

\* ... and fills it, or removes it again.  The copy is written through the open
\* file, wherever that is by then.
writeRestored(r) ==
    /\ h[r].pc = "write"
    /\ \/ /\ src' = IF Own(r) THEN [src EXCEPT ![h[r].f].whole = TRUE] ELSE src
          /\ To(r, "removeFile") /\ UNCHANGED crossed
       \/ Fails /\ RemoveRestored(r) /\ Done(r)
    /\ UNCHANGED <<q, rec, run, born, gone>>

\* restoreQuarantinedFile: if the quarantined file has gone, so goes the copy.
removeQuarantined(r) ==
    /\ h[r].pc = "removeFile"
    /\ IF q[h[r].n] = None
       THEN RemoveRestored(r) /\ Done(r) /\ UNCHANGED q
       ELSE /\ q' = [q EXCEPT ![h[r].n] = None]
            /\ crossed' = (crossed \/ Reused(r))
            /\ To(r, "deleteRec") /\ UNCHANGED src
    /\ UNCHANGED <<rec, run, born, gone>>

-----------------------------------------------------------------------------
(* Other programs: they create a file where none is, and remove whole      *)
(* ones.  What a run has copied by then is worth keeping.                  *)

createFile(f) ==
    /\ "create" \in Ops
    /\ src[f] = None /\ born[f] < MaxNew
    /\ src' = [src EXCEPT ![f] = [data |-> <<f, born[f] + 1>>, whole |-> TRUE]]
    /\ born' = [born EXCEPT ![f] = @ + 1]
    /\ UNCHANGED <<q, rec, run, h, gone, crossed>>

removeFile(f) ==
    /\ "remove" \in Ops
    /\ src[f] # None /\ src[f].whole
    /\ src' = [src EXCEPT ![f] = None]
    /\ gone' = IF run.f = f /\ q[run.n] # None /\ q[run.n].whole /\ q[run.n].data = src[f].data
               THEN gone ELSE gone \cup {src[f].data}
    /\ UNCHANGED <<q, rec, run, h, born, crossed>>

Run ==
    \/ \E f \in File : reserve_quarantine_name(f)
    \/ writeTmpRecord \/ link \/ rmSource \/ verify_completed_move \/ prepare_move_fallback
    \/ copy \/ mv \/ publish \/ rollback \/ abort \/ kill

Request(r) ==
    \/ \E n \in Slot, f \in File :
          \/ readQuarantineRecord(r, n, Owner[f], "delete")
          \/ "recover" \in Ops /\ readQuarantineRecord(r, n, Owner[f], "recover")
    \/ deleteFile(r) \/ removeRec(r) \/ openQuarantined(r) \/ createRestored(r)
    \/ writeRestored(r) \/ removeQuarantined(r)

Next ==
    \/ Run
    \/ \E r \in Req : Request(r)
    \/ \E f \in File : createFile(f) \/ removeFile(f)

Spec == Init /\ [][Next]_vars

-----------------------------------------------------------------------------
Content == {None} \cup Copy

TypeOK ==
    /\ src \in [File -> Content] /\ q \in [Slot -> Content]
    /\ rec \in [Slot -> File \cup {None, "empty"}]
    /\ run.f \in File \cup {None} /\ run.n \in Slot
    /\ \A r \in Req : h[r].n \in Slot /\ h[r].data \in Datum \cup {None}
    /\ born \in [File -> 0..MaxNew] /\ gone \subseteq Datum /\ crossed \in BOOLEAN

Somewhere(d) ==
    \/ \E f \in File : src[f] # None /\ src[f].whole /\ src[f].data = d
    \/ \E n \in Slot : q[n] # None /\ q[n].whole /\ q[n].data = d
    \/ \E r \in Req : h[r].pc = "write" /\ h[r].data = d

\* No file is ever lost: through every fallback of the move, every failure, a kill
\* at any point and any overlap with recoveries, each file exists complete at its
\* path or in the quarantine, until it is deleted on purpose (or a rollback is
\* moved over it), unless somebody has acted on a name that was used again.
DataKept ==
    ~crossed => \A f \in File, k \in 0..MaxNew :
                   k <= born[f] /\ <<f, k>> \notin gone => Somewhere(<<f, k>>)

\* What a user is shown in the quarantine can be restored: a valid record has a
\* complete file that came from the path it names, except while a request of the
\* owner is between removing the file and removing the record.
ListedIsRestorable ==
    ~crossed => \A n \in Slot : Valid(n) =>
        \/ q[n] # None /\ q[n].whole /\ q[n].data[1] = rec[n]
        \/ \E r \in Req : h[r].n = n /\ h[r].pc = "deleteRec"
=============================================================================
