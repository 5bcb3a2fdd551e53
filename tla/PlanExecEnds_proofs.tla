------------------------ MODULE PlanExecEnds_proofs ------------------------
(***************************************************************************)
(* Theorems about what the handlers of PlanExec leave behind when they     *)
(* return: no partial, no row in progress, no row that is done without a   *)
(* file, nothing claimed by an undone plan; and that every file of ours    *)
(* which the records do not own up to has been paid for by a crash, a      *)
(* change of settings or a failed write.                                   *)
(***************************************************************************)
EXTENDS PlanExec_proofs, FiniteSetTheorems, FunctionTheorems, WellFoundedInduction

(* What is counted *)

\* An event that happens is counted, and none is forgotten.
LEMMA Counted ==
    ASSUME TypeOK, NEW e \in Events, Happens(e)
    PROVE  /\ used'[e] = used[e] + 1
           /\ \A d \in Events \ {e} : used'[d] = used[d]
BY DEF Happens, TypeOK

LEMMA CountsStay ==
    ASSUME TypeOK, [Next]_vars, NEW d \in Events, used'[d] = 0
    PROVE  used[d] = 0
<1>1. CASE UNCHANGED used
  BY <1>1
<1>2. ASSUME NEW e \in Events, Happens(e) PROVE used[d] = 0
  <2>1. used[e] \in Nat
    BY DEF TypeOK
  <2> QED
    BY <1>2, <2>1, Counted
<1> QED
  BY <1>1, <1>2, OneEvent

LEMMA NotCounted ==
    ASSUME TypeOK, NEW e \in Events, used'[e] = 0
    PROVE  ~Happens(e)
<1>1. used[e] \in Nat
  BY DEF TypeOK
<1> QED
  BY <1>1, Counted

-----------------------------------------------------------------------------
(* Partials *)

\* Short of a crash and of a change of settings the guard lets the library be
\* written, and the one partial there may be is that of the step under way,
\* between its creation and its unlink.
PartialPc == {"copying", "verify", "sync", "publish", "unlink"}
Swept == \A n \in Names : partial[n[1]][n[2]] = "absent"
SweepInv ==
    used["crash"] = 0 /\ used["setting"] = 0 =>
      /\ roots /\ ~dry
      /\ \A n \in Names : partial[n[1]][n[2]] # "absent"
            => pc \in PartialPc /\ n = <<cur, mem[cur].dst>>

\* What setting one partial does to each name.
LEMMA PartialAt ==
    ASSUME TypeOK, NEW s \in Steps, NEW p, SetPartial(s, p), NEW n \in Names
    PROVE  partial'[n[1]][n[2]] =
             IF n = <<s, mem[s].dst>> THEN p ELSE partial[n[1]][n[2]]
<1>1. n[1] \in Steps /\ n[2] \in Loc /\ n = <<n[1], n[2]>> /\ mem[s].dst \in Loc
  BY DstInLoc DEF Names
<1>2. /\ partial \in [Steps -> [Loc -> Partial]]
      /\ partial' = [partial EXCEPT ![s][mem[s].dst] = p]
  BY DEF TypeOK, SetPartial
<1>3. CASE n[1] = s /\ n[2] = mem[s].dst
  BY <1>1, <1>2, <1>3
<1>4. CASE ~(n[1] = s /\ n[2] = mem[s].dst)
  <2>1. n # <<s, mem[s].dst>>
    BY <1>1, <1>4
  <2> QED
    BY <1>1, <1>2, <1>4, <2>1
<1> QED
  BY <1>3, <1>4

\* A step between copies, which touches no partial.
LEMMA SweepBetween ==
    ASSUME SweepInv, pc \notin PartialPc, Swept => Swept',
           used'["crash"] = 0 /\ used'["setting"] = 0
             => /\ used["crash"] = 0 /\ used["setting"] = 0
                /\ roots' = roots \/ roots' = TRUE
                /\ dry' = dry
    PROVE  SweepInv'
BY DEF SweepInv, Swept

LEMMA SweepInvNext == TypeOK /\ SweepInv /\ [Next]_vars => SweepInv'
<1> SUFFICES ASSUME TypeOK, SweepInv, [Next]_vars,
                    used'["crash"] = 0, used'["setting"] = 0
             PROVE  SweepInv'
  BY DEF SweepInv
<1> USE DEF progVars, outVars, diskVars, confVars
<1>0. used["crash"] = 0 /\ used["setting"] = 0
  BY CountsStay DEF Events
<1>1. /\ roots /\ ~dry /\ Writable
      /\ \A n \in Names : partial[n[1]][n[2]] # "absent"
            => pc \in PartialPc /\ n = <<cur, mem[cur].dst>>
  BY <1>0 DEF SweepInv, Writable
<1>2. cur \in Steps /\ todo \subseteq Steps
  BY DEF TypeOK
<1>3. ~Happens("crash") /\ ~Happens("setting")
  BY NotCounted DEF Events
<1>4. CASE \/ ExecuteNothingPending \/ ExecuteBlocked \/ ExecuteStart \/ Cancelled
           \/ Before \/ Mkdir \/ Check \/ Link \/ After \/ AppendFlat
           \/ RecordStep \/ Finish \/ MarkFiled
  <2>1. pc \notin PartialPc /\ UNCHANGED <<partial, roots, dry>>
    BY <1>4 DEF ExecuteNothingPending, ExecuteBlocked, ExecuteStart, MayExecute, Cancelled,
         Before, Mkdir, Check, Link, After, AppendFlat, RecordStep, Finish, MarkFiled,
         PartialPc
  <2> QED
    BY <1>0, <2>1, SweepBetween DEF Swept
<1>5. CASE Undo
  <2>1. pc \notin PartialPc /\ UNCHANGED <<partial, roots, dry>>
    BY <1>5 DEF Undo, UndoStart, UndoVerify, UndoRemove, UndoDir, UndoFinish, UndoMark,
         PartialPc
  <2> QED
    BY <1>0, <2>1, SweepBetween DEF Swept
<1>6. CASE Boot \/ BootWrite \/ BootRelease \/ BootReload
  <2>1. /\ pc \notin PartialPc /\ UNCHANGED <<partial, dry>>
        /\ roots' = roots \/ roots' = TRUE
    BY <1>6 DEF Boot, BootWrite, BootRelease, BootReload, PartialPc
  <2> QED
    BY <1>0, <2>1, SweepBetween DEF Swept
<1>7. CASE BootStat
  <2>1. /\ pc \notin PartialPc /\ UNCHANGED <<roots, dry>>
        /\ \E s \in Steps : SetPartial(s, "absent") \/ UNCHANGED partial
    BY <1>2, <1>7 DEF BootStat, PartialPc
  <2>2. Swept => Swept'
    BY <2>1, PartialAt DEF Swept
  <2> QED
    BY <1>0, <2>1, <2>2, SweepBetween
<1>8. CASE Settings \/ UserTouches \/ SourceChanges \/ UNCHANGED vars
  <2>1. UNCHANGED <<pc, cur, mem, partial, dry>> /\ (roots' = roots \/ roots' = TRUE)
    BY <1>3, <1>8 DEF Settings, ScanRegisters, SetDryRun, ReloadReset, ReloadAdd,
         UserTouches, SourceChanges, vars
  <2> QED
    BY <1>1, <2>1 DEF SweepInv
<1>9. CASE Killed \/ PowerLost
  BY <1>3, <1>9 DEF Killed, PowerLost, Die
<1>10. CASE Create
  <2>1. Swept /\ UNCHANGED <<roots, dry>> /\ pc \notin PartialPc
    BY <1>1, <1>10 DEF Create, Swept, PartialPc
  <2>2. CASE SetPartial(cur, "writing") /\ pc' = "copying" /\ UNCHANGED <<cur, mem>>
    BY <1>1, <1>2, <2>1, <2>2, PartialAt DEF SweepInv, Swept, PartialPc
  <2>3. CASE UNCHANGED partial
    BY <1>0, <2>1, <2>3, SweepBetween DEF Swept
  <2> QED
    BY <1>10, <2>2, <2>3 DEF Create
<1>11. CASE CopyEnds \/ Verify \/ Sync
  <2>1. /\ UNCHANGED <<roots, dry, cur, mem>> /\ pc' \in PartialPc
        /\ UNCHANGED partial \/ \E p : SetPartial(cur, p)
    BY <1>11 DEF CopyEnds, Verify, Sync, PartialPc
  <2> QED
    BY <1>1, <1>2, <2>1, PartialAt DEF SweepInv
<1>12. ASSUME SetPartial(cur, "absent"), UNCHANGED <<roots, dry>> PROVE SweepInv'
  BY <1>1, <1>2, <1>12, PartialAt DEF SweepInv
<1>13. CASE CopyFails
  BY <1>1, <1>12, <1>13 DEF CopyFails, Cleanup
<1>14. CASE Publish
  <2>1. CASE pc' = "unlink" /\ UNCHANGED <<mem, partial>>
    BY <1>1, <1>14, <2>1 DEF Publish, SweepInv, PartialPc
  <2>2. CASE SetPartial(cur, "absent")
    BY <1>12, <1>14, <2>2 DEF Publish
  <2> QED
    BY <1>14, <2>1, <2>2 DEF Publish
<1>15. CASE Unlink
  BY <1>1, <1>12, <1>15 DEF Unlink
<1> QED
  BY <1>4, <1>5, <1>6, <1>7, <1>8, <1>9, <1>10, <1>11, <1>13, <1>14, <1>15
  DEF Next, Execute, Startup

\* For every plan: a handler that returns leaves no partial in the library,
\* unless the process died or the guard changed its mind under it.
THEOREM NoPartialLeftHolds == Spec => []NoPartialLeft
<1>1. Init => SweepInv
  <2> SUFFICES ASSUME Init PROVE SweepInv
    OBVIOUS
  <2>1. \A n \in Names : n[1] \in Steps /\ n[2] \in Loc
    BY DEF Names
  <2> QED
    BY <2>1 DEF Init, SweepInv
<1>2. TypeOK /\ SweepInv /\ [Next]_vars => SweepInv'
  BY SweepInvNext
<1>3. SweepInv => NoPartialLeft
  BY DEF SweepInv, NoPartialLeft, PartialPc
<1> QED
  BY <1>1, <1>2, <1>3, TypeCorrect, PTL DEF Spec
-----------------------------------------------------------------------------
(* What done means *)

\* Short of a crash the startup repair has nothing to judge, and what a
\* handler holds or has stored as done was placed; the copy that After is
\* about to store is.
PlacedInv ==
    used["crash"] = 0 =>
      /\ pc \notin {"down"} \cup BootPc
      /\ \A s \in Steps : rows[s].status = "done" => rows[s].created
      /\ \A s \in Steps : mem[s].status = "done" => mem[s].created
      /\ pc = "after" => mem[cur].created

\* A handler that goes on elsewhere than to After, with the rows as they were.
LEMMA PlacedSame ==
    ASSUME TypeOK, [Next]_vars, PlacedInv, UNCHANGED rows,
           mem' = rows' \/ \A s \in Steps : mem'[s] = mem[s] \/ mem'[s].status # "done",
           pc' \notin {"after", "down"} \cup BootPc
    PROVE  PlacedInv'
<1>1. used'["crash"] = 0 => used["crash"] = 0
  BY CountsStay DEF Events
<1> QED
  BY <1>1 DEF PlacedInv

\* A step that fails or is skipped is not held as done.
LEMMA RunFailsPlaced ==
    ASSUME TypeOK, RunFails(cur, mem[cur])
    PROVE  /\ pc' = "record"
           /\ \A s \in Steps : mem'[s] = mem[s] \/ mem'[s].status # "done"
<1>1. cur \in Steps /\ Hold(cur, [mem[cur] EXCEPT !.status = "failed"]) /\ pc' = "record"
  BY DEF TypeOK, RunFails
<1>2. mem'[cur].status = "failed" /\ Others(cur)
  BY <1>1, HoldStatus
<1> QED
  BY <1>1, <1>2 DEF Others

\* The row held of a step that has not been placed is not done.
LEMMA HoldKeepsStatus ==
    ASSUME TypeOK, NEW s \in Steps,
           \/ \E v : Hold(s, [mem[s] EXCEPT !.dst = v])
           \/ \E v : Hold(s, [mem[s] EXCEPT !.dirs = v])
           \/ \E v : Hold(s, [mem[s] EXCEPT !.actual = v, !.created = TRUE])
    PROVE  Others(s) /\ mem'[s].status = mem[s].status
<1>1. mem[s] \in Row
  BY DEF TypeOK
<1>3. ASSUME NEW v, Hold(s, [mem[s] EXCEPT !.dst = v])
      PROVE  Others(s) /\ mem'[s].status = mem[s].status
  <2>1. mem'[s] = [mem[s] EXCEPT !.dst = v] /\ Others(s)
    BY <1>3, HoldKeeps DEF Others
  <2> QED
    BY <1>1, <2>1 DEF Row
<1>4. ASSUME NEW v, Hold(s, [mem[s] EXCEPT !.dirs = v])
      PROVE  Others(s) /\ mem'[s].status = mem[s].status
  <2>1. mem'[s] = [mem[s] EXCEPT !.dirs = v] /\ Others(s)
    BY <1>4, HoldKeeps DEF Others
  <2> QED
    BY <1>1, <2>1 DEF Row
<1>5. ASSUME NEW v, Hold(s, [mem[s] EXCEPT !.actual = v, !.created = TRUE])
      PROVE  Others(s) /\ mem'[s].status = mem[s].status
  <2>1. mem'[s] = [mem[s] EXCEPT !.actual = v, !.created = TRUE] /\ Others(s)
    BY <1>5, HoldKeeps DEF Others
  <2> QED
    BY <1>1, <2>1 DEF Row
<1> QED
  BY <1>3, <1>4, <1>5

\* A row held as placed says so.
LEMMA HoldClaims ==
    ASSUME TypeOK, NEW s \in Steps, NEW v,
           Hold(s, [mem[s] EXCEPT !.actual = v, !.created = TRUE])
    PROVE  mem'[s].created
<1>1. mem[s] \in Row
  BY DEF TypeOK
<1>2. mem'[s] = [mem[s] EXCEPT !.actual = v, !.created = TRUE]
  BY HoldKeeps
<1> QED
  BY <1>1, <1>2 DEF Row

\* Once a file is in place, the row held claims it.
LEMMA PlacedClaims ==
    ASSUME TypeOK, [Next]_vars, PlacedInv, UNCHANGED <<rows, cur>>, pc' = "after",
           NEW v, Hold(cur, [mem[cur] EXCEPT !.actual = v, !.created = TRUE])
    PROVE  PlacedInv'
<1>1. cur \in Steps
  BY DEF TypeOK
<1>2. Others(cur) /\ mem'[cur].status = mem[cur].status /\ mem'[cur].created
  BY <1>1, HoldKeepsStatus, HoldClaims
<1>3. \A s \in Steps : mem'[s] = mem[s] \/ mem'[s].created
  BY <1>2 DEF Others
<1>4. used'["crash"] = 0 => used["crash"] = 0
  BY CountsStay DEF Events
<1>5. "after" \notin {"down"} \cup BootPc
  BY DEF BootPc
<1> QED
  BY <1>2, <1>3, <1>4, <1>5 DEF PlacedInv

LEMMA PlacedInvNext == TypeOK /\ PlacedInv /\ [Next]_vars => PlacedInv'
<1> SUFFICES ASSUME TypeOK, PlacedInv, [Next]_vars, used'["crash"] = 0
             PROVE  PlacedInv'
  BY DEF PlacedInv
<1> USE DEF progVars, outVars, diskVars, confVars
<1>0. used["crash"] = 0 /\ ~Happens("crash")
  BY CountsStay, NotCounted DEF Events
<1>1. /\ pc \notin {"down"} \cup BootPc
      /\ \A s \in Steps : rows[s].status = "done" => rows[s].created
      /\ \A s \in Steps : mem[s].status = "done" => mem[s].created
      /\ pc = "after" => mem[cur].created
  BY <1>0 DEF PlacedInv
<1>2. /\ cur \in Steps /\ mem[cur] \in Row /\ todo \subseteq Steps
      /\ rows \in [Steps -> Row]
  BY DEF TypeOK
<1>3. CASE \/ ExecuteNothingPending \/ ExecuteBlocked \/ Settings \/ UserTouches
           \/ SourceChanges \/ UNCHANGED vars
  <2>1. UNCHANGED <<rows, mem, pc, cur>>
    BY <1>3 DEF ExecuteNothingPending, ExecuteBlocked, Settings, ScanRegisters, SetDryRun,
         ReloadReset, ReloadAdd, UserTouches, SourceChanges, vars
  <2> QED
    BY <1>1, <2>1 DEF PlacedInv
<1>4. CASE ExecuteStart \/ Cancelled \/ Create \/ CopyFails \/ CopyEnds \/ Verify \/ Sync
  <2>1. UNCHANGED rows /\ pc' \notin {"after", "down"} \cup BootPc
    BY <1>4, RunFailsPlaced DEF ExecuteStart, Cancelled, Create, CopyFails, CopyEnds,
         Verify, Sync, BootPc
  <2>2. mem' = rows' \/ mem' = mem \/ RunFails(cur, mem[cur])
    BY <1>4 DEF ExecuteStart, Cancelled, Create, CopyFails, CopyEnds, Verify, Sync
  <2> QED
    BY <2>1, <2>2, RunFailsPlaced, PlacedSame
<1>5. CASE Before
  <2>1. CASE RunFails(cur, mem[cur]) /\ UNCHANGED rows
    BY <2>1, RunFailsPlaced, PlacedSame DEF BootPc
  <2>2. CASE /\ rows' = [rows EXCEPT ![cur] = [rows[cur] EXCEPT
                           !.status = "in_progress", !.dst = mem[cur].dst]]
             /\ Hold(cur, [mem[cur] EXCEPT !.status = "in_progress"])
             /\ pc' = "mkdir"
    <3>1. rows'[cur] = [rows[cur] EXCEPT !.status = "in_progress", !.dst = mem[cur].dst]
          /\ \A s \in Steps \ {cur} : rows'[s] = rows[s]
      BY <1>2, <2>2
    <3>2. rows'[cur].status = "in_progress"
      BY <1>2, <3>1 DEF Row
    <3>3. mem'[cur].status = "in_progress" /\ Others(cur)
      BY <1>2, <2>2, HoldStatus
    <3>4. /\ \A s \in Steps : rows'[s].status = "done" => rows'[s].created
          /\ \A s \in Steps : mem'[s].status = "done" => mem'[s].created
      BY <1>1, <3>1, <3>2, <3>3 DEF Others
    <3> QED
      BY <2>2, <3>4 DEF PlacedInv, BootPc
  <2> QED
    BY <1>5, <2>1, <2>2 DEF Before
<1>6. CASE Mkdir
  <2>1. CASE RunFails(cur, mem[cur])
    BY <1>6, <2>1, RunFailsPlaced, PlacedSame DEF Mkdir, BootPc
  <2>2. CASE Hold(cur, [mem[cur] EXCEPT !.dirs = (dir = "absent")]) /\ pc' = "check"
    <3>1. Others(cur) /\ mem'[cur].status = mem[cur].status /\ mem'[cur].created = mem[cur].created
      BY <1>2, <2>2, HoldKeepsStatus, HoldDirs
    <3> QED
      BY <1>0, <1>1, <1>6, <2>2, <3>1 DEF Mkdir, PlacedInv, Others, BootPc
  <2> QED
    BY <1>6, <2>1, <2>2 DEF Mkdir
<1>7. CASE Check
  <2>1. UNCHANGED rows /\ pc' \notin {"after", "down"} \cup BootPc
    BY <1>2, <1>7, RunNextGoes DEF Check, RunFails, BootPc
  <2>2. CASE RunFails(cur, mem[cur]) \/ UNCHANGED mem
    BY <2>1, <2>2, RunFailsPlaced, PlacedSame
  <2>3. CASE Hold(cur, [mem[cur] EXCEPT !.dst = Suffixed(mem[cur].dst)])
    <3>1. Others(cur) /\ mem'[cur].status = mem[cur].status /\ mem'[cur].created = mem[cur].created
      BY <1>2, <2>3, HoldKeepsStatus, HoldDst
    <3> QED
      BY <1>0, <1>1, <2>1, <3>1 DEF PlacedInv, Others, BootPc
  <2>4. CASE Hold(cur, [mem[cur] EXCEPT !.status = "skipped"])
    <3>1. Others(cur) /\ mem'[cur].status = "skipped"
      BY <1>2, <2>4, HoldStatus
    <3> QED
      BY <2>1, <3>1, PlacedSame DEF Others
  <2> QED
    BY <1>7, <2>2, <2>3, <2>4 DEF Check
<1>8. CASE Link
  <2>1. CASE UNCHANGED mem /\ pc' = "create"
    BY <1>8, <2>1, PlacedSame DEF Link, BootPc
  <2>2. CASE Hold(cur, [mem[cur] EXCEPT !.actual = "hardlink", !.created = TRUE]) /\ pc' = "after"
    BY <1>8, <2>2, PlacedClaims DEF Link
  <2> QED
    BY <1>8, <2>1, <2>2 DEF Link
<1>9. CASE Publish
  <2>1. CASE UNCHANGED mem /\ pc' = "unlink"
    BY <1>9, <2>1, PlacedSame DEF Publish, BootPc
  <2>2. CASE Copied /\ pc' = "after"
    BY <1>9, <2>2, PlacedClaims DEF Publish, Copied
  <2> QED
    BY <1>9, <2>1, <2>2 DEF Publish
<1>10. CASE Unlink
  <2>1. CASE RunFails(cur, mem[cur])
    BY <1>10, <2>1, RunFailsPlaced, PlacedSame DEF Unlink, BootPc
  <2>2. CASE Copied /\ pc' = "after" /\ UNCHANGED cur
    BY <1>10, <2>2, PlacedClaims DEF Unlink, Copied
  <2> QED
    BY <1>10, <2>1, <2>2 DEF Unlink
<1>11. CASE After
  <2>1. CASE RunFails(cur, mem[cur]) /\ UNCHANGED rows
    BY <2>1, RunFailsPlaced, PlacedSame DEF BootPc
  <2>2. CASE /\ Hold(cur, [mem[cur] EXCEPT !.status = "done"])
             /\ rows' = [rows EXCEPT ![cur] = [mem[cur] EXCEPT !.status = "done"]]
             /\ pc' = "append"
    <3>1. Others(cur) /\ mem'[cur].created = mem[cur].created
      BY <1>2, <2>2, HoldStatus
    <3>2. rows'[cur] = mem'[cur] /\ \A s \in Steps \ {cur} : rows'[s] = rows[s]
      BY <1>2, <2>2, HoldKeeps
    <3>3. mem'[cur].created
      BY <1>1, <1>11, <3>1 DEF After
    <3>4. /\ \A s \in Steps : rows'[s].status = "done" => rows'[s].created
          /\ \A s \in Steps : mem'[s].status = "done" => mem'[s].created
      BY <1>1, <3>1, <3>2, <3>3 DEF Others
    <3> QED
      BY <2>2, <3>4 DEF PlacedInv, BootPc
  <2> QED
    BY <1>11, <2>1, <2>2 DEF After
<1>12. CASE AppendFlat
  <2>1. UNCHANGED <<rows, mem>> /\ pc' \in {"record", "before"}
    BY <1>2, <1>12, RunNextGoes DEF AppendFlat
  <2> QED
    BY <2>1, PlacedSame DEF BootPc
<1>13. CASE RecordStep
  <2>1. PICK s \in Steps : WriteRow(s)
    BY <1>2, <1>13 DEF RecordStep
  <2>2. \A u \in Steps : rows'[u] = rows[u] \/ rows'[u] = mem[u]
    BY <1>2, <2>1 DEF WriteRow
  <2> QED
    BY <1>1, <1>13, <2>2 DEF RecordStep, PlacedInv, BootPc
<1>14. CASE Finish \/ MarkFiled
  <2>1. UNCHANGED rows /\ (mem' = rows' \/ mem' = mem) /\ pc' \in {"idle", "mark"}
    BY <1>14 DEF Finish, MarkFiled, Return
  <2> QED
    BY <2>1, PlacedSame DEF BootPc
<1>15. CASE Undo
  <2>1. /\ UNCHANGED rows /\ (mem' = rows' \/ mem' = mem)
        /\ pc' \in {"idle", "undo_verify", "undo_remove", "undo_dir", "undo_finish"}
    BY <1>15 DEF Undo, UndoStart, UndoVerify, UndoRemove, UndoDir, UndoFinish, UndoMark,
         Return
  <2> QED
    BY <2>1, PlacedSame DEF BootPc
<1>16. CASE Startup \/ Killed \/ PowerLost
  BY <1>0, <1>1, <1>16 DEF Startup, Boot, BootStat, BootWrite, BootRelease, BootReload,
       BootPc, Killed, PowerLost, Die
<1> QED
  BY <1>3, <1>4, <1>5, <1>6, <1>7, <1>8, <1>9, <1>10, <1>11, <1>12, <1>13, <1>14, <1>15,
     <1>16 DEF Next, Execute

\* For every plan: short of a crash only a step that placed something is done.
THEOREM DoneStepWasPlacedHolds == Spec => []DoneStepWasPlaced
<1>1. Init => PlacedInv
  <2> SUFFICES ASSUME Init PROVE PlacedInv
    OBVIOUS
  <2>1. \A s \in Steps : rows[s].status = "pending"
    BY DEF Init
  <2>2. mem = rows /\ pc = "idle"
    BY DEF Init
  <2> QED
    BY <2>1, <2>2 DEF PlacedInv, BootPc
<1>2. TypeOK /\ PlacedInv /\ [Next]_vars => PlacedInv'
  BY PlacedInvNext
<1>3. PlacedInv => DoneStepWasPlaced
  BY DEF PlacedInv, DoneStepWasPlaced
<1> QED
  BY <1>1, <1>2, <1>3, TypeCorrect, PTL DEF Spec
-----------------------------------------------------------------------------
(* Rows in progress *)

\* Short of a failed write, the rows in progress are those a handler still has
\* to settle.  Run holds no step but the current one as in progress, so what
\* it records of the others settles them; the repair holds none once it has
\* looked at all of them.
StepPc   == RunPc \cup {"after"}
SettlePc == StepPc \cup {"append", "record", "boot_stat", "boot_write"}
Held == {s \in Steps : mem[s].status = "in_progress"}
ProgressInv ==
    used["fault"] = 0 =>
      /\ pc \notin SettlePc \cup {"down"} => InProgress = {}
      /\ pc \in SettlePc \ {"boot_stat"} => InProgress \subseteq todo
      /\ pc \in StepPc \cup {"append"} => cur \in todo
      /\ pc \in {"before", "append", "record", "boot_write"} => Held = {}
      /\ pc \in StepPc => Held \subseteq {cur}
      /\ pc = "boot_stat" => Held \subseteq todo

\* Nothing that is stored, held or still to do changes, nor the step of Run.
LEMMA ProgressSame ==
    ASSUME TypeOK, [Next]_vars, ProgressInv, UNCHANGED <<rows, mem, cur, todo, pc>>
    PROVE  ProgressInv'
<1>1. used'["fault"] = 0 => used["fault"] = 0
  BY CountsStay DEF Events
<1> QED
  BY <1>1 DEF ProgressInv, InProgress, Held

\* Run goes on at the same step, holding for it what it likes.
LEMMA ProgressInStep ==
    ASSUME TypeOK, [Next]_vars, ProgressInv, pc \in StepPc, pc' \in StepPc \ {"before"},
           Others(cur), UNCHANGED <<cur, todo>>, InProgress' \subseteq InProgress \cup {cur}
    PROVE  ProgressInv'
<1>1. used'["fault"] = 0 => used["fault"] = 0
  BY CountsStay DEF Events
<1>2. pc \in SettlePc \ {"boot_stat"} /\ pc' \in SettlePc \ {"boot_stat"}
  BY DEF SettlePc, StepPc, RunPc
<1>3. pc' \notin {"before", "append", "record", "boot_write", "boot_stat"}
  BY DEF StepPc, RunPc
<1>4. used'["fault"] = 0 =>
        /\ cur \in todo /\ InProgress' \subseteq todo /\ Held' \subseteq {cur}
  BY <1>1, <1>2 DEF ProgressInv, Held, Others
<1> QED
  BY <1>2, <1>3, <1>4 DEF ProgressInv

\* Run leaves the step, which it holds settled.
LEMMA ProgressOnward ==
    ASSUME TypeOK, [Next]_vars, ProgressInv, pc \in StepPc \cup {"append"},
           pc' \in {"before", "append", "record"},
           Others(cur), mem'[cur].status # "in_progress",
           UNCHANGED todo, InProgress' \subseteq InProgress,
           cur' = cur \/ cur' \in todo
    PROVE  ProgressInv'
<1>1. used'["fault"] = 0 => used["fault"] = 0
  BY CountsStay DEF Events
<1>2. pc \in SettlePc \ {"boot_stat"}
  BY DEF SettlePc, StepPc, RunPc
<1>3. used'["fault"] = 0 =>
        /\ cur' \in todo' /\ InProgress' \subseteq todo' /\ Held' = {}
  <2> SUFFICES ASSUME used'["fault"] = 0
               PROVE  cur' \in todo' /\ InProgress' \subseteq todo' /\ Held' = {}
    OBVIOUS
  <2>1. cur' \in todo'
    BY <1>1 DEF ProgressInv
  <2>2. InProgress' \subseteq todo'
    BY <1>1, <1>2 DEF ProgressInv
  <2>3. Held \subseteq {cur}
    BY <1>1 DEF ProgressInv
  <2>4. Held' = {}
    BY <2>3 DEF Held, Others
  <2> QED
    BY <2>1, <2>2, <2>4
<1>4. pc' \in SettlePc \ {"boot_stat"} /\ pc' # "boot_stat"
  BY DEF SettlePc, StepPc, RunPc
<1> QED
  BY <1>3, <1>4 DEF ProgressInv

\* A handler that has no step to settle.
LEMMA ProgressElsewhere ==
    ASSUME TypeOK, [Next]_vars, ProgressInv, UNCHANGED rows,
           pc \notin SettlePc \cup {"down"},
           pc' \notin SettlePc \cup {"down"}
    PROVE  ProgressInv'
<1>1. used'["fault"] = 0 => used["fault"] = 0
  BY CountsStay DEF Events
<1>2. pc' \notin StepPc \cup {"before", "append", "record", "boot_write", "boot_stat"}
  BY DEF SettlePc, StepPc, RunPc
<1> QED
  BY <1>1, <1>2 DEF ProgressInv, InProgress

\* A row written from what the handler holds settled is settled.
LEMMA ProgressWritten ==
    ASSUME TypeOK, [Next]_vars, ProgressInv, used'["fault"] = 0,
           pc \in {"record", "boot_write"}, NEW s \in todo, WriteRow(s),
           UNCHANGED mem, todo' = todo \ {s}
    PROVE  Held' = {} /\ InProgress' \subseteq todo'
<1>1. used["fault"] = 0 /\ ~Happens("fault")
  BY CountsStay, NotCounted DEF Events
<1>2. s \in Steps /\ rows \in [Steps -> Row] /\ mem \in [Steps -> Row]
  BY DEF TypeOK
<1>3. rows'[s] = mem[s] /\ \A u \in Steps \ {s} : rows'[u] = rows[u]
  BY <1>1, <1>2 DEF WriteRow
<1>4. Held = {} /\ InProgress \subseteq todo
  BY <1>1 DEF ProgressInv, SettlePc
<1>5. mem[s].status # "in_progress"
  BY <1>2, <1>4 DEF Held
<1> QED
  BY <1>3, <1>4, <1>5 DEF Held, InProgress

LEMMA ProgressInvNext == TypeOK /\ ProgressInv /\ [Next]_vars => ProgressInv'
<1> SUFFICES ASSUME TypeOK, ProgressInv, [Next]_vars, used'["fault"] = 0
             PROVE  ProgressInv'
  BY DEF ProgressInv
<1> USE DEF progVars, outVars, diskVars, confVars
<1>0. used["fault"] = 0 /\ ~Happens("fault")
  BY CountsStay, NotCounted DEF Events
<1>1. /\ pc \notin SettlePc \cup {"down"} => InProgress = {}
      /\ pc \in SettlePc \ {"boot_stat"} => InProgress \subseteq todo
      /\ pc \in StepPc \cup {"append"} => cur \in todo
      /\ pc \in {"before", "append", "record", "boot_write"} => Held = {}
      /\ pc \in StepPc => Held \subseteq {cur}
      /\ pc = "boot_stat" => Held \subseteq todo
  BY <1>0 DEF ProgressInv
<1>2. /\ cur \in Steps /\ mem[cur] \in Row /\ todo \subseteq Steps
      /\ rows \in [Steps -> Row] /\ mem \in [Steps -> Row]
  BY DEF TypeOK
<1>3. CASE \/ ExecuteNothingPending \/ ExecuteBlocked \/ Settings \/ UserTouches
           \/ SourceChanges \/ UNCHANGED vars
  <2>1. UNCHANGED <<rows, mem, pc, cur, todo>>
    BY <1>3 DEF ExecuteNothingPending, ExecuteBlocked, Settings, ScanRegisters, SetDryRun,
         ReloadReset, ReloadAdd, UserTouches, SourceChanges, vars
  <2> QED
    BY <2>1, ProgressSame
<1>4. CASE ExecuteStart
  <2>1. /\ pc = "idle" /\ pc' = "before" /\ mem' = rows /\ UNCHANGED rows
        /\ cur' \in todo'
    BY <1>4 DEF ExecuteStart, MayExecute
  <2>2. InProgress = {}
    BY <1>1, <2>1 DEF SettlePc, StepPc, RunPc
  <2>3. Held' = {} /\ InProgress' = {}
    BY <2>1, <2>2 DEF Held, InProgress
  <2> QED
    BY <2>1, <2>3 DEF ProgressInv, SettlePc, StepPc, RunPc
<1>5. ASSUME RunFails(cur, mem[cur]), UNCHANGED <<rows, todo>>, pc \in StepPc PROVE ProgressInv'
  <2>1. pc' = "record" /\ cur' = cur
    BY <1>5 DEF RunFails
  <2>2. mem'[cur].status = "failed" /\ Others(cur)
    BY <1>2, <1>5, HoldStatus DEF RunFails
  <2> QED
    BY <1>5, <2>1, <2>2, ProgressOnward DEF InProgress
<1>6. ASSUME Others(cur), UNCHANGED <<rows, todo, cur>>, pc \in StepPc, pc' \in StepPc \ {"before"}
      PROVE  ProgressInv'
  BY <1>6, ProgressInStep DEF InProgress
<1>7. CASE Cancelled
  <2>1. /\ pc = "before" /\ pc' = "record" /\ UNCHANGED <<rows, mem, cur, todo>>
    BY <1>7 DEF Cancelled
  <2>2. mem[cur].status # "in_progress"
    BY <1>1, <1>2, <2>1 DEF Held
  <2> QED
    BY <2>1, <2>2, ProgressOnward DEF InProgress, Others, StepPc, RunPc
<1>8. CASE Before
  <2>1. /\ rows' = [rows EXCEPT ![cur] = [rows[cur] EXCEPT
                      !.status = "in_progress", !.dst = mem[cur].dst]]
        /\ Hold(cur, [mem[cur] EXCEPT !.status = "in_progress"])
        /\ pc = "before" /\ pc' = "mkdir" /\ UNCHANGED <<cur, todo>>
    BY <1>0, <1>8 DEF Before
  <2>2. Others(cur) /\ \A s \in Steps \ {cur} : rows'[s] = rows[s]
    BY <1>2, <2>1, HoldStatus
  <2>3. InProgress' \subseteq InProgress \cup {cur}
    BY <2>2 DEF InProgress
  <2> QED
    BY <2>1, <2>2, <2>3, ProgressInStep DEF StepPc, RunPc
<1>9. CASE Mkdir
  <2>1. pc = "mkdir" /\ pc \in StepPc /\ UNCHANGED <<rows, todo>>
    BY <1>9 DEF Mkdir, StepPc, RunPc
  <2>2. CASE Hold(cur, [mem[cur] EXCEPT !.dirs = (dir = "absent")]) /\ pc' = "check" /\ UNCHANGED cur
    BY <1>2, <1>6, <2>1, <2>2, HoldDirs DEF StepPc, RunPc
  <2> QED
    BY <1>5, <1>9, <2>1, <2>2 DEF Mkdir
<1>10. CASE Check
  <2>1. pc = "check" /\ pc \in StepPc /\ UNCHANGED <<rows, todo>>
    BY <1>10 DEF Check, StepPc, RunPc
  <2>2. CASE UNCHANGED <<mem, cur>> /\ pc' = "link"
    BY <1>6, <2>1, <2>2 DEF StepPc, RunPc, Others
  <2>3. CASE Hold(cur, [mem[cur] EXCEPT !.dst = Suffixed(mem[cur].dst)]) /\ pc' = "link" /\ UNCHANGED cur
    BY <1>2, <1>6, <2>1, <2>3, HoldDst DEF StepPc, RunPc
  <2>4. CASE Hold(cur, [mem[cur] EXCEPT !.status = "skipped"]) /\ RunNext(cur)
    <3>1. Others(cur) /\ mem'[cur].status = "skipped"
      BY <1>2, <2>4, HoldStatus
    <3>2. pc' \in {"record", "before"} /\ (cur' = cur \/ cur' \in todo)
      BY <1>2, <2>4, RunNextGoes
    <3> QED
      BY <2>1, <3>1, <3>2, ProgressOnward DEF InProgress
  <2> QED
    BY <1>5, <1>10, <2>1, <2>2, <2>3, <2>4 DEF Check
<1>11. CASE Link
  <2>1. /\ pc \in StepPc /\ pc' \in StepPc \ {"before"} /\ UNCHANGED <<rows, todo, cur>>
    BY <1>11 DEF Link, StepPc, RunPc
  <2>2. Others(cur)
    BY <1>2, <1>11, HoldPlaced DEF Link, Others
  <2> QED
    BY <1>6, <2>1, <2>2
<1>12. CASE Create
  <2>1. pc \in StepPc /\ UNCHANGED <<rows, todo>>
    BY <1>12 DEF Create, StepPc, RunPc
  <2>2. CASE pc' = "copying" /\ UNCHANGED <<mem, cur>>
    BY <1>6, <2>1, <2>2 DEF Others, StepPc, RunPc
  <2> QED
    BY <1>5, <1>12, <2>1, <2>2 DEF Create
<1>13. CASE CopyFails
  BY <1>5, <1>13 DEF CopyFails, StepPc, RunPc
<1>14. CASE CopyEnds \/ Verify \/ Sync
  BY <1>6, <1>14 DEF CopyEnds, Verify, Sync, StepPc, RunPc, Others
<1>15. CASE Publish
  <2>1. /\ pc \in StepPc /\ pc' \in StepPc \ {"before"} /\ UNCHANGED <<rows, todo, cur>>
    BY <1>15 DEF Publish, StepPc, RunPc
  <2>2. Others(cur)
    BY <1>2, <1>15, HoldPlaced DEF Publish, Copied, Others
  <2> QED
    BY <1>6, <2>1, <2>2
<1>16. CASE Unlink
  <2>1. pc \in StepPc /\ UNCHANGED <<rows, todo>>
    BY <1>16 DEF Unlink, StepPc, RunPc
  <2>2. CASE Copied /\ pc' = "after" /\ UNCHANGED cur
    BY <1>2, <1>6, <2>1, <2>2, HoldPlaced DEF Copied, StepPc, RunPc
  <2> QED
    BY <1>5, <1>16, <2>1, <2>2 DEF Unlink
<1>17. CASE After
  <2>1. /\ pc = "after" /\ pc' = "append" /\ UNCHANGED <<todo, cur>>
        /\ Hold(cur, [mem[cur] EXCEPT !.status = "done"])
        /\ rows' = [rows EXCEPT ![cur] = [mem[cur] EXCEPT !.status = "done"]]
    BY <1>0, <1>17 DEF After
  <2>2. Others(cur) /\ mem'[cur].status = "done"
    BY <1>2, <2>1, HoldStatus
  <2>3. rows'[cur] = mem'[cur] /\ \A s \in Steps \ {cur} : rows'[s] = rows[s]
    BY <1>2, <2>1, HoldKeeps
  <2>4. InProgress' \subseteq InProgress
    BY <2>2, <2>3 DEF InProgress
  <2> QED
    BY <2>1, <2>2, <2>4, ProgressOnward DEF StepPc, RunPc
<1>18. CASE AppendFlat
  <2>1. pc = "append" /\ UNCHANGED <<rows, mem, todo>>
    BY <1>18 DEF AppendFlat
  <2>2. pc' \in {"record", "before"} /\ (cur' = cur \/ cur' \in todo)
    BY <1>2, <1>18, RunNextGoes DEF AppendFlat
  <2>3. mem[cur].status # "in_progress"
    BY <1>1, <1>2, <2>1 DEF Held
  <2> QED
    BY <2>1, <2>2, <2>3, ProgressOnward DEF InProgress, Others
<1>19. CASE RecordStep
  <2>1. PICK s \in todo : WriteRow(s) /\ todo' = todo \ {s}
    BY <1>19 DEF RecordStep
  <2>2. pc = "record" /\ pc' = "record" /\ UNCHANGED mem
    BY <1>19 DEF RecordStep
  <2>3. Held' = {} /\ InProgress' \subseteq todo'
    BY <2>1, <2>2, ProgressWritten
  <2> QED
    BY <2>2, <2>3 DEF ProgressInv, SettlePc, StepPc, RunPc
<1>20. CASE Finish
  <2>1. pc = "record" /\ todo = {} /\ UNCHANGED rows /\ pc' \in {"idle", "mark"}
    BY <1>20 DEF Finish, Return
  <2>2. InProgress' = {}
    BY <1>1, <2>1 DEF SettlePc, InProgress
  <2> QED
    BY <2>1, <2>2 DEF ProgressInv, SettlePc, StepPc, RunPc
<1>21. CASE MarkFiled \/ Undo \/ BootRelease \/ BootReload
  <2>1. /\ UNCHANGED rows
        /\ pc \in {"mark", "idle", "boot_release", "boot_reload"} \cup UndoPc
        /\ pc' \in {"idle", "boot_reload"} \cup UndoPc
    BY <1>21 DEF MarkFiled, Undo, UndoStart, UndoVerify, UndoRemove, UndoDir, UndoFinish,
         UndoMark, BootRelease, BootReload, Return, UndoPc
  <2>2. pc \notin SettlePc \cup {"down"} /\ pc' \notin SettlePc \cup {"down"}
    BY <2>1 DEF UndoPc, SettlePc, StepPc, RunPc
  <2> QED
    BY <2>1, <2>2, ProgressElsewhere
<1>22. CASE Boot
  <2>1. /\ mem' = rows /\ UNCHANGED rows /\ todo' = InProgress
        /\ pc' = IF InProgress = {} THEN "boot_reload" ELSE "boot_stat"
    BY <1>22 DEF Boot
  <2>2. Held' = InProgress /\ InProgress' = InProgress
    BY <2>1 DEF Held, InProgress
  <2> QED
    BY <2>1, <2>2 DEF ProgressInv, SettlePc, StepPc, RunPc
<1>23. CASE BootStat
  <2>1. PICK s \in todo :
          /\ \E v \in {"done", "pending", "blocked"} : Hold(s, [mem[s] EXCEPT !.status = v])
          /\ IF todo = {s} THEN pc' = "boot_write" /\ todo' = InProgress
             ELSE todo' = todo \ {s} /\ UNCHANGED pc
    BY <1>23 DEF BootStat
  <2>2. pc = "boot_stat" /\ UNCHANGED rows
    BY <1>23 DEF BootStat
  <2>3. Others(s) /\ mem'[s].status # "in_progress"
    BY <1>2, <2>1, HoldStatus
  <2>4. Held \subseteq todo
    BY <1>1, <2>2
  <2>5. Held' \subseteq todo \ {s}
    BY <2>3, <2>4 DEF Held, Others
  <2>6. InProgress' = InProgress
    BY <2>2 DEF InProgress
  <2>7. CASE todo = {s}
    BY <2>1, <2>5, <2>6, <2>7 DEF ProgressInv, SettlePc, StepPc, RunPc
  <2>8. CASE todo # {s}
    BY <2>1, <2>2, <2>5, <2>8 DEF ProgressInv, SettlePc, StepPc, RunPc
  <2> QED
    BY <2>7, <2>8
<1>24. CASE BootWrite
  <2>1. PICK s \in todo : /\ WriteRow(s) /\ todo' = todo \ {s}
                        /\ pc' = IF todo = {s} THEN "boot_release" ELSE pc
    BY <1>24 DEF BootWrite
  <2>2. pc = "boot_write" /\ UNCHANGED mem
    BY <1>24 DEF BootWrite
  <2>3. Held' = {} /\ InProgress' \subseteq todo'
    BY <2>1, <2>2, ProgressWritten
  <2>4. pc' = "boot_release" => InProgress' = {}
    BY <2>1, <2>2, <2>3
  <2> QED
    BY <2>1, <2>2, <2>3, <2>4 DEF ProgressInv, SettlePc, StepPc, RunPc
<1>25. CASE Killed \/ PowerLost
  <2>1. pc' = "down"
    BY <1>25 DEF Killed, PowerLost, Die
  <2> QED
    BY <2>1 DEF ProgressInv, SettlePc, StepPc, RunPc
<1> QED
  BY <1>3, <1>4, <1>7, <1>8, <1>9, <1>10, <1>11, <1>12, <1>13, <1>14, <1>15, <1>16,
     <1>17, <1>18, <1>19, <1>20, <1>21, <1>22, <1>23, <1>24, <1>25
  DEF Next, Execute, Startup

\* For every plan, whatever crashes: short of a failed write no row is left in
\* progress when no handler is running.
THEOREM NoRowLeftInProgressHolds == Spec => []NoRowLeftInProgress
<1>1. Init => ProgressInv
  <2> SUFFICES ASSUME Init PROVE ProgressInv
    OBVIOUS
  <2>1. \A s \in Steps : rows[s].status = "pending"
    BY DEF Init
  <2>2. mem = rows /\ pc = "idle"
    BY DEF Init
  <2>3. InProgress = {}
    BY <2>1 DEF InProgress
  <2> QED
    BY <2>2, <2>3 DEF ProgressInv, SettlePc, StepPc, RunPc
<1>2. TypeOK /\ ProgressInv /\ [Next]_vars => ProgressInv'
  BY ProgressInvNext
<1>3. ProgressInv => NoRowLeftInProgress
  BY DEF ProgressInv, NoRowLeftInProgress, InProgress, SettlePc, StepPc, RunPc
<1> QED
  BY <1>1, <1>2, <1>3, TypeCorrect, PTL DEF Spec
-----------------------------------------------------------------------------
(* Files of ours *)

\* What changing one name does to each.
LEMMA FileAt ==
    ASSUME TypeOK, NEW s \in Steps, NEW l \in Loc, NEW f,
           files' = [files EXCEPT ![s][l] = f], NEW n \in Names
    PROVE  At(n)' = IF n = <<s, l>> THEN f ELSE At(n)
<1>1. files \in [Steps -> [Loc -> File]]
  BY DEF TypeOK
<1> QED
  BY <1>1 DEF At, Names

\* A file of ours appears in one step only, at the name of the step under way.
Placing == Link \/ Publish
Current == <<cur, mem[cur].dst>>
LEMMA OursAppear ==
    ASSUME TypeOK, [Next]_vars, NEW n \in Names, At(n)' \in OurFile
    PROVE  At(n) \in OurFile \/ (Placing /\ n = Current)
<1>0. "absent" \notin OurFile /\ \A f \in UserFile : f \notin OurFile
  BY DEF OurFile, UserFile
<1>1. cur \in Steps /\ todo \subseteq Steps /\ \A s \in Steps : mem[s].dst \in Loc
  BY DstInLoc DEF TypeOK
<1>2. CASE UNCHANGED files
  BY <1>2 DEF At
<1>3. CASE Link \/ Publish
  <2>1. UNCHANGED files \/ \E f : files' = [files EXCEPT ![cur][mem[cur].dst] = f]
    BY <1>3 DEF Link, Publish, Put
  <2> QED
    BY <1>1, <1>2, <1>3, <2>1, FileAt DEF Placing, Current
<1>4. CASE UndoRemove \/ BootStat
  <2>1. PICK s \in Steps : \/ files' = [files EXCEPT ![s][mem[s].dst] = "absent"]
                          \/ UNCHANGED files
    BY <1>1, <1>4 DEF UndoRemove, BootStat
  <2> QED
    BY <1>0, <1>1, <1>2, <2>1, FileAt
<1>5. CASE UserTouches
  <2>1. PICK s \in Steps, l \in Loc, f \in UserFile \cup {"absent"} :
          files' = [files EXCEPT ![s][l] = f]
    BY <1>5 DEF UserTouches
  <2> QED
    BY <1>0, <2>1, FileAt
<1>6. CASE PowerLost
  <2>1. n[1] \in Steps /\ n[2] \in Loc
    BY DEF Names
  <2>2. At(n)' = IF At(n) = "unsynced" THEN "torn" ELSE At(n)
    BY <1>6, <2>1 DEF PowerLost, At
  <2> QED
    BY <2>2 DEF OurFile
<1>7. CASE UNCHANGED vars
  BY <1>2, <1>7 DEF vars, diskVars
<1> QED
  BY <1>2, <1>3, <1>4, <1>5, <1>6, <1>7, FilesChange

-----------------------------------------------------------------------------
(* What Undo leaves *)

\* A row whose claim stands for no file of ours any more.
Gone(s) == rows[s].created => files[s][rows[s].dst] \notin OurFile

\* While Rollback has met no error, what it has gone through is gone, and so is
\* the step whose directory it is about to remove.  An undone plan has no
\* handler at work but one that startup brings: it can place nothing, and the
\* repair keeps what a row claims.
UndoneInv ==
    /\ pc \in UndoLoop /\ ~failed => \A s \in Steps \ todo : Gone(s)
    /\ pc = "undo_dir" => \A s \in todo : Last(s, todo) => Gone(s)
    /\ pc = "undo_finish" => \A s \in Steps : Gone(s)
    /\ planStatus = "undone" => /\ pc \in {"idle", "down", "undo_finish"} \cup BootPc
                                /\ \A s \in Steps : Gone(s)
    /\ pc \in {"boot_stat", "boot_write"} =>
         \A s \in Steps : mem[s].created = rows[s].created /\ mem[s].dst = rows[s].dst

\* What is gone stays gone while the rows stand and nothing is placed.
LEMMA GoneStays ==
    ASSUME TypeOK, [Next]_vars, UNCHANGED rows, ~Placing
    PROVE  \A s \in Steps : Gone(s) => Gone(s)'
<1> SUFFICES ASSUME NEW s \in Steps, Gone(s), rows'[s].created,
                    files'[s][rows'[s].dst] \in OurFile
             PROVE  FALSE
  BY DEF Gone
<1>1. rows[s].dst \in Loc
  BY RowFields DEF TypeOK
<1>2. <<s, rows[s].dst>> \in Names
  BY <1>1 DEF Names
<1>3. /\ At(<<s, rows[s].dst>>)' = files'[s][rows[s].dst]
      /\ At(<<s, rows[s].dst>>) = files[s][rows[s].dst]
  <2>1. rows'[s] = rows[s]
    OBVIOUS
  <2> QED
    BY <2>1 DEF At
<1>4. files[s][rows[s].dst] \in OurFile
  BY <1>2, <1>3, OursAppear
<1> QED
  BY <1>4 DEF Gone

\* A handler that is neither undoing nor starting up, of a plan not undone.
LEMMA UndoneElsewhere ==
    ASSUME planStatus' # "undone",
           pc' \notin UndoLoop \cup {"undo_finish", "boot_stat", "boot_write"}
    PROVE  UndoneInv'
BY DEF UndoneInv, UndoLoop

\* Only one step is the last.
LEMMA OneLast ==
    ASSUME TypeOK, NEW s \in todo, NEW t \in todo, Last(s, todo), Last(t, todo)
    PROVE  s = t
<1>1. s \in Int /\ t \in Int
  BY TodoInSteps DEF Steps
<1> QED
  BY <1>1 DEF Last

LEMMA UndoneInvNext ==
    TypeOK /\ HandlerInv /\ UndoneInv /\ [Next]_vars => UndoneInv'
<1> SUFFICES ASSUME TypeOK, HandlerInv, UndoneInv, [Next]_vars PROVE UndoneInv'
  OBVIOUS
<1> USE DEF progVars, outVars, diskVars, confVars
<1>0. /\ cur \in Steps /\ todo \subseteq Steps /\ rows \in [Steps -> Row]
      /\ mem \in [Steps -> Row] /\ \A s \in Steps : mem[s].dst \in Loc
  BY DstInLoc DEF TypeOK
<1>1. ASSUME pc \in ExecPc, planStatus' \in {planStatus, "failed", "partial", "done"},
             pc' \in ExecPc \cup {"idle"}
      PROVE  UndoneInv'
  <2>1. pc \notin {"idle", "down", "undo_finish"} \cup BootPc
    BY <1>1 DEF ExecPc, BootPc
  <2>2. planStatus' # "undone"
    BY <1>1, <2>1 DEF UndoneInv
  <2>3. pc' \notin UndoLoop \cup {"undo_finish", "boot_stat", "boot_write"}
    BY <1>1 DEF ExecPc, UndoLoop
  <2> QED
    BY <2>2, <2>3, UndoneElsewhere
<1>2. CASE ExecuteNothingPending \/ ExecuteBlocked \/ ExecuteStart
  <2>1. planStatus' # "undone" /\ pc' \in {"idle", "before"}
    BY <1>2 DEF ExecuteNothingPending, ExecuteBlocked, ExecuteStart, MayExecute
  <2> QED
    BY <2>1, UndoneElsewhere DEF UndoLoop
<1>3. CASE \/ Cancelled \/ Before \/ Mkdir \/ Check \/ Link \/ Create \/ CopyFails
           \/ CopyEnds \/ Verify \/ Sync \/ Publish \/ Unlink
  <2>1. pc \in ExecPc /\ planStatus' = planStatus
    BY <1>3 DEF Cancelled, Before, Mkdir, Check, Link, Create, CopyFails, CopyEnds, Verify,
         Sync, Publish, Unlink, ExecPc
  <2>2. pc' \in ExecPc
    BY <1>0, <1>3, RunNextGoes DEF Cancelled, Before, Mkdir, Check, Link, Create, CopyFails,
         CopyEnds, Verify, Sync, Publish, Unlink, RunFails, ExecPc
  <2> QED
    BY <1>1, <2>1, <2>2
<1>4. CASE After \/ AppendFlat \/ RecordStep \/ Finish \/ MarkFiled
  <2>1. pc \in ExecPc /\ planStatus' \in {planStatus, "failed", "partial", "done"}
    BY <1>4 DEF After, AppendFlat, RecordStep, Finish, MarkFiled, WriteStatus, ExecPc
  <2>2. pc' \in ExecPc \cup {"idle"}
    BY <1>0, <1>4, RunNextGoes DEF After, AppendFlat, RecordStep, Finish, MarkFiled, RunFails,
         Return, ExecPc
  <2> QED
    BY <1>1, <2>1, <2>2
<1>5. CASE UndoStart
  <2>1. /\ planStatus' # "undone" /\ todo' = Ours /\ UNCHANGED rows /\ pc' = "undo_verify"
    BY <1>5 DEF UndoStart
  <2>2. \A s \in Steps \ todo' : Gone(s)'
    BY <2>1 DEF Ours, Gone
  <2> QED
    BY <2>1, <2>2 DEF UndoneInv
<1>6. CASE UndoVerify \/ UndoRemove \/ UndoDir \/ UndoFinish \/ UndoMark
  <2>0. ~Placing /\ UNCHANGED rows
    BY <1>6 DEF UndoVerify, UndoRemove, UndoDir, UndoFinish, UndoMark, Placing, Link, Publish
  <2>1. \A s \in Steps : Gone(s) => Gone(s)'
    BY <2>0, GoneStays
  <2>2. CASE UndoVerify \/ UndoRemove \/ UndoDir
    <3>1. /\ pc \in UndoLoop /\ pc' \in UndoLoop /\ planStatus' = planStatus
          /\ planStatus # "undone"
      <4>1. pc \in UndoLoop /\ pc' \in UndoLoop /\ planStatus' = planStatus
        BY <2>2 DEF UndoVerify, UndoRemove, UndoDir, UndoLoop
      <4>2. pc \notin {"idle", "down", "undo_finish"} \cup BootPc
        BY <4>1 DEF UndoLoop, BootPc
      <4> QED
        BY <4>1, <4>2 DEF UndoneInv
    <3>2. mem = rows
      BY <3>1 DEF HandlerInv
    <3>3. ~failed => \A s \in Steps \ todo : Gone(s)'
      BY <2>1, <3>1 DEF UndoneInv
    <3>4. PICK s \in todo : Last(s, todo) /\ s \in Steps
      BY <1>0, <2>2 DEF UndoVerify, UndoRemove, UndoDir
    <3>5. \A t \in todo : Last(t, todo) => t = s
      BY <3>4, OneLast
    <3>6. CASE failed' = TRUE /\ pc' # "undo_dir"
      BY <3>1, <3>6 DEF UndoneInv, UndoLoop, BootPc
    <3>7. ASSUME Gone(s)', pc' = "undo_dir", UNCHANGED <<todo, failed>> PROVE UndoneInv'
      BY <3>1, <3>3, <3>5, <3>7 DEF UndoneInv, UndoLoop, BootPc
    <3>8. CASE UndoVerify
      <4>1. CASE ~Exists(s) /\ pc' = "undo_dir" /\ UNCHANGED <<todo, failed>>
        <5>1. UNCHANGED <<files, rows>> /\ files[s][rows[s].dst] = "absent"
          BY <3>2, <3>8, <4>1 DEF UndoVerify, Exists
        <5>2. Gone(s)'
          BY <5>1 DEF Gone, OurFile
        <5> QED
          BY <3>7, <4>1, <5>2
      <4>2. CASE pc' = "undo_remove" /\ UNCHANGED <<todo, failed>>
        BY <3>1, <3>3, <4>2 DEF UndoneInv, UndoLoop, BootPc
      <4>3. CASE failed' = TRUE /\ UNCHANGED pc
        BY <3>6, <3>8, <4>3 DEF UndoVerify
      <4> QED
        BY <3>5, <3>8, <4>1, <4>2, <4>3 DEF UndoVerify
    <3>9. CASE UndoRemove
      <4>1. CASE /\ files' = [files EXCEPT ![s][mem[s].dst] = "absent"]
                 /\ pc' = "undo_dir" /\ UNCHANGED <<todo, failed>>
        <5>1. files'[s][rows[s].dst] = "absent"
          BY <1>0, <3>2, <3>4, <4>1 DEF TypeOK
        <5>2. Gone(s)'
          BY <2>0, <5>1 DEF Gone, OurFile
        <5> QED
          BY <3>7, <4>1, <5>2
      <4>2. CASE failed' = TRUE /\ pc' = "undo_verify"
        BY <3>6, <4>2
      <4> QED
        BY <3>5, <3>9, <4>1, <4>2 DEF UndoRemove
    <3>10. CASE UndoDir
      <4>1. /\ pc = "undo_dir" /\ pc' = "undo_verify" /\ todo' = todo \ {s}
            /\ ~failed' => ~failed
        BY <3>5, <3>10 DEF UndoDir
      <4>2. Gone(s)'
        BY <2>1, <3>4, <4>1 DEF UndoneInv
      <4>3. ~failed' => \A t \in Steps \ todo' : Gone(t)'
        BY <3>3, <4>1, <4>2
      <4> QED
        BY <3>1, <4>1, <4>3 DEF UndoneInv, BootPc
    <3> QED
      BY <2>2, <3>8, <3>9, <3>10
  <2>3. CASE UndoFinish
    <3>1. planStatus # "undone" /\ pc = "undo_verify" /\ todo = {}
      BY <2>3 DEF UndoFinish, UndoneInv, BootPc
    <3>2. CASE failed /\ WriteStatus("undo_failed") /\ Return
      <4>1. planStatus' # "undone" /\ pc' = "idle"
        BY <3>1, <3>2 DEF WriteStatus, Return
      <4> QED
        BY <4>1, UndoneElsewhere DEF UndoLoop
    <3>3. CASE ~failed /\ pc' = "undo_finish"
      <4>1. \A s \in Steps : Gone(s)'
        BY <2>1, <3>1, <3>3 DEF UndoneInv, UndoLoop
      <4> QED
        BY <3>3, <4>1 DEF UndoneInv, UndoLoop
    <3> QED
      BY <2>3, <3>2, <3>3 DEF UndoFinish
  <2>4. CASE UndoMark
    <3>1. pc' = "idle" /\ \A s \in Steps : Gone(s)'
      BY <2>1, <2>4 DEF UndoMark, Return, UndoneInv
    <3> QED
      BY <3>1 DEF UndoneInv, UndoLoop
  <2> QED
    BY <1>6, <2>2, <2>3, <2>4
<1>7. CASE Killed \/ PowerLost
  <2>1. /\ UNCHANGED <<rows, planStatus>> /\ pc' = "down" /\ pc' # pc
    BY <1>7 DEF Killed, PowerLost, Die
  <2>2. ~Placing
    BY <2>1 DEF Placing, Link, Publish
  <2>3. \A s \in Steps : Gone(s) => Gone(s)'
    BY <2>1, <2>2, GoneStays
  <2> QED
    BY <2>1, <2>3 DEF UndoneInv, UndoLoop
<1>8. CASE Boot \/ BootStat \/ BootRelease \/ BootReload
  <2>1. /\ UNCHANGED rows /\ pc' \in {"idle"} \cup BootPc
        /\ planStatus' = "undone" => planStatus = "undone"
    BY <1>8 DEF Boot, BootStat, BootRelease, BootReload, Return, BootPc
  <2>2. ~Placing
    BY <1>8 DEF Boot, BootStat, BootRelease, BootReload, Placing, Link, Publish
  <2>3. \A s \in Steps : Gone(s) => Gone(s)'
    BY <2>1, <2>2, GoneStays
  <2>4. pc' \in {"boot_stat", "boot_write"} =>
          \A s \in Steps : mem'[s].created = rows'[s].created /\ mem'[s].dst = rows'[s].dst
    <3>1. CASE Boot
      BY <3>1 DEF Boot
    <3>2. CASE BootStat
      <4>1. PICK s \in Steps, v \in StepStatus : Hold(s, [mem[s] EXCEPT !.status = v])
        BY <1>0, <3>2 DEF BootStat, StepStatus
      <4>2. /\ Others(s) /\ mem'[s].created = mem[s].created /\ mem'[s].dst = mem[s].dst
        BY <4>1, HoldStatus
      <4>3. pc = "boot_stat"
        BY <3>2 DEF BootStat
      <4> QED
        BY <2>1, <4>2, <4>3 DEF UndoneInv, Others
    <3>3. CASE BootRelease \/ BootReload
      BY <3>3 DEF BootRelease, BootReload, Return
    <3> QED
      BY <1>8, <3>1, <3>2, <3>3
  <2>5. pc' \notin UndoLoop \cup {"undo_finish"}
    BY <2>1 DEF UndoLoop, BootPc
  <2> QED
    BY <2>1, <2>3, <2>4, <2>5 DEF UndoneInv, UndoLoop
<1>9. CASE BootWrite
  <2>1. PICK s \in Steps : WriteRow(s)
    BY <1>0, <1>9 DEF BootWrite
  <2>2. /\ pc = "boot_write" /\ pc' \in {"boot_write", "boot_release"}
        /\ UNCHANGED <<mem, planStatus, files>>
    BY <1>9 DEF BootWrite
  <2>3. \A u \in Steps : rows'[u] = rows[u] \/ rows'[u] = mem[u]
    BY <1>0, <2>1 DEF WriteRow
  <2>4. \A u \in Steps : rows'[u].created = rows[u].created /\ rows'[u].dst = rows[u].dst
    BY <2>2, <2>3 DEF UndoneInv
  <2>5. \A u \in Steps : Gone(u) => Gone(u)'
    BY <2>2, <2>4 DEF Gone
  <2> QED
    BY <2>2, <2>4, <2>5 DEF UndoneInv, UndoLoop, BootPc
<1>10. CASE Settings \/ UserTouches \/ SourceChanges \/ UNCHANGED vars
  <2>1. UNCHANGED <<rows, mem, pc, todo, failed, planStatus>>
    BY <1>10 DEF Settings, ScanRegisters, SetDryRun, ReloadReset, ReloadAdd,
         UserTouches, SourceChanges, vars
  <2>2. ~Placing
    BY <2>1 DEF Placing, Link, Publish
  <2>3. \A s \in Steps : Gone(s) => Gone(s)'
    BY <2>1, <2>2, GoneStays
  <2> QED
    BY <1>0, <2>1, <2>3 DEF UndoneInv
<1> QED
  BY <1>2, <1>3, <1>4, <1>5, <1>6, <1>7, <1>8, <1>9, <1>10
  DEF Next, Execute, Undo, Startup

\* For every plan, whatever fails or crashes: an undone plan has left nothing
\* behind that its rows still claim.
THEOREM UndoneLeavesNothingClaimedHolds == Spec => []UndoneLeavesNothingClaimed
<1>1. Init => HandlerInv /\ UndoneInv
  BY InvInit DEF Init, UndoneInv, UndoLoop
<1>2. TypeOK /\ HandlerInv /\ UndoneInv /\ [Next]_vars => HandlerInv' /\ UndoneInv'
  BY HandlerInvNext, UndoneInvNext
<1>3. UndoneInv => UndoneLeavesNothingClaimed
  BY DEF UndoneInv, UndoneLeavesNothingClaimed, Gone
<1> QED
  BY <1>1, <1>2, <1>3, TypeCorrect, PTL DEF Spec
-----------------------------------------------------------------------------
(* What a mishap costs *)

\* A row that is done is left alone: Run and the repair work on others, and
\* what they hold of it, and may write back, is what is stored.
KeptInv ==
    /\ \A s \in Steps : rows[s].status = "done" => mem[s] = rows[s]
    /\ pc \in StepPc => rows[cur].status # "done"
    /\ pc \in StepPc \cup {"append"} =>
         \A s \in todo : s > cur => rows[s].status # "done"
    /\ pc = "after" => mem[cur].created
    /\ pc = "boot_stat" => todo \subseteq InProgress

\* A handler that returns, or starts on the rows as they are stored.
LEMMA KeptFresh ==
    ASSUME mem' = rows', pc' \notin StepPc \cup {"append", "boot_stat"}
    PROVE  KeptInv'
BY DEF KeptInv, StepPc

\* Nothing that is stored, held or still to do changes, nor the step of Run.
LEMMA KeptSame ==
    ASSUME KeptInv, UNCHANGED <<rows, mem, cur, todo, pc>>
    PROVE  KeptInv'
BY DEF KeptInv, InProgress

\* A step of Run, before its row is done.
LEMMA KeptRun ==
    ASSUME TypeOK, KeptInv, pc \in StepPc, UNCHANGED todo, Others(cur),
           \A s \in Steps \ {cur} : rows'[s] = rows[s],
           rows'[cur].status # "done",
           pc' \in StepPc \cup {"record"},
           cur' = cur \/ (cur' \in todo /\ cur' > cur),
           pc' = "after" => cur' = cur /\ mem'[cur].created
    PROVE  KeptInv'
<1>1. cur \in Steps /\ todo \subseteq Steps /\ \A s \in Steps : s \in Int
  BY DEF TypeOK, Steps
<1>2. \A s \in Steps : rows'[s].status = "done" => mem'[s] = rows'[s]
  BY DEF KeptInv, Others
<1>3. \A s \in todo : s > cur => rows'[s].status # "done"
  BY <1>1 DEF KeptInv
<1>4. cur' \in Steps /\ rows'[cur'].status # "done"
  BY <1>1, <1>3
<1>5. \A s \in todo' : s > cur' => rows'[s].status # "done"
  BY <1>1, <1>3
<1>6. pc' # "boot_stat" /\ pc' # "append"
  BY DEF StepPc, RunPc
<1>7. pc' = "after" => mem'[cur'].created
  OBVIOUS
<1> QED
  BY <1>2, <1>4, <1>5, <1>6, <1>7 DEF KeptInv

\* A row written from what the handler holds is what the handler holds.
LEMMA KeptWritten ==
    ASSUME TypeOK, KeptInv, NEW s \in Steps, WriteRow(s), UNCHANGED mem,
           pc' \in {"record", "boot_write", "boot_release"}
    PROVE  /\ KeptInv'
           /\ \A u \in Steps : rows[u].status = "done" => rows'[u] = rows[u]
<1>1. \A u \in Steps : rows'[u] = rows[u] \/ rows'[u] = mem[u]
  BY DEF WriteRow, TypeOK
<1>2. \A u \in Steps : rows'[u].status = "done" => mem'[u] = rows'[u]
  BY <1>1 DEF KeptInv
<1>3. \A u \in Steps : rows[u].status = "done" => rows'[u] = rows[u]
  BY <1>1 DEF KeptInv
<1> QED
  BY <1>2, <1>3 DEF KeptInv, StepPc, RunPc

\* A step of Run that writes no row.
LEMMA KeptUnwritten ==
    ASSUME TypeOK, KeptInv, pc \in StepPc, UNCHANGED <<rows, todo>>, Others(cur),
           pc' \in StepPc \cup {"record"},
           cur' = cur \/ (cur' \in todo /\ cur' > cur),
           pc' = "after" => cur' = cur /\ mem'[cur].created
    PROVE  KeptInv'
<1>1. rows'[cur].status # "done"
  BY DEF KeptInv
<1> QED
  BY <1>1, KeptRun

LEMMA KeptFails ==
    ASSUME TypeOK, KeptInv, pc \in StepPc, UNCHANGED <<rows, todo>>,
           RunFails(cur, mem[cur])
    PROVE  KeptInv'
BY RunFailsGoes, KeptUnwritten

LEMMA KeptInvNext == TypeOK /\ KeptInv /\ [Next]_vars => KeptInv'
<1> SUFFICES ASSUME TypeOK, KeptInv, [Next]_vars PROVE KeptInv'
  OBVIOUS
<1> USE DEF progVars, outVars, diskVars, confVars
<1>1. /\ cur \in Steps /\ mem[cur] \in Row /\ todo \subseteq Steps
      /\ rows \in [Steps -> Row] /\ mem \in [Steps -> Row]
  BY DEF TypeOK
<1>2. CASE \/ ExecuteNothingPending \/ ExecuteBlocked \/ Settings \/ UserTouches
           \/ SourceChanges \/ UNCHANGED vars
  <2>1. UNCHANGED <<rows, mem, pc, cur, todo>>
    BY <1>2 DEF ExecuteNothingPending, ExecuteBlocked, Settings, ScanRegisters, SetDryRun,
         ReloadReset, ReloadAdd, UserTouches, SourceChanges, vars
  <2> QED
    BY <2>1, KeptSame
<1>3. CASE ExecuteStart
  <2>1. /\ pc' = "before" /\ mem' = rows /\ UNCHANGED rows /\ cur' \in Pending
        /\ todo' = Pending
    BY <1>3 DEF ExecuteStart
  <2> QED
    BY <2>1 DEF KeptInv, Pending, StepPc
<1>4. CASE Cancelled
  BY <1>4, KeptUnwritten DEF Cancelled, StepPc, RunPc, Others
<1>5. CASE Before
  <2>1. pc \in StepPc /\ UNCHANGED todo
    BY <1>5 DEF Before, StepPc, RunPc
  <2>2. CASE /\ rows' = [rows EXCEPT ![cur] = [rows[cur] EXCEPT
                           !.status = "in_progress", !.dst = mem[cur].dst]]
             /\ Hold(cur, [mem[cur] EXCEPT !.status = "in_progress"])
             /\ pc' = "mkdir" /\ UNCHANGED cur
    <3>1. rows'[cur] = [rows[cur] EXCEPT !.status = "in_progress", !.dst = mem[cur].dst]
          /\ \A s \in Steps \ {cur} : rows'[s] = rows[s]
      BY <1>1, <2>2
    <3>2. rows'[cur].status = "in_progress"
      BY <1>1, <3>1 DEF Row
    <3>3. Others(cur)
      BY <1>1, <2>2, HoldStatus
    <3> QED
      BY <2>1, <2>2, <3>1, <3>2, <3>3, KeptRun DEF StepPc, RunPc
  <2> QED
    BY <1>5, <2>1, <2>2, KeptFails DEF Before
<1>6. CASE Mkdir
  <2>1. pc \in StepPc /\ UNCHANGED <<rows, todo>>
    BY <1>6 DEF Mkdir, StepPc, RunPc
  <2>2. CASE Hold(cur, [mem[cur] EXCEPT !.dirs = (dir = "absent")]) /\ pc' = "check" /\ UNCHANGED cur
    BY <1>1, <2>1, <2>2, HoldDirs, KeptUnwritten DEF StepPc, RunPc
  <2> QED
    BY <1>6, <2>1, <2>2, KeptFails DEF Mkdir
<1>7. CASE Check
  <2>1. pc \in StepPc /\ UNCHANGED <<rows, todo>>
    BY <1>7 DEF Check, StepPc, RunPc
  <2>2. CASE UNCHANGED <<mem, cur>> /\ pc' = "link"
    BY <2>1, <2>2, KeptUnwritten DEF StepPc, RunPc, Others
  <2>3. CASE Hold(cur, [mem[cur] EXCEPT !.dst = Suffixed(mem[cur].dst)]) /\ pc' = "link" /\ UNCHANGED cur
    BY <1>1, <2>1, <2>3, HoldDst, KeptUnwritten DEF StepPc, RunPc
  <2>4. CASE Hold(cur, [mem[cur] EXCEPT !.status = "skipped"]) /\ RunNext(cur)
    <3>1. Others(cur)
      BY <1>1, <2>4, HoldStatus
    <3>2. /\ pc' \in {"record", "before"}
          /\ cur' = cur \/ (cur' \in todo /\ cur' > cur)
      BY <1>1, <2>4, RunNextGoes
    <3> QED
      BY <2>1, <3>1, <3>2, KeptUnwritten DEF StepPc, RunPc
  <2> QED
    BY <1>7, <2>1, <2>2, <2>3, <2>4, KeptFails DEF Check
<1>8. CASE Link
  <2>1. pc \in StepPc /\ UNCHANGED <<rows, todo, cur>>
    BY <1>8 DEF Link, StepPc, RunPc
  <2>2. CASE UNCHANGED mem /\ pc' = "create"
    BY <2>1, <2>2, KeptUnwritten DEF StepPc, RunPc, Others
  <2>3. CASE Hold(cur, [mem[cur] EXCEPT !.actual = "hardlink", !.created = TRUE]) /\ pc' = "after"
    <3>1. Others(cur) /\ mem'[cur].created
      BY <1>1, <2>3, HoldPlaced, HoldClaims
    <3> QED
      BY <2>1, <2>3, <3>1, KeptUnwritten DEF StepPc
  <2> QED
    BY <1>8, <2>2, <2>3 DEF Link
<1>9. CASE Create \/ CopyFails \/ CopyEnds \/ Verify \/ Sync
  <2>1. pc \in StepPc /\ UNCHANGED <<rows, todo>>
    BY <1>9 DEF Create, CopyFails, CopyEnds, Verify, Sync, StepPc, RunPc
  <2>2. CASE UNCHANGED <<mem, cur>> /\ pc' \in RunPc
    BY <2>1, <2>2, KeptUnwritten DEF StepPc, RunPc, Others
  <2> QED
    BY <1>9, <2>1, <2>2, KeptFails DEF Create, CopyFails, CopyEnds, Verify, Sync, RunPc
<1>10. ASSUME Copied, pc' = "after", UNCHANGED <<rows, todo, cur>>, pc \in StepPc
       PROVE  KeptInv'
  <2>1. Others(cur) /\ mem'[cur].created
    BY <1>1, <1>10, HoldPlaced, HoldClaims DEF Copied
  <2> QED
    BY <1>10, <2>1, KeptUnwritten DEF StepPc
<1>11. CASE Publish
  <2>1. pc \in StepPc /\ UNCHANGED <<rows, todo, cur>>
    BY <1>11 DEF Publish, StepPc, RunPc
  <2>2. CASE UNCHANGED mem /\ pc' = "unlink"
    BY <2>1, <2>2, KeptUnwritten DEF StepPc, RunPc, Others
  <2> QED
    BY <1>10, <1>11, <2>1, <2>2 DEF Publish
<1>12. CASE Unlink
  <2>1. pc \in StepPc /\ UNCHANGED <<rows, todo>>
    BY <1>12 DEF Unlink, StepPc, RunPc
  <2> QED
    BY <1>10, <1>12, <2>1, KeptFails DEF Unlink
<1>13. CASE After
  <2>1. pc = "after" /\ pc \in StepPc /\ UNCHANGED todo
    BY <1>13 DEF After, StepPc
  <2>2. CASE /\ Hold(cur, [mem[cur] EXCEPT !.status = "done"])
             /\ rows' = [rows EXCEPT ![cur] = [mem[cur] EXCEPT !.status = "done"]]
             /\ pc' = "append" /\ UNCHANGED cur
    <3>1. rows'[cur] = mem'[cur] /\ \A s \in Steps \ {cur} : rows'[s] = rows[s]
      BY <1>1, <2>2, HoldKeeps
    <3>2. Others(cur)
      BY <1>1, <2>2, HoldStatus
    <3>3. \A s \in Steps : rows'[s].status = "done" => mem'[s] = rows'[s]
      BY <3>1, <3>2 DEF KeptInv, Others
    <3>4. \A s \in todo : s > cur => rows'[s].status # "done"
      <4>1. \A s \in todo : s > cur => s # cur
        BY <1>1 DEF Steps
      <4> QED
        BY <1>1, <2>1, <3>1, <4>1 DEF KeptInv
    <3> QED
      BY <2>1, <2>2, <3>3, <3>4 DEF KeptInv, StepPc, RunPc
  <2> QED
    BY <1>13, <2>1, <2>2, KeptFails DEF After
<1>14. CASE AppendFlat
  <2>1. pc = "append" /\ UNCHANGED <<rows, mem, todo>>
    BY <1>14 DEF AppendFlat
  <2>2. /\ pc' \in {"record", "before"}
        /\ pc' = "before" => cur' \in todo /\ cur' > cur
    BY <1>1, <1>14, RunNextGoes DEF AppendFlat
  <2>3. \A s \in todo : s > cur => rows[s].status # "done"
    BY <2>1 DEF KeptInv
  <2>4. CASE pc' = "record"
    BY <2>1, <2>4 DEF KeptInv, StepPc, RunPc
  <2>5. CASE pc' = "before"
    <3>1. cur \in Int /\ \A s \in todo : s \in Int
      BY <1>1 DEF Steps
    <3>2. \A s \in todo' : s > cur' => rows'[s].status # "done"
      BY <2>1, <2>2, <2>3, <2>5, <3>1
    <3> QED
      BY <2>1, <2>2, <2>3, <2>5, <3>2 DEF KeptInv, StepPc
  <2> QED
    BY <2>2, <2>4, <2>5
<1>15. CASE RecordStep
  <2>1. PICK s \in Steps : WriteRow(s)
    BY <1>1, <1>15 DEF RecordStep
  <2> QED
    BY <1>15, <2>1, KeptWritten DEF RecordStep
<1>16. CASE BootWrite
  <2>1. PICK s \in Steps : WriteRow(s)
    BY <1>1, <1>16 DEF BootWrite
  <2> QED
    BY <1>16, <2>1, KeptWritten DEF BootWrite
<1>17. ASSUME UNCHANGED <<rows, mem>>, pc' \notin StepPc \cup {"append", "boot_stat"}
       PROVE  KeptInv'
  BY <1>17 DEF KeptInv, StepPc
<1>18. CASE Finish
  <2>1. UNCHANGED rows /\ (Return \/ (UNCHANGED mem /\ pc' = "mark"))
    BY <1>18 DEF Finish
  <2> QED
    BY <1>17, <2>1, KeptFresh DEF Return, StepPc, RunPc
<1>19. CASE MarkFiled \/ UndoMark \/ BootReload
  BY <1>19, KeptFresh DEF MarkFiled, UndoMark, BootReload, Return, StepPc, RunPc
<1>20. CASE UndoStart \/ Killed \/ PowerLost
  BY <1>20, KeptFresh DEF UndoStart, Killed, PowerLost, Die, StepPc, RunPc
<1>21. CASE UndoVerify \/ UndoRemove \/ UndoDir \/ BootRelease
  BY <1>17, <1>21 DEF UndoVerify, UndoRemove, UndoDir, BootRelease, StepPc, RunPc
<1>22. CASE UndoFinish
  <2>1. UNCHANGED rows /\ (Return \/ (UNCHANGED mem /\ pc' = "undo_finish"))
    BY <1>22 DEF UndoFinish
  <2> QED
    BY <1>17, <2>1, KeptFresh DEF Return, StepPc, RunPc
<1>23. CASE Boot
  BY <1>23 DEF Boot, KeptInv, InProgress, StepPc, RunPc
<1>24. CASE BootStat
  <2>1. PICK s \in todo :
          /\ \E v : Hold(s, [mem[s] EXCEPT !.status = v])
          /\ \/ pc' = "boot_write"
             \/ todo' = todo \ {s} /\ UNCHANGED pc
    BY <1>24 DEF BootStat
  <2>2. pc = "boot_stat" /\ UNCHANGED rows
    BY <1>24 DEF BootStat
  <2>3. Others(s) /\ s \in InProgress
    BY <1>1, <2>1, <2>2, HoldStatus DEF KeptInv
  <2>4. \A u \in Steps : rows'[u].status = "done" => mem'[u] = rows'[u]
    BY <2>2, <2>3 DEF KeptInv, InProgress, Others
  <2> QED
    BY <2>1, <2>2, <2>4 DEF KeptInv, InProgress, StepPc, RunPc
<1> QED
  BY <1>2, <1>3, <1>4, <1>5, <1>6, <1>7, <1>8, <1>9, <1>11, <1>12, <1>13, <1>14, <1>15,
     <1>16, <1>18, <1>19, <1>20, <1>21, <1>22, <1>23, <1>24
  DEF Next, Execute, Undo, Startup
\* A name is in order if its row claims it and is done, or if a file was put
\* there this instant and nothing stands between it and journal.After.  Every
\* other file of ours is owed.
OnRecord(n)   == Claims(n) /\ rows[n[1]].status = "done"
JustPlaced(n) == n = Current /\ (pc = "after" \/ (pc = "unlink" /\ Writable))
Owed == {n \in Names : At(n) \in OurFile /\ ~OnRecord(n) /\ ~JustPlaced(n)}

\* And every file of ours that the flat journal does not name, but for those
\* it is about to.
Logging(n) == n = Current /\ pc = "append"
Unlogged == {n \in Names : /\ At(n) \in OurFile /\ n \notin flat
                           /\ ~JustPlaced(n) /\ ~Logging(n)}

\* One of the mishaps happens.
Mishap == \E e \in {"crash", "setting", "fault"} : Happens(e)

\* What is on record stays there.
LEMMA OnRecordStays ==
    ASSUME TypeOK, KeptInv, [Next]_vars, NEW s \in Steps, rows[s].status = "done"
    PROVE  rows'[s] = rows[s]
<1> USE DEF progVars, outVars, diskVars, confVars
<1>0. cur \in Steps /\ todo \subseteq Steps /\ rows \in [Steps -> Row]
  BY DEF TypeOK
<1>1. CASE Before \/ After
  <2>1. pc \in StepPc
    BY <1>1 DEF Before, After, StepPc, RunPc
  <2>2. s # cur
    BY <2>1 DEF KeptInv
  <2>3. UNCHANGED rows \/ \E r : rows' = [rows EXCEPT ![cur] = r]
    BY <1>1 DEF Before, After
  <2> QED
    BY <1>0, <2>2, <2>3
<1>2. CASE RecordStep \/ BootWrite
  <2>1. PICK t \in Steps : WriteRow(t)
    BY <1>0, <1>2 DEF RecordStep, BootWrite
  <2>2. rows'[s] = rows[s] \/ rows'[s] = mem[s]
    BY <1>0, <2>1 DEF WriteRow
  <2> QED
    BY <2>2 DEF KeptInv
<1>3. Execute => Before \/ After \/ RecordStep \/ UNCHANGED rows
  BY DEF Execute, ExecuteNothingPending, ExecuteBlocked, ExecuteStart, Cancelled,
         Mkdir, Check, Link, Create, CopyFails, CopyEnds, Verify, Sync, Publish, Unlink,
         AppendFlat, Finish, MarkFiled
<1>4. Undo => UNCHANGED rows
  BY DEF Undo, UndoStart, UndoVerify, UndoRemove, UndoDir, UndoFinish, UndoMark
<1>5. Startup => BootWrite \/ UNCHANGED rows
  BY DEF Startup, Boot, BootStat, BootRelease, BootReload
<1>6. Settings \/ Killed \/ PowerLost \/ UserTouches \/ SourceChanges => UNCHANGED rows
  BY DEF Settings, ScanRegisters, SetDryRun, ReloadReset, ReloadAdd, Killed, PowerLost,
         Die, UserTouches, SourceChanges
<1>7. CASE UNCHANGED rows
  BY <1>7
<1> QED
  BY <1>1, <1>2, <1>3, <1>4, <1>5, <1>6, <1>7 DEF Next, vars

\* A file is put in place only where it counts as just placed.
LEMMA PlacedIsJustPlaced ==
    ASSUME TypeOK, Placing
    PROVE  UNCHANGED files \/ (Current' = Current /\ JustPlaced(Current)')
<1> USE DEF progVars, outVars, diskVars, confVars
<1>1. cur \in Steps
  BY DEF TypeOK
<1>2. CASE Link
  <2>1. CASE /\ Hold(cur, [mem[cur] EXCEPT !.actual = "hardlink", !.created = TRUE])
             /\ pc' = "after"
    <3>1. mem'[cur].dst = mem[cur].dst /\ cur' = cur
      BY <1>1, <1>2, <2>1, HoldPlaced DEF Link
    <3> QED
      BY <2>1, <3>1 DEF Current, JustPlaced
  <2> QED
    BY <1>2, <2>1 DEF Link
<1>3. CASE Publish
  <2>1. cur' = cur /\ UNCHANGED <<roots, dry>> /\ Writable
    BY <1>3 DEF Publish
  <2>2. CASE pc' = "unlink" /\ UNCHANGED mem
    BY <2>1, <2>2 DEF Current, JustPlaced, Writable
  <2>3. CASE pc' = "after" /\ Copied
    <3>1. mem'[cur].dst = mem[cur].dst
      BY <1>1, <2>3, HoldPlaced DEF Copied
    <3> QED
      BY <2>1, <2>3, <3>1 DEF Current, JustPlaced
  <2> QED
    BY <1>3, <2>2, <2>3 DEF Publish
<1> QED
  BY <1>2, <1>3 DEF Placing

LEMMA OursBefore ==
    ASSUME TypeOK, [Next]_vars, NEW n \in Names, At(n)' \in OurFile, ~JustPlaced(n)'
    PROVE  At(n) \in OurFile
<1>1. CASE UNCHANGED files
  BY <1>1 DEF At
<1>2. CASE ~UNCHANGED files
  <2>1. Placing => JustPlaced(Current)' /\ Current' = Current
    BY <1>2, PlacedIsJustPlaced
  <2>2. Placing => n # Current
    BY <2>1 DEF JustPlaced
  <2> QED
    BY <2>2, OursAppear
<1> QED
  BY <1>1, <1>2

\* What was just placed stays so, is stored and about to be logged, or is lost
\* to a mishap.
LEMMA JustPlacedGoes ==
    ASSUME TypeOK, KeptInv, [Next]_vars, NEW n \in Names, JustPlaced(n)
    PROVE  \/ JustPlaced(n)'
           \/ OnRecord(n)' /\ Logging(n)'
           \/ Mishap
<1> USE DEF progVars, outVars, diskVars, confVars
<1>0. cur \in Steps /\ mem[cur] \in Row /\ rows \in [Steps -> Row] /\ mem \in [Steps -> Row]
  BY DEF TypeOK
<1>1. n = <<cur, mem[cur].dst>> /\ (pc = "after" \/ (pc = "unlink" /\ Writable))
  BY DEF JustPlaced, Current
<1>2. CASE After
  <2>1. CASE Happens("fault")
    BY <2>1 DEF Mishap
  <2>2. CASE /\ Hold(cur, [mem[cur] EXCEPT !.status = "done"])
             /\ rows' = [rows EXCEPT ![cur] = [mem[cur] EXCEPT !.status = "done"]]
             /\ pc' = "append" /\ UNCHANGED cur
    <3>1. rows'[cur] = mem'[cur]
      BY <1>0, <2>2, HoldKeeps
    <3>2. /\ mem'[cur].created = mem[cur].created /\ mem'[cur].dst = mem[cur].dst
          /\ mem'[cur].status = "done"
      BY <1>0, <2>2, HoldStatus
    <3>3. mem[cur].created
      BY <1>2 DEF After, KeptInv
    <3> QED
      BY <1>1, <2>2, <3>1, <3>2, <3>3 DEF OnRecord, Claims, Logging, Current
  <2> QED
    BY <1>2, <2>1, <2>2 DEF After
<1>3. CASE Unlink
  <2>1. Copied /\ pc' = "after" /\ cur' = cur
    BY <1>1, <1>3 DEF Unlink
  <2>2. mem'[cur].dst = mem[cur].dst
    BY <1>0, <2>1, HoldPlaced DEF Copied
  <2> QED
    BY <1>1, <2>1, <2>2 DEF JustPlaced, Current
<1>4. CASE Settings \/ UserTouches \/ SourceChanges \/ UNCHANGED vars
  <2>1. UNCHANGED <<pc, cur, mem>>
    BY <1>4 DEF Settings, ScanRegisters, SetDryRun, ReloadReset, ReloadAdd,
         UserTouches, SourceChanges, vars
  <2>2. Happens("setting") \/ (Writable => Writable')
    BY <1>4 DEF Settings, ScanRegisters, SetDryRun, ReloadReset, ReloadAdd,
         UserTouches, SourceChanges, vars, Writable
  <2> QED
    BY <1>1, <2>1, <2>2 DEF JustPlaced, Current, Mishap
<1>5. CASE Killed \/ PowerLost
  BY <1>5 DEF Killed, PowerLost, Die, Mishap
<1>6. Execute => After \/ Unlink
  BY <1>1 DEF Execute, ExecuteNothingPending, ExecuteBlocked, ExecuteStart, MayExecute,
         Cancelled, Before, Mkdir, Check, Link, Create, CopyFails, CopyEnds, Verify, Sync,
         Publish, AppendFlat, RecordStep, Finish, MarkFiled
<1>7. ~Undo /\ ~Startup
  BY <1>1 DEF Undo, UndoStart, UndoVerify, UndoRemove, UndoDir, UndoFinish, UndoMark,
         Startup, Boot, BootStat, BootWrite, BootRelease, BootReload
<1> QED
  BY <1>2, <1>3, <1>4, <1>5, <1>6, <1>7 DEF Next

\* A line about to be appended is appended, or lost to a mishap.
LEMMA LoggingGoes ==
    ASSUME TypeOK, [Next]_vars, NEW n \in Names, Logging(n)
    PROVE  Logging(n)' \/ n \in flat' \/ Mishap
<1> USE DEF progVars, outVars, diskVars, confVars
<1>1. n = <<cur, mem[cur].dst>> /\ pc = "append"
  BY DEF Logging, Current
<1>2. CASE AppendFlat
  BY <1>1, <1>2 DEF AppendFlat, Mishap
<1>3. CASE Settings \/ UserTouches \/ SourceChanges \/ UNCHANGED vars
  <2>1. UNCHANGED <<pc, cur, mem>>
    BY <1>3 DEF Settings, ScanRegisters, SetDryRun, ReloadReset, ReloadAdd,
         UserTouches, SourceChanges, vars
  <2> QED
    BY <1>1, <2>1 DEF Logging, Current
<1>4. CASE Killed \/ PowerLost
  BY <1>4 DEF Killed, PowerLost, Die, Mishap
<1>5. Execute => AppendFlat
  BY <1>1 DEF Execute, ExecuteNothingPending, ExecuteBlocked, ExecuteStart, MayExecute,
         Cancelled, Before, Mkdir, Check, Link, Create, CopyFails, CopyEnds, Verify, Sync,
         Publish, Unlink, After, RecordStep, Finish, MarkFiled
<1>6. ~Undo /\ ~Startup
  BY <1>1 DEF Undo, UndoStart, UndoVerify, UndoRemove, UndoDir, UndoFinish, UndoMark,
         Startup, Boot, BootStat, BootWrite, BootRelease, BootReload
<1> QED
  BY <1>2, <1>3, <1>4, <1>5, <1>6 DEF Next

\* The flat journal only grows.
LEMMA FlatGrows == [Next]_vars => flat \subseteq flat'
<1> USE DEF progVars, outVars, diskVars, confVars
<1>1. Execute => flat \subseteq flat'
  BY DEF Execute, ExecuteNothingPending, ExecuteBlocked, ExecuteStart,
         Cancelled, Before, Mkdir, Check, Link, Create, CopyFails, CopyEnds, Verify, Sync,
         Publish, Unlink, After, AppendFlat, RecordStep, Finish, MarkFiled
<1>2. Undo => flat \subseteq flat'
  BY DEF Undo, UndoStart, UndoVerify, UndoRemove, UndoDir, UndoFinish, UndoMark
<1>3. Startup => flat \subseteq flat'
  BY DEF Startup, Boot, BootStat, BootWrite, BootRelease, BootReload
<1>4. Settings \/ Killed \/ PowerLost \/ UserTouches \/ SourceChanges => flat \subseteq flat'
  BY DEF Settings, ScanRegisters, SetDryRun, ReloadReset, ReloadAdd, Killed, PowerLost,
         Die, UserTouches, SourceChanges
<1> QED
  BY <1>1, <1>2, <1>3, <1>4 DEF Next, vars

\* So a step adds one name to what is owed, or to what is not logged, and that
\* only by a mishap.
LEMMA OwedGrows ==
    ASSUME TypeOK, KeptInv, [Next]_vars
    PROVE  /\ Owed' \subseteq Owed \cup {Current}
           /\ Mishap \/ Owed' \subseteq Owed
<1>1. ASSUME NEW n \in Owed', n \notin Owed PROVE n = Current /\ Mishap
  <2>1. n \in Names /\ At(n)' \in OurFile /\ ~OnRecord(n)' /\ ~JustPlaced(n)'
    BY <1>1 DEF Owed, Names
  <2>2. At(n) \in OurFile
    BY <2>1, OursBefore
  <2>3. ~OnRecord(n)
    <3>1. ASSUME OnRecord(n) PROVE OnRecord(n)'
      <4>1. n[1] \in Steps /\ rows[n[1]].status = "done"
        BY <2>1, <3>1 DEF OnRecord, Names
      <4>2. rows'[n[1]] = rows[n[1]]
        BY <4>1, OnRecordStays
      <4> QED
        BY <3>1, <4>2 DEF OnRecord, Claims
    <3> QED
      BY <2>1, <3>1
  <2>4. JustPlaced(n)
    BY <1>1, <2>1, <2>2, <2>3 DEF Owed
  <2> QED
    BY <2>1, <2>4, JustPlacedGoes DEF JustPlaced
<1> QED
  BY <1>1

LEMMA UnloggedGrows ==
    ASSUME TypeOK, KeptInv, [Next]_vars
    PROVE  /\ Unlogged' \subseteq Unlogged \cup {Current}
           /\ Mishap \/ Unlogged' \subseteq Unlogged
<1>1. ASSUME NEW n \in Unlogged', n \notin Unlogged PROVE n = Current /\ Mishap
  <2>1. /\ n \in Names /\ At(n)' \in OurFile /\ n \notin flat'
        /\ ~JustPlaced(n)' /\ ~Logging(n)'
    BY <1>1 DEF Unlogged, Names
  <2>2. At(n) \in OurFile
    BY <2>1, OursBefore
  <2>3. n \notin flat
    BY <2>1, FlatGrows
  <2>4. JustPlaced(n) \/ Logging(n)
    BY <1>1, <2>1, <2>2, <2>3 DEF Unlogged
  <2>5. Mishap
    BY <2>1, <2>4, JustPlacedGoes, LoggingGoes
  <2> QED
    BY <2>4, <2>5 DEF JustPlaced, Logging
<1> QED
  BY <1>1

-----------------------------------------------------------------------------
(* How many *)

LEMMA NamesFinite == IsFiniteSet(Names)
<1>1. N \in Int /\ 0 \in Int /\ 1 \in Int /\ MaxSuffix \in Int
  BY NAssumption, MaxSuffixAssumption
<1>2. IsFiniteSet(Steps) /\ IsFiniteSet(Loc)
  BY <1>1, FS_Interval DEF Steps, Loc
<1> QED
  BY <1>2, FS_Product DEF Names

LEMMA PartOfNames == ASSUME NEW S \in SUBSET Names PROVE IsFiniteSet(S) /\ Cardinality(S) \in Nat
BY NamesFinite, FS_Subset, FS_CardinalityType

\* Mishaps are counted, and never taken back.
LEMMA MishapsCount ==
    ASSUME TypeOK, [Next]_vars
    PROVE  /\ Mishaps \in Nat /\ Mishaps' \in Nat /\ Mishaps <= Mishaps'
           /\ Mishap => Mishaps + 1 <= Mishaps'
<1>1. \A e \in Events : used[e] \in Nat
  BY DEF TypeOK
<1>2. {"crash", "setting", "fault"} \subseteq Events
  BY DEF Events
<1>3. CASE UNCHANGED used /\ ~Mishap
  BY <1>1, <1>2, <1>3 DEF Mishaps
<1>4. ASSUME NEW e \in Events, Happens(e)
      PROVE  /\ Mishaps \in Nat /\ Mishaps' \in Nat /\ Mishaps <= Mishaps'
             /\ e \in {"crash", "setting", "fault"} => Mishaps + 1 <= Mishaps'
  BY <1>1, <1>2, <1>4, Counted DEF Mishaps
<1>5. ASSUME Mishap PROVE Mishaps \in Nat /\ Mishaps' \in Nat /\ Mishaps + 1 <= Mishaps'
  BY <1>2, <1>4, <1>5 DEF Mishap
<1>6. CASE ~Mishap /\ \E e \in Events : Happens(e)
  BY <1>4, <1>6
<1>7. CASE Mishap
  BY <1>5, <1>7
<1> QED
  BY <1>3, <1>6, <1>7, OneEvent

\* A set of names that a step adds one name to, and that only by a mishap,
\* stays within the number of mishaps.
LEMMA PaidFor ==
    ASSUME TypeOK, [Next]_vars, NEW S \in SUBSET Names, NEW T \in SUBSET Names,
           Cardinality(S) <= Mishaps, T \subseteq S \cup {Current}, Mishap \/ T \subseteq S
    PROVE  Cardinality(T) <= Mishaps'
<1>1. /\ IsFiniteSet(S) /\ Cardinality(S) \in Nat /\ Cardinality(T) \in Nat
  BY PartOfNames
<1>2. Mishaps \in Nat /\ Mishaps' \in Nat /\ Mishaps <= Mishaps'
  BY MishapsCount
<1>3. CASE T \subseteq S
  <2>1. Cardinality(T) <= Cardinality(S)
    BY <1>1, <1>3, FS_Subset
  <2> QED
    BY <1>1, <1>2, <2>1
<1>4. CASE Mishap
  <2>1. /\ IsFiniteSet(S \cup {Current})
        /\ Cardinality(S \cup {Current}) \in {Cardinality(S), Cardinality(S) + 1}
    BY <1>1, FS_AddElement
  <2>2. Cardinality(T) <= Cardinality(S \cup {Current})
    BY <2>1, FS_Subset
  <2>3. Mishaps + 1 <= Mishaps'
    BY <1>4, MishapsCount
  <2> QED
    BY <1>1, <1>2, <2>1, <2>2, <2>3
<1> QED
  BY <1>3, <1>4

\* No file of ours is owed that was not paid for.
CostInv == Cardinality(Owed) <= Mishaps /\ Cardinality(Unlogged) <= Mishaps

LEMMA CostInvNext == TypeOK /\ KeptInv /\ CostInv /\ [Next]_vars => CostInv'
<1> SUFFICES ASSUME TypeOK, KeptInv, CostInv, [Next]_vars PROVE CostInv'
  OBVIOUS
<1>1. /\ Owed \in SUBSET Names /\ Owed' \in SUBSET Names
      /\ Unlogged \in SUBSET Names /\ Unlogged' \in SUBSET Names
  BY DEF Owed, Unlogged, Names
<1>2. Cardinality(Owed') <= Mishaps'
  BY <1>1, OwedGrows, PaidFor DEF CostInv
<1>3. Cardinality(Unlogged') <= Mishaps'
  BY <1>1, UnloggedGrows, PaidFor DEF CostInv
<1> QED
  BY <1>2, <1>3 DEF CostInv

LEMMA CostInit == Init => TypeOK /\ KeptInv /\ CostInv
<1> SUFFICES ASSUME Init PROVE TypeOK /\ KeptInv /\ CostInv
  OBVIOUS
<1>1. TypeOK
  BY TypeInit
<1>2. pc = "idle" /\ mem = rows
  BY DEF Init
<1>3. KeptInv
  BY <1>2 DEF KeptInv, StepPc, RunPc
<1>4. \A n \in Names : At(n) = "absent"
  BY DEF Init, At, Names
<1>5. Owed = {} /\ Unlogged = {}
  BY <1>4 DEF Owed, Unlogged, OurFile
<1>6. Mishaps = 0
  <2>1. used = [e \in Events |-> 0]
    BY DEF Init
  <2>2. used["crash"] = 0 /\ used["setting"] = 0 /\ used["fault"] = 0
    BY <2>1 DEF Events
  <2> QED
    BY <2>2 DEF Mishaps
<1>7. Cardinality({}) = 0
  BY FS_EmptySet
<1> QED
  BY <1>1, <1>3, <1>5, <1>6, <1>7 DEF CostInv

\* For every plan, policy and choice of mishaps: the names nothing answers for
\* stay within the count of the mishaps met; the three costs below read this.
THEOREM CostsHold == Spec => [](TypeOK /\ KeptInv /\ CostInv)
<1>1. TypeOK /\ KeptInv /\ CostInv /\ [Next]_vars => TypeOK' /\ KeptInv' /\ CostInv'
  BY TypeNext, KeptInvNext, CostInvNext
<1> QED
  BY <1>1, CostInit, PTL DEF Spec

\* A part of what is paid for is paid for.
LEMMA PartPaid ==
    ASSUME NEW S \in SUBSET Names, NEW T \in SUBSET S, TypeOK, Cardinality(S) <= Mishaps
    PROVE  Cardinality(T) <= Mishaps
<1>1. IsFiniteSet(S) /\ Cardinality(S) \in Nat /\ Cardinality(T) \in Nat
  BY PartOfNames
<1>2. Cardinality(T) <= Cardinality(S)
  BY <1>1, FS_Subset
<1>3. Mishaps \in Nat
  BY DEF TypeOK, Mishaps, Events
<1> QED
  BY <1>1, <1>2, <1>3

\* What is just placed is in flight, in the words of the properties.
LEMMA JustPlacedFlies ==
    ASSUME KeptInv, NEW n \in Names, JustPlaced(n) PROVE InFlight(n)
<1>1. n[1] = cur /\ n[2] = mem[cur].dst
  BY DEF JustPlaced, Current
<1>2. pc \in ExecPc /\ (mem[cur].created \/ pc = "unlink")
  BY DEF JustPlaced, KeptInv, ExecPc
<1> QED
  BY <1>1, <1>2 DEF InFlight

\* For every plan: each file of ours that no row claims has been paid for by a
\* crash, a change of settings or a failed write of its own.
THEOREM UndoRecordCostHolds == Spec => []UndoRecordCost
<1>1. TypeOK /\ KeptInv /\ CostInv => UndoRecordCost
  <2> SUFFICES ASSUME TypeOK, KeptInv, CostInv PROVE UndoRecordCost
    OBVIOUS
  <2> DEFINE T == {n \in Names : At(n) \in OurFile /\ ~Claims(n) /\ ~InFlight(n)}
  <2>1. T \in SUBSET Owed
    BY JustPlacedFlies DEF Owed, OnRecord
  <2>2. Cardinality(T) <= Mishaps
    BY <2>1, PartPaid DEF CostInv, Owed
  <2> QED
    BY <2>2 DEF UndoRecordCost
<1> QED
  BY <1>1, CostsHold, PTL

\* For every plan: so has each file of ours that the flat journal does not name.
THEOREM FlatJournalCostHolds == Spec => []FlatJournalCost
<1>1. TypeOK /\ KeptInv /\ CostInv => FlatJournalCost
  <2> SUFFICES ASSUME TypeOK, KeptInv, CostInv PROVE FlatJournalCost
    OBVIOUS
  <2> DEFINE T == {n \in Names : /\ At(n) \in OurFile /\ n \notin flat
                                 /\ ~InFlight(n) /\ ~(pc = "append" /\ cur = n[1])}
  <2>1. \A n \in Names : Logging(n) => pc = "append" /\ cur = n[1]
    BY DEF Logging, Current
  <2>2. T \in SUBSET Unlogged
    BY <2>1, JustPlacedFlies DEF Unlogged
  <2>3. Cardinality(T) <= Mishaps
    BY <2>2, PartPaid DEF CostInv, Unlogged
  <2> QED
    BY <2>3 DEF FlatJournalCost
<1> QED
  BY <1>1, CostsHold, PTL
\* A step has one name that is in order at most.
LEMMA OneInOrder ==
    ASSUME KeptInv, NEW n \in Names, NEW m \in Names, n[1] = m[1],
           OnRecord(n) \/ JustPlaced(n), OnRecord(m) \/ JustPlaced(m)
    PROVE  n = m
<1>1. n = <<n[1], n[2]>> /\ m = <<m[1], m[2]>>
  BY DEF Names
<1>2. \A k \in Names : JustPlaced(k) => k[1] = cur /\ ~OnRecord(k) /\ rows[cur].status # "done"
  BY DEF JustPlaced, Current, OnRecord, KeptInv, StepPc, RunPc
<1>3. ASSUME OnRecord(n), OnRecord(m) PROVE n = m
  BY <1>1, <1>3 DEF OnRecord, Claims
<1>4. ASSUME JustPlaced(n), JustPlaced(m) PROVE n = m
  BY <1>4 DEF JustPlaced
<1>5. ~(OnRecord(n) /\ JustPlaced(m)) /\ ~(JustPlaced(n) /\ OnRecord(m))
  BY <1>2 DEF OnRecord
<1> QED
  BY <1>3, <1>4, <1>5

\* A set of numbers that is not empty has a least one.
LEMMA HasLeast ==
    ASSUME NEW S \in SUBSET Nat, S # {} PROVE \E m \in S : \A n \in S : m <= n
<1>1. \E m \in S : \A n \in S : ~ (n < m)
  <2>1. PICK m \in S : \A n \in S : <<n, m>> \notin OpToRel(<, Nat)
    BY WFMin, NatLessThanWellFounded, Zenon
  <2>2. \A n \in S : ~ (n < m)
    BY <2>1, Zenon DEF OpToRel
  <2> QED
    BY <2>2, Zenon
<1> QED
  BY <1>1

\* The first name of a step that holds a file of ours.
Lowest(s) == CHOOSE l \in Loc : /\ files[s][l] \in OurFile
                                /\ \A k \in Loc : files[s][k] \in OurFile => l <= k

LEMMA LowestIs ==
    ASSUME NEW s, NEW l \in Loc, files[s][l] \in OurFile
    PROVE  /\ Lowest(s) \in Loc /\ files[s][Lowest(s)] \in OurFile
           /\ \A k \in Loc : files[s][k] \in OurFile => Lowest(s) <= k
<1> DEFINE S == {k \in Loc : files[s][k] \in OurFile}
<1>1. S \in SUBSET Nat /\ S # {}
  BY MaxSuffixAssumption DEF Loc
<1>2. \E m \in S : \A n \in S : m <= n
  <2> HIDE DEF S
  <2> QED
    BY <1>1, HasLeast
<1>3. \E m \in Loc : /\ files[s][m] \in OurFile
                     /\ \A k \in Loc : files[s][k] \in OurFile => m <= k
  BY <1>2
<1> QED
  BY <1>3 DEF Lowest

\* The files of ours beside a lower one of the same step.
Duplicates == {n \in Names : /\ At(n) \in OurFile
                             /\ \E l \in Loc : l < n[2] /\ files[n[1]][l] \in OurFile}

\* Each of them is owed, or the lowest of its step is, which is no duplicate.
Owes == [n \in Duplicates |-> IF n \in Owed THEN n ELSE <<n[1], Lowest(n[1])>>]

LEMMA DuplicatesOwe == KeptInv => Owes \in Injection(Duplicates, Owed)
<1> SUFFICES ASSUME KeptInv PROVE Owes \in Injection(Duplicates, Owed)
  OBVIOUS
<1>0. \A l \in Loc : l \in Int
  BY DEF Loc
<1>1. ASSUME NEW n \in Duplicates
      PROVE  /\ n \in Names /\ n[1] \in Steps /\ n[2] \in Loc /\ n = <<n[1], n[2]>>
             /\ At(n) \in OurFile
             /\ <<n[1], Lowest(n[1])>> \in Names \ Duplicates
             /\ At(<<n[1], Lowest(n[1])>>) \in OurFile
  <2>1. n \in Names /\ n[1] \in Steps /\ n[2] \in Loc /\ n = <<n[1], n[2]>> /\ At(n) \in OurFile
    BY DEF Duplicates, Names
  <2>2. files[n[1]][n[2]] \in OurFile
    BY <2>1 DEF At
  <2>3. /\ Lowest(n[1]) \in Loc /\ files[n[1]][Lowest(n[1])] \in OurFile
        /\ \A k \in Loc : files[n[1]][k] \in OurFile => Lowest(n[1]) <= k
    BY <2>1, <2>2, LowestIs
  <2>4. <<n[1], Lowest(n[1])>> \in Names
    BY <2>1, <2>3 DEF Names
  <2>5. <<n[1], Lowest(n[1])>> \notin Duplicates
    BY <1>0, <2>3 DEF Duplicates
  <2> QED
    BY <2>1, <2>3, <2>4, <2>5 DEF At
<1>2. ASSUME NEW n \in Duplicates, n \notin Owed PROVE OnRecord(n) \/ JustPlaced(n)
  BY <1>1, <1>2 DEF Owed
<1>3. ASSUME NEW n \in Duplicates, n \notin Owed
      PROVE  <<n[1], Lowest(n[1])>> \in Owed
  <2> DEFINE m == <<n[1], Lowest(n[1])>>
  <2>1. n \in Names /\ m \in Names /\ m[1] = n[1] /\ m # n /\ At(m) \in OurFile
    BY <1>1, <1>3
  <2>2. OnRecord(n) \/ JustPlaced(n)
    BY <1>2, <1>3
  <2>3. ~OnRecord(m) /\ ~JustPlaced(m)
    <3> HIDE DEF m
    <3> QED
      BY <2>1, <2>2, OneInOrder
  <2> QED
    BY <2>1, <2>3 DEF Owed
<1>4. Owes \in [Duplicates -> Owed]
  BY <1>3 DEF Owes
<1>5. ASSUME NEW n \in Duplicates, NEW m \in Duplicates, Owes[n] = Owes[m]
      PROVE  n = m
  <2>1. /\ Owes[n] = IF n \in Owed THEN n ELSE <<n[1], Lowest(n[1])>>
        /\ Owes[m] = IF m \in Owed THEN m ELSE <<m[1], Lowest(m[1])>>
    BY DEF Owes
  <2>2. CASE n \in Owed /\ m \in Owed
    BY <1>5, <2>1, <2>2
  <2>3. CASE n \in Owed /\ m \notin Owed
    BY <1>1, <1>5, <2>1, <2>3
  <2>4. CASE n \notin Owed /\ m \in Owed
    BY <1>1, <1>5, <2>1, <2>4
  <2>5. CASE n \notin Owed /\ m \notin Owed
    <3>0. <<n[1], Lowest(n[1])>> = <<m[1], Lowest(m[1])>>
      BY <1>5, <2>1, <2>5, Zenon
    <3>1. n[1] = m[1]
      BY <3>0
    <3>2. n \in Names /\ m \in Names
      BY <1>1
    <3>3. (OnRecord(n) \/ JustPlaced(n)) /\ (OnRecord(m) \/ JustPlaced(m))
      BY <1>2, <2>5
    <3> QED
      BY <3>1, <3>2, <3>3, OneInOrder
  <2> QED
    BY <2>2, <2>3, <2>4, <2>5
<1> QED
  BY <1>4, <1>5, Fun_IsInj

\* For every plan and policy: a second file of ours for one step has been paid
\* for by a crash, a change of settings or a failed write; a resume does not
\* place again what is placed.
THEOREM DuplicateCostHolds == Spec => []DuplicateCost
<1>1. TypeOK /\ KeptInv /\ CostInv => DuplicateCost
  <2> SUFFICES ASSUME TypeOK, KeptInv, CostInv PROVE DuplicateCost
    OBVIOUS
  <2>1. Owed \in SUBSET Names /\ Duplicates \in SUBSET Names
    BY DEF Owed, Duplicates
  <2>2. IsFiniteSet(Owed) /\ Cardinality(Owed) \in Nat /\ Cardinality(Duplicates) \in Nat
    BY <2>1, PartOfNames
  <2>3. Cardinality(Duplicates) <= Cardinality(Owed)
    BY <2>2, DuplicatesOwe, FS_Injection
  <2>4. Cardinality(Owed) <= Mishaps /\ Mishaps \in Nat
    BY DEF CostInv, TypeOK, Mishaps, Events
  <2>5. Cardinality(Duplicates) <= Mishaps
    BY <2>2, <2>3, <2>4
  <2> QED
    BY <2>5 DEF DuplicateCost, Duplicates
<1> QED
  BY <1>1, CostsHold, PTL

=============================================================================
