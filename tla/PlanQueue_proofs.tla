-------------------------- MODULE PlanQueue_proofs --------------------------
(***************************************************************************)
(* Theorems about PlanQueue, for every set of orphans, every number of     *)
(* plans and steps, and every bound on the events.                         *)
(***************************************************************************)
EXTENDS PlanQueue, FiniteSetTheorems, TLAPS

PlanRow == [of : Orphan, status : Status, rows : Rows]

-----------------------------------------------------------------------------
(* Type correctness *)

LEMMA OneInId == 1 \in Id /\ Fresh \in Rows /\ NoWish \in [Orphan -> Wish]
BY IdAssumption DEF Id, Fresh, Rows, RowState, NoWish, Wish

LEMMA CountType ==
    ASSUME TypeOK, NEW e \in Events, Happens(e) PROVE used' \in [Events -> Nat]
<1>1. used[e] + 1 \in Nat
  BY DEF TypeOK
<1> QED
  BY <1>1 DEF TypeOK, Happens

LEMMA StatusType ==
    ASSUME TypeOK, NEW p \in Id, NEW st \in Status, SetStatus(p, st)
    PROVE  plan' \in [Id -> PlanRow]
BY DEF TypeOK, SetStatus, PlanRow

LEMMA RowType ==
    ASSUME TypeOK, NEW p \in Id, NEW s \in Steps, NEW r \in RowState, SetRow(p, s, r)
    PROVE  plan' \in [Id -> PlanRow]
<1>1. plan[p] \in PlanRow /\ plan[p].rows \in Rows
  BY DEF TypeOK, PlanRow
<1>2. [plan[p].rows EXCEPT ![s] = r] \in Rows
  BY <1>1 DEF Rows
<1>3. plan' = [plan EXCEPT ![p] = [plan[p] EXCEPT !.rows = [plan[p].rows EXCEPT ![s] = r]]]
  BY <1>1 DEF SetRow, TypeOK, PlanRow
<1> QED
  BY <1>1, <1>2, <1>3 DEF TypeOK, PlanRow

LEMMA InitType == Init => TypeOK
<1> SUFFICES ASSUME Init PROVE TypeOK
  OBVIOUS
<1>1. plan \in [Id -> PlanRow]
  BY OneInId DEF Init, PlanRow, Status
<1>2. disk \in [Orphan -> [Steps -> {NoFile, Foreign} \cup Id]]
  BY DEF Init
<1> QED
  BY <1>1, <1>2, OneInId
  DEF Init, TypeOK, PlanRow, OrphanState, SPc, XPc, Wish, NoWish

\* What a scan leaves alone, and what the end of its work on an orphan sets.
LEMMA ScanType == TypeOK /\ [Scan]_vars => TypeOK'
<1> SUFFICES ASSUME TypeOK, [Scan]_vars PROVE TypeOK'
  OBVIOUS
<1> USE DEF scanVars, execVars, ScanOnly
<1>1. CASE ScanStart
  BY <1>1, CountType DEF ScanStart, TypeOK, SPc, Events
<1>2. CASE ScanList
  BY <1>2 DEF ScanList, TypeOK, SPc
<1>3. CASE ScanEnd
  BY <1>3, OneInId DEF ScanEnd, TypeOK, SPc
<1>4. ASSUME NEW o \in Orphan, ScanItem(o) PROVE TypeOK'
  BY <1>4 DEF ScanItem, TypeOK, SPc
<1>5. ASSUME NEW o \in Orphan, ScanUpsert(o) PROVE TypeOK'
  <2>1. orphan' \in [Orphan -> OrphanState]
    BY <1>5 DEF ScanUpsert, Refreshed, TypeOK, OrphanState
  <2> QED
    BY <1>5, <2>1 DEF ScanUpsert, NextItem, TypeOK, SPc
<1>6. ASSUME NEW o \in Orphan, ScanCheck(o) PROVE TypeOK'
  BY <1>6 DEF ScanCheck, NextItem, TypeOK, SPc
<1>7. ASSUME NEW o \in Orphan, ScanOpen(o) PROVE TypeOK'
  <2>1. sOpen' \in {0} \cup Id
    BY <1>7 DEF ScanOpen, Open, Plans
  <2> QED
    BY <1>7, <2>1 DEF ScanOpen, TypeOK, SPc
<1>8. ASSUME NEW o \in Orphan, ScanSave(o) PROVE TypeOK'
  <2>1. plan' \in [Id -> PlanRow]
    <3>1. ASSUME NewPlan(o) PROVE plan' \in [Id -> PlanRow]
      BY <3>1, OneInId DEF NewPlan, TypeOK, PlanRow, Status
    <3>2. ASSUME Rewrite PROVE plan' \in [Id -> PlanRow]
      <4>1. /\ sOpen \in Id /\ plan[sOpen] \in PlanRow
            /\ plan' = [plan EXCEPT ![sOpen] =
                         [plan[sOpen] EXCEPT !.status = "draft", !.rows = Fresh]]
        BY <3>2 DEF Rewrite, TypeOK, PlanRow
      <4>2. [plan[sOpen] EXCEPT !.status = "draft", !.rows = Fresh] \in PlanRow
        BY <4>1, OneInId DEF PlanRow, Status
      <4> QED
        BY <4>1, <4>2 DEF TypeOK, PlanRow
    <3> QED
      BY <1>8, <3>1, <3>2 DEF ScanSave, RefuseSave, TypeOK, PlanRow
  <2> QED
    BY <1>8, <2>1 DEF ScanSave, NextItem, TypeOK, SPc, PlanRow
<1>9. CASE UNCHANGED vars
  BY <1>9 DEF vars, TypeOK
<1> QED
  BY <1>1, <1>2, <1>3, <1>4, <1>5, <1>6, <1>7, <1>8, <1>9 DEF Scan

\* The handler's own variables keep their types, and so do the counters.
HandlerType ==
    /\ xAt \in XPc /\ xPlan \in Id /\ xRun \subseteq Steps /\ xTodo \subseteq xRun
    /\ xMem \in Rows /\ xFailed \in BOOLEAN

LEMMA IdleType == Idle => HandlerType'
BY OneInId DEF Idle, HandlerType, XPc

LEMMA BeginType ==
    ASSUME TypeOK, NEW p \in Id, Begin(p), xAt' \in XPc, xRun' \subseteq Steps,
           xTodo' = xRun'
    PROVE  TypeOK'
<1>1. plan[p].of \in Orphan /\ plan[p].rows \in Rows
  BY DEF TypeOK
<1>2. wish' \in [Orphan -> Wish] /\ moved' \subseteq Orphan
  BY <1>1 DEF Begin, TypeOK, Wish
<1> QED
  BY <1>1, <1>2, CountType DEF Begin, ExecOnly, scanVars, TypeOK, Events

\* The rows of the plan in a run, once its results are recorded.
LEMMA RecordType == TypeOK /\ Record => plan' \in [Id -> PlanRow]
<1> SUFFICES ASSUME TypeOK, Record PROVE plan' \in [Id -> PlanRow]
  OBVIOUS
<1> DEFINE new == [s \in Steps |-> IF s \in xRun THEN xMem[s] ELSE plan[xPlan].rows[s]]
<1>1. xPlan \in Id /\ plan[xPlan] \in PlanRow /\ xMem \in Rows
  BY DEF TypeOK, PlanRow
<1>2. new \in Rows
  BY <1>1 DEF Rows, PlanRow
<1>3. plan' = [plan EXCEPT ![xPlan] = [plan[xPlan] EXCEPT !.rows = new]]
  BY <1>1 DEF Record, TypeOK, PlanRow
<1> HIDE DEF new
<1> QED
  BY <1>1, <1>2, <1>3 DEF TypeOK, PlanRow

LEMMA ExecType == TypeOK /\ Execute => TypeOK'
<1> SUFFICES ASSUME TypeOK, Execute PROVE TypeOK'
  OBVIOUS
<1> USE DEF scanVars, execVars, ExecOnly
<1>r. /\ xPlan \in Id /\ plan[xPlan].of \in Orphan
      /\ \A s \in xTodo : s \in Steps
  BY DEF TypeOK
<1>1. ASSUME NEW p \in Id, ExecRead(p) PROVE TypeOK'
  BY <1>1, BeginType DEF ExecRead, XPc
<1>2. CASE Preflight
  <2>1. plan' \in [Id -> PlanRow]
    BY <1>2, <1>r, StatusType DEF Preflight, Status
  <2>2. HandlerType'
    BY <1>2, IdleType DEF Preflight, TypeOK, HandlerType, XPc
  <2> QED
    BY <1>2, <2>1, <2>2 DEF Preflight, TypeOK, HandlerType, PlanRow
<1>3. ASSUME NEW s \in xTodo, StepBefore(s) PROVE TypeOK'
  <2>1. plan' \in [Id -> PlanRow]
    BY <1>3, <1>r, RowType DEF StepBefore, RowState
  <2>2. xMem' \in Rows
    BY <1>3, <1>r DEF StepBefore, TypeOK, Rows, RowState
  <2> QED
    BY <1>3, <2>1, <2>2 DEF StepBefore, RunOnly, TypeOK, PlanRow, XPc
<1>4. ASSUME NEW s \in xTodo, StepPlace(s) PROVE TypeOK'
  <2>1. disk' \in [Orphan -> [Steps -> {NoFile, Foreign} \cup Id]]
    BY <1>4, <1>r DEF StepPlace, TypeOK
  <2> QED
    BY <1>4, <2>1 DEF StepPlace, RunOnly, TypeOK, XPc
<1>5. ASSUME NEW s \in xTodo, StepSkip(s) PROVE TypeOK'
  <2>1. xMem' \in Rows
    BY <1>5, <1>r DEF StepSkip, TypeOK, Rows, RowState
  <2> QED
    BY <1>5, <2>1 DEF StepSkip, RunOnly, TypeOK, XPc
<1>6. ASSUME NEW s \in xTodo, StepFail(s) PROVE TypeOK'
  <2>1. xMem' \in Rows
    BY <1>6, <1>r DEF StepFail, TypeOK, Rows, RowState
  <2> QED
    BY <1>6, <2>1 DEF StepFail, RunOnly, TypeOK, XPc
<1>7. ASSUME NEW s \in xTodo, StepAfter(s) PROVE TypeOK'
  <2>1. plan' \in [Id -> PlanRow]
    BY <1>7, <1>r, RowType DEF StepAfter, RowState, Done
  <2>2. xMem' \in Rows
    BY <1>7, <1>r DEF StepAfter, TypeOK, Rows, RowState, Done
  <2> QED
    BY <1>7, <2>1, <2>2 DEF StepAfter, RunOnly, TypeOK, PlanRow, XPc
<1>8. CASE RunEnd
  BY <1>8 DEF RunEnd, RunOnly, TypeOK, XPc
<1>9. CASE Record
  BY <1>9, RecordType DEF Record, RunOnly, TypeOK, PlanRow, XPc
<1>10. CASE Finish
  <2>1. plan' \in [Id -> PlanRow]
    BY <1>10, <1>r, StatusType DEF Finish, Status
  <2>2. HandlerType'
    BY <1>10, IdleType DEF Finish, TypeOK, HandlerType, XPc
  <2> QED
    BY <1>10, <2>1, <2>2 DEF Finish, TypeOK, HandlerType, PlanRow
<1>11. CASE Filed
  <2>1. orphan' \in [Orphan -> OrphanState]
    BY <1>11, <1>r DEF Filed, TypeOK, OrphanState
  <2> QED
    BY <1>11, <2>1 DEF Filed, TypeOK, XPc
<1>12. CASE Tag
  <2>1. HandlerType' /\ tagged' \subseteq Orphan
    BY <1>12, <1>r, IdleType DEF Tag, TypeOK
  <2> QED
    BY <1>12, <2>1 DEF Tag, TypeOK, HandlerType
<1> QED
  BY <1>1, <1>2, <1>3, <1>4, <1>5, <1>6, <1>7, <1>8, <1>9, <1>10, <1>11, <1>12
  DEF Execute

LEMMA UndoType == TypeOK /\ Undo => TypeOK'
<1> SUFFICES ASSUME TypeOK, Undo PROVE TypeOK'
  OBVIOUS
<1> USE DEF scanVars, execVars, ExecOnly
<1>r. xPlan \in Id /\ plan[xPlan].of \in Orphan /\ \A s \in xTodo : s \in Steps
  BY DEF TypeOK
<1>1. ASSUME NEW p \in Id, UndoRead(p) PROVE TypeOK'
  BY <1>1, BeginType DEF UndoRead, Claimed, XPc
<1>2. ASSUME NEW s \in xTodo, UndoStep(s) PROVE TypeOK'
  <2>1. disk' \in [Orphan -> [Steps -> {NoFile, Foreign} \cup Id]]
    <3>1. CASE UNCHANGED disk
      BY <3>1 DEF TypeOK
    <3>2. CASE disk' = [disk EXCEPT ![plan[xPlan].of][s] = NoFile]
      BY <3>2, <1>r DEF TypeOK
    <3> QED
      BY <1>2, <3>1, <3>2 DEF UndoStep
  <2> QED
    BY <1>2, <2>1 DEF UndoStep, RunOnly, TypeOK
<1>3. CASE UndoFinish
  <2>1. plan' \in [Id -> PlanRow]
    BY <1>3, <1>r, StatusType DEF UndoFinish, Status
  <2>2. HandlerType'
    BY <1>3, IdleType DEF UndoFinish, TypeOK, HandlerType, XPc
  <2> QED
    BY <1>3, <2>1, <2>2 DEF UndoFinish, TypeOK, HandlerType, PlanRow
<1>4. CASE UndoMark
  <2>1. orphan' \in [Orphan -> OrphanState]
    BY <1>4, <1>r DEF UndoMark, TypeOK, OrphanState
  <2> QED
    BY <1>4, <2>1, IdleType DEF UndoMark, TypeOK, HandlerType
<1> QED
  BY <1>1, <1>2, <1>3, <1>4 DEF Undo

\* What the startup repair makes of a row.
LEMMA RepairedRow ==
    ASSUME NEW row \in RowState, NEW file, NEW sized
    PROVE  /\ Repaired(row, file, sized) \in RowState
           /\ row # "in_progress" => Repaired(row, file, sized) = row
BY DEF Repaired, RowState, Done

LEMMA BootType == TypeOK /\ Boot => TypeOK'
<1> SUFFICES ASSUME TypeOK, Boot PROVE TypeOK'
  OBVIOUS
<1>1. CASE UNCHANGED plan
  BY <1>1 DEF Boot, scanVars, execVars, TypeOK
<1>2. ASSUME NEW sized,
             plan' = [p \in Id |->
               [of |-> plan[p].of, status |-> Released(plan[p].status),
                rows |-> [s \in Steps |->
                  Repaired(plan[p].rows[s], disk[plan[p].of][s], s \in sized)]]]
      PROVE  plan' \in [Id -> PlanRow]
  <2>1. ASSUME NEW p \in Id PROVE plan'[p] \in PlanRow
    <3>1. plan[p].of \in Orphan /\ plan[p].status \in Status /\ plan[p].rows \in Rows
      BY DEF TypeOK
    <3>2. Released(plan[p].status) \in Status
      BY <3>1 DEF Released, Status
    <3>3. \A s \in Steps :
            Repaired(plan[p].rows[s], disk[plan[p].of][s], s \in sized) \in RowState
      BY <3>1, RepairedRow DEF Rows
    <3> QED
      BY <1>2, <3>1, <3>2, <3>3 DEF PlanRow, Rows
  <2> QED
    BY <1>2, <2>1
<1>3. UNCHANGED plan \/ plan' \in [Id -> PlanRow]
  BY <1>2 DEF Boot
<1> QED
  BY <1>1, <1>3 DEF Boot, scanVars, execVars, TypeOK, PlanRow

LEMMA OtherType ==
    TypeOK /\ ((\E o \in Orphan : Ignore(o)) \/ Crash \/ Boot) => TypeOK'
<1> SUFFICES ASSUME TypeOK, (\E o \in Orphan : Ignore(o)) \/ Crash \/ Boot PROVE TypeOK'
  OBVIOUS
<1>1. ASSUME NEW o \in Orphan, Ignore(o) PROVE TypeOK'
  <2>1. orphan' \in [Orphan -> OrphanState] /\ wish' \in [Orphan -> Wish]
    BY <1>1 DEF Ignore, TypeOK, OrphanState, Wish
  <2> QED
    BY <1>1, <2>1, CountType DEF Ignore, TypeOK, scanVars, execVars, Events
<1>2. CASE Crash
  BY <1>2, CountType, IdleType, OneInId
  DEF Crash, TypeOK, HandlerType, SPc, Events
<1> QED
  BY <1>1, <1>2, BootType

LEMMA NextType == TypeOK /\ [Next]_vars => TypeOK'
BY ScanType, ExecType, UndoType, OtherType DEF Next

\* No interleaving of scans, handlers, ignores and restarts leaves a plan, an
\* orphan or a process in a state the code does not know.
THEOREM QueueTypeCorrect == Spec => []TypeOK
BY InitType, NextType, PTL DEF Spec

-----------------------------------------------------------------------------
(* Claims are never erased *)

\* Where the handler is in a run, up to the write of its results.
Running == xAt \in {"preflight", "step", "place", "after", "record"}

\* A row of the run that is claimed in the store is claimed in memory.
MemoryKnows ==
    Running => \A s \in xRun :
                 plan[xPlan].rows[s] = "placed" => xMem[s] = "placed"

\* A step still to be done is not claimed in memory.
TodoUnclaimed ==
    Running => \A s \in xTodo : xMem[s] # "placed"

\* A plan that does not exist claims nothing, and no handler works on one.
NothingBlank ==
    /\ \A p \in Id : plan[p].status = "none" => Claimed(p) = {}
    /\ xAt # "idle" => plan[xPlan].status # "none"

ClaimInv == MemoryKnows /\ TodoUnclaimed /\ NothingBlank

LEMMA ClaimInit == Init => ClaimInv
BY DEF Init, ClaimInv, MemoryKnows, TodoUnclaimed, NothingBlank, Running, Claimed, Fresh

\* What a step does to the claims of a plan.
Keeps(p) == \A s \in Steps : plan[p].rows[s] = "placed" => plan'[p].rows[s] = "placed"

\* A change of one plan's status changes no row.
LEMMA StatusKeeps ==
    ASSUME TypeOK, NEW p \in Id, NEW st, SetStatus(p, st)
    PROVE  /\ \A q \in Id : plan'[q].rows = plan[q].rows
           /\ \A q \in Id \ {p} : plan'[q] = plan[q]
           /\ plan'[p].status = st
BY DEF SetStatus, TypeOK

\* A change of one row changes no other, and no status.
LEMMA RowKeeps ==
    ASSUME TypeOK, NEW p \in Id, NEW s \in Steps, NEW r, SetRow(p, s, r)
    PROVE  /\ \A q \in Id : plan'[q].status = plan[q].status
           /\ \A q \in Id \ {p} : plan'[q] = plan[q]
           /\ plan'[p].rows[s] = r
           /\ \A u \in Steps \ {s} : plan'[p].rows[u] = plan[p].rows[u]
<1>1. plan[p].rows \in [Steps -> RowState]
  BY DEF TypeOK, Rows
<1> QED
  BY <1>1 DEF SetRow, TypeOK

\* A scan writes to plans that claim nothing, and gives an orphan only a plan
\* that was not there.
ScanWritesTo(p) ==
    /\ Claimed(p) = {}
    /\ \A q \in Id \ {p} : plan'[q] = plan[q]
    /\ plan'[p].status = "draft" /\ plan'[p].rows = Fresh
    /\ plan[p].status = "none" \/ plan'[p].of = plan[p].of

LEMMA ScanWrites ==
    ASSUME TypeOK, ClaimInv, Scan
    PROVE  /\ UNCHANGED execVars
           /\ UNCHANGED plan \/ \E p \in Id : ScanWritesTo(p)
<1> USE DEF ScanOnly
<1>1. UNCHANGED execVars
  BY DEF Scan, ScanStart, ScanList, ScanEnd, ScanItem, ScanUpsert, ScanCheck,
         ScanOpen, ScanSave
<1>2. UNCHANGED plan \/ \E o \in Orphan : NewPlan(o) \/ Rewrite
  BY DEF Scan, ScanStart, ScanList, ScanEnd, ScanItem, ScanUpsert, ScanCheck,
         ScanOpen, ScanSave, RefuseSave
<1>3. ASSUME NEW o \in Orphan, NewPlan(o) PROVE \E p \in Id : ScanWritesTo(p)
  BY <1>3 DEF NewPlan, TypeOK, ClaimInv, NothingBlank, ScanWritesTo
<1>4. ASSUME Rewrite PROVE \E p \in Id : ScanWritesTo(p)
  <2>1. sOpen \in Id
    BY <1>4 DEF Rewrite, TypeOK
  <2>2. /\ \A q \in Id \ {sOpen} : plan'[q] = plan[q]
        /\ plan'[sOpen].status = "draft" /\ plan'[sOpen].rows = Fresh
        /\ plan'[sOpen].of = plan[sOpen].of
    BY <1>4, <2>1 DEF Rewrite, TypeOK
  <2> QED
    BY <1>4, <2>1, <2>2 DEF Rewrite, ScanWritesTo
<1> QED
  BY <1>1, <1>2, <1>3, <1>4

LEMMA ScanClaims ==
    ASSUME TypeOK, ClaimInv, Scan
    PROVE  ClaimInv' /\ \A p \in Id : Keeps(p)
<1>1. /\ Running' = Running /\ xRun' = xRun /\ xTodo' = xTodo /\ xMem' = xMem
      /\ xPlan' = xPlan /\ xAt' = xAt
  BY ScanWrites DEF execVars, Running
<1>2. CASE UNCHANGED plan
  BY <1>1, <1>2 DEF ClaimInv, MemoryKnows, TodoUnclaimed, NothingBlank, Claimed, Keeps
<1>3. ASSUME NEW p \in Id, ScanWritesTo(p) PROVE ClaimInv' /\ \A q \in Id : Keeps(q)
  <2> USE <1>3 DEF ScanWritesTo
  <2>1. \A s \in Steps : plan'[p].rows[s] # "placed"
    BY <1>3 DEF Fresh
  <2>2. xPlan \in Id /\ xRun \subseteq Steps
    BY DEF TypeOK
  <2>3. MemoryKnows'
    BY <1>1, <1>3, <2>1, <2>2 DEF ClaimInv, MemoryKnows
  <2>4. TodoUnclaimed'
    BY <1>1 DEF ClaimInv, TodoUnclaimed
  <2>5. NothingBlank'
    BY <1>1, <1>3, <2>2 DEF ClaimInv, NothingBlank, Claimed
  <2>6. \A q \in Id : Keeps(q)
    BY <1>3 DEF Keeps, Claimed
  <2> QED
    BY <2>3, <2>4, <2>5, <2>6 DEF ClaimInv
<1> QED
  BY <1>2, <1>3, ScanWrites

\* Where the rows stay as they are, and no status becomes "none", the claims do.
LEMMA RowsStay ==
    ASSUME TypeOK, ClaimInv, \A q \in Id : plan'[q].rows = plan[q].rows,
           \A q \in Id : plan'[q].status = "none" => plan[q].status = "none",
           xAt' # "idle" => plan'[xPlan'].status # "none"
    PROVE  NothingBlank' /\ \A q \in Id : Keeps(q)
BY DEF ClaimInv, NothingBlank, Claimed, Keeps

\* The handler's variables at the end, or past the run, claim nothing.
LEMMA NotRunning == ASSUME ~Running' PROVE MemoryKnows' /\ TodoUnclaimed'
BY DEF MemoryKnows, TodoUnclaimed

LEMMA ExecClaims ==
    ASSUME TypeOK, ClaimInv, Execute
    PROVE  ClaimInv' /\ \A p \in Id : Keeps(p)
<1> USE DEF ExecOnly, RunOnly
<1>r. /\ xPlan \in Id /\ xRun \subseteq Steps /\ xTodo \subseteq xRun
      /\ \A s \in xTodo : s \in Steps
      /\ xMem \in [Steps -> RowState]
      /\ plan[xPlan].rows \in [Steps -> RowState]
  BY DEF TypeOK, Rows
<1>i. MemoryKnows /\ TodoUnclaimed /\ NothingBlank
  BY DEF ClaimInv
<1>1. ASSUME NEW p \in Id, ExecRead(p) PROVE ClaimInv' /\ \A q \in Id : Keeps(q)
  <2>1. /\ UNCHANGED plan /\ xPlan' = p /\ xMem' = plan[p].rows
        /\ xRun' = {s \in Steps : plan[p].rows[s] \notin Done} /\ xTodo' = xRun'
    BY <1>1 DEF ExecRead, Begin
  <2>2. MemoryKnows' /\ TodoUnclaimed'
    BY <2>1 DEF MemoryKnows, TodoUnclaimed, Done
  <2>3. plan[p].status # "none"
    BY <1>1, OfferedAssumption DEF ExecRead
  <2>4. NothingBlank' /\ \A q \in Id : Keeps(q)
    BY <1>i, <2>1, <2>3 DEF NothingBlank, Claimed, Keeps
  <2> QED
    BY <2>2, <2>4 DEF ClaimInv
<1>2. CASE Preflight
  <2>1. PICK st \in {"done", "blocked", "executing"} : SetStatus(xPlan, st)
    BY <1>2 DEF Preflight
  <2>2. /\ \A q \in Id : plan'[q].rows = plan[q].rows
        /\ \A q \in Id \ {xPlan} : plan'[q] = plan[q]
        /\ plan'[xPlan].status = st
    BY <1>r, <2>1, StatusKeeps
  <2>3. \/ xAt' = "idle"
        \/ xAt' = "step" /\ UNCHANGED <<xPlan, xRun, xTodo, xMem>>
    BY <1>2 DEF Preflight, Idle
  <2>4. MemoryKnows' /\ TodoUnclaimed'
    <3>1. CASE xAt' = "idle"
      BY <3>1, NotRunning DEF Running
    <3>2. CASE xAt' = "step" /\ UNCHANGED <<xPlan, xRun, xTodo, xMem>>
      <4>1. Running
        BY <1>2 DEF Preflight, Running
      <4> QED
        BY <1>i, <1>r, <2>2, <3>2, <4>1 DEF MemoryKnows, TodoUnclaimed
    <3> QED
      BY <2>3, <3>1, <3>2
  <2>5. NothingBlank' /\ \A q \in Id : Keeps(q)
    BY <1>r, <2>2, <2>3, RowsStay
  <2> QED
    BY <2>4, <2>5 DEF ClaimInv
<1>3. ASSUME NEW s \in xTodo, NEW r \in {"in_progress", "placed"},
             Running, xAt # "idle", xPlan' = xPlan, xRun' = xRun,
             SetRow(xPlan, s, r), xMem' = [xMem EXCEPT ![s] = r],
             xTodo' \subseteq xTodo, r = "placed" => s \notin xTodo'
      PROVE  ClaimInv' /\ \A q \in Id : Keeps(q)
  <2>1. /\ \A q \in Id : plan'[q].status = plan[q].status
        /\ \A q \in Id \ {xPlan} : plan'[q] = plan[q]
        /\ plan'[xPlan].rows[s] = r
        /\ \A u \in Steps \ {s} : plan'[xPlan].rows[u] = plan[xPlan].rows[u]
    BY <1>3, <1>r, RowKeeps
  <2>2. xMem'[s] = r /\ \A u \in Steps \ {s} : xMem'[u] = xMem[u]
    BY <1>3, <1>r
  <2>3. plan[xPlan].rows[s] # "placed"
    BY <1>3, <1>i, <1>r DEF MemoryKnows, TodoUnclaimed
  <2>4. MemoryKnows'
    BY <1>3, <1>i, <1>r, <2>1, <2>2 DEF MemoryKnows
  <2>5. TodoUnclaimed'
    BY <1>3, <1>i, <1>r, <2>2 DEF TodoUnclaimed
  <2>6. \A q \in Id : Keeps(q)
    BY <2>1, <2>3 DEF Keeps
  <2>7. plan[xPlan].status # "none"
    BY <1>3, <1>i DEF NothingBlank
  <2>8. NothingBlank'
    BY <1>3, <1>i, <1>r, <2>1, <2>7 DEF NothingBlank, Claimed
  <2> QED
    BY <2>4, <2>5, <2>6, <2>8 DEF ClaimInv
<1>4. ASSUME NEW s \in xTodo, StepBefore(s) PROVE ClaimInv' /\ \A q \in Id : Keeps(q)
  BY <1>3, <1>4 DEF StepBefore, Running
<1>5. ASSUME NEW s \in xTodo, StepAfter(s) PROVE ClaimInv' /\ \A q \in Id : Keeps(q)
  BY <1>3, <1>5 DEF StepAfter, Running
<1>6. ASSUME UNCHANGED <<plan, xPlan, xRun>>, Running, xAt # "idle",
             xTodo' \subseteq xTodo,
             \/ UNCHANGED xMem
             \/ \E s \in xTodo, r \in {"skipped", "failed"} :
                  xMem' = [xMem EXCEPT ![s] = r]
      PROVE  ClaimInv' /\ \A q \in Id : Keeps(q)
  <2>1. \A u \in Steps : xMem'[u] = xMem[u] \/ (u \in xTodo /\ xMem'[u] # "placed")
    BY <1>6, <1>r
  <2>2. MemoryKnows' /\ TodoUnclaimed'
    BY <1>6, <1>i, <1>r, <2>1 DEF MemoryKnows, TodoUnclaimed
  <2>3. NothingBlank' /\ \A q \in Id : Keeps(q)
    BY <1>6, <1>i DEF NothingBlank, Claimed, Keeps
  <2> QED
    BY <2>2, <2>3 DEF ClaimInv
<1>7. ASSUME NEW s \in xTodo, StepPlace(s) \/ StepSkip(s) \/ StepFail(s)
      PROVE  ClaimInv' /\ \A q \in Id : Keeps(q)
  BY <1>6, <1>7 DEF StepPlace, StepSkip, StepFail, Running
<1>8. CASE RunEnd
  BY <1>6, <1>8 DEF RunEnd, Running
<1>9. CASE Record
  <2>1. /\ \A q \in Id : plan'[q].status = plan[q].status
        /\ \A q \in Id \ {xPlan} : plan'[q] = plan[q]
        /\ \A s \in xRun : plan'[xPlan].rows[s] = xMem[s]
        /\ \A s \in Steps \ xRun : plan'[xPlan].rows[s] = plan[xPlan].rows[s]
    BY <1>9, <1>r DEF Record, TypeOK
  <2>2. MemoryKnows' /\ TodoUnclaimed'
    BY <1>9, NotRunning DEF Record, Running
  <2>3. \A q \in Id : Keeps(q)
    BY <1>9, <1>i, <1>r, <2>1 DEF Record, MemoryKnows, Running, Keeps
  <2>4. plan[xPlan].status # "none"
    BY <1>9, <1>i DEF NothingBlank, Record
  <2>5. NothingBlank'
    BY <1>9, <1>i, <1>r, <2>1, <2>4 DEF NothingBlank, Claimed, Record
  <2> QED
    BY <2>2, <2>3, <2>5 DEF ClaimInv
<1>10. CASE Finish
  <2>1. PICK st \in {"failed", "partial", "done"} : SetStatus(xPlan, st)
    BY <1>10 DEF Finish
  <2>2. /\ \A q \in Id : plan'[q].rows = plan[q].rows
        /\ \A q \in Id \ {xPlan} : plan'[q] = plan[q]
        /\ plan'[xPlan].status = st
    BY <1>r, <2>1, StatusKeeps
  <2>3. xAt' = "idle" \/ (xAt' = "filed" /\ xPlan' = xPlan)
    BY <1>10 DEF Finish, Idle
  <2>4. NothingBlank' /\ \A q \in Id : Keeps(q)
    BY <1>r, <2>2, <2>3, RowsStay
  <2> QED
    BY <2>3, <2>4, NotRunning DEF ClaimInv, Running
<1>11. CASE Filed \/ Tag
  <2>1. UNCHANGED plan /\ ~Running' /\ (xAt' = "idle" \/ (xAt # "idle" /\ xPlan' = xPlan))
    BY <1>11 DEF Filed, Tag, Idle, Running
  <2>2. NothingBlank' /\ \A q \in Id : Keeps(q)
    BY <1>i, <2>1 DEF NothingBlank, Claimed, Keeps
  <2> QED
    BY <2>1, <2>2, NotRunning DEF ClaimInv
<1> QED
  BY <1>1, <1>2, <1>4, <1>5, <1>7, <1>8, <1>9, <1>10, <1>11 DEF Execute

LEMMA UndoClaims ==
    ASSUME TypeOK, ClaimInv, Undo
    PROVE  ClaimInv' /\ \A p \in Id : Keeps(p)
<1> USE DEF ExecOnly, RunOnly
<1>r. xPlan \in Id
  BY DEF TypeOK
<1>n. ~Running'
  BY DEF Undo, UndoRead, UndoStep, UndoFinish, UndoMark, Idle, Running
<1>1. ASSUME NEW p \in Id, UndoRead(p) PROVE NothingBlank' /\ \A q \in Id : Keeps(q)
  BY <1>1 DEF UndoRead, Begin, ClaimInv, NothingBlank, Claimed, Keeps
<1>2. ASSUME UndoMark \/ \E s \in xTodo : UndoStep(s)
      PROVE  NothingBlank' /\ \A q \in Id : Keeps(q)
  <2>1. UNCHANGED plan /\ (xAt' = "idle" \/ (xAt # "idle" /\ xPlan' = xPlan))
    BY <1>2 DEF UndoMark, UndoStep, Idle
  <2> QED
    BY <2>1 DEF ClaimInv, NothingBlank, Claimed, Keeps
<1>3. ASSUME UndoFinish PROVE NothingBlank' /\ \A q \in Id : Keeps(q)
  <2>1. PICK st \in {"undo_failed", "undone"} : SetStatus(xPlan, st)
    BY <1>3 DEF UndoFinish
  <2>2. /\ \A q \in Id : plan'[q].rows = plan[q].rows
        /\ \A q \in Id \ {xPlan} : plan'[q] = plan[q]
        /\ plan'[xPlan].status = st
    BY <1>r, <2>1, StatusKeeps
  <2>3. xAt' = "idle" \/ xPlan' = xPlan
    BY <1>3 DEF UndoFinish, Idle
  <2> QED
    BY <1>r, <2>2, <2>3, RowsStay
<1>4. NothingBlank' /\ \A q \in Id : Keeps(q)
  BY <1>1, <1>2, <1>3 DEF Undo
<1> QED
  BY <1>n, <1>4, NotRunning DEF ClaimInv

\* The startup repair marks rows done, it claims none and lets go of none.
LEMMA BootClaims ==
    ASSUME TypeOK, ClaimInv, Boot
    PROVE  /\ \A p \in Id : Claimed(p)' = Claimed(p) /\ Keeps(p)
           /\ \A p \in Id : plan'[p].status = "none" <=> plan[p].status = "none"
           /\ \A p \in Id, s \in Steps :
                plan'[p].rows[s] = "placed" <=> plan[p].rows[s] = "placed"
<1>1. CASE UNCHANGED plan
  BY <1>1 DEF Claimed, Keeps
<1>2. ASSUME NEW sized,
             plan' = [p \in Id |->
               [of |-> plan[p].of, status |-> Released(plan[p].status),
                rows |-> [s \in Steps |->
                  Repaired(plan[p].rows[s], disk[plan[p].of][s], s \in sized)]]],
             NEW p \in Id
      PROVE  /\ plan'[p].status = "none" <=> plan[p].status = "none"
             /\ \A s \in Steps :
                  plan'[p].rows[s] = "placed" <=> plan[p].rows[s] = "placed"
  <2>1. plan'[p].status = Released(plan[p].status)
    BY <1>2
  <2>2. \A s \in Steps : plan'[p].rows[s] =
                           Repaired(plan[p].rows[s], disk[plan[p].of][s], s \in sized)
    BY <1>2
  <2> QED
    BY <2>1, <2>2 DEF Released, Repaired
<1>3. CASE ~UNCHANGED plan
  <2>1. PICK sized \in SUBSET Steps :
               plan' = [p \in Id |->
                 [of |-> plan[p].of, status |-> Released(plan[p].status),
                  rows |-> [s \in Steps |->
                    Repaired(plan[p].rows[s], disk[plan[p].of][s], s \in sized)]]]
    BY <1>3 DEF Boot
  <2>2. \A p \in Id : /\ plan'[p].status = "none" <=> plan[p].status = "none"
                      /\ \A s \in Steps :
                           plan'[p].rows[s] = "placed" <=> plan[p].rows[s] = "placed"
    BY <1>2, <2>1
  <2> QED
    BY <2>2 DEF Claimed, Keeps
<1> QED
  BY <1>1, <1>3

LEMMA OtherClaims ==
    ASSUME TypeOK, ClaimInv, (\E o \in Orphan : Ignore(o)) \/ Crash \/ Boot
    PROVE  ClaimInv' /\ \A p \in Id : Keeps(p)
<1>1. CASE \E o \in Orphan : Ignore(o)
  BY <1>1
  DEF Ignore, execVars, ClaimInv, MemoryKnows, TodoUnclaimed, NothingBlank, Running,
      Claimed, Keeps
<1>2. CASE Crash
  <2>1. UNCHANGED plan /\ xAt' = "idle" /\ ~Running'
    BY <1>2 DEF Crash, Idle, Running
  <2> QED
    BY <2>1, NotRunning DEF ClaimInv, NothingBlank, Claimed, Keeps
<1>3. CASE Boot
  <2>1. UNCHANGED execVars /\ xPlan \in Id /\ xRun \subseteq Steps
    BY <1>3 DEF Boot, TypeOK
  <2>2. MemoryKnows'
    BY <1>3, <2>1, BootClaims DEF ClaimInv, MemoryKnows, Running, execVars
  <2>3. TodoUnclaimed'
    BY <2>1 DEF ClaimInv, TodoUnclaimed, Running, execVars
  <2>4. NothingBlank'
    BY <1>3, <2>1, BootClaims DEF ClaimInv, NothingBlank, execVars
  <2> QED
    BY <1>3, <2>2, <2>3, <2>4, BootClaims DEF ClaimInv
<1> QED
  BY <1>1, <1>2, <1>3

LEMMA NextClaims ==
    ASSUME TypeOK, ClaimInv, [Next]_vars
    PROVE  ClaimInv' /\ \A p \in Id : Keeps(p)
<1>1. CASE UNCHANGED vars
  BY <1>1
  DEF vars, execVars, ClaimInv, MemoryKnows, TodoUnclaimed, NothingBlank, Running,
      Claimed, Keeps
<1> QED
  BY <1>1, ScanClaims, ExecClaims, UndoClaims, OtherClaims DEF Next

\* The undo record survives the queue: SavePlan rewrites only plans that claim
\* nothing, and a handler that writes rows from what it read at the start takes
\* back no claim, wherever scans, crashes and restarts come in between.
THEOREM ClaimsNeverErasedHolds == Spec => ClaimsNeverErased
<1>1. TypeOK /\ ClaimInv /\ [Next]_vars => ClaimInv'
  BY NextClaims
<1>2. TypeOK /\ ClaimInv /\ [Next]_vars
      => [\A p \in Id, s \in Steps :
            plan[p].rows[s] = "placed" => plan'[p].rows[s] = "placed"]_vars
  BY NextClaims DEF Keeps
<1> QED
  BY <1>1, <1>2, ClaimInit, QueueTypeCorrect, PTL DEF Spec, ClaimsNeverErased

-----------------------------------------------------------------------------
(* A plan is done when its files are placed *)

\* A handler and a scan end with the process.
DownIsIdle == ~up => sAt = "idle" /\ xAt = "idle"

\* Only the startup repair marks a row done without a claim.
NoneFound ==
    used["crash"] = 0 =>
      /\ up
      /\ \A s \in Steps : xMem[s] # "found"
      /\ \A p \in Id, s \in Steps : plan[p].rows[s] # "found"

\* What a run leaves out is claimed.
RestPlaced ==
    used["crash"] = 0 /\ (Running \/ xAt = "finish") =>
      \A s \in Steps \ xRun : plan[xPlan].rows[s] = "placed"

\* A step a run has behind it was placed or skipped, unless the run failed; once
\* the results are in the store, the placed ones are claimed there.
TreatedPlaced ==
    /\ xAt \in {"preflight", "step", "place", "after"} =>
         ~xFailed /\ \A s \in xRun \ xTodo : xMem[s] \in {"placed", "skipped"}
    /\ xAt = "record" /\ ~xFailed => \A s \in xRun : xMem[s] \in {"placed", "skipped"}
    /\ xAt = "finish" /\ ~xFailed /\ ~Skipped =>
         \A s \in xRun : plan[xPlan].rows[s] = "placed"

DoneInv == DownIsIdle /\ NoneFound /\ RestPlaced /\ TreatedPlaced /\ DoneMeansPlaced

LEMMA DoneInit == Init => DoneInv
BY DEF Init, DoneInv, DownIsIdle, NoneFound, RestPlaced, TreatedPlaced, DoneMeansPlaced,
       Running, Fresh

\* Only Crash counts as a crash.
LEMMA CrashCount ==
    ASSUME TypeOK, [Next]_vars
    PROVE  \/ Crash /\ used["crash"] \in Nat /\ used'["crash"] = used["crash"] + 1
           \/ ~Crash /\ used'["crash"] = used["crash"]
<1>1. used \in [Events -> Nat] /\ "crash" \in Events
  BY DEF TypeOK, Events
<1>2. ASSUME NEW e \in Events \ {"crash"}, Happens(e) PROVE used'["crash"] = used["crash"]
  BY <1>1, <1>2 DEF Happens
<1>3. CASE Crash
  BY <1>1, <1>3 DEF Crash, Happens
<1>4. ASSUME Scan PROVE used'["crash"] = used["crash"]
  BY <1>2, <1>4
  DEF Scan, ScanStart, ScanList, ScanEnd, ScanItem, ScanUpsert, ScanCheck, ScanOpen, ScanSave,
      Events
<1>5. ASSUME Execute PROVE used'["crash"] = used["crash"]
  BY <1>2, <1>5
  DEF Execute, ExecRead, Begin, Preflight, StepBefore, StepPlace, StepSkip, StepFail, StepAfter,
      RunEnd, Record, Finish, Filed, Tag, RunOnly, Events
<1>6. ASSUME Undo PROVE used'["crash"] = used["crash"]
  BY <1>2, <1>6 DEF Undo, UndoRead, Begin, UndoStep, UndoFinish, UndoMark, RunOnly, Events
<1>7. ASSUME Boot \/ \E o \in Orphan : Ignore(o) PROVE used'["crash"] = used["crash"]
  BY <1>2, <1>7 DEF Boot, Ignore, Events
<1>8. ASSUME UNCHANGED vars PROVE used'["crash"] = used["crash"]
  BY <1>8 DEF vars
<1>9. ~Crash => used'["crash"] = used["crash"]
  BY <1>4, <1>5, <1>6, <1>7, <1>8 DEF Next
<1> QED
  BY <1>3, <1>9

\* A plan that was done, or that stays short of it, keeps the property.
LEMMA DoneKept ==
    ASSUME TypeOK, DoneMeansPlaced, used'["crash"] = used["crash"], \A p \in Id : Keeps(p),
           \A p \in Id : plan'[p].status = "done" =>
              plan[p].status = "done" \/ \A s \in Steps : plan'[p].rows[s] = "placed"
    PROVE  DoneMeansPlaced'
BY DEF DoneMeansPlaced, Claimed, Keeps

LEMMA ScanDone ==
    ASSUME TypeOK, ClaimInv, DoneInv, Scan PROVE DoneInv'
<1>1. UNCHANGED execVars /\ up /\ UNCHANGED up
  BY ScanWrites
  DEF Scan, ScanStart, ScanList, ScanEnd, ScanItem, ScanUpsert, ScanCheck, ScanOpen,
      ScanSave, ScanOnly
<1>2. used'["crash"] = used["crash"]
  <2>1. ~Crash
    BY <1>1 DEF Crash
  <2> QED
    BY <2>1, CrashCount DEF Next
<1>3. DownIsIdle'
  BY <1>1 DEF DownIsIdle
<1> USE DEF execVars
<1>4. CASE UNCHANGED plan
  BY <1>1, <1>2, <1>3, <1>4
  DEF DoneInv, NoneFound, RestPlaced, TreatedPlaced, DoneMeansPlaced, Claimed, Running, Skipped
<1>5. ASSUME NEW p \in Id, ScanWritesTo(p) PROVE DoneInv'
  <2>1. /\ \A q \in Id \ {p} : plan'[q] = plan[q]
        /\ plan'[p].status = "draft"
        /\ \A s \in Steps : plan'[p].rows[s] = "pending" /\ plan[p].rows[s] # "placed"
    BY <1>5 DEF ScanWritesTo, Fresh, Claimed
  <2>2. xPlan \in Id /\ xRun \subseteq Steps
    BY DEF TypeOK
  <2>3. NoneFound'
    BY <1>1, <1>2, <2>1 DEF DoneInv, NoneFound
  <2>4. RestPlaced'
    BY <1>1, <1>2, <2>1, <2>2 DEF DoneInv, RestPlaced, Running
  <2>5. TreatedPlaced'
    <3>1. CASE xPlan = p
      BY <1>1, <2>1, <2>2, <3>1 DEF DoneInv, TreatedPlaced, Skipped
    <3>2. CASE xPlan # p
      BY <1>1, <2>1, <2>2, <3>2 DEF DoneInv, TreatedPlaced, Skipped
    <3> QED
      BY <3>1, <3>2
  <2>6. DoneMeansPlaced'
    BY <1>2, <2>1 DEF DoneInv, DoneMeansPlaced, Claimed
  <2> QED
    BY <1>3, <2>3, <2>4, <2>5, <2>6 DEF DoneInv
<1> QED
  BY <1>4, <1>5, ScanWrites

LEMMA ExecDone ==
    ASSUME TypeOK, ClaimInv, DoneInv, Execute PROVE DoneInv'
<1> USE DEF ExecOnly, RunOnly
<1>r. /\ xPlan \in Id /\ xRun \subseteq Steps /\ xTodo \subseteq xRun
      /\ \A s \in xTodo : s \in Steps
      /\ xMem \in [Steps -> RowState] /\ xFailed \in BOOLEAN
      /\ \A p \in Id : plan[p].rows \in [Steps -> RowState]
  BY DEF TypeOK, Rows
<1>i. NoneFound /\ RestPlaced /\ TreatedPlaced /\ DoneMeansPlaced
  BY DEF DoneInv
<1>u. up /\ UNCHANGED up
  BY DEF Execute, ExecRead, Begin, Preflight, StepBefore, StepPlace, StepSkip, StepFail,
         StepAfter, RunEnd, Record, Finish, Filed, Tag
<1>c. used'["crash"] = used["crash"]
  <2>1. ~Crash
    BY <1>u DEF Crash
  <2> QED
    BY <2>1, CrashCount DEF Next
<1>d. DownIsIdle'
  BY <1>u DEF DownIsIdle
<1>k. \A p \in Id : Keeps(p)
  BY ExecClaims
<1>1. ASSUME NEW p \in Id, ExecRead(p) PROVE DoneInv'
  <2>1. /\ UNCHANGED plan /\ xPlan' = p /\ xMem' = plan[p].rows /\ ~xFailed'
        /\ xRun' = {s \in Steps : plan[p].rows[s] \notin Done} /\ xTodo' = xRun'
        /\ xAt' = "preflight"
    BY <1>1 DEF ExecRead, Begin
  <2>2. NoneFound' /\ RestPlaced'
    BY <1>i, <1>u, <1>c, <2>1 DEF NoneFound, RestPlaced, Done
  <2>3. TreatedPlaced'
    BY <2>1 DEF TreatedPlaced
  <2> QED
    BY <1>d, <1>i, <1>c, <2>1, <2>2, <2>3 DEF DoneInv, DoneMeansPlaced, Claimed
<1>2. CASE Preflight
  <2>1. PICK st \in {"done", "blocked", "executing"} :
           /\ SetStatus(xPlan, st)
           /\ st = "done" => xRun = {}
           /\ \/ Idle
              \/ xAt' = "step" /\ UNCHANGED <<xPlan, xRun, xTodo, xMem, xFailed>>
    BY <1>2 DEF Preflight
  <2>2. /\ \A q \in Id : plan'[q].rows = plan[q].rows
        /\ \A q \in Id \ {xPlan} : plan'[q] = plan[q]
        /\ plan'[xPlan].status = st
    BY <1>r, <2>1, StatusKeeps
  <2>3. NoneFound' /\ RestPlaced' /\ TreatedPlaced'
    <3>1. CASE Idle
      BY <1>i, <1>u, <1>c, <2>2, <3>1
      DEF Idle, NoneFound, RestPlaced, TreatedPlaced, Running, Fresh
    <3>2. CASE xAt' = "step" /\ UNCHANGED <<xPlan, xRun, xTodo, xMem, xFailed>>
      BY <1>2, <1>i, <1>u, <1>c, <1>r, <2>2, <3>2
      DEF Preflight, NoneFound, RestPlaced, TreatedPlaced, Running
    <3> QED
      BY <2>1, <3>1, <3>2
  <2>4. DoneMeansPlaced'
    <3>1. used["crash"] = 0 /\ st = "done" => \A s \in Steps : plan[xPlan].rows[s] = "placed"
      BY <1>2, <1>i, <2>1 DEF Preflight, RestPlaced, Running
    <3> QED
      BY <1>i, <1>c, <1>r, <2>2, <3>1 DEF DoneMeansPlaced, Claimed
  <2> QED
    BY <1>d, <2>3, <2>4 DEF DoneInv
<1>3. ASSUME NEW s \in xTodo, NEW r \in {"in_progress", "placed"},
             xAt \in {"step", "after"}, UNCHANGED <<xPlan, xRun, xFailed>>,
             SetRow(xPlan, s, r), xMem' = [xMem EXCEPT ![s] = r],
             \/ xAt' = "place" /\ xTodo' = xTodo
             \/ xAt' = "step" /\ r = "placed" /\ xTodo' = xTodo \ {s}
      PROVE  DoneInv'
  <2>1. /\ \A q \in Id : plan'[q].status = plan[q].status
        /\ \A q \in Id \ {xPlan} : plan'[q] = plan[q]
        /\ plan'[xPlan].rows[s] = r
        /\ \A u \in Steps \ {s} : plan'[xPlan].rows[u] = plan[xPlan].rows[u]
    BY <1>3, <1>r, RowKeeps
  <2>2. xMem'[s] = r /\ \A u \in Steps \ {s} : xMem'[u] = xMem[u]
    BY <1>3, <1>r
  <2>3. NoneFound'
    BY <1>3, <1>i, <1>u, <1>c, <1>r, <2>1, <2>2 DEF NoneFound
  <2>4. RestPlaced'
    BY <1>3, <1>i, <1>c, <1>r, <2>1 DEF RestPlaced, Running
  <2>5. TreatedPlaced'
    BY <1>3, <1>i, <1>r, <2>2 DEF TreatedPlaced
  <2>6. DoneMeansPlaced'
    BY <1>i, <1>c, <1>k, <2>1, DoneKept
  <2> QED
    BY <1>d, <2>3, <2>4, <2>5, <2>6 DEF DoneInv
<1>4. ASSUME NEW s \in xTodo, StepBefore(s) PROVE DoneInv'
  BY <1>3, <1>4 DEF StepBefore
<1>5. ASSUME NEW s \in xTodo, StepAfter(s) PROVE DoneInv'
  BY <1>3, <1>5 DEF StepAfter
<1>6. ASSUME UNCHANGED <<plan, xPlan, xRun>>, Running, Running', TreatedPlaced',
             \A u \in Steps : xMem'[u] \in {xMem[u], "skipped", "failed"}
      PROVE  DoneInv'
  <2>1. NoneFound' /\ RestPlaced'
    BY <1>6, <1>i, <1>u, <1>c DEF NoneFound, RestPlaced
  <2> QED
    BY <1>d, <1>6, <1>i, <1>c, <2>1 DEF DoneInv, DoneMeansPlaced, Claimed
<1>7. ASSUME NEW s \in xTodo, StepPlace(s) PROVE DoneInv'
  <2>1. TreatedPlaced'
    BY <1>7, <1>i DEF StepPlace, TreatedPlaced
  <2> QED
    BY <1>6, <1>7, <2>1 DEF StepPlace, Running
<1>8. ASSUME NEW s \in xTodo, StepSkip(s) PROVE DoneInv'
  <2>1. xMem'[s] = "skipped" /\ \A u \in Steps \ {s} : xMem'[u] = xMem[u]
    BY <1>8, <1>r DEF StepSkip
  <2>2. TreatedPlaced'
    BY <1>8, <1>i, <1>r, <2>1 DEF StepSkip, TreatedPlaced
  <2> QED
    BY <1>6, <1>8, <2>1, <2>2 DEF StepSkip, Running
<1>9. ASSUME NEW s \in xTodo, StepFail(s) PROVE DoneInv'
  <2>1. xMem'[s] = "failed" /\ \A u \in Steps \ {s} : xMem'[u] = xMem[u]
    BY <1>9, <1>r DEF StepFail
  <2>2. TreatedPlaced'
    BY <1>9 DEF StepFail, TreatedPlaced
  <2> QED
    BY <1>6, <1>9, <2>1, <2>2 DEF StepFail, Running
<1>10. CASE RunEnd
  <2>1. TreatedPlaced'
    BY <1>10, <1>i DEF RunEnd, TreatedPlaced
  <2> QED
    BY <1>6, <1>10, <2>1 DEF RunEnd, Running
<1>11. CASE Record
  <2>1. /\ \A q \in Id : plan'[q].status = plan[q].status
        /\ \A q \in Id \ {xPlan} : plan'[q] = plan[q]
        /\ \A s \in xRun : plan'[xPlan].rows[s] = xMem[s]
        /\ \A s \in Steps \ xRun : plan'[xPlan].rows[s] = plan[xPlan].rows[s]
    BY <1>11, <1>r DEF Record, TypeOK
  <2>2. UNCHANGED <<xPlan, xRun, xMem, xFailed>> /\ xAt = "record" /\ xAt' = "finish"
    BY <1>11 DEF Record
  <2>3. NoneFound'
    BY <1>i, <1>u, <1>c, <1>r, <2>1, <2>2 DEF NoneFound
  <2>4. RestPlaced'
    BY <1>i, <1>c, <1>r, <2>1, <2>2 DEF RestPlaced, Running
  <2>5. TreatedPlaced'
    BY <1>i, <1>r, <2>1, <2>2 DEF TreatedPlaced, Skipped
  <2>6. DoneMeansPlaced'
    BY <1>i, <1>c, <1>k, <2>1, DoneKept
  <2> QED
    BY <1>d, <2>3, <2>4, <2>5, <2>6 DEF DoneInv
<1>12. CASE Finish
  <2>1. PICK st \in {"failed", "partial", "done"} :
           /\ SetStatus(xPlan, st)
           /\ st = "done" => ~xFailed /\ ~Skipped
           /\ \/ Idle
              \/ xAt' = "filed" /\ UNCHANGED <<xPlan, xRun, xTodo, xMem, xFailed>>
    BY <1>12 DEF Finish
  <2>2. /\ \A q \in Id : plan'[q].rows = plan[q].rows
        /\ \A q \in Id \ {xPlan} : plan'[q] = plan[q]
        /\ plan'[xPlan].status = st
    BY <1>r, <2>1, StatusKeeps
  <2>3. RestPlaced' /\ TreatedPlaced'
    BY <2>1 DEF Idle, RestPlaced, TreatedPlaced, Running
  <2>4. NoneFound'
    <3>1. \A s \in Steps : xMem'[s] \in {xMem[s], "pending"}
      BY <2>1 DEF Idle, Fresh
    <3> QED
      BY <1>i, <1>u, <1>c, <2>2, <3>1 DEF NoneFound
  <2>5. DoneMeansPlaced'
    <3>1. used["crash"] = 0 /\ st = "done" => \A s \in Steps : plan[xPlan].rows[s] = "placed"
      BY <1>12, <1>i, <2>1 DEF Finish, RestPlaced, TreatedPlaced
    <3> QED
      BY <1>i, <1>c, <1>r, <2>2, <3>1 DEF DoneMeansPlaced, Claimed
  <2> QED
    BY <1>d, <2>3, <2>4, <2>5 DEF DoneInv
<1>13. CASE Filed \/ Tag
  <2>1. /\ UNCHANGED plan /\ xAt' \in {"tag", "idle"}
        /\ \A s \in Steps : xMem'[s] \in {xMem[s], "pending"}
    BY <1>13 DEF Filed, Tag, Idle, Fresh
  <2>2. RestPlaced' /\ TreatedPlaced'
    BY <2>1 DEF RestPlaced, TreatedPlaced, Running
  <2> QED
    BY <1>d, <1>i, <1>u, <1>c, <2>1, <2>2 DEF DoneInv, NoneFound, DoneMeansPlaced, Claimed
<1> QED
  BY <1>1, <1>2, <1>4, <1>5, <1>7, <1>8, <1>9, <1>10, <1>11, <1>12, <1>13 DEF Execute

LEMMA UndoDone ==
    ASSUME TypeOK, ClaimInv, DoneInv, Undo PROVE DoneInv'
<1> USE DEF ExecOnly, RunOnly
<1>r. xPlan \in Id
  BY DEF TypeOK
<1>u. up /\ UNCHANGED up
  BY DEF Undo, UndoRead, Begin, UndoStep, UndoFinish, UndoMark
<1>c. used'["crash"] = used["crash"]
  <2>1. ~Crash
    BY <1>u DEF Crash
  <2> QED
    BY <2>1, CrashCount DEF Next
<1>1. xAt' \in {"undo", "undo_mark", "idle"}
  BY DEF Undo, UndoRead, UndoStep, UndoFinish, UndoMark, Idle
<1>2. RestPlaced' /\ TreatedPlaced' /\ DownIsIdle'
  BY <1>1, <1>u DEF RestPlaced, TreatedPlaced, DownIsIdle, Running
<1>3. /\ \A q \in Id : plan'[q].rows = plan[q].rows
      /\ \A q \in Id : plan'[q].status = "done" => plan[q].status = "done"
  <2>1. CASE UNCHANGED plan
    BY <2>1
  <2>2. CASE UndoFinish
    <3>1. PICK st \in {"undo_failed", "undone"} : SetStatus(xPlan, st)
      BY <2>2 DEF UndoFinish
    <3> QED
      BY <1>r, <3>1, StatusKeeps
  <2> QED
    BY <2>1, <2>2 DEF Undo, UndoRead, Begin, UndoStep, UndoMark
<1>4. \/ UNCHANGED xMem \/ xMem' = Fresh \/ \E p \in Id : xMem' = plan[p].rows
  BY DEF Undo, UndoRead, Begin, UndoStep, UndoFinish, UndoMark, Idle
<1>5. NoneFound'
  BY <1>u, <1>c, <1>3, <1>4 DEF DoneInv, NoneFound, Fresh
<1>6. DoneMeansPlaced'
  BY <1>c, <1>3 DEF DoneInv, DoneMeansPlaced, Claimed
<1> QED
  BY <1>2, <1>5, <1>6 DEF DoneInv

LEMMA OtherDone ==
    ASSUME TypeOK, DoneInv, (\E o \in Orphan : Ignore(o)) \/ Crash \/ Boot
    PROVE  DoneInv'
<1>1. CASE \E o \in Orphan : Ignore(o)
  <2>1. /\ UNCHANGED <<plan, up, sAt, xAt, xPlan, xRun, xTodo, xMem, xFailed>>
        /\ used'["crash"] = used["crash"]
    <3>1. ~Crash
      BY <1>1 DEF Ignore, Crash
    <3> QED
      BY <1>1, <3>1, CrashCount DEF Ignore, scanVars, execVars, Next
  <2> QED
    BY <2>1
    DEF DoneInv, DownIsIdle, NoneFound, RestPlaced, TreatedPlaced, DoneMeansPlaced, Claimed,
        Running, Skipped
<1>2. CASE Crash
  <2>1. used'["crash"] # 0
    BY <1>2, CrashCount DEF Next
  <2>2. sAt' = "idle" /\ xAt' = "idle"
    BY <1>2 DEF Crash, Idle
  <2> QED
    BY <2>1, <2>2 DEF DoneInv, DownIsIdle, NoneFound, RestPlaced, TreatedPlaced, DoneMeansPlaced
<1>3. CASE Boot
  <2>1. ~up /\ used'["crash"] = used["crash"] /\ UNCHANGED <<sAt, xAt>>
    BY <1>3 DEF Boot, scanVars, execVars
  <2>2. used'["crash"] # 0 /\ xAt' = "idle" /\ sAt' = "idle"
    BY <2>1 DEF DoneInv, NoneFound, DownIsIdle
  <2> QED
    BY <2>2 DEF DoneInv, DownIsIdle, NoneFound, RestPlaced, TreatedPlaced, DoneMeansPlaced
<1> QED
  BY <1>1, <1>2, <1>3

LEMMA NextDone == TypeOK /\ ClaimInv /\ DoneInv /\ [Next]_vars => DoneInv'
<1>1. ASSUME DoneInv, UNCHANGED vars PROVE DoneInv'
  BY <1>1
  DEF vars, scanVars, execVars, DoneInv, DownIsIdle, NoneFound, RestPlaced, TreatedPlaced,
      DoneMeansPlaced, Claimed, Running, Skipped
<1> QED
  BY <1>1, ScanDone, ExecDone, UndoDone, OtherDone DEF Next

\* The invariants of the handlers hold together.
LEMMA QueueInvariant == Spec => [](TypeOK /\ ClaimInv /\ DoneInv)
<1>1. Init => ClaimInv /\ DoneInv
  BY ClaimInit, DoneInit
<1>2. TypeOK /\ ClaimInv /\ DoneInv /\ [Next]_vars => ClaimInv' /\ DoneInv'
  BY NextClaims, NextDone
<1> QED
  BY <1>1, <1>2, QueueTypeCorrect, PTL DEF Spec

\* Until a crash, a plan the store calls done has put every one of its files in
\* the library under its claim: Execute counts no skip as success, leaves out of
\* a run only what an earlier one placed, and no rewrite by a scan comes between.
THEOREM DoneMeansPlacedHolds == Spec => []DoneMeansPlaced
<1>1. DoneInv => DoneMeansPlaced
  BY DEF DoneInv
<1> QED
  BY <1>1, QueueInvariant, PTL

-----------------------------------------------------------------------------
(* What a scan looked at *)

\* An Ignore that met no handler stands in the store, and no handler is at work
\* on its orphan.
WishKept ==
    \A o \in Orphan : wish[o] = "ignored" => orphan[o] = "ignored" /\ ~AtWorkOn(o)

\* A scan has left out what was ignored when it started.
ScanSkips ==
    /\ sAt \in {"idle", "list"} => sTodo = {}
    /\ sAt \in {"idle", "list", "item"} => sCur = {}
    /\ sAt = "idle" => sWish = NoWish
    /\ \A o \in Orphan : sWish[o] = "ignored" =>
         /\ sAt = "list" => o \in sIgnored
         /\ o \notin sTodo /\ o \notin sCur

\* What a scan has found of the plans of an orphan holds until a handler moves.
Looked ==
    sAt \in {"open", "save"} =>
       \A o \in sCur : o \notin moved =>
         /\ ~AtWorkOn(o) /\ Unresolved(o) = {}
         /\ sAt = "save" /\ sOpen = 0 => Open(o) = {}

\* The open plan a scan has found exists.
OpenExists == sOpen # 0 => plan[sOpen].status # "none"

ScanInv == WishKept /\ ScanSkips /\ Looked /\ OpenExists

LEMMA ScanInvInit == Init => ScanInv
BY DEF Init, ScanInv, WishKept, ScanSkips, Looked, OpenExists, NoWish

\* What a handler's step leaves alone, and whose orphan it works on.
LEMMA HandlerTouches ==
    ASSUME TypeOK, Execute \/ Undo
    PROVE  /\ UNCHANGED <<up, scanVars>> /\ moved \subseteq moved'
           /\ \A q \in Id : plan'[q].of = plan[q].of
           /\ \A q \in Id : plan'[q] = plan[q] \/ (xAt # "idle" /\ q = xPlan)
           /\ \A q \in Id : plan'[q].status = "none" => plan[q].status = "none"
           /\ \A o \in Orphan : orphan'[o] = orphan[o] \/ AtWorkOn(o)
           /\ \A o \in Orphan : wish'[o] \in {wish[o], "none"}
           /\ xAt' # "idle" =>
                \/ xAt # "idle" /\ xPlan' = xPlan
                \/ plan[xPlan'].of \in moved' /\ wish'[plan[xPlan'].of] = "none"
<1> USE DEF ExecOnly, RunOnly
<1>r. /\ xPlan \in Id /\ plan[xPlan].of \in Orphan /\ orphan \in [Orphan -> OrphanState]
      /\ \A s \in xTodo : s \in Steps
      /\ \A p \in Id : plan[p].of \in Orphan
      /\ wish \in [Orphan -> Wish]
  BY DEF TypeOK
<1>1. ASSUME NEW p \in Id, ExecRead(p) \/ UndoRead(p)
      PROVE  /\ UNCHANGED <<up, scanVars, plan, orphan>> /\ moved \subseteq moved'
             /\ \A o \in Orphan : wish'[o] \in {wish[o], "none"}
             /\ plan[xPlan'].of \in moved' /\ wish'[plan[xPlan'].of] = "none"
  BY <1>1, <1>r DEF ExecRead, UndoRead, Begin
<1>2. ASSUME NEW st, SetStatus(xPlan, st), st # "none"
      PROVE  /\ \A q \in Id : plan'[q].of = plan[q].of
             /\ \A q \in Id : plan'[q].status = "none" => plan[q].status = "none"
             /\ \A q \in Id : plan'[q] = plan[q] \/ q = xPlan
  BY <1>2, <1>r DEF SetStatus, TypeOK
<1>3. ASSUME NEW s \in Steps, NEW r, SetRow(xPlan, s, r)
      PROVE  /\ \A q \in Id : plan'[q].of = plan[q].of /\ plan'[q].status = plan[q].status
             /\ \A q \in Id : plan'[q] = plan[q] \/ q = xPlan
  BY <1>3, <1>r DEF SetRow, TypeOK
<1>4. ASSUME Preflight \/ Finish \/ UndoFinish
      PROVE  /\ \E st : SetStatus(xPlan, st) /\ st # "none"
             /\ UNCHANGED <<up, scanVars, orphan, wish, moved>>
             /\ xAt # "idle" /\ (xAt' = "idle" \/ xPlan' = xPlan)
  BY <1>4 DEF Preflight, Finish, UndoFinish, Idle
<1>5. ASSUME NEW s \in xTodo, StepBefore(s) \/ StepAfter(s)
      PROVE  /\ \E r : SetRow(xPlan, s, r)
             /\ UNCHANGED <<up, scanVars, orphan, wish, moved, xPlan>> /\ xAt # "idle"
  BY <1>5 DEF StepBefore, StepAfter
<1>6. ASSUME RunEnd \/ \E s \in xTodo : StepPlace(s) \/ StepSkip(s) \/ StepFail(s) \/ UndoStep(s)
      PROVE  UNCHANGED <<up, scanVars, orphan, wish, moved, xPlan, plan>> /\ xAt # "idle"
  BY <1>6 DEF RunEnd, StepPlace, StepSkip, StepFail, UndoStep
<1>7. ASSUME Record
      PROVE  /\ UNCHANGED <<up, scanVars, orphan, wish, moved, xPlan>> /\ xAt # "idle"
             /\ \A q \in Id : plan'[q].of = plan[q].of /\ plan'[q].status = plan[q].status
             /\ \A q \in Id : plan'[q] = plan[q] \/ q = xPlan
  BY <1>7, <1>r DEF Record, TypeOK
<1>8. ASSUME Filed \/ Tag \/ UndoMark
      PROVE  /\ UNCHANGED <<up, scanVars, wish, moved, plan>> /\ xAt # "idle"
             /\ xAt' = "idle" \/ xPlan' = xPlan
             /\ \A o \in Orphan : orphan'[o] = orphan[o] \/ o = plan[xPlan].of
  BY <1>8, <1>r DEF Filed, Tag, UndoMark, Idle
<1>a. CASE \E p \in Id : ExecRead(p) \/ UndoRead(p)
  BY <1>a, <1>1
<1>b. CASE Preflight \/ Finish \/ UndoFinish
  BY <1>b, <1>2, <1>4
<1>c. CASE \E s \in xTodo : StepBefore(s) \/ StepAfter(s)
  BY <1>c, <1>r, <1>3, <1>5
<1>d. CASE RunEnd \/ \E s \in xTodo : StepPlace(s) \/ StepSkip(s) \/ StepFail(s) \/ UndoStep(s)
  BY <1>d, <1>6
<1>e. CASE Record
  BY <1>e, <1>7
<1>f. CASE Filed \/ Tag \/ UndoMark
  BY <1>f, <1>8 DEF AtWorkOn
<1> QED
  BY <1>a, <1>b, <1>c, <1>d, <1>e, <1>f DEF Execute, Undo

\* A plan that exists stays, and stays with its orphan.
LEMMA PlanStays ==
    ASSUME TypeOK, ClaimInv, [Next]_vars, NEW p \in Id, plan[p].status # "none"
    PROVE  plan'[p].of = plan[p].of /\ plan'[p].status # "none"
<1>1. CASE Scan
  BY <1>1, ScanWrites DEF ScanWritesTo
<1>2. CASE Execute \/ Undo
  BY <1>2, HandlerTouches
<1>3. CASE Boot
  <2>1. plan[p] \in PlanRow
    BY DEF TypeOK, PlanRow
  <2> QED
    BY <1>3 DEF Boot, Released
<1>4. CASE Crash \/ UNCHANGED vars \/ \E o \in Orphan : Ignore(o)
  BY <1>4 DEF Crash, vars, Ignore
<1> QED
  BY <1>1, <1>2, <1>3, <1>4 DEF Next

LEMMA OpenStays ==
    ASSUME TypeOK, ClaimInv, OpenExists, [Next]_vars PROVE OpenExists'
<1>1. sOpen' = sOpen \/ sOpen' = 0 \/ \E o \in Orphan : ScanOpen(o)
  BY HandlerTouches
  DEF Next, vars, scanVars, Scan, ScanStart, ScanList, ScanEnd, ScanItem, ScanUpsert, ScanCheck,
      ScanOpen, ScanSave, NextItem, Crash, Boot, Ignore
<1>2. ASSUME NEW o \in Orphan, ScanOpen(o) PROVE OpenExists'
  BY <1>2 DEF ScanOpen, Open, Plans, OpenExists
<1>3. sOpen \in {0} \cup Id
  BY DEF TypeOK
<1> QED
  BY <1>1, <1>2, <1>3, PlanStays DEF OpenExists

LEMMA ScanLooks ==
    ASSUME TypeOK, ClaimInv, ScanInv, Scan PROVE ScanInv'
<1> USE DEF ScanOnly
<1>r. /\ sTodo \subseteq Orphan /\ sIgnored \subseteq Orphan /\ xPlan \in Id
      /\ orphan \in [Orphan -> OrphanState]
  BY DEF TypeOK
<1>i. WishKept /\ ScanSkips /\ Looked
  BY DEF ScanInv
<1>o. OpenExists'
  BY OpenStays DEF ScanInv, Next
<1>x. UNCHANGED <<xAt, xPlan, wish>>
  BY DEF Scan, ScanStart, ScanList, ScanEnd, ScanItem, ScanUpsert, ScanCheck, ScanOpen,
         ScanSave, execVars
<1>w. WishKept'
  <2>1. ASSUME NEW o \in Orphan, orphan[o] = "ignored" PROVE orphan'[o] = "ignored"
    BY <1>r, <2>1
    DEF Scan, ScanStart, ScanList, ScanEnd, ScanItem, ScanUpsert, ScanCheck, ScanOpen, ScanSave,
        Refreshed
  <2>2. xAt # "idle" => plan'[xPlan].of = plan[xPlan].of
    BY <1>r, PlanStays DEF ClaimInv, NothingBlank, Next
  <2> QED
    BY <1>i, <1>x, <2>1, <2>2 DEF WishKept, AtWorkOn
<1>1. CASE ScanStart
  <2>1. sAt' = "list" /\ sWish' = wish /\ sTodo' = {} /\ sCur' = {}
    BY <1>1, <1>i DEF ScanStart, ScanSkips
  <2>2. \A o \in Orphan : orphan[o] = "ignored" => o \in sIgnored'
    BY <1>1 DEF ScanStart
  <2>3. ScanSkips'
    BY <1>i, <2>1, <2>2 DEF ScanSkips, WishKept
  <2> QED
    BY <1>w, <1>o, <2>1, <2>3 DEF ScanInv, Looked
<1>2. CASE ScanList
  <2>1. ScanSkips'
    BY <1>2, <1>i DEF ScanList, ScanSkips
  <2> QED
    BY <1>2, <1>w, <1>o, <2>1 DEF ScanInv, ScanList, Looked
<1>3. CASE ScanEnd
  <2>1. ScanSkips'
    BY <1>3, <1>i DEF ScanEnd, ScanSkips, NoWish
  <2> QED
    BY <1>3, <1>w, <1>o, <2>1 DEF ScanInv, ScanEnd, Looked
<1>4. ASSUME NEW o \in Orphan, ScanItem(o) PROVE ScanInv'
  <2>1. ScanSkips'
    BY <1>4, <1>i DEF ScanItem, ScanSkips
  <2> QED
    BY <1>4, <1>w, <1>o, <2>1 DEF ScanInv, ScanItem, Looked
\* The other steps keep what the scan has to do and go on with one orphan.
<1>5. ASSUME UNCHANGED <<sTodo, sWish>>, sCur' \subseteq sCur,
             sAt' \notin {"idle", "list"}, sAt' = "item" => sCur' = {}
      PROVE  ScanSkips'
  BY <1>5, <1>i DEF ScanSkips
<1>6. ASSUME NEW o \in Orphan, ScanUpsert(o) PROVE ScanInv'
  <2>1. ScanSkips' /\ sAt' \in {"item", "check"}
    BY <1>5, <1>6 DEF ScanUpsert, NextItem
  <2> QED
    BY <1>w, <1>o, <2>1 DEF ScanInv, Looked
<1>7. ASSUME NEW o \in Orphan, ScanCheck(o) PROVE ScanInv'
  <2>1. ScanSkips'
    BY <1>5, <1>7 DEF ScanCheck, NextItem
  <2>2. CASE sAt' = "item"
    BY <1>w, <1>o, <2>1, <2>2 DEF ScanInv, Looked
  <2>3. CASE sAt' = "open"
    <3>1. /\ Unresolved(o) = {} /\ sCur' = {o} /\ UNCHANGED <<plan, xAt, xPlan>>
          /\ moved' = (IF xAt # "idle" /\ plan[xPlan].of = o THEN {o} ELSE {})
      BY <1>7, <1>x, <2>3 DEF ScanCheck, NextItem
    <3>2. Unresolved(o)' = {}
      BY <3>1 DEF Unresolved, Plans
    <3>3. o \notin moved' => ~AtWorkOn(o)'
      BY <3>1 DEF AtWorkOn
    <3> QED
      BY <1>w, <1>o, <2>1, <2>3, <3>1, <3>2, <3>3 DEF ScanInv, Looked
  <2> QED
    BY <1>7, <2>2, <2>3 DEF ScanCheck, NextItem
<1>8. ASSUME NEW o \in Orphan, ScanOpen(o) PROVE ScanInv'
  <2>1. ScanSkips'
    BY <1>5, <1>8 DEF ScanOpen
  <2>2. /\ UNCHANGED <<plan, xAt, xPlan, sCur, moved>> /\ sAt = "open" /\ sCur = {o}
        /\ Open(o) = {} \/ sOpen' \in Id
    BY <1>8, <1>x DEF ScanOpen, Open, Plans
  <2>3. 0 \notin Id
    BY DEF Id
  <2>4. Looked'
    BY <1>i, <2>2, <2>3 DEF Looked, AtWorkOn, Unresolved, Open, Plans
  <2> QED
    BY <1>w, <1>o, <2>1, <2>4 DEF ScanInv
<1>9. ASSUME NEW o \in Orphan, ScanSave(o) PROVE ScanInv'
  <2>1. ScanSkips' /\ sAt' = "item"
    BY <1>5, <1>9 DEF ScanSave, NextItem
  <2> QED
    BY <1>w, <1>o, <2>1 DEF ScanInv, Looked
<1> QED
  BY <1>1, <1>2, <1>3, <1>4, <1>6, <1>7, <1>8, <1>9 DEF Scan

LEMMA HandlerLooks ==
    ASSUME TypeOK, ClaimInv, ScanInv, Execute \/ Undo PROVE ScanInv'
<1>h. /\ UNCHANGED scanVars /\ moved \subseteq moved'
      /\ \A q \in Id : plan'[q].of = plan[q].of
      /\ \A q \in Id : plan'[q] = plan[q] \/ (xAt # "idle" /\ q = xPlan)
      /\ \A o \in Orphan : orphan'[o] = orphan[o] \/ AtWorkOn(o)
      /\ \A o \in Orphan : wish'[o] \in {wish[o], "none"}
      /\ xAt' # "idle" =>
           \/ xAt # "idle" /\ xPlan' = xPlan
           \/ plan[xPlan'].of \in moved' /\ wish'[plan[xPlan'].of] = "none"
  BY HandlerTouches
<1>r. xPlan \in Id /\ xPlan' \in Id /\ sCur \subseteq Orphan
  BY NextType DEF TypeOK, Next
<1>1. WishKept'
  BY <1>h, <1>r DEF ScanInv, WishKept, AtWorkOn
<1>2. ScanSkips'
  BY <1>h DEF ScanInv, ScanSkips, scanVars
<1>3. Looked'
  <2>1. ASSUME NEW o \in sCur, sAt \in {"open", "save"}, o \notin moved'
        PROVE  /\ ~AtWorkOn(o)' /\ Unresolved(o)' = {}
               /\ sAt = "save" /\ sOpen = 0 => Open(o)' = {}
    <3>1. /\ ~AtWorkOn(o) /\ Unresolved(o) = {}
          /\ sAt = "save" /\ sOpen = 0 => Open(o) = {}
      BY <1>h, <2>1 DEF ScanInv, Looked
    <3>2. ~AtWorkOn(o)'
      BY <1>h, <1>r, <2>1, <3>1 DEF AtWorkOn
    <3>3. \A q \in Id : plan'[q] = plan[q] \/ plan[q].of # o
      BY <1>h, <3>1 DEF AtWorkOn
    <3> QED
      BY <1>h, <3>1, <3>2, <3>3 DEF Unresolved, Open, Plans
  <2> QED
    BY <1>h, <2>1 DEF Looked, scanVars
<1> QED
  BY <1>1, <1>2, <1>3, OpenStays DEF ScanInv, Next

LEMMA OtherLooks ==
    ASSUME TypeOK, ClaimInv, DownIsIdle, ScanInv, (\E o \in Orphan : Ignore(o)) \/ Crash \/ Boot
    PROVE  ScanInv'
<1>o. OpenExists'
  BY OpenStays DEF ScanInv, Next
<1>1. ASSUME NEW o \in Orphan, Ignore(o) PROVE ScanInv'
  <2>1. /\ UNCHANGED <<plan, scanVars, execVars, moved>>
        /\ orphan'[o] = "ignored" /\ wish'[o] = (IF AtWorkOn(o) THEN "overlapped" ELSE "ignored")
        /\ \A u \in Orphan \ {o} : orphan'[u] = orphan[u] /\ wish'[u] = wish[u]
    BY <1>1 DEF Ignore, TypeOK
  <2>2. WishKept'
    BY <1>o, <2>1 DEF ScanInv, WishKept, AtWorkOn, execVars
  <2>3. ScanSkips' /\ Looked'
    BY <2>1 DEF ScanInv, ScanSkips, Looked, scanVars, execVars, AtWorkOn, Unresolved, Open, Plans
  <2> QED
    BY <1>o, <2>2, <2>3 DEF ScanInv
<1>2. CASE Crash
  <2>1. /\ UNCHANGED <<orphan, plan, wish>> /\ xAt' = "idle" /\ sAt' = "idle" /\ sWish' = NoWish
        /\ sTodo' = {} /\ sCur' = {}
    BY <1>2 DEF Crash, Idle
  <2> QED
    BY <1>o, <2>1 DEF ScanInv, WishKept, ScanSkips, Looked, AtWorkOn, NoWish
<1>3. CASE Boot
  <2>1. /\ UNCHANGED <<orphan, wish, scanVars, execVars>> /\ sAt = "idle" /\ xAt = "idle"
    BY <1>3 DEF Boot, DownIsIdle
  <2> QED
    BY <1>o, <2>1 DEF ScanInv, WishKept, ScanSkips, Looked, AtWorkOn, scanVars, execVars
<1> QED
  BY <1>1, <1>2, <1>3

LEMMA NextLooks == TypeOK /\ ClaimInv /\ DoneInv /\ ScanInv /\ [Next]_vars => ScanInv'
<1>1. ASSUME ScanInv, UNCHANGED vars PROVE ScanInv'
  BY <1>1
  DEF vars, scanVars, execVars, ScanInv, WishKept, ScanSkips, Looked, OpenExists, AtWorkOn,
      Unresolved, Open, Plans
<1> QED
  BY <1>1, ScanLooks, HandlerLooks, OtherLooks DEF Next, DoneInv

\* Once the user ignored an orphan while no handler was at work on it, no scan
\* that starts later plans it: the sticky state survives every refresh, the scan
\* reads it before it lists, and nothing it reads later brings the orphan back.
THEOREM IgnoreIsSticky == Spec => IgnoreHolds
<1>1. TypeOK /\ ClaimInv /\ DoneInv /\ ScanInv /\ [Next]_vars => ScanInv'
  BY NextLooks
<1>2. TypeOK /\ ClaimInv /\ ScanInv /\ [Next]_vars
      => [\A p \in Id : Planned(p) /\ plan'[p] # plan[p] => sWish[plan'[p].of] # "ignored"]_vars
  <2> SUFFICES ASSUME TypeOK, ClaimInv, ScanInv, [Next]_vars,
                      NEW p \in Id, Planned(p)
               PROVE  sWish[plan'[p].of] # "ignored"
    OBVIOUS
  <2>1. plan'[p].of \in sCur /\ sCur \subseteq Orphan
    BY DEF Planned, TypeOK
  <2> QED
    BY <2>1 DEF ScanInv, ScanSkips
<1> QED
  BY <1>1, <1>2, ScanInvInit, QueueInvariant, PTL DEF Spec, IgnoreHolds

\* A scan adds a plan to an orphan only where none is open and none waits for
\* the user, unless a handler moved on that orphan after the scan had looked:
\* the look, the search for an open plan and the save are one step each, and
\* handlers, ignores, a crash and a restart come in between.
THEOREM NoDuplicateHolds == Spec => NoDuplicate
<1>1. TypeOK /\ ClaimInv /\ DoneInv /\ ScanInv /\ [Next]_vars => ScanInv'
  BY NextLooks
<1>2. TypeOK /\ ClaimInv /\ ScanInv /\ [Next]_vars
      => [\A p \in Id :
            LET o == plan'[p].of IN
            plan[p].status = "none" /\ plan'[p].status # "none" /\ o \notin moved
              => Live(o) = {}]_vars
  <2> SUFFICES ASSUME TypeOK, ClaimInv, ScanInv, [Next]_vars,
                      NEW p \in Id, plan[p].status = "none", plan'[p].status # "none",
                      plan'[p].of \notin moved
               PROVE  Live(plan'[p].of) = {}
    OBVIOUS
  <2>1. xAt # "idle" => p # xPlan
    BY DEF ClaimInv, NothingBlank
  <2>2. ~(Execute \/ Undo)
    BY <2>1, HandlerTouches
  <2>3. ~Boot
    BY BootClaims
  <2>4. PICK o \in Orphan : ScanSave(o) /\ (NewPlan(o) \/ Rewrite)
    BY <2>2, <2>3
    DEF Next, vars, Scan, ScanStart, ScanList, ScanEnd, ScanItem, ScanUpsert, ScanCheck,
        ScanOpen, ScanSave, ScanOnly, RefuseSave, Crash, Ignore
  <2>5. sAt = "save" /\ sCur = {o}
    BY <2>4 DEF ScanSave
  <2>6. ASSUME NewPlan(o) PROVE sOpen = 0 /\ plan'[p].of = o
    BY <2>6 DEF NewPlan, TypeOK
  <2>7. ~Rewrite
    BY DEF Rewrite, TypeOK, ScanInv, OpenExists
  <2> QED
    BY <2>4, <2>5, <2>6, <2>7 DEF ScanInv, Looked, Live, Unresolved, Open, Plans
<1> QED
  BY <1>1, <1>2, ScanInvInit, QueueInvariant, PTL DEF Spec, NoDuplicate

-----------------------------------------------------------------------------
(* Files no undo record claims *)

\* The program puts a file where the plan's own orphan goes.
OwnFiles ==
    \A o \in Orphan, s \in Steps :
      disk[o][s] \in Id => plan[disk[o][s]].of = o /\ plan[disk[o][s]].status # "none"

\* Between the file and its claim.
Placing(p, s) == xAt = "after" /\ xPlan = p /\ First(s)

Lost(o, s) ==
    /\ disk[o][s] \in Id /\ plan[disk[o][s]].rows[s] # "placed"
    /\ ~Placing(disk[o][s], s)

LEMMA UnclaimedFile ==
    /\ \A d : d \in Unclaimed <=> \E o \in Orphan, s \in Steps : d = <<o, s>> /\ Lost(o, s)
    /\ \A d : d \in Unclaimed' <=> \E o \in Orphan, s \in Steps : d = <<o, s>> /\ Lost(o, s)'
BY DEF Unclaimed, Lost, Placing, First

\* What a step puts on disk, and where it takes the handler.
LEMMA DiskWrites ==
    ASSUME TypeOK, [Next]_vars
    PROVE  \/ UNCHANGED disk
           \/ \E s \in Steps :
                /\ xAt = "place" /\ xAt' = "after" /\ UNCHANGED <<xPlan, xTodo>> /\ First(s)
                /\ disk' = [disk EXCEPT ![plan[xPlan].of][s] = xPlan]
           \/ \E s \in Steps :
                /\ xAt = "undo" /\ disk' = [disk EXCEPT ![plan[xPlan].of][s] = NoFile]
<1>1. \A s \in xTodo : s \in Steps
  BY DEF TypeOK
<1>2. CASE Scan \/ Boot \/ Crash \/ UNCHANGED vars \/ \E o \in Orphan : Ignore(o)
  BY <1>2
  DEF Scan, ScanStart, ScanList, ScanEnd, ScanItem, ScanUpsert, ScanCheck, ScanOpen, ScanSave,
      ScanOnly, Boot, Crash, vars, Ignore
<1>3. CASE Execute
  BY <1>1, <1>3
  DEF Execute, ExecRead, Begin, Preflight, StepBefore, StepPlace, StepSkip, StepFail, StepAfter,
      RunEnd, Record, Finish, Filed, Tag, RunOnly
<1>4. CASE Undo
  BY <1>1, <1>4 DEF Undo, UndoRead, Begin, UndoStep, UndoFinish, UndoMark
<1> QED
  BY <1>2, <1>3, <1>4 DEF Next

\* The same at one destination.
LEMMA DiskAt ==
    ASSUME TypeOK, [Next]_vars, NEW o \in Orphan, NEW s \in Steps
    PROVE  \/ disk'[o][s] = disk[o][s]
           \/ disk'[o][s] = NoFile
           \/ /\ disk'[o][s] = xPlan /\ plan[xPlan].of = o
              /\ xAt = "place" /\ Placing(xPlan, s)'
<1>1. /\ disk \in [Orphan -> [Steps -> {NoFile, Foreign} \cup Id]]
      /\ plan[xPlan].of \in Orphan
  BY DEF TypeOK
<1>2. ASSUME NEW u \in Steps, NEW file, disk' = [disk EXCEPT ![plan[xPlan].of][u] = file]
      PROVE  disk'[o][s] = disk[o][s] \/ (plan[xPlan].of = o /\ u = s /\ disk'[o][s] = file)
  <2>1. disk' = [disk EXCEPT ![plan[xPlan].of] = [disk[plan[xPlan].of] EXCEPT ![u] = file]]
    BY <1>2
  <2>2. disk[o] \in [Steps -> {NoFile, Foreign} \cup Id]
    BY <1>1
  <2>3. CASE plan[xPlan].of = o
    BY <1>1, <2>1, <2>2, <2>3
  <2>4. CASE plan[xPlan].of # o
    BY <1>1, <2>1, <2>4
  <2> QED
    BY <2>3, <2>4
<1>3. ASSUME NEW u \in Steps, xAt = "place", xAt' = "after", UNCHANGED <<xPlan, xTodo>>, First(u),
             disk' = [disk EXCEPT ![plan[xPlan].of][u] = xPlan]
      PROVE  \/ disk'[o][s] = disk[o][s]
             \/ /\ disk'[o][s] = xPlan /\ plan[xPlan].of = o
                /\ xAt = "place" /\ Placing(xPlan, s)'
  <2>1. disk'[o][s] = disk[o][s] \/ (plan[xPlan].of = o /\ u = s /\ disk'[o][s] = xPlan)
    BY <1>2, <1>3
  <2>2. Placing(xPlan, u)'
    BY <1>3 DEF Placing, First
  <2> QED
    BY <1>3, <2>1, <2>2
<1>4. ASSUME NEW u \in Steps, disk' = [disk EXCEPT ![plan[xPlan].of][u] = NoFile]
      PROVE  disk'[o][s] = disk[o][s] \/ disk'[o][s] = NoFile
  BY <1>2, <1>4
<1> QED
  BY <1>3, <1>4, DiskWrites

LEMMA OwnStays ==
    ASSUME TypeOK, ClaimInv, OwnFiles, [Next]_vars PROVE OwnFiles'
<1>1. /\ disk \in [Orphan -> [Steps -> {NoFile, Foreign} \cup Id]] /\ NoFile \notin Id
      /\ xPlan \in Id /\ plan[xPlan].of \in Orphan
  BY DEF TypeOK, NoFile, Id
<1>2. ASSUME NEW o \in Orphan, NEW s \in Steps, disk'[o][s] \in Id
      PROVE  \/ disk'[o][s] = disk[o][s]
             \/ disk'[o][s] = xPlan /\ plan[xPlan].of = o /\ plan[xPlan].status # "none"
  BY <1>1, <1>2, DiskAt DEF ClaimInv, NothingBlank
<1> QED
  BY <1>1, <1>2, PlanStays DEF OwnFiles

\* The only step of a handler between a file and its claim is the claim, unless
\* the process dies.
LEMMA PlacingEnds ==
    ASSUME TypeOK, [Next]_vars, ~Crash, NEW p \in Id, NEW s \in Steps, Placing(p, s)
    PROVE  Placing(p, s)' \/ plan'[p].rows[s] = "placed"
<1>1. CASE UNCHANGED execVars
  BY <1>1 DEF Placing, First, execVars
<1>2. CASE Execute
  <2>1. \A u \in xTodo : u \in Int
    BY DEF TypeOK, Steps
  <2>2. PICK u \in xTodo : StepAfter(u)
    BY <1>2
    DEF Placing, Execute, ExecRead, Begin, Preflight, StepBefore, StepPlace, StepSkip, StepFail,
        RunEnd, Record, Finish, Filed, Tag
  <2>3. u = s /\ xPlan = p
    BY <2>1, <2>2 DEF Placing, StepAfter, First
  <2> QED
    BY <2>2, <2>3, RowKeeps DEF StepAfter, RowState, Done
<1>3. ~Undo
  BY DEF Placing, Undo, UndoRead, Begin, UndoStep, UndoFinish, UndoMark
<1>4. Scan \/ Boot \/ UNCHANGED vars \/ (\E o \in Orphan : Ignore(o)) => UNCHANGED execVars
  BY DEF Scan, ScanStart, ScanList, ScanEnd, ScanItem, ScanUpsert, ScanCheck, ScanOpen, ScanSave,
         ScanOnly, Boot, vars, Ignore
<1> QED
  BY <1>1, <1>2, <1>3, <1>4 DEF Next

\* Short of a crash, no file loses its claim.
LEMMA NoneLost ==
    ASSUME TypeOK, ClaimInv, [Next]_vars, ~Crash PROVE Unclaimed' \subseteq Unclaimed
<1> SUFFICES ASSUME NEW o \in Orphan, NEW s \in Steps, Lost(o, s)' PROVE Lost(o, s)
  BY UnclaimedFile
<1>l. /\ disk'[o][s] \in Id /\ plan'[disk'[o][s]].rows[s] # "placed"
      /\ ~(xAt' = "after" /\ xPlan' = disk'[o][s] /\ First(s)')
  BY DEF Lost, Placing
<1>1. /\ disk \in [Orphan -> [Steps -> {NoFile, Foreign} \cup Id]] /\ NoFile \notin Id
      /\ xPlan \in Id /\ plan[xPlan].of \in Orphan
  BY DEF TypeOK, NoFile, Id
<1>2. disk'[o][s] = disk[o][s]
  <2>1. CASE Placing(xPlan, s)' /\ disk'[o][s] = xPlan /\ xAt = "place"
    BY <1>l, <2>1, DiskWrites DEF Placing
  <2> QED
    BY <1>1, <1>l, <2>1, DiskAt
<1>3. plan[disk[o][s]].rows[s] # "placed"
  BY <1>2, <1>l, NextClaims DEF Keeps
<1>4. ~Placing(disk[o][s], s)
  <2>1. disk[o][s] \in Id
    BY <1>2, <1>l
  <2> QED
    BY <1>2, <1>l, <2>1, PlacingEnds DEF Placing
<1> QED
  BY <1>2, <1>3, <1>4, <1>l DEF Lost

\* A crash takes the claim of one file at most: the one just placed.
LEMMA OneLost ==
    ASSUME TypeOK, OwnFiles, Crash PROVE \E d : Unclaimed' \subseteq Unclaimed \cup {d}
<1>1. UNCHANGED <<plan, disk>>
  BY DEF Crash
<1>2. ASSUME NEW e \in Unclaimed' \ Unclaimed
      PROVE  \E o \in Orphan, s \in Steps : /\ e = <<o, s>> /\ Placing(disk[o][s], s)
                                            /\ plan[disk[o][s]].of = o
  BY <1>1, <1>2, UnclaimedFile DEF Lost, OwnFiles
<1>3. \A e \in Unclaimed' \ Unclaimed, f \in Unclaimed' \ Unclaimed : e = f
  <2>1. \A s, u \in Steps : First(s) /\ First(u) => s = u
    BY DEF Steps, First
  <2>2. ASSUME NEW e \in Unclaimed' \ Unclaimed, NEW f \in Unclaimed' \ Unclaimed PROVE e = f
    <3>1. PICK o \in Orphan, s \in Steps : /\ e = <<o, s>> /\ xPlan = disk[o][s] /\ First(s)
                                           /\ plan[disk[o][s]].of = o
      BY <1>2 DEF Placing
    <3>2. PICK p \in Orphan, u \in Steps : /\ f = <<p, u>> /\ xPlan = disk[p][u] /\ First(u)
                                           /\ plan[disk[p][u]].of = p
      BY <1>2 DEF Placing
    <3> QED
      BY <2>1, <3>1, <3>2
  <2> QED
    BY <2>2
<1> QED
  BY <1>3

LostInv == OwnFiles /\ IsFiniteSet(Unclaimed) /\ LostFileCost

LEMMA LostInit == Init => LostInv
<1> SUFFICES ASSUME Init PROVE LostInv
  OBVIOUS
<1>1. \A o \in Orphan, s \in Steps : disk[o][s] \notin Id
  BY DEF Init, NoFile, Foreign, Id
<1>2. Unclaimed = {} /\ OwnFiles
  BY <1>1, UnclaimedFile DEF Lost, OwnFiles
<1>3. used["crash"] = 0
  BY DEF Init, Events
<1> QED
  BY <1>2, <1>3, FS_EmptySet DEF LostInv, LostFileCost

LEMMA NextLost ==
    ASSUME TypeOK, ClaimInv, LostInv, [Next]_vars PROVE LostInv'
<1>1. OwnFiles' /\ IsFiniteSet(Unclaimed) /\ Cardinality(Unclaimed) <= used["crash"]
  BY OwnStays DEF LostInv, LostFileCost
<1>2. Cardinality(Unclaimed) \in Nat
  BY <1>1, FS_CardinalityType
<1>3. CASE ~Crash
  <2>1. Unclaimed' \in SUBSET Unclaimed
    BY <1>3, NoneLost
  <2>2. IsFiniteSet(Unclaimed') /\ Cardinality(Unclaimed') <= Cardinality(Unclaimed)
    BY <1>1, <2>1, FS_Subset
  <2>3. Cardinality(Unclaimed') \in Nat
    BY <2>2, FS_CardinalityType
  <2>4. used'["crash"] = used["crash"] /\ used["crash"] \in Nat
    BY <1>3, CrashCount DEF TypeOK, Events
  <2> QED
    BY <1>1, <1>2, <2>2, <2>3, <2>4 DEF LostInv, LostFileCost
<1>4. CASE Crash
  <2>1. PICK d : Unclaimed' \in SUBSET (Unclaimed \cup {d})
    BY <1>1, <1>4, OneLost DEF LostInv
  <2>2. /\ IsFiniteSet(Unclaimed \cup {d})
        /\ Cardinality(Unclaimed \cup {d}) \in {Cardinality(Unclaimed), Cardinality(Unclaimed) + 1}
    BY <1>1, FS_AddElement
  <2>3. /\ IsFiniteSet(Unclaimed')
        /\ Cardinality(Unclaimed') <= Cardinality(Unclaimed \cup {d})
    BY <2>1, <2>2, FS_Subset
  <2>4. Cardinality(Unclaimed') \in Nat
    BY <2>3, FS_CardinalityType
  <2>5. used'["crash"] = used["crash"] + 1 /\ used["crash"] \in Nat
    BY <1>4, CrashCount
  <2> QED
    BY <1>1, <1>2, <2>2, <2>3, <2>4, <2>5 DEF LostInv, LostFileCost
<1> QED
  BY <1>3, <1>4

\* Each crash costs one undo record at most: of the files the program put in the
\* library, those no row claims are no more than the crashes there were, however
\* many plans ran, were undone, rewritten and repaired.
THEOREM LostFileCostHolds == Spec => []LostFileCost
<1>1. TypeOK /\ ClaimInv /\ LostInv /\ [Next]_vars => LostInv'
  BY NextLost
<1>2. LostInv => LostFileCost
  BY DEF LostInv
<1> QED
  BY <1>1, <1>2, LostInit, QueueInvariant, PTL DEF Spec

=============================================================================
