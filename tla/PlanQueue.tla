------------------------------ MODULE PlanQueue ------------------------------
(***************************************************************************)
(* The review queue: orphans and their plans in the store, while a scan    *)
(* saves plans (pipeline.go ScanNow, savePlan), the user executes, undoes  *)
(* and ignores (execute.go, api/resources.go), and the process restarts.   *)
(*                                                                         *)
(* A scan runs under scanMu and a handler under execMu: they interleave at *)
(* every statement of the store.  What a handler does on disk is PlanExec; *)
(* here a step is placed, fails or is skipped, and step s of every plan of *)
(* an orphan has the same destination.  Writes to the store succeed.       *)
(***************************************************************************)
EXTENDS Integers, FiniteSets

CONSTANTS
    Orphan,    \* what the client lists, one fingerprint each
    MaxPlans,  \* plan ids 1 .. MaxPlans
    N,         \* each plan has steps 1 .. N
    Offered,   \* statuses in which a plan is asked to execute
    Bound      \* how often each event of Events may happen

Id     == 1 .. MaxPlans
Steps  == 1 .. N
Events == {"scan", "run", "crash", "ignore"}

ASSUME IdAssumption == MaxPlans \in Nat \ {0} /\ N \in Nat \ {0}
ASSUME OfferedAssumption ==
    Offered \subseteq {"draft", "blocked", "executing", "partial", "failed",
                       "undone", "undo_failed"}
ASSUME BoundAssumption == Bound \in [Events -> Nat]
\* There is an id for every plan a scan may add.
ASSUME RoomAssumption == MaxPlans >= Bound["scan"] * Cardinality(Orphan)

VARIABLES
    orphan,   \* orphan.state; "none" before the first upsert
    tagged,   \* orphans that carry the orphanarr-filed tag in the client
    plan,     \* rows of plan and plan_step
    disk,     \* for each destination, the plan that put the file there, or
              \* NoFile, or Foreign
    up,       \* the process runs
    sAt, sIgnored, sTodo, sCur, sOpen,    \* the scan
    xAt, xPlan, xRun, xTodo, xMem, xFailed,   \* the handler under execMu
    moved,    \* history: orphans a handler worked on since the scan's check
    wish,     \* history: how the user's last decision on an orphan stands
    sWish,    \* history: wish when the scan started
    used      \* how often each event has happened

scanVars == <<sAt, sIgnored, sTodo, sCur, sOpen, sWish>>
execVars == <<xAt, xPlan, xRun, xTodo, xMem, xFailed>>
vars == <<orphan, tagged, plan, disk, up, scanVars, execVars, moved, wish, used>>

-----------------------------------------------------------------------------
(* Types *)

NoFile  == 0
Foreign == -1   \* a file the program did not place

OrphanState == {"none", "discovered", "unknown", "blocked", "ignored", "filed"}
Status == {"none", "draft", "blocked", "executing", "done", "partial", "failed",
           "undone", "undo_failed"}

\* A row whose status is done: "placed" has created_by_us set, "found" was
\* marked done by the startup repair.
Done     == {"placed", "found"}
RowState == Done \cup {"pending", "in_progress", "failed", "skipped", "blocked"}
Rows     == [Steps -> RowState]
Fresh    == [s \in Steps |-> "pending"]

SPc == {"idle", "list", "item", "upsert", "check", "open", "save"}
XPc == {"idle", "preflight", "step", "place", "after", "record", "finish", "filed",
        "tag", "undo", "undo_finish", "undo_mark"}

\* "ignored": the user's Ignore came with no handler at work on the orphan;
\* "overlapped": one was at work.
Wish == {"none", "ignored", "overlapped"}

TypeOK ==
    /\ orphan \in [Orphan -> OrphanState]
    /\ tagged \subseteq Orphan
    /\ plan \in [Id -> [of : Orphan, status : Status, rows : Rows]]
    /\ disk \in [Orphan -> [Steps -> {NoFile, Foreign} \cup Id]]
    /\ up \in BOOLEAN
    /\ sAt \in SPc
    /\ sIgnored \subseteq Orphan /\ sTodo \subseteq Orphan /\ sCur \subseteq Orphan
    /\ sOpen \in {0} \cup Id
    /\ xAt \in XPc
    /\ xPlan \in Id
    /\ xRun \subseteq Steps /\ xTodo \subseteq xRun
    /\ xMem \in Rows
    /\ xFailed \in BOOLEAN
    /\ moved \subseteq Orphan
    /\ wish \in [Orphan -> Wish] /\ sWish \in [Orphan -> Wish]
    /\ used \in [Events -> Nat]

-----------------------------------------------------------------------------
(* Helpers *)

Happens(e) == used[e] < Bound[e] /\ used' = [used EXCEPT ![e] = @ + 1]

Plans(o, statuses) == {p \in Id : plan[p].status \in statuses /\ plan[p].of = o}

\* A plan whose undo failed forgotten.
Unresolved_executed(o) == Plans(o, {"failed", "executing"})

\* UnresolvedPlanFor, and the statuses of OpenPlanFor.
Unresolved(o) == Plans(o, {"failed", "executing", "undo_failed"})

Open(o)       == Plans(o, {"draft", "blocked"})

\* The steps of a plan that have created_by_us.
Claimed(p) == {s \in Steps : plan[p].rows[s] = "placed"}

SetStatus(p, st) == plan' = [plan EXCEPT ![p].status = st]
SetRow(p, s, r)  == plan' = [plan EXCEPT ![p].rows[s] = r]

NoWish == [o \in Orphan |-> "none"]

-----------------------------------------------------------------------------
Init ==
    /\ orphan = [o \in Orphan |-> "none"]
    /\ tagged = {}
    /\ plan \in {[p \in Id |-> [of |-> o, status |-> "none", rows |-> Fresh]] :
                    o \in Orphan}
    /\ disk \in [Orphan -> [Steps -> {NoFile, Foreign}]]
    /\ up = TRUE
    /\ sAt = "idle" /\ sIgnored = {} /\ sTodo = {} /\ sCur = {} /\ sOpen = 0
    /\ xAt = "idle" /\ xPlan = 1 /\ xRun = {} /\ xTodo = {} /\ xMem = Fresh /\ xFailed = FALSE
    /\ moved = {}
    /\ wish = NoWish /\ sWish = NoWish
    /\ used = [e \in Events |-> 0]

-----------------------------------------------------------------------------
(* The scan *)

ScanOnly == UNCHANGED <<tagged, disk, up, execVars, wish>>

\* ScanNow reads the sticky ignores once, before anything is listed.
ScanStart ==
    /\ up /\ sAt = "idle" /\ Happens("scan")
    /\ sIgnored' = {o \in Orphan : orphan[o] = "ignored"}
    /\ sWish' = wish
    /\ sAt' = "list"
    /\ ScanOnly /\ UNCHANGED <<orphan, plan, sTodo, sCur, sOpen, moved>>

\* The candidates: whatever the rules of Evaluate keep, short of the tag and of
\* the ignores read above.
ScanList ==
    /\ up /\ sAt = "list"
    /\ sTodo' \in SUBSET (Orphan \ (tagged \cup sIgnored))
    /\ sAt' = "item"
    /\ ScanOnly /\ UNCHANGED <<orphan, plan, sIgnored, sCur, sOpen, sWish, moved, used>>

ScanItem(o) ==
    /\ up /\ sAt = "item" /\ o \in sTodo
    /\ sTodo' = sTodo \ {o} /\ sCur' = {o} /\ sAt' = "upsert"
    /\ ScanOnly /\ UNCHANGED <<orphan, plan, sIgnored, sOpen, sWish, moved, used>>

ScanEnd ==
    /\ up /\ sAt = "item" /\ sTodo = {}
    /\ sAt' = "idle" /\ sIgnored' = {} /\ sWish' = NoWish
    /\ ScanOnly /\ UNCHANGED <<orphan, plan, sTodo, sCur, sOpen, moved, used>>

\* Done with the orphan at hand.
NextItem == sAt' = "item" /\ sCur' = {} /\ sOpen' = 0 /\ moved' = {}

\* Every scan recomputes the state.
Refreshed_always(old, new) == new

\* UpsertOrphan keeps the user's decisions and refreshes the rest.
Refreshed(old, new) == IF old \in {"ignored", "filed"} THEN old ELSE new

\* A cross-seed, an unknown type, a layout that cannot be built or the cap on
\* plans end the work on this orphan; the upsert has been done.
ScanUpsert(o) ==
    /\ up /\ sAt = "upsert" /\ sCur = {o}
    /\ \E verdict \in {"blocked", "unknown", "discovered"} :
        /\ orphan' = [orphan EXCEPT ![o] = Refreshed(@, verdict)]
        /\ \/ NextItem
           \/ /\ verdict = "discovered" /\ sAt' = "check"
              /\ UNCHANGED <<sCur, sOpen, moved>>
    /\ ScanOnly /\ UNCHANGED <<plan, sIgnored, sTodo, sWish, used>>

\* UnresolvedPlanFor: a plan that waits for the user ends the work.
ScanCheck(o) ==
    /\ up /\ sAt = "check" /\ sCur = {o}
    /\ \/ /\ Unresolved(o) # {} /\ NextItem
       \/ /\ Unresolved(o) = {} /\ sAt' = "open"
          /\ moved' = (IF xAt # "idle" /\ plan[xPlan].of = o THEN {o} ELSE {})
          /\ UNCHANGED <<sCur, sOpen>>
    /\ ScanOnly /\ UNCHANGED <<orphan, plan, sIgnored, sTodo, sWish, used>>

\* savePlan, OpenPlanFor: the latest open plan, if there is one.
ScanOpen(o) ==
    /\ up /\ sAt = "open" /\ sCur = {o}
    /\ \/ Open(o) = {} /\ sOpen' = 0
       \/ \E p \in Open(o) : (\A q \in Open(o) : q <= p) /\ sOpen' = p
    /\ sAt' = "save"
    /\ ScanOnly /\ UNCHANGED <<orphan, plan, sIgnored, sTodo, sCur, sWish, moved, used>>

\* SavePlan, one transaction: a new draft, or the open plan made a fresh draft.
NewPlan(o) ==
    /\ sOpen = 0
    /\ \E p \in Id :
        /\ plan[p].status = "none"
        /\ \A q \in 1 .. (p - 1) : plan[q].status # "none"
        /\ plan' = [plan EXCEPT ![p] = [of |-> o, status |-> "draft", rows |-> Fresh]]
\* SavePlan without its count of placed steps.
Rewrite_unchecked ==
    /\ sOpen # 0
    /\ plan' = [plan EXCEPT ![sOpen].status = "draft", ![sOpen].rows = Fresh]

Rewrite ==
    /\ sOpen # 0 /\ Claimed(sOpen) = {}
    /\ plan' = [plan EXCEPT ![sOpen].status = "draft", ![sOpen].rows = Fresh]

\* A source that cannot be read ends the work, and so does a plan that has
\* placed files.
RefuseSave == UNCHANGED plan

ScanSave(o) ==
    /\ up /\ sAt = "save" /\ sCur = {o}
    /\ NewPlan(o) \/ Rewrite \/ RefuseSave
    /\ NextItem
    /\ ScanOnly /\ UNCHANGED <<orphan, sIgnored, sTodo, sWish, used>>

-----------------------------------------------------------------------------
(* Execute *)

ExecOnly == UNCHANGED <<up, scanVars>>

\* The handler returns, and its variables with it.
Idle ==
    /\ xAt' = "idle" /\ xRun' = {} /\ xTodo' = {} /\ xMem' = Fresh
    /\ xFailed' = FALSE /\ xPlan' = 1

\* The handler starts on plan p: what the user decided about its orphan before
\* is replaced by this request.
Begin(p) ==
    /\ up /\ xAt = "idle" /\ Happens("run")
    /\ xPlan' = p /\ xMem' = plan[p].rows /\ xFailed' = FALSE
    /\ moved' = moved \cup {plan[p].of}
    /\ wish' = [wish EXCEPT ![plan[p].of] = "none"]
    /\ ExecOnly /\ UNCHANGED <<orphan, tagged, plan, disk>>

\* Execute reads the plan and leaves out the steps that are done.
ExecRead(p) ==
    /\ plan[p].status \in Offered
    /\ Begin(p)
    /\ xAt' = "preflight"
    /\ xRun' = {s \in Steps : plan[p].rows[s] \notin Done}
    /\ xTodo' = xRun'

\* Nothing is pending, or the preflight refuses, or the run starts.
Preflight ==
    /\ up /\ xAt = "preflight"
    /\ \/ xRun = {} /\ SetStatus(xPlan, "done") /\ Idle
       \/ xRun # {} /\ SetStatus(xPlan, "blocked") /\ Idle
       \/ /\ xRun # {} /\ SetStatus(xPlan, "executing") /\ xAt' = "step"
          /\ UNCHANGED <<xPlan, xRun, xTodo, xMem, xFailed>>
    /\ ExecOnly /\ UNCHANGED <<orphan, tagged, disk, moved, wish, used>>

\* The next step of a run, and of a rollback.
First(s) == s \in xTodo /\ \A u \in xTodo : s <= u
Last(s)  == s \in xTodo /\ \A u \in xTodo : u <= s

Dst(s) == disk[plan[xPlan].of][s]

RunOnly == ExecOnly /\ UNCHANGED <<orphan, tagged, xPlan, xRun, moved, wish, used>>

\* runStep: the row goes to in_progress first (journal.Before).
StepBefore(s) ==
    /\ up /\ xAt = "step" /\ First(s)
    /\ SetRow(xPlan, s, "in_progress")
    /\ xMem' = [xMem EXCEPT ![s] = "in_progress"]
    /\ xAt' = "place"
    /\ RunOnly /\ UNCHANGED <<disk, xTodo, xFailed>>

StepPlace(s) ==
    /\ up /\ xAt = "place" /\ First(s) /\ Dst(s) = NoFile
    /\ disk' = [disk EXCEPT ![plan[xPlan].of][s] = xPlan]
    /\ xAt' = "after"
    /\ RunOnly /\ UNCHANGED <<plan, xTodo, xMem, xFailed>>

\* A collision under the skip policy writes nothing to the store.
StepSkip(s) ==
    /\ up /\ xAt = "place" /\ First(s) /\ Dst(s) # NoFile
    /\ xMem' = [xMem EXCEPT ![s] = "skipped"]
    /\ xTodo' = xTodo \ {s} /\ xAt' = "step"
    /\ RunOnly /\ UNCHANGED <<plan, disk, xFailed>>

\* An error of the filesystem, a changed source or a collision under the fail
\* policy ends the run.
StepFail(s) ==
    /\ up /\ xAt = "place" /\ First(s)
    /\ xMem' = [xMem EXCEPT ![s] = "failed"]
    /\ xTodo' = {} /\ xFailed' = TRUE /\ xAt' = "record"
    /\ RunOnly /\ UNCHANGED <<plan, disk>>

\* The result is written back without created_by_us.
StepAfter_unclaimed(s) ==
    /\ up /\ xAt = "after" /\ First(s)
    /\ SetRow(xPlan, s, "found")
    /\ xMem' = [xMem EXCEPT ![s] = "found"]
    /\ xTodo' = xTodo \ {s} /\ xAt' = "step"
    /\ RunOnly /\ UNCHANGED <<disk, xFailed>>

\* journal.After: the row is done and claimed.
StepAfter(s) ==
    /\ up /\ xAt = "after" /\ First(s)
    /\ SetRow(xPlan, s, "placed")
    /\ xMem' = [xMem EXCEPT ![s] = "placed"]
    /\ xTodo' = xTodo \ {s} /\ xAt' = "step"
    /\ RunOnly /\ UNCHANGED <<disk, xFailed>>

\* The run ends; an abandoned request ends it early.
RunEnd ==
    /\ up /\ xAt = "step"
    /\ xFailed' = (xTodo # {})
    /\ xTodo' = {} /\ xAt' = "record"
    /\ RunOnly /\ UNCHANGED <<plan, disk, xMem>>

\* UpdateStepResult for every step of the run, from memory.
Record ==
    /\ up /\ xAt = "record"
    /\ plan' = [plan EXCEPT ![xPlan].rows =
                    [s \in Steps |-> IF s \in xRun THEN xMem[s] ELSE @[s]]]
    /\ xAt' = "finish"
    /\ RunOnly /\ UNCHANGED <<disk, xTodo, xMem, xFailed>>

\* Run marks every step done that returned without an error.
Skipped_done == FALSE

\* A failed run fails the plan; a skip makes it partial.
Skipped == \E s \in xRun : xMem[s] = "skipped"

Finish ==
    /\ up /\ xAt = "finish"
    /\ \/ xFailed /\ SetStatus(xPlan, "failed") /\ Idle
       \/ /\ ~xFailed /\ SetStatus(xPlan, IF Skipped THEN "partial" ELSE "done")
          /\ xAt' = "filed" /\ UNCHANGED <<xPlan, xRun, xTodo, xMem, xFailed>>
    /\ ExecOnly /\ UNCHANGED <<orphan, tagged, disk, moved, wish, used>>

Filed ==
    /\ up /\ xAt = "filed"
    /\ orphan' = [orphan EXCEPT ![plan[xPlan].of] = "filed"]
    /\ xAt' = "tag"
    /\ ExecOnly
    /\ UNCHANGED <<tagged, plan, disk, xPlan, xRun, xTodo, xMem, xFailed, moved, wish, used>>

\* markFiled: the client may refuse the tag, or the configuration leave it out.
Tag ==
    /\ up /\ xAt = "tag" /\ Idle
    /\ tagged' \in {tagged, tagged \cup {plan[xPlan].of}}
    /\ ExecOnly /\ UNCHANGED <<orphan, plan, disk, moved, wish, used>>

-----------------------------------------------------------------------------
(* Undo *)

UndoRead(p) ==
    /\ plan[p].status \in {"done", "partial", "failed"}
    /\ Begin(p)
    /\ xAt' = "undo"
    /\ xRun' = Claimed(p) /\ xTodo' = xRun'

\* Rollback, the last step first.  A file of the recorded size is removed; one
\* that differs, or that cannot be removed, is an error and stays.
UndoStep(s) ==
    /\ up /\ xAt = "undo" /\ Last(s)
    /\ xTodo' = xTodo \ {s}
    /\ \/ disk' = [disk EXCEPT ![plan[xPlan].of][s] = NoFile] /\ UNCHANGED xFailed
       \/ /\ Dst(s) # NoFile
          /\ xFailed' = TRUE /\ UNCHANGED disk
    /\ RunOnly /\ UNCHANGED <<plan, xAt, xMem>>

UndoFinish ==
    /\ up /\ xAt = "undo" /\ xTodo = {}
    /\ \/ xFailed /\ SetStatus(xPlan, "undo_failed") /\ Idle
       \/ /\ ~xFailed /\ SetStatus(xPlan, "undone") /\ xAt' = "undo_mark"
          /\ UNCHANGED <<xPlan, xRun, xTodo, xMem, xFailed>>
    /\ ExecOnly /\ UNCHANGED <<orphan, tagged, disk, moved, wish, used>>

UndoMark ==
    /\ up /\ xAt = "undo_mark" /\ Idle
    /\ orphan' = [orphan EXCEPT ![plan[xPlan].of] = "discovered"]
    /\ ExecOnly /\ UNCHANGED <<tagged, plan, disk, moved, wish, used>>

-----------------------------------------------------------------------------
(* The user's Ignore, crash and restart *)

AtWorkOn(o) == xAt # "idle" /\ plan[xPlan].of = o

Ignore(o) ==
    /\ up /\ orphan[o] # "none" /\ Happens("ignore")
    /\ orphan' = [orphan EXCEPT ![o] = "ignored"]
    /\ wish' = [wish EXCEPT ![o] = IF AtWorkOn(o) THEN "overlapped" ELSE "ignored"]
    /\ UNCHANGED <<tagged, plan, disk, up, scanVars, execVars, moved>>

Crash ==
    /\ up /\ Happens("crash")
    /\ up' = FALSE
    /\ sAt' = "idle" /\ sIgnored' = {} /\ sTodo' = {} /\ sCur' = {} /\ sOpen' = 0
    /\ Idle
    /\ moved' = {} /\ sWish' = NoWish
    /\ UNCHANGED <<orphan, tagged, plan, disk, wish>>

\* Reconcile of one row: a file of the recorded size is taken for done, another
\* blocks the step, none leaves it to be done.
Repaired(row, file, sized) ==
    IF row # "in_progress" THEN row
    ELSE IF file = NoFile THEN "pending"
    ELSE IF file = Foreign /\ ~sized THEN "blocked" ELSE "found"

\* A status no part of the program knows.
Released_interrupted(st) == IF st = "executing" THEN "interrupted" ELSE st

Released(st) == IF st = "executing" THEN "failed" ELSE st

\* Without a row in progress nothing is repaired, and no plan released.
Torn == {p \in Id : \E s \in Steps : plan[p].rows[s] = "in_progress"}
Boot ==
    /\ ~up /\ up' = TRUE
    /\ \/ Torn = {} /\ UNCHANGED plan
       \/ /\ Torn # {}
          /\ \E sized \in SUBSET Steps :  \* where a foreign file has the size
                plan' = [p \in Id |->
                  [of |-> plan[p].of, status |-> Released(plan[p].status),
                   rows |-> [s \in Steps |->
                     Repaired(plan[p].rows[s], disk[plan[p].of][s], s \in sized)]]]
    /\ UNCHANGED <<orphan, tagged, disk, scanVars, execVars, moved, wish, used>>

-----------------------------------------------------------------------------
Scan ==
    \/ ScanStart \/ ScanList \/ ScanEnd
    \/ \E o \in Orphan : ScanItem(o) \/ ScanUpsert(o) \/ ScanCheck(o) \/ ScanOpen(o)
                         \/ ScanSave(o)
Execute ==
    \/ \E p \in Id : ExecRead(p)
    \/ \E s \in xTodo : \/ StepBefore(s) \/ StepPlace(s) \/ StepSkip(s) \/ StepFail(s)
                       \/ StepAfter(s)
    \/ Preflight \/ RunEnd \/ Record \/ Finish \/ Filed \/ Tag
Undo ==
    \/ \E p \in Id : UndoRead(p)
    \/ \E s \in xTodo : UndoStep(s)
    \/ UndoFinish \/ UndoMark
Next == Scan \/ Execute \/ Undo \/ (\E o \in Orphan : Ignore(o)) \/ Crash \/ Boot

Spec == Init /\ [][Next]_vars

-----------------------------------------------------------------------------
(* Properties *)

\* SavePlan "never reuse[s] a plan that placed something": whatever a scan and a
\* handler do to a plan together, a claim in the undo record is never erased.
ClaimsNeverErased ==
    [][\A p \in Id, s \in Steps :
         plan[p].rows[s] = "placed" => plan'[p].rows[s] = "placed"]_vars

\* A plan is done only when each of its files was placed under its claim: no
\* skip counts as success (exec.go:181) and no rewrite by a scan leaves a row
\* behind.  A crash may leave a row that only looks done.
DoneMeansPlaced ==
    used["crash"] = 0 =>
      \A p \in Id : plan[p].status = "done" => Claimed(p) = Steps

\* A scan adds a plan to an orphan only if none waits for the user and none is
\* open, unless a handler was at work on the orphan since the scan looked.
Live(o) == Plans(o, {"draft", "blocked", "executing", "failed", "undo_failed"})
NoDuplicate ==
    [][\A p \in Id :
         LET o == plan'[p].of IN
         plan[p].status = "none" /\ plan'[p].status # "none" /\ o \notin moved
           => Live(o) = {}]_vars

\* "It will be skipped on future scans": an Ignore that met no handler at work
\* on the orphan holds in every scan that starts later, until the user executes
\* or undoes a plan of it.
Planned(p) == plan'[p].status = "draft" /\ sAt = "save" /\ sAt' = "item" /\ plan'[p].of \in sCur
IgnoreHolds ==
    [][\A p \in Id : Planned(p) /\ plan'[p] # plan[p] => sWish[plan'[p].of] # "ignored"]_vars

\* The files the program put in the library and that no undo record claims are
\* no more than the crashes there were.
Unclaimed ==
    {d \in Orphan \X Steps :
       LET p == disk[d[1]][d[2]] IN
       /\ p \in Id /\ plan[p].rows[d[2]] # "placed"
       /\ ~(xAt = "after" /\ xPlan = p /\ First(d[2]))}
LostFileCost == Cardinality(Unclaimed) <= used["crash"]
=============================================================================
