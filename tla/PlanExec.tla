------------------------------ MODULE PlanExec ------------------------------
(***************************************************************************)
(* One plan, from approval to undo: the executor (internal/exec), the      *)
(* handlers that drive it (internal/pipeline/execute.go), its journal      *)
(* (pipeline/journal.go, store/plans.go) and the library directory it      *)
(* writes, reached through the write guard (fsx/guard.go).                 *)
(*                                                                         *)
(* Execute, Undo and the startup Reconcile run one at a time (execMu, and  *)
(* main.go runs Reconcile before it serves), so a single program counter   *)
(* pc orders them.  One action is one database statement or one filesystem *)
(* call; between two of them the process may die, the user may touch the   *)
(* library, the download client may touch the source, and the settings may *)
(* change.  Step s writes to the names 0, 1, ... : 0 is the planned        *)
(* destination, l + 1 is name l with " (2)" added to it.                   *)
(*                                                                         *)
(* An operator X_whatWentWrong is X with one plausible bug.  Nothing uses   *)
(* it: put in the place of X, it must make TLC find a property violated.    *)
(***************************************************************************)
EXTENDS Integers, FiniteSets

CONSTANTS
    N,           \* the plan has steps 1 .. N
    Identified,  \* steps whose source identity was recorded at plan time
    Policies,    \* collision policies the settings may hold
    MaxSuffix,   \* names 0 .. MaxSuffix of each step are told apart
    Bound,       \* how often each event of Events may happen
    MaxSurprises \* how many events other than "run" and "undo" may happen

Steps  == 1 .. N
Loc    == 0 .. MaxSuffix
Events == {"run", "undo", "crash", "user", "source", "fault", "setting"}

ASSUME NAssumption == N \in Nat \ {0}
ASSUME IdentifiedAssumption == Identified \subseteq Steps
ASSUME PoliciesAssumption == Policies \subseteq {"skip", "suffix", "fail"}
ASSUME MaxSuffixAssumption == MaxSuffix \in Nat
ASSUME BoundAssumption == Bound \in [Events -> Nat] /\ MaxSurprises \in Nat

VARIABLES
    planStatus,  \* plan.status
    rows,        \* plan_step: one row for each step
    mem,         \* the []exec.Step a handler works on
    pc, cur,     \* where the handler is, and at which step
    todo,        \* steps the handler still has to go through
    failed,      \* Run returned an error / Rollback collected one
    opts,        \* exec.Options of the execution
    orphan,      \* orphan.state, as far as plans set it
    tagged,      \* the client carries the orphanarr-filed tag
    flat,        \* <<step, name>> lines of the flat journal
    files,       \* what is at each destination name
    partial,     \* what is at each name's .orphanarr-partial.tmp
    dir,         \* the directory the plan files into
    src,         \* each step's source file, relative to plan time
    roots,       \* the guard knows the library root
    srcRooted,   \* the guard knows the download root
    dry,         \* dry-run
    placed,      \* history: names this plan has put a file at
    used         \* how often each event has happened

progVars == <<planStatus, rows, mem, pc, cur, todo, failed, opts>>
outVars  == <<orphan, tagged, flat>>
diskVars == <<files, partial, dir, placed>>
confVars == <<roots, srcRooted, dry>>
vars == <<progVars, outVars, diskVars, src, confVars, used>>

-----------------------------------------------------------------------------
(* Types *)

PlanStatus == {"draft", "blocked", "executing", "done", "partial", "failed",
               "undone", "undo_failed"}
StepStatus == {"pending", "in_progress", "done", "failed", "skipped", "blocked"}
Row == [status : StepStatus, dst : Loc, actual : {"", "copy", "hardlink"},
        created : BOOLEAN, dirs : BOOLEAN]

\* A destination holds nothing, a file of the user's (of the size the step
\* records or of another), a finished copy, a copy whose data is not on the
\* platter, a copy that is not the planned content, or a hard link to the
\* inode the plan recorded or to a later one.
UserFile == {"user_same", "user_other"}
OurFile  == {"copy", "unsynced", "torn", "link", "link_other"}
File     == {"absent"} \cup UserFile \cup OurFile
Partial  == {"absent", "writing", "written", "wrong", "synced"}
Source   == {"planned", "edited", "replaced", "gone"}

BootPc == {"boot_stat", "boot_write", "boot_release", "boot_reload"}
ExecPc == {"before", "mkdir", "check", "link", "create", "copying", "verify",
           "sync", "publish", "unlink", "after", "append", "record", "mark"}
UndoPc == {"undo_verify", "undo_remove", "undo_dir", "undo_finish"}
Pc == {"down", "idle"} \cup BootPc \cup ExecPc \cup UndoPc

TypeOK ==
    /\ planStatus \in PlanStatus
    /\ rows \in [Steps -> Row]
    /\ mem \in [Steps -> Row]
    /\ pc \in Pc
    /\ cur \in Steps
    /\ todo \subseteq Steps
    /\ failed \in BOOLEAN
    /\ opts \in [collision : {"skip", "suffix", "fail"}, link : BOOLEAN]
    /\ orphan \in {"planned", "filed", "discovered"}
    /\ tagged \in BOOLEAN
    /\ flat \subseteq Steps \X Loc
    /\ files \in [Steps -> [Loc -> File]]
    /\ partial \in [Steps -> [Loc -> Partial]]
    /\ dir \in {"absent", "user", "ours"}
    /\ src \in [Steps -> Source]
    /\ roots \in BOOLEAN /\ srcRooted \in BOOLEAN /\ dry \in BOOLEAN
    /\ placed \subseteq Steps \X Loc
    /\ used \in [Events -> Nat]

-----------------------------------------------------------------------------
(* Helpers *)

\* Guard.assertWritable for a path in the plan's library.
Writable == roots /\ ~dry

Surprises == used["crash"] + used["user"] + used["source"] + used["fault"]
               + used["setting"]

Happens(e) == /\ used[e] < Bound[e]
              /\ e \in {"run", "undo"} \/ Surprises < MaxSurprises
              /\ used' = [used EXCEPT ![e] = @ + 1]

\* Steps are taken in the order of their numbers, and undone backwards.
First(s, S) == s \in S /\ \A t \in S : s <= t
Last(s, S)  == s \in S /\ \A t \in S : t <= s

\* suffixed(); past the last name told apart the name is taken for occupied.
Suffixed(l) == IF l < MaxSuffix THEN l + 1 ELSE l

\* fi.Size = s.SrcSize, where every file of ours has the planned size.
SameSize(f) == f \in OurFile \cup {"user_same"}

\* The handler's copy of step s becomes row.
Hold(s, row) == mem' = [mem EXCEPT ![s] = row]

Exists(s) == files[s][mem[s].dst] # "absent"

\* What link(2) of the partial makes of it.
Published(p) == CASE p = "synced"  -> "copy"
                  [] p = "written" -> "unsynced"
                  [] OTHER         -> "torn"

Put(s, f) == /\ files' = [files EXCEPT ![s][mem[s].dst] = f]
             /\ placed' = placed \cup {<<s, mem[s].dst>>}
SetPartial(s, p) == partial' = [partial EXCEPT ![s][mem[s].dst] = p]

Cleanup_none(s) == UNCHANGED partial

\* The cleanup of copy(): Remove(partial), its error dropped.
Cleanup(s) == IF Writable THEN SetPartial(s, "absent") ELSE UNCHANGED partial

\* UpdateStepResult and SetPlanStatus where the caller drops the error.
WriteRow(s) == \/ rows' = [rows EXCEPT ![s] = mem[s]] /\ UNCHANGED used
               \/ Happens("fault") /\ UNCHANGED rows
WriteStatus(st) == \/ planStatus' = st /\ UNCHANGED used
                   \/ Happens("fault") /\ UNCHANGED planStatus

\* Run moves on to the next pending step, or returns nil.
RunNext(s) ==
    LET later == {t \in todo : t > s} IN
    \/ later = {} /\ pc' = "record" /\ failed' = FALSE /\ UNCHANGED cur
    \/ \E t \in later : First(t, later) /\ cur' = t /\ pc' = "before" /\ UNCHANGED failed

RunFails_unmarked(s, row) ==
    /\ Hold(s, row)
    /\ pc' = "record"
    /\ failed' = TRUE
    /\ UNCHANGED cur

RunFails_misspelt(s, row) ==
    /\ Hold(s, [row EXCEPT !.status = "error"])
    /\ pc' = "record"
    /\ failed' = TRUE
    /\ UNCHANGED cur

\* created_by_us set before the copy it stands for.
RunFails_claiming(s, row) ==
    /\ Hold(s, [row EXCEPT !.status = "failed", !.created = TRUE])
    /\ pc' = "record"
    /\ failed' = TRUE
    /\ UNCHANGED cur

\* runStep returned an error: Run marks the step failed and stops.
RunFails(s, row) ==
    /\ Hold(s, [row EXCEPT !.status = "failed"])
    /\ pc' = "record"
    /\ failed' = TRUE
    /\ UNCHANGED cur

Init ==
    /\ planStatus = "draft"
    /\ rows = [s \in Steps |-> [status |-> "pending", dst |-> 0, actual |-> "",
                                created |-> FALSE, dirs |-> FALSE]]
    /\ mem = rows
    /\ pc = "idle"
    /\ cur = 1
    /\ todo = {}
    /\ failed = FALSE
    /\ opts = [collision |-> "skip", link |-> FALSE]
    /\ orphan = "planned"
    /\ tagged = FALSE
    /\ flat = {}
    /\ files = [s \in Steps |-> [l \in Loc |-> "absent"]]
    /\ partial = [s \in Steps |-> [l \in Loc |-> "absent"]]
    /\ dir \in {"absent", "user"}
    /\ src = [s \in Steps |-> "planned"]
    /\ roots = TRUE
    /\ srcRooted = TRUE
    /\ dry = FALSE
    /\ placed = {}
    /\ used = [e \in Events |-> 0]

-----------------------------------------------------------------------------
(* Pipeline.Execute, up to the run *)

\* The handler returns: what it held in memory is gone.
Return ==
    /\ pc' = "idle"
    /\ mem' = rows'
    /\ cur' = 1
    /\ todo' = {}
    /\ failed' = FALSE
    /\ opts' = [collision |-> "skip", link |-> FALSE]

\* Re-executing a failed plan from step 0.
Pending_all == Steps

Pending == {s \in Steps : rows[s].status # "done"}

\* The refusals of Execute that leave no trace.
MayExecute == pc = "idle" /\ planStatus # "done" /\ ~dry /\ srcRooted

ExecuteNothingPending ==
    /\ MayExecute
    /\ Happens("run")
    /\ Pending = {}
    /\ planStatus' = "done"
    /\ UNCHANGED <<rows, mem, pc, cur, todo, failed, opts, outVars, diskVars,
                   src, confVars>>

\* Preflight refuses: no space, or a source that does not open.
ExecuteBlocked ==
    /\ MayExecute
    /\ Happens("run")
    /\ Pending # {}
    /\ planStatus' = "blocked"
    /\ UNCHANGED <<rows, mem, pc, cur, todo, failed, opts, outVars, diskVars,
                   src, confVars>>

ExecuteStart ==
    /\ MayExecute
    /\ Happens("run")
    /\ Pending # {}
    /\ \A s \in Pending : src[s] # "gone"
    /\ planStatus' = "executing"
    /\ mem' = rows
    /\ todo' = Pending
    /\ \E s \in Pending : First(s, Pending) /\ cur' = s
    /\ pc' = "before"
    /\ \E c \in Policies, l \in BOOLEAN : opts' = [collision |-> c, link |-> l]
    /\ UNCHANGED <<rows, failed, outVars, diskVars, src, confVars>>

-----------------------------------------------------------------------------
(* Executor.Run and runStep *)

\* Run sees the context cancelled between two steps.
Cancelled ==
    /\ pc = "before"
    /\ pc' = "record"
    /\ failed' = TRUE
    /\ UNCHANGED <<planStatus, rows, mem, cur, todo, opts, outVars, diskVars,
                   src, confVars, used>>

\* journal.Before: status and destination only.
Before ==
    /\ pc = "before"
    /\ \/ /\ rows' = [rows EXCEPT ![cur] = [@ EXCEPT !.status = "in_progress",
                                                     !.dst = mem[cur].dst]]
          /\ Hold(cur, [mem[cur] EXCEPT !.status = "in_progress"])
          /\ pc' = "mkdir"
          /\ UNCHANGED <<cur, failed, used>>
       \/ /\ Happens("fault")
          /\ RunFails(cur, mem[cur])
          /\ UNCHANGED rows
    /\ UNCHANGED <<planStatus, todo, opts, outVars, diskVars, src, confVars>>

\* MkdirAll of the destination's directory; it reports what it created.
Mkdir ==
    /\ pc = "mkdir"
    /\ \/ /\ Writable
          /\ dir' = IF dir = "absent" THEN "ours" ELSE dir
          /\ Hold(cur, [mem[cur] EXCEPT !.dirs = (dir = "absent")])
          /\ pc' = "check"
          /\ UNCHANGED <<cur, failed>>
       \/ /\ RunFails(cur, mem[cur])
          /\ UNCHANGED dir
    /\ UNCHANGED <<planStatus, rows, todo, opts, outVars, files, partial, placed,
                   src, confVars, used>>

\* The collision policy, run against the disk and not against the plan.
Check ==
    /\ pc = "check"
    /\ \/ /\ ~Exists(cur)
          /\ pc' = "link"
          /\ UNCHANGED <<mem, cur, failed>>
       \/ /\ Exists(cur) /\ opts.collision = "suffix"
          /\ Hold(cur, [mem[cur] EXCEPT !.dst = Suffixed(@)])
          /\ pc' = "link"
          /\ UNCHANGED <<cur, failed>>
       \/ /\ Exists(cur) /\ opts.collision = "fail"
          /\ RunFails(cur, mem[cur])
       \/ /\ Exists(cur) /\ opts.collision = "skip"
          /\ Hold(cur, [mem[cur] EXCEPT !.status = "skipped"])
          /\ RunNext(cur)
    /\ UNCHANGED <<planStatus, rows, todo, opts, outVars, diskVars, src,
                   confVars, used>>

\* The hardlink fast path, where the probe allows it; any failure falls
\* through to the copy.
Link ==
    /\ pc = "link"
    /\ \/ /\ opts.link /\ Writable /\ ~Exists(cur) /\ src[cur] # "gone"
          /\ Put(cur, IF src[cur] = "replaced" THEN "link_other" ELSE "link")
          /\ Hold(cur, [mem[cur] EXCEPT !.actual = "hardlink", !.created = TRUE])
          /\ pc' = "after"
       \/ /\ pc' = "create"
          /\ UNCHANGED <<mem, files, placed>>
    /\ UNCHANGED <<planStatus, rows, cur, todo, failed, opts, outVars, partial,
                   dir, src, confVars, used>>

\* Open(src) and CreateExcl(partial): a partial that is there is an error.
Create ==
    /\ pc = "create"
    /\ \/ /\ src[cur] # "gone" /\ Writable /\ partial[cur][mem[cur].dst] = "absent"
          /\ SetPartial(cur, "writing")
          /\ pc' = "copying"
          /\ UNCHANGED <<mem, cur, failed>>
       \/ /\ RunFails(cur, mem[cur])
          /\ UNCHANGED partial
    /\ UNCHANGED <<planStatus, rows, todo, opts, outVars, files, dir, placed, src,
                   confVars, used>>

\* An error, or a cancelled context, anywhere in copy() after CreateExcl.
CopyFails ==
    /\ pc \in {"copying", "verify", "sync", "publish"}
    /\ Cleanup(cur)
    /\ RunFails(cur, mem[cur])
    /\ UNCHANGED <<planStatus, rows, todo, opts, outVars, files, dir, placed, src,
                   confVars, used>>

\* copyCtx reaches EOF: what was read is the planned content if the source
\* was still the planned one by then.
CopyEnds ==
    /\ pc = "copying"
    /\ SetPartial(cur, IF src[cur] = "planned" THEN "written" ELSE "wrong")
    /\ pc' = "verify"
    /\ UNCHANGED <<planStatus, rows, mem, cur, todo, failed, opts, outVars, files,
                   dir, placed, src, confVars, used>>

\* assertSourceUnchanged.
Verify ==
    /\ pc = "verify"
    /\ cur \in Identified
    /\ src[cur] = "planned"
    /\ pc' = "sync"
    /\ UNCHANGED <<planStatus, rows, mem, cur, todo, failed, opts, outVars,
                   diskVars, src, confVars, used>>

Sync_skipped ==
    /\ pc = "sync"
    /\ pc' = "publish"
    /\ UNCHANGED <<planStatus, rows, mem, cur, todo, failed, opts, outVars,
                   diskVars, src, confVars, used>>

\* Sync, Chmod, Close of the partial and SyncDir of its directory.
Sync ==
    /\ pc = "sync"
    /\ SetPartial(cur, IF partial[cur][mem[cur].dst] = "written" THEN "synced"
                       ELSE partial[cur][mem[cur].dst])
    /\ pc' = "publish"
    /\ UNCHANGED <<planStatus, rows, mem, cur, todo, failed, opts, outVars, files,
                   dir, placed, src, confVars, used>>

Copied_unrecorded == Hold(cur, [mem[cur] EXCEPT !.actual = "copy"])

Copied == Hold(cur, [mem[cur] EXCEPT !.actual = "copy", !.created = TRUE])

\* publish "simplified" to rename(2).
Publish_byRename ==
    /\ pc = "publish"
    /\ Writable
    /\ Put(cur, Published(partial[cur][mem[cur].dst]))
    /\ pc' = "after"
    /\ Copied
    /\ SetPartial(cur, "absent")
    /\ UNCHANGED <<planStatus, rows, cur, todo, failed, opts, outVars, dir, src,
                   confVars, used>>

\* publish: link(2) leaves both names until the unlink; where the filesystem
\* has no links, renameat2(RENAME_NOREPLACE) leaves one. Neither replaces.
Publish ==
    /\ pc = "publish"
    /\ Writable
    /\ ~Exists(cur)
    /\ Put(cur, Published(partial[cur][mem[cur].dst]))
    /\ \/ /\ pc' = "unlink"
          /\ UNCHANGED <<mem, partial>>
       \/ /\ pc' = "after"
          /\ Copied
          /\ SetPartial(cur, "absent")
    /\ UNCHANGED <<planStatus, rows, cur, todo, failed, opts, outVars, dir, src,
                   confVars, used>>

\* The Remove(partial) of publish: refused by the guard, it fails the step
\* although the destination is in place.
Unlink ==
    /\ pc = "unlink"
    /\ \/ /\ Writable
          /\ SetPartial(cur, "absent")
          /\ Copied
          /\ pc' = "after"
          /\ UNCHANGED <<cur, failed>>
       \/ /\ ~Writable
          /\ RunFails(cur, mem[cur])
          /\ UNCHANGED partial
    /\ UNCHANGED <<planStatus, rows, todo, opts, outVars, files, dir, placed, src,
                   confVars, used>>

\* journal.After: the row's whole result.
After ==
    /\ pc = "after"
    /\ \/ /\ Hold(cur, [mem[cur] EXCEPT !.status = "done"])
          /\ rows' = [rows EXCEPT ![cur] = [mem[cur] EXCEPT !.status = "done"]]
          /\ pc' = "append"
          /\ UNCHANGED <<cur, failed, used>>
       \/ /\ Happens("fault")
          /\ RunFails(cur, mem[cur])
          /\ UNCHANGED rows
    /\ UNCHANGED <<planStatus, todo, opts, outVars, diskVars, src, confVars>>

AppendFlat_onlyLog ==
    /\ pc = "append"
    /\ UNCHANGED <<flat, used>>
    /\ RunNext(cur)
    /\ UNCHANGED <<planStatus, rows, mem, todo, opts, orphan, tagged, diskVars,
                   src, confVars>>

\* ndjson.append; a failure is logged and forgotten.
AppendFlat ==
    /\ pc = "append"
    /\ \/ /\ flat' = flat \cup {<<cur, mem[cur].dst>>}
          /\ UNCHANGED used
       \/ /\ Happens("fault")
          /\ UNCHANGED flat
    /\ RunNext(cur)
    /\ UNCHANGED <<planStatus, rows, mem, todo, opts, orphan, tagged, diskVars,
                   src, confVars>>

-----------------------------------------------------------------------------
(* Pipeline.Execute, after the run *)

\* UpdateStepResult for each step of the run; its error is dropped.
RecordStep ==
    /\ pc = "record"
    /\ \E s \in todo :
       /\ First(s, todo)
       /\ todo' = todo \ {s}
       /\ WriteRow(s)
    /\ UNCHANGED <<planStatus, mem, pc, cur, failed, opts, outVars, diskVars, src,
                   confVars>>

\* SetPlanStatus.
Finish ==
    /\ pc = "record"
    /\ todo = {}
    /\ UNCHANGED rows
    /\ \/ /\ failed
          /\ WriteStatus("failed")
          /\ Return
       \/ /\ ~failed
          /\ WriteStatus(IF \E s \in Steps : mem[s].status = "skipped"
                         THEN "partial" ELSE "done")
          /\ pc' = "mark"
          /\ UNCHANGED <<mem, cur, todo, failed, opts>>
    /\ UNCHANGED <<outVars, diskVars, src, confVars>>

\* SetOrphanState, then the tag in the client, best effort.
MarkFiled ==
    /\ pc = "mark"
    /\ orphan' = "filed"
    /\ tagged' \in {tagged, TRUE}
    /\ UNCHANGED <<planStatus, rows, flat, diskVars, src, confVars, used>>
    /\ Return

-----------------------------------------------------------------------------
(* Pipeline.Undo: Executor.Rollback over the steps created by us, backwards *)

Ours_all == Steps

Ours == {s \in Steps : rows[s].created}

UndoStart ==
    /\ pc = "idle"
    /\ planStatus \in {"done", "partial", "failed"}
    /\ Happens("undo")
    /\ mem' = rows
    /\ todo' = Ours
    /\ failed' = FALSE
    /\ pc' = "undo_verify"
    /\ UNCHANGED <<planStatus, rows, cur, opts, outVars, diskVars, src, confVars>>

\* removeIfOurs: a hard link by inode, a copy by size.  It errs when the file
\* does not match, and when the stat or the removal itself fails.
Matches(s) ==
    LET f == files[s][mem[s].dst] IN
    /\ s \in Identified
    /\ IF mem[s].actual = "hardlink" THEN f = "link" ELSE SameSize(f)

UndoVerify ==
    /\ pc = "undo_verify"
    /\ \E s \in todo : Last(s, todo) /\
       \/ /\ ~Exists(s)
          /\ pc' = "undo_dir"
          /\ UNCHANGED <<todo, failed>>
       \/ /\ Exists(s) /\ Matches(s)
          /\ pc' = "undo_remove"
          /\ UNCHANGED <<todo, failed>>
       \/ /\ todo' = todo \ {s}
          /\ failed' = TRUE
          /\ UNCHANGED pc
    /\ UNCHANGED <<planStatus, rows, mem, cur, opts, outVars, diskVars, src,
                   confVars, used>>

\* An error of the removal that Rollback does not collect.
UndoRemove_unreported ==
    /\ pc = "undo_remove"
    /\ \E s \in todo : Last(s, todo) /\
       \/ /\ Writable /\ Exists(s)
          /\ files' = [files EXCEPT ![s][mem[s].dst] = "absent"]
          /\ pc' = "undo_dir"
          /\ UNCHANGED todo
       \/ /\ todo' = todo \ {s}
          /\ pc' = "undo_verify"
          /\ UNCHANGED files
    /\ UNCHANGED <<planStatus, rows, mem, cur, failed, opts, outVars, partial, dir,
                   placed, src, confVars, used>>

\* A removal that is tried again until it works.
UndoRemove_insists ==
    /\ pc = "undo_remove"
    /\ \E s \in todo : Last(s, todo) /\
       \/ /\ Writable /\ Exists(s)
          /\ files' = [files EXCEPT ![s][mem[s].dst] = "absent"]
          /\ pc' = "undo_dir"
       \/ /\ pc' = "undo_verify"
          /\ UNCHANGED files
    /\ UNCHANGED <<planStatus, rows, mem, cur, todo, failed, opts, outVars, partial,
                   dir, placed, src, confVars, used>>

UndoRemove ==
    /\ pc = "undo_remove"
    /\ \E s \in todo : Last(s, todo) /\
       \/ /\ Writable /\ Exists(s)
          /\ files' = [files EXCEPT ![s][mem[s].dst] = "absent"]
          /\ pc' = "undo_dir"
          /\ UNCHANGED <<todo, failed>>
       \/ /\ todo' = todo \ {s}
          /\ failed' = TRUE
          /\ pc' = "undo_verify"
          /\ UNCHANGED files
    /\ UNCHANGED <<planStatus, rows, mem, cur, opts, outVars, partial, dir, placed,
                   src, confVars, used>>

DirEmpty == \A s \in Steps, l \in Loc : /\ files[s][l] = "absent"
                                        /\ partial[s][l] = "absent"

\* RemoveDirIfEmpty for each directory the step created.
UndoDir ==
    /\ pc = "undo_dir"
    /\ \E s \in todo :
       /\ Last(s, todo)
       /\ todo' = todo \ {s}
       /\ failed' = (failed \/ (mem[s].dirs /\ ~Writable))
       /\ dir' = IF mem[s].dirs /\ Writable /\ DirEmpty THEN "absent" ELSE dir
    /\ pc' = "undo_verify"
    /\ UNCHANGED <<planStatus, rows, mem, cur, opts, outVars, files, partial,
                   placed, src, confVars, used>>

\* SetPlanStatus; only then, and only on success, SetOrphanState.
UndoFinish ==
    /\ pc = "undo_verify"
    /\ todo = {}
    /\ UNCHANGED rows
    /\ \/ /\ failed
          /\ WriteStatus("undo_failed")
          /\ Return
       \/ /\ ~failed
          /\ WriteStatus("undone")
          /\ pc' = "undo_finish"
          /\ UNCHANGED <<mem, cur, todo, failed, opts>>
    /\ UNCHANGED <<outVars, diskVars, src, confVars>>

UndoMark ==
    /\ pc = "undo_finish"
    /\ orphan' = "discovered"
    /\ UNCHANGED <<planStatus, rows, tagged, flat, diskVars, src, confVars, used>>
    /\ Return

-----------------------------------------------------------------------------
(* Process death, and the startup order of main.go: Reconcile, then Reload *)

\* What the process held in memory, and what its guard had been told, is lost.
Die ==
    /\ pc # "down"
    /\ Happens("crash")
    /\ pc' = "down"
    /\ mem' = rows
    /\ cur' = 1
    /\ todo' = {}
    /\ failed' = FALSE
    /\ opts' = [collision |-> "skip", link |-> FALSE]
    /\ roots' = FALSE
    /\ srcRooted' = FALSE
    /\ UNCHANGED <<planStatus, rows, outVars, dir, placed, src, dry>>

Killed == Die /\ UNCHANGED <<files, partial>>

\* Power goes: file data that was not synced is lost under its name.
PowerLost ==
    /\ Die
    /\ files' = [s \in Steps |-> [l \in Loc |->
                   IF files[s][l] = "unsynced" THEN "torn" ELSE files[s][l]]]
    /\ partial' = [s \in Steps |-> [l \in Loc |->
                   IF partial[s][l] = "written" THEN "wrong" ELSE partial[s][l]]]

InProgress == {s \in Steps : rows[s].status = "in_progress"}

\* Pipeline.Reconcile returns at once when no row is in progress.
Boot ==
    /\ pc = "down"
    /\ mem' = rows
    /\ todo' = InProgress
    /\ pc' = IF InProgress = {} THEN "boot_reload" ELSE "boot_stat"
    /\ UNCHANGED <<planStatus, rows, cur, failed, opts, outVars, diskVars, src,
                   confVars, used>>

\* The branch of Executor.Reconcile for one step, and the sweep after it.
\* With no recorded size any destination verifies.
Verifies(s) == Exists(s) /\ (s \notin Identified \/ SameSize(files[s][mem[s].dst]))

BootStat ==
    /\ pc = "boot_stat"
    /\ \E s \in todo :
       LET ours == Exists(s) /\ ~Verifies(s) /\ mem[s].created IN
       /\ First(s, todo)
       /\ Hold(s, [mem[s] EXCEPT !.status = CASE Verifies(s)        -> "done"
                                              [] ~Exists(s) \/ ours -> "pending"
                                              [] OTHER              -> "blocked"])
       /\ files' = IF ours /\ Writable
                   THEN [files EXCEPT ![s][mem[s].dst] = "absent"] ELSE files
       /\ IF Writable THEN SetPartial(s, "absent") ELSE UNCHANGED partial
       /\ IF todo = {s} THEN pc' = "boot_write" /\ todo' = InProgress
          ELSE todo' = todo \ {s} /\ UNCHANGED pc
    /\ UNCHANGED <<planStatus, rows, cur, failed, opts, outVars, dir, placed, src,
                   confVars, used>>

BootWrite ==
    /\ pc = "boot_write"
    /\ \E s \in todo :
       /\ First(s, todo)
       /\ todo' = todo \ {s}
       /\ pc' = IF todo = {s} THEN "boot_release" ELSE pc
       /\ WriteRow(s)
    /\ UNCHANGED <<planStatus, mem, cur, failed, opts, outVars, diskVars, src,
                   confVars>>

\* ReleaseStuckPlans.
BootRelease ==
    /\ pc = "boot_release"
    /\ planStatus' = IF planStatus = "executing" THEN "failed" ELSE planStatus
    /\ pc' = "boot_reload"
    /\ UNCHANGED <<rows, mem, cur, todo, failed, opts, outVars, diskVars, src,
                   confVars, used>>

\* Reload registers the library roots, and the download roots that path
\* mappings name; the others wait for a scan.
BootReload ==
    /\ pc = "boot_reload"
    /\ roots' = TRUE
    /\ srcRooted' \in BOOLEAN
    /\ UNCHANGED <<planStatus, rows, outVars, diskVars, src, dry, used>>
    /\ Return

-----------------------------------------------------------------------------
(* What happens around the handlers *)

Serving == pc \notin {"down"} \cup BootPc

\* A scan resolves an item and registers its download root.
ScanRegisters ==
    /\ Serving
    /\ ~srcRooted
    /\ srcRooted' = TRUE
    /\ UNCHANGED <<progVars, outVars, diskVars, src, roots, dry, used>>

\* putSettings turns dry-run on or off.
SetDryRun ==
    /\ Serving
    /\ Happens("setting")
    /\ dry' = ~dry
    /\ UNCHANGED <<progVars, outVars, diskVars, src, roots, srcRooted>>

\* A Reload after a library or client was saved: the guard's library roots
\* are emptied first and added back after.
ReloadReset ==
    /\ Serving
    /\ roots
    /\ Happens("setting")
    /\ roots' = FALSE
    /\ UNCHANGED <<progVars, outVars, diskVars, src, srcRooted, dry>>

ReloadAdd ==
    /\ Serving
    /\ ~roots
    /\ roots' = TRUE
    /\ UNCHANGED <<progVars, outVars, diskVars, src, srcRooted, dry, used>>

\* The user, or another program, adds, replaces or deletes a destination.
UserTouches ==
    /\ Happens("user")
    /\ \E s \in Steps, l \in Loc, f \in UserFile \cup {"absent"} :
       /\ f # files[s][l]
       /\ files' = [files EXCEPT ![s][l] = f]
    /\ dir' = IF dir = "absent" THEN "user" ELSE dir
    /\ UNCHANGED <<progVars, outVars, partial, placed, src, confVars>>

\* The download client rewrites, replaces or deletes a source.
SourceChanges ==
    /\ Happens("source")
    /\ \E s \in Steps, to \in Source \ {"planned"} :
       /\ src[s] = "planned"
       /\ src' = [src EXCEPT ![s] = to]
    /\ UNCHANGED <<progVars, outVars, diskVars, confVars>>

Execute == \/ ExecuteNothingPending \/ ExecuteBlocked \/ ExecuteStart
           \/ Cancelled \/ Before \/ Mkdir \/ Check \/ Link
           \/ Create \/ CopyFails \/ CopyEnds \/ Verify \/ Sync \/ Publish \/ Unlink
           \/ After \/ AppendFlat \/ RecordStep \/ Finish \/ MarkFiled
Undo == UndoStart \/ UndoVerify \/ UndoRemove \/ UndoDir \/ UndoFinish \/ UndoMark
Startup == Boot \/ BootStat \/ BootWrite \/ BootRelease \/ BootReload
Settings == ScanRegisters \/ SetDryRun \/ ReloadReset \/ ReloadAdd

Next == \/ Execute \/ Undo \/ Startup \/ Settings
        \/ Killed \/ PowerLost \/ UserTouches \/ SourceChanges

Spec == Init /\ [][Next]_vars

\* A goroutine that can run does, and the container is started again.
Progress ==
    \/ Cancelled \/ Before \/ Mkdir \/ Check \/ Link
    \/ Create \/ CopyFails \/ CopyEnds \/ Verify \/ Sync \/ Publish \/ Unlink
    \/ After \/ AppendFlat \/ RecordStep \/ Finish \/ MarkFiled
    \/ UndoVerify \/ UndoRemove \/ UndoDir \/ UndoFinish \/ UndoMark
    \/ Startup

FairSpec == Spec /\ WF_vars(Progress)

-----------------------------------------------------------------------------
(* Safety *)

Names == Steps \X Loc
At(n) == files[n[1]][n[2]]
Claims(n) == rows[n[1]].created /\ rows[n[1]].dst = n[2]

\* Between the system call that made a file and the row that owns up to it.
InFlight(n) ==
    /\ pc \in ExecPc
    /\ mem[n[1]].dst = n[2]
    /\ mem[n[1]].created \/ (pc = "unlink" /\ cur = n[1])

Mishaps == used["crash"] + used["setting"] + used["fault"]

ByUser == used'["user"] # used["user"]

\* I2.  Whatever is at a destination, the program never puts something else
\* in its place; the one thing it may do to a file that is there is remove
\* it, in Undo or in the startup repair (exec.go publish, removeIfOurs).
NeverOverwrites ==
    [][\A n \in Names :
         At(n) # "absent" /\ At(n)' # At(n) /\ ~ByUser
           => At(n)' = "absent" /\ pc \in {"undo_remove", "boot_stat"}]_vars

\* I13, and the fsync before publish.  No copy under a final name is anything
\* but the content the plan was made from, whatever happened to the source
\* meanwhile and wherever the power went (exec.go copy).
PublishedIsPlanned == \A n \in Names : At(n) # "torn"

\* The program removes a destination only while the step's row claims that
\* very name (exec.go Rollback).
OnlyClaimedRemoved ==
    [][\A n \in Names :
         At(n) # "absent" /\ At(n)' = "absent" /\ ~ByUser => Claims(n)]_vars

\* Short of a failed database write, a row claims a name only if this plan
\* put a file there (exec.go runStep, execute.go toExecSteps).
ClaimedWasPlaced ==
    used["fault"] = 0 =>
      \A s \in Steps : rows[s].created => <<s, rows[s].dst>> \in placed

\* Every file of ours that no row claims has been paid for: one crash, one
\* settings change under a running copy or one failed write each, never a
\* plain failure, retry, skip or undo (exec.go runStep, execute.go Execute).
UndoRecordCost ==
    Cardinality({n \in Names : At(n) \in OurFile /\ ~Claims(n) /\ ~InFlight(n)})
      <= Mishaps

\* The same price for a file of ours the flat journal does not name.
FlatJournalCost ==
    Cardinality({n \in Names : /\ At(n) \in OurFile
                               /\ n \notin flat
                               /\ ~InFlight(n)
                               /\ ~(pc = "append" /\ cur = n[1])})
      <= Mishaps

\* And for a second file of ours for one step: resuming a failed plan does
\* not place again what is placed, under any collision policy.
DuplicateCost ==
    Cardinality({n \in Names : /\ At(n) \in OurFile
                               /\ \E l \in Loc : l < n[2] /\ files[n[1]][l] \in OurFile})
      <= Mishaps

\* An undone plan has left nothing behind that its rows still claim.
UndoneLeavesNothingClaimed ==
    pc = "idle" /\ planStatus = "undone" =>
      \A s \in Steps : rows[s].created => files[s][rows[s].dst] \notin OurFile

\* A handler that returns leaves no partial in the library, unless the
\* process died or the guard changed its mind under it (exec.go copy).
NoPartialLeft ==
    pc = "idle" /\ used["crash"] = 0 /\ used["setting"] = 0 =>
      \A n \in Names : partial[n[1]][n[2]] = "absent"

\* Only a step that placed something is done (exec.go Run).
DoneStepWasPlaced ==
    used["crash"] = 0 => \A s \in Steps : rows[s].status = "done" => rows[s].created

\* No row is left in progress when no handler is running: what a crash left
\* so, startup has settled.
NoRowLeftInProgress ==
    pc = "idle" /\ used["fault"] = 0 =>
      \A s \in Steps : rows[s].status # "in_progress"

\* Every handler returns, and every death is followed by a startup that does.
HandlersReturn == []<>(pc = "idle")

-----------------------------------------------------------------------------
(* What the comments say of the code and the code does not do: each of these *)
(* is checked in a run of its own, which finds it violated.                  *)

\* "ALWAYS, after the branch resolves: sweep the partial" (exec.go:551).  By
\* the time Reconcile writes a step's row its partial is gone.
SweptAfterReconcile ==
    pc = "boot_write" =>
      \A s \in InProgress : partial[s][mem[s].dst] = "absent"

\* "Without this a crashed plan stays at executing forever" (execute.go:275):
\* once startup is over no plan is left there.
NoPlanStuckExecuting == pc = "idle" => planStatus # "executing"

-----------------------------------------------------------------------------
(* Refinement *)

\* The abstract library: see Library.
Holds(f) == CASE f = "absent" -> "absent" [] f \in UserFile -> "user" [] OTHER -> "ours"
Lib == INSTANCE Library WITH
         Name   <- Names,
         holds  <- [n \in Names |-> Holds(At(n))],
         record <- {n \in Names : Claims(n)},
         put    <- placed,
         edits  <- used["user"]
ImplementsLibrary == Lib!Spec

=============================================================================
