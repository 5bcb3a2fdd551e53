-------------------------- MODULE PlanExec_proofs --------------------------
(* Theorems about PlanExec, for every plan, policy and number of events. *)
EXTENDS PlanExec, TLAPS

\* A suffixed name is still one of the names told apart.
LEMMA SuffixedInLoc == ASSUME NEW l \in Loc PROVE Suffixed(l) \in Loc
BY MaxSuffixAssumption DEF Suffixed, Loc

\* Every variable keeps its type in the initial states.
LEMMA TypeInit == Init => TypeOK
<1> SUFFICES ASSUME Init PROVE TypeOK
    OBVIOUS
<1>1. rows \in [Steps -> Row]
  <2>1. 0 \in Loc
    BY MaxSuffixAssumption DEF Loc
  <2>2. [status |-> "pending", dst |-> 0, actual |-> "", created |-> FALSE,
         dirs |-> FALSE] \in Row
    BY <2>1 DEF Row, StepStatus
  <2> QED
    BY <2>2 DEF Init
<1>2. cur \in Steps
  <2>1. cur = 1
    BY DEF Init
  <2> QED
    BY <2>1, NAssumption DEF Steps
<1>3. files \in [Steps -> [Loc -> File]] /\ partial \in [Steps -> [Loc -> Partial]]
  BY DEF Init, File, Partial
<1>4. opts \in [collision : {"skip", "suffix", "fail"}, link : BOOLEAN]
  BY DEF Init
<1>5. src \in [Steps -> Source] /\ used \in [Events -> Nat]
  BY DEF Init, Source
<1>6. mem \in [Steps -> Row]
  BY <1>1 DEF Init
<1> QED
  BY <1>1, <1>2, <1>3, <1>4, <1>5, <1>6 DEF Init, TypeOK, PlanStatus, Pc

\* Counting an event keeps the counters natural numbers.
LEMMA HappensType ==
    ASSUME NEW e \in Events, used \in [Events -> Nat], Happens(e)
    PROVE  used' \in [Events -> Nat]
BY DEF Happens

\* What a row holds, and that it stays a row whatever field a handler sets.
LEMMA RowFields == ASSUME NEW r \in Row PROVE /\ r.dst \in Loc
                                              /\ r.created \in BOOLEAN
BY DEF Row

LEMMA RowUpdate ==
    ASSUME NEW r \in Row
    PROVE  /\ \A v \in StepStatus : [r EXCEPT !.status = v] \in Row
           /\ \A v \in StepStatus, l \in Loc :
                [r EXCEPT !.status = v, !.dst = l] \in Row
           /\ \A l \in Loc : [r EXCEPT !.dst = l] \in Row
           /\ \A v \in BOOLEAN : [r EXCEPT !.dirs = v] \in Row
           /\ \A v \in {"", "copy", "hardlink"} :
                [r EXCEPT !.actual = v, !.created = TRUE] \in Row
BY DEF Row

\* A handler that holds a row for one step still holds one for each.
LEMMA HoldType ==
    ASSUME mem \in [Steps -> Row], NEW s \in Steps, NEW r \in Row, Hold(s, r)
    PROVE  mem' \in [Steps -> Row]
BY DEF Hold

\* A step that fails is held as a row, and Run goes on to record it.
LEMMA RunFailsType ==
    ASSUME TypeOK, NEW s \in Steps, RunFails(s, mem[s])
    PROVE  /\ mem' \in [Steps -> Row]
           /\ pc' \in Pc /\ cur' \in Steps /\ failed' \in BOOLEAN
<1>1. mem \in [Steps -> Row] /\ mem[s] \in Row /\ "failed" \in StepStatus
  BY DEF StepStatus, TypeOK
<1>2. [mem[s] EXCEPT !.status = "failed"] \in Row
  BY <1>1, RowUpdate
<1>3. mem' \in [Steps -> Row]
  BY <1>1, <1>2, HoldType DEF RunFails
<1>4. pc' \in Pc /\ cur' \in Steps /\ failed' \in BOOLEAN
  BY DEF RunFails, TypeOK, Pc, ExecPc
<1> QED
  BY <1>3, <1>4

\* Run goes on to a step of the plan or to the end.
LEMMA RunNextType ==
    ASSUME TypeOK, NEW s \in Steps, RunNext(s)
    PROVE  pc' \in Pc /\ cur' \in Steps /\ failed' \in BOOLEAN
BY DEF RunNext, TypeOK, Pc, ExecPc

\* What a handler that returns leaves behind.
LEMMA ReturnType ==
    ASSUME rows' \in [Steps -> Row], Return
    PROVE  /\ pc' \in Pc /\ mem' \in [Steps -> Row] /\ cur' \in Steps
           /\ todo' \subseteq Steps /\ failed' \in BOOLEAN
           /\ opts' \in [collision : {"skip", "suffix", "fail"}, link : BOOLEAN]
<1>1. 1 \in Steps
  BY NAssumption DEF Steps
<1> QED
  BY <1>1 DEF Return, Pc

\* Database writes whose errors are dropped.
LEMMA WriteRowType ==
    ASSUME TypeOK, NEW s \in Steps, WriteRow(s)
    PROVE  rows' \in [Steps -> Row] /\ used' \in [Events -> Nat]
<1>1. rows' \in [Steps -> Row]
  BY DEF WriteRow, TypeOK
<1>2. used' \in [Events -> Nat]
  BY HappensType DEF WriteRow, TypeOK, Events
<1> QED
  BY <1>1, <1>2

LEMMA WriteStatusType ==
    ASSUME TypeOK, NEW st \in PlanStatus, WriteStatus(st)
    PROVE  planStatus' \in PlanStatus /\ used' \in [Events -> Nat]
<1>1. planStatus' \in PlanStatus
  BY DEF WriteStatus, TypeOK
<1>2. used' \in [Events -> Nat]
  BY HappensType DEF WriteStatus, TypeOK, Events
<1> QED
  BY <1>1, <1>2

\* Writes to the library directory.
LEMMA DstInLoc == ASSUME TypeOK, NEW s \in Steps PROVE mem[s].dst \in Loc
BY RowFields DEF TypeOK

LEMMA TodoInSteps == TypeOK => todo \subseteq Steps
BY DEF TypeOK

LEMMA PutType ==
    ASSUME TypeOK, NEW s \in Steps, NEW f \in File, Put(s, f)
    PROVE  /\ files' \in [Steps -> [Loc -> File]]
           /\ placed' \subseteq Steps \X Loc
BY DstInLoc DEF Put, TypeOK

LEMMA SetPartialType ==
    ASSUME TypeOK, NEW s \in Steps, NEW p \in Partial, SetPartial(s, p)
    PROVE  partial' \in [Steps -> [Loc -> Partial]]
BY DstInLoc DEF SetPartial, TypeOK

LEMMA CleanupType ==
    ASSUME TypeOK, NEW s \in Steps, Cleanup(s)
    PROVE  partial' \in [Steps -> [Loc -> Partial]]
<1>1. "absent" \in Partial
  BY DEF Partial
<1> QED
  BY <1>1, SetPartialType DEF Cleanup, TypeOK

\* What a process that dies leaves behind.
LEMMA DieType ==
    ASSUME TypeOK, Die, files' \in [Steps -> [Loc -> File]],
           partial' \in [Steps -> [Loc -> Partial]]
    PROVE  TypeOK'
<1>1. mem' \in [Steps -> Row] /\ rows' \in [Steps -> Row]
  <2>1. mem' = rows /\ rows' = rows
    BY DEF Die
  <2> QED
    BY <2>1 DEF TypeOK
<1>2. cur' \in Steps
  <2>1. 1 \in Steps
    BY NAssumption DEF Steps
  <2> QED
    BY <2>1 DEF Die
<1>3. /\ pc' \in Pc /\ todo' \subseteq Steps /\ failed' \in BOOLEAN
      /\ opts' \in [collision : {"skip", "suffix", "fail"}, link : BOOLEAN]
      /\ roots' \in BOOLEAN /\ srcRooted' \in BOOLEAN
  BY DEF Die, Pc
<1>4. used' \in [Events -> Nat]
  BY HappensType DEF Die, TypeOK, Events
<1>5. UNCHANGED <<planStatus, orphan, tagged, flat, dir, placed, src, dry>>
  BY DEF Die, outVars
<1> QED
  BY <1>1, <1>2, <1>3, <1>4, <1>5 DEF TypeOK

\* Every action keeps every variable in its type.
LEMMA TypeNext == TypeOK /\ [Next]_vars => TypeOK'
<1> SUFFICES ASSUME TypeOK, [Next]_vars PROVE TypeOK'
    OBVIOUS
<1> USE DEF progVars, outVars, diskVars, confVars
<1>1. ASSUME ExecuteNothingPending PROVE TypeOK'
  BY <1>1, HappensType DEF ExecuteNothingPending, TypeOK, PlanStatus, Events
<1>2. ASSUME ExecuteBlocked PROVE TypeOK'
  BY <1>2, HappensType DEF ExecuteBlocked, TypeOK, PlanStatus, Events
<1>3. ASSUME ExecuteStart PROVE TypeOK'
  BY <1>3, HappensType, PoliciesAssumption
  DEF ExecuteStart, TypeOK, PlanStatus, Events, Pending, Pc, ExecPc, First
<1>4. ASSUME Cancelled PROVE TypeOK'
  BY <1>4 DEF Cancelled, TypeOK, Pc, ExecPc
<1>5. ASSUME Before PROVE TypeOK'
  <2>0. mem \in [Steps -> Row] /\ rows \in [Steps -> Row] /\ cur \in Steps
    BY DEF TypeOK
  <2>1. mem[cur] \in Row /\ rows[cur] \in Row /\ "in_progress" \in StepStatus
    BY <2>0 DEF StepStatus
  <2>2. /\ [rows[cur] EXCEPT !.status = "in_progress", !.dst = mem[cur].dst] \in Row
        /\ [mem[cur] EXCEPT !.status = "in_progress"] \in Row
    BY <2>1, RowUpdate, RowFields
  <2>3. rows' \in [Steps -> Row]
    BY <1>5, <2>0, <2>2 DEF Before
  <2>4. mem' \in [Steps -> Row]
    BY <1>5, <2>0, <2>2, HoldType, RunFailsType DEF Before
  <2>5. used' \in [Events -> Nat]
    BY <1>5, HappensType DEF Before, TypeOK, Events
  <2>6. pc' \in Pc /\ cur' \in Steps /\ failed' \in BOOLEAN
    BY <1>5 DEF Before, RunFails, TypeOK, Pc, ExecPc
  <2>7. UNCHANGED <<planStatus, todo, opts, orphan, tagged, flat, files, partial, dir, placed, src, roots, srcRooted, dry>>
    BY <1>5 DEF Before
  <2> QED
    BY <2>3, <2>4, <2>5, <2>6, <2>7 DEF TypeOK
<1>6. ASSUME Mkdir PROVE TypeOK'
  <2>1. mem \in [Steps -> Row] /\ cur \in Steps /\ mem[cur] \in Row
    BY DEF TypeOK
  <2>2. [mem[cur] EXCEPT !.dirs = (dir = "absent")] \in Row
    BY <2>1, RowUpdate, RowFields
  <2>5. mem' \in [Steps -> Row]
    BY <1>6, <2>1, <2>2, HoldType, RunFailsType DEF Mkdir
  <2>6. pc' \in Pc /\ cur' \in Steps /\ failed' \in BOOLEAN /\ dir' \in {"absent", "user", "ours"}
    BY <1>6, <2>1, RunFailsType DEF Mkdir, TypeOK, Pc, ExecPc
  <2>7. UNCHANGED <<planStatus, rows, todo, opts, orphan, tagged, flat, files,
                    partial, placed, src, roots, srcRooted, dry, used>>
    BY <1>6 DEF Mkdir
  <2> QED
    BY <2>5, <2>6, <2>7 DEF TypeOK
<1>7. ASSUME Check PROVE TypeOK'
  <2>1. mem \in [Steps -> Row] /\ cur \in Steps /\ mem[cur] \in Row
    BY DEF TypeOK
  <2>2. [mem[cur] EXCEPT !.dst = Suffixed(mem[cur].dst)] \in Row
    BY <2>1, RowUpdate, RowFields, SuffixedInLoc
  <2>3. [mem[cur] EXCEPT !.status = "skipped"] \in Row
    BY <2>1, RowUpdate DEF StepStatus
  <2>5. mem' \in [Steps -> Row]
    BY <1>7, <2>1, <2>2, <2>3, HoldType, RunFailsType DEF Check
  <2>6. pc' \in Pc /\ cur' \in Steps /\ failed' \in BOOLEAN
    BY <1>7, <2>1, RunFailsType, RunNextType DEF Check, TypeOK, Pc, ExecPc
  <2>7. UNCHANGED <<planStatus, rows, todo, opts, orphan, tagged, flat, files,
                    partial, dir, placed, src, roots, srcRooted, dry, used>>
    BY <1>7 DEF Check
  <2> QED
    BY <2>5, <2>6, <2>7 DEF TypeOK
<1>8. ASSUME Link PROVE TypeOK'
  <2>1. mem \in [Steps -> Row] /\ cur \in Steps /\ mem[cur] \in Row
    BY DEF TypeOK
  <2>2. [mem[cur] EXCEPT !.actual = "hardlink", !.created = TRUE] \in Row
    BY <2>1, RowUpdate, RowFields
  <2>3. "link" \in File /\ "link_other" \in File
    BY DEF File, OurFile
  <2>5. mem' \in [Steps -> Row]
    BY <1>8, <2>1, <2>2, HoldType DEF Link
  <2>6. files' \in [Steps -> [Loc -> File]] /\ placed' \subseteq Steps \X Loc
    BY <1>8, <2>1, <2>3, PutType DEF Link, TypeOK
  <2>7. pc' \in Pc
    BY <1>8 DEF Link, Pc, ExecPc
  <2>8. UNCHANGED <<planStatus, rows, cur, todo, failed, opts, orphan, tagged,
                    flat, partial, dir, src, roots, srcRooted, dry, used>>
    BY <1>8 DEF Link
  <2> QED
    BY <2>5, <2>6, <2>7, <2>8 DEF TypeOK
<1>9. ASSUME Create PROVE TypeOK'
  <2>1. mem \in [Steps -> Row] /\ cur \in Steps /\ mem[cur] \in Row
    BY DEF TypeOK
  <2>2. "writing" \in Partial
    BY DEF Partial
  <2>5. mem' \in [Steps -> Row]
    BY <1>9, <2>1, RunFailsType DEF Create
  <2>6. pc' \in Pc /\ cur' \in Steps /\ failed' \in BOOLEAN
    BY <1>9, <2>1, RunFailsType DEF Create, TypeOK, Pc, ExecPc
  <2>7. partial' \in [Steps -> [Loc -> Partial]]
    BY <1>9, <2>1, <2>2, SetPartialType DEF Create, TypeOK
  <2>8. UNCHANGED <<planStatus, rows, todo, opts, orphan, tagged, flat, files,
                    dir, placed, src, roots, srcRooted, dry, used>>
    BY <1>9 DEF Create
  <2> QED
    BY <2>5, <2>6, <2>7, <2>8 DEF TypeOK
<1>10. ASSUME CopyFails PROVE TypeOK'
  <2>1. mem \in [Steps -> Row] /\ cur \in Steps /\ mem[cur] \in Row
    BY DEF TypeOK
  <2>5. mem' \in [Steps -> Row] /\ pc' \in Pc /\ cur' \in Steps /\ failed' \in BOOLEAN
    BY <1>10, <2>1, RunFailsType DEF CopyFails
  <2>6. partial' \in [Steps -> [Loc -> Partial]]
    BY <1>10, <2>1, CleanupType DEF CopyFails
  <2>7. UNCHANGED <<planStatus, rows, todo, opts, orphan, tagged, flat, files,
                    dir, placed, src, roots, srcRooted, dry, used>>
    BY <1>10 DEF CopyFails
  <2> QED
    BY <2>5, <2>6, <2>7 DEF TypeOK
<1>11. ASSUME CopyEnds PROVE TypeOK'
  <2>1. mem \in [Steps -> Row] /\ cur \in Steps /\ mem[cur] \in Row
    BY DEF TypeOK
  <2>2. "written" \in Partial /\ "wrong" \in Partial
    BY DEF Partial
  <2>5. partial' \in [Steps -> [Loc -> Partial]]
    BY <1>11, <2>1, <2>2, SetPartialType DEF CopyEnds
  <2>6. pc' \in Pc
    BY <1>11 DEF CopyEnds, Pc, ExecPc
  <2>7. UNCHANGED <<planStatus, rows, mem, cur, todo, failed, opts, orphan,
                    tagged, flat, files, dir, placed, src, roots, srcRooted,
                    dry, used>>
    BY <1>11 DEF CopyEnds
  <2> QED
    BY <2>5, <2>6, <2>7 DEF TypeOK
<1>12. ASSUME Verify PROVE TypeOK'
  <2>5. pc' \in Pc
    BY <1>12 DEF Verify, Pc, ExecPc
  <2>6. UNCHANGED <<planStatus, rows, mem, cur, todo, failed, opts, orphan,
                    tagged, flat, files, partial, dir, placed, src, roots,
                    srcRooted, dry, used>>
    BY <1>12 DEF Verify
  <2> QED
    BY <2>5, <2>6 DEF TypeOK
<1>13. ASSUME Sync PROVE TypeOK'
  <2>1. mem \in [Steps -> Row] /\ cur \in Steps /\ mem[cur] \in Row
    BY DEF TypeOK
  <2>2. "synced" \in Partial /\ partial[cur][mem[cur].dst] \in Partial
    BY <2>1, DstInLoc DEF Partial, TypeOK
  <2>5. partial' \in [Steps -> [Loc -> Partial]]
    BY <1>13, <2>1, <2>2, SetPartialType DEF Sync
  <2>6. pc' \in Pc
    BY <1>13 DEF Sync, Pc, ExecPc
  <2>7. UNCHANGED <<planStatus, rows, mem, cur, todo, failed, opts, orphan,
                    tagged, flat, files, dir, placed, src, roots, srcRooted,
                    dry, used>>
    BY <1>13 DEF Sync
  <2> QED
    BY <2>5, <2>6, <2>7 DEF TypeOK
<1>14. ASSUME Publish PROVE TypeOK'
  <2>1. mem \in [Steps -> Row] /\ cur \in Steps /\ mem[cur] \in Row
    BY DEF TypeOK
  <2>2. Copied => mem' \in [Steps -> Row]
    <3>1. [mem[cur] EXCEPT !.actual = "copy", !.created = TRUE] \in Row
      BY <2>1, RowUpdate
    <3> QED
      BY <2>1, <3>1, HoldType DEF Copied
  <2>3. \A p : Published(p) \in File
    BY DEF Published, File, OurFile
  <2>4. "absent" \in Partial
    BY DEF Partial
  <2>5. mem' \in [Steps -> Row]
    BY <1>14, <2>1, <2>2 DEF Publish
  <2>6. files' \in [Steps -> [Loc -> File]] /\ placed' \subseteq Steps \X Loc
    BY <1>14, <2>1, <2>3, PutType DEF Publish
  <2>7. partial' \in [Steps -> [Loc -> Partial]]
    BY <1>14, <2>1, <2>4, SetPartialType DEF Publish, TypeOK
  <2>8. pc' \in Pc
    BY <1>14 DEF Publish, Pc, ExecPc
  <2>9. UNCHANGED <<planStatus, rows, cur, todo, failed, opts, orphan, tagged,
                    flat, dir, src, roots, srcRooted, dry, used>>
    BY <1>14 DEF Publish
  <2> QED
    BY <2>5, <2>6, <2>7, <2>8, <2>9 DEF TypeOK
<1>15. ASSUME Unlink PROVE TypeOK'
  <2>1. mem \in [Steps -> Row] /\ cur \in Steps /\ mem[cur] \in Row
    BY DEF TypeOK
  <2>2. Copied => mem' \in [Steps -> Row]
    <3>1. [mem[cur] EXCEPT !.actual = "copy", !.created = TRUE] \in Row
      BY <2>1, RowUpdate
    <3> QED
      BY <2>1, <3>1, HoldType DEF Copied
  <2>4. "absent" \in Partial
    BY DEF Partial
  <2>5. mem' \in [Steps -> Row]
    BY <1>15, <2>1, <2>2, RunFailsType DEF Unlink
  <2>6. partial' \in [Steps -> [Loc -> Partial]]
    BY <1>15, <2>1, <2>4, SetPartialType DEF Unlink, TypeOK
  <2>7. pc' \in Pc /\ cur' \in Steps /\ failed' \in BOOLEAN
    BY <1>15, <2>1, RunFailsType DEF Unlink, TypeOK, Pc, ExecPc
  <2>8. UNCHANGED <<planStatus, rows, todo, opts, orphan, tagged, flat, files,
                    dir, placed, src, roots, srcRooted, dry, used>>
    BY <1>15 DEF Unlink
  <2> QED
    BY <2>5, <2>6, <2>7, <2>8 DEF TypeOK
<1>16. ASSUME After PROVE TypeOK'
  <2>1. mem \in [Steps -> Row] /\ cur \in Steps /\ mem[cur] \in Row
    BY DEF TypeOK
  <2>2. [mem[cur] EXCEPT !.status = "done"] \in Row
    BY <2>1, RowUpdate DEF StepStatus
  <2>5. rows' \in [Steps -> Row]
    BY <1>16, <2>1, <2>2 DEF After, TypeOK
  <2>6. mem' \in [Steps -> Row]
    BY <1>16, <2>1, <2>2, HoldType, RunFailsType DEF After
  <2>7. pc' \in Pc /\ cur' \in Steps /\ failed' \in BOOLEAN
    BY <1>16, <2>1, RunFailsType DEF After, TypeOK, Pc, ExecPc
  <2>8. used' \in [Events -> Nat]
    BY <1>16, HappensType DEF After, TypeOK, Events
  <2>9. UNCHANGED <<planStatus, todo, opts, orphan, tagged, flat, files,
                    partial, dir, placed, src, roots, srcRooted, dry>>
    BY <1>16 DEF After
  <2> QED
    BY <2>5, <2>6, <2>7, <2>8, <2>9 DEF TypeOK
<1>17. ASSUME AppendFlat PROVE TypeOK'
  <2>1. mem \in [Steps -> Row] /\ cur \in Steps /\ mem[cur] \in Row
    BY DEF TypeOK
  <2>5. flat' \subseteq Steps \X Loc
    BY <1>17, <2>1, DstInLoc DEF AppendFlat, TypeOK
  <2>6. pc' \in Pc /\ cur' \in Steps /\ failed' \in BOOLEAN
    BY <1>17, <2>1, RunNextType DEF AppendFlat
  <2>7. used' \in [Events -> Nat]
    BY <1>17, HappensType DEF AppendFlat, TypeOK, Events
  <2>8. UNCHANGED <<planStatus, rows, mem, todo, opts, orphan, tagged, files,
                    partial, dir, placed, src, roots, srcRooted, dry>>
    BY <1>17 DEF AppendFlat
  <2> QED
    BY <2>5, <2>6, <2>7, <2>8 DEF TypeOK
<1>18. ASSUME RecordStep PROVE TypeOK'
  <2>5. rows' \in [Steps -> Row] /\ used' \in [Events -> Nat]
    BY <1>18, WriteRowType DEF RecordStep, TypeOK
  <2>6. todo' \subseteq Steps
    BY <1>18 DEF RecordStep, TypeOK
  <2>7. UNCHANGED <<planStatus, mem, pc, cur, failed, opts, orphan, tagged,
                    flat, files, partial, dir, placed, src, roots, srcRooted,
                    dry>>
    BY <1>18 DEF RecordStep
  <2> QED
    BY <2>5, <2>6, <2>7 DEF TypeOK
<1>19. ASSUME Finish PROVE TypeOK'
  <2>1. rows' \in [Steps -> Row]
    BY <1>19 DEF Finish, TypeOK
  <2>2. {"failed", "partial", "done"} \subseteq PlanStatus
    BY DEF PlanStatus
  <2>3. "mark" \in Pc
    BY DEF Pc, ExecPc
  <2>5. planStatus' \in PlanStatus /\ used' \in [Events -> Nat]
    BY <1>19, <2>2, WriteStatusType DEF Finish
  <2>6. pc' \in Pc /\ mem' \in [Steps -> Row] /\ cur' \in Steps /\ todo' \subseteq Steps /\ failed' \in BOOLEAN /\ opts' \in [collision : {"skip", "suffix", "fail"}, link : BOOLEAN]
    BY <1>19, <2>1, <2>3, ReturnType DEF Finish, TypeOK, Pc, ExecPc
  <2>7. UNCHANGED <<rows, orphan, tagged, flat, files, partial, dir, placed,
                    src, roots, srcRooted, dry>>
    BY <1>19 DEF Finish
  <2> QED
    BY <2>5, <2>6, <2>7 DEF TypeOK
<1>20. ASSUME MarkFiled PROVE TypeOK'
  <2>1. rows' \in [Steps -> Row]
    BY <1>20 DEF MarkFiled, TypeOK
  <2>5. orphan' \in {"planned", "filed", "discovered"} /\ tagged' \in BOOLEAN
    BY <1>20 DEF MarkFiled, TypeOK
  <2>6. pc' \in Pc /\ mem' \in [Steps -> Row] /\ cur' \in Steps /\ todo' \subseteq Steps /\ failed' \in BOOLEAN /\ opts' \in [collision : {"skip", "suffix", "fail"}, link : BOOLEAN]
    BY <1>20, <2>1, ReturnType DEF MarkFiled
  <2>7. UNCHANGED <<planStatus, rows, flat, files, partial, dir, placed, src,
                    roots, srcRooted, dry, used>>
    BY <1>20 DEF MarkFiled
  <2> QED
    BY <2>5, <2>6, <2>7 DEF TypeOK
<1>21. ASSUME UndoStart PROVE TypeOK'
  <2>5. mem' \in [Steps -> Row] /\ todo' \subseteq Steps /\ failed' \in BOOLEAN
    BY <1>21 DEF UndoStart, Ours, TypeOK
  <2>6. pc' \in Pc
    BY <1>21 DEF UndoStart, Pc, UndoPc
  <2>7. used' \in [Events -> Nat]
    BY <1>21, HappensType DEF UndoStart, TypeOK, Events
  <2>8. UNCHANGED <<planStatus, rows, cur, opts, orphan, tagged, flat, files,
                    partial, dir, placed, src, roots, srcRooted, dry>>
    BY <1>21 DEF UndoStart
  <2> QED
    BY <2>5, <2>6, <2>7, <2>8 DEF TypeOK
<1>22. ASSUME UndoVerify PROVE TypeOK'
  <2>5. todo' \subseteq Steps /\ failed' \in BOOLEAN
    BY <1>22 DEF UndoVerify, TypeOK
  <2>6. pc' \in Pc
    BY <1>22 DEF UndoVerify, TypeOK, Pc, UndoPc
  <2>7. UNCHANGED <<planStatus, rows, mem, cur, opts, orphan, tagged, flat,
                    files, partial, dir, placed, src, roots, srcRooted, dry,
                    used>>
    BY <1>22 DEF UndoVerify
  <2> QED
    BY <2>5, <2>6, <2>7 DEF TypeOK
<1>23. ASSUME UndoRemove PROVE TypeOK'
  <2>1. "absent" \in File
    BY DEF File
  <2>5. files' \in [Steps -> [Loc -> File]]
    <3>1. PICK s \in Steps :
            \/ files' = [files EXCEPT ![s][mem[s].dst] = "absent"]
            \/ UNCHANGED files
      <4>1. todo \subseteq Steps
        BY DEF TypeOK
      <4> QED
        BY <1>23, <4>1 DEF UndoRemove
    <3>2. files \in [Steps -> [Loc -> File]] /\ mem[s].dst \in Loc
      BY DstInLoc DEF TypeOK
    <3> QED
      BY <2>1, <3>1, <3>2
  <2>6. todo' \subseteq Steps /\ failed' \in BOOLEAN
    BY <1>23 DEF UndoRemove, TypeOK
  <2>7. pc' \in Pc
    BY <1>23 DEF UndoRemove, Pc, UndoPc
  <2>8. UNCHANGED <<planStatus, rows, mem, cur, opts, orphan, tagged, flat,
                    partial, dir, placed, src, roots, srcRooted, dry, used>>
    BY <1>23 DEF UndoRemove
  <2> QED
    BY <2>5, <2>6, <2>7, <2>8 DEF TypeOK
<1>24. ASSUME UndoDir PROVE TypeOK'
  <2>5. todo' \subseteq Steps /\ failed' \in BOOLEAN /\ dir' \in {"absent", "user", "ours"}
    BY <1>24 DEF UndoDir, TypeOK, Writable
  <2>6. pc' \in Pc
    BY <1>24 DEF UndoDir, Pc, UndoPc
  <2>7. UNCHANGED <<planStatus, rows, mem, cur, opts, orphan, tagged, flat,
                    files, partial, placed, src, roots, srcRooted, dry, used>>
    BY <1>24 DEF UndoDir
  <2> QED
    BY <2>5, <2>6, <2>7 DEF TypeOK
<1>25. ASSUME UndoFinish PROVE TypeOK'
  <2>1. rows' \in [Steps -> Row]
    BY <1>25 DEF UndoFinish, TypeOK
  <2>2. {"undo_failed", "undone"} \subseteq PlanStatus
    BY DEF PlanStatus
  <2>3. "undo_finish" \in Pc
    BY DEF Pc, UndoPc
  <2>5. planStatus' \in PlanStatus /\ used' \in [Events -> Nat]
    BY <1>25, <2>2, WriteStatusType DEF UndoFinish
  <2>6. pc' \in Pc /\ mem' \in [Steps -> Row] /\ cur' \in Steps /\ todo' \subseteq Steps /\ failed' \in BOOLEAN /\ opts' \in [collision : {"skip", "suffix", "fail"}, link : BOOLEAN]
    BY <1>25, <2>1, <2>3, ReturnType DEF UndoFinish, TypeOK
  <2>7. UNCHANGED <<rows, orphan, tagged, flat, files, partial, dir, placed,
                    src, roots, srcRooted, dry>>
    BY <1>25 DEF UndoFinish
  <2> QED
    BY <2>5, <2>6, <2>7 DEF TypeOK
<1>26. ASSUME UndoMark PROVE TypeOK'
  <2>1. rows' \in [Steps -> Row]
    BY <1>26 DEF UndoMark, TypeOK
  <2>5. orphan' \in {"planned", "filed", "discovered"}
    BY <1>26 DEF UndoMark
  <2>6. pc' \in Pc /\ mem' \in [Steps -> Row] /\ cur' \in Steps /\ todo' \subseteq Steps /\ failed' \in BOOLEAN /\ opts' \in [collision : {"skip", "suffix", "fail"}, link : BOOLEAN]
    BY <1>26, <2>1, ReturnType DEF UndoMark
  <2>7. UNCHANGED <<planStatus, rows, tagged, flat, files, partial, dir,
                    placed, src, roots, srcRooted, dry, used>>
    BY <1>26 DEF UndoMark
  <2> QED
    BY <2>5, <2>6, <2>7 DEF TypeOK
<1>27. ASSUME Killed PROVE TypeOK'
  <2>1. UNCHANGED <<files, partial>>
    BY <1>27 DEF Killed
  <2> QED
    BY <1>27, <2>1, DieType DEF Killed, TypeOK
<1>28. ASSUME PowerLost PROVE TypeOK'
  <2>1. files' \in [Steps -> [Loc -> File]] /\ partial' \in [Steps -> [Loc -> Partial]]
    BY <1>28 DEF PowerLost, TypeOK, File, OurFile, Partial
  <2> QED
    BY <1>28, <2>1, DieType DEF PowerLost, TypeOK
<1>29. ASSUME Boot PROVE TypeOK'
  <2>5. mem' \in [Steps -> Row] /\ todo' \subseteq Steps
    BY <1>29 DEF Boot, InProgress, TypeOK
  <2>6. pc' \in Pc
    BY <1>29 DEF Boot, Pc, BootPc
  <2>7. UNCHANGED <<planStatus, rows, cur, failed, opts, orphan, tagged, flat,
                    files, partial, dir, placed, src, roots, srcRooted, dry,
                    used>>
    BY <1>29 DEF Boot
  <2> QED
    BY <2>5, <2>6, <2>7 DEF TypeOK
<1>30. ASSUME BootStat PROVE TypeOK'
  <2>1. ASSUME NEW s \in Steps, NEW v \in {"done", "pending", "blocked"}
        PROVE  [mem[s] EXCEPT !.status = v] \in Row
    BY RowUpdate DEF TypeOK, StepStatus
  <2>2. "absent" \in File
    BY DEF File
  <2>3. "absent" \in Partial
    BY DEF Partial
  <2>5. mem' \in [Steps -> Row]
    BY <1>30, <2>1, HoldType DEF BootStat, TypeOK
  <2>6. files' \in [Steps -> [Loc -> File]]
    BY <1>30, <2>2, DstInLoc DEF BootStat, TypeOK
  <2>7. partial' \in [Steps -> [Loc -> Partial]]
    BY <1>30, <2>3, SetPartialType DEF BootStat, TypeOK
  <2>8. todo' \subseteq Steps
    BY <1>30 DEF BootStat, InProgress, TypeOK
  <2>9. pc' \in Pc
    BY <1>30 DEF BootStat, TypeOK, Pc, BootPc
  <2>10. UNCHANGED <<planStatus, rows, cur, failed, opts, orphan, tagged, flat,
                     dir, placed, src, roots, srcRooted, dry, used>>
    BY <1>30 DEF BootStat
  <2> QED
    BY <2>5, <2>6, <2>7, <2>8, <2>9, <2>10 DEF TypeOK
<1>31. ASSUME BootWrite PROVE TypeOK'
  <2>5. rows' \in [Steps -> Row] /\ used' \in [Events -> Nat]
    BY <1>31, WriteRowType DEF BootWrite, TypeOK
  <2>6. todo' \subseteq Steps
    BY <1>31 DEF BootWrite, TypeOK
  <2>7. pc' \in Pc
    BY <1>31 DEF BootWrite, TypeOK, Pc, BootPc
  <2>8. UNCHANGED <<planStatus, mem, cur, failed, opts, orphan, tagged, flat,
                    files, partial, dir, placed, src, roots, srcRooted, dry>>
    BY <1>31 DEF BootWrite
  <2> QED
    BY <2>5, <2>6, <2>7, <2>8 DEF TypeOK
<1>32. ASSUME BootRelease PROVE TypeOK'
  <2>5. planStatus' \in PlanStatus
    BY <1>32 DEF BootRelease, TypeOK, PlanStatus
  <2>6. pc' \in Pc
    BY <1>32 DEF BootRelease, Pc, BootPc
  <2>7. UNCHANGED <<rows, mem, cur, todo, failed, opts, orphan, tagged, flat,
                    files, partial, dir, placed, src, roots, srcRooted, dry,
                    used>>
    BY <1>32 DEF BootRelease
  <2> QED
    BY <2>5, <2>6, <2>7 DEF TypeOK
<1>33. ASSUME BootReload PROVE TypeOK'
  <2>1. rows' \in [Steps -> Row]
    BY <1>33 DEF BootReload, TypeOK
  <2>5. roots' \in BOOLEAN /\ srcRooted' \in BOOLEAN
    BY <1>33 DEF BootReload
  <2>6. pc' \in Pc /\ mem' \in [Steps -> Row] /\ cur' \in Steps /\ todo' \subseteq Steps /\ failed' \in BOOLEAN /\ opts' \in [collision : {"skip", "suffix", "fail"}, link : BOOLEAN]
    BY <1>33, <2>1, ReturnType DEF BootReload
  <2>7. UNCHANGED <<planStatus, rows, orphan, tagged, flat, files, partial,
                    dir, placed, src, dry, used>>
    BY <1>33 DEF BootReload
  <2> QED
    BY <2>5, <2>6, <2>7 DEF TypeOK
<1>34. ASSUME ScanRegisters PROVE TypeOK'
  <2>5. srcRooted' \in BOOLEAN
    BY <1>34 DEF ScanRegisters
  <2>6. UNCHANGED <<planStatus, rows, mem, pc, cur, todo, failed, opts, orphan,
                    tagged, flat, files, partial, dir, placed, src, roots, dry,
                    used>>
    BY <1>34 DEF ScanRegisters
  <2> QED
    BY <2>5, <2>6 DEF TypeOK
<1>35. ASSUME SetDryRun PROVE TypeOK'
  <2>5. dry' \in BOOLEAN
    BY <1>35 DEF SetDryRun, TypeOK
  <2>6. used' \in [Events -> Nat]
    BY <1>35, HappensType DEF SetDryRun, TypeOK, Events
  <2>7. UNCHANGED <<planStatus, rows, mem, pc, cur, todo, failed, opts, orphan,
                    tagged, flat, files, partial, dir, placed, src, roots,
                    srcRooted>>
    BY <1>35 DEF SetDryRun
  <2> QED
    BY <2>5, <2>6, <2>7 DEF TypeOK
<1>36. ASSUME ReloadReset PROVE TypeOK'
  <2>5. roots' \in BOOLEAN
    BY <1>36 DEF ReloadReset
  <2>6. used' \in [Events -> Nat]
    BY <1>36, HappensType DEF ReloadReset, TypeOK, Events
  <2>7. UNCHANGED <<planStatus, rows, mem, pc, cur, todo, failed, opts, orphan,
                    tagged, flat, files, partial, dir, placed, src, srcRooted,
                    dry>>
    BY <1>36 DEF ReloadReset
  <2> QED
    BY <2>5, <2>6, <2>7 DEF TypeOK
<1>37. ASSUME ReloadAdd PROVE TypeOK'
  <2>5. roots' \in BOOLEAN
    BY <1>37 DEF ReloadAdd
  <2>6. UNCHANGED <<planStatus, rows, mem, pc, cur, todo, failed, opts, orphan,
                    tagged, flat, files, partial, dir, placed, src, srcRooted,
                    dry, used>>
    BY <1>37 DEF ReloadAdd
  <2> QED
    BY <2>5, <2>6 DEF TypeOK
<1>38. ASSUME UserTouches PROVE TypeOK'
  <2>5. files' \in [Steps -> [Loc -> File]]
    BY <1>38 DEF UserTouches, TypeOK, File, UserFile
  <2>6. dir' \in {"absent", "user", "ours"}
    BY <1>38 DEF UserTouches, TypeOK
  <2>7. used' \in [Events -> Nat]
    BY <1>38, HappensType DEF UserTouches, TypeOK, Events
  <2>8. UNCHANGED <<planStatus, rows, mem, pc, cur, todo, failed, opts, orphan,
                    tagged, flat, partial, placed, src, roots, srcRooted, dry>>
    BY <1>38 DEF UserTouches
  <2> QED
    BY <2>5, <2>6, <2>7, <2>8 DEF TypeOK
<1>39. ASSUME SourceChanges PROVE TypeOK'
  <2>5. src' \in [Steps -> Source]
    BY <1>39 DEF SourceChanges, TypeOK, Source
  <2>6. used' \in [Events -> Nat]
    BY <1>39, HappensType DEF SourceChanges, TypeOK, Events
  <2>7. UNCHANGED <<planStatus, rows, mem, pc, cur, todo, failed, opts, orphan,
                    tagged, flat, files, partial, dir, placed, roots,
                    srcRooted, dry>>
    BY <1>39 DEF SourceChanges
  <2> QED
    BY <2>5, <2>6, <2>7 DEF TypeOK
<1>40. ASSUME UNCHANGED vars PROVE TypeOK'
  BY <1>40 DEF vars, TypeOK
<1> QED
  BY <1>1, <1>2, <1>3, <1>4, <1>5, <1>6, <1>7, <1>8, <1>9, <1>10, <1>11, <1>12,
     <1>13, <1>14, <1>15, <1>16, <1>17, <1>18, <1>19, <1>20, <1>21, <1>22, <1>23, <1>24,
     <1>25, <1>26, <1>27, <1>28, <1>29, <1>30, <1>31, <1>32, <1>33, <1>34, <1>35, <1>36,
     <1>37, <1>38, <1>39, <1>40
  DEF Next, Execute, Undo, Startup, Settings

\* Every reachable state is a state of the program, whatever the plan, the
\* policies and the number of events (TypeOK).
THEOREM TypeCorrect == Spec => []TypeOK
<1>1. Init => TypeOK
  BY TypeInit
<1>2. TypeOK /\ [Next]_vars => TypeOK'
  BY TypeNext
<1> QED
  BY <1>1, <1>2, PTL DEF Spec
-----------------------------------------------------------------------------
(* The content of what is published *)

\* What holds of a partial on its way through copy(): it is the planned
\* content once the source was found unchanged, and on the platter once it
\* is about to be published.  No final name holds anything else.
CopyPc == {"verify", "sync", "publish"}
CurPartial == partial[cur][mem[cur].dst]
CopyInv ==
    /\ \A s \in Steps, l \in Loc : files[s][l] \notin {"torn", "unsynced"}
    /\ pc = "verify" /\ src[cur] = "planned" => CurPartial = "written"
    /\ pc = "sync" => CurPartial = "written"
    /\ pc = "publish" => CurPartial = "synced"

\* Where a handler goes from a step, it does not go to the middle of a copy.
LEMMA AwayFromCopy ==
    /\ \A s, row : RunFails(s, row) => pc' \notin CopyPc
    /\ \A s : RunNext(s) => pc' \notin CopyPc
    /\ Return => pc' \notin CopyPc
    /\ Die => pc' \notin CopyPc
BY DEF RunFails, RunNext, Return, Die, CopyPc

\* A step of the program either leaves every final name as it is, or is one
\* of the six that do not.
LEMMA FilesChange ==
    Next => \/ UNCHANGED files
            \/ Link \/ Publish \/ UndoRemove \/ BootStat \/ PowerLost \/ UserTouches
<1> USE DEF progVars, outVars, diskVars, confVars
<1>1. Execute => UNCHANGED files \/ Link \/ Publish
  BY DEF Execute, ExecuteNothingPending, ExecuteBlocked, ExecuteStart, Cancelled,
         Before, Mkdir, Check, Create, CopyFails, CopyEnds, Verify, Sync, Unlink,
         After, AppendFlat, RecordStep, Finish, MarkFiled
<1>2. Undo => UNCHANGED files \/ UndoRemove
  BY DEF Undo, UndoStart, UndoVerify, UndoDir, UndoFinish, UndoMark
<1>3. Startup => UNCHANGED files \/ BootStat
  BY DEF Startup, Boot, BootWrite, BootRelease, BootReload
<1>4. Settings => UNCHANGED files
  BY DEF Settings, ScanRegisters, SetDryRun, ReloadReset, ReloadAdd
<1>5. Killed \/ SourceChanges => UNCHANGED files
  BY DEF Killed, SourceChanges
<1> QED
  BY <1>1, <1>2, <1>3, <1>4, <1>5 DEF Next

\* The last step of copy() keeps the content right.
LEMMA CopyInvNext == TypeOK /\ CopyInv /\ [Next]_vars => CopyInv'
<1> SUFFICES ASSUME TypeOK, CopyInv, [Next]_vars PROVE CopyInv'
    OBVIOUS
<1> USE DEF progVars, outVars, diskVars, confVars
<1>1. ASSUME UNCHANGED files, pc' \notin CopyPc PROVE CopyInv'
  BY <1>1 DEF CopyInv, CopyPc
<1>2. ASSUME UNCHANGED <<files, partial, mem, cur, pc, src>> PROVE CopyInv'
  BY <1>2 DEF CopyInv, CurPartial
<1>3. cur \in Steps /\ mem[cur].dst \in Loc /\ partial \in [Steps -> [Loc -> Partial]]
  BY DstInLoc DEF TypeOK
<1>4. files \in [Steps -> [Loc -> File]]
  BY DEF TypeOK
<1>5. CASE ExecuteNothingPending \/ ExecuteBlocked
  BY <1>2, <1>5 DEF ExecuteNothingPending, ExecuteBlocked
<1>6. CASE ExecuteStart \/ Cancelled \/ Before \/ Mkdir \/ Check \/ Create
  BY <1>1, <1>6, AwayFromCopy
  DEF ExecuteStart, Cancelled, Before, Mkdir, Check, Create, CopyPc
<1>7. CASE CopyFails \/ Unlink \/ After \/ AppendFlat
  BY <1>1, <1>7, AwayFromCopy DEF CopyFails, Unlink, After, AppendFlat, CopyPc
<1>8. CASE RecordStep \/ Finish \/ MarkFiled
  BY <1>1, <1>8, AwayFromCopy DEF RecordStep, Finish, MarkFiled, CopyPc
<1>9. CASE Link
  <2>1. pc' \notin CopyPc
    BY <1>9 DEF Link, CopyPc
  <2>2. \A s \in Steps, l \in Loc : files'[s][l] \notin {"torn", "unsynced"}
    BY <1>3, <1>4, <1>9 DEF Link, Put, CopyInv
  <2> QED
    BY <2>1, <2>2 DEF CopyInv, CopyPc
<1>10. CASE CopyEnds
  <2>1. src'[cur'] = "planned" => CurPartial' = "written"
    BY <1>3, <1>10 DEF CopyEnds, SetPartial, CurPartial
  <2> QED
    BY <1>10, <2>1 DEF CopyEnds, CopyInv
<1>11. CASE Verify
  BY <1>11 DEF Verify, CopyInv, CurPartial
<1>12. CASE Sync
  <2>1. CurPartial' = "synced"
    BY <1>3, <1>12 DEF Sync, SetPartial, CurPartial, CopyInv
  <2> QED
    BY <1>12, <2>1 DEF Sync, CopyInv
<1>13. CASE Publish
  <2>1. pc' \notin CopyPc
    BY <1>13 DEF Publish, CopyPc
  <2>2. Published(CurPartial) = "copy"
    BY <1>13 DEF Publish, CopyInv, Published
  <2>3. \A s \in Steps, l \in Loc : files'[s][l] \notin {"torn", "unsynced"}
    BY <1>3, <1>4, <1>13, <2>2 DEF Publish, Put, CopyInv, CurPartial
  <2> QED
    BY <2>1, <2>3 DEF CopyInv, CopyPc
<1>14. CASE Undo
  <2>1. CASE UndoRemove
    <3>1. pc' \notin CopyPc
      BY <2>1 DEF UndoRemove, CopyPc
    <3>2. PICK s \in Steps :
            \/ files' = [files EXCEPT ![s][mem[s].dst] = "absent"]
            \/ UNCHANGED files
      BY <2>1, TodoInSteps DEF UndoRemove
    <3>3. \A t \in Steps, l \in Loc : files'[t][l] \notin {"torn", "unsynced"}
      BY <1>4, <3>2, DstInLoc DEF CopyInv
    <3> QED
      BY <3>1, <3>3 DEF CopyInv, CopyPc
  <2>2. CASE UndoStart \/ UndoVerify \/ UndoDir \/ UndoFinish \/ UndoMark
    BY <1>1, <2>2, AwayFromCopy
    DEF UndoStart, UndoVerify, UndoDir, UndoFinish, UndoMark, CopyPc
  <2> QED
    BY <1>14, <2>1, <2>2 DEF Undo
<1>15. CASE Startup
  <2>1. CASE BootStat
    <3>1. pc' \notin CopyPc
      BY <2>1 DEF BootStat, CopyPc
    <3>2. PICK s \in Steps :
            \/ files' = [files EXCEPT ![s][mem[s].dst] = "absent"]
            \/ UNCHANGED files
      BY <2>1, TodoInSteps DEF BootStat
    <3>3. \A t \in Steps, l \in Loc : files'[t][l] \notin {"torn", "unsynced"}
      BY <1>4, <3>2, DstInLoc DEF CopyInv
    <3> QED
      BY <3>1, <3>3 DEF CopyInv, CopyPc
  <2>2. CASE Boot \/ BootWrite \/ BootRelease \/ BootReload
    BY <1>1, <2>2, AwayFromCopy DEF Boot, BootWrite, BootRelease, BootReload, CopyPc
  <2> QED
    BY <1>15, <2>1, <2>2 DEF Startup
<1>16. CASE Settings
  BY <1>2, <1>16 DEF Settings, ScanRegisters, SetDryRun, ReloadReset, ReloadAdd
<1>17. CASE Killed
  BY <1>1, <1>17, AwayFromCopy DEF Killed
<1>18. CASE PowerLost
  <2>1. pc' \notin CopyPc
    BY <1>18, AwayFromCopy DEF PowerLost
  <2>2. \A s \in Steps, l \in Loc : files'[s][l] = files[s][l]
    BY <1>18 DEF PowerLost, CopyInv
  <2> QED
    BY <2>1, <2>2 DEF CopyInv, CopyPc
<1>19. CASE UserTouches
  <2>1. UNCHANGED <<partial, mem, cur, pc, src>>
    BY <1>19 DEF UserTouches
  <2>2. PICK s \in Steps, l \in Loc, f \in {"user_same", "user_other", "absent"} :
          files' = [files EXCEPT ![s][l] = f]
    BY <1>19 DEF UserTouches, UserFile
  <2>3. \A t \in Steps, k \in Loc : files'[t][k] \notin {"torn", "unsynced"}
    BY <1>4, <2>2 DEF CopyInv
  <2> QED
    BY <2>1, <2>3 DEF CopyInv, CurPartial
<1>20. CASE SourceChanges
  <2>1. UNCHANGED <<files, partial, mem, cur, pc>>
    BY <1>20 DEF SourceChanges
  <2>2. src'[cur] = "planned" => src[cur] = "planned"
    BY <1>3, <1>20 DEF SourceChanges, TypeOK
  <2> QED
    BY <2>1, <2>2 DEF CopyInv, CurPartial
<1>21. CASE UNCHANGED vars
  BY <1>2, <1>21 DEF vars
<1> QED
  BY <1>5, <1>6, <1>7, <1>8, <1>9, <1>10, <1>11, <1>12, <1>13, <1>14, <1>15, <1>16,
     <1>17, <1>18, <1>19, <1>20, <1>21
  DEF Next, Execute

\* I13 and the fsync before publish, for every plan: no copy under a final
\* name is anything but the planned content, wherever the power went.
THEOREM PublishedIsPlannedHolds == Spec => []PublishedIsPlanned
<1>1. Init => CopyInv
  BY DEF Init, CopyInv
<1>2. TypeOK /\ CopyInv /\ [Next]_vars => CopyInv'
  BY CopyInvNext
<1>3. CopyInv => PublishedIsPlanned
  BY DEF CopyInv, PublishedIsPlanned, Names, At
<1> QED
  BY <1>1, <1>2, <1>3, TypeCorrect, PTL DEF Spec
-----------------------------------------------------------------------------
(* What may happen to a name *)

\* The user's own doing is counted, and nothing else counts as it.
LEMMA OnlyUserTouches == TypeOK /\ UserTouches => ByUser
BY DEF UserTouches, Happens, ByUser, TypeOK, Events

\* A step of the program that changes what a name holds is one of five.
LEMMA NameChange ==
    ASSUME TypeOK, CopyInv, Next, NEW n \in Names, At(n)' # At(n)
    PROVE  Link \/ Publish \/ UndoRemove \/ BootStat \/ UserTouches
<1>1. ~UNCHANGED files
  BY DEF At
<1>2. ASSUME PowerLost PROVE FALSE
  <2>1. n[1] \in Steps /\ n[2] \in Loc
    BY DEF Names
  <2>2. files[n[1]][n[2]] # "unsynced"
    BY <2>1 DEF CopyInv
  <2>3. files'[n[1]][n[2]] = files[n[1]][n[2]]
    BY <1>2, <2>1, <2>2 DEF PowerLost
  <2> QED
    BY <2>3 DEF At
<1> QED
  BY <1>1, <1>2, FilesChange

\* Link and publish change a name that is free.
LEMMA PutChangesFree ==
    ASSUME TypeOK, NEW n \in Names, Link \/ Publish, At(n)' # At(n)
    PROVE  At(n) = "absent"
<1>1. files \in [Steps -> [Loc -> File]] /\ cur \in Steps /\ mem[cur].dst \in Loc
  BY DstInLoc DEF TypeOK
<1>2. n[1] \in Steps /\ n[2] \in Loc
  BY DEF Names
<1>3. CASE UNCHANGED files
  BY <1>3 DEF At
<1>4. CASE ~Exists(cur) /\ \E f : files' = [files EXCEPT ![cur][mem[cur].dst] = f]
  <2>1. PICK f : files' = [files EXCEPT ![cur][mem[cur].dst] = f]
    BY <1>4
  <2>2. n[1] = cur /\ n[2] = mem[cur].dst
    BY <1>1, <1>2, <2>1 DEF At
  <2> QED
    BY <1>4, <2>2 DEF At, Exists
<1> QED
  BY <1>3, <1>4 DEF Link, Publish, Put

\* I2 for every plan: whatever is at a destination, the program never puts
\* something else in its place, and removes it only in Undo or at startup.
THEOREM NeverOverwritesHolds == Spec => NeverOverwrites
<1> DEFINE A == \A n \in Names :
                  At(n) # "absent" /\ At(n)' # At(n) /\ ~ByUser
                    => At(n)' = "absent" /\ pc \in {"undo_remove", "boot_stat"}
<1>1. TypeOK /\ CopyInv /\ [Next]_vars => [A]_vars
  <2> SUFFICES ASSUME TypeOK, CopyInv, Next, NEW n \in Names, At(n) # "absent",
                      At(n)' # At(n), ~ByUser
               PROVE  At(n)' = "absent" /\ pc \in {"undo_remove", "boot_stat"}
    OBVIOUS
  <2>1. UndoRemove \/ BootStat
    BY NameChange, PutChangesFree, OnlyUserTouches
  <2>2. pc \in {"undo_remove", "boot_stat"}
    BY <2>1 DEF UndoRemove, BootStat
  <2>3. PICK s \in Steps : \/ files' = [files EXCEPT ![s][mem[s].dst] = "absent"]
                          \/ UNCHANGED files
    BY <2>1, TodoInSteps DEF UndoRemove, BootStat
  <2>4. files \in [Steps -> [Loc -> File]] /\ mem[s].dst \in Loc
    BY DstInLoc DEF TypeOK
  <2>5. n[1] \in Steps /\ n[2] \in Loc
    BY DEF Names
  <2>6. At(n)' = "absent"
    BY <2>3, <2>4, <2>5 DEF At
  <2> QED
    BY <2>2, <2>6
<1>2. Init => CopyInv
  BY DEF Init, CopyInv
<1>3. TypeOK /\ CopyInv /\ [Next]_vars => CopyInv'
  BY CopyInvNext
<1> QED
  BY <1>1, <1>2, <1>3, TypeCorrect, PTL DEF Spec, NeverOverwrites
-----------------------------------------------------------------------------
(* What is removed *)

\* While the process is down or starting up the guard knows no library, so
\* nothing can be removed; and Undo works on the rows as they are stored,
\* and only on those that say created_by_us.
UndoLoop == {"undo_verify", "undo_remove", "undo_dir"}
HandlerInv ==
    /\ pc \in {"down"} \cup BootPc => ~roots
    /\ pc \in UndoLoop => mem = rows /\ todo \subseteq Ours

\* Where an execution goes from a step, or a handler that returns goes.
LEMMA AwayFromUndo ==
    /\ \A s, row : RunFails(s, row) => pc' \notin UndoLoop \cup {"down"} \cup BootPc
    /\ \A s : RunNext(s) => pc' \notin UndoLoop \cup {"down"} \cup BootPc
    /\ Return => pc' \notin UndoLoop \cup {"down"} \cup BootPc
    /\ Die => pc' \notin UndoLoop
BY DEF RunFails, RunNext, Return, Die, UndoLoop, BootPc

LEMMA HandlerInvNext == HandlerInv /\ [Next]_vars => HandlerInv'
<1> SUFFICES ASSUME HandlerInv, [Next]_vars PROVE HandlerInv'
    OBVIOUS
<1> USE DEF progVars, outVars, diskVars, confVars
<1>1. ASSUME pc' \notin UndoLoop \cup {"down"} \cup BootPc PROVE HandlerInv'
  BY <1>1 DEF HandlerInv
<1>2. ASSUME UNCHANGED <<pc, rows, mem, todo>>, roots' => roots PROVE HandlerInv'
  BY <1>2 DEF HandlerInv, Ours
<1>3. CASE Execute
  <2>1. CASE ExecuteNothingPending \/ ExecuteBlocked
    BY <1>2, <2>1 DEF ExecuteNothingPending, ExecuteBlocked
  <2>2. CASE ExecuteStart \/ Cancelled \/ Before \/ Mkdir \/ Check \/ Link
    BY <1>1, <2>2, AwayFromUndo
    DEF ExecuteStart, Cancelled, Before, Mkdir, Check, Link, UndoLoop, BootPc
  <2>3. CASE Create \/ CopyFails \/ CopyEnds \/ Verify \/ Sync \/ Publish
    BY <1>1, <2>3, AwayFromUndo
    DEF Create, CopyFails, CopyEnds, Verify, Sync, Publish, UndoLoop, BootPc
  <2>4. CASE Unlink \/ After \/ AppendFlat \/ RecordStep \/ Finish \/ MarkFiled
    BY <1>1, <2>4, AwayFromUndo
    DEF Unlink, After, AppendFlat, RecordStep, Finish, MarkFiled, UndoLoop, BootPc
  <2> QED
    BY <1>3, <2>1, <2>2, <2>3, <2>4 DEF Execute
<1>4. CASE Undo
  <2>1. CASE UndoStart
    BY <2>1 DEF UndoStart, HandlerInv, UndoLoop, BootPc, Ours
  <2>2. CASE UndoVerify \/ UndoRemove \/ UndoDir
    BY <2>2 DEF UndoVerify, UndoRemove, UndoDir, HandlerInv, UndoLoop, BootPc, Ours
  <2>3. CASE UndoFinish \/ UndoMark
    BY <1>1, <2>3, AwayFromUndo DEF UndoFinish, UndoMark, UndoLoop, BootPc
  <2> QED
    BY <1>4, <2>1, <2>2, <2>3 DEF Undo
<1>5. CASE Startup
  <2>1. CASE BootReload
    BY <1>1, <2>1, AwayFromUndo DEF BootReload
  <2>2. CASE Boot \/ BootStat \/ BootWrite \/ BootRelease
    <3>1. pc \in {"down"} \cup BootPc /\ pc' \in BootPc
      BY <2>2 DEF Boot, BootStat, BootWrite, BootRelease, BootPc
    <3>2. UNCHANGED roots
      BY <2>2 DEF Boot, BootStat, BootWrite, BootRelease
    <3> QED
      BY <3>1, <3>2 DEF HandlerInv, UndoLoop, BootPc
  <2> QED
    BY <1>5, <2>1, <2>2 DEF Startup
<1>6. CASE Settings
  <2>1. CASE ReloadAdd
    <3>1. pc \notin {"down"} \cup BootPc /\ UNCHANGED <<pc, rows, mem, todo>>
      BY <2>1 DEF ReloadAdd, Serving
    <3> QED
      BY <3>1 DEF HandlerInv, Ours
  <2>2. CASE ScanRegisters \/ SetDryRun \/ ReloadReset
    BY <1>2, <2>2 DEF ScanRegisters, SetDryRun, ReloadReset
  <2> QED
    BY <1>6, <2>1, <2>2 DEF Settings
<1>7. CASE Killed \/ PowerLost
  BY <1>7, AwayFromUndo DEF Killed, PowerLost, Die, HandlerInv
<1>8. CASE UserTouches \/ SourceChanges
  BY <1>2, <1>8 DEF UserTouches, SourceChanges
<1>9. CASE UNCHANGED vars
  BY <1>2, <1>9 DEF vars
<1> QED
  BY <1>3, <1>4, <1>5, <1>6, <1>7, <1>8, <1>9 DEF Next

\* Both hold before anything has happened.
LEMMA InvInit == Init => CopyInv /\ HandlerInv
BY DEF Init, CopyInv, HandlerInv, BootPc, UndoLoop

\* For every plan: the program removes a destination only while the step's
\* row claims that very name.
THEOREM OnlyClaimedRemovedHolds == Spec => OnlyClaimedRemoved
<1> DEFINE A == \A n \in Names :
                  At(n) # "absent" /\ At(n)' = "absent" /\ ~ByUser => Claims(n)
<1>1. TypeOK /\ CopyInv /\ HandlerInv /\ [Next]_vars => [A]_vars
  <2> SUFFICES ASSUME TypeOK, CopyInv, HandlerInv, Next, NEW n \in Names,
                      At(n) # "absent", At(n)' = "absent", ~ByUser
               PROVE  Claims(n)
    OBVIOUS
  <2>1. UndoRemove \/ BootStat
    BY NameChange, PutChangesFree, OnlyUserTouches
  <2>2. ~BootStat
    <3>1. ASSUME BootStat PROVE UNCHANGED files
      BY <3>1 DEF BootStat, HandlerInv, BootPc, Writable
    <3> QED
      BY <3>1 DEF At
  <2>3. PICK s \in todo : files' = [files EXCEPT ![s][mem[s].dst] = "absent"]
    <3>1. ~UNCHANGED files
      BY DEF At
    <3> QED
      BY <2>1, <2>2, <3>1 DEF UndoRemove
  <2>4. /\ files \in [Steps -> [Loc -> File]] /\ s \in Steps
        /\ mem[s].dst \in Loc /\ n[1] \in Steps /\ n[2] \in Loc
    BY TodoInSteps, DstInLoc DEF TypeOK, Names
  <2>5. n[1] = s /\ n[2] = mem[s].dst
    BY <2>3, <2>4 DEF At
  <2>6. pc = "undo_remove"
    BY <2>1, <2>2 DEF UndoRemove
  <2>7. mem = rows /\ s \in Ours
    BY <2>3, <2>6 DEF HandlerInv, UndoLoop
  <2> QED
    BY <2>5, <2>7 DEF Claims, Ours
<1>2. Init => CopyInv /\ HandlerInv
  BY InvInit
<1>3. TypeOK /\ CopyInv /\ [Next]_vars => CopyInv'
  BY CopyInvNext
<1>4. HandlerInv /\ [Next]_vars => HandlerInv'
  BY HandlerInvNext
<1> QED
  BY <1>1, <1>2, <1>3, <1>4, TypeCorrect, PTL DEF Spec, OnlyClaimedRemoved
-----------------------------------------------------------------------------
(* What the rows claim *)

\* As long as no database write fails: a row that says created_by_us is done
\* and names a file that was put there; so does what a handler holds, but
\* for the instant between the file and journal.After; and the steps Run has
\* still to go through claim nothing yet.
RunPc == {"before", "mkdir", "check", "link", "create", "copying", "verify",
          "sync", "publish", "unlink"}
Unclaimed(s) == ~rows[s].created /\ ~mem[s].created
ClaimInv ==
    used["fault"] = 0 =>
      /\ \A s \in Steps :
           rows[s].created => rows[s].status = "done" /\ <<s, rows[s].dst>> \in placed
      /\ \A s \in Steps :
           mem[s].created => /\ <<s, mem[s].dst>> \in placed
                             /\ mem[s].status = "done" \/ (pc = "after" /\ s = cur)
      /\ pc \in RunPc => Unclaimed(cur)
      /\ pc \in RunPc \cup {"after", "append"} =>
           \A s \in todo : s > cur => Unclaimed(s)
      /\ pc = "unlink" => <<cur, mem[cur].dst>> \in placed
      /\ pc = "boot_stat" => \A s \in todo : ~mem[s].created

\* A failed write is never forgotten.
LEMMA FaultsCounted ==
    ASSUME TypeOK, NEW e \in Events, Happens(e)
    PROVE  /\ used'["fault"] = 0 => used["fault"] = 0
           /\ e = "fault" => used'["fault"] # 0
<1>1. used["fault"] \in Nat /\ used[e] \in Nat /\ "fault" \in Events
  BY DEF TypeOK, Events
<1>2. used' = [used EXCEPT ![e] = used[e] + 1] /\ used \in [Events -> Nat]
  BY DEF Happens, TypeOK
<1> QED
  BY <1>1, <1>2

\* A step counts one event at most.
LEMMA WhoCounts ==
    [Next]_vars => UNCHANGED used \/ UserTouches \/ \E e \in Events \ {"user"} : Happens(e)
<1> USE DEF progVars, outVars, diskVars, confVars, Events
<1>1. Execute => UNCHANGED used \/ \E e \in Events \ {"user"} : Happens(e)
  BY DEF Execute, ExecuteNothingPending, ExecuteBlocked, ExecuteStart, Cancelled,
         Before, Mkdir, Check, Link, Create, CopyFails, CopyEnds, Verify, Sync,
         Publish, Unlink, After, AppendFlat, RecordStep, Finish, MarkFiled,
         WriteRow, WriteStatus
<1>2. Undo => UNCHANGED used \/ \E e \in Events \ {"user"} : Happens(e)
  BY DEF Undo, UndoStart, UndoVerify, UndoRemove, UndoDir, UndoFinish, UndoMark,
         WriteStatus
<1>3. Startup => UNCHANGED used \/ \E e \in Events \ {"user"} : Happens(e)
  BY DEF Startup, Boot, BootStat, BootWrite, BootRelease, BootReload, WriteRow
<1>4. Settings => UNCHANGED used \/ \E e \in Events \ {"user"} : Happens(e)
  BY DEF Settings, ScanRegisters, SetDryRun, ReloadReset, ReloadAdd
<1>5. Killed \/ PowerLost \/ SourceChanges
        => UNCHANGED used \/ \E e \in Events \ {"user"} : Happens(e)
  BY DEF Killed, PowerLost, Die, SourceChanges
<1>6. UNCHANGED vars => UNCHANGED used
  BY DEF vars
<1> QED
  BY <1>1, <1>2, <1>3, <1>4, <1>5, <1>6 DEF Next

LEMMA OneEvent == [Next]_vars => UNCHANGED used \/ \E e \in Events : Happens(e)
BY WhoCounts DEF UserTouches, Events

\* Nothing else counts as the user's doing.
LEMMA OnlyTheUserEdits ==
    TypeOK /\ [Next]_vars => UserTouches \/ used'["user"] = used["user"]
<1> SUFFICES ASSUME TypeOK, [Next]_vars
             PROVE  UserTouches \/ used'["user"] = used["user"]
  OBVIOUS
<1>1. ASSUME NEW e \in Events \ {"user"}, Happens(e) PROVE used'["user"] = used["user"]
  BY <1>1 DEF Happens, TypeOK, Events
<1> QED
  BY <1>1, WhoCounts

LEMMA FaultsStay == TypeOK /\ [Next]_vars => (used'["fault"] = 0 => used["fault"] = 0)
BY OneEvent, FaultsCounted

\* Where no database write may fail, none does.
LEMMA NoFaults ==
    ASSUME Bound["fault"] = 0, TypeOK, used["fault"] = 0, [Next]_vars
    PROVE  used'["fault"] = 0
<1>1. ASSUME NEW e \in Events, Happens(e) PROVE used'["fault"] = 0
  <2>1. e # "fault"
    BY <1>1 DEF Happens
  <2> QED
    BY <1>1, <2>1 DEF Happens, TypeOK, Events
<1> QED
  BY <1>1, OneEvent

\* What Hold leaves alone.
LEMMA HoldKeeps ==
    ASSUME TypeOK, NEW s \in Steps, NEW r, Hold(s, r)
    PROVE  mem'[s] = r /\ \A u \in Steps \ {s} : mem'[u] = mem[u]
BY DEF Hold, TypeOK

\* What changing a field of a held row leaves alone.
Others(s) == \A u \in Steps \ {s} : mem'[u] = mem[u]

LEMMA HoldStatus ==
    ASSUME TypeOK, NEW s \in Steps, NEW v, Hold(s, [mem[s] EXCEPT !.status = v])
    PROVE  /\ Others(s)
           /\ mem'[s].created = mem[s].created
           /\ mem'[s].dst = mem[s].dst
           /\ mem'[s].status = v
<1>1. mem[s] \in Row
  BY DEF TypeOK
<1>2. mem'[s] = [mem[s] EXCEPT !.status = v] /\ Others(s)
  BY HoldKeeps DEF Others
<1> QED
  BY <1>1, <1>2 DEF Row

LEMMA HoldDst ==
    ASSUME TypeOK, NEW s \in Steps, NEW v, Hold(s, [mem[s] EXCEPT !.dst = v])
    PROVE  Others(s) /\ mem'[s].created = mem[s].created
<1>1. mem[s] \in Row
  BY DEF TypeOK
<1>2. mem'[s] = [mem[s] EXCEPT !.dst = v] /\ Others(s)
  BY HoldKeeps DEF Others
<1> QED
  BY <1>1, <1>2 DEF Row

LEMMA HoldDirs ==
    ASSUME TypeOK, NEW s \in Steps,
           Hold(s, [mem[s] EXCEPT !.dirs = (dir = "absent")])
    PROVE  Others(s) /\ mem'[s].created = mem[s].created
<1>1. mem[s] \in Row
  BY DEF TypeOK
<1>2. mem'[s] = [mem[s] EXCEPT !.dirs = (dir = "absent")] /\ Others(s)
  BY HoldKeeps DEF Others
<1> QED
  BY <1>1, <1>2 DEF Row

LEMMA HoldPlaced ==
    ASSUME TypeOK, NEW s \in Steps, NEW v,
           Hold(s, [mem[s] EXCEPT !.actual = v, !.created = TRUE])
    PROVE  Others(s) /\ mem'[s].dst = mem[s].dst
<1>1. mem[s] \in Row
  BY DEF TypeOK
<1>2. mem'[s] = [mem[s] EXCEPT !.actual = v, !.created = TRUE] /\ Others(s)
  BY HoldKeeps DEF Others
<1> QED
  BY <1>1, <1>2 DEF Row

\* A handler step that touches no row, no held row and no name.
LEMMA ClaimSame ==
    ASSUME ClaimInv, used'["fault"] = 0 => used["fault"] = 0,
           UNCHANGED <<rows, mem, pc, cur, todo, placed>>
    PROVE  ClaimInv'
BY DEF ClaimInv, Unclaimed

\* A handler that returns, or a process that dies: the stored rows are left.
LEMMA ClaimReturn ==
    ASSUME ClaimInv, used'["fault"] = 0 => used["fault"] = 0,
           UNCHANGED <<rows, placed>>, mem' = rows',
           pc' \notin RunPc \cup {"after", "append", "boot_stat"}
    PROVE  ClaimInv'
BY DEF ClaimInv, RunPc

\* A step of the run that places nothing: the step stays unclaimed, and Run
\* stays at it, goes on to a later one, or ends.
LEMMA ClaimRun ==
    ASSUME TypeOK, ClaimInv, used'["fault"] = 0 => used["fault"] = 0,
           pc \in RunPc, pc' \notin {"after", "append", "boot_stat", "unlink"},
           used["fault"] = 0 => ~rows'[cur].created /\ ~mem'[cur].created,
           \A s \in Steps \ {cur} : mem'[s] = mem[s] /\ rows'[s] = rows[s],
           cur' = cur \/ (cur' \in todo /\ cur' > cur),
           UNCHANGED <<todo, placed>>
    PROVE  ClaimInv'
<1> SUFFICES ASSUME used'["fault"] = 0 PROVE ClaimInv'
    BY DEF ClaimInv
<1>1. cur \in Steps /\ todo \subseteq Steps /\ \A s \in Steps : s \in Int
  BY DEF TypeOK, Steps
<1>2. \A s \in Steps :
        rows'[s].created => rows'[s].status = "done" /\ <<s, rows'[s].dst>> \in placed'
  BY <1>1 DEF ClaimInv
<1>3. \A s \in Steps :
        mem'[s].created => <<s, mem'[s].dst>> \in placed' /\ mem'[s].status = "done"
  BY <1>1 DEF ClaimInv, RunPc
<1>4. Unclaimed(cur)'
  BY <1>1 DEF ClaimInv, Unclaimed, RunPc
<1>5. \A s \in todo : s > cur => Unclaimed(s)'
  BY <1>1 DEF ClaimInv, Unclaimed, RunPc
<1> QED
  BY <1>1, <1>2, <1>3, <1>4, <1>5 DEF ClaimInv

\* Where Run goes from a step.
LEMMA RunNextGoes ==
    ASSUME TypeOK, NEW s \in Steps, RunNext(s)
    PROVE  /\ pc' \in {"record", "before"}
           /\ pc' = "before" => cur' \in todo /\ cur' > s
           /\ cur' = cur \/ (cur' \in todo /\ cur' > s)
BY DEF RunNext
\* A step that fails is held unclaimed if it was.
LEMMA RunFailsGoes ==
    ASSUME TypeOK, RunFails(cur, mem[cur])
    PROVE  /\ pc' = "record" /\ cur' = cur
           /\ mem'[cur].created = mem[cur].created
           /\ mem'[cur].dst = mem[cur].dst
           /\ Others(cur)
<1>1. cur \in Steps
  BY DEF TypeOK
<1>2. Hold(cur, [mem[cur] EXCEPT !.status = "failed"]) /\ pc' = "record" /\ cur' = cur
  BY DEF RunFails
<1> QED
  BY <1>1, <1>2, HoldStatus

\* The steps of Run before anything is placed.
LEMMA ClaimBeforePlacing ==
    ASSUME TypeOK, ClaimInv, used'["fault"] = 0 => used["fault"] = 0,
           \/ Cancelled \/ Before \/ Mkdir \/ Check \/ Create
           \/ CopyFails \/ CopyEnds \/ Verify \/ Sync
    PROVE  ClaimInv'
<1> USE DEF progVars, outVars, diskVars, confVars
<1>1. /\ cur \in Steps /\ mem[cur] \in Row /\ rows[cur] \in Row
      /\ rows \in [Steps -> Row]
  BY DEF TypeOK
<1>2. pc \in RunPc /\ (used["fault"] = 0 => Unclaimed(cur))
  BY DEF Cancelled, Before, Mkdir, Check, Create, CopyFails, CopyEnds, Verify, Sync,
         RunPc, ClaimInv
<1>3. CASE Cancelled \/ CopyEnds \/ Verify \/ Sync
  <2>1. UNCHANGED <<rows, mem, cur, todo, placed>>
    BY <1>3 DEF Cancelled, CopyEnds, Verify, Sync
  <2>2. pc' \notin {"after", "append", "boot_stat", "unlink"}
    BY <1>3 DEF Cancelled, CopyEnds, Verify, Sync
  <2> QED
    BY <1>2, <2>1, <2>2, ClaimRun DEF Unclaimed, Others
<1>4. CASE Before
  <2>1. /\ \A s \in Steps \ {cur} : rows'[s] = rows[s]
        /\ rows'[cur].created = rows[cur].created
    <3>1. CASE UNCHANGED rows
      BY <3>1
    <3>2. CASE rows' = [rows EXCEPT ![cur] = [rows[cur] EXCEPT
                          !.status = "in_progress", !.dst = mem[cur].dst]]
      <4>1. rows'[cur] = [rows[cur] EXCEPT !.status = "in_progress",
                                           !.dst = mem[cur].dst]
        BY <1>1, <3>2
      <4> QED
        BY <1>1, <3>2, <4>1 DEF Row
    <3> QED
      BY <1>4, <3>1, <3>2 DEF Before
  <2>2. /\ Others(cur)
        /\ mem'[cur].created = mem[cur].created
        /\ pc' \in {"mkdir", "record"}
    BY <1>1, <1>4, HoldStatus, RunFailsGoes DEF Before
  <2>3. UNCHANGED <<cur, todo, placed>>
    BY <1>4, RunFailsGoes DEF Before
  <2> QED
    BY <1>2, <2>1, <2>2, <2>3, ClaimRun DEF Unclaimed, Others
<1>5. CASE Mkdir \/ Create \/ CopyFails
  <2>1. /\ Others(cur)
        /\ mem'[cur].created = mem[cur].created
        /\ pc' \in {"check", "copying", "record"}
    <3>1. CASE Mkdir
      BY <1>1, <3>1, HoldDirs, RunFailsGoes DEF Mkdir
    <3>2. CASE Create
      BY <1>1, <3>2, RunFailsGoes DEF Create, Others
    <3>3. CASE CopyFails
      BY <3>3, RunFailsGoes DEF CopyFails
    <3> QED
      BY <1>5, <3>1, <3>2, <3>3
  <2>2. UNCHANGED <<rows, cur, todo, placed>>
    BY <1>5, RunFailsGoes DEF Mkdir, Create, CopyFails
  <2> QED
    BY <1>2, <2>1, <2>2, ClaimRun DEF Unclaimed, Others
<1>6. CASE Check
  <2>1. Others(cur) /\ mem'[cur].created = mem[cur].created
    BY <1>1, <1>6, HoldDst, HoldStatus, RunFailsGoes DEF Check, Others
  <2>2. /\ pc' \in {"link", "record", "before"}
        /\ cur' = cur \/ (cur' \in todo /\ cur' > cur)
    BY <1>1, <1>6, RunFailsGoes, RunNextGoes DEF Check
  <2>3. UNCHANGED <<rows, todo, placed>>
    BY <1>6 DEF Check
  <2> QED
    BY <1>2, <2>1, <2>2, <2>3, ClaimRun DEF Unclaimed, Others
<1> QED
  BY <1>3, <1>4, <1>5, <1>6

\* Once a file is in place the held row claims it, and no other.
LEMMA ClaimPlaced ==
    ASSUME TypeOK, ClaimInv, used'["fault"] = 0 => used["fault"] = 0, pc \in RunPc,
           pc' = "after", UNCHANGED <<rows, cur, todo>>, placed \subseteq placed',
           <<cur, mem'[cur].dst>> \in placed',
           \A s \in Steps \ {cur} : mem'[s] = mem[s]
    PROVE  ClaimInv'
<1> SUFFICES ASSUME used'["fault"] = 0 PROVE ClaimInv'
    BY DEF ClaimInv
<1>1. cur \in Steps /\ todo \subseteq Steps /\ \A s \in Steps : s \in Int
  BY DEF TypeOK, Steps
<1>2. \A s \in Steps :
        rows'[s].created => rows'[s].status = "done" /\ <<s, rows'[s].dst>> \in placed'
  BY DEF ClaimInv
<1>3. \A s \in Steps :
        mem'[s].created => /\ <<s, mem'[s].dst>> \in placed'
                           /\ mem'[s].status = "done" \/ s = cur
  BY <1>1 DEF ClaimInv, RunPc
<1>4. \A s \in todo : s > cur => Unclaimed(s)'
  BY <1>1 DEF ClaimInv, Unclaimed
<1> QED
  BY <1>2, <1>3, <1>4 DEF ClaimInv, RunPc
\* A row written from what the handler holds claims what the handler claims.
LEMMA ClaimWritten ==
    ASSUME TypeOK, ClaimInv, used'["fault"] = 0 => used["fault"] = 0,
           NEW s \in Steps, WriteRow(s),
           pc \in {"record", "boot_write"},
           pc' \in {"record", "boot_write", "boot_release"},
           UNCHANGED <<mem, placed>>
    PROVE  ClaimInv'
<1>1. \A u \in Steps : rows'[u] = rows[u] \/ (u = s /\ rows'[u] = mem[u])
  BY DEF WriteRow, TypeOK
<1> QED
  BY <1>1 DEF ClaimInv, RunPc

LEMMA ClaimInvNext == TypeOK /\ ClaimInv /\ [Next]_vars => ClaimInv'
<1> SUFFICES ASSUME TypeOK, ClaimInv, [Next]_vars PROVE ClaimInv'
    OBVIOUS
<1> USE DEF progVars, outVars, diskVars, confVars
<1>1. used'["fault"] = 0 => used["fault"] = 0
  BY FaultsStay
<1>2. /\ cur \in Steps /\ mem[cur] \in Row /\ todo \subseteq Steps
      /\ \A s \in Steps : s \in Int
  BY DEF TypeOK, Steps
<1>3. CASE ExecuteNothingPending \/ ExecuteBlocked
  BY <1>1, <1>3, ClaimSame DEF ExecuteNothingPending, ExecuteBlocked
<1>4. CASE ExecuteStart
  <2>1. /\ mem' = rows /\ pc' = "before" /\ cur' \in Pending
        /\ todo' = Pending /\ UNCHANGED <<rows, placed>>
    BY <1>4 DEF ExecuteStart
  <2>2. used["fault"] = 0 => \A s \in Pending : Unclaimed(s)'
    BY <2>1 DEF ClaimInv, Pending, Unclaimed
  <2> QED
    BY <1>1, <2>1, <2>2 DEF ClaimInv, RunPc, Pending
<1>5. CASE \/ Cancelled \/ Before \/ Mkdir \/ Check \/ Create
           \/ CopyFails \/ CopyEnds \/ Verify \/ Sync
  BY <1>1, <1>5, ClaimBeforePlacing
<1>6. CASE Link
  <2>1. pc \in RunPc /\ UNCHANGED <<rows, cur, todo>>
    BY <1>6 DEF Link, RunPc
  <2>2. CASE pc' = "create" /\ UNCHANGED <<mem, placed>>
    BY <1>1, <2>1, <2>2, ClaimRun DEF ClaimInv, Unclaimed
  <2>3. CASE /\ Hold(cur, [mem[cur] EXCEPT !.actual = "hardlink", !.created = TRUE])
             /\ placed' = placed \cup {<<cur, mem[cur].dst>>}
             /\ pc' = "after"
    <3>1. Others(cur) /\ mem'[cur].dst = mem[cur].dst
      BY <1>2, <2>3, HoldPlaced
    <3> QED
      BY <1>1, <2>1, <2>3, <3>1, ClaimPlaced DEF Others
  <2> QED
    BY <1>6, <2>2, <2>3 DEF Link, Put
<1>7. CASE Publish
  <2>1. /\ pc = "publish" /\ pc \in RunPc /\ UNCHANGED <<rows, cur, todo>>
        /\ placed' = placed \cup {<<cur, mem[cur].dst>>}
    BY <1>7 DEF Publish, Put, RunPc
  <2>2. CASE pc' = "unlink" /\ UNCHANGED mem
    BY <1>1, <2>1, <2>2 DEF ClaimInv, Unclaimed, RunPc
  <2>3. CASE Copied /\ pc' = "after"
    <3>1. Others(cur) /\ mem'[cur].dst = mem[cur].dst
      BY <1>2, <2>3, HoldPlaced DEF Copied
    <3> QED
      BY <1>1, <2>1, <2>3, <3>1, ClaimPlaced DEF Others
  <2> QED
    BY <1>7, <2>2, <2>3 DEF Publish
<1>8. CASE Unlink
  <2>1. pc = "unlink" /\ pc \in RunPc /\ UNCHANGED <<rows, todo, placed>>
    BY <1>8 DEF Unlink, RunPc
  <2>2. CASE Copied /\ pc' = "after" /\ UNCHANGED cur
    <3>1. Others(cur) /\ mem'[cur].dst = mem[cur].dst
      BY <1>2, <2>2, HoldPlaced DEF Copied
    <3>2. used'["fault"] = 0 => <<cur, mem'[cur].dst>> \in placed'
      BY <1>1, <2>1, <3>1 DEF ClaimInv
    <3>3. CASE used'["fault"] = 0
      BY <1>1, <2>1, <2>2, <3>1, <3>2, <3>3, ClaimPlaced DEF Others
    <3> QED
      BY <3>3 DEF ClaimInv
  <2>3. CASE RunFails(cur, mem[cur])
    BY <1>1, <2>1, <2>3, RunFailsGoes, ClaimRun DEF Others, ClaimInv, Unclaimed
  <2> QED
    BY <1>8, <2>2, <2>3 DEF Unlink
<1>9. CASE After
  <2>1. pc = "after" /\ UNCHANGED <<todo, placed>>
    BY <1>9 DEF After
  <2>2. CASE Happens("fault")
    BY <2>2, FaultsCounted DEF ClaimInv, Events
  <2>3. CASE /\ Hold(cur, [mem[cur] EXCEPT !.status = "done"])
             /\ rows' = [rows EXCEPT ![cur] = [mem[cur] EXCEPT !.status = "done"]]
             /\ pc' = "append" /\ UNCHANGED cur
    <3>1. /\ Others(cur) /\ mem'[cur].dst = mem[cur].dst
          /\ mem'[cur].created = mem[cur].created /\ mem'[cur].status = "done"
      BY <1>2, <2>3, HoldStatus
    <3>2. rows'[cur] = mem'[cur] /\ \A s \in Steps \ {cur} : rows'[s] = rows[s]
      BY <1>2, <2>3, HoldKeeps DEF TypeOK
    <3>3. used'["fault"] = 0 => \A s \in todo : s > cur => Unclaimed(s)'
      BY <1>1, <1>2, <2>1, <3>1, <3>2 DEF ClaimInv, Unclaimed, Others
    <3> QED
      BY <1>1, <1>2, <2>1, <2>3, <3>1, <3>2, <3>3 DEF ClaimInv, RunPc, Others
  <2> QED
    BY <1>9, <2>2, <2>3 DEF After
<1>10. CASE AppendFlat
  <2>1. /\ pc = "append" /\ UNCHANGED <<rows, mem, todo, placed>>
        /\ pc' \in {"record", "before"}
        /\ pc' = "before" => cur' \in todo /\ cur' > cur
    BY <1>2, <1>10, RunNextGoes DEF AppendFlat
  <2>2. CASE pc' = "record"
    BY <1>1, <2>1, <2>2 DEF ClaimInv, RunPc
  <2>3. CASE pc' = "before"
    <3>1. used["fault"] = 0 => \A s \in todo : s > cur => Unclaimed(s)'
      BY <2>1 DEF ClaimInv, Unclaimed
    <3>2. cur' \in Int /\ cur \in Int /\ \A s \in todo : s > cur' => s > cur
      BY <1>2, <2>1, <2>3
    <3> QED
      BY <1>1, <2>1, <2>3, <3>1, <3>2 DEF ClaimInv, RunPc
  <2> QED
    BY <2>1, <2>2, <2>3
<1>11. CASE RecordStep
  <2>1. PICK s \in Steps : WriteRow(s)
    BY <1>2, <1>11 DEF RecordStep
  <2>2. pc = "record" /\ UNCHANGED <<mem, pc, placed>>
    BY <1>11 DEF RecordStep
  <2> QED
    BY <1>1, <2>1, <2>2, ClaimWritten
<1>12. CASE Finish
  <2>1. CASE Return
    <3>1. UNCHANGED <<rows, placed>> /\ mem' = rows' /\ pc' = "idle"
      BY <1>12, <2>1 DEF Finish, Return
    <3> QED
      BY <1>1, <3>1, ClaimReturn DEF RunPc
  <2>2. CASE pc' = "mark" /\ UNCHANGED <<mem, cur, todo>>
    <3>1. pc = "record" /\ UNCHANGED <<rows, placed>>
      BY <1>12 DEF Finish
    <3> QED
      BY <1>1, <2>2, <3>1 DEF ClaimInv, RunPc
  <2> QED
    BY <1>12, <2>1, <2>2 DEF Finish
<1>13. CASE MarkFiled \/ UndoMark \/ BootReload
  <2>1. UNCHANGED <<rows, placed>> /\ mem' = rows' /\ pc' = "idle"
    BY <1>13 DEF MarkFiled, UndoMark, BootReload, Return
  <2> QED
    BY <1>1, <2>1, ClaimReturn DEF RunPc
<1>14. CASE UndoStart
  BY <1>1, <1>14, ClaimReturn DEF UndoStart, RunPc
<1>15. CASE UndoVerify \/ UndoRemove \/ UndoDir \/ BootRelease
  <2>1. pc \in UndoPc \cup {"boot_release"} /\ UNCHANGED <<rows, mem, placed>>
    BY <1>15 DEF UndoVerify, UndoRemove, UndoDir, BootRelease, UndoPc
  <2>2. pc' \in UndoPc \cup {"boot_reload"}
    BY <1>15 DEF UndoVerify, UndoRemove, UndoDir, BootRelease, UndoPc
  <2> QED
    BY <1>1, <2>1, <2>2 DEF ClaimInv, RunPc, UndoPc
<1>16. CASE UndoFinish
  <2>1. CASE Return
    <3>1. UNCHANGED <<rows, placed>> /\ mem' = rows' /\ pc' = "idle"
      BY <1>16, <2>1 DEF UndoFinish, Return
    <3> QED
      BY <1>1, <3>1, ClaimReturn DEF RunPc
  <2>2. CASE pc' = "undo_finish" /\ UNCHANGED <<mem, cur, todo>>
    <3>1. pc = "undo_verify" /\ UNCHANGED <<rows, placed>>
      BY <1>16 DEF UndoFinish
    <3> QED
      BY <1>1, <2>2, <3>1 DEF ClaimInv, RunPc
  <2> QED
    BY <1>16, <2>1, <2>2 DEF UndoFinish
<1>17. CASE Killed \/ PowerLost
  <2>1. UNCHANGED <<rows, placed>> /\ mem' = rows' /\ pc' = "down"
    BY <1>17 DEF Killed, PowerLost, Die
  <2> QED
    BY <1>1, <2>1, ClaimReturn DEF RunPc
<1>18. CASE Boot
  <2>1. mem' = rows /\ UNCHANGED <<rows, placed>> /\ todo' = InProgress
    BY <1>18 DEF Boot
  <2>2. pc' \in {"boot_stat", "boot_reload"}
    BY <1>18 DEF Boot
  <2>3. used["fault"] = 0 => \A s \in InProgress : ~mem'[s].created
    BY <2>1 DEF ClaimInv, InProgress
  <2> QED
    BY <1>1, <2>1, <2>2, <2>3 DEF ClaimInv, RunPc
<1>19. CASE BootStat
  <2>1. PICK s \in todo : /\ \E v : Hold(s, [mem[s] EXCEPT !.status = v])
                        /\ \/ pc' = "boot_write"
                           \/ pc' = pc /\ todo' = todo \ {s}
    BY <1>19 DEF BootStat
  <2>2. pc = "boot_stat" /\ UNCHANGED <<rows, placed>>
    BY <1>19 DEF BootStat
  <2>3. Others(s) /\ mem'[s].created = mem[s].created
    BY <1>2, <2>1, HoldStatus
  <2>4. used["fault"] = 0 => ~mem'[s].created
    BY <2>1, <2>2, <2>3 DEF ClaimInv
  <2>5. used["fault"] = 0 => \A u \in todo : ~mem'[u].created
    BY <1>2, <2>1, <2>2, <2>3 DEF ClaimInv, Others
  <2>6. used["fault"] = 0 =>
          \A u \in Steps : mem'[u].created
             => <<u, mem'[u].dst>> \in placed /\ mem'[u].status = "done"
    BY <1>2, <2>1, <2>2, <2>3, <2>4 DEF ClaimInv, Others
  <2> QED
    BY <1>1, <2>1, <2>2, <2>5, <2>6 DEF ClaimInv, RunPc
<1>20. CASE BootWrite
  <2>1. PICK s \in Steps : WriteRow(s)
    BY <1>2, <1>20 DEF BootWrite
  <2>2. /\ pc = "boot_write" /\ pc' \in {"boot_write", "boot_release"}
        /\ UNCHANGED <<mem, placed>>
    BY <1>20 DEF BootWrite
  <2> QED
    BY <1>1, <2>1, <2>2, ClaimWritten
<1>21. CASE Settings \/ UserTouches \/ SourceChanges
  BY <1>1, <1>21, ClaimSame
  DEF Settings, ScanRegisters, SetDryRun, ReloadReset, ReloadAdd, UserTouches,
      SourceChanges
<1>22. CASE UNCHANGED vars
  BY <1>1, <1>22, ClaimSame DEF vars
<1> QED
  BY <1>3, <1>4, <1>5, <1>6, <1>7, <1>8, <1>9, <1>10, <1>11, <1>12, <1>13, <1>14,
     <1>15, <1>16, <1>17, <1>18, <1>19, <1>20, <1>21, <1>22
  DEF Next, Execute, Undo, Startup

\* For every plan: as long as no database write fails, a row claims a name
\* only if this plan put a file there.
THEOREM ClaimedWasPlacedHolds == Spec => []ClaimedWasPlaced
<1>1. Init => ClaimInv
  <2> SUFFICES ASSUME Init PROVE ClaimInv
    OBVIOUS
  <2>1. \A s \in Steps : ~rows[s].created
    BY DEF Init
  <2>2. \A s \in Steps : ~mem[s].created
    BY <2>1 DEF Init
  <2>3. pc = "idle"
    BY DEF Init
  <2> QED
    BY <2>1, <2>2, <2>3 DEF ClaimInv, RunPc
<1>2. TypeOK /\ ClaimInv /\ [Next]_vars => ClaimInv'
  BY ClaimInvNext
<1>3. ClaimInv => ClaimedWasPlaced
  BY DEF ClaimInv, ClaimedWasPlaced
<1> QED
  BY <1>1, <1>2, <1>3, TypeCorrect, PTL DEF Spec

-----------------------------------------------------------------------------
(* The plan implements Library *)

\* The refinement mapping, by name.
LibHolds  == [n \in Names |-> Holds(At(n))]
LibRecord == {n \in Names : Claims(n)}

\* The three things a name may hold.
LEMMA HoldsWhat ==
    /\ Holds("absent") = "absent"
    /\ \A f \in UserFile : Holds(f) = "user"
    /\ \A f \in OurFile : Holds(f) = "ours"
<1>1. \A f \in UserFile : f # "absent"
  BY DEF UserFile
<1>2. \A f \in OurFile : f # "absent" /\ f \notin UserFile
  BY DEF OurFile, UserFile
<1> QED
  BY <1>1, <1>2, Zenon DEF Holds

LEMMA LinksAreOurs == {"link", "link_other"} \subseteq OurFile
BY DEF OurFile

LEMMA HoldsNothing == \A f \in File : Holds(f) = "absent" => f = "absent"
BY HoldsWhat DEF File

\* One name is given new contents, the others keep theirs.
LEMMA OneName ==
    ASSUME TypeOK, NEW s \in Steps, NEW l \in Loc, NEW f,
           files' = [files EXCEPT ![s][l] = f]
    PROVE  /\ <<s, l>> \in Names
           /\ LibHolds' = [LibHolds EXCEPT ![<<s, l>>] = Holds(f)]
<1>1. files \in [Steps -> [Loc -> File]]
  BY DEF TypeOK
<1>2. <<s, l>> \in Names
  BY DEF Names
<1>3. \A n \in Names : At(n)' = IF n = <<s, l>> THEN f ELSE At(n)
  BY <1>1 DEF At, Names
<1>4. \A n \in Names : LibHolds'[n] = [LibHolds EXCEPT ![<<s, l>>] = Holds(f)][n]
  BY <1>2, <1>3 DEF LibHolds
<1> QED
  BY <1>2, <1>4 DEF LibHolds

\* Power failure tears files, it takes none away.
LEMMA TornIsOurs == PowerLost => LibHolds' = LibHolds
<1> SUFFICES ASSUME PowerLost PROVE LibHolds' = LibHolds
    OBVIOUS
<1>1. \A n \in Names : At(n)' = IF At(n) = "unsynced" THEN "torn" ELSE At(n)
  BY DEF PowerLost, At, Names
<1>2. \A n \in Names : Holds(At(n)') = Holds(At(n))
  BY <1>1, HoldsWhat DEF OurFile
<1> QED
  BY <1>2 DEF LibHolds

\* What changes the files, and what it does to the record meanwhile.
LEMMA LibrarySteps ==
    ASSUME TypeOK, CopyInv, HandlerInv, [Next]_vars
    PROVE  \/ LibHolds' = LibHolds /\ placed' = placed /\ used'["user"] = used["user"]
           \/ /\ LibRecord' = LibRecord
              /\ \E n \in Names : Lib!UserWrites(n) \/ Lib!Place(n) \/ Lib!Remove(n)
<1> USE DEF progVars, outVars, diskVars, confVars
<1>1. /\ files \in [Steps -> [Loc -> File]] /\ cur \in Steps
      /\ mem[cur].dst \in Loc /\ CurPartial \in Partial
  BY DstInLoc DEF TypeOK, CurPartial
<1>2. UNCHANGED files => LibHolds' = LibHolds
  BY DEF LibHolds, At
<1>3. UNCHANGED rows => LibRecord' = LibRecord
  BY DEF LibRecord, Claims
<1>e. CASE UserTouches
  <2>1. PICK s \in Steps, l \in Loc, f \in UserFile \cup {"absent"} :
          files' = [files EXCEPT ![s][l] = f]
    BY <1>e DEF UserTouches
  <2>2. /\ <<s, l>> \in Names
        /\ LibHolds' = [LibHolds EXCEPT ![<<s, l>>] = Holds(f)]
    BY <2>1, OneName
  <2>3. Holds(f) \in {"absent", "user"}
    BY <2>1, HoldsWhat
  <2>4. /\ LibRecord' = LibRecord /\ placed' = placed
        /\ used'["user"] = used["user"] + 1
    BY <1>3, <1>e DEF UserTouches, Happens, TypeOK, Events
  <2>5. Lib!UserWrites(<<s, l>>)
    BY <2>2, <2>3, <2>4 DEF Lib!UserWrites, LibHolds, LibRecord
  <2> QED
    BY <2>2, <2>4, <2>5
<1>u. UserTouches \/ used'["user"] = used["user"]
  BY OnlyTheUserEdits
<1>n. SUFFICES ASSUME ~UserTouches
               PROVE  \/ /\ LibHolds' = LibHolds /\ placed' = placed
                         /\ used'["user"] = used["user"]
                      \/ /\ LibRecord' = LibRecord
                         /\ \E n \in Names : Lib!Place(n) \/ Lib!Remove(n)
  BY <1>e
<1>k. used'["user"] = used["user"]
  BY <1>u, <1>n
<1>4. ASSUME NEW f \in OurFile, UNCHANGED rows, ~Exists(cur), Put(cur, f)
      PROVE  /\ LibRecord' = LibRecord
             /\ \E n \in Names : Lib!Place(n)
  <2>1. /\ <<cur, mem[cur].dst>> \in Names
        /\ LibHolds' = [LibHolds EXCEPT ![<<cur, mem[cur].dst>>] = Holds(f)]
    BY <1>1, <1>4, OneName DEF Put
  <2>2. LibHolds[<<cur, mem[cur].dst>>] = "absent"
    BY <1>4, <2>1, HoldsWhat DEF LibHolds, At, Exists
  <2>3. Holds(f) = "ours"
    BY <1>4, HoldsWhat
  <2>4. Lib!Place(<<cur, mem[cur].dst>>)
    BY <1>k, <1>3, <1>4, <2>1, <2>2, <2>3 DEF Lib!Place, LibHolds, LibRecord, Put
  <2> QED
    BY <1>3, <1>4, <2>1, <2>4
<1>5. CASE Link
  <2>1. CASE UNCHANGED <<files, placed>>
    BY <1>k, <1>2, <2>1
  <2>2. ASSUME NEW f \in OurFile, Put(cur, f), ~Exists(cur), UNCHANGED rows
        PROVE  LibRecord' = LibRecord /\ \E n \in Names : Lib!Place(n)
    BY <1>4, <2>2
  <2>3. UNCHANGED rows
    BY <1>5 DEF Link
  <2>4. \/ UNCHANGED <<files, placed>>
        \/ /\ ~Exists(cur)
           /\ Put(cur, IF src[cur] = "replaced" THEN "link_other" ELSE "link")
    BY <1>5 DEF Link
  <2>5. (IF src[cur] = "replaced" THEN "link_other" ELSE "link") \in OurFile
    BY LinksAreOurs
  <2> QED
    BY <2>1, <2>2, <2>3, <2>4, <2>5
<1>6. CASE Publish
  <2>1. Published(CurPartial) \in OurFile
    BY DEF Published, OurFile
  <2> QED
    BY <1>4, <1>6, <2>1 DEF Publish, CurPartial
<1>7. CASE UndoRemove
  <2>1. PICK s \in todo : \/ UNCHANGED files
                          \/ /\ Exists(s)
                             /\ files' = [files EXCEPT ![s][mem[s].dst] = "absent"]
    BY <1>7 DEF UndoRemove
  <2>2. CASE UNCHANGED files
    BY <1>k, <1>2, <1>7, <2>2 DEF UndoRemove
  <2>3. CASE Exists(s) /\ files' = [files EXCEPT ![s][mem[s].dst] = "absent"]
    <3>1. s \in Steps /\ mem[s].dst \in Loc
      BY TodoInSteps, DstInLoc
    <3>2. /\ <<s, mem[s].dst>> \in Names
          /\ LibHolds' = [LibHolds EXCEPT ![<<s, mem[s].dst>>] = "absent"]
      <4>1. /\ <<s, mem[s].dst>> \in Names
            /\ LibHolds' = [LibHolds EXCEPT ![<<s, mem[s].dst>>] = Holds("absent")]
        BY <2>3, <3>1, OneName
      <4> QED
        BY <4>1, HoldsWhat
    <3>3. LibHolds[<<s, mem[s].dst>>] # "absent"
      <4>1. files[s][mem[s].dst] \in File /\ files[s][mem[s].dst] # "absent"
        BY <1>1, <2>3, <3>1 DEF Exists
      <4> QED
        BY <3>2, <4>1, HoldsNothing DEF LibHolds, At
    <3>4. <<s, mem[s].dst>> \in LibRecord
      BY <1>7, <2>1, <3>2 DEF UndoRemove, HandlerInv, UndoLoop, Ours, LibRecord, Claims
    <3>5. LibRecord' = LibRecord /\ placed' = placed
      BY <1>3, <1>7 DEF UndoRemove
    <3>6. Lib!Remove(<<s, mem[s].dst>>)
      BY <1>k, <3>2, <3>3, <3>4, <3>5 DEF Lib!Remove, LibHolds, LibRecord
    <3> QED
      BY <3>2, <3>5, <3>6
  <2> QED
    BY <2>1, <2>2, <2>3
<1>8. CASE BootStat
  BY <1>k, <1>2, <1>8 DEF BootStat, HandlerInv, BootPc, Writable
<1>9. CASE PowerLost
  BY <1>k, <1>9, TornIsOurs DEF PowerLost, Die
<1>11. CASE UNCHANGED files /\ Next /\ ~(Link \/ Publish \/ UndoRemove)
  <2>1. placed' = placed
    BY <1>11
    DEF Next, Execute, Undo, Startup, Settings, ExecuteNothingPending,
        ExecuteBlocked, ExecuteStart, Cancelled, Before, Mkdir, Check, Create,
        CopyFails, CopyEnds, Verify, Sync, Unlink, After, AppendFlat, RecordStep,
        Finish, MarkFiled, UndoStart, UndoVerify, UndoDir, UndoFinish, UndoMark,
        Boot, BootStat, BootWrite, BootRelease, BootReload, ScanRegisters,
        SetDryRun, ReloadReset, ReloadAdd, Killed, PowerLost, Die, UserTouches,
        SourceChanges
  <2> QED
    BY <1>k, <1>2, <1>11, <2>1
<1>12. CASE UNCHANGED vars
  BY <1>k, <1>2, <1>12 DEF vars
<1> QED
  BY <1>n, <1>5, <1>6, <1>7, <1>8, <1>9, <1>11, <1>12, FilesChange

\* Where no database write fails, every plan keeps the promise of Library:
\* it fills free names, removes what is on record, and its record names only
\* what it put there.
THEOREM ImplementsLibraryHolds ==
    ASSUME Bound["fault"] = 0
    PROVE  Spec => ImplementsLibrary
<1> DEFINE NoFault == used["fault"] = 0
<1>1. Init => Lib!Init
  <2> SUFFICES ASSUME Init PROVE Lib!Init
    OBVIOUS
  <2>1. \A n \in Names : At(n) = "absent" /\ ~Claims(n)
    BY DEF Init, At, Claims, Names
  <2>2. LibHolds \in [Names -> {"absent", "user"}] /\ LibRecord = {}
    BY <2>1, HoldsWhat DEF LibHolds, LibRecord
  <2> QED
    BY <2>2 DEF Init, Lib!Init, LibHolds, LibRecord, Events
<1>2. Init => NoFault
  BY DEF Init, Events
<1>3. TypeOK /\ NoFault /\ [Next]_vars => NoFault'
  BY NoFaults
<1>4. /\ TypeOK /\ CopyInv /\ HandlerInv /\ [Next]_vars
      /\ ClaimedWasPlaced' /\ NoFault'
      => [Lib!Next]_(Lib!vars)
  <2> SUFFICES ASSUME TypeOK, CopyInv, HandlerInv, [Next]_vars, ClaimedWasPlaced',
                      NoFault'
               PROVE  [Lib!Next]_(Lib!vars)
    OBVIOUS
  <2>1. CASE LibHolds' = LibHolds /\ placed' = placed /\ used'["user"] = used["user"]
    <3>1. LibRecord' \subseteq placed
      BY <2>1 DEF ClaimedWasPlaced, LibRecord, Claims, Names
    <3> QED
      BY <2>1, <3>1 DEF Lib!Next, Lib!Rerecord, LibHolds, LibRecord
  <2>2. CASE \E n \in Names : Lib!UserWrites(n) \/ Lib!Place(n) \/ Lib!Remove(n)
    BY <2>2 DEF Lib!Next
  <2> QED
    BY <2>1, <2>2, LibrarySteps
<1>5. Init => CopyInv /\ HandlerInv
  BY InvInit
<1>6. TypeOK /\ CopyInv /\ [Next]_vars => CopyInv'
  BY CopyInvNext
<1>7. HandlerInv /\ [Next]_vars => HandlerInv'
  BY HandlerInvNext
<1> HIDE DEF NoFault
<1> QED
  BY <1>1, <1>2, <1>3, <1>4, <1>5, <1>6, <1>7, TypeCorrect, ClaimedWasPlacedHolds, PTL
  DEF Spec, ImplementsLibrary, Lib!Spec

=============================================================================
