----------------------------- MODULE Roots_proofs -----------------------------
(***************************************************************************)
(* Theorems about Roots, for every set of goroutines, download roots and   *)
(* libraries, and every bound on what happens.                             *)
(***************************************************************************)
EXTENDS Roots, TLAPS

-----------------------------------------------------------------------------
(* Type correctness *)

\* The steps of a probe of a pair, and those between two of which it has a file.
PairPoints == Probing \ {"pick", "writeable", "unwrite"}
Busy       == Probing \ {"pick", "writeable", "create", "put"}
Selves     == {<<l, l>> : l \in Lib}

\* A goroutine probes pairs, or libraries, each at its own steps; what it goes on
\* to cache is an answer.
JobInOrder(a) ==
    /\ pc[a] \in PairPoints \cup {"keep"} => at[a] \in Source \X Lib
    /\ pc[a] \in {"writeable", "unwrite"} => at[a] \in Selves
    /\ todo[a] \subseteq (Source \X Lib) \cup Selves
    /\ pc[a] \in {"unlink2", "clean", "put"} => out[a] # "dryrun"

JobsInOrder == \A a \in Actor : JobInOrder(a)

\* What every goroutine keeps.
LocalType ==
    /\ pc \in [Actor -> PCs] /\ doing \in [Actor -> Requests]
    /\ dry \in [Actor -> BOOLEAN] /\ was \in [Actor -> BOOLEAN]
    /\ maps \in [Actor -> SUBSET Source]
    /\ mine \in [Actor -> SUBSET Lib] /\ left \in [Actor -> SUBSET Lib]
    /\ todo \in [Actor -> SUBSET Job] /\ at \in [Actor -> Job] /\ out \in [Actor -> Outcome]
    /\ good \in [Actor -> SUBSET Lib]

\* What all share.
SharedType ==
    /\ dbDry \in BOOLEAN /\ dbLibs \subseteq Lib /\ dbMaps \subseteq Source
    /\ cfgDry \in BOOLEAN /\ guardDry \in BOOLEAN /\ uiDry \in BOOLEAN
    /\ roots \subseteq Source /\ guardLibs \subseteq Lib /\ libs \subseteq Lib
    /\ cache \in [Source \X Lib -> Outcome \ {"dryrun"}] /\ writable \subseteq Lib
    /\ files \subseteq (Source \cup Lib) \X {"src", "dst", "write"}
    /\ plan \in Plans /\ ran \in {"none", "refused", "asplanned", "copied"}

CountType == clash \subseteq Kinds /\ budget \in [Events -> Nat]

LEMMA TypeParts == /\ TypeOK <=> LocalType /\ SharedType /\ CountType
                   /\ TypeOK' <=> LocalType' /\ SharedType' /\ CountType'
BY DEF TypeOK, LocalType, SharedType, CountType

LEMMA EndsType ==
    ASSUME TypeOK, NEW a \in Actor, Ends(a) PROVE LocalType'
BY TopologyAssumption DEF Ends, TypeOK, LocalType, PCs, Requests, Job, Outcome

\* A goroutine moves to a point of the code.
LEMMA GotoType ==
    ASSUME TypeOK, NEW a \in Actor, NEW from, NEW to \in PCs, Goto(a, from, to)
    PROVE  pc' \in [Actor -> PCs]
BY DEF Goto, TypeOK

LEMMA CountsType ==
    ASSUME TypeOK, UNCHANGED clash \/ (\E k \in Kinds, c \in BOOLEAN : Note(k, c))
                     \/ clash' \subseteq clash \cup Kinds,
           UNCHANGED budget \/ \E what \in Events : Spends(what)
    PROVE  CountType'
<1>1. budget \in [Events -> Nat] /\ clash \subseteq Kinds
  BY DEF TypeOK
<1>2. ASSUME NEW what \in Events, Spends(what) PROVE budget' \in [Events -> Nat]
  BY <1>1, <1>2 DEF Spends
<1>3. clash' \subseteq Kinds
  BY <1>1 DEF Note
<1> QED
  BY <1>1, <1>2, <1>3 DEF CountType

LEMMA InitType == Init => TypeOK
<1> SUFFICES ASSUME Init PROVE TypeOK
  OBVIOUS
<1>1. LocalType
  BY TopologyAssumption
  DEF Init, LocalType, Starting, AtStart, Unset, Nothing, NoPair, NoOutcome, PCs, Requests, Job,
      Outcome
<1>2. SharedType
  BY DEF Init, SharedType, NotProbed, Outcome, Plans
<1>3. CountType
  BY BoundsAssumption DEF Init, CountType
<1> QED
  BY <1>1, <1>2, <1>3, TypeParts

LEMMA BeginType ==
    ASSUME TypeOK, NEW a \in Actor, NEW what \in Requests \cap Events, NEW to \in PCs,
           Begin(a, what, to)
    PROVE  /\ pc' \in [Actor -> PCs] /\ doing' \in [Actor -> Requests]
           /\ budget' \in [Events -> Nat]
BY GotoType DEF Begin, TypeOK, Spends, Requests

LEMMA RequestType ==
    ASSUME TypeOK, NEW a \in Actor, Request(a) PROVE TypeOK'
<1> USE DEF storeVars, dryVars, rootVars, probeVars, planVars, listVars, jobVars, localVars,
            countVars
<1>1. ASSUME NEW v \in BOOLEAN, PutSettings(a, v) PROVE TypeOK'
  BY <1>1, BeginType DEF PutSettings, TypeOK, PCs, Requests, Events, Kinds
<1>2. ASSUME NEW what \in {"library", "client"}, Reloads(a, what),
             dbLibs' \subseteq Lib, dbMaps' \subseteq Source
      PROVE  TypeOK'
  BY <1>2, BeginType DEF Reloads, TypeOK, PCs, Requests, Events, Kinds
<1>3. ASSUME NEW l \in Lib, SaveLibrary(a, l) \/ DeleteLibrary(a, l) PROVE TypeOK'
  BY <1>2, <1>3 DEF SaveLibrary, DeleteLibrary, TypeOK
<1>4. ASSUME NEW s \in Source, SaveClient(a, s) \/ DeleteClient(a, s) PROVE TypeOK'
  BY <1>2, <1>4 DEF SaveClient, DeleteClient, TypeOK
<1>5. ASSUME NEW s \in Source, Scan(a, s) PROVE TypeOK'
  BY <1>5, BeginType DEF Scan, Note, TypeOK, PCs, Requests, Events, Kinds
<1>6. ASSUME NEW s \in Source, Execute(a, s) PROVE TypeOK'
  BY <1>6, BeginType DEF Execute, Note, TypeOK, PCs, Requests, Events, Kinds, Outcome
<1> QED
  BY <1>1, <1>3, <1>4, <1>5, <1>6 DEF Request

LEMMA ConfigureType ==
    ASSUME TypeOK, NEW a \in Actor, Configure(a) \/ Reload(a) PROVE TypeOK'
<1> USE DEF storeVars, dryVars, rootVars, probeVars, planVars, listVars, jobVars, localVars,
            countVars
<1>1. CASE LoadConfig(a)
  BY <1>1, GotoType DEF LoadConfig, TypeOK, PCs
<1>2. CASE SetConfig(a)
  BY <1>2, GotoType DEF SetConfig, TypeOK, PCs
<1>3. CASE SetDryRun(a)
  BY <1>3, GotoType DEF SetDryRun, AfterSwitch, Note, TypeOK, PCs, Kinds
<1>4. CASE ShowConfig(a)
  <2>1. LocalType'
    BY <1>4, EndsType DEF ShowConfig
  <2> QED
    BY <1>4, <2>1 DEF ShowConfig, LocalType, TypeOK
<1>5. CASE ListClients(a)
  BY <1>5, GotoType DEF ListClients, TypeOK, PCs
<1>6. CASE ListLibraries(a)
  <2>1. roots' \subseteq Source
    BY <1>6 DEF ListLibraries, TypeOK
  <2> QED
    BY <1>6, <2>1, GotoType DEF ListLibraries, Note, TypeOK, PCs, Kinds
<1>7. CASE ResetLibraryRoots(a)
  BY <1>7, GotoType DEF ResetLibraryRoots, Note, TypeOK, PCs, Kinds
<1>8. ASSUME NEW l \in Lib, AddLibraryRoot(a, l) PROVE TypeOK'
  BY <1>8 DEF AddLibraryRoot, TypeOK
<1>9. CASE SetLibraries(a)
  <2>1. libs' \subseteq Lib
    BY <1>9 DEF SetLibraries, TypeOK
  <2> QED
    BY <1>9, <2>1, GotoType DEF SetLibraries, TypeOK, PCs
<1> QED
  BY <1>1, <1>2, <1>3, <1>4, <1>5, <1>6, <1>7, <1>8, <1>9 DEF Configure, Reload

LEMMA ProbeType ==
    ASSUME TypeOK, JobsInOrder, NEW a \in Actor, Probe(a) PROVE TypeOK'
<1> USE DEF storeVars, dryVars, rootVars, probeVars, planVars, listVars, jobVars, localVars,
            countVars
<1>r. /\ todo[a] \subseteq Job /\ at[a] \in Job /\ out[a] \in Outcome /\ good[a] \subseteq Lib
      /\ at[a][1] \in Source \cup Lib /\ at[a][2] \in Lib
      /\ files \subseteq (Source \cup Lib) \X {"src", "dst", "write"}
  BY DEF TypeOK, Job
<1>f. \A f \in (Source \cup Lib) \X {"src", "dst", "write"} :
        /\ files \cup {f} \subseteq (Source \cup Lib) \X {"src", "dst", "write"}
        /\ Removed(f) \subseteq (Source \cup Lib) \X {"src", "dst", "write"}
  BY <1>r DEF Removed
<1>1. CASE ProbeAllPairs(a)
  <2>1. (roots \X libs) \cup {<<l, l>> : l \in libs} \subseteq Job
    BY DEF TypeOK, Job
  <2>2. todo' \in [Actor -> SUBSET Job]
    BY <1>1, <2>1 DEF ProbeAllPairs, TypeOK
  <2> QED
    BY <1>1, <2>2, GotoType DEF ProbeAllPairs, Note, TypeOK, PCs, Probing, Kinds
<1>2. ASSUME NEW j \in Job, PickPair(a, j) PROVE TypeOK'
  <2>1. todo' \in [Actor -> SUBSET Job] /\ pc' \in [Actor -> PCs]
    BY <1>2 DEF PickPair, TypeOK, PCs, Probing
  <2> QED
    BY <1>2, <2>1 DEF PickPair, TypeOK
<1>3. CASE PairsDone(a)
  <2>1. LocalType'
    <3>1. CASE doing[a] = "settings"
      BY <1>3, <3>1 DEF PairsDone, LocalType, TypeOK, PCs
    <3>2. CASE doing[a] # "settings"
      BY <1>3, <3>2, EndsType DEF PairsDone
    <3> QED
      BY <3>1, <3>2
  <2> QED
    BY <1>3, <1>r, <2>1 DEF PairsDone, LocalType, TypeOK
<1>4. CASE CreateWrite(a)
  <2>1. /\ files' \subseteq (Source \cup Lib) \X {"src", "dst", "write"}
        /\ good' \in [Actor -> SUBSET Lib] /\ pc' \in [Actor -> PCs]
    BY <1>4, <1>r, <1>f DEF CreateWrite, Goto, TypeOK, PCs, Probing
  <2> QED
    BY <1>4, <2>1 DEF CreateWrite, Note, TypeOK, Kinds
<1>5. CASE CreateSrc(a)
  <2>1. /\ files' \subseteq (Source \cup Lib) \X {"src", "dst", "write"}
        /\ pc' \in [Actor -> PCs] /\ out' \in [Actor -> Outcome]
    BY <1>5, <1>r, <1>f DEF CreateSrc, Return, Unwritten, TypeOK, PCs, Probing, Outcome
  <2> QED
    BY <1>5, <2>1 DEF CreateSrc, Note, TypeOK, Kinds
<1>6. CASE RemoveWrite(a) \/ RemoveOld(a) \/ RemoveDst(a) \/ RemoveSrc(a)
  <2>1. files' \subseteq (Source \cup Lib) \X {"src", "dst", "write"}
    BY <1>6, <1>r, <1>f DEF RemoveWrite, RemoveOld, RemoveDst, RemoveSrc
  <2> QED
    BY <1>6, <2>1, GotoType
    DEF RemoveWrite, RemoveOld, RemoveDst, RemoveSrc, TypeOK, PCs, Probing
<1>7. CASE LinkProbe(a)
  <2>1. /\ files' \subseteq (Source \cup Lib) \X {"src", "dst", "write"}
        /\ pc' \in [Actor -> PCs] /\ out' \in [Actor -> Outcome]
    BY <1>7, <1>r, <1>f DEF LinkProbe, Goto, TypeOK, PCs, Probing, Outcome
  <2> QED
    BY <1>7, <2>1 DEF LinkProbe, TypeOK
<1>8. CASE CachePut(a)
  <2>1. cache' \in [Source \X Lib -> Outcome \ {"dryrun"}] /\ pc' \in [Actor -> PCs]
    BY <1>8, <1>r DEF CachePut, Goto, Return, JobsInOrder, JobInOrder, TypeOK, PCs, Probing
  <2> QED
    BY <1>8, <2>1 DEF CachePut, TypeOK
<1> QED
  BY <1>1, <1>2, <1>3, <1>4, <1>5, <1>6, <1>7, <1>8 DEF Probe

LEMMA WorkType ==
    ASSUME TypeOK, JobsInOrder, NEW a \in Actor, Work(a) \/ ReadFails(a) PROVE TypeOK'
<1> USE DEF storeVars, dryVars, rootVars, probeVars, planVars, listVars, jobVars, localVars,
            countVars
<1>1. CASE SkipItem(a)
  BY <1>1, EndsType DEF SkipItem, LocalType, TypeOK
<1>2. ASSUME NEW r \in Source, EnsureProbed(a, r) PROVE TypeOK'
  <2>1. /\ at' \in [Actor -> Job] /\ out' \in [Actor -> Outcome] /\ pc' \in [Actor -> PCs]
    BY <1>2, TopologyAssumption DEF EnsureProbed, TypeOK, Job, PCs, Probing
  <2> QED
    BY <1>2, <2>1 DEF EnsureProbed, Note, TypeOK, Kinds
<1>3. CASE KeepPlan(a)
  <2>1. at[a][1] \in Source
    BY <1>3 DEF KeepPlan, JobsInOrder, JobInOrder
  <2>2. plan' \in Plans
    BY <1>3, <2>1 DEF KeepPlan, Plans
  <2> QED
    BY <1>3, <2>2, EndsType DEF KeepPlan, LocalType, TypeOK
<1>4. CASE Place(a)
  <2>1. plan' \in Plans
    BY <1>4 DEF Place, Plans, TypeOK
  <2> QED
    BY <1>4, <2>1, EndsType DEF Place, LocalType, TypeOK
<1>5. CASE ReadFails(a)
  <2>1. CountType'
    BY <1>5, CountsType DEF ReadFails, Events, Kinds
  <2> QED
    BY <1>5, <2>1, EndsType DEF ReadFails, LocalType, CountType, TypeOK
<1> QED
  BY <1>1, <1>2, <1>3, <1>4, <1>5 DEF Work

LEMMA OtherType ==
    ASSUME TypeOK, Crash \/ (\E v \in BOOLEAN : PutSettingsFails(v)) \/ UNCHANGED vars
    PROVE  TypeOK'
<1> USE DEF storeVars, dryVars, rootVars, probeVars, planVars, listVars, jobVars, localVars,
            countVars
<1>1. CASE Crash
  <2>1. LocalType'
    BY <1>1, TopologyAssumption
    DEF Crash, LocalType, Starting, AtStart, Unset, Nothing, NoPair, NoOutcome, PCs, Requests,
        Job, Outcome
  <2>2. CountType'
    BY <1>1, CountsType DEF Crash, Events, Kinds
  <2>3. SharedType'
    BY <1>1 DEF Crash, SharedType, NotProbed, Outcome, TypeOK
  <2> QED
    BY <2>1, <2>2, <2>3, TypeParts
<1>2. ASSUME NEW v \in BOOLEAN, PutSettingsFails(v) PROVE TypeOK'
  <2>1. CountType'
    BY <1>2, CountsType DEF PutSettingsFails, Events, Kinds
  <2> QED
    BY <1>2, <2>1 DEF PutSettingsFails, CountType, TypeOK
<1>3. CASE UNCHANGED vars
  BY <1>3 DEF vars, TypeOK
<1> QED
  BY <1>1, <1>2, <1>3

LEMMA NextType == TypeOK /\ JobsInOrder /\ [Next]_vars => TypeOK'
BY RequestType, ConfigureType, ProbeType, WorkType, OtherType DEF Next, Step

\* A step of one goroutine leaves the others where they are.
Stays(b) ==
    /\ pc'[b] = pc[b] /\ doing'[b] = doing[b] /\ dry'[b] = dry[b] /\ was'[b] = was[b]
    /\ maps'[b] = maps[b] /\ mine'[b] = mine[b] /\ left'[b] = left[b]
    /\ todo'[b] = todo[b] /\ at'[b] = at[b] /\ out'[b] = out[b] /\ good'[b] = good[b]

LEMMA OthersStay ==
    ASSUME TypeOK, NEW a \in Actor, Request(a) \/ Step(a) \/ ReadFails(a),
           NEW b \in Actor \ {a}
    PROVE  Stays(b)
<1> USE DEF listVars, jobVars, localVars, TypeOK, Stays, Goto
<1>1. CASE Request(a)
  BY <1>1
  DEF Request, PutSettings, Reloads, SaveLibrary, DeleteLibrary, SaveClient, DeleteClient, Scan,
      Execute, Begin
<1>2. CASE Configure(a)
  BY <1>2 DEF Configure, LoadConfig, SetConfig, SetDryRun, ShowConfig, Ends
<1>3. CASE Reload(a)
  BY <1>3
  DEF Reload, ListClients, ListLibraries, ResetLibraryRoots, AddLibraryRoot, SetLibraries
<1>4. CASE Probe(a)
  <2>1. CASE ProbeAllPairs(a) \/ PairsDone(a)
    BY <2>1 DEF ProbeAllPairs, PairsDone, Ends
  <2>4. ASSUME NEW j \in Job, PickPair(a, j) PROVE Stays(b)
    BY <2>4 DEF PickPair
  <2>2. CASE CreateWrite(a) \/ CreateSrc(a) \/ LinkProbe(a)
    BY <2>2 DEF CreateWrite, CreateSrc, LinkProbe
  <2>3. CASE RemoveWrite(a) \/ RemoveOld(a) \/ RemoveDst(a) \/ RemoveSrc(a) \/ CachePut(a)
    BY <2>3 DEF RemoveWrite, RemoveOld, RemoveDst, RemoveSrc, CachePut
  <2> QED
    BY <1>4, <2>1, <2>2, <2>3, <2>4 DEF Probe
<1>5. CASE Work(a) \/ ReadFails(a)
  BY <1>5 DEF Work, SkipItem, EnsureProbed, KeepPlan, Place, ReadFails, Ends
<1> QED
  BY <1>1, <1>2, <1>3, <1>4, <1>5 DEF Step

\* A handler that ends has nothing left to do.
LEMMA EndsJob == ASSUME TypeOK, NEW a \in Actor, Ends(a) PROVE JobInOrder(a)'
BY DEF Ends, TypeOK, JobInOrder, PairPoints, Probing

LEMMA JobStep ==
    ASSUME TypeOK, JobsInOrder, NEW a \in Actor, Request(a) \/ Step(a) \/ ReadFails(a)
    PROVE  JobInOrder(a)'
<1> USE DEF listVars, jobVars, localVars, TypeOK, Goto, JobInOrder, PairPoints, Probing
<1>r. JobInOrder(a)
  BY DEF JobsInOrder
<1>1. CASE Request(a)
  <2>1. pc'[a] \in {"load", "clients", "save", "place"} /\ UNCHANGED todo
    BY <1>1
    DEF Request, PutSettings, Reloads, SaveLibrary, DeleteLibrary, SaveClient, DeleteClient, Scan,
        Execute, Begin
  <2> QED
    BY <1>r, <2>1
<1>2. CASE Configure(a)
  BY <1>r, <1>2, EndsJob DEF Configure, LoadConfig, SetConfig, SetDryRun, ShowConfig, AfterSwitch
<1>3. CASE Reload(a)
  BY <1>r, <1>3
  DEF Reload, ListClients, ListLibraries, ResetLibraryRoots, AddLibraryRoot, SetLibraries
<1>4. CASE ProbeAllPairs(a)
  <2>1. roots \X libs \subseteq Source \X Lib /\ {<<l, l>> : l \in libs} \subseteq Selves
    BY DEF Selves
  <2> QED
    BY <1>4, <2>1 DEF ProbeAllPairs
<1>5. ASSUME NEW j \in Job, PickPair(a, j) PROVE JobInOrder(a)'
  BY <1>r, <1>5, SourceAssumption DEF PickPair, Selves, Job
<1>6. CASE PairsDone(a)
  BY <1>r, <1>6, EndsJob DEF PairsDone
<1>7. CASE CreateWrite(a) \/ RemoveWrite(a)
  BY <1>r, <1>7 DEF CreateWrite, RemoveWrite
<1>8. CASE CreateSrc(a)
  BY <1>r, <1>8 DEF CreateSrc, Return, Caches, Unwritten
<1>9. CASE LinkProbe(a)
  BY <1>r, <1>9 DEF LinkProbe
<1>10. CASE RemoveOld(a) \/ RemoveDst(a) \/ RemoveSrc(a) \/ CachePut(a)
  BY <1>r, <1>10 DEF RemoveOld, RemoveDst, RemoveSrc, CachePut, Return
<1>11. CASE \E r \in Source : EnsureProbed(a, r)
  BY <1>r, <1>11, TopologyAssumption DEF EnsureProbed
<1>12. CASE SkipItem(a) \/ KeepPlan(a) \/ Place(a) \/ ReadFails(a)
  BY <1>12, EndsJob DEF SkipItem, KeepPlan, Place, ReadFails
<1> QED
  BY <1>1, <1>2, <1>3, <1>4, <1>5, <1>6, <1>7, <1>8, <1>9, <1>10, <1>11, <1>12
  DEF Step, Probe, Work

LEMMA NextJobs == TypeOK /\ JobsInOrder /\ [Next]_vars => JobsInOrder'
<1> SUFFICES ASSUME TypeOK, JobsInOrder, [Next]_vars, NEW b \in Actor PROVE JobInOrder(b)'
  BY DEF JobsInOrder
<1>1. ASSUME NEW a \in Actor, Request(a) \/ Step(a) \/ ReadFails(a) PROVE JobInOrder(b)'
  <2>1. b # a => Stays(b)
    BY <1>1, OthersStay
  <2> QED
    BY <1>1, <2>1, JobStep DEF Stays, JobsInOrder, JobInOrder
<1>2. CASE Crash
  BY <1>2
  DEF Crash, Starting, NoPair, NoOutcome, Nothing, JobInOrder, PairPoints, Probing
<1>3. CASE UNCHANGED vars \/ \E v \in BOOLEAN : PutSettingsFails(v)
  BY <1>3
  DEF vars, PutSettingsFails, localVars, listVars, jobVars, JobsInOrder, JobInOrder
<1> QED
  BY <1>1, <1>2, <1>3 DEF Next

LEMMA TypeInvariant == Spec => [](TypeOK /\ JobsInOrder)
<1>1. Init => TypeOK /\ JobsInOrder
  BY InitType
  DEF Init, Starting, NoPair, NoOutcome, Nothing, JobsInOrder, JobInOrder, PairPoints, Probing
<1>2. TypeOK /\ JobsInOrder /\ [Next]_vars => TypeOK' /\ JobsInOrder'
  BY NextType, NextJobs
<1> QED
  BY <1>1, <1>2, PTL DEF Spec

\* No interleaving of requests, probes, scans, failures of the store and restarts
\* leaves the copies of the settings, the cache or a goroutine in a state the
\* code does not know: no refusal in dry-run reaches the cache as an answer.
THEOREM TypeCorrect == Spec => []TypeOK
BY TypeInvariant, PTL

-----------------------------------------------------------------------------
(* Where the goroutines are *)

Loaders == {"boot", "library", "client"}

\* The points of a request.
Fits(a, p, what) ==
    /\ p \in PCs /\ what \in Requests
    /\ what \in Loaders
         => p \in {"idle", "clients", "libraries", "reset", "add", "pairs"} \cup Probing
    /\ what = "settings" => p \in {"load", "setcfg", "setguard", "show", "pairs"} \cup Probing
    /\ what = "scan" => p \in {"save", "keep"} \cup PairPoints
    /\ what = "execute" => p = "place"
    /\ p = "idle" => what = "boot"
    /\ p # "idle" => (what = "boot" <=> a = Main)

InPlace(a) == Fits(a, pc[a], doing[a])

\* Every goroutine is at a point of its request, and requests come after the start.
Shape ==
    /\ \A a \in Actor : InPlace(a)
    /\ \A a \in Actor : pc[Main] # "idle" /\ a # Main => pc[a] = "idle"

\* What a probe, a scan or an execution leaves alone.
LEMMA ProbeFrame ==
    ASSUME TypeOK, NEW a \in Actor, Probe(a) \/ Work(a)
    PROVE  /\ UNCHANGED <<storeVars, dryVars, rootVars>> /\ clash \subseteq clash'
           /\ pc[a] \in {"pairs", "save", "keep", "place"} \cup Probing
           /\ pc'[a] \in {"idle", "show", "keep"} \cup Probing
           /\ pc'[a] = "idle" => doing'[a] = "boot"
           /\ pc'[a] # "idle" =>
                /\ doing'[a] = doing[a] /\ dry'[a] = dry[a] /\ was'[a] = was[a]
                /\ maps'[a] = maps[a] /\ mine'[a] = mine[a] /\ left'[a] = left[a]
           /\ pc'[a] = "show" => doing[a] = "settings"
           /\ doing[a] = "scan" /\ pc[a] \in {"save", "keep"} \cup PairPoints
                => pc'[a] \in {"idle", "keep"} \cup PairPoints
           /\ doing[a] # "scan" /\ pc[a] \in Probing \cup {"pairs"}
                => pc'[a] \in {"idle", "show"} \cup Probing
           /\ pc[a] = "place" => pc'[a] = "idle"
<1> USE DEF listVars, jobVars, localVars, countVars, TypeOK, Goto, Probing, PairPoints, Note, Return
<1>1. CASE ProbeAllPairs(a) \/ PairsDone(a)
  BY <1>1 DEF ProbeAllPairs, PairsDone, Ends
<1>2. ASSUME NEW j \in Job, PickPair(a, j)
      PROVE  /\ UNCHANGED <<storeVars, dryVars, rootVars, clash, doing, listVars>>
             /\ pc[a] = "pick" /\ pc'[a] \in {"writeable", "create"}
  BY <1>2 DEF PickPair
<1>3. CASE CreateWrite(a) \/ RemoveWrite(a) \/ CreateSrc(a) \/ LinkProbe(a)
  BY <1>3 DEF CreateWrite, RemoveWrite, CreateSrc, LinkProbe
<1>4. CASE RemoveOld(a) \/ RemoveDst(a) \/ RemoveSrc(a) \/ CachePut(a)
  BY <1>4 DEF RemoveOld, RemoveDst, RemoveSrc, CachePut
<1>5. CASE \E r \in Source : EnsureProbed(a, r)
  BY <1>5 DEF EnsureProbed
<1>6. CASE SkipItem(a) \/ KeepPlan(a) \/ Place(a)
  BY <1>6 DEF SkipItem, KeepPlan, Place, Ends
<1>7. CASE \E j \in Job : PickPair(a, j)
  BY <1>2, <1>7
<1> QED
  BY <1>1, <1>3, <1>4, <1>5, <1>6, <1>7 DEF Probe, Work

\* A goroutine at work, at a point only its request has.
LEMMA EndsShape == ASSUME TypeOK, NEW a \in Actor, Ends(a) PROVE InPlace(a)'
BY DEF Ends, TypeOK, InPlace, Fits, Loaders, PCs, Requests, Probing

LEMMA ShapeStep ==
    ASSUME TypeOK, TypeOK', Shape, NEW a \in Actor, Step(a) \/ ReadFails(a)
    PROVE  InPlace(a)' /\ pc[a] # "idle"
<1>r. /\ Fits(a, pc[a], doing[a])
      /\ pc \in [Actor -> PCs] /\ doing \in [Actor -> Requests]
      /\ pc' \in [Actor -> PCs] /\ doing' \in [Actor -> Requests]
  BY DEF Shape, InPlace, TypeOK
<1>m. ASSUME NEW p \in PCs, pc'[a] = p, doing'[a] = doing[a], pc[a] # "idle", p # "idle",
             \/ pc[a] \in {"load", "setcfg"} /\ p \in {"setcfg", "setguard"}
             \/ pc[a] = "setguard" /\ p \in {"show", "pairs"}
             \/ /\ pc[a] \in {"clients", "libraries", "reset", "add"}
                /\ p \in {"libraries", "reset", "add", "pairs"}
             \/ /\ doing[a] # "scan" /\ pc[a] \in Probing \cup {"pairs"}
                /\ p \in {"show"} \cup Probing /\ (p = "show" => doing[a] = "settings")
             \/ /\ doing[a] = "scan" /\ pc[a] \in {"save", "keep"} \cup PairPoints
                /\ p \in {"keep"} \cup PairPoints
      PROVE  InPlace(a)' /\ pc[a] # "idle"
  <2>1. CASE doing[a] \in Loaders
    BY <1>r, <1>m, <2>1 DEF InPlace, Fits, Loaders, Probing, PairPoints
  <2>2. CASE doing[a] = "settings"
    BY <1>r, <1>m, <2>2 DEF InPlace, Fits, Loaders, Probing, PairPoints
  <2>3. CASE doing[a] = "scan"
    BY <1>r, <1>m, <2>3 DEF InPlace, Fits, Loaders, Probing, PairPoints
  <2>4. CASE doing[a] = "execute"
    BY <1>r, <1>m, <2>4 DEF InPlace, Fits, Loaders, Probing, PairPoints
  <2> QED
    BY <1>r, <2>1, <2>2, <2>3, <2>4 DEF Requests, Loaders
<1>1. CASE LoadConfig(a) \/ SetConfig(a) \/ SetDryRun(a)
  <2>1. /\ doing'[a] = doing[a]
        /\ \/ pc[a] \in {"load", "setcfg"} /\ pc'[a] \in {"setcfg", "setguard"}
           \/ pc[a] = "setguard" /\ pc'[a] \in {"show", "pairs"}
    BY <1>r, <1>1 DEF LoadConfig, SetConfig, SetDryRun, AfterSwitch, Goto
  <2> QED
    BY <1>r, <1>m, <2>1
<1>2. CASE ShowConfig(a) \/ ReadFails(a)
  <2>1. Ends(a) /\ pc[a] # "idle"
    BY <1>2 DEF ShowConfig, ReadFails
  <2> QED
    BY <2>1, EndsShape
<1>3. CASE Reload(a)
  <2>1. /\ pc[a] \in {"clients", "libraries", "reset", "add"} /\ doing'[a] = doing[a]
        /\ pc'[a] \in {"libraries", "reset", "add", "pairs"}
    BY <1>r, <1>3
    DEF Reload, ListClients, ListLibraries, ResetLibraryRoots, AddLibraryRoot, SetLibraries, Goto
  <2> QED
    BY <1>r, <1>m, <2>1
<1>4. CASE Probe(a) \/ Work(a)
  <2>1. CASE pc'[a] = "idle"
    BY <1>r, <1>4, <2>1, ProbeFrame DEF InPlace, Fits, Requests, Loaders, PCs, Probing
  <2>2. CASE pc'[a] # "idle" /\ doing[a] = "scan"
    BY <1>r, <1>m, <1>4, <2>2, ProbeFrame DEF Fits, PairPoints, Probing
  <2>3. CASE pc'[a] # "idle" /\ doing[a] # "scan"
    <3>1. /\ pc[a] \in {"pairs", "save", "keep", "place"} \cup Probing
          /\ pc'[a] \in {"show", "keep"} \cup Probing /\ doing'[a] = doing[a]
          /\ pc'[a] = "show" => doing[a] = "settings"
      BY <1>4, <2>3, ProbeFrame
    <3>2. pc[a] \in {"pairs"} \cup Probing \/ pc[a] = "place"
      BY <1>r, <2>3, <3>1 DEF Fits, Loaders, Probing, Requests
    <3>3. pc[a] # "place"
      BY <1>4, <2>3, ProbeFrame
    <3>4. pc'[a] \in {"show"} \cup Probing
      BY <1>4, <2>3, <3>2, <3>3, ProbeFrame
    <3> QED
      BY <1>r, <1>m, <2>3, <3>1, <3>2, <3>3, <3>4 DEF Probing
  <2> QED
    BY <2>1, <2>2, <2>3
<1> QED
  BY <1>1, <1>2, <1>3, <1>4 DEF Step, Configure

\* What a request is when it begins.
LEMMA Requested ==
    ASSUME TypeOK, NEW a \in Actor, Request(a)
    PROVE  /\ a # Main /\ pc[Main] = "idle" /\ pc[a] = "idle" /\ clash \subseteq clash'
           /\ \/ doing'[a] = "settings" /\ pc'[a] = "load"
              \/ doing'[a] \in {"library", "client"} /\ pc'[a] = "clients"
              \/ doing'[a] = "scan" /\ pc'[a] = "save"
              \/ doing'[a] = "execute" /\ pc'[a] = "place"
BY DEF TypeOK, Request, PutSettings, Reloads, SaveLibrary, DeleteLibrary, SaveClient,
       DeleteClient, Scan, Execute, Begin, Goto, Note

LEMMA NextShape == TypeOK /\ TypeOK' /\ Shape /\ [Next]_vars => Shape'
<1> SUFFICES ASSUME TypeOK, TypeOK', Shape, [Next]_vars PROVE Shape'
  OBVIOUS
<1>1. ASSUME NEW a \in Actor, Step(a) \/ ReadFails(a) PROVE Shape'
  <2>1. \A b \in Actor \ {a} : Stays(b)
    BY <1>1, OthersStay
  <2> QED
    BY <1>1, <2>1, ShapeStep, ActorAssumption DEF Stays, Shape, InPlace
<1>2. ASSUME NEW a \in Actor, Request(a) PROVE Shape'
  <2>1. \A b \in Actor \ {a} : Stays(b)
    BY <1>2, OthersStay
  <2>2. InPlace(a)'
    BY <1>2, Requested DEF InPlace, Fits, Loaders, PCs, Requests, Probing
  <2> QED
    BY <1>2, <2>1, <2>2, Requested, ActorAssumption DEF Stays, Shape, InPlace
<1>3. CASE Crash
  BY <1>3 DEF Crash, Starting, AtStart, Shape, InPlace, Fits, Loaders, PCs, Requests, Probing
<1>4. CASE UNCHANGED vars \/ \E v \in BOOLEAN : PutSettingsFails(v)
  BY <1>4 DEF vars, PutSettingsFails, Shape, InPlace
<1> QED
  BY <1>1, <1>2, <1>3, <1>4 DEF Next

Base == TypeOK /\ JobsInOrder /\ Shape

LEMMA NextBase == Base /\ [Next]_vars => Base'
BY NextType, NextJobs, NextShape DEF Base

LEMMA BaseInit == Init => Base
<1>1. Init => TypeOK /\ JobsInOrder
  BY InitType
  DEF Init, Starting, NoPair, NoOutcome, Nothing, JobsInOrder, JobInOrder, PairPoints, Probing
<1>2. Init => Shape
  BY DEF Init, Starting, AtStart, Shape, InPlace, Fits, Loaders, PCs, Requests, Probing
<1> QED
  BY <1>1, <1>2 DEF Base

LEMMA BaseInvariant == Spec => []Base
BY BaseInit, NextBase, PTL DEF Spec

\* What ApplyConfig leaves alone.
LEMMA ConfigureFrame ==
    ASSUME TypeOK, NEW a \in Actor, Configure(a)
    PROVE  /\ UNCHANGED <<storeVars, rootVars>> /\ clash \subseteq clash'
           /\ pc[a] \in {"load", "setcfg", "setguard", "show"}
           /\ pc'[a] \in {"setcfg", "setguard", "pairs", "show", "idle"}
           /\ pc'[a] = "idle" => doing'[a] = "boot"
           /\ pc'[a] # "idle" => doing'[a] = doing[a]
<1> USE DEF listVars, jobVars, localVars, countVars, TypeOK, Goto, Note
<1> QED
  BY DEF Configure, LoadConfig, SetConfig, SetDryRun, AfterSwitch, ShowConfig, Ends

\* What registering the roots leaves alone.
LEMMA ReloadFrame ==
    ASSUME TypeOK, NEW a \in Actor, Reload(a)
    PROVE  /\ UNCHANGED <<storeVars, dryVars, doing>> /\ clash \subseteq clash'
           /\ roots \subseteq roots'
           /\ dry' = dry /\ was' = was
           /\ pc[a] \in {"clients", "libraries", "reset", "add"}
           /\ pc'[a] \in {"libraries", "reset", "add", "pairs"}
<1> USE DEF listVars, jobVars, localVars, countVars, rootVars, TypeOK, Goto, Note
<1> QED
  BY DEF Reload, ListClients, ListLibraries, ResetLibraryRoots, AddLibraryRoot, SetLibraries

\* What a request changes at once.
LEMMA RequestFrame ==
    ASSUME TypeOK, NEW a \in Actor, Request(a)
    PROVE  /\ UNCHANGED <<dryVars, guardLibs, libs, listVars>> /\ roots \subseteq roots'
           /\ UNCHANGED <<dbLibs, dbMaps>> \/ Reloads(a, "library") \/ Reloads(a, "client")
           /\ UNCHANGED dbDry \/ \E v \in BOOLEAN : PutSettings(a, v)
<1> USE DEF dryVars, rootVars, localVars, storeVars
<1> QED
  BY DEF Request, PutSettings, Reloads, SaveLibrary, DeleteLibrary, SaveClient, DeleteClient, Scan,
         Execute

\* The steps with no goroutine of their own.
LEMMA OtherFrame ==
    ASSUME TypeOK, (\E v \in BOOLEAN : PutSettingsFails(v)) \/ UNCHANGED vars
    PROVE  /\ UNCHANGED <<dryVars, rootVars, probeVars, planVars, pc, doing, localVars>>
           /\ clash \subseteq clash'
           /\ UNCHANGED storeVars \/ "fail" \in clash'
<1> USE DEF dryVars, rootVars, localVars, listVars, jobVars, storeVars, probeVars, planVars,
            countVars
<1> QED
  BY DEF PutSettingsFails, Note, vars

LEMMA FailsFrame ==
    ASSUME TypeOK, NEW a \in Actor, ReadFails(a)
    PROVE  /\ UNCHANGED <<storeVars, dryVars, rootVars, probeVars, planVars>>
           /\ clash' = clash \cup {"fail"} /\ Ends(a)
           /\ pc[a] \in {"load", "clients", "libraries"}
           /\ pc'[a] = "idle" /\ doing'[a] = "boot"
BY DEF ReadFails, Note, Ends, TypeOK

-----------------------------------------------------------------------------
(* Download roots *)

\* A mapping not yet protected is one a reload has read, or is still to read.
SourcesInv ==
    "fail" \notin clash =>
        \A s \in dbMaps : s \in roots \/ \E a \in Actor :
            pc[a] = "clients" \/ (pc[a] = "libraries" /\ s \in maps[a])

LEMMA NextSources == Base /\ SourcesInv /\ [Next]_vars => SourcesInv'
<1> SUFFICES ASSUME Base, SourcesInv, [Next]_vars, "fail" \notin clash', NEW s \in dbMaps'
             PROVE  (s \in roots \/ \E a \in Actor :
                        pc[a] = "clients" \/ (pc[a] = "libraries" /\ s \in maps[a]))'
  BY DEF SourcesInv
<1> USE DEF Base, storeVars, rootVars, listVars, localVars
<1>1. ASSUME NEW a \in Actor, Request(a)
      PROVE  (s \in roots \/ \E b \in Actor :
                 pc[b] = "clients" \/ (pc[b] = "libraries" /\ s \in maps[b]))'
  <2>1. CASE pc'[a] = "clients"
    BY <2>1
  <2>2. CASE pc'[a] # "clients"
    <3>1. dbMaps' = dbMaps /\ maps' = maps /\ roots \subseteq roots' /\ "fail" \notin clash
      BY <1>1, <2>2, RequestFrame, Requested DEF Reloads, Begin, Goto, TypeOK
    <3>2. pc[a] = "idle" /\ \A b \in Actor \ {a} : pc'[b] = pc[b]
      BY <1>1, Requested, OthersStay DEF Stays
    <3> QED
      BY <3>1, <3>2 DEF SourcesInv
  <2> QED
    BY <2>1, <2>2
<1>2. ASSUME NEW a \in Actor, Configure(a) \/ Probe(a) \/ Work(a)
      PROVE  (s \in roots \/ \E b \in Actor :
                 pc[b] = "clients" \/ (pc[b] = "libraries" /\ s \in maps[b]))'
  <2>1. UNCHANGED <<dbMaps, roots>> /\ clash \subseteq clash'
    BY <1>2, ConfigureFrame, ProbeFrame
  <2>2. pc[a] \notin {"clients", "libraries"}
    BY <1>2, ConfigureFrame, ProbeFrame DEF Probing
  <2>3. \A b \in Actor \ {a} : pc'[b] = pc[b] /\ maps'[b] = maps[b]
    BY <1>2, OthersStay DEF Step, Stays
  <2> QED
    BY <2>1, <2>2, <2>3 DEF SourcesInv
<1>3. ASSUME NEW a \in Actor, Reload(a)
      PROVE  (s \in roots \/ \E b \in Actor :
                 pc[b] = "clients" \/ (pc[b] = "libraries" /\ s \in maps[b]))'
  <2>1. dbMaps' = dbMaps /\ roots \subseteq roots' /\ "fail" \notin clash
    BY <1>3, ReloadFrame
  <2>2. \A b \in Actor \ {a} : pc'[b] = pc[b] /\ maps'[b] = maps[b]
    BY <1>3, OthersStay DEF Step, Stays
  <2>3. CASE ListClients(a)
    BY <2>1, <2>3 DEF ListClients, Goto, TypeOK
  <2>4. CASE ListLibraries(a)
    BY <2>1, <2>2, <2>4 DEF ListLibraries, Goto, SourcesInv
  <2>5. CASE pc[a] \notin {"clients", "libraries"}
    BY <2>1, <2>2, <2>5 DEF SourcesInv
  <2> QED
    BY <1>3, <2>3, <2>4, <2>5
    DEF Reload, ResetLibraryRoots, AddLibraryRoot, SetLibraries, Goto
<1>4. CASE Crash
  BY <1>4, ActorAssumption DEF Crash, Starting
<1>5. CASE UNCHANGED vars \/ \E v \in BOOLEAN : PutSettingsFails(v)
  BY <1>5, OtherFrame DEF SourcesInv
<1>6. ASSUME NEW a \in Actor, ReadFails(a) PROVE FALSE
  BY <1>6, FailsFrame
<1> QED
  BY <1>1, <1>2, <1>3, <1>4, <1>5, <1>6 DEF Next, Step

\* With no request under way, the guard protects the root of every mapping a client
\* has in the store (ListLibraries runs after the mappings are read), however many
\* reloads overlapped and whatever was saved or deleted meanwhile.
THEOREM SourcesStayArmed == Spec => []SourcesArmed
<1>1. Init => SourcesInv
  BY ActorAssumption DEF Init, Starting, SourcesInv
<1>2. SourcesInv => SourcesArmed
  BY DEF SourcesInv, SourcesArmed, Quiet
<1> QED
  BY <1>1, <1>2, BaseInvariant, NextSources, PTL DEF Spec

-----------------------------------------------------------------------------
(* Libraries *)

Reloading(a)   == pc[a] \in {"clients", "libraries", "reset", "add"}
Active(a, S)   == pc[a] # "idle" /\ doing[a] \in S

\* Two reloads that overlap leave a trace.
OneLoad ==
    "reload" \notin clash =>
        \A a, b \in Actor : Active(a, Loaders) /\ Active(b, Loaders) => a = b

\* A reload that is alone fills the guard with what the store holds.
LibInv ==
    clash \cap {"reload", "fail"} = {} =>
        /\ (\A a \in Actor : ~Reloading(a)) => guardLibs = dbLibs /\ libs = dbLibs
        /\ \A a \in Actor : pc[a] = "reset" => mine[a] = dbLibs /\ left[a] = dbLibs
        /\ \A a \in Actor : pc[a] = "add" => mine[a] = dbLibs /\ guardLibs \cup left[a] = dbLibs

\* What reloads is started by a load, and no step but its first makes a load of a goroutine.
LEMMA ReloadingIsActive ==
    ASSUME Base, NEW a \in Actor, Reloading(a) PROVE Active(a, Loaders)
BY DEF Base, Shape, InPlace, Fits, Reloading, Active, Requests, Loaders, Probing, PairPoints

LEMMA StepKeepsRequest ==
    ASSUME TypeOK, NEW a \in Actor, Step(a) \/ ReadFails(a), NEW b \in Actor, pc'[b] # "idle"
    PROVE  doing'[b] = doing[b]
<1>1. b # a => Stays(b)
  BY OthersStay
<1>2. doing'[a] = doing[a] \/ pc'[a] = "idle"
  BY ConfigureFrame, ReloadFrame, ProbeFrame, FailsFrame DEF Step
<1> QED
  BY <1>1, <1>2 DEF Stays

LEMMA StepKeepsActive ==
    ASSUME Base, NEW a \in Actor, Step(a) \/ ReadFails(a), NEW b \in Actor, NEW S, Active(b, S)'
    PROVE  Active(b, S)
<1>1. b # a => Stays(b)
  BY OthersStay DEF Base
<1>2. pc[a] # "idle"
  BY ConfigureFrame, ReloadFrame, ProbeFrame, FailsFrame DEF Base, Step, Probing
<1> QED
  BY <1>1, <1>2, StepKeepsRequest DEF Stays, Active, Base

\* A reload that begins beside another one leaves a trace.
LEMMA RequestClients ==
    ASSUME TypeOK, NEW a \in Actor, Request(a), pc'[a] = "clients", "reload" \notin clash'
    PROVE  Others(a, {"library", "client"}) = {}
<1>1. Reloads(a, "library") \/ Reloads(a, "client")
  BY DEF Request, PutSettings, SaveLibrary, DeleteLibrary, SaveClient, DeleteClient, Scan, Execute,
         Begin, Goto, TypeOK
<1> QED
  BY <1>1 DEF Reloads

LEMMA NextOneLoad == Base /\ OneLoad /\ [Next]_vars => OneLoad'
<1> SUFFICES ASSUME Base, OneLoad, [Next]_vars, "reload" \notin clash',
                    NEW b \in Actor, NEW c \in Actor,
                    Active(b, Loaders)', Active(c, Loaders)'
             PROVE  b = c
  BY DEF OneLoad
<1>1. ASSUME NEW a \in Actor, Request(a) PROVE b = c
  <2>1. \A d \in Actor \ {a} : Stays(d)
    BY <1>1, OthersStay DEF Base
  <2>2. "reload" \notin clash
    BY <1>1, Requested DEF Base
  <2>3. CASE pc'[a] # "clients"
    <3>1. b # a /\ c # a
      BY <1>1, <2>3, Requested DEF Base, Active, Loaders
    <3> QED
      BY <2>1, <2>2, <3>1 DEF OneLoad, Stays, Active
  <2>4. CASE pc'[a] = "clients"
    <3>1. Others(a, {"library", "client"}) = {}
      BY <1>1, <2>4, RequestClients DEF Base
    <3>2. ASSUME NEW d \in Actor \ {a}, Active(d, Loaders)' PROVE FALSE
      <4>1. pc[d] # "idle" /\ doing[d] \in Loaders
        BY <2>1, <3>2 DEF Stays, Active
      <4>2. doing[d] # "boot"
        BY <1>1, <4>1, Requested, ActorAssumption DEF Base, Shape, InPlace, Fits
      <4> QED
        BY <3>1, <4>1, <4>2 DEF Others, Loaders
    <3> QED
      BY <3>2
  <2> QED
    BY <2>3, <2>4
<1>2. ASSUME NEW a \in Actor, Step(a) \/ ReadFails(a) PROVE b = c
  <2>1. "reload" \notin clash
    BY <1>2, ConfigureFrame, ReloadFrame, ProbeFrame, FailsFrame DEF Base, Step
  <2> QED
    BY <1>2, <2>1, StepKeepsActive DEF OneLoad
<1>3. CASE Crash
  BY <1>3 DEF Crash, Starting, Active
<1>4. CASE UNCHANGED vars \/ \E v \in BOOLEAN : PutSettingsFails(v)
  BY <1>4, OtherFrame DEF OneLoad, Active, Base
<1> QED
  BY <1>1, <1>2, <1>3, <1>4 DEF Next

LEMMA NextLibraries == Base /\ OneLoad /\ LibInv /\ [Next]_vars => LibInv'
<1> SUFFICES ASSUME Base, OneLoad, LibInv, [Next]_vars, clash' \cap {"reload", "fail"} = {}
             PROVE  LibInv'
  BY DEF LibInv
<1> USE DEF Base, storeVars, rootVars, listVars, localVars
<1>1. ASSUME NEW a \in Actor, Request(a) PROVE LibInv'
  <2>1. /\ \A d \in Actor \ {a} : Stays(d)
        /\ pc[a] = "idle" /\ pc'[a] \in {"load", "clients", "save", "place"}
        /\ UNCHANGED <<guardLibs, libs, mine, left>> /\ clash \cap {"reload", "fail"} = {}
    BY <1>1, OthersStay, Requested, RequestFrame
  <2>2. CASE pc'[a] = "clients"
    <3>1. \A d \in Actor \ {a} : ~Reloading(d)'
      <4> SUFFICES ASSUME NEW d \in Actor \ {a}, Reloading(d)' PROVE FALSE
        OBVIOUS
      <4>1. Active(d, Loaders)
        BY <2>1, ReloadingIsActive DEF Stays, Reloading
      <4>2. Others(a, {"library", "client"}) = {}
        BY <1>1, <2>1, <2>2, RequestClients
      <4>3. doing[d] # "boot"
        BY <1>1, <4>1, Requested, ActorAssumption DEF Active, Shape, InPlace, Fits
      <4> QED
        BY <4>1, <4>2, <4>3 DEF Others, Loaders, Active
    <3> QED
      BY <2>2, <3>1 DEF LibInv, Reloading
  <2>3. CASE pc'[a] # "clients"
    <3>1. dbLibs' = dbLibs
      BY <1>1, <2>1, <2>3, RequestFrame DEF Reloads, Begin, Goto, TypeOK
    <3>2. \A d \in Actor : Reloading(d)' <=> Reloading(d)
      BY <2>1, <2>3 DEF Reloading, Stays
    <3>3. \A d \in Actor : pc'[d] \in {"reset", "add"} => pc[d] = pc'[d]
      BY <2>1 DEF Stays
    <3> QED
      BY <2>1, <3>1, <3>2, <3>3 DEF LibInv
  <2> QED
    BY <2>2, <2>3
<1>2. ASSUME NEW a \in Actor, Configure(a) \/ Probe(a) \/ Work(a) PROVE LibInv'
  <2>1. /\ UNCHANGED <<dbLibs, guardLibs, libs>> /\ clash \cap {"reload", "fail"} = {}
        /\ ~Reloading(a) /\ ~Reloading(a)'
    BY <1>2, ConfigureFrame, ProbeFrame DEF Probing, Reloading
  <2>2. \A b \in Actor \ {a} : Stays(b)
    BY <1>2, OthersStay DEF Step
  <2>3. \A b \in Actor : Reloading(b)' <=> Reloading(b)
    BY <2>1, <2>2 DEF Reloading, Stays
  <2>4. \A b \in Actor : pc'[b] \in {"reset", "add"} => Stays(b)
    BY <2>1, <2>2 DEF Reloading
  <2> QED
    BY <2>1, <2>3, <2>4 DEF LibInv, Stays
<1>3. ASSUME NEW a \in Actor, Reload(a) PROVE LibInv'
  <2>1. dbLibs' = dbLibs /\ clash \cap {"reload", "fail"} = {} /\ Reloading(a)
    BY <1>3, ReloadFrame DEF Reloading
  <2>2. \A b \in Actor \ {a} : Stays(b) /\ ~Reloading(b)
    BY <1>3, <2>1, OthersStay, ReloadingIsActive DEF Step, OneLoad
  <2>3. \A b \in Actor \ {a} : ~Reloading(b)'
    BY <2>2 DEF Stays, Reloading
  <2>4. CASE ListClients(a)
    BY <2>3, <2>4 DEF ListClients, Goto, TypeOK, LibInv, Reloading
  <2>5. CASE ListLibraries(a)
    BY <2>1, <2>3, <2>5 DEF ListLibraries, Goto, TypeOK, LibInv, Reloading
  <2>6. CASE ResetLibraryRoots(a)
    BY <2>1, <2>3, <2>6 DEF ResetLibraryRoots, Goto, TypeOK, LibInv, Reloading
  <2>7. ASSUME NEW l \in Lib, AddLibraryRoot(a, l) PROVE LibInv'
    <3>1. left'[a] = left[a] \ {l} /\ guardLibs' = guardLibs \cup {l} /\ l \in left[a]
      BY <2>7 DEF AddLibraryRoot, TypeOK
    <3>2. guardLibs' \cup left'[a] = guardLibs \cup left[a]
      BY <3>1
    <3> QED
      BY <2>1, <2>3, <2>7, <3>2 DEF AddLibraryRoot, LibInv, Reloading
  <2>8. CASE SetLibraries(a)
    BY <2>1, <2>3, <2>8 DEF SetLibraries, Goto, TypeOK, LibInv, Reloading
  <2> QED
    BY <1>3, <2>4, <2>5, <2>6, <2>7, <2>8 DEF Reload
<1>4. CASE Crash
  BY <1>4, ActorAssumption DEF Crash, Starting, LibInv, Reloading
<1>5. CASE UNCHANGED vars \/ \E v \in BOOLEAN : PutSettingsFails(v)
  BY <1>5, OtherFrame DEF LibInv, Reloading
<1>6. ASSUME NEW a \in Actor, ReadFails(a) PROVE FALSE
  BY <1>6, FailsFrame
<1> QED
  BY <1>1, <1>2, <1>3, <1>4, <1>5, <1>6 DEF Next, Step

\* With no request under way, the guard lets writes into exactly the libraries of the
\* store and the pipeline plans for exactly those, unless two reloads overlapped or one
\* failed: ResetLibraryRoots and the registrations after it leave no deleted library
\* open and no saved one closed, whatever else runs between them.
THEOREM LibrariesHold == Spec => []LibrariesAgree
<1>1. Init => OneLoad /\ LibInv
  BY ActorAssumption DEF Init, Starting, AtStart, OneLoad, LibInv, Reloading, Active
<1>2. LibInv => LibrariesAgree
  BY DEF LibInv, LibrariesAgree, Quiet, Reloading
<1> QED
  BY <1>1, <1>2, BaseInvariant, NextOneLoad, NextLibraries, PTL DEF Spec

-----------------------------------------------------------------------------
(* Dry-run *)

Setting == {"settings"}

\* Two settings requests that overlap leave a trace.
OneConfig ==
    "config" \notin clash =>
        \A a, b \in Actor : Active(a, Setting) /\ Active(b, Setting) => a = b

\* A settings request that is alone carries the store's value from copy to copy.
DryInv ==
    clash \cap {"config", "fail"} = {} =>
        /\ (\A a \in Actor : ~Active(a, Setting)) => uiDry = dbDry /\ cfgDry = dbDry
        /\ (\A a \in Actor : pc[a] # "setguard") => guardDry = cfgDry
        /\ \A a \in Actor : pc[a] \in {"setcfg", "setguard"} => dry[a] = dbDry
        /\ \A a \in Actor : Active(a, Setting) /\ pc[a] \notin {"load", "setcfg"}
             => dry[a] = dbDry /\ cfgDry = dbDry

LEMMA ConfigIsActive ==
    ASSUME Base, NEW a \in Actor, pc[a] \in {"load", "setcfg", "setguard", "show"}
    PROVE  Active(a, Setting)
BY DEF Base, Shape, InPlace, Fits, Active, Setting, Requests, Loaders, Probing, PairPoints

\* A settings request ends with the copy of the server, or with a failure.
LEMMA SettingGoesOn ==
    ASSUME Base, NEW a \in Actor, Probe(a) \/ Work(a), doing[a] = "settings"
    PROVE  pc'[a] # "idle"
<1>1. pc[a] \in {"load", "setcfg", "setguard", "show", "pairs"} \cup Probing
  BY DEF Base, Shape, InPlace, Fits
<1> USE DEF Base, TypeOK, Goto, Return, Probing
<1>2. CASE Work(a)
  BY <1>1, <1>2 DEF Work, SkipItem, EnsureProbed, KeepPlan, Place
<1>3. CASE ProbeAllPairs(a) \/ PairsDone(a) \/ \E j \in Job : PickPair(a, j)
  BY <1>3 DEF ProbeAllPairs, PairsDone, PickPair
<1>4. CASE CreateWrite(a) \/ RemoveWrite(a) \/ CreateSrc(a) \/ LinkProbe(a)
  BY <1>4 DEF CreateWrite, RemoveWrite, CreateSrc, LinkProbe
<1>5. CASE RemoveOld(a) \/ RemoveDst(a) \/ RemoveSrc(a) \/ CachePut(a)
  BY <1>5 DEF RemoveOld, RemoveDst, RemoveSrc, CachePut
<1> QED
  BY <1>2, <1>3, <1>4, <1>5 DEF Probe

\* A settings request that begins beside another one leaves a trace.
LEMMA RequestLoad ==
    ASSUME TypeOK, NEW a \in Actor, Request(a), pc'[a] = "load", "config" \notin clash'
    PROVE  Others(a, Setting) = {}
<1>1. \E v \in BOOLEAN : PutSettings(a, v)
  BY DEF Request, PutSettings, Reloads, SaveLibrary, DeleteLibrary, SaveClient, DeleteClient, Scan,
         Execute, Begin, Goto, TypeOK
<1> QED
  BY <1>1 DEF PutSettings, Setting

LEMMA NextOneConfig == Base /\ OneConfig /\ [Next]_vars => OneConfig'
<1> SUFFICES ASSUME Base, OneConfig, [Next]_vars, "config" \notin clash',
                    NEW b \in Actor, NEW c \in Actor,
                    Active(b, Setting)', Active(c, Setting)'
             PROVE  b = c
  BY DEF OneConfig
<1>1. ASSUME NEW a \in Actor, Request(a) PROVE b = c
  <2>1. \A d \in Actor \ {a} : Stays(d)
    BY <1>1, OthersStay DEF Base
  <2>2. "config" \notin clash
    BY <1>1, Requested DEF Base
  <2>3. CASE pc'[a] # "load"
    <3>1. b # a /\ c # a
      BY <1>1, <2>3, Requested DEF Base, Active, Setting
    <3> QED
      BY <2>1, <2>2, <3>1 DEF OneConfig, Stays, Active
  <2>4. CASE pc'[a] = "load"
    <3>1. Others(a, Setting) = {}
      BY <1>1, <2>4, RequestLoad DEF Base
    <3> QED
      BY <2>1, <3>1 DEF Others, Active, Stays
  <2> QED
    BY <2>3, <2>4
<1>2. ASSUME NEW a \in Actor, Step(a) \/ ReadFails(a) PROVE b = c
  <2>1. "config" \notin clash
    BY <1>2, ConfigureFrame, ReloadFrame, ProbeFrame, FailsFrame DEF Base, Step
  <2> QED
    BY <1>2, <2>1, StepKeepsActive DEF OneConfig
<1>3. CASE Crash
  BY <1>3 DEF Crash, AtStart, Active, Setting
<1>4. CASE UNCHANGED vars \/ \E v \in BOOLEAN : PutSettingsFails(v)
  BY <1>4, OtherFrame DEF OneConfig, Active, Base
<1> QED
  BY <1>1, <1>2, <1>3, <1>4 DEF Next

LEMMA NextDry == Base /\ Base' /\ OneConfig /\ DryInv /\ [Next]_vars => DryInv'
<1> SUFFICES ASSUME Base, Base', OneConfig, DryInv, [Next]_vars, clash' \cap {"config", "fail"} = {}
             PROVE  DryInv'
  BY DEF DryInv
<1> USE DEF Base, storeVars, dryVars, listVars, localVars
<1>1. ASSUME NEW a \in Actor, Request(a) PROVE DryInv'
  <2>1. /\ \A d \in Actor \ {a} : Stays(d)
        /\ pc[a] = "idle" /\ pc'[a] \in {"load", "clients", "save", "place"}
        /\ doing'[a] = "settings" <=> pc'[a] = "load"
        /\ UNCHANGED <<cfgDry, guardDry, uiDry, dry>> /\ clash \cap {"config", "fail"} = {}
    BY <1>1, OthersStay, Requested, RequestFrame
  <2>2. CASE pc'[a] = "load"
    <3>1. \A d \in Actor \ {a} : ~Active(d, Setting)
      BY <1>1, <2>2, RequestLoad DEF Others, Active
    <3>2. \A d \in Actor \ {a} :
            ~Active(d, Setting)' /\ pc'[d] \notin {"load", "setcfg", "setguard", "show"}
      BY <2>1, <3>1, ConfigIsActive DEF Stays, Active
    <3>3. \A d \in Actor : pc[d] # "setguard"
      BY <2>1, <3>1, ConfigIsActive
    <3>4. Active(a, Setting)'
      BY <2>1, <2>2 DEF Active, Setting
    <3> QED
      BY <2>1, <2>2, <3>2, <3>3, <3>4 DEF DryInv
  <2>3. CASE pc'[a] # "load"
    <3>1. dbDry' = dbDry
      BY <1>1, <2>1, <2>3, RequestFrame DEF PutSettings, Begin, Goto, TypeOK
    <3>2. \A d \in Actor : Active(d, Setting)' <=> Active(d, Setting)
      BY <2>1, <2>3 DEF Active, Stays, Setting
    <3>3. \A d \in Actor : pc'[d] \in {"load", "setcfg", "setguard"} <=>
                           pc[d] \in {"load", "setcfg", "setguard"}
      BY <2>1, <2>3 DEF Stays
    <3>4. \A d \in Actor \ {a} : pc'[d] = pc[d]
      BY <2>1 DEF Stays
    <3>5. ~Active(a, Setting)
      BY <2>1 DEF Active
    <3> QED
      BY <2>1, <3>1, <3>2, <3>3, <3>4, <3>5 DEF DryInv
  <2> QED
    BY <2>2, <2>3
<1>2. ASSUME NEW a \in Actor, Reload(a) \/ Probe(a) \/ Work(a) PROVE DryInv'
  <2>1. /\ UNCHANGED <<dbDry, cfgDry, guardDry, uiDry>> /\ clash \cap {"config", "fail"} = {}
        /\ pc[a] \notin {"idle", "load", "setcfg", "setguard", "show"}
        /\ pc'[a] \notin {"load", "setcfg", "setguard"}
    BY <1>2, ReloadFrame, ProbeFrame DEF Probing
  <2>2. \A b \in Actor \ {a} : Stays(b)
    BY <1>2, OthersStay DEF Step
  <2>3. Active(a, Setting)' => dry'[a] = dry[a]
    BY <1>2, ReloadFrame, ProbeFrame DEF Active
  <2>4. Active(a, Setting)' <=> Active(a, Setting)
    <3>1. CASE Active(a, Setting)
      <4>1. pc'[a] # "idle" /\ doing'[a] = doing[a]
        BY <1>2, <3>1, ReloadFrame, ProbeFrame, SettingGoesOn DEF Active, Setting
      <4> QED
        BY <3>1, <4>1 DEF Active
    <3>2. CASE ~Active(a, Setting)
      BY <1>2, <3>2, StepKeepsActive DEF Step
    <3> QED
      BY <3>1, <3>2
  <2>5. \A b \in Actor : Active(b, Setting)' <=> Active(b, Setting)
    BY <2>2, <2>4 DEF Stays, Active
  <2>6. \A b \in Actor : pc'[b] \in {"load", "setcfg", "setguard"} => Stays(b)
    BY <2>1, <2>2
  <2>7. \A b \in Actor : pc[b] = "setguard" => pc'[b] = "setguard"
    BY <2>1, <2>2 DEF Stays
  <2>8. \A b \in Actor : Active(b, Setting)' => dry'[b] = dry[b] /\
                         (pc'[b] \notin {"load", "setcfg"} => pc[b] \notin {"load", "setcfg"})
    BY <2>1, <2>2, <2>3 DEF Stays
  <2> QED
    BY <2>1, <2>5, <2>6, <2>7, <2>8 DEF DryInv, Stays
<1>3. ASSUME NEW a \in Actor, Configure(a) PROVE DryInv'
  <2>1. UNCHANGED dbDry /\ clash \cap {"config", "fail"} = {} /\ Active(a, Setting)
    BY <1>3, ConfigureFrame, ConfigIsActive
  <2>2. \A b \in Actor \ {a} : Stays(b) /\ ~Active(b, Setting)
    BY <1>3, <2>1, OthersStay DEF Step, OneConfig
  <2>3. \A b \in Actor \ {a} :
          ~Active(b, Setting)' /\ pc'[b] \notin {"load", "setcfg", "setguard", "show"}
    BY <2>2, ConfigIsActive DEF Stays, Active
  <2>4. pc'[a] # "idle" => Active(a, Setting)'
    BY <1>3, <2>1, ConfigureFrame DEF Active
  <2>5. CASE LoadConfig(a)
    <3>1. pc'[a] = "setcfg" /\ dry'[a] = dbDry /\ guardDry = cfgDry
      BY <2>2, <2>1, <2>5, ConfigIsActive DEF LoadConfig, Goto, TypeOK, DryInv
    <3> QED
      BY <2>1, <2>3, <2>4, <2>5, <3>1 DEF LoadConfig, DryInv
  <2>6. CASE SetConfig(a)
    <3>1. pc'[a] = "setguard" /\ dry'[a] = dbDry /\ cfgDry' = dbDry
      BY <2>1, <2>6 DEF SetConfig, Goto, TypeOK, DryInv
    <3> QED
      BY <2>1, <2>3, <2>4, <2>6, <3>1 DEF DryInv
  <2>7. CASE SetDryRun(a)
    <3>1. /\ pc'[a] \in {"pairs", "show"} /\ dry'[a] = dbDry /\ cfgDry' = dbDry
          /\ guardDry' = cfgDry'
      BY <2>1, <2>7 DEF SetDryRun, AfterSwitch, Goto, TypeOK, DryInv
    <3> QED
      BY <2>1, <2>3, <2>4, <3>1 DEF DryInv
  <2>8. CASE ShowConfig(a)
    <3>1. pc'[a] = "idle" /\ uiDry' = dbDry /\ cfgDry' = dbDry /\ guardDry' = cfgDry'
      BY <2>1, <2>2, <2>8, ConfigIsActive DEF ShowConfig, Ends, TypeOK, DryInv
    <3> QED
      BY <2>1, <2>3, <3>1 DEF DryInv, Active
  <2> QED
    BY <1>3, <2>5, <2>6, <2>7, <2>8 DEF Configure
<1>4. CASE Crash
  BY <1>4 DEF Crash, Starting, AtStart, DryInv, Active, Setting
<1>5. CASE UNCHANGED vars \/ \E v \in BOOLEAN : PutSettingsFails(v)
  BY <1>5, OtherFrame DEF DryInv, Active
<1>6. ASSUME NEW a \in Actor, ReadFails(a) PROVE FALSE
  BY <1>6, FailsFrame
<1> QED
  BY <1>1, <1>2, <1>3, <1>4, <1>5, <1>6 DEF Next, Step

\* With no request under way, the pipeline, the guard and the page agree with the store
\* on dry-run, unless two settings requests overlapped or the store failed: no scan,
\* probe, reload or restart between the steps of ApplyConfig parts the copies.
THEOREM DryRunHolds == Spec => []DryRunAgrees
<1>1. Init => OneConfig /\ DryInv
  BY DEF Init, Starting, AtStart, OneConfig, DryInv, Active, Setting
<1>2. DryInv => DryRunAgrees
  BY DEF DryInv, DryRunAgrees, Quiet, Active
<1> QED
  BY <1>1, <1>2, BaseInvariant, NextBase, NextOneConfig, NextDry, PTL DEF Spec

-----------------------------------------------------------------------------
(* Probes *)

\* The pipeline plans for no library the guard keeps closed, but while one reload
\* fills the guard again.
LibsOpen ==
    "reload" \notin clash =>
        /\ (\A a \in Actor : pc[a] # "add") => libs \subseteq guardLibs
        /\ \A a \in Actor : pc[a] = "reset" => mine[a] = left[a]
        /\ \A a \in Actor : pc[a] = "add" => mine[a] \subseteq guardLibs \cup left[a]

\* The probe file goroutine a has on disk.
Holds(a, f) ==
    \/ pc[a] \in Busy \ {"unwrite"} /\ f = <<at[a][1], "src">>
    \/ pc[a] = "unlink2" /\ f = <<at[a][2], "dst">>
    \/ pc[a] = "unwrite" /\ f = <<at[a][2], "write">>

Pairs == Source \X Lib
ProbeFiles == (Source \cup Lib) \X {"src", "dst", "write"}

\* What is probed, or is to be, is open.
JobOpen(a) ==
    /\ pc[a] \in Probing => \A j \in todo[a] : j[2] \in guardLibs /\ j[1] \in roots \cup guardLibs
    /\ pc[a] \in Probing \ {"pick"} => at[a][2] \in guardLibs /\ at[a][1] \in roots \cup guardLibs

JobsOpen == \A a \in Actor : JobOpen(a)

\* A probe that has made a file can remove it, and ends with the truth.
ProbeIsSound(a) ==
    /\ pc[a] \in Busy => ~guardDry
    /\ pc[a] \in Busy \ {"unwrite"} => at[a][1] \notin ReadOnly
    /\ pc[a] \in {"unlink2", "clean", "put"} => out[a] = Truth(at[a])

\* No two goroutines have files of one root.
Apart == \A a, b \in Actor :
    a # b /\ pc[a] \in Busy /\ pc[b] \in Busy => at[a][1] # at[b][1] /\ at[a][2] # at[b][2]

FilesHeld == \A f \in ProbeFiles : f \in files <=> \E b \in Actor : Holds(b, f)

CacheTrue == \A p \in Pairs : cache[p] # "none" => cache[p] = Truth(p)

ProbeInv ==
    ~Disturbed => JobsOpen /\ (\A a \in Actor : ProbeIsSound(a)) /\ Apart /\ FilesHeld /\ CacheTrue

LEMMA NextLibsOpen == Base /\ OneLoad /\ LibsOpen /\ [Next]_vars => LibsOpen'
<1> SUFFICES ASSUME Base, OneLoad, LibsOpen, [Next]_vars, "reload" \notin clash'
             PROVE  LibsOpen'
  BY DEF LibsOpen
<1> USE DEF Base, rootVars, listVars, localVars
<1>1. ASSUME NEW a \in Actor, Request(a) PROVE LibsOpen'
  <2>1. /\ \A d \in Actor \ {a} : Stays(d)
        /\ pc[a] = "idle" /\ pc'[a] \in {"load", "clients", "save", "place"}
        /\ UNCHANGED <<guardLibs, libs, mine, left>> /\ "reload" \notin clash
    BY <1>1, OthersStay, Requested, RequestFrame
  <2>2. \A d \in Actor : pc'[d] \in {"reset", "add"} <=> pc[d] \in {"reset", "add"}
    BY <2>1 DEF Stays
  <2>3. \A d \in Actor : pc'[d] \in {"reset", "add"} => pc'[d] = pc[d]
    BY <2>1 DEF Stays
  <2>4. \A d \in Actor : pc[d] = "add" => pc'[d] = "add"
    BY <2>1 DEF Stays
  <2> QED
    BY <2>1, <2>2, <2>3, <2>4 DEF LibsOpen
<1>2. ASSUME NEW a \in Actor, Configure(a) \/ Probe(a) \/ Work(a) \/ ReadFails(a) PROVE LibsOpen'
  <2>1. /\ UNCHANGED <<guardLibs, libs>> /\ "reload" \notin clash
        /\ pc[a] \notin {"reset", "add"} /\ pc'[a] \notin {"reset", "add"}
    BY <1>2, ConfigureFrame, ProbeFrame, FailsFrame DEF Probing
  <2>2. \A b \in Actor \ {a} : Stays(b)
    BY <1>2, OthersStay DEF Step
  <2>3. \A b \in Actor : pc[b] \in {"reset", "add"} \/ pc'[b] \in {"reset", "add"} => Stays(b)
    BY <2>1, <2>2
  <2> QED
    BY <2>1, <2>3 DEF LibsOpen, Stays
<1>3. ASSUME NEW a \in Actor, Reload(a) PROVE LibsOpen'
  <2>1. "reload" \notin clash /\ Reloading(a)
    BY <1>3, ReloadFrame DEF Reloading
  <2>2. \A b \in Actor \ {a} : Stays(b) /\ ~Reloading(b)
    BY <1>3, <2>1, OthersStay, ReloadingIsActive DEF Step, OneLoad
  <2>3. \A b \in Actor \ {a} : pc[b] \notin {"reset", "add"} /\ pc'[b] \notin {"reset", "add"}
    BY <2>2 DEF Stays, Reloading
  <2>4. CASE ListClients(a)
    BY <2>1, <2>3, <2>4 DEF ListClients, Goto, TypeOK, LibsOpen
  <2>5. CASE ListLibraries(a)
    BY <2>1, <2>3, <2>5 DEF ListLibraries, Goto, TypeOK, LibsOpen
  <2>6. CASE ResetLibraryRoots(a)
    BY <2>1, <2>3, <2>6 DEF ResetLibraryRoots, Goto, TypeOK, LibsOpen
  <2>7. ASSUME NEW l \in Lib, AddLibraryRoot(a, l) PROVE LibsOpen'
    <3>1. left'[a] = left[a] \ {l} /\ guardLibs' = guardLibs \cup {l} /\ l \in left[a]
      BY <2>7 DEF AddLibraryRoot, TypeOK
    <3>2. guardLibs' \cup left'[a] = guardLibs \cup left[a]
      BY <3>1
    <3> QED
      BY <2>1, <2>3, <2>7, <3>2 DEF AddLibraryRoot, LibsOpen
  <2>8. CASE SetLibraries(a)
    <3>1. libs' \subseteq guardLibs
      BY <2>1, <2>8 DEF SetLibraries, Goto, LibsOpen
    <3> QED
      BY <2>3, <2>8, <3>1 DEF SetLibraries, Goto, TypeOK, LibsOpen
  <2> QED
    BY <1>3, <2>4, <2>5, <2>6, <2>7, <2>8 DEF Reload
<1>4. CASE Crash
  BY <1>4 DEF Crash, Starting, LibsOpen
<1>5. CASE UNCHANGED vars \/ \E v \in BOOLEAN : PutSettingsFails(v)
  BY <1>5, OtherFrame DEF LibsOpen
<1> QED
  BY <1>1, <1>2, <1>3, <1>4, <1>5 DEF Next, Step


\* The guard does not turn against a probe that nothing disturbs.
LEMMA ProbeKept ==
    ASSUME Base, JobsOpen, \A a \in Actor : ProbeIsSound(a), Apart, FilesHeld, CacheTrue,
           UNCHANGED <<files, cache>>, roots \subseteq roots',
           guardLibs \subseteq guardLibs' \/ \A a \in Actor : pc'[a] \notin Probing,
           guardDry' = guardDry \/ guardDry' = FALSE \/ \A a \in Actor : pc'[a] \notin Probing,
           \A a \in Actor : pc[a] \in Probing \/ pc'[a] \in Probing =>
                /\ pc'[a] = pc[a] /\ at'[a] = at[a] /\ todo'[a] = todo[a] /\ out'[a] = out[a]
    PROVE  ProbeInv'
<1>b. Busy \subseteq Probing
  BY DEF Busy
<1>1. JobsOpen'
  BY DEF JobsOpen, JobOpen
<1>2. \A a \in Actor : ProbeIsSound(a)'
  <2> SUFFICES ASSUME NEW a \in Actor PROVE ProbeIsSound(a)'
    OBVIOUS
  <2>1. CASE pc'[a] \in Probing
    <3>1. Truth(at[a])' = Truth(at[a])
      BY <2>1 DEF Truth
    <3> QED
      BY <2>1, <3>1, <1>b DEF ProbeIsSound
  <2>2. CASE pc'[a] \notin Probing
    BY <2>2, <1>b DEF ProbeIsSound, Probing
  <2> QED
    BY <2>1, <2>2
<1>3. Apart'
  BY <1>b DEF Apart
<1>4. FilesHeld'
  <2>1. \A a \in Actor, f \in ProbeFiles : Holds(a, f)' <=> Holds(a, f)
    <3> SUFFICES ASSUME NEW a \in Actor, NEW f \in ProbeFiles PROVE Holds(a, f)' <=> Holds(a, f)
      OBVIOUS
    <3>1. CASE pc[a] \in Probing \/ pc'[a] \in Probing
      BY <3>1 DEF Holds
    <3>2. CASE ~(pc[a] \in Probing \/ pc'[a] \in Probing)
      BY <3>2 DEF Holds, Busy, Probing
    <3> QED
      BY <3>1, <3>2
  <2> QED
    BY <2>1 DEF FilesHeld
<1>5. CacheTrue'
  BY DEF CacheTrue, Truth
<1> QED
  BY <1>1, <1>2, <1>3, <1>4, <1>5 DEF ProbeInv

OtherHolds(a, f) == \E b \in Actor \ {a} : Holds(b, f)

\* A goroutine that keeps to its own files disturbs no other.
LEMMA ProbeAlone ==
    ASSUME Base, JobsOpen, \A a \in Actor : ProbeIsSound(a), Apart, CacheTrue',
           NEW a \in Actor, \A b \in Actor \ {a} : Stays(b),
           UNCHANGED <<guardDry, guardLibs, roots>>,
           JobOpen(a)', ProbeIsSound(a)',
           pc'[a] \in Busy => \A b \in Actor \ {a} :
               pc[b] \in Busy => at'[a][1] # at[b][1] /\ at'[a][2] # at[b][2],
           \A f \in ProbeFiles : f \in files' <=> Holds(a, f)' \/ OtherHolds(a, f)
    PROVE  ProbeInv'
<1>1. JobsOpen'
  BY DEF JobsOpen, JobOpen, Stays
<1>2. \A b \in Actor : ProbeIsSound(b)'
  BY DEF ProbeIsSound, Stays, Truth
<1>3. Apart'
  <2> SUFFICES ASSUME NEW b \in Actor, NEW c \in Actor, b # c, pc'[b] \in Busy, pc'[c] \in Busy
               PROVE  at'[b][1] # at'[c][1] /\ at'[b][2] # at'[c][2]
    BY DEF Apart
  <2>1. CASE b = a
    BY <2>1 DEF Stays
  <2>2. CASE c = a
    BY <2>2 DEF Stays
  <2>3. CASE b # a /\ c # a
    BY <2>3 DEF Stays, Apart
  <2> QED
    BY <2>1, <2>2, <2>3
<1>4. FilesHeld'
  <2>1. \A b \in Actor \ {a}, f \in ProbeFiles : Holds(b, f)' <=> Holds(b, f)
    BY DEF Holds, Stays
  <2> QED
    BY <2>1 DEF FilesHeld, OtherHolds
<1> QED
  BY <1>1, <1>2, <1>3, <1>4 DEF ProbeInv

\* What a goroutine knows of its probe.
LEMMA Probed ==
    ASSUME Base, JobsOpen, \A a \in Actor : ProbeIsSound(a), Apart, FilesHeld, NEW a \in Actor
    PROVE  /\ pc[a] \in Busy =>
                /\ MayProbe(at[a][1]) /\ MayProbe(at[a][2])
                /\ \A f \in {<<at[a][1], "src">>, <<at[a][2], "dst">>, <<at[a][2], "write">>} :
                       f \in ProbeFiles /\ ~OtherHolds(a, f)
           /\ \A f \in ProbeFiles : f \in files <=> Holds(a, f) \/ OtherHolds(a, f)
<1>1. \A f \in ProbeFiles : f \in files <=> Holds(a, f) \/ OtherHolds(a, f)
  BY DEF FilesHeld, OtherHolds
<1>2. ASSUME pc[a] \in Busy PROVE MayProbe(at[a][1]) /\ MayProbe(at[a][2])
  BY <1>2 DEF JobsOpen, JobOpen, ProbeIsSound, MayProbe, Busy
<1>3. ASSUME pc[a] \in Busy,
             NEW f \in {<<at[a][1], "src">>, <<at[a][2], "dst">>, <<at[a][2], "write">>}
      PROVE  f \in ProbeFiles /\ ~OtherHolds(a, f)
  <2>1. at[a][1] \in Source \cup Lib /\ at[a][2] \in Lib
    BY DEF Base, TypeOK, Job
  <2>2. ASSUME NEW b \in Actor \ {a}, Holds(b, f) PROVE FALSE
    <3>1. pc[b] \in Busy
      BY <2>2 DEF Holds, Busy, Probing
    <3>2. at[a][1] # at[b][1] /\ at[a][2] # at[b][2]
      BY <1>3, <3>1 DEF Apart
    <3> QED
      BY <2>2, <3>2 DEF Holds
  <2> QED
    BY <2>1, <2>2 DEF ProbeFiles, OtherHolds
<1> QED
  BY <1>1, <1>2, <1>3

\* Choosing pairs and keeping what a probe found.
LEMMA PickProbe ==
    ASSUME Base, OneLoad, LibsOpen, ProbeInv, ~Disturbed, ~Disturbed', NEW a \in Actor,
           ProbeAllPairs(a) \/ (\E j \in Job : PickPair(a, j)) \/ PairsDone(a) \/ CachePut(a)
    PROVE  ProbeInv'
<1> USE DEF rootVars, dryVars, storeVars, listVars, jobVars, localVars
<1>i. JobsOpen /\ (\A b \in Actor : ProbeIsSound(b)) /\ Apart /\ FilesHeld /\ CacheTrue
  BY DEF ProbeInv
<1>s. \A b \in Actor \ {a} : Stays(b)
  BY OthersStay DEF Step, Probe, Base
<1>f. UNCHANGED <<guardDry, guardLibs, roots>>
  BY ProbeFrame DEF Probe, Base
<1>1. CASE CachePut(a)
  <2>1. pc[a] = "put" /\ pc'[a] \in {"pick", "keep"} /\ at' = at /\ todo' = todo /\ files' = files
    BY <1>1 DEF CachePut, Goto, Return, Base, TypeOK
  <2>2. at[a] \in Pairs /\ out[a] = Truth(at[a])
    BY <1>i, <2>1 DEF ProbeIsSound, Base, JobsInOrder, JobInOrder, PairPoints, Probing, Pairs
  <2>3. CacheTrue'
    BY <1>1, <1>i, <2>2 DEF CachePut, CacheTrue, Truth, Base, TypeOK, Pairs
  <2>4. JobOpen(a)' /\ ProbeIsSound(a)' /\ pc'[a] \notin Busy
    BY <1>i, <1>f, <2>1 DEF JobsOpen, JobOpen, ProbeIsSound, Busy, Probing
  <2>5. \A f \in ProbeFiles : ~Holds(a, f) /\ ~Holds(a, f)'
    BY <2>1 DEF Holds, Busy, Probing
  <2> QED
    BY <1>i, <1>s, <1>f, <2>1, <2>3, <2>4, <2>5, Probed, ProbeAlone
<1>2. ASSUME NEW j \in Job, PickPair(a, j) PROVE ProbeInv'
  <2>1. /\ pc[a] = "pick" /\ pc'[a] \in {"writeable", "create"} /\ at'[a] = j /\ j \in todo[a]
        /\ todo'[a] \subseteq todo[a] /\ UNCHANGED <<files, cache>>
    BY <1>2 DEF PickPair, Base, TypeOK, probeVars
  <2>2. CacheTrue'
    BY <1>i, <2>1 DEF CacheTrue, Truth
  <2>3. JobOpen(a)' /\ ProbeIsSound(a)' /\ pc'[a] \notin Busy
    BY <1>i, <1>f, <2>1 DEF JobsOpen, JobOpen, ProbeIsSound, Busy, Probing
  <2>4. \A f \in ProbeFiles : ~Holds(a, f) /\ ~Holds(a, f)'
    BY <2>1 DEF Holds, Busy, Probing
  <2> QED
    BY <1>i, <1>s, <1>f, <2>1, <2>2, <2>3, <2>4, Probed, ProbeAlone
<1>3. CASE PairsDone(a)
  <2>1. pc[a] = "pick" /\ pc'[a] \in {"show", "idle"} /\ UNCHANGED <<files, cache>>
    BY <1>3 DEF PairsDone, Ends, Base, TypeOK
  <2>2. CacheTrue'
    BY <1>i, <2>1 DEF CacheTrue, Truth
  <2>3. JobOpen(a)' /\ ProbeIsSound(a)' /\ pc'[a] \notin Busy
    BY <2>1 DEF JobOpen, ProbeIsSound, Busy, Probing
  <2>4. \A f \in ProbeFiles : ~Holds(a, f) /\ ~Holds(a, f)'
    BY <2>1 DEF Holds, Busy, Probing
  <2> QED
    BY <1>i, <1>s, <1>f, <2>1, <2>2, <2>3, <2>4, Probed, ProbeAlone
<1>4. CASE ProbeAllPairs(a)
  <2>1. pc[a] = "pairs" /\ pc'[a] = "pick" /\ UNCHANGED <<files, cache>>
    BY <1>4 DEF ProbeAllPairs, Goto, Base, TypeOK, probeVars
  <2>2. CacheTrue'
    BY <1>i, <2>1 DEF CacheTrue, Truth
  <2>3. \A j \in todo'[a] : j[2] \in guardLibs /\ j[1] \in roots \cup guardLibs
    <3>1. CASE cfgDry
      BY <1>4, <3>1 DEF ProbeAllPairs, Base, TypeOK
    <3>2. CASE ~cfgDry
      <4>1. ~Closed(a)
        BY <1>4, <3>2 DEF ProbeAllPairs, Note, Disturbed
      <4>2. libs \subseteq guardLibs
        BY <2>1, <4>1 DEF Closed, LibsOpen, Disturbed
      <4>3. todo'[a] = (roots \X libs) \cup {<<l, l>> : l \in libs}
        BY <1>4, <3>2 DEF ProbeAllPairs, Base, TypeOK
      <4> QED
        BY <4>2, <4>3
    <3> QED
      BY <3>1, <3>2
  <2>4. JobOpen(a)' /\ ProbeIsSound(a)' /\ pc'[a] \notin Busy
    BY <1>f, <2>1, <2>3 DEF JobOpen, ProbeIsSound, Busy, Probing
  <2>5. \A f \in ProbeFiles : ~Holds(a, f) /\ ~Holds(a, f)'
    BY <2>1 DEF Holds, Busy, Probing
  <2> QED
    BY <1>i, <1>s, <1>f, <2>1, <2>2, <2>4, <2>5, Probed, ProbeAlone
<1> QED
  BY <1>1, <1>2, <1>3, <1>4

\* A probe of a library, and the removals, touch one file, the goroutine's own.
LEMMA RemoveProbe ==
    ASSUME Base, ProbeInv, ~Disturbed, NEW a \in Actor,
           RemoveWrite(a) \/ RemoveOld(a) \/ RemoveDst(a) \/ RemoveSrc(a)
    PROVE  ProbeInv'
<1> USE DEF rootVars, dryVars, storeVars, listVars, jobVars, localVars
<1>i. JobsOpen /\ (\A b \in Actor : ProbeIsSound(b)) /\ Apart /\ FilesHeld /\ CacheTrue
  BY DEF ProbeInv
<1>s. \A b \in Actor \ {a} : Stays(b)
  BY OthersStay DEF Step, Probe, Base
<1>f. /\ UNCHANGED <<guardDry, guardLibs, roots, cache, at, todo, out>>
      /\ pc[a] \in Busy /\ pc \in [Actor -> PCs]
  BY DEF RemoveWrite, RemoveOld, RemoveDst, RemoveSrc, Goto, Busy, Probing, Base, TypeOK
<1>p. /\ MayProbe(at[a][1]) /\ MayProbe(at[a][2])
      /\ \A f \in {<<at[a][1], "src">>, <<at[a][2], "dst">>, <<at[a][2], "write">>} :
             f \in ProbeFiles /\ ~OtherHolds(a, f)
      /\ \A f \in ProbeFiles : f \in files <=> Holds(a, f) \/ OtherHolds(a, f)
  BY <1>i, <1>f, Probed
<1>c. CacheTrue'
  BY <1>i, <1>f DEF CacheTrue, Truth
<1>1. CASE RemoveWrite(a)
  <2>1. pc[a] = "unwrite" /\ pc'[a] = "pick" /\ files' = files \ {<<at[a][2], "write">>}
    BY <1>f, <1>p, <1>1 DEF RemoveWrite, Removed, Goto
  <2>2. JobOpen(a)' /\ ProbeIsSound(a)' /\ pc'[a] \notin Busy
    BY <1>i, <1>f, <2>1 DEF JobsOpen, JobOpen, ProbeIsSound, Busy, Probing
  <2>3. \A f \in ProbeFiles : ~Holds(a, f)' /\ (Holds(a, f) <=> f = <<at[a][2], "write">>)
    BY <2>1 DEF Holds, Busy, Probing
  <2>4. \A f \in ProbeFiles : f \in files' <=> Holds(a, f)' \/ OtherHolds(a, f)
    BY <1>p, <2>1, <2>3
  <2> QED
    BY <1>i, <1>s, <1>f, <1>c, <2>2, <2>4, ProbeAlone
<1>2. CASE RemoveOld(a)
  <2>1. pc[a] = "unlink" /\ pc'[a] = "link" /\ files' = files \ {<<at[a][2], "dst">>}
    BY <1>f, <1>p, <1>2 DEF RemoveOld, Removed, Goto
  <2>2. JobOpen(a)' /\ ProbeIsSound(a)'
    BY <1>i, <1>f, <2>1 DEF JobsOpen, JobOpen, ProbeIsSound, Busy, Probing
  <2>3. \A f \in ProbeFiles : /\ Holds(a, f)' <=> f = <<at[a][1], "src">>
                              /\ Holds(a, f) <=> f = <<at[a][1], "src">>
    BY <1>f, <2>1 DEF Holds, Busy, Probing
  <2>4. \A f \in ProbeFiles : f \in files' <=> Holds(a, f)' \/ OtherHolds(a, f)
    BY <1>p, <2>1, <2>3
  <2>5. \A b \in Actor \ {a} : pc[b] \in Busy => at'[a][1] # at[b][1] /\ at'[a][2] # at[b][2]
    BY <1>i, <1>f DEF Apart
  <2> QED
    BY <1>i, <1>s, <1>f, <1>c, <2>2, <2>4, <2>5, ProbeAlone
<1>3. CASE RemoveDst(a)
  <2>1. pc[a] = "unlink2" /\ pc'[a] = "clean" /\ files' = files \ {<<at[a][2], "dst">>}
    BY <1>f, <1>p, <1>3 DEF RemoveDst, Removed, Goto
  <2>2. JobOpen(a)' /\ ProbeIsSound(a)'
    BY <1>i, <1>f, <2>1 DEF JobsOpen, JobOpen, ProbeIsSound, Truth, Busy, Probing
  <2>3. \A f \in ProbeFiles :
          /\ Holds(a, f)' <=> f = <<at[a][1], "src">>
          /\ Holds(a, f) <=> f = <<at[a][1], "src">> \/ f = <<at[a][2], "dst">>
    BY <1>f, <2>1 DEF Holds, Busy, Probing
  <2>4. \A f \in ProbeFiles : f \in files' <=> Holds(a, f)' \/ OtherHolds(a, f)
    BY <1>p, <2>1, <2>3
  <2>5. \A b \in Actor \ {a} : pc[b] \in Busy => at'[a][1] # at[b][1] /\ at'[a][2] # at[b][2]
    BY <1>i, <1>f DEF Apart
  <2> QED
    BY <1>i, <1>s, <1>f, <1>c, <2>2, <2>4, <2>5, ProbeAlone
<1>4. CASE RemoveSrc(a)
  <2>1. pc[a] = "clean" /\ pc'[a] = "put" /\ files' = files \ {<<at[a][1], "src">>}
    BY <1>f, <1>p, <1>4 DEF RemoveSrc, Removed, Goto
  <2>2. JobOpen(a)' /\ ProbeIsSound(a)' /\ pc'[a] \notin Busy
    BY <1>i, <1>f, <2>1 DEF JobsOpen, JobOpen, ProbeIsSound, Truth, Busy, Probing
  <2>3. \A f \in ProbeFiles : ~Holds(a, f)' /\ (Holds(a, f) <=> f = <<at[a][1], "src">>)
    BY <2>1 DEF Holds, Busy, Probing
  <2>4. \A f \in ProbeFiles : f \in files' <=> Holds(a, f)' \/ OtherHolds(a, f)
    BY <1>p, <2>1, <2>3
  <2> QED
    BY <1>i, <1>s, <1>f, <1>c, <2>2, <2>4, ProbeAlone
<1> QED
  BY <1>1, <1>2, <1>3, <1>4

\* A probe that makes its first file has the two roots for itself.
LEMMA CreateProbe ==
    ASSUME Base, ProbeInv, ~Disturbed, ~Disturbed', NEW a \in Actor,
           CreateWrite(a) \/ CreateSrc(a)
    PROVE  ProbeInv'
<1> USE DEF rootVars, dryVars, storeVars, listVars, jobVars, localVars
<1>i. JobsOpen /\ (\A b \in Actor : ProbeIsSound(b)) /\ Apart /\ FilesHeld /\ CacheTrue
  BY DEF ProbeInv
<1>s. \A b \in Actor \ {a} : Stays(b)
  BY OthersStay DEF Step, Probe, Base
<1>f. /\ UNCHANGED <<guardDry, guardLibs, roots, cache, at, todo>>
      /\ pc[a] \in {"writeable", "create"} /\ pc \in [Actor -> PCs] /\ out \in [Actor -> Outcome]
      /\ at[a][1] \in Source \cup Lib /\ at[a][2] \in Lib
      /\ at[a][2] \in guardLibs /\ at[a][1] \in roots \cup guardLibs
  BY <1>i DEF CreateWrite, CreateSrc, Goto, Probing, Base, TypeOK, Job, JobsOpen, JobOpen
<1>n. \A f \in ProbeFiles : ~Holds(a, f) /\ (f \in files <=> OtherHolds(a, f))
  BY <1>i, <1>f, Probed DEF Holds, Busy, Probing
<1>c. CacheTrue'
  BY <1>i, <1>f DEF CacheTrue, Truth
<1>a. ASSUME ~Collides(a)
      PROVE  \A b \in Actor \ {a} : pc[b] \in Busy => at'[a][1] # at[b][1] /\ at'[a][2] # at[b][2]
  BY <1>f, <1>a DEF Collides, Busy, Probing
<1>1. CASE CreateWrite(a)
  <2> DEFINE f0 == <<at[a][2], "write">>
  <2>1. ~Collides(a)
    BY <1>1 DEF CreateWrite, Note, Disturbed
  <2>2. CASE MayProbe(f0[1]) /\ f0 \notin files
    <3>1. pc'[a] = "unwrite" /\ files' = files \cup {f0} /\ ~guardDry
      BY <1>1, <1>f, <2>2 DEF CreateWrite, Goto, MayProbe
    <3>2. JobOpen(a)' /\ ProbeIsSound(a)'
      BY <1>i, <1>f, <3>1 DEF JobsOpen, JobOpen, ProbeIsSound, Busy, Probing
    <3>3. \A f \in ProbeFiles : Holds(a, f)' <=> f = f0
      BY <1>f, <3>1 DEF Holds, Busy, Probing
    <3>4. \A f \in ProbeFiles : f \in files' <=> Holds(a, f)' \/ OtherHolds(a, f)
      BY <1>n, <3>1, <3>3
    <3> QED
      BY <1>i, <1>s, <1>f, <1>c, <1>a, <2>1, <3>2, <3>4, ProbeAlone
  <2>3. CASE ~(MayProbe(f0[1]) /\ f0 \notin files)
    <3>1. pc[a] = "writeable" /\ pc'[a] = "pick" /\ files' = files
      BY <1>1, <1>f, <2>3 DEF CreateWrite, Goto
    <3>2. JobOpen(a)' /\ ProbeIsSound(a)' /\ pc'[a] \notin Busy
      BY <1>i, <1>f, <3>1 DEF JobsOpen, JobOpen, ProbeIsSound, Busy, Probing
    <3>3. \A f \in ProbeFiles : ~Holds(a, f)'
      BY <3>1 DEF Holds, Busy, Probing
    <3> QED
      BY <1>i, <1>s, <1>f, <1>c, <1>n, <3>1, <3>2, <3>3, ProbeAlone
  <2> QED
    BY <2>2, <2>3
<1>2. CASE CreateSrc(a)
  <2> DEFINE s == at[a][1]
  <2> DEFINE f0 == <<s, "src">>
  <2>1. pc[a] = "create" /\ out'[a] = Unwritten(s) /\ (s \notin ReadOnly => ~Collides(a))
    BY <1>2, <1>f DEF CreateSrc, Note, Disturbed
  <2>2. CASE s \notin ReadOnly /\ MayProbe(s) /\ f0 \notin files
    <3>1. pc'[a] = "unlink" /\ files' = files \cup {f0} /\ ~guardDry
      BY <1>2, <1>f, <2>2 DEF CreateSrc, MayProbe
    <3>2. JobOpen(a)' /\ ProbeIsSound(a)'
      BY <1>i, <1>f, <2>2, <3>1, <2>1 DEF JobsOpen, JobOpen, ProbeIsSound, Busy, Probing
    <3>3. \A f \in ProbeFiles : Holds(a, f)' <=> f = f0
      BY <1>f, <3>1 DEF Holds, Busy, Probing
    <3>4. \A f \in ProbeFiles : f \in files' <=> Holds(a, f)' \/ OtherHolds(a, f)
      BY <1>n, <3>1, <3>3
    <3> QED
      BY <1>i, <1>s, <1>f, <1>c, <1>a, <2>1, <2>2, <3>2, <3>4, ProbeAlone
  <2>3. CASE ~(s \notin ReadOnly /\ MayProbe(s) /\ f0 \notin files)
    <3>1. /\ pc'[a] = IF Caches(Unwritten(s)) THEN "put" ELSE Return(a)
          /\ files' = files
      BY <1>2, <1>f, <2>3 DEF CreateSrc
    <3>2. pc'[a] \in {"put", "pick", "keep"}
      BY <3>1 DEF Return
    <3>3. ASSUME pc'[a] = "put" PROVE out'[a] = Truth(at[a])
      <4>1. Unwritten(s) # "dryrun"
        BY <3>1, <3>3 DEF Caches, Return
      <4>2. CASE s \in ReadOnly
        BY <2>1, <4>2 DEF Unwritten, Truth
      <4>3. CASE s \notin ReadOnly
        <5>1. ~guardDry
          BY <4>1, <4>3 DEF Unwritten
        <5>2. f0 \in files /\ f0 \in ProbeFiles
          BY <1>f, <2>3, <4>3, <5>1 DEF MayProbe, ProbeFiles
        <5>3. PICK b \in Actor \ {a} : Holds(b, f0)
          BY <1>n, <5>2 DEF OtherHolds
        <5>4. pc[b] \in Busy /\ at[b][1] = at[a][1]
          BY <5>3 DEF Holds, Busy, Probing
        <5> QED
          BY <1>f, <1>a, <2>1, <4>3, <5>4
      <4> QED
        BY <4>2, <4>3
    <3>4. JobOpen(a)' /\ ProbeIsSound(a)' /\ pc'[a] \notin Busy
      BY <1>i, <1>f, <2>1, <3>2, <3>3 DEF JobsOpen, JobOpen, ProbeIsSound, Truth, Busy, Probing
    <3>5. \A f \in ProbeFiles : ~Holds(a, f)'
      BY <3>2 DEF Holds, Busy, Probing
    <3> QED
      BY <1>i, <1>s, <1>f, <1>c, <1>n, <3>1, <3>4, <3>5, ProbeAlone
  <2> QED
    BY <2>2, <2>3
<1> QED
  BY <1>1, <1>2

\* The link works exactly when the kernel links the pair.
LEMMA LinkedProbe ==
    ASSUME Base, ProbeInv, ~Disturbed, NEW a \in Actor, LinkProbe(a)
    PROVE  ProbeInv'
<1> USE DEF rootVars, dryVars, storeVars, listVars, jobVars, localVars
<1>i. JobsOpen /\ (\A b \in Actor : ProbeIsSound(b)) /\ Apart /\ FilesHeld /\ CacheTrue
  BY DEF ProbeInv
<1>s. \A b \in Actor \ {a} : Stays(b)
  BY OthersStay DEF Step, Probe, Base
<1>f. /\ UNCHANGED <<guardDry, guardLibs, roots, cache, at, todo>>
      /\ pc[a] = "link" /\ pc[a] \in Busy /\ pc \in [Actor -> PCs] /\ out \in [Actor -> Outcome]
  BY DEF LinkProbe, Goto, Busy, Probing, Base, TypeOK
<1>p. /\ \A f \in {<<at[a][1], "src">>, <<at[a][2], "dst">>, <<at[a][2], "write">>} :
             f \in ProbeFiles /\ ~OtherHolds(a, f)
      /\ \A f \in ProbeFiles : f \in files <=> Holds(a, f) \/ OtherHolds(a, f)
  BY <1>i, <1>f, Probed
<1>c. CacheTrue'
  BY <1>i, <1>f DEF CacheTrue, Truth
<1>h. \A f \in ProbeFiles : Holds(a, f) <=> f = <<at[a][1], "src">>
  BY <1>f DEF Holds, Busy, Probing
<1>t. at[a] = <<at[a][1], at[a][2]>> /\ at[a][1] \notin ReadOnly
  BY <1>i, <1>f DEF ProbeIsSound, Busy, Probing, Base, TypeOK, Job
<1>l. Links(at[a][1], at[a][2]) <=> at[a] \in Linkable
  <2>1. <<at[a][1], "src">> \in files /\ <<at[a][2], "dst">> \notin files
    BY <1>p, <1>h
  <2> QED
    BY <1>t, <2>1 DEF Links
<1>1. out'[a] = Truth(at[a])
  BY <1>f, <1>l, <1>t DEF LinkProbe, Truth
<1>2. pc'[a] \in {"unlink2", "clean"}
  BY <1>f DEF LinkProbe, Goto
<1>3. JobOpen(a)' /\ ProbeIsSound(a)'
  BY <1>i, <1>f, <1>1, <1>2 DEF JobsOpen, JobOpen, ProbeIsSound, Truth, Busy, Probing
<1>4. \A f \in ProbeFiles : f \in files' <=> Holds(a, f)' \/ OtherHolds(a, f)
  <2>1. CASE Links(at[a][1], at[a][2])
    <3>1. pc'[a] = "unlink2" /\ files' = files \cup {<<at[a][2], "dst">>}
      BY <1>f, <2>1 DEF LinkProbe, Goto
    <3>2. \A f \in ProbeFiles : Holds(a, f)' <=> f = <<at[a][1], "src">> \/ f = <<at[a][2], "dst">>
      BY <1>f, <3>1 DEF Holds, Busy, Probing
    <3> QED
      BY <1>p, <1>h, <3>1, <3>2
  <2>2. CASE ~Links(at[a][1], at[a][2])
    <3>1. pc'[a] = "clean" /\ files' = files
      BY <1>f, <2>2 DEF LinkProbe, Goto
    <3>2. \A f \in ProbeFiles : Holds(a, f)' <=> f = <<at[a][1], "src">>
      BY <1>f, <3>1 DEF Holds, Busy, Probing
    <3> QED
      BY <1>p, <1>h, <3>1, <3>2
  <2> QED
    BY <2>1, <2>2
<1>5. \A b \in Actor \ {a} : pc[b] \in Busy => at'[a][1] # at[b][1] /\ at'[a][2] # at[b][2]
  BY <1>i, <1>f DEF Apart
<1> QED
  BY <1>i, <1>s, <1>f, <1>c, <1>3, <1>4, <1>5, ProbeAlone

\* A goroutine that begins has no pair left to probe.
NothingLeft == \A a \in Actor : pc[a] \in {"idle", "save"} => todo[a] = {}

LEMMA NextNothingLeft == Base /\ NothingLeft /\ [Next]_vars => NothingLeft'
<1> SUFFICES ASSUME Base, NothingLeft, [Next]_vars PROVE NothingLeft'
  OBVIOUS
<1> USE DEF Base, listVars, jobVars, localVars
<1>1. ASSUME NEW a \in Actor, Request(a) PROVE NothingLeft'
  <2>1. (\A b \in Actor \ {a} : Stays(b)) /\ pc[a] = "idle"
    BY <1>1, OthersStay, Requested
  <2>2. todo' = todo
    BY <1>1
    DEF Request, PutSettings, Reloads, SaveLibrary, DeleteLibrary, SaveClient, DeleteClient, Scan,
        Execute
  <2> QED
    BY <2>1, <2>2 DEF NothingLeft, Stays
<1>2. ASSUME NEW a \in Actor, Step(a) \/ ReadFails(a) PROVE NothingLeft'
  <2>1. \A b \in Actor \ {a} : Stays(b)
    BY <1>2, OthersStay
  <2>2. CASE Ends(a)
    BY <2>1, <2>2 DEF Ends, TypeOK, NothingLeft, Stays
  <2>3. CASE pc'[a] \notin {"idle", "save"}
    BY <2>1, <2>3 DEF NothingLeft, Stays
  <2>4. pc'[a] \notin {"idle", "save"} \/ Ends(a)
    <3>1. CASE ReadFails(a) \/ ShowConfig(a) \/ SkipItem(a) \/ KeepPlan(a) \/ Place(a)
      BY <3>1 DEF ReadFails, ShowConfig, SkipItem, KeepPlan, Place
    <3>2. CASE LoadConfig(a) \/ SetConfig(a) \/ SetDryRun(a)
      BY <3>2 DEF LoadConfig, SetConfig, SetDryRun, Goto, AfterSwitch, TypeOK
    <3>3. CASE Reload(a)
      BY <3>3, ReloadFrame
    <3>4. CASE PairsDone(a)
      BY <3>4 DEF PairsDone, TypeOK
    <3>5. CASE (\E j \in Job : PickPair(a, j)) \/ CreateWrite(a) \/ ProbeAllPairs(a)
      BY <3>5 DEF PickPair, CreateWrite, ProbeAllPairs, Goto, TypeOK
    <3>6. CASE RemoveWrite(a) \/ CreateSrc(a) \/ RemoveOld(a) \/ LinkProbe(a)
      BY <3>6 DEF RemoveWrite, CreateSrc, RemoveOld, LinkProbe, Goto, Return, TypeOK
    <3>7. CASE RemoveDst(a) \/ RemoveSrc(a) \/ CachePut(a) \/ \E r \in Source : EnsureProbed(a, r)
      BY <3>7 DEF RemoveDst, RemoveSrc, CachePut, EnsureProbed, Goto, Return, TypeOK
    <3> QED
      BY <1>2, <3>1, <3>2, <3>3, <3>4, <3>5, <3>6, <3>7 DEF Step, Configure, Probe, Work
  <2> QED
    BY <2>2, <2>3, <2>4
<1>3. CASE Crash
  BY <1>3 DEF Crash, Nothing, NothingLeft
<1>4. CASE UNCHANGED vars \/ \E v \in BOOLEAN : PutSettingsFails(v)
  BY <1>4, OtherFrame DEF NothingLeft
<1> QED
  BY <1>1, <1>2, <1>3, <1>4 DEF Next

\* A scan asks for one pair of a library that is open.
LEMMA EnsuredProbe ==
    ASSUME Base, LibsOpen, ProbeInv, NothingLeft, ~Disturbed, ~Disturbed', NEW a \in Actor,
           NEW r \in Source, EnsureProbed(a, r)
    PROVE  ProbeInv'
<1> USE DEF rootVars, dryVars, storeVars, probeVars, listVars, jobVars, localVars
<1>i. JobsOpen /\ (\A b \in Actor : ProbeIsSound(b)) /\ Apart /\ FilesHeld /\ CacheTrue
  BY DEF ProbeInv
<1>s. \A b \in Actor \ {a} : Stays(b)
  BY OthersStay DEF Step, Work, Base
<1>f. /\ UNCHANGED <<guardDry, guardLibs, roots, cache, files, todo>> /\ todo[a] = {}
      /\ pc[a] = "save" /\ pc'[a] \in {"create", "keep"} /\ at'[a] = <<r, Target>>
      /\ r \in roots /\ Target \in libs
  BY DEF EnsureProbed, Deepest, NothingLeft, Base, TypeOK
<1>1. libs \subseteq guardLibs
  <2>1. ~Closed(a)
    BY DEF EnsureProbed, Note, Disturbed
  <2> QED
    BY <1>f, <2>1 DEF Closed, LibsOpen, Disturbed
<1>2. JobOpen(a)' /\ ProbeIsSound(a)' /\ pc'[a] \notin Busy
  BY <1>f, <1>1 DEF JobOpen, ProbeIsSound, Busy, Probing
<1>3. \A f \in ProbeFiles : ~Holds(a, f) /\ ~Holds(a, f)'
  BY <1>f DEF Holds, Busy, Probing
<1>4. CacheTrue'
  BY <1>i, <1>f DEF CacheTrue, Truth
<1> QED
  BY <1>i, <1>s, <1>f, <1>2, <1>3, <1>4, Probed, ProbeAlone

\* Nothing is forgotten.
LEMMA ClashGrows == Base /\ [Next]_vars => clash \subseteq clash'
<1> SUFFICES ASSUME Base, [Next]_vars PROVE clash \subseteq clash'
  OBVIOUS
<1>1. ASSUME NEW a \in Actor, Request(a) \/ Step(a) \/ ReadFails(a) PROVE clash \subseteq clash'
  BY <1>1, Requested, ConfigureFrame, ReloadFrame, ProbeFrame, FailsFrame DEF Base, Step
<1>2. CASE Crash
  BY <1>2 DEF Crash, Note
<1>3. CASE UNCHANGED vars \/ \E v \in BOOLEAN : PutSettingsFails(v)
  BY <1>3, OtherFrame DEF Base
<1> QED
  BY <1>1, <1>2, <1>3 DEF Next

LEMMA NextProbe ==
    Base /\ OneLoad /\ LibsOpen /\ NothingLeft /\ ProbeInv /\ [Next]_vars => ProbeInv'
<1> SUFFICES ASSUME Base, OneLoad, LibsOpen, NothingLeft, ProbeInv, [Next]_vars, ~Disturbed'
             PROVE  ProbeInv'
  BY DEF ProbeInv
<1>d. ~Disturbed
  BY ClashGrows DEF Disturbed
<1>i. JobsOpen /\ (\A b \in Actor : ProbeIsSound(b)) /\ Apart /\ FilesHeld /\ CacheTrue
  BY <1>d DEF ProbeInv
<1> USE DEF Base, rootVars, dryVars, storeVars, probeVars, listVars, jobVars, localVars
<1>1. ASSUME NEW a \in Actor, Request(a) PROVE ProbeInv'
  <2>1. /\ \A b \in Actor \ {a} : Stays(b)
        /\ pc[a] \notin Probing /\ pc'[a] \notin Probing
        /\ UNCHANGED <<guardDry, guardLibs>> /\ roots \subseteq roots'
    BY <1>1, OthersStay, Requested, RequestFrame DEF Probing
  <2>2. UNCHANGED <<files, cache>>
    BY <1>1
    DEF Request, PutSettings, Reloads, SaveLibrary, DeleteLibrary, SaveClient, DeleteClient, Scan,
        Execute
  <2>3. \A b \in Actor : pc[b] \in Probing \/ pc'[b] \in Probing => Stays(b)
    BY <2>1
  <2> QED
    BY <1>i, <2>1, <2>2, <2>3, ProbeKept DEF Stays
<1>2. ASSUME NEW a \in Actor, Configure(a) PROVE ProbeInv'
  <2>1. /\ \A b \in Actor \ {a} : Stays(b)
        /\ pc[a] \notin Probing /\ pc'[a] \notin Probing
        /\ UNCHANGED <<guardLibs, roots>>
    BY <1>2, OthersStay, ConfigureFrame DEF Step, Probing
  <2>2. UNCHANGED <<files, cache>>
    BY <1>2 DEF Configure, LoadConfig, SetConfig, SetDryRun, ShowConfig
  <2>3. \A b \in Actor : pc[b] \in Probing \/ pc'[b] \in Probing => Stays(b)
    BY <2>1
  <2>4. guardDry' = guardDry \/ guardDry' = FALSE \/ \A b \in Actor : pc'[b] \notin Probing
    <3>1. CASE SetDryRun(a)
      <4>1. guardDry' = dry[a] /\ dry[a] \in BOOLEAN
        BY <3>1 DEF SetDryRun, TypeOK
      <4>2. dry[a] => \A b \in Actor \ {a} : pc[b] \notin Probing
        BY <3>1 DEF SetDryRun, Note, Disturbed
      <4> QED
        BY <2>1, <4>1, <4>2 DEF Stays
    <3>2. CASE LoadConfig(a) \/ SetConfig(a) \/ ShowConfig(a)
      BY <3>2 DEF LoadConfig, SetConfig, ShowConfig
    <3> QED
      BY <1>2, <3>1, <3>2 DEF Configure
  <2> QED
    BY <1>i, <2>1, <2>2, <2>3, <2>4, ProbeKept DEF Stays
<1>3. ASSUME NEW a \in Actor, Reload(a) PROVE ProbeInv'
  <2>1. /\ \A b \in Actor \ {a} : Stays(b)
        /\ pc[a] \notin Probing /\ pc'[a] \notin Probing
        /\ guardDry' = guardDry /\ roots \subseteq roots'
    BY <1>3, OthersStay, ReloadFrame DEF Step, Probing
  <2>2. UNCHANGED <<files, cache>>
    BY <1>3
    DEF Reload, ListClients, ListLibraries, ResetLibraryRoots, AddLibraryRoot, SetLibraries
  <2>3. \A b \in Actor : pc[b] \in Probing \/ pc'[b] \in Probing => Stays(b)
    BY <2>1
  <2>4. guardLibs \subseteq guardLibs' \/ \A b \in Actor : pc'[b] \notin Probing
    <3>1. CASE ResetLibraryRoots(a)
      <4>1. \A b \in Actor \ {a} : pc[b] \notin Probing
        BY <3>1 DEF ResetLibraryRoots, Note, Disturbed
      <4> QED
        BY <2>1, <4>1 DEF Stays
    <3>2. CASE ~ResetLibraryRoots(a)
      BY <1>3, <3>2 DEF Reload, ListClients, ListLibraries, AddLibraryRoot, SetLibraries
    <3> QED
      BY <3>1, <3>2
  <2> QED
    BY <1>i, <2>1, <2>2, <2>3, <2>4, ProbeKept DEF Stays
<1>4. ASSUME NEW a \in Actor, SkipItem(a) \/ KeepPlan(a) \/ Place(a) \/ ReadFails(a) PROVE ProbeInv'
  <2>1. \A b \in Actor \ {a} : Stays(b)
    BY <1>4, OthersStay DEF Step, Work
  <2>2. /\ pc[a] \notin Probing /\ pc'[a] \notin Probing
        /\ UNCHANGED <<files, cache, guardDry, guardLibs, roots>>
    BY <1>4 DEF SkipItem, KeepPlan, Place, ReadFails, Ends, TypeOK, Probing
  <2>3. \A b \in Actor : pc[b] \in Probing \/ pc'[b] \in Probing => Stays(b)
    BY <2>1, <2>2
  <2> QED
    BY <1>i, <2>2, <2>3, ProbeKept DEF Stays
<1>5. ASSUME NEW a \in Actor, Probe(a) PROVE ProbeInv'
  BY <1>d, <1>5, PickProbe, RemoveProbe, CreateProbe, LinkedProbe DEF Probe
<1>6. ASSUME NEW a \in Actor, \E r \in Source : EnsureProbed(a, r) PROVE ProbeInv'
  BY <1>d, <1>6, EnsuredProbe
<1>7. CASE Crash
  BY <1>7 DEF Crash, Note, Disturbed
<1>8. CASE UNCHANGED vars \/ \E v \in BOOLEAN : PutSettingsFails(v)
  <2>1. UNCHANGED <<files, cache, guardDry, guardLibs, roots, pc, at, todo, out>>
    BY <1>8, OtherFrame
  <2> QED
    BY <1>i, <2>1, ProbeKept
<1> QED
  BY <1>1, <1>2, <1>3, <1>4, <1>5, <1>6, <1>7, <1>8 DEF Next, Step, Work

\* The conjunction the probes rest on.
ProbesFit == Base /\ OneLoad /\ LibsOpen /\ NothingLeft /\ ProbeInv

LEMMA ProbesInit == Init => ProbesFit
<1> SUFFICES ASSUME Init PROVE OneLoad /\ LibsOpen /\ NothingLeft /\ ProbeInv
  BY BaseInit DEF ProbesFit
<1>1. pc = Starting /\ \A a \in Actor : pc[a] \in {"clients", "idle"}
  BY DEF Init, Starting
<1>2. OneLoad
  BY DEF Init, Starting, AtStart, OneLoad, Active
<1>3. LibsOpen /\ NothingLeft
  BY <1>1 DEF Init, LibsOpen, Nothing, NothingLeft
<1>4. JobsOpen /\ (\A a \in Actor : ProbeIsSound(a)) /\ Apart
  BY <1>1 DEF JobsOpen, JobOpen, ProbeIsSound, Apart, Busy, Probing
<1>5. FilesHeld
  BY <1>1 DEF Init, FilesHeld, Holds, Busy, Probing
<1>6. CacheTrue
  BY DEF Init, NotProbed, CacheTrue, Pairs
<1> QED
  BY <1>2, <1>3, <1>4, <1>5, <1>6 DEF ProbeInv

LEMMA NextProbesFit == ProbesFit /\ [Next]_vars => ProbesFit'
BY NextBase, NextOneLoad, NextLibsOpen, NextNothingLeft, NextProbe DEF ProbesFit

LEMMA ProbesInvariant == Spec => []ProbesFit
BY ProbesInit, NextProbesFit, PTL DEF Spec

\* The cache says of a pair what link(2) does with it, and no probe file outlives its
\* probe, unless another probe of one of its roots, a guard that closes under it or the
\* death of the process came between (Prober.probePair): any number of requests, scans
\* and reloads may probe at the same time.
THEOREM CacheHolds == Spec => []CacheIsTrue
<1>1. ProbesFit => CacheIsTrue
  <2> SUFFICES ASSUME ProbesFit, ~Disturbed
               PROVE  /\ \A p \in Source \X Lib : cache[p] # "none" => cache[p] = Truth(p)
                      /\ (\A a \in Actor : pc[a] \notin Probing) => files = {}
    BY DEF CacheIsTrue
  <2>1. CacheTrue /\ FilesHeld /\ files \subseteq ProbeFiles
    BY DEF ProbesFit, ProbeInv, Base, TypeOK, ProbeFiles
  <2>2. ASSUME \A a \in Actor : pc[a] \notin Probing PROVE files = {}
    BY <2>1, <2>2 DEF FilesHeld, Holds, Busy, Probing
  <2> QED
    BY <2>1, <2>2 DEF CacheTrue, Pairs
<1> QED
  BY <1>1, ProbesInvariant, PTL

-----------------------------------------------------------------------------
(* Plans and their execution *)

\* A pair known to link.
Known(p) == cache[p] # "none" /\ Truth(p) = "available"

\* What the plan was decided on still holds.
PlanSound ==
    plan # NoPlan =>
        Deepest(plan.root) /\ (plan.method = "hardlink" => Known(<<plan.root, Target>>))

\* So does what a plan is being decided on, and what an execution may do.
Decides(a) ==
    /\ doing[a] = "scan" /\ pc[a] # "save" => Deepest(at[a][1]) /\ at[a][2] = Target
    /\ pc[a] = "keep" /\ out[a] = "available" => Known(at[a])
    /\ pc[a] = "place" => out[a] # "separate"

PlanInv ==
    ~Disturbed /\ "deeper" \notin clash =>
        PlanSound /\ (\A a \in Actor : Decides(a)) /\ ran # "copied"

\* An execution that has begun is let through.
RefuseInv ==
    clash \cap {"switch", "config", "reload", "fail"} = {} =>
        /\ \A a \in Actor : pc[a] = "place" => ~guardDry /\ Target \in guardLibs
        /\ ran # "refused"

LEMMA NextRefuse ==
    Base /\ LibsOpen /\ DryInv /\ RefuseInv /\ [Next]_vars => RefuseInv'
<1> SUFFICES ASSUME Base, LibsOpen, DryInv, RefuseInv, [Next]_vars,
                    clash' \cap {"switch", "config", "reload", "fail"} = {}
             PROVE  RefuseInv'
  BY DEF RefuseInv
<1>i. /\ clash \cap {"switch", "config", "reload", "fail"} = {}
      /\ \A a \in Actor : pc[a] = "place" => ~guardDry /\ Target \in guardLibs
      /\ ran # "refused"
  BY ClashGrows DEF RefuseInv
<1> USE DEF Base, rootVars, dryVars, storeVars, planVars, listVars, jobVars, localVars
<1>1. ASSUME NEW a \in Actor, Request(a) PROVE RefuseInv'
  <2>1. /\ \A b \in Actor \ {a} : Stays(b)
        /\ UNCHANGED <<guardDry, guardLibs, libs, cfgDry>> /\ pc[a] = "idle"
    BY <1>1, OthersStay, Requested, RequestFrame
  <2>2. ran' = ran
    BY <1>1
    DEF Request, PutSettings, Reloads, SaveLibrary, DeleteLibrary, SaveClient, DeleteClient, Scan,
        Execute
  <2>3. ASSUME pc'[a] = "place" PROVE ~guardDry /\ Target \in guardLibs
    <3>1. PICK r \in Source : Execute(a, r)
      BY <1>1, <2>3
      DEF Request, PutSettings, Reloads, SaveLibrary, DeleteLibrary, SaveClient, DeleteClient,
          Scan, Begin, Goto, TypeOK
    <3>2. ~Closed(a) /\ \A b \in Actor : pc[b] # "setguard"
      BY <3>1 DEF Execute, Note
    <3>3. libs \subseteq guardLibs
      BY <1>i, <2>1, <3>2 DEF LibsOpen, Closed
    <3>4. guardDry = cfgDry
      BY <1>i, <3>2 DEF DryInv
    <3> QED
      BY <3>1, <3>3, <3>4 DEF Execute
  <2> QED
    BY <1>i, <2>1, <2>2, <2>3 DEF RefuseInv, Stays
<1>2. ASSUME NEW a \in Actor, Configure(a) PROVE RefuseInv'
  <2>1. /\ \A b \in Actor \ {a} : Stays(b)
        /\ pc'[a] # "place" /\ guardLibs' = guardLibs
    BY <1>2, OthersStay, ConfigureFrame DEF Step
  <2>2. ran' = ran
    BY <1>2 DEF Configure, LoadConfig, SetConfig, SetDryRun, ShowConfig
  <2>3. guardDry' = guardDry \/ guardDry' = FALSE \/ \A b \in Actor \ {a} : pc[b] # "place"
    <3>1. CASE SetDryRun(a)
      BY <3>1 DEF SetDryRun, TypeOK, Note
    <3>2. CASE LoadConfig(a) \/ SetConfig(a) \/ ShowConfig(a)
      BY <3>2 DEF LoadConfig, SetConfig, ShowConfig
    <3> QED
      BY <1>2, <3>1, <3>2 DEF Configure
  <2> QED
    BY <1>i, <2>1, <2>2, <2>3 DEF RefuseInv, Stays
<1>3. ASSUME NEW a \in Actor, Reload(a) PROVE RefuseInv'
  <2>1. /\ \A b \in Actor \ {a} : Stays(b)
        /\ pc'[a] # "place" /\ guardDry' = guardDry
    BY <1>3, OthersStay, ReloadFrame DEF Step
  <2>2. ran' = ran
    BY <1>3
    DEF Reload, ListClients, ListLibraries, ResetLibraryRoots, AddLibraryRoot, SetLibraries
  <2>3. guardLibs \subseteq guardLibs' \/ \A b \in Actor \ {a} : pc[b] # "place"
    <3>1. CASE ResetLibraryRoots(a)
      BY <3>1 DEF ResetLibraryRoots, Note
    <3>2. CASE ~ResetLibraryRoots(a)
      BY <1>3, <3>2 DEF Reload, ListClients, ListLibraries, AddLibraryRoot, SetLibraries
    <3> QED
      BY <3>1, <3>2
  <2> QED
    BY <1>i, <2>1, <2>2, <2>3 DEF RefuseInv, Stays
<1>4. ASSUME NEW a \in Actor, Probe(a) \/ Work(a) \/ ReadFails(a) PROVE RefuseInv'
  <2>1. /\ \A b \in Actor \ {a} : Stays(b)
        /\ pc'[a] # "place" /\ UNCHANGED <<guardDry, guardLibs>>
    BY <1>4, OthersStay, ProbeFrame, FailsFrame DEF Step, Probing
  <2>2. ran' # "refused"
    <3>1. CASE Place(a)
      BY <1>i, <3>1 DEF Place
    <3>2. CASE Probe(a)
      BY <1>i, <3>2
      DEF Probe, ProbeAllPairs, PickPair, PairsDone, CreateWrite, RemoveWrite, CreateSrc, RemoveOld,
          LinkProbe, RemoveDst, RemoveSrc, CachePut
    <3>3. CASE SkipItem(a) \/ KeepPlan(a) \/ ReadFails(a) \/ \E r \in Source : EnsureProbed(a, r)
      BY <1>i, <3>3 DEF SkipItem, KeepPlan, ReadFails, EnsureProbed
    <3> QED
      BY <1>4, <3>1, <3>2, <3>3 DEF Work
  <2> QED
    BY <1>i, <2>1, <2>2 DEF RefuseInv, Stays
<1>5. CASE Crash
  BY <1>i, <1>5 DEF Crash, Starting, RefuseInv
<1>6. CASE UNCHANGED vars \/ \E v \in BOOLEAN : PutSettingsFails(v)
  BY <1>i, <1>6, OtherFrame DEF RefuseInv
<1> QED
  BY <1>1, <1>2, <1>3, <1>4, <1>5, <1>6 DEF Next, Step

\* A root stays the deepest as long as no deeper one is noted.
LEMMA DeepestStays ==
    ASSUME Base, [Next]_vars, ~Crash, "deeper" \notin clash', NEW r \in Source, Deepest(r),
           \/ plan # NoPlan /\ r = plan.root
           \/ \E b \in Actor : doing[b] = "scan" /\ pc[b] \in Probing \cup {"keep"} /\ r = at[b][1]
    PROVE  Deepest(r)'
<1> USE DEF Base, rootVars
<1>d. ASSUME NEW S \in SUBSET Source, roots' = roots \cup S, ~Deepens(S \ roots)
      PROVE  Deepest(r)'
  <2>1. \A s \in S \ roots : Depth[s] <= Depth[r]
    BY <1>d, SourceAssumption DEF Deepens
  <2> QED
    BY <1>d, <2>1 DEF Deepest
<1>1. ASSUME NEW a \in Actor, Request(a) PROVE Deepest(r)'
  <2>1. ASSUME NEW s \in Source, Scan(a, s) PROVE Deepest(r)'
    BY <1>d, <2>1 DEF Scan, Note
  <2>2. CASE ~\E s \in Source : Scan(a, s)
    <3>1. roots' = roots
      BY <1>1, <2>2
      DEF Request, PutSettings, Reloads, SaveLibrary, DeleteLibrary, SaveClient, DeleteClient,
          Execute
    <3> QED
      BY <3>1 DEF Deepest
  <2> QED
    BY <2>1, <2>2
<1>2. ASSUME NEW a \in Actor, Reload(a) PROVE Deepest(r)'
  <2>1. CASE ListLibraries(a)
    <3>1. maps[a] \in SUBSET Source
      BY DEF TypeOK
    <3> QED
      BY <1>d, <2>1, <3>1 DEF ListLibraries, Note
  <2>2. CASE ~ListLibraries(a)
    <3>1. roots' = roots
      BY <1>2, <2>2 DEF Reload, ListClients, ResetLibraryRoots, AddLibraryRoot, SetLibraries
    <3> QED
      BY <3>1 DEF Deepest
  <2> QED
    BY <2>1, <2>2
<1>3. ASSUME NEW a \in Actor, Configure(a) \/ Probe(a) \/ Work(a) \/ ReadFails(a) PROVE Deepest(r)'
  BY <1>3, ConfigureFrame, ProbeFrame, FailsFrame DEF Deepest
<1>4. CASE UNCHANGED vars \/ \E v \in BOOLEAN : PutSettingsFails(v)
  BY <1>4, OtherFrame DEF Deepest
<1> QED
  BY <1>1, <1>2, <1>3, <1>4 DEF Next, Step

\* An answer that nothing disturbs stays.
LEMMA AnswerStays ==
    ASSUME ProbesFit, [Next]_vars, ~Disturbed', NEW p \in Pairs, cache[p] # "none"
    PROVE  cache'[p] # "none"
<1> USE DEF Base, ProbesFit, rootVars, dryVars, storeVars, probeVars, planVars
<1>1. ASSUME NEW a \in Actor, CachePut(a) PROVE cache'[p] # "none"
  <2>1. out[a] # "none"
    <3>1. ~Disturbed
      BY ClashGrows DEF Disturbed
    <3>2. out[a] = Truth(at[a])
      BY <1>1, <3>1 DEF CachePut, Goto, ProbeInv, ProbeIsSound
    <3> QED
      BY <3>2 DEF Truth
  <2>2. cache'[p] = cache[p] \/ cache'[p] = out[a]
    BY <1>1 DEF CachePut, TypeOK, Pairs
  <2> QED
    BY <2>1, <2>2
<1>2. ASSUME cache' = cache PROVE cache'[p] # "none"
  BY <1>2
<1>3. ASSUME NEW a \in Actor, Request(a) \/ Configure(a) \/ Reload(a) PROVE cache' = cache
  BY <1>3
  DEF Request, PutSettings, Reloads, SaveLibrary, DeleteLibrary, SaveClient, DeleteClient, Scan,
      Execute, Configure, LoadConfig, SetConfig, SetDryRun, ShowConfig, Reload, ListClients,
      ListLibraries, ResetLibraryRoots, AddLibraryRoot, SetLibraries
<1>4. ASSUME NEW a \in Actor, Probe(a), ~CachePut(a) PROVE cache' = cache
  BY <1>4
  DEF Probe, ProbeAllPairs, PickPair, PairsDone, CreateWrite, RemoveWrite, CreateSrc, RemoveOld,
      LinkProbe, RemoveDst, RemoveSrc
<1>5. ASSUME NEW a \in Actor, Work(a) \/ ReadFails(a) PROVE cache' = cache
  BY <1>5 DEF Work, SkipItem, EnsureProbed, KeepPlan, Place, ReadFails
<1>6. CASE Crash
  BY <1>6 DEF Crash, Note, Disturbed
<1>7. CASE UNCHANGED vars \/ \E v \in BOOLEAN : PutSettingsFails(v)
  BY <1>2, <1>7, OtherFrame
<1> QED
  BY <1>1, <1>2, <1>3, <1>4, <1>5, <1>6, <1>7 DEF Next, Step

LEMMA KnownStays ==
    ASSUME ProbesFit, [Next]_vars, ~Disturbed', NEW p \in Pairs, Known(p)
    PROVE  Known(p)'
BY AnswerStays DEF Known, Truth

\* A probe of a scan keeps to the pair of its plan, and tells the truth of it.
LEMMA DecidesProbe ==
    ASSUME ProbesFit, [Next]_vars, ~Disturbed, NEW a \in Actor, Probe(a), Decides(a),
           doing[a] = "scan", NEW r \in Source, r = at[a][1], Deepest(r)',
           \A p \in Pairs : Known(p) => Known(p)'
    PROVE  Decides(a)'
<1> USE DEF ProbesFit, Base, TypeOK
<1>1. pc[a] \in PairPoints /\ at[a] \in Pairs
  <2>1. pc[a] \in {"save", "keep"} \cup PairPoints
    BY DEF Shape, InPlace, Fits
  <2>2. pc[a] \in {"pairs"} \cup Probing
    BY
    DEF Probe, ProbeAllPairs, PickPair, PairsDone, CreateWrite, RemoveWrite, CreateSrc, RemoveOld,
        LinkProbe, RemoveDst, RemoveSrc, CachePut, Goto, Probing
  <2>3. pc[a] \in PairPoints
    BY <2>1, <2>2 DEF PairPoints, Probing
  <2> QED
    BY <2>3 DEF JobsInOrder, JobInOrder, Pairs
<1>2. CreateSrc(a) \/ RemoveOld(a) \/ LinkProbe(a) \/ RemoveDst(a) \/ RemoveSrc(a) \/ CachePut(a)
  BY <1>1
  DEF Probe, ProbeAllPairs, PickPair, PairsDone, CreateWrite, RemoveWrite, Goto, PairPoints, Probing
<1>3. at' = at /\ pc[a] # "save" /\ pc'[a] # "place"
  BY <1>1, <1>2
  DEF CreateSrc, RemoveOld, LinkProbe, RemoveDst, RemoveSrc, CachePut, Goto, Return, PairPoints,
      Probing, jobVars, localVars
<1>4. ASSUME pc'[a] = "keep", out'[a] = "available" PROVE Known(at[a])'
  <2>1. CachePut(a)
    BY <1>2, <1>4
    DEF CreateSrc, RemoveOld, LinkProbe, RemoveDst, RemoveSrc, Goto, Unwritten
  <2>2. out[a] = Truth(at[a]) /\ out' = out
    BY <2>1 DEF CachePut, Goto, ProbeInv, ProbeIsSound, jobVars, localVars
  <2>3. cache'[at[a]] = out[a]
    BY <1>1, <2>1 DEF CachePut, Pairs
  <2> QED
    BY <1>3, <1>4, <2>2, <2>3 DEF Known, Truth
<1> QED
  BY <1>3, <1>4 DEF Decides, Deepest, Known, Truth

LEMMA NextPlan == ProbesFit /\ ProbesFit' /\ PlanInv /\ [Next]_vars => PlanInv'
<1> SUFFICES ASSUME ProbesFit, ProbesFit', PlanInv, [Next]_vars, ~Disturbed',
                    "deeper" \notin clash'
             PROVE  PlanSound' /\ (\A a \in Actor : Decides(a)') /\ ran' # "copied"
  BY DEF PlanInv
<1>c. ~Crash /\ ~Disturbed /\ "deeper" \notin clash
  BY ClashGrows DEF Crash, Note, Disturbed, ProbesFit
<1>i. PlanSound /\ (\A a \in Actor : Decides(a)) /\ ran # "copied" /\ CacheTrue
  BY <1>c DEF PlanInv, ProbesFit, ProbeInv
<1>k. \A p \in Pairs : Known(p) => Known(p)'
  BY KnownStays
<1>t. /\ TypeOK /\ TypeOK' /\ Base
      /\ plan # NoPlan => plan.root \in Source /\ <<plan.root, Target>> \in Pairs
  BY TopologyAssumption DEF ProbesFit, Base, TypeOK, Plans, Pairs
<1>d. /\ plan # NoPlan => Deepest(plan.root)
      /\ \A b \in Actor : doing[b] = "scan" /\ pc[b] # "save" =>
            /\ at[b] \in Pairs /\ pc[b] \in Probing \cup {"keep"}
            /\ Deepest(at[b][1]) /\ at[b][2] = Target
  <2> SUFFICES ASSUME NEW b \in Actor, doing[b] = "scan", pc[b] # "save"
               PROVE  at[b] \in Pairs /\ pc[b] \in Probing \cup {"keep"}
    BY <1>i DEF PlanSound, Decides
  <2>1. pc[b] \in {"keep"} \cup PairPoints
    BY DEF ProbesFit, Base, Shape, InPlace, Fits
  <2> QED
    BY <2>1 DEF ProbesFit, Base, JobsInOrder, JobInOrder, PairPoints, Probing, Pairs
<1>r. /\ \A r \in Source : plan # NoPlan /\ r = plan.root => Deepest(r)'
      /\ \A r \in Source, b \in Actor :
            doing[b] = "scan" /\ pc[b] # "save" /\ r = at[b][1] => Deepest(r)'
  <2>1. ASSUME NEW r \in Source, plan # NoPlan /\ r = plan.root PROVE Deepest(r)'
    <3>1. Deepest(r)
      BY <1>d, <2>1
    <3> QED
      BY <1>c, <1>t, <2>1, <3>1, DeepestStays
  <2>2. ASSUME NEW r \in Source, NEW b \in Actor,
               doing[b] = "scan" /\ pc[b] # "save" /\ r = at[b][1]
        PROVE  Deepest(r)'
    <3>1. Deepest(r) /\ pc[b] \in Probing \cup {"keep"}
      BY <1>d, <2>2
    <3> QED
      BY <1>c, <1>t, <2>2, <3>1, DeepestStays
  <2> QED
    BY <2>1, <2>2
<1>p. ASSUME plan' = plan PROVE PlanSound'
  <2> SUFFICES ASSUME plan # NoPlan
               PROVE  /\ Deepest(plan.root)'
                      /\ plan.method = "hardlink" => Known(<<plan.root, Target>>)'
    BY <1>p DEF PlanSound
  <2>1. plan.root \in Source /\ <<plan.root, Target>> \in Pairs
    BY <1>t
  <2>2. Deepest(plan.root)'
    BY <1>p, <1>r, <2>1 DEF Deepest
  <2>3. plan.method = "hardlink" => Known(<<plan.root, Target>>)'
    BY <1>i, <1>k, <1>p, <2>1 DEF PlanSound, Known, Truth
  <2> QED
    BY <2>2, <2>3
<1>o. ASSUME NEW b \in Actor, Stays(b) PROVE Decides(b)'
  <2>1. ASSUME doing[b] = "scan", pc[b] # "save" PROVE Deepest(at[b][1])' /\ at'[b][2] = Target
    <3>1. at[b][1] \in Source
      BY <1>d, <2>1 DEF Pairs
    <3> QED
      BY <1>d, <1>o, <1>r, <2>1, <3>1 DEF Deepest, Stays
  <2>2. ASSUME pc[b] = "keep", out[b] = "available" PROVE Known(at[b])'
    <3>1. at[b] \in Pairs /\ Known(at[b])
      BY <1>i, <2>2 DEF Decides, ProbesFit, Base, JobsInOrder, JobInOrder, Pairs
    <3> QED
      BY <1>k, <1>o, <3>1 DEF Known, Truth, Stays
  <2> QED
    BY <1>i, <1>o, <2>1, <2>2 DEF Decides, Stays
<1> USE DEF storeVars, planVars, listVars, jobVars, localVars
<1>1. ASSUME NEW a \in Actor, Request(a)
      PROVE  PlanSound' /\ (\A b \in Actor : Decides(b)') /\ ran' # "copied"
  <2>1. plan' = plan /\ ran' = ran
    BY <1>1
    DEF Request, PutSettings, Reloads, SaveLibrary, DeleteLibrary, SaveClient, DeleteClient, Scan,
        Execute
  <2>2. \A b \in Actor \ {a} : Stays(b)
    BY <1>1, <1>t, OthersStay
  <2>3. Decides(a)'
    <3>1. ASSUME NEW r \in Source, Execute(a, r) PROVE out'[a] # "separate"
      <4>1. Deepest(r) /\ plan # NoPlan
        BY <3>1 DEF Execute
      <4>2. r = plan.root
        BY <1>d, <1>t, <4>1, SourceAssumption DEF Deepest
      <4>3. plan.method = "hardlink" => AllowLink(r)
        BY <1>i, <1>t, <4>1, <4>2 DEF PlanSound, Known, CacheTrue, AllowLink
      <4> QED
        BY <1>t, <3>1, <4>3 DEF Execute, TypeOK
    <3>2. pc'[a] = "place" => \E r \in Source : Execute(a, r)
      BY <1>1, <1>t
      DEF Request, PutSettings, Reloads, SaveLibrary, DeleteLibrary, SaveClient, DeleteClient,
          Scan, Begin, Goto, TypeOK
    <3> QED
      BY <1>1, <1>t, <3>1, <3>2, Requested DEF Decides
  <2> QED
    BY <1>i, <1>p, <1>o, <2>1, <2>2, <2>3
<1>2. ASSUME NEW a \in Actor, Configure(a) \/ Reload(a) \/ ReadFails(a)
      PROVE  PlanSound' /\ (\A b \in Actor : Decides(b)') /\ ran' # "copied"
  <2>1. plan' = plan /\ ran' = ran
    BY <1>2
    DEF Configure, LoadConfig, SetConfig, SetDryRun, ShowConfig, Reload, ListClients, ListLibraries,
        ResetLibraryRoots, AddLibraryRoot, SetLibraries, ReadFails
  <2>2. \A b \in Actor \ {a} : Stays(b)
    BY <1>2, <1>t, OthersStay DEF Step
  <2>3. pc'[a] \notin {"keep", "place"} /\ doing'[a] \in {doing[a], "boot"}
    BY <1>2, <1>t, ConfigureFrame, ReloadFrame, FailsFrame
  <2>4. doing[a] # "scan"
    BY <1>2, <1>t, ConfigureFrame, ReloadFrame, FailsFrame
    DEF Base, Shape, InPlace, Fits, PairPoints, Probing
  <2> QED
    BY <1>i, <1>p, <1>o, <2>1, <2>2, <2>3, <2>4 DEF Decides
<1>3. ASSUME NEW a \in Actor, Probe(a)
      PROVE  PlanSound' /\ (\A b \in Actor : Decides(b)') /\ ran' # "copied"
  <2>1. plan' = plan /\ ran' = ran
    BY <1>3
    DEF Probe, ProbeAllPairs, PickPair, PairsDone, CreateWrite, RemoveWrite, CreateSrc, RemoveOld,
        LinkProbe, RemoveDst, RemoveSrc, CachePut
  <2>2. \A b \in Actor \ {a} : Stays(b)
    BY <1>3, <1>t, OthersStay DEF Step
  <2>3. CASE doing[a] = "scan"
    <3>1. pc[a] # "save"
      BY <1>3
      DEF Probe, ProbeAllPairs, PickPair, PairsDone, CreateWrite, RemoveWrite, CreateSrc, RemoveOld,
          LinkProbe, RemoveDst, RemoveSrc, CachePut, Goto
    <3>2. at[a][1] \in Source
      BY <1>d, <2>3, <3>1 DEF Pairs
    <3>3. Decides(a)'
      BY <1>c, <1>i, <1>k, <1>r, <1>3, <2>3, <3>1, <3>2, DecidesProbe
    <3> QED
      BY <1>i, <1>p, <1>o, <2>1, <2>2, <3>3
  <2>4. CASE doing[a] # "scan"
    <3>1. pc[a] \in Probing \cup {"pairs"}
      BY <1>3
      DEF Probe, ProbeAllPairs, PickPair, PairsDone, CreateWrite, RemoveWrite, CreateSrc, RemoveOld,
          LinkProbe, RemoveDst, RemoveSrc, CachePut, Goto, Probing
    <3>2. pc'[a] \notin {"keep", "place"} /\ doing'[a] # "scan"
      BY <1>3, <1>t, <2>4, <3>1, ProbeFrame DEF Probing
    <3> QED
      BY <1>i, <1>p, <1>o, <2>1, <2>2, <3>2 DEF Decides
  <2> QED
    BY <2>3, <2>4
<1>4. ASSUME NEW a \in Actor, NEW r \in Source, EnsureProbed(a, r)
      PROVE  PlanSound' /\ (\A b \in Actor : Decides(b)') /\ ran' # "copied"
  <2>1. plan' = plan /\ ran' = ran /\ roots' = roots /\ cache' = cache
    BY <1>4 DEF EnsureProbed, rootVars, probeVars
  <2>2. \A b \in Actor \ {a} : Stays(b)
    BY <1>4, <1>t, OthersStay DEF Step, Work
  <2>3. /\ at'[a] = <<r, Target>> /\ out'[a] = cache[<<r, Target>>] /\ Deepest(r)
        /\ pc'[a] = IF cache[<<r, Target>>] = "none" THEN "create" ELSE "keep"
    BY <1>4, <1>t DEF EnsureProbed, TypeOK
  <2>4. <<r, Target>> \in Pairs
    BY TopologyAssumption DEF Pairs
  <2>5. out'[a] = "available" => Known(<<r, Target>>)
    BY <1>i, <2>3, <2>4 DEF CacheTrue, Known
  <2>6. Decides(a)'
    BY <2>1, <2>3, <2>5 DEF Decides, Deepest, Known, Truth
  <2> QED
    BY <1>i, <1>p, <1>o, <2>1, <2>2, <2>6
<1>5. ASSUME NEW a \in Actor, KeepPlan(a)
      PROVE  PlanSound' /\ (\A b \in Actor : Decides(b)') /\ ran' # "copied"
  <2>1. pc[a] = "keep" /\ ran' = ran /\ roots' = roots /\ cache' = cache
    BY <1>5 DEF KeepPlan, rootVars, probeVars
  <2>2. \A b \in Actor \ {a} : Stays(b)
    BY <1>5, <1>t, OthersStay DEF Step, Work
  <2>3. doing[a] = "scan"
    BY <1>t, <2>1 DEF Base, Shape, InPlace, Fits, Requests, Loaders, Probing
  <2>4. at[a] = <<at[a][1], Target>> /\ Deepest(at[a][1])
    BY <1>d, <2>1, <2>3 DEF Pairs
  <2>5. out[a] = "available" => Known(at[a])
    BY <1>i, <2>1 DEF Decides
  <2>6. /\ plan'.root = at[a][1]
        /\ plan'.method = "hardlink" => out[a] = "available"
    BY <1>5 DEF KeepPlan
  <2>7. PlanSound'
    BY <2>1, <2>4, <2>5, <2>6 DEF PlanSound, Deepest, Known, Truth
  <2>8. pc'[a] = "idle" /\ doing'[a] = "boot"
    BY <1>5, <1>t DEF KeepPlan, Ends, TypeOK
  <2> QED
    BY <1>i, <1>o, <2>1, <2>2, <2>7, <2>8 DEF Decides
<1>6. ASSUME NEW a \in Actor, SkipItem(a) \/ Place(a)
      PROVE  PlanSound' /\ (\A b \in Actor : Decides(b)') /\ ran' # "copied"
  <2>1. \A b \in Actor \ {a} : Stays(b)
    BY <1>6, <1>t, OthersStay DEF Step, Work
  <2>2. pc'[a] = "idle" /\ doing'[a] = "boot"
    BY <1>6, <1>t DEF SkipItem, Place, Ends, TypeOK
  <2>3. plan' = plan \/ plan' = NoPlan
    BY <1>6 DEF SkipItem, Place
  <2>4. ran' # "copied"
    BY <1>i, <1>6 DEF SkipItem, Place, Decides
  <2> QED
    BY <1>p, <1>o, <2>1, <2>2, <2>3, <2>4 DEF Decides, PlanSound
<1>7. CASE UNCHANGED vars \/ \E v \in BOOLEAN : PutSettingsFails(v)
  <2>1. UNCHANGED <<plan, ran, pc, doing, localVars>>
    BY <1>7, <1>t, OtherFrame
  <2>2. \A b \in Actor : Stays(b)
    BY <2>1 DEF Stays
  <2> QED
    BY <1>i, <1>p, <1>o, <2>1, <2>2
<1> QED
  BY <1>c, <1>1, <1>2, <1>3, <1>4, <1>5, <1>6, <1>7 DEF Next, Step, Work

\* A plan that says hardlink is carried out as a copy only if a deeper root was registered
\* after it was decided, a probe was disturbed or the process died: savePlan and Execute
\* look the pair up under one key.  The guard stops an execution it let begin only if a
\* reload or a switch to dry-run came between, or two requests or a failure left guard
\* and pipeline apart.
THEOREM OutcomeHasCause == Spec => []OutcomeForCause
<1>1. Init => PlanInv /\ RefuseInv
  BY DEF Init, Starting, AtStart, PlanInv, RefuseInv, PlanSound, Decides
<1>2. Init => OneConfig /\ DryInv
  BY DEF Init, Starting, AtStart, OneConfig, DryInv, Active, Setting
<1>3. PlanInv /\ RefuseInv => OutcomeForCause
  BY DEF PlanInv, RefuseInv, OutcomeForCause
<1>4. ProbesFit => Base /\ LibsOpen
  BY DEF ProbesFit
<1> QED
  BY <1>1, <1>2, <1>3, <1>4, ProbesInvariant, BaseInvariant, NextBase, NextOneConfig, NextDry,
     NextRefuse, NextPlan, PTL DEF Spec

-----------------------------------------------------------------------------
(* When dry-run is off *)

Setters == Loaders \cup Setting

\* Nothing has come in the way of a request that applies its settings.
Clean == ~Disturbed /\ clash \cap {"config", "reload", "mixed", "fail"} = {}

OneSetter ==
    clash \cap {"config", "reload", "mixed"} = {} =>
        \A a, b \in Actor : Active(a, Setters) /\ Active(b, Setters) => a = b

\* What a goroutine found writable is of its present probes.
GoodIsNew == \A a \in Actor : pc[a] \notin Probing \cup {"show", "keep"} => good[a] = {}

\* Every configured pair has an answer, every library can be written to.
Covered == (\A s \in dbMaps, l \in dbLibs : cache[<<s, l>>] # "none") /\ writable = dbLibs

\* A goroutine that probes has them or will come to them.
Finding(a) ==
    /\ \A s \in dbMaps, l \in dbLibs :
         \/ cache[<<s, l>>] # "none" \/ <<s, l>> \in todo[a]
         \/ pc[a] \in PairPoints /\ at[a] = <<s, l>>
    /\ good[a] \subseteq dbLibs
    /\ \A l \in dbLibs :
         \/ l \in good[a] \/ <<l, l>> \in todo[a]
         \/ pc[a] = "writeable" /\ at[a] = <<l, l>>

\* Between two requests that register or probe.
Between == \A a \in Actor : ~Active(a, Setters) \/ pc[a] \in {"load", "setcfg", "show"}

Wet(a) ==
    /\ pc[a] = "setcfg" => was[a] = cfgDry
    /\ pc[a] = "setguard" /\ ~was[a] /\ ~dry[a] => Covered
    /\ ~cfgDry /\ Active(a, Setters) /\ pc[a] \in Probing => Finding(a)

WetInv == Clean => (~cfgDry /\ Between => Covered) /\ \A a \in Actor : Wet(a)

\* Two requests that apply settings, one beginning beside the other, leave a trace.
LEMMA RequestAlone ==
    ASSUME Base, NEW a \in Actor, Request(a), clash' \cap {"config", "reload", "mixed"} = {},
           Active(a, Setters)', NEW b \in Actor, Active(b, Setters)
    PROVE  FALSE
<1>1. /\ pc[a] = "idle" /\ pc[Main] = "idle"
      /\ pc'[a] \in {"load", "clients"}
  BY Requested DEF Base, Active, Setters, Setting, Loaders
<1>2. b # a /\ b # Main
  BY <1>1 DEF Active
<1>3. doing[b] \in {"settings", "library", "client"}
  BY <1>2 DEF Active, Setters, Setting, Loaders, Base, Shape, InPlace, Fits
<1>4. b \in Others(a, {"library", "client"}) \/ b \in Others(a, {"settings"})
  BY <1>2, <1>3 DEF Others, Active
<1>5. \/ \E v \in BOOLEAN : PutSettings(a, v)
      \/ \E what \in {"library", "client"} : Reloads(a, what)
  BY <1>1
  DEF Request, SaveLibrary, DeleteLibrary, SaveClient, DeleteClient, Scan, Execute, Begin, Goto,
      Base, TypeOK
<1>6. CASE \E v \in BOOLEAN : PutSettings(a, v)
  BY <1>4, <1>6 DEF PutSettings
<1>7. CASE \E what \in {"library", "client"} : Reloads(a, what)
  BY <1>4, <1>7 DEF Reloads
<1> QED
  BY <1>5, <1>6, <1>7

LEMMA NextOneSetter == Base /\ OneSetter /\ [Next]_vars => OneSetter'
<1> SUFFICES ASSUME Base, OneSetter, [Next]_vars, clash' \cap {"config", "reload", "mixed"} = {},
                    NEW b \in Actor, NEW c \in Actor,
                    Active(b, Setters)', Active(c, Setters)'
             PROVE  b = c
  BY DEF OneSetter
<1>d. clash \cap {"config", "reload", "mixed"} = {}
  BY ClashGrows
<1>1. ASSUME NEW a \in Actor, Request(a) PROVE b = c
  <2>1. \A d \in Actor \ {a} : Stays(d)
    BY <1>1, OthersStay DEF Base
  <2>2. b # a => Active(b, Setters)
    BY <2>1 DEF Stays, Active
  <2>3. c # a => Active(c, Setters)
    BY <2>1 DEF Stays, Active
  <2> QED
    BY <1>d, <1>1, <2>2, <2>3, RequestAlone DEF OneSetter
<1>2. ASSUME NEW a \in Actor, Step(a) \/ ReadFails(a) PROVE b = c
  BY <1>d, <1>2, StepKeepsActive DEF OneSetter
<1>3. CASE Crash
  BY <1>3 DEF Crash, Starting, Active
<1>4. CASE UNCHANGED vars \/ \E v \in BOOLEAN : PutSettingsFails(v)
  BY <1>d, <1>4, OtherFrame DEF OneSetter, Active, Base
<1> QED
  BY <1>1, <1>2, <1>3, <1>4 DEF Next

\* The libraries found are looked for in probes, and a handler's variables end with it.
LEMMA NextGood == Base /\ Base' /\ GoodIsNew /\ [Next]_vars => GoodIsNew'
<1> SUFFICES ASSUME Base, Base', GoodIsNew, [Next]_vars PROVE GoodIsNew'
  OBVIOUS
<1> USE DEF Base, listVars, jobVars, localVars
<1>1. ASSUME NEW a \in Actor, Request(a) \/ Step(a) \/ ReadFails(a) PROVE GoodIsNew'
  <2>1. \A b \in Actor \ {a} : Stays(b)
    BY <1>1, OthersStay
  <2>2. CASE Ends(a)
    BY <2>1, <2>2 DEF Ends, TypeOK, GoodIsNew, Stays
  <2>3. CASE pc'[a] \in Probing \cup {"show", "keep"}
    BY <2>1, <2>3 DEF GoodIsNew, Stays
  <2>4. CASE good' = good /\ pc[a] \notin Probing \cup {"show", "keep"}
    BY <2>1, <2>4 DEF GoodIsNew, Stays
  <2>5. \/ Ends(a) \/ pc'[a] \in Probing \cup {"show", "keep"}
        \/ good' = good /\ pc[a] \notin Probing \cup {"show", "keep"}
    <3>1. CASE Request(a)
      <4>1. pc[a] = "idle"
        BY <3>1, Requested
      <4>2. good' = good
        BY <3>1
        DEF Request, PutSettings, Reloads, SaveLibrary, DeleteLibrary, SaveClient, DeleteClient,
            Scan, Execute
      <4> QED
        BY <4>1, <4>2 DEF Probing
    <3>2. CASE ReadFails(a) \/ ShowConfig(a) \/ SkipItem(a) \/ KeepPlan(a) \/ Place(a)
      BY <3>2 DEF ReadFails, ShowConfig, SkipItem, KeepPlan, Place
    <3>3. CASE LoadConfig(a) \/ SetConfig(a) \/ SetDryRun(a)
      BY <3>3 DEF LoadConfig, SetConfig, SetDryRun, Goto, Probing
    <3>4. CASE Reload(a)
      BY <3>4
      DEF Reload, ListClients, ListLibraries, ResetLibraryRoots, AddLibraryRoot, SetLibraries, Goto,
          Probing
    <3>5. CASE PairsDone(a)
      BY <3>5 DEF PairsDone, TypeOK
    <3>6. CASE (\E j \in Job : PickPair(a, j)) \/ CreateWrite(a) \/ ProbeAllPairs(a)
      BY <3>6 DEF PickPair, CreateWrite, ProbeAllPairs, Goto, TypeOK, Probing
    <3>7. CASE RemoveWrite(a) \/ CreateSrc(a) \/ RemoveOld(a) \/ LinkProbe(a)
      BY <3>7 DEF RemoveWrite, CreateSrc, RemoveOld, LinkProbe, Goto, Return, TypeOK, Probing
    <3>8. CASE RemoveDst(a) \/ RemoveSrc(a) \/ CachePut(a) \/ \E r \in Source : EnsureProbed(a, r)
      BY <3>8 DEF RemoveDst, RemoveSrc, CachePut, EnsureProbed, Goto, Return, TypeOK, Probing
    <3> QED
      BY <1>1, <3>1, <3>2, <3>3, <3>4, <3>5, <3>6, <3>7, <3>8 DEF Step, Configure, Probe, Work
  <2> QED
    BY <2>2, <2>3, <2>4, <2>5
<1>2. CASE Crash
  BY <1>2 DEF Crash, Nothing, GoodIsNew
<1>3. CASE UNCHANGED vars \/ \E v \in BOOLEAN : PutSettingsFails(v)
  BY <1>3, OtherFrame DEF GoodIsNew
<1> QED
  BY <1>1, <1>2, <1>3 DEF Next

\* A goroutine alone among those that apply settings has only itself to account for.
LEMMA WetAlone ==
    ASSUME Base, Base', NEW a \in Actor, \A b \in Actor \ {a} : Stays(b) /\ ~Active(b, Setters),
           Wet(a)',
           ~cfgDry' /\ (~Active(a, Setters)' \/ pc'[a] \in {"load", "setcfg", "show"}) => Covered'
    PROVE  WetInv'
<1>1. \A b \in Actor \ {a} : ~Active(b, Setters)'
  BY DEF Stays, Active
<1>2. \A b \in Actor \ {a} : pc'[b] \notin {"setcfg", "setguard"}
  <2> SUFFICES ASSUME NEW b \in Actor \ {a}, pc[b] \in {"setcfg", "setguard"} PROVE FALSE
    BY DEF Stays
  <2> QED
    BY ConfigIsActive DEF Active, Setters
<1>3. \A b \in Actor \ {a} : Wet(b)'
  BY <1>1, <1>2 DEF Wet
<1> QED
  BY <1>1, <1>3 DEF WetInv, Between

\* A goroutine that applies none leaves the others their probes.
LEMMA WetBeside ==
    ASSUME Base, Base', WetInv, Clean, NEW a \in Actor, \A b \in Actor \ {a} : Stays(b),
           ~Active(a, Setters), ~Active(a, Setters)',
           UNCHANGED <<cfgDry, dbLibs, dbMaps, writable>>,
           \A p \in Pairs : cache[p] # "none" => cache'[p] # "none"
    PROVE  WetInv'
<1>0. dbMaps \subseteq Source /\ dbLibs \subseteq Lib
  BY DEF Base, TypeOK
<1>1. Covered => Covered'
  BY <1>0 DEF Covered, Pairs
<1>2. \A b \in Actor \ {a} : Active(b, Setters)' <=> Active(b, Setters)
  BY DEF Active, Stays
<1>3. Between' => Between
  BY <1>2 DEF Between, Stays
<1>4. \A b \in Actor \ {a} : Finding(b) => Finding(b)'
  BY <1>0 DEF Finding, Stays, Pairs
<1>5. \A b \in Actor \ {a} : Wet(b)'
  BY <1>1, <1>2, <1>4 DEF WetInv, Wet, Stays
<1>6. Wet(a)'
  <2>1. pc'[a] \notin {"setcfg", "setguard"}
    <3>1. pc'[a] \in {"load", "setcfg", "setguard", "show"} => Active(a, Setting)'
      BY DEF Base, Shape, InPlace, Fits, Active, Setting, Requests, Loaders, Probing, PairPoints
    <3> QED
      BY <3>1 DEF Active, Setters
  <2> QED
    BY <2>1 DEF Wet
<1> QED
  BY <1>1, <1>3, <1>5, <1>6 DEF WetInv

WetFits ==
    ProbesFit /\ SourcesInv /\ LibInv /\ OneConfig /\ DryInv /\ OneSetter /\ GoodIsNew /\ WetInv

\* What a goroutine knows while it alone applies settings.
LEMMA SetterAlone ==
    ASSUME WetFits, Clean, NEW a \in Actor, Active(a, Setters)
    PROVE  /\ \A b \in Actor \ {a} : ~Active(b, Setters)
           /\ ~Reloading(a) => guardLibs = dbLibs /\ libs = dbLibs /\ dbMaps \subseteq roots
           /\ pc[a] # "setguard" => guardDry = cfgDry
<1>1. \A b \in Actor \ {a} : ~Active(b, Setters)
  BY DEF WetFits, OneSetter, Clean
<1>2. \A b \in Actor \ {a} : ~Reloading(b)
  BY <1>1, ReloadingIsActive DEF WetFits, ProbesFit, Active, Setters
<1>3. \A b \in Actor \ {a} : pc[b] # "setguard"
  BY <1>1, ConfigIsActive DEF WetFits, ProbesFit, Active, Setters
<1>4. ASSUME ~Reloading(a) PROVE guardLibs = dbLibs /\ libs = dbLibs /\ dbMaps \subseteq roots
  <2>1. \A b \in Actor : ~Reloading(b)
    BY <1>2, <1>4
  <2>2. dbMaps \subseteq roots
    BY <2>1 DEF WetFits, SourcesInv, Clean, Reloading
  <2> QED
    BY <2>1, <2>2 DEF WetFits, LibInv, Clean
<1>5. ASSUME pc[a] # "setguard" PROVE guardDry = cfgDry
  BY <1>3, <1>5 DEF WetFits, DryInv, Clean
<1> QED
  BY <1>1, <1>4, <1>5

\* A settings request brings the pairs to be probed when it turns dry-run off.
LEMMA WetConfigure ==
    ASSUME WetFits, Base', Clean, NEW a \in Actor, Configure(a)
    PROVE  WetInv'
<1> USE DEF storeVars, dryVars, rootVars, probeVars, listVars, jobVars, localVars
<1>t. Base /\ TypeOK /\ Active(a, Setters) /\ Wet(a)
  BY ConfigureFrame, ConfigIsActive
  DEF WetFits, ProbesFit, Base, Active, Setters, WetInv
<1>s. \A b \in Actor \ {a} : Stays(b) /\ ~Active(b, Setters)
  BY <1>t, OthersStay, SetterAlone DEF Step
<1>c. UNCHANGED <<dbDry, dbLibs, dbMaps, cache, writable>>
  BY DEF Configure, LoadConfig, SetConfig, SetDryRun, ShowConfig
<1>v. Covered' <=> Covered
  BY <1>c DEF Covered
<1>b. ~cfgDry /\ pc[a] \in {"load", "setcfg", "show"} => Covered
  BY <1>s DEF WetFits, WetInv, Clean, Between
<1>1. CASE LoadConfig(a)
  <2>1. pc[a] = "load" /\ pc'[a] = "setcfg" /\ was'[a] = cfgDry /\ cfgDry' = cfgDry
    BY <1>t, <1>1 DEF LoadConfig, Goto, TypeOK
  <2> QED
    BY <1>t, <1>s, <1>v, <1>b, <2>1, WetAlone DEF Wet, Probing
<1>2. CASE SetConfig(a)
  <2>1. pc[a] = "setcfg" /\ pc'[a] = "setguard" /\ UNCHANGED <<was, dry, doing>>
    BY <1>t, <1>2 DEF SetConfig, Goto, TypeOK
  <2>2. Active(a, Setters)'
    BY <1>t, <2>1 DEF Active
  <2> QED
    BY <1>t, <1>s, <1>v, <1>b, <2>1, <2>2, WetAlone DEF Wet, Probing
<1>3. CASE SetDryRun(a)
  <2>1. /\ pc[a] = "setguard" /\ pc'[a] = IF was[a] /\ ~dry[a] THEN "pairs" ELSE "show"
        /\ doing' = doing /\ cfgDry' = cfgDry
    BY <1>t, <1>3 DEF SetDryRun, Goto, AfterSwitch, TypeOK
  <2>2. cfgDry = dry[a] /\ was[a] \in BOOLEAN
    BY <1>t, <2>1, ConfigIsActive DEF WetFits, DryInv, Clean, TypeOK
  <2>3. Active(a, Setters)'
    BY <1>t, <2>1 DEF Active
  <2>4. CASE pc'[a] = "pairs"
    BY <1>t, <1>s, <2>3, <2>4, WetAlone DEF Wet, Probing
  <2>5. CASE pc'[a] = "show" /\ ~(was[a] /\ ~dry[a])
    <3>1. ~cfgDry' => Covered'
      BY <1>t, <1>v, <2>1, <2>2, <2>5 DEF Wet
    <3> QED
      BY <1>t, <1>s, <2>5, <3>1, WetAlone DEF Wet, Probing
  <2> QED
    BY <2>1, <2>4, <2>5
<1>4. CASE ShowConfig(a)
  <2>1. pc[a] = "show" /\ pc'[a] = "idle" /\ cfgDry' = cfgDry
    BY <1>t, <1>4 DEF ShowConfig, Ends, TypeOK
  <2> QED
    BY <1>t, <1>s, <1>v, <1>b, <2>1, WetAlone DEF Wet, Probing
<1> QED
  BY <1>1, <1>2, <1>3, <1>4 DEF Configure

\* A reload goes on to probe.
LEMMA WetReload ==
    ASSUME WetFits, Base', Clean, NEW a \in Actor, Reload(a)
    PROVE  WetInv'
<1>t. Base /\ Active(a, Setters)
  BY ReloadFrame, ReloadingIsActive
  DEF WetFits, ProbesFit, Base, Active, Setters, Reloading
<1>s. \A b \in Actor \ {a} : Stays(b) /\ ~Active(b, Setters)
  BY <1>t, OthersStay, SetterAlone DEF Step, Base
<1>1. pc'[a] \in {"libraries", "reset", "add", "pairs"} /\ doing' = doing
  BY <1>t, ReloadFrame DEF Base
<1>2. Active(a, Setters)'
  BY <1>t, <1>1 DEF Active
<1> QED
  BY <1>t, <1>s, <1>1, <1>2, WetAlone DEF Wet, Probing

\* The first steps of a probe of all pairs, and the last.
LEMMA WetPick ==
    ASSUME WetFits, Base', Clean, Clean', NEW a \in Actor, Active(a, Setters),
           ProbeAllPairs(a) \/ (\E j \in Job : PickPair(a, j)) \/ PairsDone(a)
    PROVE  WetInv'
<1> USE DEF storeVars, dryVars, rootVars, probeVars, listVars, jobVars, localVars
<1>t. Base /\ TypeOK /\ Wet(a)
  BY DEF WetFits, ProbesFit, Base, WetInv
<1>s. \A b \in Actor \ {a} : Stays(b) /\ ~Active(b, Setters)
  BY <1>t, OthersStay, SetterAlone DEF Step, Probe
<1>c. UNCHANGED <<cfgDry, dbLibs, dbMaps, cache>>
  BY DEF ProbeAllPairs, PickPair, PairsDone
<1>1. CASE ProbeAllPairs(a)
  <2>1. /\ pc[a] = "pairs" /\ pc'[a] = "pick" /\ doing' = doing /\ good' = good
        /\ ~cfgDry => todo'[a] = (roots \X libs) \cup {<<l, l>> : l \in libs}
    BY <1>t, <1>1 DEF ProbeAllPairs, Goto, TypeOK
  <2>2. libs = dbLibs /\ dbMaps \subseteq roots
    BY <2>1, SetterAlone DEF Reloading
  <2>3. good'[a] = {}
    BY <2>1 DEF WetFits, GoodIsNew, Probing
  <2>4. ~cfgDry => Finding(a)'
    BY <1>c, <2>1, <2>2, <2>3 DEF Finding
  <2>5. Active(a, Setters)'
    BY <2>1 DEF Active
  <2> QED
    BY <1>t, <1>s, <1>c, <2>1, <2>4, <2>5, WetAlone DEF Wet
<1>2. ASSUME NEW j \in Job, PickPair(a, j) PROVE WetInv'
  <2>1. /\ pc[a] = "pick" /\ pc'[a] = IF j[1] \in Lib THEN "writeable" ELSE "create"
        /\ todo'[a] = todo[a] \ {j} /\ at'[a] = j /\ doing' = doing /\ good' = good
    BY <1>t, <1>2 DEF PickPair, TypeOK
  <2>2. ~cfgDry => Finding(a)'
    <3> SUFFICES ASSUME ~cfgDry PROVE Finding(a)'
      OBVIOUS
    <3>1. Finding(a)
      BY <1>t, <2>1 DEF Wet, Probing
    <3>2. dbMaps \subseteq Source /\ dbLibs \subseteq Lib /\ Source \cap Lib = {}
      BY <1>t, SourceAssumption DEF TypeOK
    <3>3. ASSUME NEW s \in dbMaps, NEW l \in dbLibs, <<s, l>> = j
          PROVE  pc'[a] \in PairPoints /\ at'[a] = <<s, l>>
      BY <2>1, <3>2, <3>3 DEF PairPoints, Probing
    <3>4. ASSUME NEW l \in dbLibs, <<l, l>> = j PROVE pc'[a] = "writeable" /\ at'[a] = <<l, l>>
      BY <2>1, <3>2, <3>4
    <3>5. \A s \in dbMaps, l \in dbLibs :
            \/ cache[<<s, l>>] # "none" \/ <<s, l>> \in todo'[a]
            \/ pc'[a] \in PairPoints /\ at'[a] = <<s, l>>
      <4> SUFFICES ASSUME NEW s \in dbMaps, NEW l \in dbLibs, cache[<<s, l>>] = "none", <<s, l>> # j
                   PROVE  <<s, l>> \in todo'[a]
        BY <3>3
      <4>1. <<s, l>> \in todo[a]
        BY <2>1, <3>1 DEF Finding, PairPoints
      <4> QED
        BY <2>1, <4>1
    <3>6. \A l \in dbLibs : \/ l \in good'[a] \/ <<l, l>> \in todo'[a]
                            \/ pc'[a] = "writeable" /\ at'[a] = <<l, l>>
      <4> SUFFICES ASSUME NEW l \in dbLibs, l \notin good[a], <<l, l>> # j
                   PROVE  <<l, l>> \in todo'[a]
        BY <2>1, <3>4
      <4>1. <<l, l>> \in todo[a]
        BY <2>1, <3>1 DEF Finding
      <4> QED
        BY <2>1, <4>1
    <3> QED
      BY <1>c, <2>1, <3>1, <3>5, <3>6 DEF Finding
  <2>3. Active(a, Setters)' /\ pc'[a] \in {"writeable", "create"}
    BY <2>1 DEF Active
  <2> QED
    BY <1>t, <1>s, <1>c, <2>2, <2>3, WetAlone DEF Wet
<1>3. CASE PairsDone(a)
  <2>1. pc[a] = "pick" /\ todo[a] = {} /\ writable' = good[a] /\ pc'[a] \in {"show", "idle"}
    BY <1>t, <1>3 DEF PairsDone, Ends, TypeOK
  <2>2. ~cfgDry => Covered'
    <3> SUFFICES ASSUME ~cfgDry PROVE Covered'
      OBVIOUS
    <3>1. Finding(a)
      BY <1>t, <2>1 DEF Wet, Probing
    <3>2. good[a] = dbLibs
      BY <2>1, <3>1 DEF Finding
    <3>3. \A s \in dbMaps, l \in dbLibs : cache[<<s, l>>] # "none"
      BY <2>1, <3>1 DEF Finding, PairPoints
    <3> QED
      BY <1>c, <2>1, <3>2, <3>3 DEF Covered
  <2> QED
    BY <1>t, <1>s, <1>c, <2>1, <2>2, WetAlone DEF Wet, Probing
<1> QED
  BY <1>1, <1>2, <1>3

\* A library that is open is found writable.
LEMMA WetWritable ==
    ASSUME WetFits, Base', Clean, Clean', NEW a \in Actor, Active(a, Setters),
           CreateWrite(a) \/ RemoveWrite(a)
    PROVE  WetInv'
<1> USE DEF storeVars, dryVars, rootVars, probeVars, listVars, jobVars, localVars
<1>t. Base /\ TypeOK /\ Wet(a)
  BY DEF WetFits, ProbesFit, Base, WetInv
<1>s. \A b \in Actor \ {a} : Stays(b) /\ ~Active(b, Setters)
  BY <1>t, OthersStay, SetterAlone DEF Step, Probe
<1>c. /\ UNCHANGED <<cfgDry, dbLibs, dbMaps, cache, at, todo, doing>>
      /\ pc[a] \in {"writeable", "unwrite"} /\ pc'[a] \in {"unwrite", "pick"}
  BY <1>t DEF CreateWrite, RemoveWrite, Goto, TypeOK
<1>1. Active(a, Setters)'
  BY <1>c DEF Active
<1>2. ASSUME ~cfgDry PROVE Finding(a)'
  <2>1. Finding(a)
    BY <1>t, <1>c, <1>2 DEF Wet, Probing
  <2>2. \A s \in dbMaps, l \in dbLibs : cache[<<s, l>>] # "none" \/ <<s, l>> \in todo[a]
    BY <1>c, <2>1 DEF Finding, PairPoints
  <2>3. CASE RemoveWrite(a)
    <3>1. good' = good /\ pc[a] = "unwrite"
      BY <2>3 DEF RemoveWrite, Goto
    <3> QED
      BY <1>c, <2>1, <2>2, <3>1 DEF Finding
  <2>4. CASE CreateWrite(a)
    <3> DEFINE l == at[a][2]
    <3>1. JobsOpen /\ FilesHeld
      BY DEF WetFits, ProbesFit, ProbeInv, Clean
    <3>2. pc[a] = "writeable" /\ l \in guardLibs /\ l \in Lib
      BY <1>t, <2>4, <3>1 DEF CreateWrite, Goto, JobsOpen, JobOpen, Probing, TypeOK, Job
    <3>3. MayProbe(l) /\ l \in dbLibs
      BY <1>2, <3>2, SetterAlone DEF MayProbe, Reloading
    <3>4. <<l, "write">> \notin files
      <4> SUFFICES ASSUME <<l, "write">> \in files PROVE FALSE
        OBVIOUS
      <4>1. <<l, "write">> \in ProbeFiles
        BY <3>2 DEF ProbeFiles
      <4>2. PICK b \in Actor : Holds(b, <<l, "write">>)
        BY <3>1, <4>1 DEF FilesHeld
      <4>3. pc[b] = "unwrite" /\ at[b][2] = l
        BY <4>2 DEF Holds
      <4>4. Collides(a)
        BY <3>2, <4>3 DEF Collides, Probing
      <4> QED
        BY <2>4, <4>4 DEF CreateWrite, Note, Clean, Disturbed
    <3>5. good'[a] = good[a] \cup {l}
      BY <1>t, <2>4, <3>3, <3>4 DEF CreateWrite, TypeOK
    <3>6. \A x \in dbLibs : at[a] = <<x, x>> => x = l
      OBVIOUS
    <3> QED
      BY <1>c, <2>1, <2>2, <3>3, <3>5, <3>6 DEF Finding
  <2> QED
    BY <2>3, <2>4
<1> QED
  BY <1>t, <1>s, <1>c, <1>1, <1>2, WetAlone DEF Wet

\* A pair that is probed gets an answer.
LEMMA WetPair ==
    ASSUME WetFits, Base', [Next]_vars, Clean, Clean', NEW a \in Actor, Active(a, Setters),
           \/ CreateSrc(a) \/ RemoveOld(a) \/ LinkProbe(a) \/ RemoveDst(a) \/ RemoveSrc(a)
           \/ CachePut(a)
    PROVE  WetInv'
<1> USE DEF storeVars, dryVars, rootVars, probeVars, listVars, jobVars, localVars
<1>t. Base /\ TypeOK /\ Wet(a) /\ doing[a] # "scan"
  BY DEF WetFits, ProbesFit, Base, WetInv, Active, Setters, Loaders, Setting
<1>s. \A b \in Actor \ {a} : Stays(b) /\ ~Active(b, Setters)
  BY <1>t, OthersStay, SetterAlone DEF Step, Probe
<1>c. /\ UNCHANGED <<cfgDry, dbLibs, dbMaps, at, todo, doing, good>>
      /\ pc[a] \in PairPoints
  BY DEF CreateSrc, RemoveOld, LinkProbe, RemoveDst, RemoveSrc, CachePut, Goto, PairPoints, Probing
<1>p. pc'[a] \in Probing \ {"writeable", "unwrite"}
  BY <1>t
  DEF CreateSrc, RemoveOld, LinkProbe, RemoveDst, RemoveSrc, CachePut, Goto, Return, TypeOK, Probing
<1>1. Active(a, Setters)'
  BY <1>c, <1>p DEF Active, Probing
<1>k. \A p \in Pairs : cache[p] # "none" => cache'[p] # "none"
  BY AnswerStays DEF WetFits, Clean
<1>2. ASSUME ~cfgDry PROVE Finding(a)'
  <2>1. Finding(a)
    BY <1>t, <1>c, <1>2 DEF Wet, PairPoints
  <2>2. at[a] \in Pairs
    BY <1>t, <1>c DEF Base, JobsInOrder, JobInOrder, Pairs
  <2>3. pc'[a] \in PairPoints \/ cache'[at[a]] # "none"
    <3>1. CASE CreateSrc(a)
      <4>1. ~guardDry
        BY <1>2, <1>c, SetterAlone DEF PairPoints, Probing
      <4> QED
        BY <1>t, <3>1, <4>1 DEF CreateSrc, Unwritten, Caches, TypeOK, PairPoints, Probing
    <3>2. CASE RemoveOld(a) \/ LinkProbe(a) \/ RemoveDst(a) \/ RemoveSrc(a)
      BY <1>t, <3>2
      DEF RemoveOld, LinkProbe, RemoveDst, RemoveSrc, Goto, TypeOK, PairPoints, Probing
    <3>3. CASE CachePut(a)
      <4>1. out[a] = Truth(at[a])
        BY <3>3 DEF CachePut, Goto, WetFits, ProbesFit, ProbeInv, ProbeIsSound, Clean
      <4>2. out[a] # "none"
        BY <4>1 DEF Truth
      <4> QED
        BY <1>t, <2>2, <3>3, <4>2 DEF CachePut, TypeOK, Pairs
    <3> QED
      BY <3>1, <3>2, <3>3
  <2>4. \A s \in dbMaps, l \in dbLibs : <<s, l>> \in Pairs
    BY <1>t DEF TypeOK, Pairs
  <2>5. \A s \in dbMaps, l \in dbLibs :
          \/ cache'[<<s, l>>] # "none" \/ <<s, l>> \in todo[a]
          \/ pc'[a] \in PairPoints /\ at[a] = <<s, l>>
    BY <1>k, <2>1, <2>3, <2>4 DEF Finding
  <2>6. \A l \in dbLibs : l \in good[a] \/ <<l, l>> \in todo[a]
    BY <1>c, <2>1 DEF Finding, PairPoints
  <2> QED
    BY <1>c, <2>1, <2>5, <2>6 DEF Finding
<1> QED
  BY <1>t, <1>s, <1>c, <1>p, <1>1, <1>2, WetAlone DEF Wet, Probing

\* What is not saved beside another request begins where all pairs are known.
LEMMA WetRequest ==
    ASSUME WetFits, Base', [Next]_vars, Clean, Clean', NEW a \in Actor, Request(a)
    PROVE  WetInv'
<1> USE DEF storeVars, dryVars, rootVars, probeVars, listVars, jobVars, localVars
<1>t. Base /\ TypeOK /\ WetInv
  BY DEF WetFits, ProbesFit, Base
<1>s. \A b \in Actor \ {a} : Stays(b)
  BY <1>t, OthersStay
<1>c. UNCHANGED <<cfgDry, cache, writable>> /\ pc[a] = "idle"
  <2>1. pc[a] = "idle"
    BY <1>t, Requested
  <2> QED
    BY <2>1
    DEF Request, PutSettings, Reloads, SaveLibrary, DeleteLibrary, SaveClient, DeleteClient, Scan,
        Execute
<1>1. CASE Active(a, Setters)'
  <2>1. \A b \in Actor : ~Active(b, Setters)
    BY <1>t, <1>1, RequestAlone DEF Clean
  <2>2. pc'[a] = "load" \/ pc'[a] = "clients"
    BY <1>t, <1>1, Requested DEF Active, Setters, Setting, Loaders
  <2>3. pc'[a] = "load" => (~cfgDry' => Covered')
    <3> SUFFICES ASSUME pc'[a] = "load", ~cfgDry PROVE Covered'
      BY <1>c
    <3>1. Covered
      BY <1>t, <2>1 DEF WetInv, Clean, Between
    <3>2. UNCHANGED <<dbLibs, dbMaps>>
      BY <1>t, RequestFrame DEF Reloads, Begin, Goto, TypeOK
    <3> QED
      BY <1>c, <3>1, <3>2 DEF Covered
  <2> QED
    BY <1>t, <1>s, <1>1, <2>1, <2>2, <2>3, WetAlone DEF Wet, Probing
<1>2. CASE ~Active(a, Setters)'
  <2>1. ~Active(a, Setters)
    BY <1>c DEF Active
  <2>2. UNCHANGED <<dbLibs, dbMaps>>
    BY <1>t, <1>2, RequestFrame DEF Reloads, Begin, Goto, TypeOK, Active, Setters, Setting, Loaders
  <2> QED
    BY <1>t, <1>s, <1>c, <1>2, <2>1, <2>2, WetBeside
<1> QED
  BY <1>1, <1>2

LEMMA NextWet == WetFits /\ Base' /\ [Next]_vars => WetInv'
<1> SUFFICES ASSUME WetFits, Base', [Next]_vars, Clean' PROVE WetInv'
  BY DEF WetInv
<1>t. Base /\ TypeOK /\ WetInv
  BY DEF WetFits, ProbesFit, Base
<1>c. Clean
  BY <1>t, ClashGrows DEF Clean, Disturbed
<1>k. \A p \in Pairs : cache[p] # "none" => cache'[p] # "none"
  BY AnswerStays DEF WetFits, Clean
<1>1. ASSUME NEW a \in Actor, Request(a) PROVE WetInv'
  BY <1>c, <1>1, WetRequest
<1>2. ASSUME NEW a \in Actor, Configure(a) \/ Reload(a) PROVE WetInv'
  BY <1>c, <1>2, WetConfigure, WetReload
<1>3. ASSUME NEW a \in Actor, Probe(a), Active(a, Setters) PROVE WetInv'
  <2>1. CASE ProbeAllPairs(a) \/ (\E j \in Job : PickPair(a, j)) \/ PairsDone(a)
    BY <1>c, <1>3, <2>1, WetPick
  <2>2. CASE CreateWrite(a) \/ RemoveWrite(a)
    BY <1>c, <1>3, <2>2, WetWritable
  <2>3. CASE \/ CreateSrc(a) \/ RemoveOld(a) \/ LinkProbe(a) \/ RemoveDst(a) \/ RemoveSrc(a)
             \/ CachePut(a)
    BY <1>c, <1>3, <2>3, WetPair
  <2> QED
    BY <1>3, <2>1, <2>2, <2>3 DEF Probe
<1>4. ASSUME NEW a \in Actor, Probe(a) \/ Work(a), ~Active(a, Setters) PROVE WetInv'
  <2>1. (\A b \in Actor \ {a} : Stays(b)) /\ UNCHANGED <<cfgDry, dbLibs, dbMaps>>
    BY <1>4, <1>t, OthersStay, ProbeFrame DEF Step, storeVars, dryVars
  <2>2. ~Active(a, Setters)'
    BY <1>4, <1>t, StepKeepsActive DEF Step
  <2>3. writable' = writable
    <3>1. ~PairsDone(a)
      <4>1. pc[a] # "pick"
        BY <1>4, <1>t
        DEF Base, Shape, InPlace, Fits, Active, Setters, Setting, Loaders, Requests, PairPoints,
            Probing
      <4> QED
        BY <4>1 DEF PairsDone
    <3> QED
      BY <1>4, <3>1
      DEF Probe, ProbeAllPairs, PickPair, CreateWrite, RemoveWrite, CreateSrc, RemoveOld, LinkProbe,
          RemoveDst, RemoveSrc, CachePut, Work, SkipItem, EnsureProbed, KeepPlan, Place, probeVars
  <2> QED
    BY <1>c, <1>k, <1>t, <1>4, <2>1, <2>2, <2>3, WetBeside
<1>5. ASSUME NEW a \in Actor, Work(a), Active(a, Setters) PROVE FALSE
  <2>1. pc[a] \in {"save", "keep", "place"}
    BY <1>5 DEF Work, SkipItem, EnsureProbed, KeepPlan, Place
  <2> QED
    BY <1>5, <1>t, <2>1
    DEF Base, Shape, InPlace, Fits, Active, Setters, Setting, Loaders, Requests, PairPoints, Probing
<1>6. ASSUME NEW a \in Actor, ReadFails(a) PROVE FALSE
  BY <1>6, <1>t, FailsFrame DEF Clean
<1>7. CASE Crash
  BY <1>7 DEF Crash, Note, Clean, Disturbed
<1>8. CASE UNCHANGED vars \/ \E v \in BOOLEAN : PutSettingsFails(v)
  <2>1. UNCHANGED <<dryVars, rootVars, probeVars, planVars, pc, doing, localVars, storeVars>>
    BY <1>8, <1>t, OtherFrame DEF Clean
  <2> QED
    BY <1>t, <1>c, <2>1
    DEF WetInv, Wet, Between, Finding, Covered, Active, dryVars, probeVars, storeVars, localVars,
        listVars, jobVars
<1> QED
  BY <1>1, <1>2, <1>3, <1>4, <1>5, <1>6, <1>7, <1>8 DEF Next, Step

\* Once dry-run is off and no request is under way, every configured pair has been probed
\* and every library found writable, whatever was saved first (ApplyConfig probes when it
\* turns dry-run off, Reload whenever it is off), unless requests overlapped, the store
\* failed, a probe was disturbed or the process died.
THEOREM WetIsProbed == Spec => []ProbedWhenWet
<1>1. Init => WetFits
  <2>1. Init => SourcesInv /\ LibInv /\ OneConfig /\ DryInv /\ OneSetter /\ GoodIsNew
    BY ActorAssumption
    DEF Init, Starting, AtStart, Nothing, SourcesInv, LibInv, Reloading, OneConfig, DryInv, Active,
        Setting, OneSetter, GoodIsNew
  <2>2. Init => WetInv
    BY ActorAssumption
    DEF Init, Starting, AtStart, WetInv, Between, Wet, Active, Setters, Loaders, Probing
  <2> QED
    BY <2>1, <2>2, ProbesInit DEF WetFits
<1>2. WetFits /\ [Next]_vars => WetFits'
  <2> SUFFICES ASSUME WetFits, [Next]_vars PROVE WetFits'
    OBVIOUS
  <2>1. Base /\ OneLoad /\ LibsOpen /\ NothingLeft /\ ProbeInv
    BY DEF WetFits, ProbesFit
  <2>2. ProbesFit'
    BY NextProbesFit DEF WetFits
  <2>3. Base'
    BY <2>2 DEF ProbesFit
  <2> QED
    BY <2>1, <2>2, <2>3, NextSources, NextLibraries, NextOneConfig, NextDry, NextOneSetter,
       NextGood, NextWet
    DEF WetFits
<1>3. WetFits => ProbedWhenWet
  BY DEF WetFits, WetInv, ProbedWhenWet, Clean, Quiet, Between, Active, Covered
<1> QED
  BY <1>1, <1>2, <1>3, PTL DEF Spec

=============================================================================
