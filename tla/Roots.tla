-------------------------------- MODULE Roots --------------------------------
(***************************************************************************)
(* What the process knows of its settings, libraries and download roots in *)
(* the copies it keeps of them, and what it finds out with probe files:    *)
(* the requests that save a setting, a library or a client and apply it    *)
(* (api.go, resources.go, ApplyConfig, Reload), the probe they and a scan  *)
(* run (probe.go, ProbeWrite), the method a plan gets from it and the one  *)
(* its execution uses.  No mutex is held across a request, so any two      *)
(* interleave; a crash loses all but the store and the files.              *)
(***************************************************************************)
EXTENDS Integers, FiniteSets

CONSTANTS
    Actor,      \* goroutines: Main, which starts the process, and requests
    Main,
    Source,     \* download roots; the source of the plan is under each of them
    Depth,      \* how deep a root is: the longest one is the deepest
    Lib,        \* library roots, one per media type
    Target,     \* the library of the plan's media type
    Linkable,   \* the pairs link(2) works on
    ReadOnly,   \* sources on a read-only mount
    Budgets     \* how often each kind of thing may happen in a behaviour

ASSUME ActorAssumption == Main \in Actor
\* Each source is a prefix of the plan's path: two as deep as each other are one.
ASSUME SourceAssumption ==
    /\ Source \cap Lib = {} /\ Source # {} /\ Depth \in [Source -> Nat]
    /\ \A s, u \in Source : Depth[s] = Depth[u] => s = u
ASSUME TopologyAssumption ==
    Target \in Lib /\ Linkable \subseteq Source \X Lib /\ ReadOnly \subseteq Source
Events == {"settings", "library", "client", "scan", "execute", "fail", "crash"}
ASSUME BoundsAssumption == Budgets \subseteq [Events -> Nat]

VARIABLES
    dbDry, dbLibs, dbMaps,      \* the store: dry-run, libraries, the clients' local roots
    cfgDry, guardDry, uiDry,    \* Pipeline.cfg, Guard.dryRun, Server.cfg
    roots, guardLibs, libs,     \* Guard.sourceRoots, Guard.libraryRoots, Pipeline.libs
    cache, writable,            \* Prober.cache, Pipeline.writable
    files,                      \* probe files on disk: <<root, suffix>>
    plan, ran,                  \* the plan of an orphan, and how its execution ended
    pc, doing,                  \* per goroutine: its next step, and its request
    dry, was,                   \*   ApplyConfig: dry-run as loaded, and as it was
    maps, mine, left,           \*   Reload: rows read, libraries still to register
    todo, at, out, good,        \*   probes to do, the present one, its outcome,
                                \*   libraries found writable
    clash,                      \* history: what has come in the way of what
    budget                      \* what may still happen

storeVars == <<dbDry, dbLibs, dbMaps>>
dryVars   == <<cfgDry, guardDry, uiDry>>
rootVars  == <<roots, guardLibs, libs>>
probeVars == <<cache, writable, files>>
planVars  == <<plan, ran>>
listVars  == <<dry, was, maps, mine, left>>
jobVars   == <<todo, at, out, good>>
localVars == <<listVars, jobVars>>
countVars == <<clash, budget>>
vars == <<storeVars, dryVars, rootVars, probeVars, planVars, pc, doing, localVars, countVars>>

-----------------------------------------------------------------------------
(* Types *)

\* The probe of a pair, or <<l, l>>: whether library l can be written to.
Job     == (Source \cup Lib) \X Lib
Outcome == {"none", "available", "separate", "readonly", "dryrun"}
NoPlan  == [method |-> "none"]
Plans   == {NoPlan} \cup [method : {"copy", "hardlink"}, root : Source]

Requests == {"boot", "settings", "library", "client", "scan", "execute"}
Kinds    == {"config", "reload", "mixed", "probe", "switch", "deeper", "fail", "crash"}
Probing  == {"pick", "writeable", "unwrite", "create", "unlink", "link", "unlink2", "clean", "put"}
PCs      == {"idle", "load", "setcfg", "setguard", "show", "clients", "libraries", "reset",
             "add", "install", "pairs", "save", "keep", "place"} \cup Probing

TypeOK ==
    /\ dbDry \in BOOLEAN /\ dbLibs \subseteq Lib /\ dbMaps \subseteq Source
    /\ cfgDry \in BOOLEAN /\ guardDry \in BOOLEAN /\ uiDry \in BOOLEAN
    /\ roots \subseteq Source /\ guardLibs \subseteq Lib /\ libs \subseteq Lib
    /\ cache \in [Source \X Lib -> Outcome \ {"dryrun"}] /\ writable \subseteq Lib
    /\ files \subseteq (Source \cup Lib) \X {"src", "dst", "write"}
    /\ plan \in Plans /\ ran \in {"none", "refused", "asplanned", "copied"}
    /\ pc \in [Actor -> PCs] /\ doing \in [Actor -> Requests]
    /\ dry \in [Actor -> BOOLEAN] /\ was \in [Actor -> BOOLEAN]
    /\ maps \in [Actor -> SUBSET Source]
    /\ mine \in [Actor -> SUBSET Lib] /\ left \in [Actor -> SUBSET Lib]
    /\ todo \in [Actor -> SUBSET Job] /\ at \in [Actor -> Job] /\ out \in [Actor -> Outcome]
    /\ good \in [Actor -> SUBSET Lib]
    /\ clash \subseteq Kinds /\ budget \in [Events -> Nat]

-----------------------------------------------------------------------------
(* Helpers *)

Goto(a, from, to) == pc[a] = from /\ pc' = [pc EXCEPT ![a] = to]
Spends(what) == budget[what] > 0 /\ budget' = [budget EXCEPT ![what] = @ - 1]
Note(k, c) == clash' = clash \cup IF c THEN {k} ELSE {}
Others(a, S) == {b \in Actor \ {a} : pc[b] # "idle" /\ doing[b] \in S}

\* Guard.SourceRootFor: the longest registered root over the plan's source.
Deepest(r) == r \in roots /\ \A s \in roots : Depth[s] <= Depth[r]

\* ProbeWrite lets a probe write in a registered root only, and not in dry-run.
MayProbe(r) == ~guardDry /\ r \in roots \cup guardLibs

\* Prober.remove drops the guard's error and the kernel's.
Removed(f) == IF MayProbe(f[1]) THEN files \ {f} ELSE files

\* os.Link of the probe, which does not pass through the guard: the source
\* is there, the name is free, and the kernel links the pair.
Links(s, l) == <<s, "src">> \in files /\ <<l, "dst">> \notin files /\ <<s, l>> \in Linkable

Truth(p) == IF p[1] \in ReadOnly THEN "readonly"
            ELSE IF p \in Linkable THEN "available" ELSE "separate"

\* A probe of a may touch a file of a probe under way.
Collides(a) == \E b \in Actor \ {a} :
    pc[b] \in Probing \ {"pick", "put"} /\ (at[b][1] = at[a][1] \/ at[b][2] = at[a][2])

\* Another goroutine has emptied the guard's libraries and is filling them.
Closed(a) == \E b \in Actor \ {a} : pc[b] = "add"

\* Prober.Probe returns to probeAllPairs, or to savePlan.
Return(a) == IF doing[a] = "scan" THEN "keep" ELSE "pick"

\* A root deeper than the one a plan was, or is being, decided on.
Deepens(S) == \E s \in S : \/ plan # NoPlan /\ Depth[s] > Depth[plan.root]
                           \/ \E b \in Actor : /\ doing[b] = "scan" /\ pc[b] \in Probing \cup {"keep"}
                                               /\ Depth[s] > Depth[at[b][1]]

\* What a process starts with.
Starting  == [a \in Actor |-> IF a = Main THEN "clients" ELSE "idle"]
AtStart   == [a \in Actor |-> "boot"]
Unset     == [a \in Actor |-> FALSE]
Nothing   == [a \in Actor |-> {}]
NoPair    == [a \in Actor |-> <<Target, Target>>]
NoOutcome == [a \in Actor |-> "none"]
NotProbed == [p \in Source \X Lib |-> "none"]

\* A handler's local variables end with it.
Ends(a) ==
    /\ pc' = [pc EXCEPT ![a] = "idle"] /\ doing' = [doing EXCEPT ![a] = "boot"]
    /\ dry' = [dry EXCEPT ![a] = FALSE] /\ was' = [was EXCEPT ![a] = FALSE]
    /\ maps' = [maps EXCEPT ![a] = {}] /\ mine' = [mine EXCEPT ![a] = {}]
    /\ left' = [left EXCEPT ![a] = {}] /\ todo' = [todo EXCEPT ![a] = {}]
    /\ at' = [at EXCEPT ![a] = <<Target, Target>>] /\ out' = [out EXCEPT ![a] = "none"]
    /\ good' = [good EXCEPT ![a] = {}]

Init ==
    /\ dbDry \in BOOLEAN /\ dbLibs \in SUBSET Lib /\ dbMaps \in SUBSET Source
    /\ cfgDry = dbDry /\ guardDry = dbDry /\ uiDry = dbDry
    /\ roots = {} /\ guardLibs = {} /\ libs = {}
    /\ cache = NotProbed /\ writable = {}
    /\ pc = Starting /\ doing = AtStart /\ dry = Unset /\ was = Unset
    /\ maps = Nothing /\ mine = Nothing /\ left = Nothing /\ todo = Nothing
    /\ at = NoPair /\ out = NoOutcome /\ good = Nothing
    /\ files = {} /\ plan = NoPlan /\ ran = "none"
    /\ clash = {} /\ budget \in Budgets

-----------------------------------------------------------------------------
(* Requests *)

\* The server listens once run's Reload is over.
Begin(a, what, to) ==
    /\ a # Main /\ pc[Main] = "idle" /\ Spends(what)
    /\ Goto(a, "idle", to) /\ doing' = [doing EXCEPT ![a] = what]

\* putSettings stores the keys one by one.
PutSettings(a, v) ==
    /\ Begin(a, "settings", "load")
    /\ dbDry' = v
    /\ clash' = clash \cup (IF Others(a, {"settings"}) # {} THEN {"config"} ELSE {})
                      \cup (IF Others(a, {"library", "client"}) # {} THEN {"mixed"} ELSE {})
    /\ UNCHANGED <<dbLibs, dbMaps, dryVars, rootVars, probeVars, planVars, localVars>>

\* A later key fails: what is stored stays, and the handler returns before
\* ApplyConfig.
PutSettingsFails(v) ==
    /\ pc[Main] = "idle" /\ \E a \in Actor \ {Main} : pc[a] = "idle"
    /\ Spends("fail")
    /\ dbDry' = v /\ Note("fail", TRUE)
    /\ UNCHANGED <<dbLibs, dbMaps, dryVars, rootVars, probeVars, planVars, pc, doing, localVars>>

Reloads(a, what) ==
    /\ Begin(a, what, "clients")
    /\ clash' = clash \cup (IF Others(a, {"library", "client"}) # {} THEN {"reload"} ELSE {})
                      \cup (IF Others(a, {"settings"}) # {} THEN {"mixed"} ELSE {})
    /\ UNCHANGED <<dbDry, dryVars, rootVars, probeVars, planVars, localVars>>

SaveLibrary(a, l) == Reloads(a, "library") /\ dbLibs' = dbLibs \cup {l} /\ UNCHANGED dbMaps
DeleteLibrary(a, l) ==
    l \in dbLibs /\ Reloads(a, "library") /\ dbLibs' = dbLibs \ {l} /\ UNCHANGED dbMaps
SaveClient(a, s) == Reloads(a, "client") /\ dbMaps' = dbMaps \cup {s} /\ UNCHANGED dbLibs
DeleteClient(a, s) ==
    s \in dbMaps /\ Reloads(a, "client") /\ dbMaps' = dbMaps \ {s} /\ UNCHANGED dbLibs

-----------------------------------------------------------------------------
(* ApplyConfig *)

\* config.Load, and the copy of the configuration as it was.
LoadConfig(a) ==
    /\ Goto(a, "load", "setcfg")
    /\ dry' = [dry EXCEPT ![a] = dbDry] /\ was' = [was EXCEPT ![a] = cfgDry]
    /\ UNCHANGED <<storeVars, dryVars, rootVars, probeVars, planVars, doing, maps, mine, left,
                   jobVars, countVars>>

\* A read of the store fails: putSettings and the handlers of libraries drop
\* the error, saveClient answers with a warning and run logs it.
ReadFails(a) ==
    /\ pc[a] \in {"load", "clients", "libraries"} /\ Ends(a)
    /\ Spends("fail")
    /\ Note("fail", TRUE)
    /\ UNCHANGED <<storeVars, dryVars, rootVars, probeVars, planVars>>

SetConfig(a) ==
    /\ Goto(a, "setcfg", "setguard")
    /\ cfgDry' = dry[a]
    /\ UNCHANGED <<storeVars, guardDry, uiDry, rootVars, probeVars, planVars, doing, localVars,
                   countVars>>

\* The first probes are due when dry-run goes off; a pair could wait for the
\* next reload.
AfterSwitch_unprobed(a) == "show"
AfterSwitch(a) == IF was[a] /\ ~dry[a] THEN "pairs" ELSE "show"

SetDryRun(a) ==
    /\ Goto(a, "setguard", AfterSwitch(a))
    /\ guardDry' = dry[a]
    /\ Note("switch", dry[a] /\ \E b \in Actor \ {a} : pc[b] \in Probing \cup {"place"})
    /\ UNCHANGED <<storeVars, cfgDry, uiDry, rootVars, probeVars, planVars, doing, localVars,
                   budget>>

\* The setter of the server has no caller.
ShowConfig_uncalled(a) ==
    /\ pc[a] = "show" /\ Ends(a)
    /\ UNCHANGED <<storeVars, dryVars, rootVars, probeVars, planVars, countVars>>

ShowConfig(a) ==
    /\ pc[a] = "show" /\ Ends(a)
    /\ uiDry' = dry[a]
    /\ UNCHANGED <<storeVars, cfgDry, guardDry, rootVars, probeVars, planVars, countVars>>

-----------------------------------------------------------------------------
(* Reload *)

ListClients(a) ==
    /\ Goto(a, "clients", "libraries")
    /\ maps' = [maps EXCEPT ![a] = dbMaps]
    /\ UNCHANGED <<storeVars, dryVars, rootVars, probeVars, planVars, doing, dry, was, mine, left,
                   jobVars, countVars>>

\* ListLibraries, and AddSourceRoot for each mapping of the clients.
ListLibraries(a) ==
    /\ Goto(a, "libraries", "reset")
    /\ mine' = [mine EXCEPT ![a] = dbLibs] /\ left' = [left EXCEPT ![a] = dbLibs]
    /\ roots' = roots \cup maps[a]
    /\ Note("deeper", Deepens(maps[a] \ roots))
    /\ UNCHANGED <<storeVars, dryVars, guardLibs, libs, probeVars, planVars, doing, dry, was, maps,
                   jobVars, budget>>

\* The libraries are appended to the old ones.
ResetLibraryRoots_append(a) ==
    /\ Goto(a, "reset", "add")
    /\ UNCHANGED <<storeVars, dryVars, rootVars, probeVars, planVars, doing, localVars, countVars>>

\* The download roots are replaced as well.
ResetLibraryRoots_both(a) ==
    /\ Goto(a, "reset", "add")
    /\ guardLibs' = {} /\ roots' = {}
    /\ UNCHANGED <<storeVars, dryVars, libs, probeVars, planVars, doing, localVars, countVars>>

ResetLibraryRoots(a) ==
    /\ Goto(a, "reset", "add")
    /\ guardLibs' = {}
    /\ Note("switch", \E b \in Actor \ {a} : pc[b] \in Probing \cup {"save", "place"})
    /\ UNCHANGED <<storeVars, dryVars, roots, libs, probeVars, planVars, doing, localVars,
                   budget>>

AddLibraryRoot(a, l) ==
    /\ pc[a] = "add" /\ l \in left[a]
    /\ guardLibs' = guardLibs \cup {l} /\ left' = [left EXCEPT ![a] = @ \ {l}]
    /\ UNCHANGED <<storeVars, dryVars, roots, libs, probeVars, planVars, pc, doing, dry, was, maps,
                   mine, jobVars, countVars>>

SetLibraries(a) ==
    /\ left[a] = {} /\ Goto(a, "add", "pairs")
    /\ libs' = mine[a]
    /\ UNCHANGED <<storeVars, dryVars, roots, guardLibs, probeVars, planVars, doing, localVars,
                   countVars>>

\* probeAllPairs takes its libraries and roots, and skips them all in dry-run.
ProbeAllPairs(a) ==
    /\ Goto(a, "pairs", "pick")
    /\ todo' = [todo EXCEPT ![a] = IF cfgDry THEN {} ELSE (roots \X libs) \cup {<<l, l>> : l \in libs}]
    /\ Note("switch", ~cfgDry /\ Closed(a))
    /\ UNCHANGED <<storeVars, dryVars, rootVars, probeVars, planVars, doing, listVars, at, out,
                   good, budget>>

\* Whether a library can be written to comes before its pairs.
PickPair(a, j) ==
    /\ pc[a] = "pick" /\ j \in todo[a]
    /\ j[1] \in Source => <<j[2], j[2]>> \notin todo[a]
    /\ todo' = [todo EXCEPT ![a] = @ \ {j}] /\ at' = [at EXCEPT ![a] = j]
    /\ pc' = [pc EXCEPT ![a] = IF j[1] \in Lib THEN "writeable" ELSE "create"]
    /\ UNCHANGED <<storeVars, dryVars, rootVars, probeVars, planVars, doing, listVars, out, good,
                   countVars>>

PairsDone(a) ==
    /\ pc[a] = "pick" /\ todo[a] = {}
    /\ writable' = good[a]
    /\ IF doing[a] = "settings"
       THEN /\ pc' = [pc EXCEPT ![a] = "show"]
            /\ UNCHANGED <<doing, localVars>>
       ELSE Ends(a)
    /\ UNCHANGED <<storeVars, dryVars, rootVars, cache, files, planVars, countVars>>

-----------------------------------------------------------------------------
(* Prober *)

\* Writable: a probe file that can be created makes a library writable.
CreateWrite(a) ==
    LET f == <<at[a][2], "write">>
        made == MayProbe(f[1]) /\ f \notin files
    IN  /\ Goto(a, "writeable", IF made THEN "unwrite" ELSE "pick")
        /\ files' = IF made THEN files \cup {f} ELSE files
        /\ good' = [good EXCEPT ![a] = IF made THEN @ \cup {f[1]} ELSE @]
        /\ Note("probe", Collides(a))
        /\ UNCHANGED <<storeVars, dryVars, rootVars, cache, writable, planVars, doing, listVars,
                       todo, at, out, budget>>

RemoveWrite(a) ==
    /\ Goto(a, "unwrite", "pick")
    /\ files' = Removed(<<at[a][2], "write">>)
    /\ UNCHANGED <<storeVars, dryVars, rootVars, cache, writable, planVars, doing, localVars,
                   countVars>>

\* What probePair says of a source it cannot write to: the mount is looked
\* at first, or not at all.
Unwritten_blind(s) == IF guardDry THEN "dryrun" ELSE "separate"
Unwritten(s) == IF s \in ReadOnly THEN "readonly" ELSE IF guardDry THEN "dryrun" ELSE "separate"

\* What Probe caches: a refusal in dry-run is no answer.
Caches_all(o) == TRUE
Caches(o) == o # "dryrun"

\* probePair up to the file in the download root: any failure to create it
\* reads as separate mounts.
CreateSrc(a) ==
    LET s == at[a][1]
        made == s \notin ReadOnly /\ MayProbe(s) /\ <<s, "src">> \notin files
    IN  /\ pc[a] = "create"
        /\ out' = [out EXCEPT ![a] = Unwritten(s)]
        /\ pc' = [pc EXCEPT ![a] = IF made THEN "unlink"
                                   ELSE IF Caches(Unwritten(s)) THEN "put" ELSE Return(a)]
        /\ files' = IF made THEN files \cup {<<s, "src">>} ELSE files
        /\ Note("probe", s \notin ReadOnly /\ Collides(a))
        /\ UNCHANGED <<storeVars, dryVars, rootVars, cache, writable, planVars, doing, listVars,
                       todo, at, good, budget>>

\* The leftover of an interrupted probe in the library root.
RemoveOld(a) ==
    /\ Goto(a, "unlink", "link")
    /\ files' = Removed(<<at[a][2], "dst">>)
    /\ UNCHANGED <<storeVars, dryVars, rootVars, cache, writable, planVars, doing, localVars,
                   countVars>>

LinkProbe(a) ==
    LET linked == Links(at[a][1], at[a][2])
    IN  /\ Goto(a, "link", IF linked THEN "unlink2" ELSE "clean")
        /\ out' = [out EXCEPT ![a] = IF linked THEN "available" ELSE "separate"]
        /\ files' = IF linked THEN files \cup {<<at[a][2], "dst">>} ELSE files
        /\ UNCHANGED <<storeVars, dryVars, rootVars, cache, writable, planVars, doing, listVars,
                       todo, at, good, countVars>>

RemoveDst(a) ==
    /\ Goto(a, "unlink2", "clean")
    /\ files' = Removed(<<at[a][2], "dst">>)
    /\ UNCHANGED <<storeVars, dryVars, rootVars, cache, writable, planVars, doing, localVars,
                   countVars>>

\* The deferred removal of the file in the download root.
RemoveSrc(a) ==
    /\ Goto(a, "clean", "put")
    /\ files' = Removed(<<at[a][1], "src">>)
    /\ UNCHANGED <<storeVars, dryVars, rootVars, cache, writable, planVars, doing, localVars,
                   countVars>>

CachePut(a) ==
    /\ Goto(a, "put", Return(a))
    /\ cache' = [cache EXCEPT ![at[a]] = out[a]]
    /\ UNCHANGED <<storeVars, dryVars, rootVars, writable, files, planVars, doing, localVars,
                   countVars>>

-----------------------------------------------------------------------------
(* A scan and an execution *)

\* ScanNow, one at a time: the save path of an item is registered.
Scan(a, s) ==
    /\ Others(a, {"scan"}) = {} /\ Begin(a, "scan", "save")
    /\ roots' = roots \cup {s}
    /\ Note("deeper", Deepens({s} \ roots))
    /\ UNCHANGED <<storeVars, dryVars, guardLibs, libs, probeVars, planVars, localVars>>

\* No library for the type: the item is skipped.
SkipItem(a) ==
    /\ pc[a] = "save" /\ Target \notin libs /\ Ends(a)
    /\ UNCHANGED <<storeVars, dryVars, rootVars, probeVars, planVars, countVars>>

\* savePlan asks EnsureProbed of the deepest registered root.
EnsureProbed(a, r) ==
    /\ pc[a] = "save" /\ Target \in libs /\ Deepest(r)
    /\ at' = [at EXCEPT ![a] = <<r, Target>>] /\ out' = [out EXCEPT ![a] = cache[<<r, Target>>]]
    /\ pc' = [pc EXCEPT ![a] = IF cache[<<r, Target>>] = "none" THEN "create" ELSE "keep"]
    /\ Note("switch", Closed(a))
    /\ UNCHANGED <<storeVars, dryVars, rootVars, probeVars, planVars, doing, listVars, todo, good,
                   budget>>

KeepPlan(a) ==
    /\ pc[a] = "keep" /\ Ends(a)
    /\ plan' = [method |-> IF out[a] = "available" THEN "hardlink" ELSE "copy", root |-> at[a][1]]
    /\ UNCHANGED <<storeVars, dryVars, rootVars, probeVars, ran, countVars>>

\* The lookup of Execute, and a lookup by the torrent's own folder, which
\* always misses.
AllowLink_folder(r) == FALSE
AllowLink(r) == cache[<<r, Target>>] = "available"

\* Execute, one at a time: its refusals and the choice of allowLink, which
\* "out" holds: "separate" stands for a hardlink of the plan not allowed.
Execute(a, r) ==
    /\ Others(a, {"execute"}) = {} /\ Begin(a, "execute", "place")
    /\ plan # NoPlan /\ ~cfgDry /\ Target \in libs /\ Deepest(r)
    /\ out' = [out EXCEPT ![a] = IF AllowLink(r) THEN "available"
                                 ELSE IF plan.method = "hardlink" THEN "separate" ELSE "none"]
    /\ Note("switch", Closed(a) \/ \E b \in Actor : pc[b] = "setguard")
    /\ UNCHANGED <<storeVars, dryVars, rootVars, probeVars, planVars, listVars, todo, at, good>>

\* Its placements, each of which passes through assertWritable.
Place(a) ==
    /\ pc[a] = "place" /\ Ends(a)
    /\ ran' = IF guardDry \/ Target \notin guardLibs THEN "refused"
              ELSE IF out[a] = "separate" THEN "copied" ELSE "asplanned"
    /\ plan' = IF guardDry \/ Target \notin guardLibs THEN plan ELSE NoPlan
    /\ UNCHANGED <<storeVars, dryVars, rootVars, probeVars, countVars>>

-----------------------------------------------------------------------------
(* The process dies and run starts it again: only the store, the plan in it
   and the probe files are left. *)
Crash ==
    /\ Spends("crash")
    /\ Note("crash", TRUE)
    /\ UNCHANGED <<storeVars, files, planVars>>
    /\ cfgDry' = dbDry /\ guardDry' = dbDry /\ uiDry' = dbDry
    /\ roots' = {} /\ guardLibs' = {} /\ libs' = {}
    /\ cache' = NotProbed /\ writable' = {}
    /\ pc' = Starting /\ doing' = AtStart /\ dry' = Unset /\ was' = Unset
    /\ maps' = Nothing /\ mine' = Nothing /\ left' = Nothing /\ todo' = Nothing
    /\ at' = NoPair /\ out' = NoOutcome /\ good' = Nothing

Request(a) ==
    \/ \E v \in BOOLEAN : PutSettings(a, v)
    \/ \E l \in Lib : SaveLibrary(a, l) \/ DeleteLibrary(a, l)
    \/ \E s \in Source : SaveClient(a, s) \/ DeleteClient(a, s) \/ Scan(a, s) \/ Execute(a, s)

Configure(a) == LoadConfig(a) \/ SetConfig(a) \/ SetDryRun(a) \/ ShowConfig(a)
Reload(a) ==
    \/ ListClients(a) \/ ListLibraries(a) \/ ResetLibraryRoots(a)
    \/ (\E l \in Lib : AddLibraryRoot(a, l)) \/ SetLibraries(a)
Probe(a) ==
    \/ ProbeAllPairs(a) \/ (\E j \in Job : PickPair(a, j)) \/ PairsDone(a)
    \/ CreateWrite(a) \/ RemoveWrite(a)
    \/ CreateSrc(a) \/ RemoveOld(a) \/ LinkProbe(a) \/ RemoveDst(a) \/ RemoveSrc(a) \/ CachePut(a)
Work(a) == SkipItem(a) \/ (\E r \in Source : EnsureProbed(a, r)) \/ KeepPlan(a) \/ Place(a)

\* What a goroutine does once it has begun.
Step(a) == Configure(a) \/ Reload(a) \/ Probe(a) \/ Work(a)

Next ==
    \/ \E a \in Actor : Request(a) \/ Step(a) \/ ReadFails(a)
    \/ \E v \in BOOLEAN : PutSettingsFails(v)
    \/ Crash

Spec == Init /\ [][Next]_vars

-----------------------------------------------------------------------------
(* Properties *)

Quiet == \A a \in Actor : pc[a] = "idle"

\* With no request under way, the pipeline, the guard and the UI agree with
\* the store on dry-run, unless two settings requests overlapped or the store
\* failed under one (Pipeline.SetConfig, Server.putSettings).
DryRunAgrees ==
    Quiet /\ clash \cap {"config", "fail"} = {} => {cfgDry, guardDry, uiDry} = {dbDry}

\* With no request under way, the guard lets writes into exactly the libraries
\* of the store, and the pipeline plans for exactly those, unless two reloads
\* overlapped or one failed: a library deleted is closed, one saved is open.
LibrariesAgree ==
    Quiet /\ clash \cap {"reload", "fail"} = {} => guardLibs = dbLibs /\ libs = dbLibs

\* With no request under way, every root a client maps is protected by the
\* guard, in whatever order requests overlapped: a reload reads the clients
\* after its own write, and source roots are only ever added.
SourcesArmed == Quiet /\ "fail" \notin clash => dbMaps \subseteq roots

\* What disturbs a probe: another one of the same root, a guard that closes
\* under it, the death of the process.
Disturbed == clash \cap {"probe", "switch", "reload", "crash"} # {}

\* The cache says of a pair what the kernel does with it, and no probe file
\* outlives its probe, unless a probe was disturbed.
CacheIsTrue ==
    ~Disturbed => /\ \A p \in Source \X Lib : cache[p] # "none" => cache[p] = Truth(p)
                  /\ (\A a \in Actor : pc[a] \notin Probing) => files = {}

\* Once dry-run is off and no request is under way, every configured pair has
\* been probed and every library found writable, whatever was saved first:
\* turning dry-run off, saving a library or saving a client.
ProbedWhenWet ==
    Quiet /\ ~cfgDry /\ ~Disturbed /\ clash \cap {"config", "reload", "mixed", "fail"} = {} =>
        /\ \A s \in dbMaps, l \in dbLibs : cache[<<s, l>>] # "none"
        /\ writable = dbLibs

\* A plan that says hardlink is carried out as a copy only if a deeper root
\* was registered after it was decided, a probe was disturbed, or the process
\* died: savePlan and Execute look the pair up under one key.  The guard stops
\* an execution it let begin only if a reload or a switch to dry-run came
\* between, or two requests or a failure left guard and pipeline apart.
OutcomeForCause ==
    /\ ran = "copied" => Disturbed \/ "deeper" \in clash
    /\ ran = "refused" => clash \cap {"switch", "config", "reload", "fail"} # {}

\* A pair that links is never remembered as one that does not.
CachedIsTrue == \A p \in Linkable : p[1] \notin ReadOnly => cache[p] # "separate"
=============================================================================
