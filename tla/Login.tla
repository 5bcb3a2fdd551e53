-------------------------------- MODULE Login --------------------------------
(***************************************************************************)
(* The qBittorrent adapter: sessions that expire under several goroutines, *)
(* credentials that must not be tried again, capabilities that a probe     *)
(* finds out.  A reload or a test of a client makes a new adapter, while   *)
(* scans and executions under way keep the one they began with.            *)
(***************************************************************************)
EXTENDS Integers, FiniteSets

CONSTANTS
    Proc,           \* goroutines
    Role,           \* "scan", "mark" (MarkFiled of an execution), "save" or "test"
    MaxAdapter,     \* adapters made in a behaviour
    Cred,           \* user names with their passwords
    Open,           \* no user name: nothing is posted
    First,          \* what the server accepts at first
    MaxFail,        \* the server's WebUIMaxAuthFailCount
    MaxTrouble      \* expiries, lost answers and changes of password

ASSUME RoleAssumption == Role \in [Proc -> {"scan", "mark", "save", "test"}]
ASSUME CredAssumption == Open \notin Cred /\ First \in Cred \cup {Open}
ASSUME BoundsAssumption ==
    /\ MaxAdapter \in Nat \ {0} /\ MaxFail \in Nat \ {0}
    /\ MaxTrouble \in Nat

Adapter == 1 .. MaxAdapter

VARIABLES
    stored, made, current,      \* the client's row; adapters made; the one of ClientEntry, or 0
    cred, loggedIn, failed,     \* per adapter: Config, and qbClient's flags
    categories, tags,           \* per adapter: qbClient.caps
    scannable,                  \* per adapter: ClientEntry.Scannable
    pc, on, call,               \* per goroutine: its next step, its adapter, its request
    accepts, session,           \* the server: what it accepts, the adapters with a session
    fails, banned,              \*   rejections in a row, and the ban they end in
    rejected,                   \* history: rejections per adapter,
    ended,                      \*   how the last request of a goroutine ended,
    expired, spoiled,           \*   expiries and worse it met; and what a probe met
    harmed,                     \*   per adapter
    troubles

adapterVars == <<stored, made, current, cred>>
flagVars    == <<loggedIn, failed>>
capVars     == <<categories, tags, scannable>>
procVars    == <<pc, on, call>>
serverVars  == <<accepts, session, fails, banned>>
metVars     == <<expired, spoiled, harmed>>
vars == <<adapterVars, flagVars, capVars, procVars, serverVars, rejected, ended, metVars, troubles>>

-----------------------------------------------------------------------------
(* Types *)

Json  == {"list", "categories", "tags"}
Calls == Json \cup {"version", "api", "mark"}
PCs   == {"idle", "login", "send", "clear", "relogin", "again"}

TypeOK ==
    /\ stored \in Cred \cup {Open} /\ made \in 0 .. MaxAdapter /\ current \in 0 .. made
    /\ cred \in [Adapter -> Cred \cup {Open}]
    /\ loggedIn \in [Adapter -> BOOLEAN] /\ failed \in [Adapter -> BOOLEAN]
    /\ categories \in [Adapter -> BOOLEAN] /\ tags \in [Adapter -> BOOLEAN]
    /\ scannable \in [Adapter -> BOOLEAN]
    /\ pc \in [Proc -> PCs] /\ on \in [Proc -> Adapter] /\ call \in [Proc -> Calls]
    /\ accepts \in Cred \cup {Open} /\ session \subseteq Adapter
    /\ fails \in 0 .. MaxFail /\ banned \in BOOLEAN
    /\ rejected \in [Adapter -> Nat] /\ (\A i \in Adapter : cred[i] = Open => rejected[i] = 0)
    /\ ended \in [Proc -> {"none", "ok", "error"}]
    /\ expired \in [Proc -> 0 .. 2] /\ spoiled \in [Proc -> BOOLEAN] /\ harmed \in [Adapter -> BOOLEAN]
    /\ troubles \in 0 .. MaxTrouble

Init ==
    /\ stored \in Cred \cup {Open} /\ made = 0 /\ current = 0
    /\ cred = [i \in Adapter |-> Open]
    /\ loggedIn = [i \in Adapter |-> FALSE] /\ failed = [i \in Adapter |-> FALSE]
    /\ categories = [i \in Adapter |-> FALSE] /\ tags = [i \in Adapter |-> FALSE]
    /\ scannable = [i \in Adapter |-> FALSE]
    /\ pc = [p \in Proc |-> "idle"] /\ on = [p \in Proc |-> 1] /\ call = [p \in Proc |-> "list"]
    /\ accepts = First /\ session = {} /\ fails = 0 /\ banned = FALSE
    /\ rejected = [i \in Adapter |-> 0]
    /\ ended = [p \in Proc |-> "none"]
    /\ expired = [p \in Proc |-> 0] /\ spoiled = [p \in Proc |-> FALSE]
    /\ harmed = [i \in Adapter |-> FALSE]
    /\ troubles = 0

-----------------------------------------------------------------------------
(* Requests begin *)

\* The server rejects a credential; one that lets this address in rejects none.
Rejects(c) == accepts # Open /\ c # accepts

\* A request meets a session that is gone already, an adapter that cannot
\* log in, or a ban.
Stale(i) == IF loggedIn[i] /\ i \notin session /\ cred[i] # Open THEN 1 ELSE 0
Hopeless(i) == failed[i] \/ Rejects(cred[i]) \/ banned

\* The goroutines with a request of an adapter under way.
Using(i) == {p \in Proc : pc[p] # "idle" /\ on[p] = i}

Start(p, i, c) ==
    /\ pc[p] = "idle" /\ pc' = [pc EXCEPT ![p] = "login"]
    /\ on' = [on EXCEPT ![p] = i] /\ call' = [call EXCEPT ![p] = c]
    /\ ended' = [ended EXCEPT ![p] = "none"]

Meet(p, i) ==
    /\ expired' = [expired EXCEPT ![p] = Stale(i)]
    /\ spoiled' = [spoiled EXCEPT ![p] = Hopeless(i)]

\* ListItems or ListFiles of a scan, on a client that may be scanned.
List(p) ==
    /\ Role[p] = "scan" /\ current # 0 /\ scannable[current]
    /\ Start(p, current, "list") /\ Meet(p, current)
    /\ UNCHANGED <<adapterVars, flagVars, capVars, serverVars, rejected, harmed, troubles>>

\* MarkFiled returns ErrUnsupported without the capability.
MarkFiled(p) ==
    /\ Role[p] = "mark" /\ current # 0 /\ tags[current]
    /\ Start(p, current, "mark") /\ Meet(p, current)
    /\ UNCHANGED <<adapterVars, flagVars, capVars, serverVars, rejected, harmed, troubles>>

\* New, with a cookie jar of its own, and the first request of Probe.
Make(p, c) ==
    /\ made < MaxAdapter /\ made' = made + 1
    /\ cred' = [cred EXCEPT ![made + 1] = c]
    /\ Start(p, made + 1, "version")
    /\ expired' = [expired EXCEPT ![p] = 0]
    /\ spoiled' = [spoiled EXCEPT ![p] = Rejects(c) \/ banned]
    /\ harmed' = [harmed EXCEPT ![made + 1] = Rejects(c) \/ banned]

\* The user saves the client, and Reload makes its adapter anew.
SaveClient(p, c) ==
    /\ Role[p] = "save" /\ Make(p, c) /\ stored' = c
    /\ UNCHANGED <<current, flagVars, capVars, serverVars, rejected, troubles>>

\* Any other reload: a library is saved, the process starts.
Reload(p) ==
    /\ Role[p] = "save" /\ Make(p, stored)
    /\ UNCHANGED <<stored, current, flagVars, capVars, serverVars, rejected, troubles>>

\* TestClient, with what the user typed.
TestClient(p, c) ==
    /\ Role[p] = "test" /\ Make(p, c)
    /\ UNCHANGED <<stored, current, flagVars, capVars, serverVars, rejected, troubles>>

-----------------------------------------------------------------------------
(* Requests end *)

Returns(p, how) ==
    /\ pc' = [pc EXCEPT ![p] = "idle"] /\ ended' = [ended EXCEPT ![p] = how]
    /\ UNCHANGED <<on, call>>

Continues(p, c) ==
    /\ pc' = [pc EXCEPT ![p] = "login"] /\ call' = [call EXCEPT ![p] = c]
    /\ UNCHANGED <<on, ended>>

\* SetClients installs what Reload made; TestClient drops it.
Installs(p, i, able) ==
    /\ scannable' = [scannable EXCEPT ![i] = able]
    /\ current' = IF Role[p] = "save" THEN i ELSE current

\* TestClient lists the items of a client that may be scanned.
Counts(p) == Role[p] = "test" /\ categories[on[p]]

\* A request of p has been answered: the next one of Probe, or its end.  An
\* error of one of the last two only leaves its capability out; nobody looks
\* at them before the adapter is installed.
Answered(p, good) ==
    LET i == on[p] IN
    \/ /\ call[p] \in {"list", "mark"}
       /\ Returns(p, IF good THEN "ok" ELSE "error") /\ UNCHANGED <<current, capVars>>
    \/ /\ call[p] \in {"version", "api"} /\ ~good
       /\ Returns(p, "error") /\ Installs(p, i, FALSE) /\ UNCHANGED <<categories, tags>>
    \/ /\ call[p] = "version" /\ good
       /\ Continues(p, "api") /\ UNCHANGED <<current, capVars>>
    \/ /\ call[p] = "api" /\ good
       /\ Continues(p, "categories") /\ UNCHANGED <<current, capVars>>
    \/ /\ call[p] = "categories" /\ Continues(p, "tags")
       /\ categories' = [categories EXCEPT ![i] = good] /\ UNCHANGED <<current, tags, scannable>>
    \/ /\ call[p] = "tags" /\ tags' = [tags EXCEPT ![i] = good] /\ UNCHANGED categories
       /\ \/ Counts(p) /\ Continues(p, "list") /\ UNCHANGED <<current, scannable>>
          \/ ~Counts(p) /\ Returns(p, "ok") /\ Installs(p, i, categories[i])

-----------------------------------------------------------------------------
(* login: the mutex is held until the server has answered *)

Ready(i) == loggedIn[i]

\* Credentials are posted only if there are any.
Posts_any(i) == ~loggedIn[i] /\ ~failed[i]
Posts(i) == ~loggedIn[i] /\ ~failed[i] /\ cred[i] # Open

\* No user name: the session is taken for granted.
Assume(i) == ~loggedIn[i] /\ ~failed[i] /\ cred[i] = Open

Enter(p, from, to) == pc[p] = from /\ pc' = [pc EXCEPT ![p] = to] /\ UNCHANGED <<on, call, ended>>
Sending(from) == IF from = "login" THEN "send" ELSE "again"

LoggedIn(p, from) ==
    LET i == on[p] IN
    /\ Ready(i) \/ Assume(i)
    /\ Enter(p, from, Sending(from))
    /\ loggedIn' = [loggedIn EXCEPT ![i] = TRUE]
    /\ UNCHANGED <<adapterVars, failed, capVars, serverVars, rejected, metVars, troubles>>

\* The latch: nothing is sent.
Latched(p, from) ==
    /\ pc[p] = from /\ ~loggedIn[on[p]] /\ failed[on[p]]
    /\ Answered(p, FALSE)
    /\ UNCHANGED <<stored, made, cred, flagVars, serverVars, rejected, metVars, troubles>>

\* The server takes the credentials: 200 "Ok." or 204.
Accepted(p, from) ==
    LET i == on[p] IN
    /\ pc[p] = from /\ Posts(i) /\ ~Rejects(cred[i]) /\ ~banned
    /\ Enter(p, from, Sending(from))
    /\ loggedIn' = [loggedIn EXCEPT ![i] = TRUE]
    /\ session' = session \cup {i} /\ fails' = 0
    /\ UNCHANGED <<adapterVars, failed, capVars, accepts, banned, rejected, metVars, troubles>>

\* 200 "Fails.", 401, or the 403 of a ban.  The latch stands, for every request of
\* the adapter that is under way; forgotten, each of them would try again.
Latch_no(i) == UNCHANGED failed
Latch(i) == failed' = [failed EXCEPT ![i] = TRUE]

Refused(p, from) ==
    LET i == on[p] IN
    /\ pc[p] = from /\ Posts(i) /\ (Rejects(cred[i]) \/ banned)
    /\ Latch(i)
    /\ fails' = IF banned THEN fails ELSE fails + 1
    /\ banned' = (banned \/ fails + 1 = MaxFail)
    /\ rejected' = [rejected EXCEPT ![i] = @ + 1]
    /\ spoiled' = [q \in Proc |-> spoiled[q] \/ q \in Using(i)]
    /\ Answered(p, FALSE)
    /\ UNCHANGED <<stored, made, cred, loggedIn, accepts, session, expired, harmed, troubles>>

LoginStep(p, from) ==
    LoggedIn(p, from) \/ Latched(p, from) \/ Accepted(p, from) \/ Refused(p, from)

-----------------------------------------------------------------------------
(* getJSON, getText, MarkFiled *)

\* The server answers a request that comes with a session, or any.
Serves(i) == i \in session \/ accepts = Open

Served(p) ==
    /\ pc[p] \in {"send", "again"} /\ Serves(on[p])
    /\ Answered(p, TRUE)
    /\ UNCHANGED <<stored, made, cred, flagVars, serverVars, rejected, metVars, troubles>>

\* 403: only getJSON logs in again, and only once.
Forbidden(p) ==
    /\ pc[p] = "send" /\ ~Serves(on[p]) /\ call[p] \in Json
    /\ Enter(p, "send", "clear")
    /\ UNCHANGED <<adapterVars, flagVars, capVars, serverVars, rejected, metVars, troubles>>

GivesUp(p) ==
    /\ pc[p] \in {"send", "again"} /\ ~Serves(on[p])
    /\ pc[p] = "again" \/ call[p] \notin Json
    /\ Answered(p, FALSE)
    /\ UNCHANGED <<stored, made, cred, flagVars, serverVars, rejected, metVars, troubles>>

Clear_no(i) == UNCHANGED loggedIn
Clear(i) == loggedIn' = [loggedIn EXCEPT ![i] = FALSE]

ClearSession(p) ==
    /\ Enter(p, "clear", "relogin") /\ Clear(on[p])
    /\ UNCHANGED <<adapterVars, failed, capVars, serverVars, rejected, metVars, troubles>>

\* No answer in time, a redirect loop, an answer of another kind.
Lost(p) ==
    /\ pc[p] \in {"send", "again"} \/ (pc[p] \in {"login", "relogin"} /\ Posts(on[p]))
    /\ troubles < MaxTrouble /\ troubles' = troubles + 1
    /\ spoiled' = [spoiled EXCEPT ![p] = TRUE]
    /\ harmed' = [harmed EXCEPT ![on[p]] = TRUE]
    /\ Answered(p, FALSE)
    /\ UNCHANGED <<stored, made, cred, flagVars, serverVars, rejected, expired>>

-----------------------------------------------------------------------------
(* The server *)

Expire(i) ==
    /\ i \in session /\ session' = session \ {i}
    /\ troubles < MaxTrouble /\ troubles' = troubles + 1
    /\ expired' = [p \in Proc |-> IF p \in Using(i) /\ expired[p] < 2 THEN expired[p] + 1 ELSE expired[p]]
    /\ harmed' = [harmed EXCEPT ![i] = @ \/ \E p \in Using(i) : Role[p] \in {"save", "test"}]
    /\ UNCHANGED <<adapterVars, flagVars, capVars, procVars, ended, accepts, fails, banned, rejected,
                   spoiled>>

ChangePassword(c) ==
    /\ c # accepts /\ accepts' = c
    /\ troubles < MaxTrouble /\ troubles' = troubles + 1
    /\ spoiled' = [p \in Proc |-> TRUE] /\ harmed' = [i \in Adapter |-> harmed[i] \/ Using(i) # {}]
    /\ UNCHANGED <<adapterVars, flagVars, capVars, procVars, ended, session, fails, banned, rejected,
                   expired>>

BanEnds ==
    /\ banned /\ banned' = FALSE /\ fails' = 0
    /\ UNCHANGED <<adapterVars, flagVars, capVars, procVars, ended, accepts, session, rejected,
                   metVars, troubles>>

Begin(p) ==
    \/ List(p) \/ MarkFiled(p) \/ Reload(p)
    \/ \E c \in Cred \cup {Open} : SaveClient(p, c) \/ TestClient(p, c)

Step(p) ==
    \/ LoginStep(p, "login") \/ LoginStep(p, "relogin")
    \/ Served(p) \/ Forbidden(p) \/ GivesUp(p) \/ ClearSession(p)

World == (\E i \in Adapter : Expire(i)) \/ (\E c \in Cred \cup {Open} : ChangePassword(c)) \/ BanEnds

Next == (\E p \in Proc : Begin(p) \/ Step(p) \/ Lost(p)) \/ World
Spec == Init /\ [][Next]_vars

\* Every request is answered or times out after 30 seconds, and the ticker
\* scans for ever.
Fairness == \A p \in Proc : WF_vars(Step(p)) /\ WF_vars(List(p))
FairSpec == Spec /\ Fairness

-----------------------------------------------------------------------------
(* Properties *)

\* One adapter has its credentials rejected at most once, however many
\* goroutines meet the expired session at the same time: qbClient.failed.
OneRejection == \A i \in Adapter : rejected[i] <= 1

\* A listing survives the end of its session, and fails only for a reason the
\* server or the network gave; other requests do not survive it.  A client is
\* refused, or not tagged, only if something happened to its probe.
FailsForCause ==
    /\ \A p \in Proc : ended[p] = "error" =>
          spoiled[p] \/ expired[p] >= (IF call[p] = "list" THEN 2 ELSE 1)
    /\ current # 0 /\ ~(scannable[current] /\ tags[current]) => harmed[current] \/ failed[current]

\* A client that is installed, accepted and not latched for good is listed
\* again and again, whatever expiries and lost answers came before.
Works == /\ current # 0 /\ scannable[current] /\ ~failed[current]
         /\ ~Rejects(cred[current]) /\ ~banned
Recovers == <>[]Works => []<>(\E p \in Proc : Role[p] = "scan" /\ ended[p] = "ok")
=============================================================================
