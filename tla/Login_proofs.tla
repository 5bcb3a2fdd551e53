----------------------------- MODULE Login_proofs -----------------------------
(***************************************************************************)
(* Types, and that no adapter has its credentials rejected twice, for any  *)
(* number of goroutines and adapters.  The latch is set in the step that   *)
(* is rejected and never taken back; that a new adapter starts with none   *)
(* needs that nobody uses an adapter before it is made.                    *)
(***************************************************************************)
EXTENDS Login, TLAPS

TAdapter == /\ stored \in Cred \cup {Open} /\ made \in 0 .. MaxAdapter /\ current \in 0 .. made
            /\ cred \in [Adapter -> Cred \cup {Open}]
TFlag == loggedIn \in [Adapter -> BOOLEAN] /\ failed \in [Adapter -> BOOLEAN]
TCap == /\ categories \in [Adapter -> BOOLEAN] /\ tags \in [Adapter -> BOOLEAN]
        /\ scannable \in [Adapter -> BOOLEAN]
TProc == pc \in [Proc -> PCs] /\ on \in [Proc -> Adapter] /\ call \in [Proc -> Calls]
TEnded == ended \in [Proc -> {"none", "ok", "error"}]
TServer == /\ accepts \in Cred \cup {Open} /\ session \subseteq Adapter
           /\ fails \in 0 .. MaxFail /\ banned \in BOOLEAN
TMet == /\ expired \in [Proc -> 0 .. 2] /\ spoiled \in [Proc -> BOOLEAN]
        /\ harmed \in [Adapter -> BOOLEAN] /\ troubles \in 0 .. MaxTrouble

\* Nobody uses an adapter that is not made; nothing was rejected of it, nor of
\* one without a user name; what was rejected once is latched.
Used == \A p \in Proc : pc[p] # "idle" => on[p] <= made
Once == /\ rejected \in [Adapter -> Nat]
        /\ \A i \in Adapter : /\ i > made \/ cred[i] = Open => rejected[i] = 0
                              /\ rejected[i] <= 1 /\ (rejected[i] = 1 => failed[i])
Room == banned \/ fails < MaxFail

IInv == TAdapter /\ TFlag /\ TCap /\ TProc /\ TEnded /\ TServer /\ TMet /\ Used /\ Once /\ Room

\* The invariant holds what the run checks.
LEMMA Implies == IInv => TypeOK /\ OneRejection
BY DEF IInv, TypeOK, OneRejection, TAdapter, TFlag, TCap, TProc, TEnded, TServer, TMet, Once

LEMMA InitInv == Init => IInv
<1> SUFFICES ASSUME Init PROVE IInv
  OBVIOUS
<1> USE BoundsAssumption, CredAssumption DEF Init
<1>1. TAdapter /\ TFlag /\ TCap
  BY DEF TAdapter, TFlag, TCap, Adapter
<1>2. TProc /\ TEnded
  BY DEF TProc, TEnded, PCs, Calls, Json, Adapter
<1>3. TServer /\ TMet
  <2>1. TServer
    <3>1. accepts \in Cred \cup {Open} /\ session \subseteq Adapter /\ banned \in BOOLEAN
      OBVIOUS
    <3>2. fails \in 0 .. MaxFail
      OBVIOUS
    <3> QED
      BY <3>1, <3>2 DEF TServer
  <2>2. expired \in [Proc -> 0 .. 2] /\ spoiled \in [Proc -> BOOLEAN]
    OBVIOUS
  <2>3. harmed \in [Adapter -> BOOLEAN] /\ troubles \in 0 .. MaxTrouble
    OBVIOUS
  <2> QED
    BY <2>1, <2>2, <2>3 DEF TMet
<1>4. Used /\ Once /\ Room
  BY DEF Used, Once, Room
<1> QED
  BY <1>1, <1>2, <1>3, <1>4 DEF IInv

\* A request begins: it uses an adapter that is made, or is being made.
LEMMA Starts ==
    ASSUME TProc, TEnded, Used, NEW p \in Proc, NEW i \in Adapter, NEW c \in Calls,
           made \in 0 .. MaxAdapter, made' \in 0 .. MaxAdapter, made <= made', i <= made',
           Start(p, i, c)
    PROVE  TProc' /\ TEnded' /\ Used'
<1>1. TProc' /\ TEnded'
  BY DEF TProc, TEnded, Start, PCs
<1>2. Used'
  BY DEF TProc, Used, Start, Adapter
<1> QED
  BY <1>1, <1>2

\* A request is answered: nobody takes an adapter up by it.
LEMMA Answers ==
    ASSUME TProc, TEnded, TCap, Used, TAdapter, NEW p \in Proc, NEW good \in BOOLEAN,
           Answered(p, good), pc[p] # "idle", made' = made, stored' = stored, cred' = cred
    PROVE  TProc' /\ TEnded' /\ TCap' /\ Used' /\ TAdapter'
<1> DEFINE i == on[p]
<1>0. i \in Adapter /\ i <= made /\ made' = made
  BY DEF TProc, Used
<1>1. ASSUME NEW how \in {"ok", "error"}, Returns(p, how) PROVE TProc' /\ TEnded' /\ Used'
  BY <1>0, <1>1 DEF Returns, TProc, TEnded, Used, PCs
<1>2. ASSUME NEW c \in {"api", "categories", "tags", "list"}, Continues(p, c)
      PROVE  TProc' /\ TEnded' /\ Used'
  BY <1>0, <1>2 DEF Continues, TProc, TEnded, Used, PCs, Calls, Json
<1>3. ASSUME NEW able \in BOOLEAN, Installs(p, i, able)
      PROVE  scannable' \in [Adapter -> BOOLEAN] /\ TAdapter'
  BY <1>0, <1>3 DEF Installs, TCap, TAdapter, Adapter
<1>4. CASE call[p] \in {"list", "mark"} /\ Returns(p, IF good THEN "ok" ELSE "error")
           /\ UNCHANGED <<current, capVars>>
  <2>1. TProc' /\ TEnded' /\ Used'
    BY <1>1, <1>4
  <2> QED
    BY <2>1, <1>4 DEF TCap, TAdapter, capVars
<1>5. CASE Returns(p, "error") /\ Installs(p, i, FALSE) /\ UNCHANGED <<categories, tags>>
  BY <1>1, <1>3, <1>5 DEF TCap
<1>6. CASE \E c \in {"api", "categories"} : Continues(p, c) /\ UNCHANGED <<current, capVars>>
  <2>1. TProc' /\ TEnded' /\ Used'
    BY <1>2, <1>6
  <2> QED
    BY <2>1, <1>6 DEF TCap, TAdapter, capVars
<1>7. CASE /\ Continues(p, "tags") /\ categories' = [categories EXCEPT ![i] = good]
           /\ UNCHANGED <<current, tags, scannable>>
  <2>1. TProc' /\ TEnded' /\ Used'
    BY <1>2, <1>7
  <2> QED
    BY <2>1, <1>0, <1>7 DEF TCap, TAdapter
<1>8. CASE /\ Returns(p, "ok") /\ Installs(p, i, categories[i])
           /\ tags' = [tags EXCEPT ![i] = good] /\ UNCHANGED categories
  <2>1. TProc' /\ TEnded' /\ Used'
    BY <1>1, <1>8
  <2>2. categories[i] \in BOOLEAN
    BY <1>0 DEF TCap
  <2> QED
    BY <2>1, <2>2, <1>0, <1>3, <1>8 DEF TCap
<1>9. CASE /\ Continues(p, "list") /\ UNCHANGED <<current, scannable>>
           /\ tags' = [tags EXCEPT ![i] = good] /\ UNCHANGED categories
  <2>1. TProc' /\ TEnded' /\ Used'
    BY <1>2, <1>9
  <2> QED
    BY <2>1, <1>0, <1>9 DEF TCap, TAdapter
<1> QED
  BY <1>4, <1>5, <1>6, <1>7, <1>8, <1>9 DEF Answered

-----------------------------------------------------------------------------
(* The steps *)

\* The goroutine moves inside login or a request.
LEMMA Enters ==
    ASSUME TProc, TEnded, Used, NEW p \in Proc, NEW from \in PCs \ {"idle"}, NEW to \in PCs,
           Enter(p, from, to), made' = made
    PROVE  TProc' /\ TEnded' /\ Used'
BY DEF Enter, TProc, TEnded, Used

LEMMA ListStep == ASSUME IInv, NEW p \in Proc, List(p) \/ MarkFiled(p) PROVE IInv'
<1> USE DEF IInv
<1>0. UNCHANGED <<adapterVars, flagVars, capVars, serverVars, rejected, harmed, troubles>>
  BY DEF List, MarkFiled
<1>1. current \in Adapter /\ current <= made
  BY BoundsAssumption DEF List, MarkFiled, TAdapter, Adapter
<1>2. PICK c \in Calls : Start(p, current, c) /\ Meet(p, current)
  BY DEF List, MarkFiled, Calls, Json
<1>3. TProc' /\ TEnded' /\ Used'
  BY <1>0, <1>1, <1>2, Starts, BoundsAssumption DEF TAdapter, adapterVars
<1>4. TMet'
  BY <1>0, <1>2 DEF Meet, TMet, Stale, Hopeless, Rejects, TFlag, TServer, flagVars, serverVars
<1>5. TAdapter' /\ TFlag' /\ TCap' /\ TServer'
  BY <1>0 DEF TAdapter, TFlag, TCap, TServer, adapterVars, flagVars, capVars, serverVars
<1>6. Once' /\ Room'
  BY <1>0 DEF Once, Room, adapterVars, flagVars, serverVars
<1> QED
  BY <1>3, <1>4, <1>5, <1>6

LEMMA MakeStep ==
    ASSUME IInv, NEW p \in Proc, NEW c \in Cred \cup {Open},
           SaveClient(p, c) \/ Reload(p) \/ TestClient(p, c)
    PROVE  IInv'
<1> USE BoundsAssumption DEF IInv
<1>0. UNCHANGED <<current, flagVars, capVars, serverVars, rejected, troubles>>
  BY DEF SaveClient, Reload, TestClient
<1>1. PICK d \in Cred \cup {Open} : Make(p, d) /\ stored' \in {c, stored}
  BY DEF SaveClient, Reload, TestClient, TAdapter
<1>2. /\ made < MaxAdapter /\ made' = made + 1 /\ made \in Nat
      /\ made + 1 \in Adapter /\ cred' = [cred EXCEPT ![made + 1] = d]
  BY <1>1 DEF Make, TAdapter, Adapter
<1>3. TProc' /\ TEnded' /\ Used'
  <2>1. Start(p, made + 1, "version") /\ "version" \in Calls
    BY <1>1 DEF Make, Calls
  <2> QED
    BY <2>1, <1>2, Starts
<1>4. TMet'
  BY <1>0, <1>1, <1>2 DEF Make, TMet, Rejects, TServer
<1>5. TAdapter'
  BY <1>0, <1>1, <1>2 DEF TAdapter
<1>6. TFlag' /\ TCap' /\ TServer'
  BY <1>0 DEF TFlag, TCap, TServer, flagVars, capVars, serverVars
<1>7. Once'
  BY <1>0, <1>2 DEF Once, TAdapter, Adapter, flagVars
<1>8. Room'
  BY <1>0 DEF Room, serverVars
<1> QED
  BY <1>3, <1>4, <1>5, <1>6, <1>7, <1>8

LEMMA LoggedInStep ==
    ASSUME IInv, NEW p \in Proc, NEW from \in {"login", "relogin"}, LoggedIn(p, from)
    PROVE  IInv'
<1> USE DEF IInv
<1>1. /\ Enter(p, from, Sending(from)) /\ loggedIn' = [loggedIn EXCEPT ![on[p]] = TRUE]
      /\ UNCHANGED <<adapterVars, failed, capVars, serverVars, rejected, metVars, troubles>>
  BY DEF LoggedIn
<1>2. TProc' /\ TEnded' /\ Used'
  BY <1>1, Enters DEF Sending, PCs, adapterVars
<1>3. TAdapter' /\ TFlag' /\ TCap' /\ TServer' /\ TMet'
  BY <1>1 DEF TAdapter, TFlag, TCap, TServer, TMet, adapterVars, capVars, serverVars, metVars
<1>4. Once' /\ Room'
  BY <1>1 DEF Once, Room, adapterVars, serverVars
<1> QED
  BY <1>2, <1>3, <1>4

LEMMA AcceptedStep ==
    ASSUME IInv, NEW p \in Proc, NEW from \in {"login", "relogin"}, Accepted(p, from)
    PROVE  IInv'
<1> USE BoundsAssumption DEF IInv
<1>1. /\ Enter(p, from, Sending(from)) /\ loggedIn' = [loggedIn EXCEPT ![on[p]] = TRUE]
      /\ session' = session \cup {on[p]} /\ fails' = 0
      /\ UNCHANGED <<adapterVars, failed, capVars, accepts, banned, rejected, metVars, troubles>>
  BY DEF Accepted
<1>2. TProc' /\ TEnded' /\ Used'
  BY <1>1, Enters DEF Sending, PCs, adapterVars
<1>3. TAdapter' /\ TFlag' /\ TCap' /\ TMet'
  BY <1>1 DEF TAdapter, TFlag, TCap, TMet, adapterVars, capVars, metVars
<1>4. TServer' /\ Room'
  BY <1>1 DEF TServer, TProc, Room
<1>5. Once'
  BY <1>1 DEF Once, adapterVars
<1> QED
  BY <1>2, <1>3, <1>4, <1>5

\* The request fails at the latch, is served, or is given up: only its
\* goroutine and what a probe found out change.
LEMMA AnsweredStep ==
    ASSUME IInv, NEW p \in Proc, NEW good \in BOOLEAN, pc[p] # "idle", Answered(p, good),
           UNCHANGED <<stored, made, cred, flagVars, serverVars, rejected, metVars, troubles>>
    PROVE  IInv'
<1> USE DEF IInv
<1>1. TProc' /\ TEnded' /\ TCap' /\ Used' /\ TAdapter'
  BY Answers
<1>2. TFlag' /\ TServer' /\ TMet'
  BY DEF TFlag, TServer, TMet, flagVars, serverVars, metVars
<1>3. Once' /\ Room'
  BY DEF Once, Room, flagVars, serverVars
<1> QED
  BY <1>1, <1>2, <1>3

LEMMA LatchedStep ==
    ASSUME IInv, NEW p \in Proc,
           (\E from \in {"login", "relogin"} : Latched(p, from)) \/ Served(p) \/ GivesUp(p)
    PROVE  IInv'
<1>1. PICK good \in BOOLEAN : Answered(p, good)
  BY DEF Latched, Served, GivesUp
<1>2. pc[p] # "idle"
  BY DEF Latched, Served, GivesUp
<1>3. UNCHANGED <<stored, made, cred, flagVars, serverVars, rejected, metVars, troubles>>
  BY DEF Latched, Served, GivesUp
<1> QED
  BY <1>1, <1>2, <1>3, AnsweredStep

LEMMA RefusedStep ==
    ASSUME IInv, NEW p \in Proc, NEW from \in {"login", "relogin"}, Refused(p, from)
    PROVE  IInv'
<1> USE DEF IInv
<1>0. on[p] \in Adapter /\ on[p] <= made /\ pc[p] # "idle"
  BY DEF Refused, TProc, Used
<1>1. /\ ~failed[on[p]] /\ cred[on[p]] # Open
      /\ failed' = [failed EXCEPT ![on[p]] = TRUE]
      /\ rejected' = [rejected EXCEPT ![on[p]] = @ + 1]
  BY DEF Refused, Posts, Latch
<1>2. /\ Answered(p, FALSE) /\ spoiled' = [q \in Proc |-> spoiled[q] \/ q \in Using(on[p])]
      /\ fails' = (IF banned THEN fails ELSE fails + 1) /\ banned' = (banned \/ fails + 1 = MaxFail)
      /\ UNCHANGED <<stored, made, cred, loggedIn, accepts, session, expired, harmed, troubles>>
  BY DEF Refused
<1>3. TProc' /\ TEnded' /\ TCap' /\ Used' /\ TAdapter'
  BY <1>0, <1>2, Answers
<1>4. TFlag' /\ TMet'
  <2>1. spoiled' \in [Proc -> BOOLEAN]
    BY <1>2 DEF TMet
  <2> QED
    BY <2>1, <1>0, <1>1, <1>2 DEF TFlag, TMet
<1>5. TServer' /\ Room'
  <2>1. CASE banned
    <3>1. banned' = TRUE /\ fails' = fails
      BY <1>2, <2>1
    <3> QED
      BY <3>1, <1>2 DEF TServer, Room
  <2>2. CASE ~banned
    <3>1. fails' = fails + 1 /\ banned' = (fails + 1 = MaxFail)
          /\ fails \in 0 .. MaxFail /\ fails < MaxFail
      BY <1>2, <2>2 DEF TServer, Room
    <3>2. fails' \in 0 .. MaxFail /\ (fails' < MaxFail \/ fails + 1 = MaxFail)
      BY <3>1, BoundsAssumption
    <3>3. banned' \in BOOLEAN /\ Room'
      BY <3>1, <3>2 DEF Room
    <3> QED
      BY <3>2, <3>3, <1>2 DEF TServer
  <2> QED
    BY <2>1, <2>2
<1>6. Once'
  <2>1. rejected[on[p]] = 0 /\ rejected \in [Adapter -> Nat]
    BY <1>0, <1>1 DEF Once
  <2>2. rejected' \in [Adapter -> Nat] /\ rejected'[on[p]] = 1 /\ failed'[on[p]]
    BY <1>0, <1>1, <2>1 DEF TFlag
  <2>3. ~(on[p] > made) /\ made \in Int
    BY <1>0, BoundsAssumption DEF TAdapter, Adapter
  <2>4. ASSUME NEW j \in Adapter, j # on[p]
        PROVE  rejected'[j] = rejected[j] /\ failed'[j] = failed[j]
    BY <1>1, <2>1, <2>4 DEF TFlag
  <2>5. UNCHANGED <<made, cred>>
    BY <1>2
  <2> QED
    BY <1>0, <1>1, <2>2, <2>3, <2>4, <2>5 DEF Once
<1> QED
  BY <1>3, <1>4, <1>5, <1>6

LEMMA LostStep == ASSUME IInv, NEW p \in Proc, Lost(p) PROVE IInv'
<1> USE DEF IInv
<1>0. on[p] \in Adapter /\ pc[p] # "idle"
  BY DEF Lost, TProc
<1>1. /\ Answered(p, FALSE) /\ spoiled' = [spoiled EXCEPT ![p] = TRUE]
      /\ harmed' = [harmed EXCEPT ![on[p]] = TRUE]
      /\ troubles < MaxTrouble /\ troubles' = troubles + 1
      /\ UNCHANGED <<stored, made, cred, flagVars, serverVars, rejected, expired>>
  BY DEF Lost
<1>2. TProc' /\ TEnded' /\ TCap' /\ Used' /\ TAdapter'
  BY <1>0, <1>1, Answers
<1>3. TFlag' /\ TServer' /\ Once' /\ Room'
  BY <1>1 DEF TFlag, TServer, Once, Room, flagVars, serverVars
<1>4. TMet'
  BY <1>0, <1>1, BoundsAssumption DEF TMet
<1> QED
  BY <1>2, <1>3, <1>4

LEMMA ForbiddenStep == ASSUME IInv, NEW p \in Proc, Forbidden(p) PROVE IInv'
<1> USE DEF IInv
<1>1. /\ Enter(p, "send", "clear")
      /\ UNCHANGED <<adapterVars, flagVars, capVars, serverVars, rejected, metVars, troubles>>
  BY DEF Forbidden
<1>2. TProc' /\ TEnded' /\ Used'
  BY <1>1, Enters DEF PCs, adapterVars
<1>3. TAdapter' /\ TFlag' /\ TCap' /\ TServer' /\ TMet'
  BY <1>1 DEF TAdapter, TFlag, TCap, TServer, TMet, adapterVars, flagVars,
                capVars, serverVars, metVars
<1>4. Once' /\ Room'
  BY <1>1 DEF Once, Room, adapterVars, flagVars, serverVars
<1> QED
  BY <1>2, <1>3, <1>4

LEMMA ClearStep == ASSUME IInv, NEW p \in Proc, ClearSession(p) PROVE IInv'
<1> USE DEF IInv
<1>1. /\ Enter(p, "clear", "relogin") /\ loggedIn' = [loggedIn EXCEPT ![on[p]] = FALSE]
      /\ UNCHANGED <<adapterVars, failed, capVars, serverVars, rejected, metVars, troubles>>
  BY DEF ClearSession, Clear
<1>2. TProc' /\ TEnded' /\ Used'
  BY <1>1, Enters DEF PCs, adapterVars
<1>3. TAdapter' /\ TFlag' /\ TCap' /\ TServer' /\ TMet'
  BY <1>1 DEF TAdapter, TFlag, TCap, TServer, TMet, adapterVars, capVars, serverVars, metVars
<1>4. Once' /\ Room'
  BY <1>1 DEF Once, Room, adapterVars, serverVars
<1> QED
  BY <1>2, <1>3, <1>4

LEMMA WorldStep == ASSUME IInv, World PROVE IInv'
<1> USE BoundsAssumption DEF IInv
<1>0. UNCHANGED <<adapterVars, flagVars, capVars, procVars, ended, rejected>>
  BY DEF World, Expire, ChangePassword, BanEnds
<1>1. TAdapter' /\ TFlag' /\ TCap' /\ TProc' /\ TEnded' /\ Used' /\ Once'
  BY <1>0 DEF TAdapter, TFlag, TCap, TProc, TEnded, Used, Once, adapterVars, flagVars,
                capVars, procVars
<1>2. ASSUME NEW i \in Adapter, Expire(i) PROVE TServer' /\ TMet' /\ Room'
  <2>1. TServer' /\ Room'
    BY <1>2 DEF Expire, TServer, Room
  <2>2. expired' \in [Proc -> 0 .. 2] /\ spoiled' \in [Proc -> BOOLEAN]
    BY <1>2 DEF Expire, TMet
  <2>3. harmed' \in [Adapter -> BOOLEAN] /\ troubles' \in 0 .. MaxTrouble
    BY <1>2 DEF Expire, TMet
  <2> QED
    BY <2>1, <2>2, <2>3 DEF TMet
<1>3. ASSUME NEW c \in Cred \cup {Open}, ChangePassword(c) PROVE TServer' /\ TMet' /\ Room'
  <2>1. TServer' /\ Room'
    BY <1>3 DEF ChangePassword, TServer, Room
  <2>2. expired' \in [Proc -> 0 .. 2] /\ spoiled' \in [Proc -> BOOLEAN]
    BY <1>3 DEF ChangePassword, TMet
  <2>3. harmed' \in [Adapter -> BOOLEAN] /\ troubles' \in 0 .. MaxTrouble
    BY <1>3 DEF ChangePassword, TMet
  <2> QED
    BY <2>1, <2>2, <2>3 DEF TMet
<1>4. ASSUME BanEnds PROVE TServer' /\ TMet' /\ Room'
  <2>1. fails' = 0 /\ banned' = FALSE /\ UNCHANGED <<accepts, session, metVars, troubles>>
    BY <1>4 DEF BanEnds
  <2>2. fails' \in 0 .. MaxFail /\ fails' < MaxFail
    BY <2>1
  <2>3. banned' \in BOOLEAN
    BY <2>1
  <2> QED
    BY <2>1, <2>2, <2>3 DEF TServer, TMet, Room, metVars
<1> QED
  BY <1>1, <1>2, <1>3, <1>4 DEF World

\* Every step keeps the invariant.
LEMMA StepInv == IInv /\ [Next]_vars => IInv'
<1> SUFFICES ASSUME IInv, [Next]_vars PROVE IInv'
  OBVIOUS
<1>1. CASE UNCHANGED vars
  <2>1. UNCHANGED <<adapterVars, flagVars, capVars, procVars, serverVars, rejected, ended,
                    metVars, troubles>>
    BY <1>1 DEF vars
  <2>2. TAdapter' /\ TFlag' /\ TCap' /\ TProc' /\ TEnded' /\ TServer' /\ TMet'
    BY <2>1 DEF IInv, TAdapter, TFlag, TCap, TProc, TEnded, TServer, TMet,
                adapterVars, flagVars, capVars, procVars, serverVars, metVars
  <2>3. Used' /\ Once' /\ Room'
    BY <2>1 DEF IInv, Used, Once, Room, adapterVars, flagVars, procVars, serverVars
  <2> QED
    BY <2>2, <2>3 DEF IInv
<1>2. CASE World
  BY <1>2, WorldStep
<1>3. ASSUME NEW p \in Proc, Begin(p) PROVE IInv'
  BY <1>3, ListStep, MakeStep DEF Begin
<1>4. ASSUME NEW p \in Proc, Step(p) PROVE IInv'
  BY <1>4, LoggedInStep, AcceptedStep, LatchedStep, RefusedStep, ForbiddenStep, ClearStep
     DEF Step, LoginStep
<1>5. ASSUME NEW p \in Proc, Lost(p) PROVE IInv'
  BY <1>5, LostStep
<1> QED
  BY <1>1, <1>2, <1>3, <1>4, <1>5 DEF Next

\* Every variable keeps its type, for any number of goroutines, adapters,
\* credentials and failures allowed; no adapter without a user name is rejected.
THEOREM TypeCorrect == Spec => []TypeOK
BY InitInv, StepInv, Implies, PTL DEF Spec

\* The latch of login holds for every interleaving: an adapter posts rejected
\* credentials at most once, however many requests meet an expired session.
THEOREM RejectedOnce == Spec => []OneRejection
BY InitInv, StepInv, Implies, PTL DEF Spec

-----------------------------------------------------------------------------
(* Why a request fails *)

\* What holds of a request that met no trouble but expiries: its adapter is not
\* latched and has the right credentials, and it takes one expiry to be sent back
\* to login and another to be refused there.
Sound(p) ==
    LET i == on[p] IN
    /\ ~failed[i] /\ ~Rejects(cred[i])
    /\ expired[p] = 0 => /\ pc[p] \in {"login", "send"}
                         /\ loggedIn[i] \/ pc[p] = "send" => Serves(i)
    /\ expired[p] = 1 => /\ pc[p] = "again" => Serves(i)
                         /\ pc[p] = "relogin" /\ loggedIn[i] => Serves(i)

Probing(p) == Role[p] \in {"save", "test"}
Whole(i) == ~harmed[i] /\ ~failed[i]

\* A goroutine at work: it has not ended, only probes look for capabilities, and
\* a probe of an adapter that nothing happened to met nothing.
AtWork(p) ==
    pc[p] # "idle" =>
      /\ ended[p] = "none"
      /\ ~Probing(p) => call[p] \in {"list", "mark"}
      /\ ~spoiled[p] => Sound(p)
      /\ Probing(p) /\ Whole(on[p]) =>
            ~spoiled[p] /\ expired[p] = 0 /\ (call[p] = "tags" => categories[on[p]])

\* What a request has to meet to fail.
Enough(p) == spoiled[p] \/ expired[p] >= (IF call[p] = "list" THEN 2 ELSE 1)
Ended(p) == ended[p] = "error" => Enough(p)

Installed == current # 0 /\ ~(scannable[current] /\ tags[current])
                => harmed[current] \/ failed[current]

\* An adapter that is not made has no flag set.
Unmade == \A i \in Adapter : i > made => ~loggedIn[i] /\ ~failed[i]

CauseInv == /\ \A p \in Proc : AtWork(p) /\ Ended(p)
            /\ Installed /\ Unmade

LEMMA CauseImplies == IInv /\ CauseInv => FailsForCause
BY DEF CauseInv, FailsForCause, Ended, Enough, Installed

LEMMA InitCause == Init => CauseInv
BY DEF Init, CauseInv, AtWork, Ended, Installed, Unmade

\* What a step of others may do under a goroutine at work.
LEMMA Quiet ==
    ASSUME NEW p \in Proc, AtWork(p),
           UNCHANGED <<pc[p], on[p], call[p], ended[p], expired[p]>>,
           spoiled[p] => spoiled'[p],
           pc[p] # "idle" /\ ~spoiled'[p] =>
               /\ accepts' = accepts /\ cred'[on[p]] = cred[on[p]]
               /\ failed'[on[p]] = failed[on[p]]
               /\ loggedIn'[on[p]] => loggedIn[on[p]] \/ Serves(on[p])'
               /\ Serves(on[p]) => Serves(on[p])',
           pc[p] # "idle" /\ Probing(p) /\ Whole(on[p])' =>
               /\ Whole(on[p]) /\ spoiled'[p] = spoiled[p]
               /\ categories[on[p]] => categories'[on[p]]
    PROVE  AtWork(p)'
<1> SUFFICES ASSUME pc'[p] # "idle" PROVE AtWork(p)'
  BY DEF AtWork
<1>1. ended'[p] = "none" /\ (~Probing(p) => call'[p] \in {"list", "mark"})
  BY DEF AtWork
<1>2. ASSUME ~spoiled'[p] PROVE Sound(p)'
  <2>1. Sound(p)
    BY <1>2 DEF AtWork
  <2>2. ~failed'[on'[p]] /\ ~Rejects(cred[on[p]])'
    BY <1>2, <2>1 DEF Sound, Rejects
  <2> QED
    BY <1>2, <2>1, <2>2 DEF Sound, Rejects
<1>3. Probing(p) /\ Whole(on[p])' =>
        ~spoiled'[p] /\ expired'[p] = 0 /\ (call'[p] = "tags" => categories'[on'[p]])
  BY DEF AtWork, Whole
<1> QED
  BY <1>1, <1>2, <1>3 DEF AtWork, Probing, Whole

\* A goroutine that has ended keeps its reason while it is idle, and one at work
\* has not ended.
LEMMA EndedStays ==
    ASSUME NEW p \in Proc, Ended(p), UNCHANGED <<ended[p], call[p]>>,
           expired[p] \in Nat, expired'[p] \in Nat,
           spoiled[p] => spoiled'[p], expired[p] <= expired'[p]
    PROVE  Ended(p)'
BY DEF Ended, Enough

\* A request is answered.  What fails must have met enough, and a probe of an
\* adapter that nothing happened to does not fail.
LEMMA AnswerCause ==
    ASSUME IInv, CauseInv, NEW q \in Proc, NEW good \in BOOLEAN,
           Answered(q, good), pc[q] # "idle",
           UNCHANGED <<stored, made, cred, loggedIn, accepts, session, expired>>,
           spoiled' \in [Proc -> BOOLEAN], failed' \in [Adapter -> BOOLEAN],
           \A p \in Proc : spoiled[p] => spoiled'[p],
           \A i \in Adapter : (harmed[i] => harmed'[i]) /\ (failed[i] => failed'[i]),
           \A i \in Adapter : i > made => failed'[i] = failed[i],
           \A p \in Proc : pc[p] # "idle" =>
               /\ ~spoiled'[p] => failed'[on[p]] = failed[on[p]]
               /\ spoiled'[p] = spoiled[p] \/ harmed'[on[p]] \/ failed'[on[p]],
           ~good => spoiled'[q] \/ Enough(q),
           ~good /\ Probing(q) => harmed'[on[q]] \/ failed'[on[q]]
    PROVE  CauseInv'
<1> DEFINE i == on[q]
<1>0. /\ \A p \in Proc : on[p] \in Adapter /\ AtWork(p) /\ Ended(p)
      /\ i <= made /\ i \in Adapter /\ made \in Nat
  BY DEF CauseInv, IInv, TProc, Used, TAdapter
<1>1. ASSUME NEW p \in Proc, p # q
      PROVE  UNCHANGED <<pc[p], on[p], call[p], ended[p]>>
  BY <1>1 DEF Answered, Returns, Continues, IInv, TProc, TEnded
<1>2. ASSUME NEW p \in Proc, p # q, pc[p] # "idle", Probing(p), Whole(on[p])'
      PROVE  categories[on[p]] => categories'[on[p]]
  <2>1. CASE categories' = categories
    BY <2>1
  <2>2. CASE call[q] = "categories" /\ categories' = [categories EXCEPT ![i] = good]
    <3>1. CASE on[p] # i
      BY <2>2, <3>1, <1>0 DEF IInv, TCap
    <3>2. CASE on[p] = i
      <4>1. Probing(q)
        BY <1>0, <2>2 DEF AtWork
      <4>2. good
        BY <1>2, <1>1, <3>2, <4>1 DEF Whole
      <4> QED
        BY <2>2, <3>2, <4>2, <1>0 DEF IInv, TCap
    <3> QED
      BY <3>1, <3>2
  <2> QED
    BY <2>1, <2>2 DEF Answered, capVars
<1>3. ASSUME NEW p \in Proc, p # q PROVE AtWork(p)' /\ Ended(p)'
  <2>1. AtWork(p) /\ Ended(p) /\ on[p] \in Adapter
    BY <1>0
  <2>2. pc[p] # "idle" /\ ~spoiled'[p] =>
            /\ accepts' = accepts /\ cred'[on[p]] = cred[on[p]]
            /\ failed'[on[p]] = failed[on[p]]
            /\ loggedIn'[on[p]] => loggedIn[on[p]] \/ Serves(on[p])'
            /\ Serves(on[p]) => Serves(on[p])'
    BY <1>3, <1>1 DEF Serves
  <2>3. pc[p] # "idle" /\ Probing(p) /\ Whole(on[p])' =>
            /\ Whole(on[p]) /\ spoiled'[p] = spoiled[p]
            /\ categories[on[p]] => categories'[on[p]]
    BY <1>3, <1>1, <1>2, <2>1 DEF Whole
  <2>4. expired'[p] = expired[p] /\ UNCHANGED <<pc[p], on[p], call[p], ended[p]>>
    BY <1>3, <1>1
  <2>5. AtWork(p)'
    BY <2>1, <2>2, <2>3, <2>4, Quiet
  <2>6. Ended(p)'
    BY <2>1, <2>4 DEF Ended, Enough
  <2> QED
    BY <2>5, <2>6
<1>4. ASSUME NEW how \in {"ok", "error"}, Returns(q, how), how = "error" => ~good
      PROVE  AtWork(q)' /\ Ended(q)'
  <2>1. pc'[q] = "idle" /\ ended'[q] = how /\ call'[q] = call[q]
    BY <1>4 DEF Returns, IInv, TProc, TEnded
  <2>2. how = "error" => spoiled'[q] \/ Enough(q)
    BY <1>4
  <2> QED
    BY <2>1, <2>2 DEF AtWork, Ended, Enough
<1>5. ASSUME NEW c \in {"api", "categories", "tags", "list"}, Continues(q, c),
             Probing(q), c = "tags" /\ good => categories'[i]
      PROVE  AtWork(q)' /\ Ended(q)'
  <2>1. pc'[q] = "login" /\ call'[q] = c /\ UNCHANGED <<on, ended>>
    BY <1>5 DEF Continues, IInv, TProc
  <2>2. AtWork(q) /\ ended[q] = "none"
    BY <1>0 DEF AtWork
  <2>3. Ended(q)'
    BY <2>1, <2>2 DEF Ended
  <2>4. ASSUME ~spoiled'[q] PROVE Sound(q)'
    <3>1. Sound(q)
      BY <2>2, <2>4 DEF AtWork
    <3>2. failed'[i] = failed[i]
      BY <2>4
    <3>3. expired[q] = 0 => pc[q] \in {"login", "send"} /\ (loggedIn[i] => Serves(i))
      BY <3>1 DEF Sound
    <3> QED
      BY <2>1, <3>1, <3>2, <3>3 DEF Sound, Rejects, Serves
  <2>5. Whole(i)' => ~spoiled'[q] /\ expired'[q] = 0 /\ (c = "tags" => categories'[i])
    <3> SUFFICES ASSUME Whole(i)'
                 PROVE  ~spoiled'[q] /\ expired'[q] = 0 /\ (c = "tags" => categories'[i])
      OBVIOUS
    <3>2. ~harmed'[i] /\ ~failed'[i]
      BY <2>1 DEF Whole
    <3>3. Whole(i)
      BY <3>2, <1>0 DEF Whole
    <3>4. ~spoiled[q] /\ expired[q] = 0
      BY <3>3, <2>2, <1>5 DEF AtWork
    <3>5. spoiled'[q] = spoiled[q]
      BY <3>2
    <3>6. good
      BY <3>2, <1>5
    <3> QED
      BY <3>4, <3>5, <3>6, <1>5
  <2>6. AtWork(q)'
    BY <2>1, <2>2, <2>4, <2>5, <1>5 DEF AtWork, Probing, Whole
  <2> QED
    BY <2>3, <2>6
<1>6. Probing(q) \/ call[q] \in {"list", "mark"}
  BY <1>0 DEF AtWork
<1>7. AtWork(q)' /\ Ended(q)'
  <2>1. CASE call[q] \in {"list", "mark"} /\ Returns(q, IF good THEN "ok" ELSE "error")
    BY <2>1, <1>4
  <2>2. CASE Returns(q, "error") /\ ~good
    BY <2>2, <1>4
  <2>3. CASE call[q] = "version" /\ Continues(q, "api")
    BY <2>3, <1>5, <1>6
  <2>4. CASE call[q] = "api" /\ Continues(q, "categories")
    BY <2>4, <1>5, <1>6
  <2>5. CASE /\ call[q] = "categories" /\ Continues(q, "tags")
             /\ categories' = [categories EXCEPT ![i] = good]
    <3>1. good => categories'[i]
      BY <2>5, <1>0 DEF IInv, TCap
    <3> QED
      BY <2>5, <3>1, <1>5, <1>6
  <2>6. CASE call[q] = "tags" /\ Continues(q, "list")
    BY <2>6, <1>5, <1>6
  <2>7. CASE Returns(q, "ok")
    BY <2>7, <1>4
  <2> QED
    BY <2>1, <2>2, <2>3, <2>4, <2>5, <2>6, <2>7 DEF Answered
<1>8. Installed'
  <2> SUFFICES ASSUME current' # 0, ~harmed'[current'], ~failed'[current']
               PROVE  scannable'[current'] /\ tags'[current']
    BY DEF Installed
  <2>0. current = 0 \/ current \in Adapter
    BY <1>0, BoundsAssumption DEF IInv, TAdapter, Adapter
  <2>1. CASE UNCHANGED <<current, scannable, tags>>
    BY <2>0, <2>1 DEF CauseInv, Installed
  <2>2. ASSUME call[q] \notin {"list", "mark"}, current' = i
        PROVE  /\ good /\ (call[q] = "tags" => categories[i])
               /\ current = i => scannable[i] /\ tags[i]
    <3>1. Probing(q)
      BY <2>2, <1>6
    <3>2. good
      BY <2>2, <3>1
    <3>3. Whole(i)
      BY <2>2, <1>0 DEF Whole
    <3>4. call[q] = "tags" => categories[i]
      BY <3>1, <3>3, <1>0 DEF AtWork
    <3>5. current = i => scannable[i] /\ tags[i]
      BY <3>3, <2>2 DEF CauseInv, Installed, Whole
    <3> QED
      BY <3>2, <3>4, <3>5
  <2>3. ASSUME NEW able \in BOOLEAN, Installs(q, i, able), current' # i
        PROVE  current' = current /\ scannable'[current] = scannable[current]
    BY <2>3, <2>0, <1>0 DEF Installs, IInv, TCap
  <2>4. ASSUME NEW able \in BOOLEAN, Installs(q, i, able)
        PROVE  scannable'[i] = able
    BY <2>4, <1>0 DEF Installs, IInv, TCap
  <2>5. CASE /\ call[q] \in {"version", "api"} /\ ~good
             /\ Installs(q, i, FALSE) /\ UNCHANGED <<categories, tags>>
    <3>1. current' # i
      BY <2>2, <2>5
    <3> QED
      BY <2>5, <3>1, <2>0, <2>3 DEF CauseInv, Installed
  <2>6. CASE /\ call[q] = "tags" /\ tags' = [tags EXCEPT ![i] = good]
             /\ UNCHANGED <<current, scannable>>
    <3>1. CASE current' = i
      BY <2>2, <2>6, <3>1, <1>0 DEF IInv, TCap
    <3>2. CASE current' # i
      BY <2>6, <3>2, <2>0, <1>0 DEF IInv, TCap, CauseInv, Installed
    <3> QED
      BY <3>1, <3>2
  <2>7. CASE /\ call[q] = "tags" /\ tags' = [tags EXCEPT ![i] = good]
             /\ Installs(q, i, categories[i])
    <3>0. categories[i] \in BOOLEAN
      BY <1>0 DEF IInv, TCap
    <3>1. CASE current' = i
      <4>1. good /\ categories[i]
        BY <2>2, <2>7, <3>1
      <4> QED
        BY <2>4, <2>7, <3>0, <3>1, <4>1, <1>0 DEF IInv, TCap
    <3>2. CASE current' # i
      <4>1. current' = current /\ scannable'[current] = scannable[current]
        BY <2>3, <2>7, <3>0, <3>2
      <4>2. tags'[current] = tags[current]
        BY <2>7, <4>1, <3>2, <2>0, <1>0 DEF IInv, TCap
      <4> QED
        BY <4>1, <4>2, <2>0 DEF CauseInv, Installed
    <3> QED
      BY <3>1, <3>2
  <2> QED
    BY <2>1, <2>5, <2>6, <2>7 DEF Answered, capVars
<1>9. Unmade'
  BY DEF CauseInv, Unmade
<1> QED
  BY <1>3, <1>7, <1>8, <1>9 DEF CauseInv

\* What every goroutine and adapter of the invariant comes to.
LEMMA CauseParts ==
    ASSUME IInv, CauseInv
    PROVE  /\ made \in Nat /\ (current = 0 \/ current \in Adapter) /\ current <= made
           /\ \A p \in Proc : /\ on[p] \in Adapter /\ AtWork(p) /\ Ended(p)
                              /\ pc[p] # "idle" => on[p] <= made
BY BoundsAssumption DEF CauseInv, IInv, TProc, Used, TAdapter, Adapter

\* A goroutine moves inside login or a request.
LEMMA EnterCause ==
    ASSUME IInv, CauseInv, NEW q \in Proc, NEW from \in PCs \ {"idle"}, NEW to \in PCs,
           Enter(q, from, to),
           UNCHANGED <<adapterVars, failed, capVars, accepts, metVars>>,
           ~spoiled[q] => Sound(q)',
           \A p \in Proc : pc[p] # "idle" /\ ~spoiled[p] =>
               /\ loggedIn'[on[p]] => loggedIn[on[p]] \/ Serves(on[p])'
               /\ Serves(on[p]) => Serves(on[p])',
           Unmade'
    PROVE  CauseInv'
<1>0. \A p \in Proc : AtWork(p) /\ Ended(p)
  BY CauseParts
<1>1. UNCHANGED <<on, call, ended, expired, spoiled, harmed, failed, categories, accepts, cred>>
  BY DEF Enter, adapterVars, capVars, metVars
<1>2. pc[q] # "idle" /\ \A p \in Proc : p # q => pc'[p] = pc[p]
  BY DEF Enter, IInv, TProc
<1>3. ASSUME NEW p \in Proc, p # q PROVE AtWork(p)'
  <2>1. AtWork(p) /\ UNCHANGED <<pc[p], on[p], call[p], ended[p], expired[p]>>
    BY <1>0, <1>1, <1>2, <1>3
  <2>2. pc[p] # "idle" /\ ~spoiled'[p] =>
               /\ accepts' = accepts /\ cred'[on[p]] = cred[on[p]]
               /\ failed'[on[p]] = failed[on[p]]
               /\ loggedIn'[on[p]] => loggedIn[on[p]] \/ Serves(on[p])'
               /\ Serves(on[p]) => Serves(on[p])'
    BY <1>1
  <2>3. /\ Whole(on[p])' => Whole(on[p])
        /\ spoiled'[p] = spoiled[p] /\ categories' = categories
    BY <1>1 DEF Whole
  <2> QED
    BY <2>1, <2>2, <2>3, Quiet
<1>4. AtWork(q)'
  <2>1. AtWork(q)
    BY <1>0
  <2> QED
    BY <2>1, <1>1, <1>2 DEF AtWork, Probing, Whole
<1>5. \A p \in Proc : Ended(p)'
  BY <1>0, <1>1 DEF Ended, Enough
<1>6. Installed'
  BY DEF CauseInv, Installed, adapterVars, capVars, metVars
<1> QED
  BY <1>3, <1>4, <1>5, <1>6 DEF CauseInv

\* login with a session, or without a user name.
LEMMA LoggedInCause ==
    ASSUME IInv, CauseInv, NEW p \in Proc, NEW from \in {"login", "relogin"}, LoggedIn(p, from)
    PROVE  CauseInv'
<1> DEFINE i == on[p]
<1>1. /\ Enter(p, from, Sending(from)) /\ (Ready(i) \/ Assume(i))
      /\ loggedIn' = [loggedIn EXCEPT ![i] = TRUE]
      /\ UNCHANGED <<adapterVars, failed, capVars, serverVars, rejected, metVars, troubles>>
  BY DEF LoggedIn
<1>2. /\ i \in Adapter /\ i <= made /\ pc[p] = from /\ AtWork(p)
      /\ pc' = [pc EXCEPT ![p] = Sending(from)] /\ UNCHANGED <<on, call, ended>>
  BY <1>1, CauseParts DEF Enter
<1>3. \A j : Serves(j)' = Serves(j)
  BY <1>1 DEF Serves, serverVars
<1>4. ASSUME NEW q \in Proc, pc[q] # "idle", ~spoiled[q], on[q] = i
      PROVE  loggedIn[i] \/ Serves(i)
  <2>1. Sound(q)
    BY <1>4, CauseParts DEF AtWork
  <2>2. CASE Assume(i)
    BY <1>4, <2>1, <2>2 DEF Assume, Sound, Rejects, Serves
  <2> QED
    BY <1>1, <2>2 DEF Ready
<1>5. ASSUME ~spoiled[p] PROVE Sound(p)'
  <2>1. Sound(p) /\ (loggedIn[i] \/ Serves(i))
    BY <1>2, <1>4, <1>5 DEF AtWork
  <2>2. from = "login" => pc'[p] = "send"
    BY <1>2 DEF Sending, IInv, TProc
  <2>3. from = "relogin" => pc'[p] = "again"
    BY <1>2 DEF Sending, IInv, TProc
  <2>4. ~failed'[i] /\ ~Rejects(cred[i])' /\ on' = on /\ expired' = expired
    BY <1>1, <1>2, <2>1 DEF Sound, Rejects, metVars, adapterVars, serverVars
  <2> QED
    BY <1>2, <1>3, <2>1, <2>2, <2>3, <2>4 DEF Sound, Rejects
<1>6. \A q \in Proc : pc[q] # "idle" /\ ~spoiled[q] =>
               /\ loggedIn'[on[q]] => loggedIn[on[q]] \/ Serves(on[q])'
               /\ Serves(on[q]) => Serves(on[q])'
  <2> SUFFICES ASSUME NEW q \in Proc, pc[q] # "idle", ~spoiled[q]
               PROVE  /\ loggedIn'[on[q]] => loggedIn[on[q]] \/ Serves(on[q])'
                      /\ Serves(on[q]) => Serves(on[q])'
    OBVIOUS
  <2>1. Serves(on[q])' = Serves(on[q])
    BY <1>2, <1>3
  <2>2. on[q] # i => loggedIn'[on[q]] = loggedIn[on[q]]
    BY <1>1, CauseParts DEF IInv, TFlag
  <2> QED
    BY <1>4, <2>1, <2>2
<1>7. Unmade'
  BY <1>1, <1>2, CauseParts DEF CauseInv, Unmade, IInv, TFlag, adapterVars, Adapter
<1>8. Sending(from) \in PCs /\ from \in PCs \ {"idle"}
  BY DEF Sending, PCs
<1>9. UNCHANGED accepts
  BY <1>1 DEF serverVars
<1> QED
  BY <1>1, <1>5, <1>6, <1>7, <1>8, <1>9, EnterCause

\* The server takes the credentials: the adapter has a session.
LEMMA AcceptedCause ==
    ASSUME IInv, CauseInv, NEW p \in Proc, NEW from \in {"login", "relogin"}, Accepted(p, from)
    PROVE  CauseInv'
<1> DEFINE i == on[p]
<1>1. /\ Enter(p, from, Sending(from))
      /\ loggedIn' = [loggedIn EXCEPT ![i] = TRUE] /\ session' = session \cup {i}
      /\ UNCHANGED <<adapterVars, failed, capVars, accepts, metVars>>
  BY DEF Accepted
<1>2. /\ i \in Adapter /\ i <= made /\ pc[p] = from /\ AtWork(p)
      /\ pc' = [pc EXCEPT ![p] = Sending(from)] /\ UNCHANGED <<on, call, ended>>
  BY <1>1, CauseParts DEF Enter
<1>3. Serves(i)' /\ \A j \in Adapter : Serves(j) => (j \in session' \/ accepts' = Open)
  BY <1>1, <1>2 DEF Serves
<1>5. ASSUME ~spoiled[p] PROVE Sound(p)'
  <2>1. Sound(p)
    BY <1>2, <1>5 DEF AtWork
  <2>2. from = "login" => pc'[p] = "send"
    BY <1>2 DEF Sending, IInv, TProc
  <2>3. from = "relogin" => pc'[p] = "again"
    BY <1>2 DEF Sending, IInv, TProc
  <2>4. ~failed'[i] /\ ~Rejects(cred[i])' /\ on' = on /\ expired' = expired
    BY <1>1, <1>2, <2>1 DEF Sound, Rejects, metVars, adapterVars
  <2> QED
    BY <1>2, <1>3, <2>1, <2>2, <2>3, <2>4 DEF Sound, Rejects
<1>6. \A q \in Proc : pc[q] # "idle" /\ ~spoiled[q] =>
               /\ loggedIn'[on[q]] => loggedIn[on[q]] \/ Serves(on[q])'
               /\ Serves(on[q]) => Serves(on[q])'
  <2> SUFFICES ASSUME NEW q \in Proc, pc[q] # "idle", ~spoiled[q]
               PROVE  /\ loggedIn'[on[q]] => loggedIn[on[q]] \/ Serves(on[q])'
                      /\ Serves(on[q]) => Serves(on[q])'
    OBVIOUS
  <2>1. Serves(on[q]) => Serves(on[q])'
    BY <1>1, <1>2 DEF Serves
  <2>2. on[q] # i => loggedIn'[on[q]] = loggedIn[on[q]]
    BY <1>1, CauseParts DEF IInv, TFlag
  <2>3. on[q] = i => Serves(on[q])'
    BY <1>2, <1>3 DEF Serves
  <2> QED
    BY <2>1, <2>2, <2>3
<1>7. Unmade'
  BY <1>1, <1>2, CauseParts DEF CauseInv, Unmade, IInv, TFlag, adapterVars, Adapter
<1>8. Sending(from) \in PCs /\ from \in PCs \ {"idle"}
  BY DEF Sending, PCs
<1> QED
  BY <1>1, <1>5, <1>6, <1>7, <1>8, EnterCause

\* A 403, or the session forgotten: only a request that met an expiry goes back.
LEMMA ClearCause ==
    ASSUME IInv, CauseInv, NEW p \in Proc, Forbidden(p) \/ ClearSession(p)
    PROVE  CauseInv'
<1> DEFINE i == on[p]
<1>1. PICK from \in {"send", "clear"}, to \in {"clear", "relogin"} :
        /\ Enter(p, from, to)
        /\ from = "send" => to = "clear" /\ ~Serves(i) /\ UNCHANGED loggedIn
        /\ from = "clear" => to = "relogin" /\ loggedIn' = [loggedIn EXCEPT ![i] = FALSE]
        /\ UNCHANGED <<adapterVars, failed, capVars, serverVars, rejected, metVars, troubles>>
  BY DEF Forbidden, ClearSession, Clear, flagVars
<1>2. /\ i \in Adapter /\ i <= made /\ pc[p] = from /\ AtWork(p)
      /\ pc' = [pc EXCEPT ![p] = to] /\ UNCHANGED <<on, call, ended>>
  BY <1>1, CauseParts DEF Enter
<1>3. \A j : Serves(j)' = Serves(j)
  BY <1>1 DEF Serves, serverVars
<1>4. ASSUME ~spoiled[p] PROVE Sound(p)'
  <2>1. Sound(p)
    BY <1>2, <1>4 DEF AtWork
  <2>2. pc'[p] = to
    BY <1>2 DEF IInv, TProc
  <2>3. ~failed'[i] /\ ~Rejects(cred[i])' /\ on' = on /\ expired' = expired
    BY <1>1, <1>2, <2>1 DEF Sound, Rejects, metVars, adapterVars, serverVars
  <2>4. expired[p] # 0
    BY <1>1, <1>2, <2>1 DEF Sound
  <2>5. to = "relogin" => ~loggedIn'[i]
    BY <1>1, <1>2 DEF IInv, TFlag
  <2> QED
    BY <1>2, <2>2, <2>3, <2>4, <2>5 DEF Sound
<1>5. \A q \in Proc : pc[q] # "idle" /\ ~spoiled[q] =>
               /\ loggedIn'[on[q]] => loggedIn[on[q]] \/ Serves(on[q])'
               /\ Serves(on[q]) => Serves(on[q])'
  <2>1. \A j \in Adapter : loggedIn'[j] => loggedIn[j]
    BY <1>1, <1>2 DEF IInv, TFlag
  <2>2. ASSUME NEW q \in Proc PROVE Serves(on[q])' = Serves(on[q])
    BY <1>2, <1>3
  <2> QED
    BY <2>1, <2>2, CauseParts
<1>6. Unmade'
  <2>1. \A j \in Adapter : loggedIn'[j] => loggedIn[j]
    BY <1>1, <1>2 DEF IInv, TFlag
  <2> QED
    BY <1>1, <2>1 DEF CauseInv, Unmade, adapterVars
<1>7. to \in PCs /\ from \in PCs \ {"idle"} /\ UNCHANGED accepts
  BY <1>1 DEF PCs, serverVars
<1> QED
  BY <1>1, <1>4, <1>5, <1>6, <1>7, EnterCause

\* What a request that is refused, or stopped at the latch, has met.
LEMMA RefusedMet ==
    ASSUME IInv, CauseInv, NEW p \in Proc,
           \/ pc[p] # "idle" /\ failed[on[p]]
           \/ GivesUp(p)
    PROVE  Enough(p) /\ (Probing(p) => harmed[on[p]] \/ failed[on[p]])
<1>0. AtWork(p) /\ pc[p] # "idle" /\ expired[p] \in 0 .. 2
  BY CauseParts DEF GivesUp, IInv, TMet
<1>1. CASE failed[on[p]]
  BY <1>0, <1>1 DEF AtWork, Sound, Enough
<1>2. CASE GivesUp(p) /\ ~spoiled[p]
  <2>1. Sound(p) /\ ~Serves(on[p])
    BY <1>0, <1>2 DEF AtWork, GivesUp
  <2>2. expired[p] # 0
    BY <1>2, <2>1 DEF Sound, GivesUp
  <2>3. CASE pc[p] = "again"
    BY <1>0, <2>1, <2>2, <2>3, <1>0 DEF Sound, Enough, AtWork, Whole
  <2>4. CASE call[p] \notin Json
    BY <1>0, <2>2, <2>4 DEF Enough, Json, AtWork, Whole
  <2> QED
    BY <1>2, <2>3, <2>4 DEF GivesUp
<1>3. CASE spoiled[p]
  BY <1>0, <1>3 DEF Enough, AtWork, Whole
<1> QED
  BY <1>1, <1>2, <1>3

\* A request that nothing new happens to ends, or another of its probe follows.
LEMMA PlainCause ==
    ASSUME IInv, CauseInv, NEW p \in Proc,
           (\E from \in {"login", "relogin"} : Latched(p, from)) \/ Served(p) \/ GivesUp(p)
    PROVE  CauseInv'
<1>1. /\ pc[p] # "idle"
      /\ UNCHANGED <<stored, made, cred, flagVars, serverVars, rejected, metVars, troubles>>
  BY DEF Latched, Served, GivesUp
<1>2. PICK good \in BOOLEAN :
        Answered(p, good) /\ (~good => failed[on[p]] \/ GivesUp(p))
  BY DEF Latched, Served, GivesUp
<1>3. ~good => Enough(p) /\ (Probing(p) => harmed[on[p]] \/ failed[on[p]])
  BY <1>1, <1>2, RefusedMet
<1>4. UNCHANGED <<loggedIn, failed, accepts, session, expired, spoiled, harmed>>
  BY <1>1 DEF flagVars, serverVars, metVars
<1>5. spoiled \in [Proc -> BOOLEAN] /\ failed \in [Adapter -> BOOLEAN]
  BY DEF IInv, TMet, TFlag
<1> QED
  BY <1>1, <1>2, <1>3, <1>4, <1>5, AnswerCause

\* The server refuses the credentials: every request of the adapter has met that.
LEMMA RefusedCause ==
    ASSUME IInv, CauseInv, NEW p \in Proc, NEW from \in {"login", "relogin"}, Refused(p, from)
    PROVE  CauseInv'
<1>1. /\ pc[p] # "idle" /\ Answered(p, FALSE)
      /\ failed' = [failed EXCEPT ![on[p]] = TRUE]
      /\ spoiled' = [q \in Proc |-> spoiled[q] \/ q \in Using(on[p])]
      /\ UNCHANGED <<stored, made, cred, loggedIn, accepts, session, expired, harmed>>
  BY DEF Refused, Latch
<1>2. on[p] \in Adapter /\ on[p] <= made /\ made \in Nat
  BY <1>1, CauseParts
<1>3. failed \in [Adapter -> BOOLEAN] /\ spoiled \in [Proc -> BOOLEAN]
  BY DEF IInv, TFlag, TMet
<1>4. failed' \in [Adapter -> BOOLEAN] /\ failed'[on[p]]
      /\ \A j \in Adapter : j # on[p] => failed'[j] = failed[j]
  BY <1>1, <1>2, <1>3
<1>5. spoiled' \in [Proc -> BOOLEAN] /\ spoiled'[p]
      /\ \A q \in Proc : spoiled[q] => spoiled'[q]
  BY <1>1, <1>3 DEF Using
<1>6. \A q \in Proc : pc[q] # "idle" =>
               /\ ~spoiled'[q] => failed'[on[q]] = failed[on[q]]
               /\ spoiled'[q] = spoiled[q] \/ harmed'[on[q]] \/ failed'[on[q]]
  <2> SUFFICES ASSUME NEW q \in Proc, pc[q] # "idle"
               PROVE  /\ ~spoiled'[q] => failed'[on[q]] = failed[on[q]]
                      /\ spoiled'[q] = spoiled[q] \/ failed'[on[q]]
    OBVIOUS
  <2>1. CASE on[q] = on[p]
    BY <1>1, <1>4, <2>1 DEF Using
  <2>2. CASE on[q] # on[p]
    BY <1>1, <1>3, <1>4, <2>2, CauseParts DEF Using
  <2> QED
    BY <2>1, <2>2
<1>7. \A i \in Adapter : (harmed[i] => harmed'[i]) /\ (failed[i] => failed'[i])
  BY <1>1, <1>4
<1>8. \A i \in Adapter : i > made => failed'[i] = failed[i]
  BY <1>2, <1>4 DEF Adapter
<1> QED
  BY <1>1, <1>4, <1>5, <1>6, <1>7, <1>8, AnswerCause

\* The answer is lost.
LEMMA LostCause == ASSUME IInv, CauseInv, NEW p \in Proc, Lost(p) PROVE CauseInv'
<1>1. /\ pc[p] # "idle" /\ Answered(p, FALSE)
      /\ spoiled' = [spoiled EXCEPT ![p] = TRUE] /\ harmed' = [harmed EXCEPT ![on[p]] = TRUE]
      /\ UNCHANGED <<stored, made, cred, loggedIn, failed, accepts, session, expired>>
  BY DEF Lost, flagVars, serverVars
<1>2. on[p] \in Adapter
  BY CauseParts
<1>3. /\ harmed \in [Adapter -> BOOLEAN] /\ spoiled \in [Proc -> BOOLEAN]
      /\ failed \in [Adapter -> BOOLEAN]
  BY DEF IInv, TFlag, TMet
<1>4. /\ spoiled' \in [Proc -> BOOLEAN] /\ spoiled'[p]
      /\ \A q \in Proc : (spoiled[q] => spoiled'[q]) /\ (q # p => spoiled'[q] = spoiled[q])
  BY <1>1, <1>3
<1>5. harmed'[on[p]] /\ \A i \in Adapter : harmed[i] => harmed'[i]
  BY <1>1, <1>2, <1>3
<1>6. \A q \in Proc : pc[q] # "idle" =>
               /\ ~spoiled'[q] => failed'[on[q]] = failed[on[q]]
               /\ spoiled'[q] = spoiled[q] \/ harmed'[on[q]] \/ failed'[on[q]]
  BY <1>1, <1>4, <1>5
<1> QED
  BY <1>1, <1>3, <1>4, <1>5, <1>6, AnswerCause

\* A request begins.
LEMMA BeginCause ==
    ASSUME IInv, CauseInv, NEW p \in Proc, Begin(p) PROVE CauseInv'
<1>0. /\ UNCHANGED <<flagVars, capVars, serverVars, current>> /\ pc[p] = "idle"
      /\ pc' = [pc EXCEPT ![p] = "login"] /\ ended' = [ended EXCEPT ![p] = "none"]
  BY DEF Begin, List, MarkFiled, SaveClient, Reload, TestClient, Make, Start, adapterVars
<1>1. ASSUME NEW q \in Proc, q # p
      PROVE  UNCHANGED <<pc[q], on[q], call[q], ended[q], expired[q], spoiled[q]>>
  BY <1>1
  DEF Begin, List, MarkFiled, SaveClient, Reload, TestClient, Make, Start, Meet, IInv, TProc,
      TEnded, TMet
<1>2. \A j \in Adapter : j <= made => harmed'[j] = harmed[j] /\ cred'[j] = cred[j]
  BY CauseParts
  DEF Begin, List, MarkFiled, SaveClient, Reload, TestClient, Make, IInv, TMet, TAdapter,
      adapterVars
<1>3. ASSUME NEW q \in Proc, q # p PROVE AtWork(q)' /\ Ended(q)'
  <2>1. AtWork(q) /\ Ended(q) /\ on[q] \in Adapter /\ (pc[q] # "idle" => on[q] <= made)
    BY CauseParts
  <2>2. UNCHANGED <<pc[q], on[q], call[q], ended[q], expired[q], spoiled[q]>>
    BY <1>1, <1>3
  <2>3. pc[q] # "idle" /\ ~spoiled'[q] =>
               /\ accepts' = accepts /\ cred'[on[q]] = cred[on[q]]
               /\ failed'[on[q]] = failed[on[q]]
               /\ loggedIn'[on[q]] => loggedIn[on[q]] \/ Serves(on[q])'
               /\ Serves(on[q]) => Serves(on[q])'
    BY <1>0, <1>2, <2>1, <2>2 DEF flagVars, serverVars, Serves
  <2>4. pc[q] # "idle" /\ Probing(q) /\ Whole(on[q])' =>
               /\ Whole(on[q]) /\ spoiled'[q] = spoiled[q]
               /\ categories[on[q]] => categories'[on[q]]
    BY <1>0, <1>2, <2>1, <2>2 DEF flagVars, capVars, Whole
  <2>5. AtWork(q)'
    BY <2>1, <2>2, <2>3, <2>4, Quiet
  <2>6. Ended(q)'
    BY <2>1, <2>2 DEF Ended, Enough
  <2> QED
    BY <2>5, <2>6
<1>4. pc'[p] = "login" /\ ended'[p] = "none"
  BY <1>0 DEF IInv, TProc, TEnded
<1>5. AtWork(p)'
  <2>1. CASE List(p) \/ MarkFiled(p)
    <3>1. /\ on'[p] = current /\ call'[p] \in {"list", "mark"} /\ ~Probing(p)
          /\ expired'[p] = Stale(current) /\ spoiled'[p] = Hopeless(current)
          /\ UNCHANGED <<failed, loggedIn, cred, accepts, session>>
      BY <2>1
      DEF List, MarkFiled, Start, Meet, Probing, IInv, TProc, TMet, adapterVars, flagVars,
          serverVars
    <3>2. ASSUME ~spoiled'[p] PROVE Sound(p)'
      <4>1. ~failed[current] /\ ~Rejects(cred[current])
        BY <3>1, <3>2 DEF Hopeless
      <4>2. expired'[p] = 0 => (loggedIn[current] => Serves(current))
        BY <3>1, <4>1 DEF Stale, Rejects, Serves
      <4>3. expired'[p] # 0 => expired'[p] = 1
        BY <3>1 DEF Stale
      <4> QED
        BY <1>4, <3>1, <4>1, <4>2, <4>3 DEF Sound, Rejects, Serves
    <3> QED
      BY <1>4, <3>1, <3>2 DEF AtWork, Probing
  <2>2. ASSUME NEW c \in Cred \cup {Open}, Make(p, c), Role[p] \in {"save", "test"}
        PROVE  AtWork(p)'
    <3>1. /\ on'[p] = made + 1 /\ call'[p] = "version" /\ made + 1 \in Adapter
          /\ expired'[p] = 0 /\ spoiled'[p] = (Rejects(c) \/ banned)
          /\ harmed'[made + 1] = (Rejects(c) \/ banned) /\ cred'[made + 1] = c
      <4>1. made + 1 \in Adapter
        BY <2>2, CauseParts, BoundsAssumption DEF Make, IInv, TAdapter, Adapter
      <4>2. on'[p] = made + 1 /\ call'[p] = "version"
        BY <2>2 DEF Make, Start, IInv, TProc
      <4>3. expired'[p] = 0 /\ spoiled'[p] = (Rejects(c) \/ banned)
        BY <2>2 DEF Make, IInv, TMet
      <4>4. harmed'[made + 1] = (Rejects(c) \/ banned) /\ cred'[made + 1] = c
        BY <2>2, <4>1 DEF Make, IInv, TMet, TAdapter
      <4> QED
        BY <4>1, <4>2, <4>3, <4>4
    <3>2. ~loggedIn[made + 1] /\ ~failed[made + 1]
      BY <3>1, CauseParts DEF CauseInv, Unmade
    <3>3. ~spoiled'[p] => Sound(p)'
      BY <1>0, <1>4, <3>1, <3>2 DEF Sound, Rejects, flagVars, serverVars
    <3> QED
      BY <1>4, <2>2, <3>1, <3>3 DEF AtWork, Probing, Whole
  <2> QED
    BY <2>1, <2>2 DEF Begin, SaveClient, Reload, TestClient, IInv, TAdapter
<1>6. Ended(p)'
  BY <1>4 DEF Ended
<1>7. Installed'
  BY <1>0, <1>2, CauseParts DEF CauseInv, Installed, flagVars, capVars
<1>8. Unmade'
  <2>1. made' \in {made, made + 1}
    BY DEF Begin, List, MarkFiled, SaveClient, Reload, TestClient, Make, adapterVars
  <2> QED
    BY <1>0, <2>1, CauseParts DEF CauseInv, Unmade, flagVars, Adapter
<1> QED
  BY <1>3, <1>5, <1>6, <1>7, <1>8 DEF CauseInv

\* A session ends: whoever uses the adapter has met one more expiry.
LEMMA ExpireCause == ASSUME IInv, CauseInv, NEW i \in Adapter, Expire(i) PROVE CauseInv'
<1>1. /\ UNCHANGED <<made, current, cred, loggedIn, failed, categories, tags, scannable>>
      /\ UNCHANGED <<pc, on, call, ended, accepts, spoiled>>
      /\ session' = session \ {i}
      /\ harmed' = [harmed EXCEPT ![i] = @ \/ \E p \in Using(i) : Role[p] \in {"save", "test"}]
  BY DEF Expire, adapterVars, flagVars, capVars, procVars
<1>2. harmed' \in [Adapter -> BOOLEAN] /\ \A j \in Adapter : harmed[j] => harmed'[j]
  BY <1>1 DEF IInv, TMet
<1>3. ASSUME NEW p \in Proc PROVE AtWork(p)' /\ Ended(p)'
  <2>0. AtWork(p) /\ Ended(p) /\ on[p] \in Adapter /\ expired[p] \in 0 .. 2
    BY CauseParts DEF IInv, TMet
  <2>1. expired'[p] = IF p \in Using(i) /\ expired[p] < 2 THEN expired[p] + 1 ELSE expired[p]
    BY DEF Expire
  <2>2. Ended(p)'
    <3>1. CASE expired'[p] = expired[p]
      BY <1>1, <2>0, <3>1 DEF Ended, Enough
    <3>2. CASE pc[p] # "idle"
      BY <1>1, <2>0, <3>2 DEF AtWork, Ended
    <3> QED
      BY <2>1, <3>1, <3>2 DEF Using
  <2>3. CASE pc[p] = "idle"
    BY <1>1, <2>2, <2>3 DEF AtWork
  <2>4. CASE pc[p] # "idle" /\ on[p] # i
    <3>1. expired'[p] = expired[p] /\ Serves(on[p])' = Serves(on[p])
      BY <1>1, <2>1, <2>4 DEF Using, Serves
    <3>2. harmed'[on[p]] = harmed[on[p]]
      BY <1>1, <2>0, <2>4 DEF IInv, TMet
    <3>3. Sound(p) => Sound(p)'
      BY <1>1, <3>1 DEF Sound, Rejects
    <3>4. Whole(on[p])' => Whole(on[p])
      BY <1>1, <3>2 DEF Whole
    <3> QED
      BY <1>1, <2>0, <2>2, <3>1, <3>3, <3>4 DEF AtWork, Probing
  <2>5. CASE pc[p] # "idle" /\ on[p] = i
    <3>1. p \in Using(i)
      BY <2>5 DEF Using
    <3>2. expired'[p] \in {1, 2} /\ (expired'[p] = 1 => expired[p] = 0)
      BY <2>0, <2>1, <3>1
    <3>3. Probing(p) => harmed'[i]
      BY <1>1, <3>1 DEF Probing, IInv, TMet
    <3>4. ASSUME ~spoiled[p] PROVE Sound(p)'
      <4>1. Sound(p)
        BY <2>0, <2>5, <3>4 DEF AtWork
      <4>2. expired'[p] = 1 => pc[p] \in {"login", "send"}
        BY <3>2, <4>1 DEF Sound
      <4> QED
        BY <1>1, <3>2, <4>1, <4>2 DEF Sound, Rejects
    <3>5. Probing(p) => ~Whole(on[p])'
      BY <1>1, <2>5, <3>3 DEF Whole
    <3> QED
      BY <1>1, <2>0, <2>2, <2>5, <3>4, <3>5 DEF AtWork, Probing
  <2> QED
    BY <2>3, <2>4, <2>5
<1>4. Installed' /\ Unmade'
  BY <1>1, <1>2, CauseParts DEF CauseInv, Installed, Unmade
<1> QED
  BY <1>3, <1>4 DEF CauseInv

LEMMA PasswordCause ==
    ASSUME IInv, CauseInv, NEW c \in Cred \cup {Open}, ChangePassword(c) PROVE CauseInv'
<1>1. /\ UNCHANGED <<made, current, cred, loggedIn, failed, categories, tags, scannable>>
      /\ UNCHANGED <<pc, on, call, ended, expired>>
      /\ spoiled' = [p \in Proc |-> TRUE]
      /\ harmed' = [j \in Adapter |-> harmed[j] \/ Using(j) # {}]
  BY DEF ChangePassword, adapterVars, flagVars, capVars, procVars
<1>2. ASSUME NEW p \in Proc PROVE AtWork(p)' /\ Ended(p)'
  <2>1. AtWork(p) /\ Ended(p) /\ on[p] \in Adapter
    BY CauseParts
  <2>2. spoiled'[p] /\ (pc[p] # "idle" => harmed'[on[p]])
    BY <1>1, <2>1 DEF Using
  <2> QED
    BY <1>1, <2>1, <2>2 DEF AtWork, Ended, Enough, Whole, Probing
<1>3. Installed' /\ Unmade'
  BY <1>1, CauseParts DEF CauseInv, Installed, Unmade
<1> QED
  BY <1>2, <1>3 DEF CauseInv

\* A ban is lifted, or nothing happens.
LEMMA IdleCause == ASSUME IInv, CauseInv, BanEnds \/ UNCHANGED vars PROVE CauseInv'
<1>1. /\ UNCHANGED <<made, current, cred, loggedIn, failed, categories, tags, scannable>>
      /\ UNCHANGED <<pc, on, call, ended, expired, spoiled, harmed, accepts, session>>
  BY DEF BanEnds, vars, adapterVars, flagVars, capVars, procVars, serverVars, metVars
<1>2. \A p \in Proc : AtWork(p)' /\ Ended(p)'
  BY <1>1, CauseParts DEF AtWork, Ended, Enough, Whole, Probing, Sound, Rejects, Serves
<1>3. Installed' /\ Unmade'
  BY <1>1 DEF CauseInv, Installed, Unmade
<1> QED
  BY <1>2, <1>3 DEF CauseInv

LEMMA NextCause == IInv /\ CauseInv /\ [Next]_vars => CauseInv'
<1> SUFFICES ASSUME IInv, CauseInv, [Next]_vars PROVE CauseInv'
  OBVIOUS
<1>1. ASSUME NEW p \in Proc, Step(p) PROVE CauseInv'
  BY <1>1, LoggedInCause, AcceptedCause, PlainCause, RefusedCause, ClearCause
  DEF Step, LoginStep
<1>2. ASSUME NEW p \in Proc, Begin(p) \/ Lost(p) PROVE CauseInv'
  BY <1>2, BeginCause, LostCause
<1>3. CASE World
  BY <1>3, ExpireCause, PasswordCause, IdleCause DEF World
<1>4. CASE UNCHANGED vars
  BY <1>4, IdleCause
<1> QED
  BY <1>1, <1>2, <1>3, <1>4 DEF Next

\* A listing survives one expiry of its session, a request fails only after the
\* server or the network gave a reason while it was under way, and an installed
\* client is short of a capability only if something happened to its probe: for any
\* number of goroutines that share the adapter, and however they interleave.
THEOREM FailureHasCause == Spec => []FailsForCause
<1>1. Init => IInv /\ CauseInv
  BY InitInv, InitCause
<1>2. (IInv /\ CauseInv) /\ [Next]_vars => (IInv /\ CauseInv)'
  BY StepInv, NextCause
<1> QED
  BY <1>1, <1>2, CauseImplies, PTL DEF Spec
=============================================================================
