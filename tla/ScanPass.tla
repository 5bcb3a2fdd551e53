------------------------------ MODULE ScanPass ------------------------------
(***************************************************************************)
(* One scan after another (pipeline.go ScanNow): which torrents become     *)
(* candidates (scan/predicate.go Evaluate), which of them are the same     *)
(* payload or an *arr's (module Overlap), and which get a plan, while the  *)
(* torrents change, time passes, plans are filed and the process restarts. *)
(*                                                                         *)
(* What a scan writes to the store while handlers work on the same plan is *)
(* module PlanQueue; here the loop treats a candidate in one step and a    *)
(* handler files a plan in one step.                                       *)
(***************************************************************************)
EXTENDS Integers, FiniteSets, Overlap

CONSTANTS
    NClients,   \* scannable clients 1 .. NClients, in the order of their names
    Home,       \* the client of each item
    Category,   \* what an item's category may be
    Contents,   \* the contents to consider
    Windows,    \* settle windows the configuration may give
    MaxAge,     \* where ages saturate: no window is longer
    MaxPlansPerRun,
    Allowed,    \* the events that happen
    MaxEvents   \* how many of them

Clients == 1 .. NClients

\* "fail": a call to a client or the store; "recat": another category;
\* "complete": a download completes or a complete one is checked again.
Events == {"fail", "recat", "complete", "file", "ignore", "restart"}

ASSUME ClientsAssumption == NClients \in Nat /\ Home \in [Item -> Clients]
ASSUME ItemAssumption == IsFiniteSet(Item)
ASSUME CategoryAssumption ==
    "empty" \in Category /\ Category \subseteq {"empty", "blank", "owned"}
ASSUME ContentsAssumption == Contents \subseteq Content
ASSUME WindowsAssumption == MaxAge \in Nat /\ Windows \subseteq 0 .. MaxAge
ASSUME CapAssumption == MaxPlansPerRun \in Nat \ {0}
ASSUME EventsAssumption == Allowed \subseteq Events /\ MaxEvents \in Nat

VARIABLES
    content,    \* what the clients and the disk say of each item; fixed
    cat, complete, tagged,   \* items in the clients
    age,        \* time since first_seen_at; Never without a row
    state,      \* orphan.state; "none" without a row
    plan,       \* the latest plan of each item
    window,     \* the settle window this process was started with
    sAt, sClient,   \* where the scan is
    sAge, sIgnored, \* what the store said when it started
    sTodo, sCat, sTagged,    \* the items listed and their state then
    rank,       \* the order in which items were read, from 1
    cands, peers,   \* candidates and categorisedPeers
    blocked, cause, left, claimed, made,   \* the loop over candidates
    worked,     \* history: candidates this scan classified
    used        \* how many events have happened

worldVars == <<content, cat, complete, tagged>>
storeVars == <<age, state, plan>>
listVars  == <<sTodo, sCat, sTagged>>
readVars  == <<rank, cands, peers>>
loopVars  == <<blocked, cause, left, claimed, made, worked>>
scanVars  == <<sAt, sClient, sAge, sIgnored, listVars, readVars, loopVars>>
vars == <<worldVars, storeVars, window, scanVars, used>>

-----------------------------------------------------------------------------
(* Types *)

Never == -1
Ages  == Never .. MaxAge

OrphanState == {"none", "discovered", "unknown", "blocked", "ignored", "filed"}
PlanState   == {"none", "draft", "waiting", "done"}

TypeOK ==
    /\ content \in Contents
    /\ cat \in [Item -> Category] /\ complete \subseteq Item /\ tagged \subseteq Item
    /\ age \in [Item -> Ages] /\ state \in [Item -> OrphanState]
    /\ plan \in [Item -> PlanState]
    /\ window \in Windows
    /\ sAt \in {"idle", "client", "item", "work"}
    /\ sClient \in 1 .. (NClients + 1) /\ (sAt = "item" => sClient \in Clients)
    /\ sAge \in [Item -> Ages] /\ sIgnored \subseteq Fingerprint
    /\ sTodo \subseteq Item /\ sCat \in [Item -> Category] /\ sTagged \subseteq Item
    /\ rank \in [Item -> Nat]
    /\ cands \subseteq Item /\ peers \subseteq Item
    /\ blocked \subseteq cands /\ cause \in [Item -> SUBSET Item]
    /\ left \subseteq cands /\ claimed \subseteq cands /\ made \in Nat
    /\ worked \subseteq cands
    /\ used \in 0 .. MaxEvents

-----------------------------------------------------------------------------
(* Helpers *)

Happens(e) == e \in Allowed /\ used < MaxEvents /\ used' = used + 1

R == Shares(content)

\* The first of a set of items in the order they were read.
Foremost(S) == {i \in S : \A j \in S : rank[i] <= rank[j]}

\* The scan's variables when it has none of its own yet.
Fresh ==
    /\ sClient' = 1 /\ sTodo' = {} /\ sTagged' = {} /\ sCat' = [i \in Item |-> "empty"]
    /\ rank' = [i \in Item |-> 0] /\ cands' = {} /\ peers' = {}
    /\ blocked' = {} /\ cause' = [i \in Item |-> {}] /\ left' = {} /\ claimed' = {}
    /\ made' = 0 /\ worked' = {}

Forget ==
    /\ sAt' = "idle" /\ Fresh
    /\ sAge' = [i \in Item |-> Never] /\ sIgnored' = {}

-----------------------------------------------------------------------------
Init ==
    /\ content \in Contents
    /\ cat \in [Item -> Category] /\ complete \in SUBSET Item /\ tagged = {}
    /\ age = [i \in Item |-> Never] /\ state = [i \in Item |-> "none"]
    /\ plan = [i \in Item |-> "none"]
    /\ window \in Windows
    /\ sAt = "idle" /\ sClient = 1 /\ sAge = [i \in Item |-> Never] /\ sIgnored = {}
    /\ sTodo = {} /\ sCat = [i \in Item |-> "empty"] /\ sTagged = {}
    /\ rank = [i \in Item |-> 0] /\ cands = {} /\ peers = {}
    /\ blocked = {} /\ cause = [i \in Item |-> {}] /\ left = {} /\ claimed = {}
    /\ made = 0 /\ worked = {}
    /\ used = 0

-----------------------------------------------------------------------------
(* Reading the clients *)

\* The ages and the ignored fingerprints, as the store has them now.
ScanStart ==
    /\ sAt = "idle" /\ sAt' = "client" /\ Fresh
    /\ sAge' = age
    /\ sIgnored' = {content.fp[i] : i \in {j \in Item : state[j] = "ignored"}}
    /\ UNCHANGED <<worldVars, storeVars, window, used>>

ReadOnly == UNCHANGED <<worldVars, storeVars, window, sAge, sIgnored, loopVars>>

\* A client that does not answer is passed over.
ClientFails ==
    /\ sAt = "client" /\ sClient \in Clients /\ Happens("fail")
    /\ sClient' = sClient + 1
    /\ ReadOnly /\ UNCHANGED <<sAt, listVars, readVars>>

\* ListItems.  The loop passes an item over at once that is not complete.
ListItems ==
    /\ sAt = "client" /\ sClient \in Clients
    /\ sTodo' = {i \in complete : Home[i] = sClient}
    /\ sCat' = cat /\ sTagged' = tagged
    /\ sAt' = "item"
    /\ ReadOnly /\ UNCHANGED <<sClient, readVars, used>>

ClientDone ==
    /\ sAt = "item" /\ sTodo = {}
    /\ sAt' = "client" /\ sClient' = sClient + 1
    /\ sCat' = [i \in Item |-> "empty"] /\ sTagged' = {}
    /\ ReadOnly /\ UNCHANGED <<sTodo, readVars, used>>

\* FirstSeen: without a row the item counts as seen at the start of the scan.
SeenFor(i) == IF sAge[i] = Never THEN 0 ELSE sAge[i]
Settled(i) == SeenFor(i) >= window

\* The tags, and what the user ignores under any infohash.
Excluded(i) == i \in sTagged \/ content.fp[i] \in sIgnored

\* The manifest rules: wanted files, no incomplete marker, none in a library.
Fit(i) == i \in content.fit

\* Evaluate with an in-memory map in place of first_seen_at.
Evaluate_unsettled(i) == sCat[i] = "empty" /\ window = 0 /\ ~Excluded(i) /\ Fit(i)

\* What Evaluate keeps.  It takes a category of blanks for a category.
Evaluate(i) == sCat[i] = "empty" /\ Settled(i) /\ ~Excluded(i) /\ Fit(i)

\* ScanNow trims the category before it asks whether there is one.
Categorised(i) == sCat[i] = "owned"

\* ResolveLocal: a mapping covers the save path, and no file escapes it.
Mapped(i) == i \in content.mapped

Ranked(i) == rank' = [rank EXCEPT ![i] = Cardinality(cands \cup peers) + 1]

\* An item whose files cannot be listed or mapped is passed over.  One that has
\* a category enters the overlap index, whatever Evaluate would say of it.
ReadItem(i) ==
    /\ sAt = "item" /\ i \in sTodo
    /\ sTodo' = sTodo \ {i}
    /\ \/ Happens("fail") /\ UNCHANGED readVars
       \/ /\ Mapped(i) /\ Categorised(i)
          /\ peers' = peers \cup {i} /\ Ranked(i) /\ UNCHANGED <<cands, used>>
       \/ /\ Mapped(i) /\ ~Categorised(i) /\ Evaluate(i)
          /\ cands' = cands \cup {i} /\ Ranked(i) /\ UNCHANGED <<peers, used>>
       \/ /\ ~Mapped(i) \/ (~Categorised(i) /\ ~Evaluate(i))
          /\ UNCHANGED <<readVars, used>>
    /\ ReadOnly /\ UNCHANGED <<sAt, sClient, sCat, sTagged>>

-----------------------------------------------------------------------------
(* The gate and the loop *)

\* AddPeersNamed that blocks what overlaps a peer itself, and no more.
Blocked_direct(C, P) == Direct(R, C, P)

\* A gate whose index holds the categorised items as well.
Blocked_all(C, P) == Blocked(R, C \cup P, P)

\* AddPeersNamed blocks what a chain links with a peer.
BlockedBy(C, P) == Blocked(R, C, P)

\* The sibling that leads to the block, in place of the owner.
Cause_sibling(i) == Foremost({d \in Direct(R, cands, peers) : i \in Reach(R, cands, d)})

\* The first peer a directly blocked candidate overlaps; for the others that of
\* the first directly blocked candidate that leads to them.
Named(i) == Foremost(Owners(R, peers, i))
Cause(i) ==
    IF i \in Direct(R, cands, peers) THEN Named(i)
    ELSE UNION {Named(d) : d \in
            Foremost({d \in Direct(R, cands, peers) : i \in Reach(R, cands, d)})}

Gate ==
    /\ sAt = "client" /\ sClient = NClients + 1
    /\ blocked' = BlockedBy(cands, peers)
    /\ cause' = [i \in Item |-> IF i \in cands THEN Cause(i) ELSE {}]
    /\ left' = cands
    /\ sAt' = "work"
    /\ UNCHANGED <<worldVars, storeVars, window, sClient, sAge, sIgnored, listVars,
                   readVars, claimed, made, worked, used>>

LoopOnly == UNCHANGED <<worldVars, window, sAt, sClient, sAge, sIgnored, listVars,
                        readVars, blocked, cause>>

Turn(i) == sAt = "work" /\ i \in Foremost(left) /\ left' = left \ {i}

\* UpsertOrphan: first_seen_at is set once, the user's decisions stay.
Upsert(i, st) ==
    /\ state' = [state EXCEPT ![i] = IF @ \in {"ignored", "filed"} THEN @ ELSE st]
    /\ age' = [age EXCEPT ![i] = IF @ = Never THEN 0 ELSE @]

\* claimed[i]: the candidate is another's payload.
Collapsed(i) ==
    /\ Turn(i) /\ i \in claimed
    /\ LoopOnly /\ UNCHANGED <<storeVars, claimed, made, worked, used>>

BlockOne(i) ==
    /\ Turn(i) /\ i \notin claimed /\ i \in blocked
    /\ \/ Upsert(i, "blocked") /\ UNCHANGED used
       \/ Happens("fail") /\ UNCHANGED <<age, state>>
    /\ LoopOnly /\ UNCHANGED <<plan, claimed, made, worked>>

\* The peers of a candidate, without theirs.
Claims_direct(i) == Peers(R, cands, i)

\* The peers of a candidate, and theirs.
Claims(i) == Transitive(R, cands, i)

\* A saved plan is a new draft, or the open one again; a plan that waits for the
\* user is left alone, and so is everything once the cap is reached.
SaveOne(i) ==
    /\ made < MaxPlansPerRun /\ plan[i] # "waiting"
    /\ plan' = [plan EXCEPT ![i] = "draft"] /\ made' = made + 1

\* An unknown type, a missing library, a layout that cannot be built, a source
\* that cannot be read end the work short of the plan.
WorkOne(i) ==
    /\ Turn(i) /\ i \notin claimed /\ i \notin blocked
    /\ claimed' = claimed \cup Claims(i)
    /\ worked' = worked \cup {i}
    /\ \/ Happens("fail") /\ UNCHANGED <<storeVars, made>>
       \/ Upsert(i, "unknown") /\ UNCHANGED <<plan, made, used>>
       \/ Upsert(i, "discovered") /\ SaveOne(i) /\ UNCHANGED used
       \/ Upsert(i, "discovered") /\ UNCHANGED <<plan, made, used>>
    /\ LoopOnly

ScanEnd ==
    /\ sAt = "work" /\ left = {} /\ Forget
    /\ UNCHANGED <<worldVars, storeVars, window, used>>

-----------------------------------------------------------------------------
(* What happens meanwhile *)

Recategorise(i) ==
    /\ Happens("recat")
    /\ \E c \in Category : c # cat[i] /\ cat' = [cat EXCEPT ![i] = c]
    /\ UNCHANGED <<content, complete, tagged, storeVars, window, scanVars>>

Completes(i) ==
    /\ Happens("complete")
    /\ complete' = IF i \in complete THEN complete \ {i} ELSE complete \cup {i}
    /\ UNCHANGED <<content, cat, tagged, storeVars, window, scanVars>>

\* Execute: the plan is done, the tag may not stick; or it fails and waits.
File(i) ==
    /\ plan[i] \in {"draft", "waiting"} /\ Happens("file")
    /\ \/ /\ plan' = [plan EXCEPT ![i] = "done"] /\ state' = [state EXCEPT ![i] = "filed"]
          /\ tagged' \in {tagged, tagged \cup {i}}
       \/ plan' = [plan EXCEPT ![i] = "waiting"] /\ UNCHANGED <<state, tagged>>
    /\ UNCHANGED <<content, cat, complete, age, window, scanVars>>

Ignore(i) ==
    /\ state[i] # "none" /\ Happens("ignore")
    /\ state' = [state EXCEPT ![i] = "ignored"]
    /\ UNCHANGED <<worldVars, age, plan, window, scanVars>>

\* The process dies and starts with the window the configuration gives now.
Restart ==
    /\ Happens("restart")
    /\ window' \in Windows /\ Forget
    /\ UNCHANGED <<worldVars, storeVars>>

Tick ==
    /\ age' = [i \in Item |-> IF age[i] \in 0 .. (MaxAge - 1) THEN age[i] + 1 ELSE age[i]]
    /\ age' # age
    /\ UNCHANGED <<worldVars, state, plan, window, scanVars, used>>

-----------------------------------------------------------------------------
Scan ==
    \/ ScanStart \/ ClientFails \/ ListItems \/ ClientDone \/ Gate \/ ScanEnd
    \/ \E i \in Item : ReadItem(i) \/ Collapsed(i) \/ BlockOne(i) \/ WorkOne(i)
Next ==
    \/ Scan \/ Restart \/ Tick
    \/ \E i \in Item : Recategorise(i) \/ Completes(i) \/ File(i) \/ Ignore(i)

Spec == Init /\ [][Next]_vars

\* The ticker of main starts one scan after another, and time passes.
Fairness == WF_vars(Scan) /\ WF_vars(Tick)
FairSpec == Spec /\ Fairness
-----------------------------------------------------------------------------
(* Properties *)

\* "Two library entries pointing at one payload" (pipeline.go:502): of the
\* candidates a scan has treated, each payload was blocked as a whole or worked
\* on through exactly one of them.
OneUnitPerPayload ==
    sAt = "work" =>
      \A i \in cands \ left :
        LET payload == Reach(R, cands, i) IN
        IF i \in blocked THEN payload \cap worked = {}
        ELSE \E w \in payload : payload \cap worked = {w}

\* I4 of the design, for what this scan has read: no candidate it works on is
\* linked with a torrent that has an owner, however long the chain.
OwnedIsBlocked ==
    \A i \in worked : Reach(R, cands, i) \cap Direct(R, cands, peers) = {}

\* A block names the torrent that causes it: one that has a category, and whose
\* content a chain of candidates links with the blocked one (predicate.go:293).
CauseIsOwner ==
    \A i \in blocked :
      /\ cause[i] # {} /\ cause[i] \subseteq peers
      /\ \A p \in cause[i] : \E d \in Reach(R, cands, i) : <<p, d>> \in R

\* What a scan has to find if nothing but its age stands in the way.
Wanted(i) ==
    /\ i \in (complete \cap content.mapped \cap content.fit) \ tagged /\ cat[i] = "empty"
    /\ \A j \in Item : state[j] = "ignored" => content.fp[j] # content.fp[i]

\* "So the settle window survives a restart" (plans.go:203): an item that a row
\* knows becomes a candidate again and again, after any restart.
KnownSettles ==
    \A i \in Item :
      <>[](Wanted(i) /\ age[i] # Never) => []<>(i \in cands)

\* "first_seen_at drives the settle window" (schema.go:89): a wanted item
\* becomes a candidate once the window has passed.
Settles == \A i \in Item : [](Wanted(i)) => <>(i \in cands)
=============================================================================
