-------------------------- MODULE ScanPass_proofs --------------------------
(***************************************************************************)
(* Theorems about ScanPass, for every set of items and clients, every      *)
(* content and every bound on the events.                                  *)
(***************************************************************************)
EXTENDS ScanPass, Overlap_proofs, FiniteSetTheorems, WellFoundedInduction

-----------------------------------------------------------------------------
(* Type correctness *)

\* The parts of TypeOK that one group of actions leaves alone.
WorldType == content \in Contents /\ cat \in [Item -> Category]
             /\ complete \subseteq Item /\ tagged \subseteq Item
StoreType == age \in [Item -> Ages] /\ state \in [Item -> OrphanState]
             /\ plan \in [Item -> PlanState]
StartType == sAge \in [Item -> Ages] /\ sIgnored \subseteq Fingerprint
ListType  == sTodo \subseteq Item /\ sCat \in [Item -> Category] /\ sTagged \subseteq Item
ReadType  == rank \in [Item -> Nat] /\ cands \subseteq Item /\ peers \subseteq Item
LoopType  == blocked \subseteq cands /\ cause \in [Item -> SUBSET Item]
             /\ left \subseteq cands /\ claimed \subseteq cands /\ made \in Nat
             /\ worked \subseteq cands
RestType  == window \in Windows /\ sAt \in {"idle", "client", "item", "work"}
             /\ sClient \in 1 .. (NClients + 1) /\ (sAt = "item" => sClient \in Clients)
             /\ used \in 0 .. MaxEvents

LEMMA TypeParts ==
    TypeOK <=> /\ WorldType /\ StoreType /\ StartType /\ ListType /\ ReadType
               /\ LoopType /\ RestType
BY DEF TypeOK, WorldType, StoreType, StartType, ListType, ReadType, LoopType, RestType

LEMMA TypePartsNext ==
    TypeOK' <=> /\ WorldType' /\ StoreType' /\ StartType' /\ ListType' /\ ReadType'
                /\ LoopType' /\ RestType'
BY DEF TypeOK, WorldType, StoreType, StartType, ListType, ReadType, LoopType, RestType

LEMMA AgeType == Never \in Ages /\ 0 \in Ages /\ [i \in Item |-> Never] \in [Item -> Ages]
<1>1. Never \in Ages /\ 0 \in Ages
  BY WindowsAssumption DEF Never, Ages
<1> QED
  BY <1>1

LEMMA FingerprintType ==
    ASSUME WorldType, NEW S \in SUBSET Item
    PROVE  {content.fp[i] : i \in S} \subseteq Fingerprint
<1>1. content.fp \in [Item -> Fingerprint]
  BY ContentsAssumption DEF WorldType, Content
<1> QED
  BY <1>1

LEMMA CountType == ASSUME RestType, NEW e, Happens(e) PROVE used' \in 0 .. MaxEvents
BY EventsAssumption DEF RestType, Happens

LEMMA InitType == Init => TypeOK
<1> SUFFICES ASSUME Init PROVE TypeOK
  OBVIOUS
<1>1. WorldType /\ StartType /\ ListType /\ ReadType /\ LoopType
  BY AgeType, CategoryAssumption
  DEF Init, WorldType, StartType, ListType, ReadType, LoopType
<1>2. StoreType
  BY AgeType DEF Init, StoreType, OrphanState, PlanState
<1>3. RestType
  BY ClientsAssumption, EventsAssumption DEF Init, RestType
<1> QED
  BY <1>1, <1>2, <1>3, TypeParts

LEMMA UpsertType ==
    ASSUME StoreType, NEW i \in Item, NEW st \in OrphanState, Upsert(i, st)
    PROVE  state' \in [Item -> OrphanState] /\ age' \in [Item -> Ages]
BY AgeType DEF StoreType, Upsert

\* A scan that has not started holds nothing.
LEMMA FreshType ==
    ASSUME Fresh PROVE ListType' /\ ReadType' /\ LoopType' /\ sClient' \in 1 .. (NClients + 1)
BY ClientsAssumption, CategoryAssumption DEF Fresh, ListType, ReadType, LoopType

LEMMA RankType ==
    ASSUME ReadType, NEW i \in Item, Ranked(i) PROVE rank' \in [Item -> Nat]
<1>1. Cardinality(cands \cup peers) + 1 \in Nat
  <2>1. IsFiniteSet(cands \cup peers)
    BY ItemAssumption, FS_Subset DEF ReadType
  <2> QED
    BY <2>1, FS_CardinalityType
<1> QED
  BY <1>1 DEF ReadType, Ranked

LEMMA CauseType ==
    ASSUME ReadType
    PROVE  [i \in Item |-> IF i \in cands THEN Cause(i) ELSE {}] \in [Item -> SUBSET Item]
<1> SUFFICES ASSUME NEW i \in Item PROVE Cause(i) \subseteq Item
  OBVIOUS
<1>1. \A d : Named(d) \subseteq peers
  BY DEF Named, Foremost, Owners
<1>2. Cause(i) \subseteq peers
  BY <1>1 DEF Cause
<1> QED
  BY <1>2 DEF ReadType

\* Every step keeps the types.
LEMMA ScanType == ASSUME TypeOK, Scan PROVE TypeOK'
<1> USE DEF worldVars, storeVars, listVars, readVars, loopVars, ReadOnly, LoopOnly
<1>0. WorldType /\ StoreType /\ StartType /\ ListType /\ ReadType /\ LoopType /\ RestType
  BY TypeParts
<1>1. CASE ScanStart
  <2>1. WorldType' /\ StoreType'
    BY <1>0, <1>1 DEF ScanStart, WorldType, StoreType
  <2>2. StartType'
    BY <1>0, <1>1, FingerprintType DEF ScanStart, StartType, StoreType
  <2>3. ListType' /\ ReadType' /\ LoopType' /\ RestType'
    BY <1>0, <1>1, FreshType DEF ScanStart, RestType
  <2> QED
    BY <2>1, <2>2, <2>3, TypePartsNext
<1>2. CASE ClientFails
  <2>1. WorldType' /\ StoreType' /\ StartType' /\ ListType' /\ ReadType' /\ LoopType'
    BY <1>0, <1>2
    DEF ClientFails, WorldType, StoreType, StartType, ListType, ReadType, LoopType
  <2>2. RestType'
    BY <1>0, <1>2, CountType, ClientsAssumption DEF ClientFails, RestType, Clients
  <2> QED
    BY <2>1, <2>2, TypePartsNext
<1>3. CASE ListItems
  <2>1. WorldType' /\ StoreType' /\ StartType' /\ ReadType' /\ LoopType' /\ RestType'
    BY <1>0, <1>3
    DEF ListItems, WorldType, StoreType, StartType, ReadType, LoopType, RestType
  <2>2. ListType'
    BY <1>0, <1>3 DEF ListItems, ListType, WorldType
  <2> QED
    BY <2>1, <2>2, TypePartsNext
<1>4. CASE ClientDone
  <2>1. WorldType' /\ StoreType' /\ StartType' /\ ReadType' /\ LoopType'
    BY <1>0, <1>4 DEF ClientDone, WorldType, StoreType, StartType, ReadType, LoopType
  <2>2. ListType'
    BY <1>0, <1>4, CategoryAssumption DEF ClientDone, ListType
  <2>3. RestType'
    BY <1>0, <1>4, ClientsAssumption DEF ClientDone, RestType, Clients
  <2> QED
    BY <2>1, <2>2, <2>3, TypePartsNext
<1>5. CASE Gate
  <2>1. WorldType' /\ StoreType' /\ StartType' /\ ListType' /\ ReadType'
    BY <1>0, <1>5 DEF Gate, WorldType, StoreType, StartType, ListType, ReadType
  <2>2. RestType'
    BY <1>0, <1>5 DEF Gate, RestType
  <2>3. blocked' \subseteq cands'
    BY <1>5 DEF Gate, BlockedBy, Blocked
  <2>4. cause' \in [Item -> SUBSET Item]
    BY <1>0, <1>5, CauseType, Zenon DEF Gate
  <2>5. cands' = cands /\ left' = cands /\ UNCHANGED <<claimed, made, worked>>
    BY <1>5 DEF Gate
  <2>6. LoopType'
    BY <1>0, <2>3, <2>4, <2>5 DEF LoopType
  <2> QED
    BY <2>1, <2>2, <2>6, TypePartsNext
<1>6. CASE ScanEnd
  <2>1. WorldType' /\ StoreType'
    BY <1>0, <1>6 DEF ScanEnd, WorldType, StoreType
  <2>2. StartType'
    BY <1>6, AgeType DEF ScanEnd, Forget, StartType
  <2>3. ListType' /\ ReadType' /\ LoopType' /\ RestType'
    BY <1>0, <1>6, FreshType DEF ScanEnd, Forget, RestType
  <2> QED
    BY <2>1, <2>2, <2>3, TypePartsNext
<1>7. ASSUME NEW i \in Item, ReadItem(i) PROVE TypeOK'
  <2>1. WorldType' /\ StoreType' /\ StartType'
    BY <1>0, <1>7 DEF ReadItem, WorldType, StoreType, StartType
  <2>2. ListType'
    BY <1>0, <1>7 DEF ReadItem, ListType
  <2>3. rank' \in [Item -> Nat]
    BY <1>0, <1>7, RankType DEF ReadItem, ReadType
  <2>4. ReadType' /\ cands \subseteq cands'
    BY <1>0, <1>7, <2>3 DEF ReadItem, ReadType
  <2>5. LoopType'
    BY <1>0, <1>7, <2>4 DEF ReadItem, LoopType
  <2>6. RestType'
    BY <1>0, <1>7, CountType DEF ReadItem, RestType
  <2> QED
    BY <2>1, <2>2, <2>4, <2>5, <2>6, TypePartsNext
<1>8. ASSUME NEW i \in Item, Collapsed(i) PROVE TypeOK'
  <2>1. WorldType' /\ StoreType' /\ StartType' /\ ListType' /\ ReadType' /\ RestType'
    BY <1>0, <1>8
    DEF Collapsed, Turn, WorldType, StoreType, StartType, ListType, ReadType, RestType
  <2>2. LoopType'
    BY <1>0, <1>8 DEF Collapsed, Turn, LoopType
  <2> QED
    BY <2>1, <2>2, TypePartsNext
<1>9. ASSUME NEW i \in Item, BlockOne(i) PROVE TypeOK'
  <2>1. WorldType' /\ StartType' /\ ListType' /\ ReadType'
    BY <1>0, <1>9 DEF BlockOne, WorldType, StartType, ListType, ReadType
  <2>2. state' \in [Item -> OrphanState] /\ age' \in [Item -> Ages]
    BY <1>0, <1>9, UpsertType DEF BlockOne, StoreType, OrphanState
  <2>3. StoreType'
    BY <1>0, <1>9, <2>2 DEF BlockOne, StoreType
  <2>4. LoopType'
    BY <1>0, <1>9 DEF BlockOne, Turn, LoopType
  <2>5. RestType'
    BY <1>0, <1>9, CountType DEF BlockOne, Turn, RestType
  <2> QED
    BY <2>1, <2>3, <2>4, <2>5, TypePartsNext
<1>10. ASSUME NEW i \in Item, WorkOne(i) PROVE TypeOK'
  <2>1. WorldType' /\ StartType' /\ ListType' /\ ReadType'
    BY <1>0, <1>10 DEF WorkOne, WorldType, StartType, ListType, ReadType
  <2>2. state' \in [Item -> OrphanState] /\ age' \in [Item -> Ages]
    BY <1>0, <1>10, UpsertType DEF WorkOne, StoreType, OrphanState
  <2>3. plan' \in [Item -> PlanState] /\ made' \in Nat
    BY <1>0, <1>10 DEF WorkOne, SaveOne, StoreType, LoopType, PlanState
  <2>4. StoreType'
    BY <2>2, <2>3 DEF StoreType
  <2>5. Claims(i) \subseteq cands /\ i \in cands
    BY <1>0, <1>10 DEF WorkOne, Turn, Foremost, Claims, Transitive, Reach, LoopType
  <2>6. LoopType'
    BY <1>0, <1>10, <2>3, <2>5 DEF WorkOne, Turn, LoopType
  <2>7. RestType'
    BY <1>0, <1>10, CountType DEF WorkOne, Turn, RestType
  <2> QED
    BY <2>1, <2>4, <2>6, <2>7, TypePartsNext
<1> QED
  BY <1>1, <1>2, <1>3, <1>4, <1>5, <1>6, <1>7, <1>8, <1>9, <1>10 DEF Scan

LEMMA EnvironmentType ==
    ASSUME TypeOK,
           \/ Restart \/ Tick
           \/ \E i \in Item : Recategorise(i) \/ Completes(i) \/ File(i) \/ Ignore(i)
    PROVE  TypeOK'
<1> USE DEF worldVars, storeVars, listVars, readVars, loopVars, scanVars
<1>0. WorldType /\ StoreType /\ StartType /\ ListType /\ ReadType /\ LoopType /\ RestType
  BY TypeParts
<1>1. CASE Restart
  <2>1. WorldType' /\ StoreType'
    BY <1>0, <1>1 DEF Restart, WorldType, StoreType
  <2>2. StartType'
    BY <1>1, AgeType DEF Restart, Forget, StartType
  <2>3. ListType' /\ ReadType' /\ LoopType' /\ RestType'
    BY <1>0, <1>1, FreshType, CountType DEF Restart, Forget, RestType
  <2> QED
    BY <2>1, <2>2, <2>3, TypePartsNext
<1>2. CASE Tick
  <2>1. \A i \in Item : (IF age[i] \in 0 .. (MaxAge - 1) THEN age[i] + 1 ELSE age[i]) \in Ages
    BY <1>0, WindowsAssumption DEF StoreType, Ages, Never
  <2>2. StoreType'
    BY <1>0, <1>2, <2>1 DEF Tick, StoreType
  <2>3. WorldType' /\ StartType' /\ ListType' /\ ReadType' /\ LoopType' /\ RestType'
    BY <1>0, <1>2
    DEF Tick, WorldType, StartType, ListType, ReadType, LoopType, RestType
  <2> QED
    BY <2>2, <2>3, TypePartsNext
<1>3. ASSUME NEW i \in Item, Recategorise(i) \/ Completes(i) \/ File(i) \/ Ignore(i)
      PROVE  TypeOK'
  <2>1. StartType' /\ ListType' /\ ReadType' /\ LoopType'
    BY <1>0, <1>3
    DEF Recategorise, Completes, File, Ignore, StartType, ListType, ReadType, LoopType
  <2>2. RestType'
    BY <1>0, <1>3, CountType DEF Recategorise, Completes, File, Ignore, RestType
  <2>3. WorldType'
    BY <1>0, <1>3 DEF Recategorise, Completes, File, Ignore, WorldType
  <2>4. StoreType'
    BY <1>0, <1>3
    DEF Recategorise, Completes, File, Ignore, StoreType, OrphanState, PlanState
  <2> QED
    BY <2>1, <2>2, <2>3, <2>4, TypePartsNext
<1> QED
  BY <1>1, <1>2, <1>3

LEMMA StutterType == ASSUME TypeOK, UNCHANGED vars PROVE TypeOK'
BY DEF TypeOK, vars, worldVars, storeVars, listVars, readVars, loopVars, scanVars

LEMMA NextType == TypeOK /\ [Next]_vars => TypeOK'
BY ScanType, EnvironmentType, StutterType DEF Next

\* Every variable keeps its type in every behaviour of scans.
THEOREM ScanTypeCorrect == Spec => []TypeOK
BY InitType, NextType, PTL DEF Spec

-----------------------------------------------------------------------------
(* The loop over candidates *)

\* What holds of the loop at every turn: the block is the whole payload of what
\* touches a peer, the candidates worked on are of different payloads that are not
\* blocked, they have claimed the rest of theirs, and nobody else has claimed.
Loop ==
    /\ blocked = Blocked(R, cands, peers)
    /\ worked \cap left = {} /\ worked \cap blocked = {}
    /\ \A w \in worked : Reach(R, cands, w) \cap worked = {w}
    /\ \A w \in worked : Transitive(R, cands, w) \subseteq claimed
    /\ \A i \in claimed : \E w \in worked : i \in Reach(R, cands, w)
    /\ \A i \in cands \ left : i \in blocked \cup claimed \cup worked

LoopInv ==
    /\ sAt # "work" => worked = {} /\ claimed = {}
    /\ sAt = "work" => Loop

LEMMA Symmetry == Symmetric(R)
BY SharesSymmetric DEF R

\* The payload of a candidate that no one claimed and that is not worked on yet
\* has none that is.
LEMMA Unclaimed ==
    ASSUME TypeOK, Loop, NEW i \in left, i \notin claimed
    PROVE  Reach(R, cands, i) \cap worked = {}
<1>1. i \in cands /\ i \notin worked
  BY DEF TypeOK, Loop
<1> SUFFICES ASSUME NEW w \in Reach(R, cands, i), w \in worked PROVE FALSE
  OBVIOUS
<1>2. i \in Reach(R, cands, w)
  BY <1>1, Symmetry, ReachBack
<1>3. i \in Transitive(R, cands, w)
  BY <1>1, <1>2 DEF Transitive
<1> QED
  BY <1>3 DEF Loop

LEMMA WorkKeepsLoop ==
    ASSUME TypeOK, Loop, NEW i \in Item, WorkOne(i) PROVE Loop'
<1>1. i \in left /\ i \in cands /\ i \notin worked
  BY DEF WorkOne, Turn, Foremost, TypeOK, Loop
<1>2. /\ i \notin claimed /\ i \notin blocked
      /\ left' = left \ {i} /\ worked' = worked \cup {i}
      /\ claimed' = claimed \cup Transitive(R, cands, i)
      /\ UNCHANGED <<content, blocked, cands, peers>>
  BY DEF WorkOne, Turn, Claims, LoopOnly, worldVars, readVars
<1>3. R' = R
  BY <1>2 DEF R
<1>4. \A j : Reach(R, cands, j)' = Reach(R, cands, j)
             /\ Transitive(R, cands, j)' = Transitive(R, cands, j)
  BY <1>2, <1>3
<1>5. blocked' = Blocked(R, cands, peers)'
  BY <1>2, <1>3 DEF Loop
<1>6. worked' \cap left' = {} /\ worked' \cap blocked' = {}
  BY <1>1, <1>2 DEF Loop
<1>7. Reach(R, cands, i) \cap worked = {}
  BY <1>1, <1>2, Unclaimed
<1>8. ASSUME NEW w \in worked' PROVE Reach(R, cands, w) \cap worked' = {w}
  <2>1. CASE w = i
    BY <2>1, <1>1, <1>2, <1>7, ReachSelf
  <2>2. CASE w \in worked
    <3>1. i \notin Reach(R, cands, w)
      <4>1. w \in cands
        BY <2>2 DEF TypeOK
      <4> SUFFICES ASSUME i \in Reach(R, cands, w) PROVE FALSE
        OBVIOUS
      <4>2. w \in Reach(R, cands, i)
        BY <4>1, Symmetry, ReachBack
      <4> QED
        BY <4>2, <2>2, <1>7
    <3>2. Reach(R, cands, w) \cap worked = {w}
      BY <2>2 DEF Loop
    <3> QED
      BY <3>1, <3>2, <1>2
  <2> QED
    BY <2>1, <2>2, <1>2
<1>9. \A w \in worked' : Transitive(R, cands, w) \subseteq claimed'
  BY <1>2 DEF Loop
<1>10. ASSUME NEW j \in claimed' PROVE \E w \in worked' : j \in Reach(R, cands, w)
  <2>1. CASE j \in claimed
    BY <2>1, <1>2 DEF Loop
  <2>2. CASE j \in Transitive(R, cands, i)
    BY <2>2, <1>2 DEF Transitive
  <2> QED
    BY <2>1, <2>2, <1>2
<1>11. \A j \in cands' \ left' : j \in blocked' \cup claimed' \cup worked'
  BY <1>2 DEF Loop
<1> QED
  BY <1>4, <1>5, <1>6, <1>8, <1>9, <1>10, <1>11 DEF Loop

\* A candidate passed over: claimed, or blocked.
LEMMA PassKeepsLoop ==
    ASSUME TypeOK, Loop, NEW i \in Item, Collapsed(i) \/ BlockOne(i) PROVE Loop'
<1>1. /\ i \in claimed \cup blocked
      /\ left' = left \ {i} /\ UNCHANGED <<content, blocked, cands, peers, worked, claimed>>
  BY DEF Collapsed, BlockOne, Turn, LoopOnly, worldVars, readVars
<1>2. R' = R
  BY <1>1 DEF R
<1>3. \A j : Reach(R, cands, j)' = Reach(R, cands, j)
             /\ Transitive(R, cands, j)' = Transitive(R, cands, j)
  BY <1>1, <1>2
<1>4. blocked' = Blocked(R, cands, peers)'
  BY <1>1, <1>2 DEF Loop
<1> QED
  BY <1>1, <1>3, <1>4 DEF Loop

LEMMA GateStartsLoop ==
    ASSUME TypeOK, LoopInv, Gate PROVE Loop'
<1>1. /\ worked' = {} /\ claimed' = {} /\ left' = cands
      /\ blocked' = Blocked(R, cands, peers)
      /\ UNCHANGED <<content, cands, peers>>
  BY DEF Gate, LoopInv, BlockedBy, worldVars, readVars
<1>2. R' = R
  BY <1>1 DEF R
<1>3. blocked' = Blocked(R, cands, peers)'
  BY <1>1, <1>2
<1> QED
  BY <1>1, <1>3 DEF Loop

\* Nothing but the loop changes what the loop is about.
LEMMA OthersKeepLoop ==
    ASSUME Loop, UNCHANGED <<content, cands, peers, blocked, left, claimed, worked>>
    PROVE  Loop'
BY DEF Loop, R

LEMMA InitLoop == Init => LoopInv
BY DEF Init, LoopInv

LEMMA NextLoop == TypeOK /\ LoopInv /\ [Next]_vars => LoopInv'
<1> SUFFICES ASSUME TypeOK, LoopInv, [Next]_vars PROVE LoopInv'
  OBVIOUS
<1>1. CASE ScanStart \/ ScanEnd \/ Restart
  BY <1>1 DEF ScanStart, ScanEnd, Restart, Forget, Fresh, LoopInv
<1>2. ASSUME ClientFails \/ ListItems \/ ClientDone \/ \E i \in Item : ReadItem(i)
      PROVE  LoopInv'
  <2>1. sAt # "work" /\ sAt' # "work" /\ UNCHANGED <<worked, claimed>>
    BY <1>2
    DEF ClientFails, ListItems, ClientDone, ReadItem, ReadOnly, loopVars
  <2> QED
    BY <2>1 DEF LoopInv
<1>3. CASE Gate
  BY <1>3, GateStartsLoop DEF LoopInv, Gate
<1>4. ASSUME NEW i \in Item, Collapsed(i) \/ BlockOne(i) \/ WorkOne(i) PROVE LoopInv'
  <2>1. sAt = "work" /\ sAt' = "work"
    BY <1>4 DEF Collapsed, BlockOne, WorkOne, Turn, LoopOnly
  <2>2. Loop
    BY <2>1 DEF LoopInv
  <2>3. Loop'
    BY <1>4, <2>2, PassKeepsLoop, WorkKeepsLoop
  <2> QED
    BY <2>1, <2>3 DEF LoopInv
<1>5. ASSUME \/ Tick \/ UNCHANGED vars
             \/ \E i \in Item : Recategorise(i) \/ Completes(i) \/ File(i) \/ Ignore(i)
      PROVE  LoopInv'
  <2>1. UNCHANGED <<sAt, content, cands, peers, blocked, left, claimed, worked>>
    BY <1>5
    DEF Tick, vars, Recategorise, Completes, File, Ignore, worldVars, scanVars, readVars,
        loopVars
  <2> QED
    BY <2>1, OthersKeepLoop DEF LoopInv
<1> QED
  BY <1>1, <1>2, <1>3, <1>4, <1>5 DEF Next, Scan

LEMMA LoopAlways == Spec => [](TypeOK /\ LoopInv)
<1> DEFINE Inv == TypeOK /\ LoopInv
<1>1. Init => Inv
  BY InitType, InitLoop
<1>2. Inv /\ [Next]_vars => Inv'
  BY NextType, NextLoop
<1> QED
  BY <1>1, <1>2, PTL DEF Spec

-----------------------------------------------------------------------------
(* What the loop promises *)

LEMMA LoopUnit == TypeOK /\ LoopInv => OneUnitPerPayload
<1> SUFFICES ASSUME TypeOK, Loop, NEW i \in cands \ left
             PROVE  IF i \in blocked THEN Reach(R, cands, i) \cap worked = {}
                    ELSE \E w \in Reach(R, cands, i) : Reach(R, cands, i) \cap worked = {w}
  BY DEF LoopInv, OneUnitPerPayload
<1>1. CASE i \in blocked
  <2> SUFFICES ASSUME NEW w \in Reach(R, cands, i), w \in worked PROVE FALSE
    BY <1>1
  <2>1. w \in cands
    BY DEF TypeOK
  <2>2. i \in Reach(R, cands, w)
    BY Symmetry, ReachBack
  <2>3. w \in Blocked(R, cands, peers)
    BY <1>1, <2>1, <2>2, Symmetry, BlockedWhole DEF Loop
  <2> QED
    BY <2>3 DEF Loop
<1>2. CASE i \notin blocked /\ i \in worked
  BY <1>2, ReachSelf DEF Loop
<1>3. CASE i \notin blocked /\ i \in claimed
  <2>1. PICK w \in worked : i \in Reach(R, cands, w)
    BY <1>3 DEF Loop
  <2>2. w \in cands
    BY DEF TypeOK
  <2>3. Reach(R, cands, i) = Reach(R, cands, w)
    BY <2>1, <2>2, Symmetry, ReachSame
  <2>4. Reach(R, cands, w) \cap worked = {w} /\ w \in Reach(R, cands, w)
    BY <2>2, ReachSelf DEF Loop
  <2> QED
    BY <1>3, <2>3, <2>4
<1> QED
  BY <1>1, <1>2, <1>3 DEF Loop

LEMMA LoopOwned == TypeOK /\ LoopInv => OwnedIsBlocked
<1> SUFFICES ASSUME TypeOK, LoopInv, NEW i \in worked,
                    NEW d \in Reach(R, cands, i), d \in Direct(R, cands, peers)
             PROVE  FALSE
  BY DEF OwnedIsBlocked
<1>1. Loop
  BY DEF LoopInv
<1>2. i \in cands
  BY DEF TypeOK
<1>3. i \in Blocked(R, cands, peers)
  BY <1>2, Symmetry, BlockedTouched
<1> QED
  BY <1>1, <1>3 DEF Loop

\* However the candidates overlap, each payload a scan has treated was blocked as
\* a whole or worked on through exactly one of its candidates.
THEOREM OneUnitPerPayloadHolds == Spec => []OneUnitPerPayload
BY LoopAlways, LoopUnit, PTL

\* No scan works on a candidate that a chain of candidates, however long, links
\* with a torrent the scan has read and that has an owner.
THEOREM OwnedIsBlockedHolds == Spec => []OwnedIsBlocked
BY LoopAlways, LoopOwned, PTL

-----------------------------------------------------------------------------
(* Who a block names *)

\* A set of numbers that is not empty has a least one.
LEMMA HasLeast ==
    ASSUME NEW S \in SUBSET Nat, S # {} PROVE \E m \in S : \A n \in S : m <= n
<1>1. \E m \in S : \A n \in S : ~ (n < m)
  <2>1. PICK m \in S : \A n \in S : <<n, m>> \notin OpToRel(<, Nat)
    BY WFMin, NatLessThanWellFounded, Zenon
  <2>2. \A n \in S : ~ (n < m)
    BY <2>1, Zenon DEF OpToRel
  <2> QED
    BY <2>2, Zenon
<1> QED
  BY <1>1

\* Of items that were read, some was read first.
LEMMA ForemostExists ==
    ASSUME rank \in [Item -> Nat], NEW S \in SUBSET Item, S # {}
    PROVE  Foremost(S) # {} /\ Foremost(S) \subseteq S
<1> DEFINE N == {rank[i] : i \in S}
<1>1. N \in SUBSET Nat /\ N # {}
  OBVIOUS
<1>2. PICK m \in N : \A n \in N : m <= n
  BY <1>1, HasLeast
<1>3. PICK i \in S : m = rank[i]
  OBVIOUS
<1>4. \A j \in S : rank[i] <= rank[j]
  BY <1>2, <1>3
<1> QED
  BY <1>4 DEF Foremost

\* A candidate that overlaps a peer itself is named after peers it overlaps.
LEMMA NamedOwns ==
    ASSUME ReadType, NEW d \in Direct(R, cands, peers)
    PROVE  /\ Named(d) # {} /\ Named(d) \subseteq peers
           /\ \A p \in Named(d) : <<p, d>> \in R
<1>1. Owners(R, peers, d) # {} /\ Owners(R, peers, d) \subseteq peers
      /\ \A p \in Owners(R, peers, d) : <<p, d>> \in R
  BY DEF Direct, Owners
<1>2. Owners(R, peers, d) \in SUBSET Item
  BY <1>1 DEF ReadType
<1>3. Named(d) # {} /\ Named(d) \subseteq Owners(R, peers, d)
  BY <1>1, <1>2, ForemostExists DEF Named, ReadType
<1> QED
  BY <1>1, <1>3

\* What the gate writes down for a blocked candidate.
LEMMA CauseOwns ==
    ASSUME ReadType, NEW i \in Blocked(R, cands, peers)
    PROVE  /\ Cause(i) # {} /\ Cause(i) \subseteq peers
           /\ \A p \in Cause(i) : \E d \in Reach(R, cands, i) : <<p, d>> \in R
<1>0. i \in cands
  BY DEF Blocked
<1>1. CASE i \in Direct(R, cands, peers)
  <2>1. Cause(i) = Named(i)
    BY <1>1 DEF Cause
  <2>2. i \in Reach(R, cands, i)
    BY <1>0, ReachSelf
  <2> QED
    BY <1>1, <2>1, <2>2, NamedOwns
<1>2. CASE i \notin Direct(R, cands, peers)
  <2> DEFINE Leads == {d \in Direct(R, cands, peers) : i \in Reach(R, cands, d)}
  <2>1. Cause(i) = UNION {Named(d) : d \in Foremost(Leads)}
    BY <1>2 DEF Cause
  <2>2. Leads # {}
    BY DEF Blocked
  <2>3. Leads \in SUBSET Item
    BY DEF Direct, ReadType
  <2>4. Foremost(Leads) # {} /\ Foremost(Leads) \subseteq Leads
    BY <2>2, <2>3, ForemostExists DEF ReadType
  <2>5. ASSUME NEW d \in Foremost(Leads)
        PROVE  /\ d \in Reach(R, cands, i)
               /\ Named(d) # {} /\ Named(d) \subseteq peers
               /\ \A p \in Named(d) : <<p, d>> \in R
    <3>1. d \in Direct(R, cands, peers) /\ i \in Reach(R, cands, d)
      BY <2>4
    <3>2. d \in cands
      BY <3>1 DEF Direct
    <3>3. d \in Reach(R, cands, i)
      BY <3>1, <3>2, Symmetry, ReachBack
    <3> QED
      BY <3>1, <3>3, NamedOwns
  <2> HIDE DEF Leads
  <2> QED
    BY <2>1, <2>4, <2>5
<1> QED
  BY <1>1, <1>2

\* Between two loops nothing is blocked, so no block outlives what it was about.
CauseInv == CauseIsOwner /\ (sAt # "work" => blocked = {})

LEMMA GateNamesOwners == ASSUME TypeOK, Gate PROVE CauseIsOwner'
<1>1. ReadType
  BY TypeParts
<1>2. /\ blocked' = Blocked(R, cands, peers)
      /\ UNCHANGED <<content, cands, peers>>
  BY DEF Gate, BlockedBy, worldVars, readVars
<1>3. cause' = [i \in Item |-> IF i \in cands THEN Cause(i) ELSE {}]
  BY DEF Gate
<1>4. R' = R
  BY <1>2 DEF R
<1> SUFFICES ASSUME NEW i \in Blocked(R, cands, peers)
             PROVE  /\ cause'[i] # {} /\ cause'[i] \subseteq peers
                    /\ \A p \in cause'[i] : \E d \in Reach(R, cands, i) : <<p, d>> \in R
  BY <1>2, <1>4 DEF CauseIsOwner
<1>5. i \in cands /\ i \in Item
  BY <1>1 DEF Blocked, ReadType
<1>6. cause'[i] = Cause(i)
  BY <1>3, <1>5, Zenon
<1> QED
  BY <1>1, <1>6, CauseOwns

\* Nothing but the gate changes what a block names.
LEMMA OthersKeepCause ==
    ASSUME CauseIsOwner, UNCHANGED <<content, cands, peers, blocked, cause>>
    PROVE  CauseIsOwner'
BY DEF CauseIsOwner, R

LEMMA InitCause == Init => CauseInv
BY DEF Init, CauseInv, CauseIsOwner

LEMMA NextCause == TypeOK /\ CauseInv /\ [Next]_vars => CauseInv'
<1> SUFFICES ASSUME TypeOK, CauseInv, [Next]_vars PROVE CauseInv'
  OBVIOUS
<1>1. CASE ScanStart \/ ScanEnd \/ Restart
  <2>1. blocked' = {}
    BY <1>1 DEF ScanStart, ScanEnd, Restart, Forget, Fresh
  <2> QED
    BY <2>1 DEF CauseInv, CauseIsOwner
<1>2. ASSUME ClientFails \/ ListItems \/ ClientDone \/ \E i \in Item : ReadItem(i)
      PROVE  CauseInv'
  <2>1. sAt # "work" /\ blocked' = blocked
    BY <1>2
    DEF ClientFails, ListItems, ClientDone, ReadItem, ReadOnly, loopVars
  <2>2. blocked' = {}
    BY <2>1 DEF CauseInv
  <2> QED
    BY <2>2 DEF CauseInv, CauseIsOwner
<1>3. CASE Gate
  <2>1. sAt' = "work"
    BY <1>3 DEF Gate
  <2> QED
    BY <1>3, <2>1, GateNamesOwners DEF CauseInv
<1>4. ASSUME NEW i \in Item, Collapsed(i) \/ BlockOne(i) \/ WorkOne(i) PROVE CauseInv'
  <2>1. UNCHANGED <<sAt, content, cands, peers, blocked, cause>>
    BY <1>4 DEF Collapsed, BlockOne, WorkOne, LoopOnly, worldVars, readVars
  <2> QED
    BY <2>1, OthersKeepCause DEF CauseInv
<1>5. ASSUME \/ Tick \/ UNCHANGED vars
             \/ \E i \in Item : Recategorise(i) \/ Completes(i) \/ File(i) \/ Ignore(i)
      PROVE  CauseInv'
  <2>1. UNCHANGED <<sAt, content, cands, peers, blocked, cause>>
    BY <1>5
    DEF Tick, vars, Recategorise, Completes, File, Ignore, worldVars, scanVars, readVars,
        loopVars
  <2> QED
    BY <2>1, OthersKeepCause DEF CauseInv
<1> QED
  BY <1>1, <1>2, <1>3, <1>4, <1>5 DEF Next, Scan

\* Whatever the chain that leads to it, a blocked candidate names a torrent that has
\* an owner and whose content that chain links with it: the block can be explained.
THEOREM CauseIsOwnerHolds == Spec => []CauseIsOwner
<1>1. Init => TypeOK /\ CauseInv
  BY InitType, InitCause
<1>2. TypeOK /\ CauseInv /\ [Next]_vars => (TypeOK /\ CauseInv)'
  BY NextType, NextCause
<1>3. CauseInv => CauseIsOwner
  BY DEF CauseInv
<1> QED
  BY <1>1, <1>2, <1>3, PTL DEF Spec
=============================================================================
