--------------------------- MODULE Overlap_proofs ---------------------------
(***************************************************************************)
(* What a chain of overlaps links: Reach is an equivalence on the          *)
(* candidates, so a payload is well defined, and a block covers all of it. *)
(***************************************************************************)
EXTENDS Overlap, TLAPS

\* R says the same of a pair either way round.
Symmetric(R) == \A k, j : <<k, j>> \in R => <<j, k>> \in R

\* A shared path, inode or fingerprint is shared both ways.
LEMMA SharesSymmetric == ASSUME NEW c PROVE Symmetric(Shares(c))
  BY DEF Symmetric, Shares

\* A candidate is linked with itself.
LEMMA ReachSelf ==
  ASSUME NEW R, NEW C, NEW i \in C PROVE i \in Reach(R, C, i)
  BY DEF Reach

\* What overlaps a linked candidate is linked.
LEMMA ReachClosed ==
  ASSUME NEW R, NEW C, NEW i PROVE Closed(R, C, Reach(R, C, i))
  <1> SUFFICES ASSUME NEW k \in Reach(R, C, i), NEW j \in C, <<k, j>> \in R,
                      NEW S \in SUBSET C, i \in S, Closed(R, C, S)
               PROVE  j \in S
    BY DEF Closed, Reach
  <1>1. k \in S
    BY DEF Reach
  <1> QED BY <1>1 DEF Closed

\* The set Reach is the least closed one with i.
LEMMA ReachLeast ==
  ASSUME NEW R, NEW C, NEW i, NEW S \in SUBSET C, i \in S, Closed(R, C, S)
  PROVE  Reach(R, C, i) \subseteq S
  BY DEF Reach

\* A chain that goes on from a linked candidate stays in the payload.
LEMMA ReachOn ==
  ASSUME NEW R, NEW C, NEW i, NEW j \in Reach(R, C, i)
  PROVE  Reach(R, C, j) \subseteq Reach(R, C, i)
  <1>1. Reach(R, C, i) \in SUBSET C
    BY DEF Reach
  <1> QED BY <1>1, ReachClosed, ReachLeast

\* A chain can be followed back.
LEMMA ReachBack ==
  ASSUME NEW R, Symmetric(R), NEW C, NEW i \in C, NEW j \in Reach(R, C, i)
  PROVE  i \in Reach(R, C, j)
  <1> DEFINE T == {k \in C : i \in Reach(R, C, k)}
  <1>1. i \in T
    BY ReachSelf
  <1>2. ASSUME NEW k \in T, NEW m \in C, <<k, m>> \in R PROVE m \in T
    <2>1. <<m, k>> \in R
      BY <1>2 DEF Symmetric
    <2>2. m \in Reach(R, C, m)
      BY ReachSelf
    <2>3. k \in Reach(R, C, m)
      BY <2>1, <2>2, ReachClosed DEF Closed
    <2>4. Reach(R, C, k) \subseteq Reach(R, C, m)
      BY <2>3, ReachOn
    <2> QED BY <2>4
  <1>3. Closed(R, C, T)
    BY <1>2 DEF Closed
  <1>4. Reach(R, C, i) \subseteq T
    BY <1>1, <1>3, ReachLeast
  <1> QED BY <1>4

\* Linked candidates are one payload.
LEMMA ReachSame ==
  ASSUME NEW R, Symmetric(R), NEW C, NEW i \in C, NEW j \in Reach(R, C, i)
  PROVE  Reach(R, C, j) = Reach(R, C, i)
  <1>1. i \in Reach(R, C, j)
    BY ReachBack
  <1> QED BY <1>1, ReachOn

\* A block covers a payload as a whole.
LEMMA BlockedWhole ==
  ASSUME NEW R, Symmetric(R), NEW C, NEW P, NEW i \in C, NEW j \in Reach(R, C, i),
         j \in Blocked(R, C, P)
  PROVE  i \in Blocked(R, C, P)
  <1>1. PICK d \in Direct(R, C, P) : j \in Reach(R, C, d)
    BY DEF Blocked
  <1>2. d \in C
    BY DEF Direct
  <1>3. Reach(R, C, j) = Reach(R, C, d)
    BY <1>1, <1>2, ReachSame
  <1>4. i \in Reach(R, C, j)
    BY ReachBack
  <1> QED BY <1>1, <1>3, <1>4 DEF Blocked

\* A payload that touches a peer is blocked.
LEMMA BlockedTouched ==
  ASSUME NEW R, Symmetric(R), NEW C, NEW P, NEW i \in C, NEW d \in Direct(R, C, P),
         d \in Reach(R, C, i)
  PROVE  i \in Blocked(R, C, P)
  BY ReachBack DEF Blocked
=============================================================================
