------------------------------- MODULE Overlap -------------------------------
(***************************************************************************)
(* The cross-seed gate (scan/predicate.go Overlap): which torrents are the *)
(* same payload.  Content is what the gate indexes of an item; two items   *)
(* overlap directly when a path, an inode or the fingerprint is the same,  *)
(* and are one payload when a chain of candidates links them.              *)
(***************************************************************************)
CONSTANTS
    Item,   \* torrents, in any client
    Path,   \* cleaned container paths
    Inode,  \* (dev, ino)
    Fingerprint   \* fingerprints

\* The paths of an item's wanted files, what stat says of a path (nothing when it
\* fails), the fingerprint; the items whose files all map into the container; those
\* with a manifest fit to file: wanted files, no incomplete marker, none in a library.
Content == [paths : [Item -> SUBSET Path], ino : [Path -> SUBSET Inode],
            fp : [Item -> Fingerprint], mapped : SUBSET Item, fit : SUBSET Item]

Inodes(c, i) == UNION {c.ino[p] : p \in c.paths[i]}

\* The three legs of the gate, united: the items that would share a bucket.
Shares(c) ==
    {e \in Item \X Item :
        \/ c.paths[e[1]] \cap c.paths[e[2]] # {}
        \/ Inodes(c, e[1]) \cap Inodes(c, e[2]) # {}
        \/ c.fp[e[1]] = c.fp[e[2]]}

\* peersOf: the other candidates of C that overlap i directly.
Peers(R, C, i) == {j \in C : j # i /\ <<i, j>> \in R}

Closed(R, C, S) == \A k \in S, j \in C : <<k, j>> \in R => j \in S

\* i and every candidate of C that a chain of overlaps links with i: the least
\* set that has i and is closed.
Reach(R, C, i) == {j \in C : \A S \in SUBSET C : i \in S /\ Closed(R, C, S) => j \in S}

Transitive(R, C, i) == Reach(R, C, i) \ {i}

\* The peers of P that overlap i directly.
Owners(R, P, i) == {p \in P : <<p, i>> \in R}

\* addPeers, first half: what overlaps a peer itself.
Direct(R, C, P) == {i \in C : Owners(R, P, i) # {}}

\* addPeers: and what a chain links with that.
Blocked(R, C, P) == {i \in C : \E d \in Direct(R, C, P) : i \in Reach(R, C, d)}
=============================================================================
