----------------------------- MODULE MCScanPass -----------------------------
(* Constants of the runs of ScanPass. *)
EXTENDS ScanPass, TLC

\* Two clients: a and b in one, c in the other.
CONSTANTS a, b, c, p1, p2, p3, f1, f2, g1, g2, g3

TwoClients == [i \in Item |-> IF i = c THEN 2 ELSE 1]

\* Paths p1, p2, p3, inodes f1, f2, fingerprints g1, g2, g3.
Holds(x, y, z) == (a :> x @@ b :> y @@ c :> z)
Stat(x, y, z)  == (p1 :> x @@ p2 :> y @@ p3 :> z)

\* a and b have one fingerprint, b and c one path; p3 cannot be read.
Chain == [paths |-> Holds({p1}, {p2}, {p2, p3}), ino |-> Stat({f1}, {f2}, {}),
          fp |-> Holds(g1, g1, g2), mapped |-> Item, fit |-> Item]

\* a and b are one inode under two paths, b and c have one fingerprint.
Alias == [paths |-> Holds({p1}, {p2}, {p3}), ino |-> Stat({f1}, {f1}, {f2}),
          fp |-> Holds(g1, g2, g2), mapped |-> Item, fit |-> Item]

\* c cannot be mapped, b is not fit.
Partial == [Alias EXCEPT !.mapped = {a, b}, !.fit = {a, c}]

WholeContents == {Chain, Alias}
AllContents   == {Chain, Alias, Partial}
=============================================================================
