------------------------------- MODULE MCRoots -------------------------------
(* A small instance: a download root inside another one. *)
EXTENDS Roots, TLC

CONSTANTS main, r1, r2, outer, inner, films

\* Settings, library, client, scan, execute, fail, crash: which of them
\* meet in one behaviour.
MCBudget(b) == [k \in Events |->
    CASE k = "settings" -> b[1] [] k = "library" -> b[2] [] k = "client" -> b[3] [] k = "scan" -> b[4]
      [] k = "execute" -> b[5] [] k = "fail" -> b[6] [] k = "crash" -> b[7]]
MCBudgets == {MCBudget(b) : b \in {
    <<2, 1, 0, 0, 0, 0, 0>>, <<0, 2, 0, 0, 0, 0, 0>>, <<0, 1, 1, 0, 0, 1, 0>>, <<1, 0, 1, 0, 0, 0, 0>>,
    <<1, 0, 0, 1, 1, 0, 0>>, <<0, 1, 0, 1, 1, 0, 0>>, <<0, 0, 1, 1, 1, 0, 1>>, <<1, 0, 0, 1, 0, 1, 1>>}}
\* A restart, and nothing else.
MCRestart == {MCBudget(<<0, 0, 0, 0, 0, 0, 1>>)}

MCSymmetry == Permutations({r1, r2})
MCDepth == (outer :> 1) @@ (inner :> 2)
MCLinkable == {<<outer, films>>}
=============================================================================
