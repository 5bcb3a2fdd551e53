------------------------------- MODULE MCLogin -------------------------------
(* One goroutine of each kind. *)
EXTENDS Login, TLC

CONSTANTS scan, mark, save, test

MCRole == (scan :> "scan") @@ (mark :> "mark") @@ (save :> "save") @@ (test :> "test")
=============================================================================
