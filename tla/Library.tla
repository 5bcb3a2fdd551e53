------------------------------- MODULE Library -------------------------------
(***************************************************************************)
(* What the executor promises the owner of a library, with no executor in  *)
(* it: names, what is at each of them, and the undo record.                *)
(*                                                                         *)
(* The program puts a whole file at a free name; it may lose track of a    *)
(* file it put, but never records a name it did not put one at; it takes   *)
(* away only what is on record.  Everything else in the library belongs to *)
(* the user (DESIGN I2, 6.1, 6.7).                                         *)
(***************************************************************************)
EXTENDS Naturals

CONSTANTS Name

VARIABLES
    holds,   \* what is at each name: nothing, the user's file, or ours
    record,  \* the names the undo record claims
    put,     \* the names the program has ever put a file at
    edits    \* how often the user has changed what is at a name

vars == <<holds, record, put, edits>>

TypeOK == /\ holds \in [Name -> {"absent", "user", "ours"}]
          /\ record \subseteq Name
          /\ put \subseteq Name
          /\ edits \in Nat

Init == /\ holds \in [Name -> {"absent", "user"}]
        /\ record = {}
        /\ put = {}
        /\ edits = 0

\* The user, or another program working in the same library.
UserWrites(n) ==
    /\ \E f \in {"absent", "user"} : holds' = [holds EXCEPT ![n] = f]
    /\ edits' = edits + 1
    /\ UNCHANGED <<record, put>>

Place(n) ==
    /\ holds[n] = "absent"
    /\ holds' = [holds EXCEPT ![n] = "ours"]
    /\ put' = put \cup {n}
    /\ UNCHANGED <<record, edits>>

\* The record may gain names something was put at, and lose names.
Rerecord ==
    /\ record' \subseteq put
    /\ UNCHANGED <<holds, put, edits>>

Remove(n) ==
    /\ n \in record
    /\ holds[n] # "absent"
    /\ holds' = [holds EXCEPT ![n] = "absent"]
    /\ UNCHANGED <<record, put, edits>>

Next == \/ Rerecord
        \/ \E n \in Name : UserWrites(n) \/ Place(n) \/ Remove(n)

Spec == Init /\ [][Next]_vars

=============================================================================
