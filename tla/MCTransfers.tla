----------------------------- MODULE MCTransfers -----------------------------
(* Small instances of Transfers. *)
EXTENDS Transfers

One == {"r1"}
Two == {"r1", "r2"}

\* The file of the only rom, and a file for each of two.
OnlyFile   == [r \in One |-> r]
OwnFiles   == [r \in Two |-> r]
=============================================================================
