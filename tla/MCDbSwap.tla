------------------------------ MODULE MCDbSwap ------------------------------
(* Small instances of DbSwap. *)
EXTENDS DbSwap

OneWrite  == {"w1"}
TwoWrites == {"w1", "w2"}
OneImport == {"dat1"}
TwoImports == {"dat1", "dat2"}

Limit(c, t, e) == [crashes |-> c, torn |-> t, errors |-> e]
\* A recovery that is itself cut; both names lost twice; failures beside a crash.
Scenarios == {Limit(2, 1, 0), Limit(1, 2, 0), Limit(0, 1, 1), Limit(1, 0, 2)}
=============================================================================
