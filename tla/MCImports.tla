------------------------------ MODULE MCImports ------------------------------
(* Small instances of Imports. *)
EXTENDS Imports

None == [e \in Events |-> 0]
Once == [None EXCEPT !["want"] = 1]
Twice == [None EXCEPT !["want"] = 2]
DumpCase(k, d, b) == [kind |-> k, dumps |-> d, budget |-> b]
Case(k, b) == DumpCase(k, {}, b)

\* A plan that rewrites is not cut here: what it leaves in the scratch directory is read again.
AllCases ==
    {Case("disc", [Once EXCEPT !["crash"] = 1, !["fail"] = 1]),
     Case("disc", [Once EXCEPT !["cancel"] = 1, !["lag"] = 1]),
     Case("disc", [Once EXCEPT !["fail"] = 1, !["retry"] = 1]),
     Case("disc", [Once EXCEPT !["error"] = 1, !["crash"] = 1]),
     Case("disc", [Once EXCEPT !["drop"] = 1]),
     Case("file", [Twice EXCEPT !["crash"] = 1, !["fail"] = 1, !["error"] = 1, !["retry"] = 1]),
     Case("zip", [Twice EXCEPT !["crash"] = 2, !["fail"] = 1, !["retry"] = 1]),
     Case("rewrite", [Twice EXCEPT !["fail"] = 2, !["retry"] = 2, !["drop"] = 1]),
     DumpCase("disc", {2}, Twice),
     DumpCase("disc", {2}, [Once EXCEPT !["fail"] = 1]),
     DumpCase("file", {1}, [Twice EXCEPT !["crash"] = 1, !["fail"] = 1, !["retry"] = 1]),
     DumpCase("zip", {1}, [Twice EXCEPT !["crash"] = 1, !["fail"] = 1]),
     DumpCase("rewrite", {1}, [Twice EXCEPT !["fail"] = 1, !["retry"] = 1, !["drop"] = 1])}

=============================================================================
