---------------------------- MODULE MCCoreLimits ----------------------------
(* Small instances of CoreLimits: which clients there are, and what disturbs them. *)
EXTENDS CoreLimits

Unset2   == [d \in Dirs |-> None]
Turtle   == [down |-> NoRate, up |-> 3, alt |-> 2]
Plain    == [down |-> NoRate, up |-> 3, alt |-> None]
Owners   == [c \in Clients |-> IF c = "c1" THEN Turtle ELSE Plain]
Separate == [a \in Addresses |-> IF a = "a1" THEN "c1" ELSE "c2"]
Calm     == [e \in Events |-> 0]
CoreTwo  == [Unset2 EXCEPT !["up"] = 2]
MenuTwo  == [Unset2 EXCEPT !["up"] = 2]

Case(local, menu, spent) ==
    [client |-> Separate, local |-> local, first |-> "a1", own |-> Owners, core |-> CoreTwo,
     menu |-> menu, pausing |-> TRUE, budget |-> [e \in Events |-> IF e \in DOMAIN spent THEN spent[e] ELSE 0]]

Remote == {Case({}, Unset2, [core |-> 2, fail |-> 2, restart |-> 1]),
           Case({}, MenuTwo, [core |-> 2, pause |-> 1, crash |-> 1, db |-> 1]),
           Case({}, Unset2, [core |-> 2, detect |-> 2, fail |-> 1]),
           Case({}, Unset2, [core |-> 1, detect |-> 2, crash |-> 1, db |-> 1]),
           Case({}, Unset2, [core |-> 2, detect |-> 2, fail |-> 1, day |-> 1])}
Board  == {Case({"a1"}, MenuTwo, [core |-> 2, stop |-> 1, resume |-> 1]),
           Case({"a1"}, Unset2, [core |-> 2, crash |-> 1, signal |-> 1]),
           Case({"a1"}, Unset2, [core |-> 2, restart |-> 1, refuse |-> 1, pause |-> 1]),
           Case({"a1"}, Unset2, [core |-> 2, detect |-> 1, fail |-> 1, stop |-> 1, signal |-> 1]),
           Case({"a1"}, Unset2, [core |-> 2, detect |-> 1, restart |-> 1, db |-> 1]),
           Case({"a1"}, Unset2, [core |-> 1, restart |-> 1, stop |-> 1, crash |-> 1])}
AllCases == Remote \cup Board
=============================================================================
