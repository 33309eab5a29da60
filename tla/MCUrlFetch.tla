----------------------------- MODULE MCUrlFetch -----------------------------
(* Small instances of UrlFetch: two names, an upload or retry beside two fetches. *)
EXTENDS UrlFetch

TwoNames == {1, 2}
Brings   == [t \in Tokens |-> IF t = "t1" THEN "c1" ELSE "c2"]
Kinds    == [t \in Tokens |-> IF t = "t1" THEN "dat" ELSE "torrent"]

Case(loads, spent) ==
    [loads |-> loads, budget |-> [e \in FolderEvents |-> IF e \in DOMAIN spent THEN spent[e] ELSE 0]]

\* Files by hand, replaced, removed and imported while imports and enqueues fail; then killed.
ByHand       == Case({"c3"}, [drop |-> 2, replace |-> 1, remove |-> 1, fail |-> 1, refuse |-> 1])
ByHandKilled == Case({"c3"}, [drop |-> 2, io |-> 1, fail |-> 1, crash |-> 1])
\* Two uploads of the same name, with calls that fail; then broken off and killed.
Uploaded     == Case({}, [upload |-> 2, io |-> 1])
UploadKilled == Case({"c4"}, [upload |-> 2, leave |-> 1, crash |-> 1])
\* A rejected file taken back, deleted meanwhile; then twice.
Retried      == Case({}, [upload |-> 1, retry |-> 1, fail |-> 1, remove |-> 1])
RetriedTwice == Case({}, [drop |-> 1, retry |-> 2, fail |-> 1])
\* Fetches, cancelled, failing, short of memory and of room, and killed.
Cancelled    == Case({"c1"}, [post |-> 2, cancel |-> 1, refuse |-> 1])
Short        == Case({"c1"}, [post |-> 1, memory |-> 2, full |-> 1, server |-> 1, cancel |-> 1])
FetchKilled  == Case({"c1"}, [post |-> 2, crash |-> 1])
ShortKilled  == Case({"c1"}, [post |-> 1, crash |-> 1, memory |-> 1, io |-> 1])
\* A fetch beside a file of the same name.
Beside       == Case({"c1"}, [post |-> 1, drop |-> 1, cancel |-> 1])

AllCases == {ByHand, ByHandKilled, Uploaded, UploadKilled, Retried, RetriedTwice, Cancelled, Short,
             FetchKilled, ShortKilled, Beside}
=============================================================================
