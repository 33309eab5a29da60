----------------------------- MODULE MCSources -----------------------------
(* Small instances of Sources: two platforms, roms 1 and 2 on the first, 3 on the second. *)
EXTENDS Sources

OnTwo  == [r \in Roms |-> IF r = 3 THEN 2 ELSE 1]
\* The first torrent fits platform 1, or 2 when only rom 3 is live; its second file fits
\* two roms, or one only nearly.
Named  == [t \in Torrents |-> IF t = "t1" THEN <<{1, 3}, {1, 2}>> ELSE <<{1}, {}>>]
Like   == [t \in Torrents |-> IF t = "t1" THEN <<{}, {3}>> ELSE <<{2}, {2}>>]
Real   == [t \in Torrents |-> <<1, 2>>]
Kind   == [f \in Drops |-> IF f \in {"a", "b", "c"} THEN "torrent" ELSE IF f = "x" THEN "junk" ELSE "magnet"]
Of     == [f \in Drops |-> IF f \in {"a", "c", "m", "x"} THEN "t1" ELSE "t2"]
NoHint == [t \in Torrents |-> None]
Hinted == [t \in Torrents |-> 1]

Case(drops, hint, roms, loads, asks, spent) ==
    [drops |-> drops, kind |-> Kind, of |-> Of, on |-> OnTwo, named |-> Named, like |-> Like,
     content |-> Real, hint |-> hint, live |-> roms, loads |-> loads, asks |-> asks,
     budget |-> [e \in Events |-> IF e \in DOMAIN spent THEN spent[e] ELSE 0]]

All == {1, 2, 3}

\* Files are judged and the catalogue changes while a source is mapped.
JudgedWhile == Case({"a"}, NoHint, All, {{1, 3}, All}, {}, [drop |-> 1, load |-> 2, judge |-> 2])
\* The user chooses meanwhile.
Chosen == Case({"a"}, NoHint, {1, 3}, {All}, {2, Ignore},
               [drop |-> 1, load |-> 1, bind |-> 2, judge |-> 1])
\* A source that waits for a DAT, with a platform suggested, switched off meanwhile.
Waiting == Case({"b"}, Hinted, {}, {{3}, All}, {Automatic}, [drop |-> 1, load |-> 2, toggle |-> 2, bind |-> 1])
\* A magnet, with calls that fail, a kill, and a DAT loaded meanwhile; then one that is removed.
Magnets == Case({"m"}, NoHint, {1, 3}, {}, {}, [drop |-> 1, call |-> 2, stop |-> 1, crash |-> 1])
MagnetLoaded == Case({"m"}, NoHint, {1, 3}, {All}, {}, [drop |-> 1, load |-> 1, call |-> 1, stop |-> 1])
Dropped == Case({"n"}, NoHint, {1, 3}, {}, {}, [drop |-> 1, call |-> 1, delete |-> 2])
\* Files that repeat a source, hold none, and cannot be read or moved at first.
Repeated == Case({"a", "c", "x"}, NoHint, {1, 3}, {}, {}, [drop |-> 3, read |-> 1, move |-> 1])
\* Sources removed while their jobs are queued or run, and their ids given again.
Removed == Case({"a", "b"}, NoHint, {1, 3}, {}, {2}, [drop |-> 2, delete |-> 1, bind |-> 1])
RemovedLoaded == Case({"a", "b"}, NoHint, {1, 3}, {All}, {}, [drop |-> 2, delete |-> 1, load |-> 1])
\* Kills while jobs run.
Killed == Case({"a"}, NoHint, {1, 3}, {All}, {2}, [drop |-> 1, load |-> 1, bind |-> 1, crash |-> 1])
JudgedKilled == Case({"a"}, NoHint, {1, 3}, {All}, {}, [drop |-> 1, load |-> 1, judge |-> 1, crash |-> 1])

AllCases == {JudgedWhile, Chosen, Waiting, Magnets, MagnetLoaded, Dropped, Repeated, Removed,
             RemovedLoaded, Killed, JudgedKilled}
=============================================================================
