------------------------------ MODULE WholeStore ------------------------------
(***************************************************************************)
(* What the database file of mistarr-server promises, whatever its files   *)
(* on the card look like: one whole store, that commits whole items, keeps *)
(* what it acknowledged over a death of the process, and what has reached  *)
(* the card over a power cut.                                              *)
(***************************************************************************)
CONSTANT Items

VARIABLES up,     \* "down", "open" or "broken"
          acked,  \* the items the store holds
          firm    \* those a power cut cannot take

Init == /\ up = "down"
        /\ acked \in SUBSET Items
        /\ firm = acked

\* A start shows what was acknowledged, and may find that an item begun
\* before the crash has taken effect as a whole.
Open(F) ==
    /\ up = "down"
    /\ up' = "open"
    /\ acked' = acked \cup F
    /\ firm' \in SUBSET acked'
    /\ firm \subseteq firm'

Commit(F) ==
    /\ up = "open"
    /\ acked' = acked \cup F
    /\ firm' \in {firm, acked'}
    /\ UNCHANGED up

\* The writes a commit left in the WAL reach the file.
Harden ==
    /\ firm' = acked
    /\ UNCHANGED <<up, acked>>

Kill ==
    /\ up' = "down"
    /\ UNCHANGED <<acked, firm>>

Cut(L) ==
    /\ up' = "down"
    /\ L \cap firm = {}
    /\ acked' = acked \ L
    /\ UNCHANGED firm

\* Neither file could be opened again: nothing is served until a restart.
Break ==
    /\ up = "open"
    /\ up' = "broken"
    /\ UNCHANGED <<acked, firm>>

Next ==
    \/ \E F \in SUBSET Items : Open(F) \/ Commit(F) \/ Cut(F)
    \/ Harden
    \/ Kill
    \/ Break

Spec == Init /\ [][Next]_<<up, acked, firm>>
=============================================================================
