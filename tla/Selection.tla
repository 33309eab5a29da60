----------------------------- MODULE Selection -----------------------------
(***************************************************************************)
(* One game per group: mistarr-core/src/select.rs, with the variants        *)
(* db/titles/recompute.rs hands it.                                         *)
(*                                                                         *)
(* A variant is what its name says of it.  Preferences hide some flags and  *)
(* order what is left; the lowest rank is the pick.  A name stands for its  *)
(* place among all names, shortest first, then in text order.               *)
(***************************************************************************)
EXTENDS Integers, Sequences, FiniteSets

\* What a name tells, and what the DAT says of the dump.
IsVariant(v) ==
    /\ v.id \in Int /\ v.name \in Int /\ v.revision \in Int
    /\ v.bad \in BOOLEAN
    /\ IsFiniteSet(v.regions) /\ IsFiniteSet(v.languages) /\ IsFiniteSet(v.flags)

\* The flags that rank a variant last rather than hide it.
Unlicensed == {"unl", "pirate"}

Hidden(v, p) == v.flags \cap p.hide # {}

\* The place of v's best region among those preferred, one past them without any.
RegionRank(v, p) ==
    LET places == {i \in 1..Len(p.regions) : p.regions[i] \in v.regions}
    IN  IF places = {} THEN Len(p.regions) + 1
        ELSE CHOOSE i \in places : \A j \in places : i <= j

\* A variant without languages claims none: between a match and a mismatch.
LanguageRank(v, p) ==
    IF v.languages = {} THEN 1 ELSE IF v.languages \cap p.languages # {} THEN 0 ELSE 2

\* The rank of v under p, lowest first: each part decides where those before it are equal.
Rank(v, p) ==
    <<IF v.flags \cap Unlicensed # {} THEN 1 ELSE 0,
      RegionRank(v, p),
      LanguageRank(v, p),
      IF p.latest THEN 0 - v.revision ELSE v.revision,
      IF v.bad THEN 1 ELSE 0,
      v.name,
      v.id>>

\* The order of ranks.
Below(a, b) == \E i \in 1..7 : a[i] < b[i] /\ \A j \in 1..(i - 1) : a[j] = b[j]

Better(v, w, p) == Below(Rank(v, p), Rank(w, p))

\* The pick of a group, alone in its set; none when every variant is hidden.
Select(group, p) ==
    {v \in group : ~Hidden(v, p) /\ \A w \in group : ~Hidden(w, p) => ~Better(w, v, p)}

\* The parent elected for a group without one: its pick, else its lowest id.
Elected(group, p) ==
    LET picks == Select(group, p)
    IN  IF picks # {} THEN (CHOOSE v \in picks : TRUE).id
        ELSE (CHOOSE v \in group : \A w \in group : v.id <= w.id).id
=============================================================================
