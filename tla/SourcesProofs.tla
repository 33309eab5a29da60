---------------------------- MODULE SourcesProofs ----------------------------
(***************************************************************************)
(* Sources keeps its types, the user's last choice of a platform stands,    *)
(* and what an import proved of a file outlives every mapping.              *)
(*                                                                         *)
(* The invariant says of each row how its parts belong together (Good): a   *)
(* platform, a choice that waits and a proof need a file list, a proof is   *)
(* what the file is, a row that resolves has none of them; that the last    *)
(* choice is stored or waits (Stands); and that the source a re-map works   *)
(* on is still on the platform the job read, or gone (OnPlatform), though   *)
(* the job lets go of the row between its transactions: only another job    *)
(* of the lane moves a bound source, and they wait.                         *)
(*                                                                         *)
(* First what each operator does to a row, then what each step does to the  *)
(* tables.                                                                  *)
(***************************************************************************)
EXTENDS Sources, WellFoundedInduction, TLAPS

-----------------------------------------------------------------------------
(* The types *)

RowType ==
    [torrent : Torrents, origin : Drops, state : {"resolving", "unbound", "bound", "disabled"},
     platform : Platforms \cup {None}, user : BOOLEAN, pending : Choices \cup {None},
     client : Torrents \cup {None}, list : Torrents \cup {None},
     match : [Files -> Roms \cup {None}], proof : SUBSET Files,
     cand : SUBSET (Files \X Roms), bad : SUBSET (Files \X Roms), stamp : (SUBSET Roms) \cup {None}]

PieceType == [matches : SUBSET (Files \X (Roms \cup {None})),
              remove : SUBSET (Files \X Roms), add : SUBSET (Files \X Roms)]
PlanType  == [pieces : Seq(PieceType), stamp : SUBSET Roms]

\* What is proved of a file is what the file is.
Real(row) == \A i \in row.proof : row.match[i] = given.content[row.torrent][i]

\* A source: one with no file list is neither bound nor unbound, has no proof and no choice that
\* waits; one that still resolves has none, and an unbound one has no platform.
Good(row) ==
    /\ row \in RowType /\ Real(row)
    /\ row.platform # None \/ row.pending # None \/ row.proof # {} => row.list # None
    /\ row.state \in {"unbound", "bound"} => row.list # None
    /\ row.state = "bound" => row.platform # None
    /\ row.state = "unbound" => row.platform = None
    /\ row.state = "resolving" => row.list = None

\* The user's last choice is stored, or waits to be.
Stands(choice, row) ==
    choice # None =>
        /\ Good(row) /\ row.list # None /\ row.user = (choice # Automatic)
        /\ IF row.pending # None THEN row.pending = choice
           ELSE /\ choice \in Platforms => row.platform = choice
                /\ choice = Ignore => row.platform = None

\* What a row's proofs are worth in another: they stay, or their rom or platform is gone.
Outlive(row, new) ==
    \A i \in row.proof :
        \/ i \in new.proof /\ new.match[i] = row.match[i]
        \/ new.platform = None
        \/ row.match[i] \notin live \/ given.on[row.match[i]] # new.platform

\* Rows and choices.
RowsOK  == \A id \in Ids : rows[id] = None \/ Good(rows[id])
StandOK == \A id \in Ids : Stands(asked[id], rows[id])

TablesOK == rows \in [Ids -> RowType \cup {None}] /\ asked \in [Ids -> Choices \cup {None}]

FilesOK ==
    /\ given \in Cases /\ budget \in [Events -> Nat]
    /\ dir \in [Drops -> {"absent", "inbox", "loaded", "rejected"}] /\ seen \subseteq Drops
    /\ live \subseteq Roms

\* The background lane's job; a source that is mapped again stays on its platform meanwhile.
JobType ==
    [kind : {"none", "import", "bind", "remap"},
     at : {"none", "read", "place", "bind", "end", "next", "forget", "plan", "write"},
     arg : Drops \cup Platforms \cup {None}, id : Ids \cup {None},
     plan : PlanType \cup {None}, todo : SUBSET Ids]
Mapping == job.kind = "remap" /\ job.at \in {"forget", "plan", "write"}
OnPlatform ==
    Mapping => /\ job.id \in Ids /\ job.arg \in Platforms
               /\ rows[job.id] = None \/ rows[job.id].platform = job.arg
JobOK ==
    /\ job \in JobType
    /\ job.kind = "import" => job.arg \in Drops
    /\ At("remap", "write") => job.plan \in PlanType

LightOK ==
    /\ light \in [at : {"none", "add", "start", "record", "files", "stop", "unwant", "store"},
                  id : Ids \cup {None}, torrent : Torrents \cup {None}]
    /\ light.at # "none" => light.id \in Ids /\ light.torrent \in Torrents

IInv == FilesOK /\ TablesOK /\ RowsOK /\ StandOK /\ JobOK /\ OnPlatform /\ LightOK

-----------------------------------------------------------------------------
(* What is given *)

LEMMA GivenFacts ==
    ASSUME given \in Cases
    PROVE  /\ given.of \in [Drops -> Torrents] /\ given.on \in [Roms -> Platforms]
           /\ given.named \in [Torrents -> [Files -> SUBSET Roms]]
           /\ given.like \in [Torrents -> [Files -> SUBSET Roms]]
           /\ given.content \in [Torrents -> [Files -> Roms]]
           /\ given.hint \in [Torrents -> Platforms \cup {None}]
           /\ given.live \subseteq Roms /\ given.loads \subseteq SUBSET Roms
           /\ given.asks \subseteq Choices /\ given.budget \in [Events -> Nat]
           /\ given.drops \subseteq Drops
BY SourcesAssumption

LEMMA Constants ==
    /\ None \notin Platforms /\ None \notin Roms /\ None \notin Torrents /\ None \notin Choices
    /\ None \notin Ids /\ None \notin Nat
    /\ Ignore \in Choices /\ Automatic \in Choices /\ Platforms \subseteq Choices
    /\ Ignore # Automatic /\ Ignore \notin Platforms /\ Automatic \notin Platforms
    /\ Platforms \subseteq Nat /\ Roms \subseteq Nat /\ Ids \subseteq Nat
<1>1. MaxId \in Nat /\ None \notin Nat /\ Platforms \subseteq Nat /\ Roms \subseteq Nat
  BY SourcesAssumption
<1>2. Ids \subseteq Nat
  BY <1>1 DEF Ids
<1>3. Ignore \notin Platforms /\ Automatic \notin Platforms
  BY SourcesAssumption
<1> QED
  BY <1>1, <1>2, <1>3, SourcesAssumption DEF Choices

\* A set of numbers has a least one.
LEMMA LeastIn ==
    ASSUME NEW S, S \subseteq Nat, S # {}
    PROVE  Least(S) \in S
<1>1. PICK x \in S : \A y \in S : <<y, x>> \notin OpToRel(<, Nat)
  BY NatLessThanWellFounded, WFMin
<1>2. \A y \in S : x <= y
  <2> SUFFICES ASSUME NEW y \in S
               PROVE  x <= y
    OBVIOUS
  <2>1. x \in Nat /\ y \in Nat
    OBVIOUS
  <2>2. ~(y < x)
    BY <1>1, <2>1 DEF OpToRel
  <2> QED
    BY <2>1, <2>2
<1> QED
  BY <1>2 DEF Least

-----------------------------------------------------------------------------
(* Matching *)

LEMMA MatchType ==
    ASSUME given \in Cases, live \subseteq Roms, NEW t \in Torrents, NEW i \in Files, NEW p
    PROVE  Match(t, i, p) \in Roms \cup {None} /\ Fits(t, i, p) \subseteq Roms
<1>1. Fits(t, i, p) \subseteq Roms /\ Roms \subseteq Nat
  BY GivenFacts, Constants DEF Fits
<1> QED
  BY <1>1, LeastIn DEF Match

LEMMA GuessesType == \A t, p : Guesses(t, p) \subseteq Files \X Roms
BY DEF Guesses

LEMMA BestType ==
    ASSUME NEW t
    PROVE  Best(t) \in Platforms \cup {None}
<1> DEFINE most == {p \in Platforms : Enough(t, p) /\ \A q \in Platforms : Hits(t, q) <= Hits(t, p)}
<1>1. most \subseteq Platforms /\ Platforms \subseteq Nat
  BY Constants
<1>2. Best(t) = IF most = {} THEN None ELSE Least(most)
  BY DEF Best
<1> HIDE DEF most
<1> QED
  BY <1>1, <1>2, LeastIn

LEMMA SuggestedType ==
    ASSUME given \in Cases, NEW t \in Torrents
    PROVE  Suggested(t) \in Platforms \cup {None}
<1>1. given.hint[t] \in Platforms \cup {None}
  BY GivenFacts
<1> QED
  BY <1>1, BestType DEF Suggested

LEMMA StampType == ASSUME live \subseteq Roms, NEW p PROVE Stamp(p) \subseteq Roms
BY DEF Stamp

-----------------------------------------------------------------------------
(* What becomes of a row *)

\* A mapping to a platform.
LEMMA MappedRow ==
    ASSUME given \in Cases, live \subseteq Roms, NEW row \in RowType, Real(row), row.list # None,
           NEW p \in Platforms
    PROVE  /\ Good(Mapped(row, p)) /\ Mapped(row, p).torrent = row.torrent
           /\ Mapped(row, p).platform = p /\ Mapped(row, p).list = row.list
           /\ Mapped(row, p).user = row.user /\ Mapped(row, p).pending = row.pending
           /\ Outlive(row, Mapped(row, p))
<1> DEFINE kept  == {i \in row.proof : row.match[i] \in Stamp(p)}
           match == [i \in Files |-> IF i \in kept THEN row.match[i] ELSE Match(row.list, i, p)]
           cand  == {c \in Guesses(row.list, p) : c[1] \notin kept /\ c \notin row.bad}
           state == Then(row.state, "bound")
           new   == Mapped(row, p)
<1>1. /\ new = [row EXCEPT !.platform = p, !.stamp = Stamp(p), !.proof = kept, !.state = state,
                           !.match = match, !.cand = cand]
  BY DEF Mapped, RowType
<1>2. match \in [Files -> Roms \cup {None}]
  <2>1. row.list \in Torrents /\ row.match \in [Files -> Roms \cup {None}]
    BY DEF RowType
  <2> QED
    BY <2>1, MatchType
<1>3. cand \in SUBSET (Files \X Roms)
  BY GuessesType
<1>4. kept \in SUBSET Files /\ kept \subseteq row.proof
  BY DEF RowType
<1>5. state \in {"bound", "disabled"}
  BY DEF Then
<1>6. \A i \in kept : match[i] = row.match[i]
  BY <1>4
<1>7. \A i \in row.proof \ kept : row.match[i] \notin live \/ given.on[row.match[i]] # p
  BY DEF Stamp
<1>8. Stamp(p) \in SUBSET Roms
  BY StampType
<1> HIDE DEF kept, match, cand, state, new
<1>9. /\ new \in RowType /\ new.torrent = row.torrent /\ new.platform = p /\ new.list = row.list
      /\ new.user = row.user /\ new.pending = row.pending /\ new.proof = kept /\ new.match = match
      /\ new.state = state
  BY <1>1, <1>2, <1>3, <1>4, <1>5, <1>8 DEF RowType
<1>10. Real(new)
  BY <1>4, <1>6, <1>9 DEF Real
<1>11. Good(new)
  BY <1>5, <1>9, <1>10, Constants DEF Good
<1>12. Outlive(row, new)
  BY <1>4, <1>6, <1>7, <1>9 DEF Outlive
<1> QED
  BY <1>9, <1>11, <1>12 DEF new

\* None, with the candidates gone.
LEMMA UnmappedRow ==
    ASSUME NEW row \in RowType, Real(row), row.list # None
    PROVE  /\ Good(Unmapped(row)) /\ Unmapped(row).torrent = row.torrent
           /\ Unmapped(row).platform = None /\ Unmapped(row).list = row.list
           /\ Unmapped(row).user = row.user /\ Unmapped(row).pending = row.pending
           /\ Unmapped(row).state \in {"unbound", "disabled"}
<1> DEFINE state == Then(row.state, "unbound")
           new   == Unmapped(row)
<1>1. new = [row EXCEPT !.platform = None, !.cand = {}, !.state = state]
  BY DEF Unmapped, RowType
<1>2. state \in {"unbound", "disabled"}
  BY DEF Then
<1> HIDE DEF state, new
<1>3. /\ new \in RowType /\ new.torrent = row.torrent /\ new.platform = None /\ new.list = row.list
      /\ new.user = row.user /\ new.pending = row.pending /\ new.proof = row.proof
      /\ new.match = row.match /\ new.state = state
  BY <1>1, <1>2 DEF RowType
<1> QED
  BY <1>2, <1>3 DEF Good, Real, new

\* And with the user's choice, the matches and proofs too.
LEMMA ClearedRow ==
    ASSUME NEW row \in RowType, Real(row), row.list # None
    PROVE  /\ Good(Cleared(row)) /\ Cleared(row).torrent = row.torrent
           /\ Cleared(row).platform = None /\ Cleared(row).list = row.list
           /\ Cleared(row).state \in {"unbound", "disabled"}
<1> DEFINE half == Unmapped(row)
           new  == Cleared(row)
<1>1. /\ Good(half) /\ half.torrent = row.torrent /\ half.platform = None /\ half.list = row.list
      /\ half.state \in {"unbound", "disabled"} /\ half \in RowType
  BY UnmappedRow DEF Good
<1>2. new = [half EXCEPT !.match = Unmatched, !.proof = {}]
  BY DEF Cleared
<1>3. Unmatched \in [Files -> Roms \cup {None}]
  BY DEF Unmatched
<1> HIDE DEF half, new
<1>4. /\ new \in RowType /\ new.torrent = half.torrent /\ new.platform = None /\ new.list = half.list
      /\ new.proof = {} /\ new.state = half.state /\ new.pending = half.pending
  <2>1. new \in RowType
    <3> SUFFICES ASSUME NEW full \in RowType, NEW match \in [Files -> Roms \cup {None}]
                 PROVE  [full EXCEPT !.match = match, !.proof = {}] \in RowType
      BY <1>1, <1>2, <1>3
    <3> QED
      BY DEF RowType
  <2>2. new.torrent = half.torrent /\ new.platform = half.platform /\ new.list = half.list
    BY <1>1, <1>2 DEF RowType
  <2>3. new.proof = {} /\ new.state = half.state /\ new.pending = half.pending
    BY <1>1, <1>2 DEF RowType
  <2> QED
    BY <1>1, <2>1, <2>2, <2>3
<1> QED
  BY <1>1, <1>4 DEF Good, Real, new

\* Bound to the best platform, or to none.
LEMMA BestRow ==
    ASSUME given \in Cases, live \subseteq Roms, NEW row \in RowType, Real(row), row.list # None
    PROVE  /\ Good(BoundBest(row)) /\ BoundBest(row).torrent = row.torrent
           /\ BoundBest(row).pending = row.pending
           /\ Outlive(row, BoundBest(row))
<1>1. CASE Best(row.list) # None
  <2>1. Best(row.list) \in Platforms /\ BoundBest(row) = Mapped(row, Best(row.list))
    BY <1>1, BestType DEF BoundBest
  <2> QED
    BY <2>1, MappedRow
<1>2. CASE Best(row.list) = None
  <2>1. BoundBest(row) = Unmapped(row)
    BY <1>2 DEF BoundBest
  <2> QED
    BY <2>1, UnmappedRow DEF Outlive
<1> QED
  BY <1>1, <1>2

\* Bound again, to what is suggested.
LEMMA ReboundRow ==
    ASSUME given \in Cases, live \subseteq Roms, NEW row \in RowType, Real(row), row.list # None
    PROVE  /\ Good(Rebound(row)) /\ Rebound(row).torrent = row.torrent
           /\ Rebound(row).list = row.list /\ Rebound(row).user = row.user
           /\ Rebound(row).pending = row.pending /\ Outlive(row, Rebound(row))
<1>1. row.list \in Torrents
  BY DEF RowType
<1>2. CASE Suggested(row.list) # None
  <2>1. Suggested(row.list) \in Platforms /\ Rebound(row) = Mapped(row, Suggested(row.list))
    BY <1>1, <1>2, SuggestedType DEF Rebound
  <2> QED
    BY <2>1, MappedRow
<1>3. CASE Suggested(row.list) = None
  <2>1. Rebound(row) = Unmapped(row)
    BY <1>3 DEF Rebound
  <2> QED
    BY <2>1, UnmappedRow DEF Outlive
<1> QED
  BY <1>2, <1>3

\* A choice is stored, or is done with.
Stored(row, user, pending) == [row EXCEPT !.user = user, !.pending = pending]

LEMMA StoredChoice ==
    ASSUME NEW row \in RowType, NEW user \in BOOLEAN, NEW pending \in Choices \cup {None}
    PROVE  LET new == Stored(row, user, pending)
           IN  /\ new \in RowType /\ new.torrent = row.torrent /\ new.list = row.list
               /\ new.platform = row.platform /\ new.proof = row.proof /\ new.match = row.match
               /\ new.state = row.state /\ new.user = user /\ new.pending = pending
BY DEF RowType, Stored

\* A choice applied is the one that is stored then.
LEMMA AppliedRow ==
    ASSUME given \in Cases, live \subseteq Roms, NEW row \in RowType, Real(row), row.list # None,
           NEW choice \in Choices
    PROVE  /\ Good(Applied(row, choice)) /\ Applied(row, choice).torrent = row.torrent
           /\ Stands(choice, Applied(row, choice)) /\ Outlive(row, Applied(row, choice))
<1> DEFINE p    == IF choice = Automatic THEN Suggested(row.list)
                   ELSE IF choice = Ignore THEN None ELSE choice
           half == IF p # None THEN Mapped(row, p) ELSE Cleared(row)
           new  == Applied(row, choice)
<1>1. row.list \in Torrents
  BY DEF RowType
<1>2. p \in Platforms \cup {None}
  BY <1>1, SuggestedType DEF Choices
<1>3. new = Stored(half, choice # Automatic, None)
  BY DEF Applied, Stored
<1>4. /\ Good(half) /\ half.torrent = row.torrent /\ half.list = row.list /\ half.platform = p
      /\ Outlive(row, half)
  <2>1. CASE p # None
    <3>1. p \in Platforms /\ half = Mapped(row, p)
      BY <1>2, <2>1
    <3> HIDE DEF p, half
    <3> QED
      BY <3>1, MappedRow
  <2>2. CASE p = None
    <3>1. half = Cleared(row)
      BY <2>2
    <3> HIDE DEF p, half
    <3> QED
      BY <2>2, <3>1, ClearedRow DEF Outlive
  <2> QED
    BY <2>1, <2>2
<1>5. (choice \in Platforms => p = choice) /\ (choice = Ignore => p = None)
  BY Constants
<1> HIDE DEF p, half, new
<1>6. half \in RowType
  BY <1>4 DEF Good
<1>7. /\ new \in RowType /\ new.torrent = half.torrent /\ new.list = half.list
      /\ new.platform = half.platform /\ new.proof = half.proof /\ new.match = half.match
      /\ new.state = half.state /\ new.user = (choice # Automatic) /\ new.pending = None
  <2>1. \A user \in BOOLEAN :
           LET stored == Stored(half, user, None)
           IN  /\ stored \in RowType /\ stored.torrent = half.torrent /\ stored.list = half.list
               /\ stored.platform = half.platform /\ stored.proof = half.proof /\ stored.match = half.match
               /\ stored.state = half.state /\ stored.user = user /\ stored.pending = None
    BY <1>6, StoredChoice
  <2> QED
    BY <1>3, <2>1
<1>8. Good(new)
  BY <1>4, <1>7 DEF Good, Real
<1>9. Stands(choice, new)
  BY <1>4, <1>5, <1>7, <1>8 DEF Stands
<1>10. Outlive(row, new)
  BY <1>4, <1>7 DEF Outlive
<1> QED
  BY <1>4, <1>7, <1>8, <1>9, <1>10 DEF new

\* The file list of a row that has no proof is written again.
LEMMA RelistRow ==
    ASSUME given \in Cases, live \subseteq Roms, NEW row \in RowType, row.proof = {}, row.pending = None,
           NEW t \in Torrents
    PROVE  /\ Good(BoundBest(Relist(row, t))) /\ BoundBest(Relist(row, t)).torrent = row.torrent
           /\ BoundBest(Relist(row, t)).pending = None
<1> DEFINE kept  == IF row.list = t THEN row.proof ELSE {}
           match == [i \in Files |-> IF i \in kept THEN row.match[i] ELSE None]
           new   == Relist(row, t)
<1>1. kept = {}
  OBVIOUS
<1>2. match \in [Files -> Roms \cup {None}]
  BY <1>1
<1>3. new = [row EXCEPT !.list = t, !.proof = kept, !.cand = {}, !.match = match]
  BY DEF Relist, RowType
<1> HIDE DEF kept, match, new
<1>4. new \in RowType /\ new.list = t /\ new.proof = {} /\ new.torrent = row.torrent /\ new.pending = None
  BY <1>1, <1>2, <1>3 DEF RowType
<1>5. Real(new) /\ new.list # None
  BY <1>4, Constants DEF Real
<1> QED
  BY <1>4, <1>5, BestRow DEF new

\* A row with other matches, proofs and candidates: nothing else of it changes.
WithFiles(row, match, proof, cand, bad, stamp) ==
    [row EXCEPT !.match = match, !.proof = proof, !.cand = cand, !.bad = bad, !.stamp = stamp]

LEMMA FilesOfRow ==
    ASSUME NEW row, Good(row), NEW choice, Stands(choice, row),
           NEW match \in [Files -> Roms \cup {None}], NEW proof \in SUBSET Files,
           NEW cand \in SUBSET (Files \X Roms), NEW bad \in SUBSET (Files \X Roms),
           NEW stamp \in (SUBSET Roms) \cup {None},
           proof # {} => row.list # None,
           \A i \in proof : match[i] = given.content[row.torrent][i],
           \A i \in row.proof : \/ i \in proof /\ match[i] = row.match[i]
                                \/ row.match[i] \notin live \/ given.on[row.match[i]] # row.platform
    PROVE  LET new == WithFiles(row, match, proof, cand, bad, stamp)
           IN  /\ Good(new) /\ new.torrent = row.torrent /\ new.platform = row.platform
               /\ Stands(choice, new) /\ Outlive(row, new)
<1> DEFINE new == WithFiles(row, match, proof, cand, bad, stamp)
<1>1. row \in RowType
  BY DEF Good
<1>2. /\ new \in RowType /\ new.torrent = row.torrent /\ new.platform = row.platform
      /\ new.list = row.list /\ new.user = row.user /\ new.pending = row.pending /\ new.state = row.state
      /\ new.match = match /\ new.proof = proof
  BY <1>1 DEF RowType, WithFiles
<1> HIDE DEF new
<1>3. Good(new)
  BY <1>2 DEF Good, Real
<1>4. Stands(choice, new) /\ Outlive(row, new)
  BY <1>2, <1>3 DEF Stands, Outlive
<1> QED
  BY <1>2, <1>3, <1>4 DEF new

\* A row that is switched, or whose client id changes.
WithFlags(row, state, client) == [row EXCEPT !.state = state, !.client = client]

LEMMA FlagsOfRow ==
    ASSUME NEW row, Good(row), NEW choice, Stands(choice, row),
           NEW state \in {"resolving", "unbound", "bound", "disabled"}, NEW client \in Torrents \cup {None},
           /\ state = "bound" => row.platform # None
           /\ state = "unbound" => row.list # None /\ row.platform = None
           /\ state = "resolving" => row.list = None
    PROVE  LET new == WithFlags(row, state, client)
           IN  /\ Good(new) /\ new.torrent = row.torrent /\ new.platform = row.platform
               /\ Stands(choice, new) /\ Outlive(row, new)
<1> DEFINE new == WithFlags(row, state, client)
<1>1. row \in RowType
  BY DEF Good
<1>2. /\ new \in RowType /\ new.torrent = row.torrent /\ new.platform = row.platform
      /\ new.list = row.list /\ new.user = row.user /\ new.pending = row.pending /\ new.state = state
      /\ new.match = row.match /\ new.proof = row.proof
  BY <1>1 DEF RowType, WithFlags
<1> HIDE DEF new
<1>3. Good(new)
  BY <1>2 DEF Good, Real
<1>4. Stands(choice, new) /\ Outlive(row, new)
  BY <1>2, <1>3 DEF Stands, Outlive
<1> QED
  BY <1>2, <1>3, <1>4 DEF new

-----------------------------------------------------------------------------
(* What a step does to the tables *)

\* A proof outlives the step (ProofStands).
ProofStep ==
    \A id \in Ids : rows[id] # None /\ rows'[id] # None /\ rows'[id].torrent = rows[id].torrent =>
        Outlive(rows[id], rows'[id])

\* A row that stays, goes, or is good and holds what the user chose.
RowStep(id) ==
    \/ rows'[id] = rows[id] /\ asked'[id] \in {asked[id], None}
    \/ rows'[id] = None /\ asked'[id] = None
    \/ /\ Good(rows'[id]) /\ Stands(asked'[id], rows'[id]) /\ asked'[id] \in Choices \cup {None}
       /\ rows[id] # None /\ rows'[id].torrent = rows[id].torrent => Outlive(rows[id], rows'[id])

Tables == TablesOK /\ RowsOK /\ StandOK

LEMMA TableSteps ==
    ASSUME IInv, UNCHANGED given, DOMAIN rows' = Ids, rows' = [id \in Ids |-> rows'[id]],
           asked' = [id \in Ids |-> asked'[id]], \A id \in Ids : RowStep(id)
    PROVE  Tables' /\ ProofStep
<1>1. \A row : Good(row)' <=> Good(row)
  BY DEF Good, Real
<1>2. \A id \in Ids : (rows'[id] = None \/ Good(rows'[id])) /\ Stands(asked'[id], rows'[id])
  BY DEF IInv, RowsOK, StandOK, RowStep, Stands
<1>3. \A id \in Ids : rows'[id] \in RowType \cup {None} /\ asked'[id] \in Choices \cup {None}
  BY <1>2 DEF IInv, TablesOK, RowStep, Good
<1>4. TablesOK'
  BY <1>3 DEF TablesOK
<1>5. RowsOK' /\ StandOK'
  BY <1>1, <1>2 DEF RowsOK, StandOK, Stands, Good, Real
<1>6. ProofStep
  BY DEF RowStep, ProofStep, Outlive
<1> QED
  BY <1>4, <1>5, <1>6 DEF Tables

LEMMA SameTables ==
    ASSUME IInv, UNCHANGED <<given, rows, asked>>
    PROVE  Tables' /\ ProofStep
BY TableSteps DEF IInv, TablesOK, RowStep

\* One row changes.
LEMMA ChangedRow ==
    ASSUME IInv, UNCHANGED <<given, asked>>, NEW k \in Ids, NEW new, rows' = [rows EXCEPT ![k] = new],
           Good(new), Stands(asked[k], new), new.torrent = rows[k].torrent => Outlive(rows[k], new)
    PROVE  Tables' /\ ProofStep
<1>1. DOMAIN rows = Ids /\ asked \in [Ids -> Choices \cup {None}]
  BY DEF IInv, TablesOK
<1>2. DOMAIN rows' = Ids /\ \A id \in Ids : rows'[id] = IF id = k THEN new ELSE rows[id]
  BY <1>1 DEF IInv, TablesOK
<1>3. \A id \in Ids : RowStep(id)
  BY <1>1, <1>2 DEF RowStep
<1>4. rows' = [id \in Ids |-> rows'[id]] /\ asked' = [id \in Ids |-> asked'[id]]
  BY <1>1, <1>2 DEF IInv, TablesOK
<1> QED
  BY <1>2, <1>3, <1>4, TableSteps

\* A source that is mapped again keeps its platform when the step is another task's.
LEMMA StaysOn ==
    ASSUME IInv, UNCHANGED job,
           \A id \in Ids : \/ rows'[id] = None
                           \/ /\ rows[id] # None
                              /\ rows'[id].platform = rows[id].platform \/ rows[id].platform = None
    PROVE  OnPlatform'
BY Constants DEF IInv, OnPlatform, Mapping

LEMMA Spent ==
    ASSUME FilesOK, NEW e \in Events, Spend(e)
    PROVE  budget' \in [Events -> Nat]
<1>1. budget \in [Events -> Nat] /\ budget[e] \in Nat /\ budget[e] > 0
  BY DEF FilesOK, Spend
<1>2. budget[e] - 1 \in Nat
  BY <1>1
<1> QED
  BY <1>1, <1>2 DEF Spend

\* A step of the lanes beside the tables.
LEMMA Beside ==
    ASSUME IInv, UNCHANGED <<given, rows, asked>>, FilesOK', JobOK', LightOK', OnPlatform'
    PROVE  IInv' /\ ProofStep
BY SameTables DEF IInv, Tables

-----------------------------------------------------------------------------
(* Files dropped into sources/ *)

LEMMA DropStep ==
    ASSUME IInv, NEW f \in Drops, Drop(f)
    PROVE  IInv' /\ ProofStep
<1>1. UNCHANGED <<given, rows, asked, job, light, live, seen>>
  BY DEF Drop
<1>2. budget' \in [Events -> Nat]
  BY Spent DEF Drop, IInv, Events
<1>3. FilesOK'
  BY <1>1, <1>2 DEF Drop, IInv, FilesOK
<1> QED
  BY <1>1, <1>3, Beside DEF IInv, JobOK, At, LightOK, OnPlatform, Mapping

LEMMA WatchStep ==
    ASSUME IInv, NEW f \in Drops, Watch(f)
    PROVE  IInv' /\ ProofStep
<1>1. UNCHANGED <<given, budget, dir, rows, live, job, light, asked>> /\ seen' = seen \cup {f}
  BY DEF Watch
<1>2. FilesOK'
  BY <1>1 DEF IInv, FilesOK
<1> QED
  BY <1>1, <1>2, Beside DEF IInv, JobOK, At, LightOK, OnPlatform, Mapping

LEMMA IdleJob == NoJob \in JobType /\ NoJob.kind = "none" /\ NoJob.at = "none"
BY DEF NoJob, JobType

LEMMA ImportStartStep ==
    ASSUME IInv, NEW f \in Drops, ImportStart(f)
    PROVE  IInv' /\ ProofStep
<1>1. UNCHANGED <<given, dir, rows, live, light, asked>>
  BY DEF ImportStart
<1>2. seen' \subseteq seen /\ budget' \in [Events -> Nat]
  BY Spent DEF ImportStart, IInv, FilesOK, Events
<1>3. FilesOK'
  BY <1>1, <1>2 DEF IInv, FilesOK
<1>4. \/ UNCHANGED job
      \/ job' = NoJob
      \/ job' = [NoJob EXCEPT !.kind = "import", !.at = "read", !.arg = f]
  BY DEF ImportStart
<1>5. JobOK' /\ OnPlatform'
  <2>1. CASE UNCHANGED job
    BY <1>1, <2>1 DEF IInv, JobOK, OnPlatform, Mapping, At
  <2>2. CASE job' = NoJob
    BY <2>2, IdleJob DEF JobOK, OnPlatform, Mapping, At
  <2>3. CASE job' = [NoJob EXCEPT !.kind = "import", !.at = "read", !.arg = f]
    BY <2>3 DEF JobOK, OnPlatform, Mapping, At, NoJob, JobType
  <2> QED
    BY <1>4, <2>1, <2>2, <2>3
<1> QED
  BY <1>1, <1>3, <1>5, Beside DEF IInv, LightOK

LEMMA SameFiles ==
    ASSUME IInv, UNCHANGED <<given, dir, live>>, seen' \subseteq seen,
           UNCHANGED budget \/ \E e \in Events : Spend(e)
    PROVE  FilesOK'
<1>1. budget' \in [Events -> Nat]
  BY Spent DEF IInv, FilesOK
<1> QED
  BY <1>1 DEF IInv, FilesOK

LEMMA SameJob == ASSUME IInv, UNCHANGED <<rows, job>> PROVE JobOK' /\ OnPlatform'
BY DEF IInv, JobOK, OnPlatform, Mapping, At

LEMMA SameLight == ASSUME IInv, UNCHANGED light PROVE LightOK'
BY DEF IInv, LightOK

\* A job that maps nothing.
LEMMA OtherJob ==
    ASSUME job' \in JobType, job'.kind \in {"none", "import", "bind"},
           job'.kind = "import" => job'.arg \in Drops
    PROVE  JobOK' /\ OnPlatform'
BY DEF JobOK, OnPlatform, Mapping, At

LEMMA NoJobNext == ASSUME job' = NoJob PROVE JobOK' /\ OnPlatform'
BY OtherJob, IdleJob

LEMMA ImportRejectStep ==
    ASSUME IInv, ImportReject
    PROVE  IInv' /\ ProofStep
<1>1. UNCHANGED <<given, budget, seen, rows, live, light, asked>> /\ job' = NoJob
      /\ dir' = [dir EXCEPT ![job.arg] = "rejected"]
  BY DEF ImportReject
<1>2. FilesOK'
  BY <1>1 DEF IInv, FilesOK
<1> QED
  BY <1>1, <1>2, NoJobNext, SameLight, Beside

LEMMA PlaceStep ==
    ASSUME IInv, Place
    PROVE  IInv' /\ ProofStep
<1>1. UNCHANGED <<given, seen, rows, live, light, asked>> /\ job' = NoJob
  BY DEF Place
<1>2. /\ dir' = [dir EXCEPT ![job.arg] = "loaded"] \/ UNCHANGED dir
      /\ UNCHANGED budget \/ Spend("move")
  BY DEF Place
<1>3. budget' \in [Events -> Nat]
  BY <1>2, Spent DEF IInv, FilesOK, Events
<1>4. FilesOK'
  BY <1>1, <1>2, <1>3 DEF IInv, FilesOK
<1> QED
  BY <1>1, <1>4, NoJobNext, SameLight, Beside

LEMMA AskQueuedStep ==
    ASSUME IInv, AskQueued
    PROVE  IInv' /\ ProofStep
<1>1. UNCHANGED <<given, budget, dir, seen, rows, live, job, light, asked>>
  BY DEF AskQueued, files
<1> QED
  BY <1>1, SameFiles, SameJob, SameLight, Beside

LEMMA BindStartStep ==
    ASSUME IInv, NEW id \in Ids, BindStart(id)
    PROVE  IInv' /\ ProofStep
<1>1. UNCHANGED <<given, budget, dir, seen, rows, live, light, asked>>
      /\ job' = [NoJob EXCEPT !.kind = "bind", !.at = "bind", !.id = id]
  BY DEF BindStart, files
<1>2. job' \in JobType /\ job'.kind = "bind"
  BY <1>1 DEF NoJob, JobType
<1> QED
  BY <1>1, <1>2, OtherJob, SameFiles, SameLight, Beside

LEMMA BindEndStep ==
    ASSUME IInv, BindEnd
    PROVE  IInv' /\ ProofStep
<1>1. UNCHANGED <<given, budget, dir, seen, rows, live, light, asked>> /\ job' = NoJob
  BY DEF BindEnd, files
<1> QED
  BY <1>1, NoJobNext, SameFiles, SameLight, Beside

LEMMA RemapQueuedStep ==
    ASSUME IInv, NEW p \in Platforms, RemapQueued(p)
    PROVE  IInv' /\ ProofStep
<1>1. UNCHANGED <<given, budget, dir, seen, rows, live, job, light, asked>>
  BY DEF RemapQueued, files
<1> QED
  BY <1>1, SameFiles, SameJob, SameLight, Beside

\* A catalogue change.
LEMMA LoadStep ==
    ASSUME IInv, NEW new \in given.loads, Load(new)
    PROVE  IInv' /\ ProofStep
<1>1. UNCHANGED <<given, dir, seen, rows, job, light, asked>> /\ live' = new
  BY DEF Load, files, lanes
<1>2. budget' \in [Events -> Nat]
  BY Spent DEF Load, IInv, Events
<1>3. live' \subseteq Roms
  BY <1>1, GivenFacts DEF IInv, FilesOK
<1>4. FilesOK'
  BY <1>1, <1>2, <1>3 DEF IInv, FilesOK
<1> QED
  BY <1>1, <1>4, SameJob, SameLight, Beside

-----------------------------------------------------------------------------
(* A job that maps bound sources again: what it reads *)

LEMMA RemapStartStep ==
    ASSUME IInv, NEW platforms \in SUBSET Platforms, RemapStart(platforms)
    PROVE  IInv' /\ ProofStep
<1>1. UNCHANGED <<given, budget, dir, seen, rows, live, light, asked>>
  BY DEF RemapStart, files
<1>2. \E todo \in SUBSET Ids : job' = [NoJob EXCEPT !.kind = "remap", !.at = "next", !.todo = todo]
  BY DEF RemapStart
<1>3. JobOK' /\ OnPlatform'
  BY <1>2 DEF JobOK, OnPlatform, Mapping, At, NoJob, JobType
<1> QED
  BY <1>1, <1>3, SameFiles, SameLight, Beside

\* A source that is taken up, or passed over.
LEMMA RemapLookStep ==
    ASSUME IInv, RemapLook
    PROVE  IInv' /\ ProofStep
<1> DEFINE id == Least(job.todo)
           rest == job.todo \ {id}
<1>1. UNCHANGED <<given, budget, dir, seen, rows, live, light, asked>>
  BY DEF RemapLook, files
<1>2. job \in JobType /\ At("remap", "next") /\ job.todo # {}
  BY DEF RemapLook, IInv, JobOK
<1>3. id \in Ids /\ rest \in SUBSET Ids
  BY <1>2, LeastIn, Constants DEF JobType
<1>4. \/ job' = [job EXCEPT !.todo = rest]
      \/ /\ rows[id] # None /\ rows[id].platform # None
         /\ job' = [job EXCEPT !.todo = rest, !.at = "forget", !.id = id, !.arg = rows[id].platform]
  BY <1>2 DEF RemapLook, Exists
<1>5. rows[id] # None => rows[id] \in RowType
  BY <1>3 DEF IInv, RowsOK, Good
<1> HIDE DEF id, rest
<1>6. JobOK' /\ OnPlatform'
  <2>1. CASE job' = [job EXCEPT !.todo = rest]
    BY <1>2, <1>3, <2>1 DEF JobOK, OnPlatform, Mapping, At, JobType
  <2>2. CASE /\ rows[id] # None /\ rows[id].platform # None
             /\ job' = [job EXCEPT !.todo = rest, !.at = "forget", !.id = id, !.arg = rows[id].platform]
    <3>1. rows[id].platform \in Platforms
      BY <1>5, <2>2 DEF RowType
    <3>2. job' \in JobType /\ job'.kind = "remap" /\ job'.at = "forget" /\ job'.id = id
          /\ job'.arg = rows[id].platform
      BY <1>2, <1>3, <2>2, <3>1 DEF At, JobType
    <3> QED
      BY <1>1, <1>3, <3>1, <3>2 DEF JobOK, OnPlatform, Mapping, At
  <2> QED
    BY <1>4, <2>1, <2>2
<1> QED
  BY <1>1, <1>6, SameFiles, SameLight, Beside

LEMMA PieceOK ==
    ASSUME NEW matches \in SUBSET (Files \X (Roms \cup {None})),
           NEW remove \in SUBSET (Files \X Roms), NEW add \in SUBSET (Files \X Roms)
    PROVE  Piece(matches, remove, add) \in Seq(PieceType)
<1>1. [matches |-> matches, remove |-> remove, add |-> add] \in PieceType
  BY DEF PieceType
<1> HIDE DEF PieceType
<1> QED
  BY <1>1 DEF Piece

LEMMA PiecesType ==
    ASSUME NEW row \in RowType, NEW p
    PROVE  Pieces(row, p) \in Seq(PieceType)
<1> DEFINE c == Change(row, p)
           a == Piece(c.matches, {}, {})
           b == Piece({}, row.cand \ c.wanted, {})
           d == Piece({}, {}, c.wanted \ row.cand)
<1>1. c.matches \in SUBSET (Files \X (Roms \cup {None})) /\ c.wanted \in SUBSET (Files \X Roms)
  BY GuessesType DEF Change
<1>2. row.cand \in SUBSET (Files \X Roms)
  BY DEF RowType
<1>3. Pieces(row, p) = a \o b \o d
  BY DEF Pieces
<1> HIDE DEF c
<1>4. row.cand \ c.wanted \in SUBSET (Files \X Roms) /\ c.wanted \ row.cand \in SUBSET (Files \X Roms)
      /\ {} \in SUBSET (Files \X Roms) /\ {} \in SUBSET (Files \X (Roms \cup {None}))
  BY <1>1, <1>2
<1>5. a \in Seq(PieceType) /\ b \in Seq(PieceType) /\ d \in Seq(PieceType)
  BY <1>1, <1>4, PieceOK
<1> HIDE DEF a, b, d, PieceType
<1>6. a \o b \in Seq(PieceType)
  BY <1>5
<1> QED
  BY <1>3, <1>5, <1>6

LEMMA NextSourceJob ==
    ASSUME IInv, job.kind = "remap", NextSource
    PROVE  JobOK' /\ OnPlatform'
<1>1. job \in JobType
  BY DEF IInv, JobOK
<1> QED
  BY <1>1 DEF NextSource, JobOK, OnPlatform, Mapping, At, JobType

LEMMA RemapPlanStep ==
    ASSUME IInv, RemapPlan
    PROVE  IInv' /\ ProofStep
<1>1. UNCHANGED <<given, budget, dir, seen, rows, live, light, asked>> /\ At("remap", "plan")
  BY DEF RemapPlan, files
<1>2. job \in JobType /\ job.id \in Ids /\ job.arg \in Platforms
  BY <1>1 DEF IInv, JobOK, OnPlatform, Mapping, At
<1>3. JobOK' /\ OnPlatform'
  <2>1. CASE Exists(job.id)
    <3> DEFINE plan == [pieces |-> Pieces(rows[job.id], job.arg), stamp |-> Stamp(job.arg)]
    <3>1. rows[job.id] \in RowType
      BY <1>2, <2>1 DEF Exists, IInv, RowsOK, Good
    <3>2. Pieces(rows[job.id], job.arg) \in Seq(PieceType) /\ Stamp(job.arg) \in SUBSET Roms
      BY <3>1, PiecesType, StampType DEF IInv, FilesOK
    <3>3. plan \in PlanType
      BY <3>2 DEF PlanType
    <3>4. job' = [job EXCEPT !.at = "write", !.plan = plan]
      BY <2>1 DEF RemapPlan
    <3> HIDE DEF plan, PlanType
    <3>5. job' \in JobType /\ job'.kind = "remap" /\ job'.at = "write" /\ job'.id = job.id
          /\ job'.arg = job.arg /\ job'.plan = plan
      BY <1>1, <1>2, <3>3, <3>4 DEF At, JobType
    <3> QED
      BY <1>1, <1>2, <3>3, <3>5 DEF IInv, JobOK, OnPlatform, Mapping, At
  <2>2. CASE ~Exists(job.id)
    BY <1>1, <2>2, NextSourceJob DEF RemapPlan, At
  <2> QED
    BY <2>1, <2>2
<1> QED
  BY <1>1, <1>3, SameFiles, SameLight, Beside

LEMMA RemapEndStep ==
    ASSUME IInv, RemapEnd
    PROVE  IInv' /\ ProofStep
<1>1. UNCHANGED <<given, budget, dir, seen, rows, live, light, asked>> /\ job' = NoJob
  BY DEF RemapEnd, files
<1> QED
  BY <1>1, NoJobNext, SameFiles, SameLight, Beside

-----------------------------------------------------------------------------
(* Resolving, the client and removal: what leaves the tables alone *)

LEMMA ResolveStartStep ==
    ASSUME IInv, NEW id \in Ids, ResolveStart(id)
    PROVE  IInv' /\ ProofStep
<1>1. UNCHANGED <<given, budget, dir, seen, rows, live, job, asked>>
  BY DEF ResolveStart, files
<1>2. rows[id] \in RowType
  BY DEF ResolveStart, Exists, IInv, RowsOK, Good
<1>3. rows[id].client \in Torrents \cup {None} /\ rows[id].torrent \in Torrents
  BY <1>2 DEF RowType
<1>4. \E at \in {"add", "files"}, t \in Torrents : light' = [at |-> at, id |-> id, torrent |-> t]
  <2>1. CASE rows[id].client = None
    BY <1>3, <2>1 DEF ResolveStart
  <2>2. CASE rows[id].client # None
    BY <1>3, <2>2 DEF ResolveStart
  <2> QED
    BY <2>1, <2>2
<1>5. LightOK'
  BY <1>4 DEF LightOK
<1> QED
  BY <1>1, <1>5, SameFiles, SameJob, Beside

\* The lane goes on, or ends.
LEMMA Moved ==
    ASSUME IInv, light.at # "none",
           \/ light' = NoLight
           \/ \E at \in {"start", "record", "files", "stop", "unwant", "store"} : To(at)
    PROVE  LightOK'
BY DEF IInv, LightOK, NoLight, To

LEMMA ResolveAddStep ==
    ASSUME IInv, ResolveAdd
    PROVE  IInv' /\ ProofStep
<1>1. UNCHANGED <<given, dir, seen, rows, live, job, asked>> /\ light.at # "none"
  BY DEF ResolveAdd, files, Light
<1>2. (To("start") /\ UNCHANGED budget) \/ (Spend("call") /\ light' = NoLight)
  BY DEF ResolveAdd, Fails, Ends
<1>3. UNCHANGED budget \/ \E e \in Events : Spend(e)
  BY <1>2 DEF Events
<1> QED
  BY <1>1, <1>2, <1>3, Moved, SameFiles, SameJob, Beside

LEMMA ResolveRunStep ==
    ASSUME IInv, ResolveRun
    PROVE  IInv' /\ ProofStep
<1>1. UNCHANGED <<given, dir, seen, rows, live, job, asked>> /\ light.at # "none"
  BY DEF ResolveRun, files, Light
<1>2. (To("record") /\ UNCHANGED budget) \/ (Spend("call") /\ light' = NoLight)
  BY DEF ResolveRun, Fails, Ends
<1>3. UNCHANGED budget \/ \E e \in Events : Spend(e)
  BY <1>2 DEF Events
<1> QED
  BY <1>1, <1>2, <1>3, Moved, SameFiles, SameJob, Beside

LEMMA ResolveStopStep ==
    ASSUME IInv, ResolveStop
    PROVE  IInv' /\ ProofStep
<1>1. UNCHANGED <<given, dir, seen, rows, live, job, asked>> /\ light.at # "none" /\ To("unwant")
  BY DEF ResolveStop, files, Light
<1>2. UNCHANGED budget \/ \E e \in Events : Spend(e)
  BY DEF ResolveStop, Events
<1> QED
  BY <1>1, <1>2, Moved, SameFiles, SameJob, Beside

LEMMA ResolveUnwantStep ==
    ASSUME IInv, ResolveUnwant
    PROVE  IInv' /\ ProofStep
<1>1. UNCHANGED <<given, dir, seen, rows, live, job, asked>> /\ light.at # "none" /\ To("store")
  BY DEF ResolveUnwant, files, Light
<1>2. UNCHANGED budget \/ \E e \in Events : Spend(e)
  BY DEF ResolveUnwant, Events
<1> QED
  BY <1>1, <1>2, Moved, SameFiles, SameJob, Beside

LEMMA MetadataStep ==
    ASSUME IInv, NEW t \in Torrents, Metadata(t)
    PROVE  IInv' /\ ProofStep
<1>1. UNCHANGED <<given, budget, dir, seen, rows, live, job, light, asked>>
  BY DEF Metadata, files, lanes
<1> QED
  BY <1>1, SameFiles, SameJob, SameLight, Beside

LEMMA RemoveStep ==
    ASSUME IInv, NEW id \in Ids, Remove(id)
    PROVE  IInv' /\ ProofStep
<1>1. UNCHANGED <<given, dir, seen, rows, live, job, light, asked>> /\ \E e \in Events : Spend(e)
  BY DEF Remove, files, lanes, Events
<1> QED
  BY <1>1, SameFiles, SameJob, SameLight, Beside

LEMMA RemoveTorrentStep ==
    ASSUME IInv, RemoveTorrent
    PROVE  IInv' /\ ProofStep
<1>1. UNCHANGED <<given, dir, seen, rows, live, job, light, asked>>
  BY DEF RemoveTorrent, files, lanes
<1>2. UNCHANGED budget \/ \E e \in Events : Spend(e)
  BY DEF RemoveTorrent, Events
<1> QED
  BY <1>1, <1>2, SameFiles, SameJob, SameLight, Beside

\* Removed at last: the choice goes with the row.
LEMMA RemoveRowStep ==
    ASSUME IInv, RemoveRow
    PROVE  IInv' /\ ProofStep
<1>1. UNCHANGED <<given, budget, dir, seen, live, job, light>>
      /\ rows' = [rows EXCEPT ![api.id] = None] /\ asked' = [asked EXCEPT ![api.id] = None]
  BY DEF RemoveRow, files, lanes
<1>2. DOMAIN rows = Ids /\ DOMAIN asked = Ids
  BY DEF IInv, TablesOK
<1>3. \A id \in Ids : RowStep(id)
  BY <1>1, <1>2 DEF RowStep
<1>4. DOMAIN rows' = Ids /\ rows' = [id \in Ids |-> rows'[id]] /\ asked' = [id \in Ids |-> asked'[id]]
  BY <1>1, <1>2
<1>5. Tables' /\ ProofStep
  BY <1>1, <1>3, <1>4, TableSteps
<1>6. \A id \in Ids : rows'[id] = None \/ rows'[id] = rows[id]
  BY <1>1, <1>2
<1>7. OnPlatform'
  BY <1>1, <1>6 DEF IInv, OnPlatform, Mapping
<1>8. JobOK'
  BY <1>1 DEF IInv, JobOK, At
<1> QED
  BY <1>1, <1>5, <1>7, <1>8, SameFiles, SameLight DEF IInv, Tables

\* A kill: of the choices only one whose job was not queued is forgotten.
LEMMA CrashStep ==
    ASSUME IInv, Crash
    PROVE  IInv' /\ ProofStep
<1>1. /\ UNCHANGED <<given, dir, rows, live>> /\ \E e \in Events : Spend(e)
      /\ job' = NoJob /\ light' = NoLight /\ seen' = {}
      /\ asked' = [id \in Ids |-> IF api.at = "ask" /\ api.id = id THEN None ELSE asked[id]]
  BY DEF Crash, Events
<1>2. \A id \in Ids : RowStep(id)
  BY <1>1 DEF RowStep
<1>3. DOMAIN rows' = Ids /\ rows' = [id \in Ids |-> rows'[id]] /\ asked' = [id \in Ids |-> asked'[id]]
  BY <1>1 DEF IInv, TablesOK
<1>4. Tables' /\ ProofStep
  BY <1>1, <1>2, <1>3, TableSteps
<1>5. LightOK'
  BY <1>1 DEF LightOK, NoLight
<1> QED
  BY <1>1, <1>4, <1>5, NoJobNext, SameFiles DEF IInv, Tables

-----------------------------------------------------------------------------
(* Importing: a new row, or the file list of one that resolves *)

LEMMA RowOfTorrent ==
    ASSUME NEW t
    PROVE  /\ RowOf(t) \in Ids \cup {None}
           /\ RowOf(t) = None => \A id \in Ids : rows[id] # None => rows[id].torrent # t
           /\ RowOf(t) # None => RowOf(t) \in Ids /\ rows[RowOf(t)] # None /\ rows[RowOf(t)].torrent = t
<1> DEFINE P(id) == IF id = None THEN ~\E i \in Ids : Exists(i) /\ rows[i].torrent = t
                    ELSE Exists(id) /\ rows[id].torrent = t
<1>1. \E id \in Ids \cup {None} : P(id)
  <2>1. CASE \E i \in Ids : Exists(i) /\ rows[i].torrent = t
    BY <2>1, Constants
  <2>2. CASE ~\E i \in Ids : Exists(i) /\ rows[i].torrent = t
    BY <2>2
  <2> QED
    BY <2>1, <2>2
<1>2. RowOf(t) = CHOOSE id \in Ids \cup {None} : P(id)
  BY DEF RowOf
<1> HIDE DEF P
<1>3. RowOf(t) \in Ids \cup {None} /\ P(RowOf(t))
  BY <1>1, <1>2
<1> QED
  BY <1>3 DEF P, Exists

LEMMA NewRowType ==
    ASSUME NEW t \in Torrents, NEW f \in Drops, NEW state \in {"resolving", "unbound"}
    PROVE  LET new == NewRow(t, f, state)
           IN  /\ new \in RowType /\ new.torrent = t /\ new.state = state /\ new.platform = None
               /\ new.pending = None /\ new.list = None /\ new.proof = {}
BY DEF NewRow, RowType, Unmatched

\* A row at an id whose choice is none, or is forgotten.
LEMMA PutRow ==
    ASSUME IInv, UNCHANGED given, NEW k \in Ids, NEW new, Good(new), rows' = [rows EXCEPT ![k] = new],
           \/ asked' = [asked EXCEPT ![k] = None]
           \/ UNCHANGED asked /\ asked[k] = None,
           rows[k] # None /\ new.torrent = rows[k].torrent => rows[k].proof = {}
    PROVE  Tables' /\ ProofStep
<1>1. DOMAIN rows = Ids /\ asked \in [Ids -> Choices \cup {None}]
  BY DEF IInv, TablesOK
<1>2. \A id \in Ids : rows'[id] = (IF id = k THEN new ELSE rows[id])
                      /\ asked'[id] = (IF id = k THEN None ELSE asked[id])
  BY <1>1
<1>3. \A id \in Ids : RowStep(id)
  BY <1>1, <1>2 DEF RowStep, Stands, Outlive
<1>4. DOMAIN rows' = Ids /\ rows' = [id \in Ids |-> rows'[id]] /\ asked' = [id \in Ids |-> asked'[id]]
  BY <1>1, <1>2 DEF IInv, TablesOK
<1> QED
  BY <1>3, <1>4, TableSteps

LEMMA ToPlace ==
    ASSUME IInv, At("import", "read"), job' = [job EXCEPT !.at = "place"]
    PROVE  JobOK' /\ OnPlatform'
BY OtherJob DEF IInv, JobOK, At, JobType

\* What is imported.
LEMMA ImportedTorrent ==
    ASSUME IInv, At("import", "read")
    PROVE  job.arg \in Drops /\ given.of[job.arg] \in Torrents
<1>1. job.arg \in Drops
  BY DEF IInv, JobOK, At
<1> QED
  BY <1>1, GivenFacts DEF IInv, FilesOK

LEMMA ImportTorrentStep ==
    ASSUME IInv, ImportTorrent
    PROVE  IInv' /\ ProofStep
<1> DEFINE t  == given.of[job.arg]
           id == RowOf(t)
           old == IF id = None THEN NewRow(t, job.arg, "unbound") ELSE rows[id]
           at  == IF id = None THEN NextId ELSE id
           new == BoundBest(Relist(old, t))
<1>1. /\ UNCHANGED <<given, budget, dir, seen, live, light>> /\ At("import", "read")
      /\ job' = [job EXCEPT !.at = "place"]
      /\ id # None => rows[id].state = "resolving"
      /\ at \in Ids /\ rows' = [rows EXCEPT ![at] = new]
      /\ asked' = IF id = None THEN [asked EXCEPT ![at] = None] ELSE asked
  BY DEF ImportTorrent, files
<1>2. t \in Torrents /\ job.arg \in Drops
  BY <1>1, ImportedTorrent
<1>3. /\ id = None => \A i \in Ids : rows[i] # None => rows[i].torrent # t
      /\ id # None => id \in Ids /\ rows[id] # None /\ rows[id].torrent = t
  BY RowOfTorrent
<1>4. id # None => Good(rows[id]) /\ rows[id].list = None /\ asked[id] = None
  BY <1>1, <1>3 DEF IInv, RowsOK, StandOK, Stands, Good
<1>5. old \in RowType /\ old.torrent = t /\ old.proof = {} /\ old.pending = None
  <2>1. CASE id = None
    <3>1. old = NewRow(t, job.arg, "unbound")
      BY <2>1
    <3> HIDE DEF old
    <3> QED
      BY <1>2, <3>1, NewRowType
  <2>2. CASE id # None
    <3>1. old = rows[id]
      BY <2>2
    <3> HIDE DEF old, id
    <3> QED
      BY <1>3, <1>4, <2>2, <3>1 DEF Good
  <2> QED
    BY <2>1, <2>2
<1> HIDE DEF old
<1>6. Good(new) /\ new.torrent = t
  BY <1>2, <1>5, RelistRow DEF IInv, FilesOK
<1>7. id # None => at = id /\ old = rows[id]
  BY DEF old
<1> HIDE DEF new, at, id, t
<1>8. \/ asked' = [asked EXCEPT ![at] = None]
      \/ UNCHANGED asked /\ asked[at] = None
  BY <1>1, <1>4, <1>7
<1>9. rows[at] # None /\ new.torrent = rows[at].torrent => rows[at].proof = {}
  BY <1>1, <1>3, <1>5, <1>6, <1>7
<1>10. Tables' /\ ProofStep
  BY <1>1, <1>6, <1>8, <1>9, PutRow
<1> QED
  BY <1>1, <1>10, ToPlace, SameFiles, SameLight DEF IInv, Tables

LEMMA ImportMagnetStep ==
    ASSUME IInv, ImportMagnet
    PROVE  IInv' /\ ProofStep
<1> DEFINE t   == given.of[job.arg]
           new == NewRow(t, job.arg, "resolving")
<1>1. /\ UNCHANGED <<given, budget, dir, seen, live, light>> /\ At("import", "read")
      /\ job' = [job EXCEPT !.at = "place"] /\ RowOf(t) = None
      /\ NextId \in Ids /\ rows' = [rows EXCEPT ![NextId] = new]
      /\ asked' = [asked EXCEPT ![NextId] = None]
  BY DEF ImportMagnet, files
<1>2. t \in Torrents /\ job.arg \in Drops
  BY <1>1, ImportedTorrent
<1>3. \A i \in Ids : rows[i] # None => rows[i].torrent # t
  BY <1>1, RowOfTorrent
<1>4. /\ new \in RowType /\ new.torrent = t /\ new.state = "resolving" /\ new.platform = None
      /\ new.pending = None /\ new.list = None /\ new.proof = {}
  BY <1>2, NewRowType
<1> HIDE DEF new, t
<1>5. Good(new)
  BY <1>4 DEF Good, Real
<1>6. rows[NextId] # None /\ new.torrent = rows[NextId].torrent => rows[NextId].proof = {}
  BY <1>1, <1>3, <1>4
<1>7. Tables' /\ ProofStep
  BY <1>1, <1>5, <1>6, PutRow
<1> QED
  BY <1>1, <1>7, ToPlace, SameFiles, SameLight DEF IInv, Tables

-----------------------------------------------------------------------------
(* The user's choice *)

\* Asked for: stored, and what waits.
LEMMA AskStep ==
    ASSUME IInv, NEW id \in Ids, NEW choice \in given.asks, Ask(id, choice)
    PROVE  IInv' /\ ProofStep
<1> DEFINE new == Stored(rows[id], choice # Automatic, choice)
<1>1. /\ UNCHANGED <<given, dir, seen, live, job, light>> /\ \E e \in Events : Spend(e)
      /\ rows[id] # None /\ rows[id].list # None /\ asked' = [asked EXCEPT ![id] = choice]
      /\ rows' = [rows EXCEPT ![id].pending = choice, ![id].user = choice # Automatic]
  BY DEF Ask, files, lanes, Events, Exists
<1>2. choice \in Choices /\ choice # None
  BY GivenFacts, Constants DEF IInv, FilesOK
<1>3. Good(rows[id]) /\ rows[id] \in RowType
  BY <1>1 DEF IInv, RowsOK, Good
<1>4. rows \in [Ids -> RowType \cup {None}] /\ asked \in [Ids -> Choices \cup {None}]
  BY DEF IInv, TablesOK
<1>5. rows' = [rows EXCEPT ![id] = new]
  BY <1>1, <1>3, <1>4 DEF Stored, RowType
<1>6. /\ new \in RowType /\ new.torrent = rows[id].torrent /\ new.list = rows[id].list
      /\ new.platform = rows[id].platform /\ new.proof = rows[id].proof /\ new.match = rows[id].match
      /\ new.state = rows[id].state /\ new.user = (choice # Automatic) /\ new.pending = choice
  <2>1. \A user \in BOOLEAN :
           LET stored == Stored(rows[id], user, choice)
           IN  /\ stored \in RowType /\ stored.torrent = rows[id].torrent /\ stored.list = rows[id].list
               /\ stored.platform = rows[id].platform /\ stored.proof = rows[id].proof
               /\ stored.match = rows[id].match
               /\ stored.state = rows[id].state /\ stored.user = user /\ stored.pending = choice
    BY <1>2, <1>3, StoredChoice
  <2> QED
    BY <2>1
<1> HIDE DEF new
<1>7. Good(new)
  BY <1>1, <1>3, <1>6 DEF Good, Real
<1>8. Stands(choice, new) /\ Outlive(rows[id], new)
  BY <1>1, <1>2, <1>6, <1>7 DEF Stands, Outlive
<1>9. \A k \in Ids : rows'[k] = (IF k = id THEN new ELSE rows[k])
                     /\ asked'[k] = (IF k = id THEN choice ELSE asked[k])
  BY <1>1, <1>4, <1>5
<1>10. \A k \in Ids : RowStep(k)
  BY <1>2, <1>4, <1>7, <1>8, <1>9 DEF RowStep
<1>11. DOMAIN rows' = Ids /\ rows' = [k \in Ids |-> rows'[k]] /\ asked' = [k \in Ids |-> asked'[k]]
  BY <1>1, <1>4, <1>5
<1>12. Tables' /\ ProofStep
  BY <1>1, <1>10, <1>11, TableSteps
<1>13. OnPlatform'
  BY <1>1, <1>6, <1>9, StaysOn
<1>14. JobOK'
  BY <1>1 DEF IInv, JobOK, At
<1> QED
  BY <1>1, <1>12, <1>13, <1>14, SameFiles, SameLight DEF IInv, Tables

\* Applied: the choice the row holds by now.
LEMMA BindStep ==
    ASSUME IInv, Bind
    PROVE  IInv' /\ ProofStep
<1> DEFINE id == job.id
<1>1. /\ UNCHANGED <<given, budget, dir, seen, live, light, asked>> /\ At("bind", "bind")
      /\ job' = [job EXCEPT !.at = "end"]
  BY DEF Bind, files
<1>2. JobOK' /\ OnPlatform'
  BY <1>1, OtherJob DEF IInv, JobOK, At, JobType
<1>3. Tables' /\ ProofStep
  <2>1. CASE ~(Exists(id) /\ rows[id].pending # None)
    <3>1. UNCHANGED rows
      BY <2>1 DEF Bind
    <3> QED
      BY <1>1, <3>1, SameTables
  <2>2. CASE id \notin Ids
    <3>1. UNCHANGED rows
      BY <2>2, <1>1 DEF Bind, IInv, TablesOK
    <3> QED
      BY <1>1, <3>1, SameTables
  <2>3. CASE id \in Ids /\ Exists(id) /\ rows[id].pending # None
    <3> DEFINE choice == rows[id].pending
               new    == Applied(rows[id], choice)
    <3>1. Good(rows[id]) /\ rows[id] \in RowType /\ Real(rows[id]) /\ rows[id].list # None
          /\ Stands(asked[id], rows[id])
      BY <2>3 DEF Exists, IInv, RowsOK, StandOK, Good
    <3>2. choice \in Choices
      BY <2>3, <3>1 DEF RowType
    <3>3. rows' = [rows EXCEPT ![id] = new]
      BY <2>3 DEF Bind, IInv, TablesOK
    <3> HIDE DEF id, choice
    <3>4. /\ Good(new) /\ new.torrent = rows[id].torrent
          /\ Stands(choice, new) /\ Outlive(rows[id], new)
      BY <3>1, <3>2, AppliedRow DEF IInv, FilesOK
    <3>5. asked[id] \in {choice, None}
      BY <3>1, <2>3 DEF Stands, choice
    <3>6. Stands(asked[id], new)
      BY <3>4, <3>5 DEF Stands
    <3> HIDE DEF new
    <3> QED
      BY <1>1, <2>3, <3>3, <3>4, <3>6, ChangedRow
  <2> QED
    BY <2>1, <2>2, <2>3
<1> QED
  BY <1>1, <1>2, <1>3, SameFiles, SameLight DEF IInv, Tables

-----------------------------------------------------------------------------
(* Steps that change one row *)

\* Of a task beside the mapping job.
LEMMA BesideRow ==
    ASSUME IInv, UNCHANGED <<given, dir, seen, live, asked, job>>, LightOK',
           UNCHANGED budget \/ \E e \in Events : Spend(e),
           NEW id \in Ids, rows[id] # None, NEW new, rows' = [rows EXCEPT ![id] = new],
           Good(new), Stands(asked[id], new), Outlive(rows[id], new),
           new.platform = rows[id].platform \/ rows[id].platform = None
    PROVE  IInv' /\ ProofStep
<1>1. Tables' /\ ProofStep
  BY ChangedRow
<1>2. \A k \in Ids : rows'[k] = IF k = id THEN new ELSE rows[k]
  BY DEF IInv, TablesOK
<1>3. OnPlatform'
  BY <1>2, StaysOn
<1>4. JobOK'
  BY DEF IInv, JobOK, At
<1> QED
  BY <1>1, <1>3, <1>4, SameFiles DEF IInv, Tables

\* Of the mapping job: the row stays on its platform.
LEMMA MappingRow ==
    ASSUME IInv, UNCHANGED <<given, budget, dir, seen, live, asked, light>>,
           JobOK', (job'.id = job.id /\ job'.arg = job.arg) \/ ~Mapping', Mapping,
           rows[job.id] # None, NEW new, rows' = [rows EXCEPT ![job.id] = new],
           Good(new), Stands(asked[job.id], new), Outlive(rows[job.id], new),
           new.platform = rows[job.id].platform
    PROVE  IInv' /\ ProofStep
<1>1. job.id \in Ids /\ job.arg \in Platforms /\ rows[job.id].platform = job.arg
  BY DEF IInv, OnPlatform
<1>2. Tables' /\ ProofStep
  BY <1>1, ChangedRow
<1>3. rows'[job.id] = new
  BY <1>1 DEF IInv, TablesOK
<1>4. OnPlatform'
  BY <1>1, <1>3 DEF OnPlatform
<1> QED
  BY <1>2, <1>4, SameFiles, SameLight DEF IInv, Tables

\* Switched off, or on again.
LEMMA ToggleStep ==
    ASSUME IInv, NEW id \in Ids, Toggle(id)
    PROVE  IInv' /\ ProofStep
<1> DEFINE row   == rows[id]
           state == IF row.state # "disabled" THEN "disabled"
                    ELSE IF row.platform # None THEN "bound"
                    ELSE IF row.list = None THEN "resolving" ELSE "unbound"
           new   == WithFlags(row, state, row.client)
<1>1. /\ UNCHANGED <<given, dir, seen, live, job, light, asked>> /\ \E e \in Events : Spend(e)
      /\ row # None
  BY DEF Toggle, files, lanes, Events, Exists
<1>2. rows \in [Ids -> RowType \cup {None}] /\ Good(row) /\ row \in RowType /\ Stands(asked[id], row)
  BY <1>1 DEF IInv, TablesOK, RowsOK, StandOK, Good
<1>3. rows' = [rows EXCEPT ![id].state = state]
  BY DEF Toggle
<1>4. rows' = [rows EXCEPT ![id] = new]
  <2> HIDE DEF state
  <2> QED
    BY <1>2, <1>3 DEF WithFlags, RowType
<1>5. /\ state \in {"resolving", "unbound", "bound", "disabled"}
      /\ state = "bound" => row.platform # None
      /\ state = "unbound" => row.list # None /\ row.platform = None
      /\ state = "resolving" => row.list = None
  OBVIOUS
<1>6. row.client \in Torrents \cup {None}
  BY <1>2 DEF RowType
<1> HIDE DEF state
<1>7. /\ Good(new) /\ new.torrent = row.torrent /\ new.platform = row.platform
      /\ Stands(asked[id], new) /\ Outlive(row, new)
  BY <1>2, <1>5, <1>6, FlagsOfRow
<1> HIDE DEF new
<1> QED
  BY <1>1, <1>4, <1>7, SameLight, BesideRow

\* The client's id of a source, or none.
LEMMA ClientSet ==
    ASSUME IInv, UNCHANGED <<given, dir, seen, live, job, asked>>, LightOK', light.at # "none",
           UNCHANGED budget \/ \E e \in Events : Spend(e), NEW t \in Torrents \cup {None}, SetClient(t)
    PROVE  IInv' /\ ProofStep
<1> DEFINE id  == light.id
           row == rows[id]
           new == WithFlags(row, row.state, t)
<1>1. id \in Ids
  BY DEF IInv, LightOK
<1>2. CASE row = None
  <2>1. UNCHANGED rows
    BY <1>2 DEF SetClient, Exists
  <2> QED
    BY <2>1, SameFiles, SameJob, Beside
<1>3. CASE row # None
  <2>1. rows \in [Ids -> RowType \cup {None}] /\ Good(row) /\ row \in RowType /\ Stands(asked[id], row)
    BY <1>1, <1>3 DEF IInv, TablesOK, RowsOK, StandOK, Good
  <2>2. rows' = [rows EXCEPT ![id] = new]
    BY <1>1, <1>3, <2>1 DEF WithFlags, RowType, SetClient, Exists
  <2>3. /\ Good(new) /\ new.torrent = row.torrent /\ new.platform = row.platform
        /\ Stands(asked[id], new) /\ Outlive(row, new)
    <3>1. /\ row.state \in {"resolving", "unbound", "bound", "disabled"}
          /\ row.state = "bound" => row.platform # None
          /\ row.state = "unbound" => row.list # None /\ row.platform = None
          /\ row.state = "resolving" => row.list = None
      BY <2>1 DEF Good, RowType
    <3> QED
      BY <2>1, <3>1, FlagsOfRow
  <2> HIDE DEF new
  <2> QED
    BY <1>1, <1>3, <2>2, <2>3, BesideRow
<1> QED
  BY <1>2, <1>3

LEMMA ResolveRecordStep ==
    ASSUME IInv, ResolveRecord
    PROVE  IInv' /\ ProofStep
<1>1. /\ UNCHANGED <<given, budget, dir, seen, live, job, asked>> /\ light.at # "none"
      /\ SetClient(light.torrent) /\ To("files")
  BY DEF ResolveRecord, files, Light
<1>2. light.torrent \in Torrents
  BY <1>1 DEF IInv, LightOK
<1> QED
  BY <1>1, <1>2, Moved, ClientSet

LEMMA ResolveFilesStep ==
    ASSUME IInv, ResolveFiles
    PROVE  IInv' /\ ProofStep
<1>1. UNCHANGED <<given, dir, seen, live, job, asked>> /\ light.at # "none"
  BY DEF ResolveFiles, files, Light
<1>2. \/ SetClient(None) /\ light' = NoLight /\ UNCHANGED budget
      \/ (To("stop") \/ light' = NoLight) /\ UNCHANGED <<rows, budget>>
      \/ Spend("call") /\ light' = NoLight /\ UNCHANGED rows
  BY DEF ResolveFiles, Fails, Ends
<1>3. LightOK'
  BY <1>1, <1>2, Moved
<1>4. UNCHANGED budget \/ \E e \in Events : Spend(e)
  BY <1>2 DEF Events
<1>5. CASE SetClient(None)
  BY <1>1, <1>3, <1>4, <1>5, ClientSet
<1>6. CASE UNCHANGED rows
  BY <1>1, <1>3, <1>4, <1>6, SameFiles, SameJob, Beside
<1> QED
  BY <1>2, <1>5, <1>6

\* Resolved: a row that resolves has no platform, no proof and no choice.
LEMMA ResolveStoreStep ==
    ASSUME IInv, ResolveStore
    PROVE  IInv' /\ ProofStep
<1> DEFINE id  == light.id
           t   == light.torrent
           row == rows[id]
           new == BoundBest(Relist(row, t))
<1>1. /\ UNCHANGED <<given, budget, dir, seen, live, job, asked>> /\ light.at # "none" /\ light' = NoLight
      /\ rows' = IF row # None /\ row.state = "resolving" THEN [rows EXCEPT ![id] = new] ELSE rows
  BY DEF ResolveStore, files, Light, Ends, Exists
<1>2. LightOK' /\ id \in Ids /\ t \in Torrents
  BY <1>1, Moved DEF IInv, LightOK
<1>3. CASE ~(row # None /\ row.state = "resolving")
  <2>1. UNCHANGED rows
    BY <1>1, <1>3
  <2> QED
    BY <1>1, <1>2, <2>1, SameFiles, SameJob, Beside
<1>4. CASE row # None /\ row.state = "resolving"
  <2>1. /\ row \in RowType /\ row.list = None /\ row.platform = None /\ row.pending = None
        /\ row.proof = {} /\ asked[id] = None
    BY <1>2, <1>4 DEF IInv, RowsOK, StandOK, Stands, Good
  <2>2. rows' = [rows EXCEPT ![id] = new]
    BY <1>1, <1>4
  <2> HIDE DEF row, t
  <2>3. Good(new)
    BY <1>2, <2>1, RelistRow DEF IInv, FilesOK
  <2> HIDE DEF new
  <2>4. Stands(asked[id], new) /\ Outlive(row, new)
    BY <2>1 DEF Stands, Outlive
  <2> QED
    BY <1>1, <1>2, <1>4, <2>1, <2>2, <2>3, <2>4, BesideRow DEF row
<1> QED
  BY <1>3, <1>4

\* Rebound: unbound sources whose platform the user did not choose.
LEMMA RebindStep ==
    ASSUME IInv, Rebind
    PROVE  IInv' /\ ProofStep
<1> DEFINE Waits(id) == Exists(id) /\ rows[id].state = "unbound" /\ ~rows[id].user
<1>1. /\ UNCHANGED <<given, budget, dir, seen, live, job, light, asked>>
      /\ rows' = [id \in Ids |-> IF Waits(id) THEN Rebound(rows[id]) ELSE rows[id]]
  BY DEF Rebind, files, lanes
<1>2. \A id \in Ids : rows'[id] = IF Waits(id) THEN Rebound(rows[id]) ELSE rows[id]
  BY <1>1
<1>3. ASSUME NEW id \in Ids, Waits(id)
      PROVE  /\ RowStep(id) /\ rows[id].platform = None
  <2> DEFINE row == rows[id]
             new == Rebound(row)
  <2>1. /\ Good(row) /\ row \in RowType /\ Real(row) /\ row.list # None /\ row.platform = None
        /\ ~row.user /\ Stands(asked[id], row) /\ asked[id] \in Choices \cup {None} /\ row # None
    BY <1>3 DEF Exists, IInv, TablesOK, RowsOK, StandOK, Good
  <2>2. /\ Good(new) /\ new.torrent = row.torrent /\ new.list = row.list /\ new.user = row.user
        /\ new.pending = row.pending /\ Outlive(row, new)
    BY <2>1, ReboundRow DEF IInv, FilesOK
  <2>3. rows'[id] = new
    BY <1>2, <1>3
  <2>4. asked'[id] = asked[id]
    BY <1>1
  <2>5. asked[id] # None => asked[id] = Automatic
    BY <2>1 DEF Stands
  <2> HIDE DEF row, new
  <2>6. Stands(asked[id], new)
    BY <2>1, <2>2, <2>5, Constants DEF Stands
  <2> QED
    BY <2>1, <2>2, <2>3, <2>4, <2>6 DEF RowStep, row
<1>4. \A id \in Ids : RowStep(id)
  <2> SUFFICES ASSUME NEW id \in Ids, ~Waits(id)
               PROVE  RowStep(id)
    BY <1>3
  <2> QED
    BY <1>1, <1>2 DEF RowStep
<1>5. DOMAIN rows' = Ids /\ rows' = [id \in Ids |-> rows'[id]] /\ asked' = [id \in Ids |-> asked'[id]]
  BY <1>1 DEF IInv, TablesOK
<1>6. Tables' /\ ProofStep
  BY <1>1, <1>4, <1>5, TableSteps
<1>7. OnPlatform'
  <2>1. \A id \in Ids : \/ rows'[id] = rows[id]
                        \/ rows[id] # None /\ rows[id].platform = None
    BY <1>2, <1>3 DEF Exists
  <2>2. \A id \in Ids : \/ rows'[id] = None
                        \/ /\ rows[id] # None
                           /\ rows'[id].platform = rows[id].platform \/ rows[id].platform = None
    BY <2>1
  <2> QED
    BY <1>1, <2>2, StaysOn
<1>8. JobOK'
  BY <1>1 DEF IInv, JobOK, At
<1> QED
  BY <1>1, <1>6, <1>7, <1>8, SameFiles, SameLight DEF IInv, Tables

-----------------------------------------------------------------------------
(* Mapping again: what is written *)

LEMMA MappedSource ==
    ASSUME IInv, Mapping, rows[job.id] # None
    PROVE  /\ job.id \in Ids /\ job.arg \in Platforms /\ rows[job.id].platform = job.arg
           /\ Good(rows[job.id]) /\ rows[job.id] \in RowType /\ Stands(asked[job.id], rows[job.id])
           /\ Real(rows[job.id]) /\ rows[job.id].list # None
<1>1. job.id \in Ids /\ job.arg \in Platforms /\ rows[job.id].platform = job.arg
  BY DEF IInv, OnPlatform
<1> QED
  BY <1>1, Constants DEF IInv, RowsOK, StandOK, Good

\* Proofs go with their roms.
LEMMA ForgotRow ==
    ASSUME NEW row, Good(row), NEW choice, Stands(choice, row), NEW p, row.platform = p
    PROVE  /\ Good(Forget(row, p)) /\ Stands(choice, Forget(row, p)) /\ Outlive(row, Forget(row, p))
           /\ Forget(row, p).platform = p
<1> DEFINE kept  == {i \in row.proof : row.match[i] \in Stamp(p)}
           match == [i \in Files |-> IF i \in row.proof \ kept THEN None ELSE row.match[i]]
           new   == WithFiles(row, match, kept, row.cand, row.bad, row.stamp)
<1>1. row \in RowType /\ Real(row)
  BY DEF Good
<1>2. Forget(row, p) = new
  <2>1. Forget(row, p) = [row EXCEPT !.proof = kept, !.match = match]
    BY <1>1 DEF Forget, RowType
  <2> HIDE DEF kept, match
  <2> QED
    BY <1>1, <2>1 DEF WithFiles, RowType
<1>3. match \in [Files -> Roms \cup {None}] /\ kept \in SUBSET Files
  BY <1>1 DEF RowType
<1>4. /\ \A i \in kept : match[i] = given.content[row.torrent][i]
      /\ \A i \in row.proof : \/ i \in kept /\ match[i] = row.match[i]
                              \/ row.match[i] \notin live \/ given.on[row.match[i]] # row.platform
  BY <1>1 DEF Real, RowType, Stamp
<1>5. kept # {} => row.list # None
  BY DEF Good
<1>6. row.cand \in SUBSET (Files \X Roms) /\ row.bad \in SUBSET (Files \X Roms)
      /\ row.stamp \in (SUBSET Roms) \cup {None}
  BY <1>1 DEF RowType
<1> HIDE DEF kept, match
<1> QED
  BY <1>2, <1>3, <1>4, <1>5, <1>6, FilesOfRow

LEMMA RemapForgetStep ==
    ASSUME IInv, RemapForget
    PROVE  IInv' /\ ProofStep
<1> DEFINE row == rows[job.id]
           new == Forget(row, job.arg)
<1>1. /\ UNCHANGED <<given, budget, dir, seen, live, light, asked>> /\ At("remap", "forget")
      /\ job' = [job EXCEPT !.at = "plan"]
      /\ rows' = IF row # None THEN [rows EXCEPT ![job.id] = new] ELSE rows
  BY DEF RemapForget, files, Exists
<1>2. /\ job' \in JobType /\ job'.kind = "remap" /\ job'.at = "plan" /\ job'.id = job.id
      /\ job'.arg = job.arg /\ Mapping
  BY <1>1 DEF IInv, JobOK, JobType, At, Mapping
<1>3. JobOK'
  BY <1>2 DEF JobOK, At
<1>4. CASE row = None
  <2>1. UNCHANGED rows
    BY <1>1, <1>4
  <2>2. OnPlatform'
    BY <1>2, <1>4, <2>1 DEF IInv, OnPlatform
  <2> QED
    BY <1>1, <1>3, <2>1, <2>2, SameFiles, SameLight, Beside
<1>5. CASE row # None
  <2>1. /\ row.platform = job.arg /\ Good(row) /\ Stands(asked[job.id], row)
    BY <1>2, <1>5, MappedSource
  <2>2. rows' = [rows EXCEPT ![job.id] = new]
    BY <1>1, <1>5
  <2> HIDE DEF row
  <2>3. /\ Good(new) /\ Stands(asked[job.id], new) /\ Outlive(row, new) /\ new.platform = row.platform
    BY <2>1, ForgotRow
  <2> HIDE DEF new
  <2> QED
    BY <1>1, <1>2, <1>3, <1>5, <2>2, <2>3, MappingRow DEF row
<1> QED
  BY <1>4, <1>5

\* A piece leaves a proved file's match alone.
LEMMA WrittenRow ==
    ASSUME NEW row, Good(row), NEW choice, Stands(choice, row), NEW piece \in PieceType
    PROVE  LET new == Write(row, piece.matches, piece.remove, piece.add)
           IN  /\ Good(new) /\ Stands(choice, new) /\ Outlive(row, new)
               /\ new.platform = row.platform
<1> DEFINE match == [i \in Files |-> IF i \notin row.proof /\ \E m \in piece.matches : m[1] = i
                                     THEN (CHOOSE m \in piece.matches : m[1] = i)[2] ELSE row.match[i]]
           cand  == (row.cand \ piece.remove) \cup
                        {c \in piece.add : c[1] \notin row.proof /\ c \notin row.bad}
           new   == WithFiles(row, match, row.proof, cand, row.bad, row.stamp)
<1>1. row \in RowType /\ Real(row)
  BY DEF Good
<1>2. Write(row, piece.matches, piece.remove, piece.add) = new
  <2>1. Write(row, piece.matches, piece.remove, piece.add) = [row EXCEPT !.match = match, !.cand = cand]
    BY <1>1 DEF Write, RowType
  <2> HIDE DEF match, cand
  <2> QED
    BY <1>1, <2>1 DEF WithFiles, RowType
<1>3. match \in [Files -> Roms \cup {None}]
  <2> SUFFICES ASSUME NEW i \in Files
               PROVE  match[i] \in Roms \cup {None}
    OBVIOUS
  <2>1. CASE i \notin row.proof /\ \E m \in piece.matches : m[1] = i
    <3> DEFINE m == CHOOSE m \in piece.matches : m[1] = i
    <3>1. m \in piece.matches
      BY <2>1
    <3>2. m[2] \in Roms \cup {None}
      BY <3>1 DEF PieceType
    <3> QED
      BY <2>1, <3>2
  <2>2. CASE ~(i \notin row.proof /\ \E m \in piece.matches : m[1] = i)
    BY <1>1, <2>2 DEF RowType
  <2> QED
    BY <2>1, <2>2
<1>4. cand \in SUBSET (Files \X Roms)
  BY <1>1 DEF RowType, PieceType
<1>5. \A i \in row.proof : i \in Files /\ match[i] = row.match[i]
  BY <1>1 DEF RowType
<1>6. \A i \in row.proof : match[i] = given.content[row.torrent][i]
  BY <1>1, <1>5 DEF Real
<1>7. row.proof # {} => row.list # None
  BY DEF Good
<1>8. row.proof \in SUBSET Files /\ row.bad \in SUBSET (Files \X Roms)
      /\ row.stamp \in (SUBSET Roms) \cup {None}
  BY <1>1 DEF RowType
<1> HIDE DEF match, cand
<1> QED
  BY <1>2, <1>3, <1>4, <1>5, <1>6, <1>7, <1>8, FilesOfRow

LEMMA RemapWriteStep ==
    ASSUME IInv, RemapWrite
    PROVE  IInv' /\ ProofStep
<1> DEFINE row   == rows[job.id]
           piece == Head(job.plan.pieces)
           new   == Write(row, piece.matches, piece.remove, piece.add)
<1>1. /\ UNCHANGED <<given, budget, dir, seen, live, light, asked>> /\ At("remap", "write")
      /\ job.plan.pieces # <<>>
  BY DEF RemapWrite, files
<1>2. job \in JobType /\ job.plan \in PlanType /\ Mapping
  BY <1>1 DEF IInv, JobOK, At, Mapping
<1>3. /\ piece \in PieceType /\ Tail(job.plan.pieces) \in Seq(PieceType)
  <2> HIDE DEF PieceType
  <2> QED
    BY <1>1, <1>2 DEF PlanType
<1>4. CASE StillOn
  <2> DEFINE plan == [job.plan EXCEPT !.pieces = Tail(job.plan.pieces)]
  <2>1. row # None /\ rows' = [rows EXCEPT ![job.id] = new] /\ job' = [job EXCEPT !.plan = plan]
    BY <1>2, <1>4 DEF RemapWrite, StillOn, Exists, JobType, IInv, TablesOK
  <2>2. plan \in PlanType
    BY <1>2, <1>3 DEF PlanType
  <2> HIDE DEF plan, PlanType, PieceType
  <2>3. /\ job' \in JobType /\ job'.plan = plan /\ job'.id = job.id /\ job'.arg = job.arg
        /\ job'.kind = job.kind
    BY <1>2, <2>1, <2>2 DEF JobType
  <2>4. JobOK'
    BY <1>1, <2>2, <2>3 DEF JobOK, At
  <2>5. /\ row.platform = job.arg /\ Good(row) /\ Stands(asked[job.id], row)
    BY <1>2, <2>1, MappedSource
  <2> HIDE DEF row, piece
  <2>6. /\ Good(new) /\ Stands(asked[job.id], new) /\ Outlive(row, new) /\ new.platform = row.platform
    BY <1>3, <2>5, WrittenRow
  <2> HIDE DEF new
  <2> QED
    BY <1>1, <1>2, <2>1, <2>3, <2>4, <2>6, MappingRow DEF row
<1>5. CASE ~StillOn
  <2>1. NextSource /\ UNCHANGED rows
    BY <1>5 DEF RemapWrite
  <2> QED
    BY <1>1, <2>1, NextSourceJob, SameFiles, SameLight, Beside DEF At
<1> QED
  BY <1>4, <1>5

\* The stamp, and on to the next source.
LEMMA RemapStampStep ==
    ASSUME IInv, RemapStamp
    PROVE  IInv' /\ ProofStep
<1> DEFINE row == rows[job.id]
           new == WithFiles(row, row.match, row.proof, row.cand, row.bad, job.plan.stamp)
<1>1. /\ UNCHANGED <<given, budget, dir, seen, live, light, asked>> /\ At("remap", "write") /\ NextSource
      /\ rows' = IF StillOn THEN [rows EXCEPT ![job.id].stamp = job.plan.stamp] ELSE rows
  BY DEF RemapStamp, files
<1>2. job \in JobType /\ job.plan \in PlanType /\ Mapping
  BY <1>1 DEF IInv, JobOK, At, Mapping
<1>3. JobOK' /\ OnPlatform'
  BY <1>1, NextSourceJob DEF At
<1>4. ~Mapping'
  BY <1>1 DEF NextSource, Mapping, IInv, JobOK, JobType
<1>5. CASE StillOn
  <2>1. row # None
    BY <1>5 DEF StillOn, Exists
  <2>2. /\ row.platform = job.arg /\ Good(row) /\ row \in RowType /\ Real(row)
        /\ Stands(asked[job.id], row) /\ job.id \in Ids
    BY <1>2, <2>1, MappedSource
  <2>3. rows' = [rows EXCEPT ![job.id] = new]
    BY <1>1, <1>5, <2>1, <2>2 DEF WithFiles, RowType, IInv, TablesOK
  <2>4. job.plan.stamp \in (SUBSET Roms) \cup {None}
    BY <1>2 DEF PlanType
  <2> HIDE DEF row
  <2>5. /\ row.match \in [Files -> Roms \cup {None}] /\ row.proof \in SUBSET Files
        /\ row.cand \in SUBSET (Files \X Roms) /\ row.bad \in SUBSET (Files \X Roms)
    BY <2>2 DEF RowType
  <2>6. row.proof # {} => row.list # None
    BY <2>2 DEF Good
  <2>7. \A i \in row.proof : row.match[i] = given.content[row.torrent][i]
    BY <2>2 DEF Real
  <2>8. /\ Good(new) /\ Stands(asked[job.id], new) /\ Outlive(row, new) /\ new.platform = row.platform
    BY <2>2, <2>4, <2>5, <2>6, <2>7, FilesOfRow
  <2> HIDE DEF new
  <2> QED
    BY <1>1, <1>2, <1>3, <1>4, <2>1, <2>3, <2>8, MappingRow DEF row
<1>6. CASE ~StillOn
  BY <1>1, <1>3, <1>6, SameFiles, SameLight, Beside
<1> QED
  BY <1>5, <1>6

-----------------------------------------------------------------------------
(* Judging a file by its hash *)

\* Proved to be what it is.
LEMMA ProvedRow ==
    ASSUME given \in Cases, NEW row, Good(row), row.list # None, NEW choice, Stands(choice, row),
           NEW i \in Files
    PROVE  LET new == Prove(row, i, given.content[row.torrent][i])
           IN  /\ Good(new) /\ Stands(choice, new) /\ Outlive(row, new) /\ new.platform = row.platform
               /\ new.torrent = row.torrent /\ new.list = row.list
<1> DEFINE real  == given.content[row.torrent][i]
           match == [row.match EXCEPT ![i] = real]
           proof == row.proof \cup {i}
           cand  == {c \in row.cand : c[1] # i}
           new   == WithFiles(row, match, proof, cand, row.bad, row.stamp)
<1>1. row \in RowType /\ Real(row)
  BY DEF Good
<1>2. real \in Roms
  BY <1>1, GivenFacts DEF RowType
<1>3. Prove(row, i, real) = new
  <2>1. Prove(row, i, real) = [row EXCEPT !.match = match, !.proof = proof, !.cand = cand]
    BY <1>1 DEF Prove, RowType
  <2> HIDE DEF match, proof, cand, real
  <2> QED
    BY <1>1, <2>1 DEF WithFiles, RowType
<1>4. row.match \in [Files -> Roms \cup {None}] /\ row.proof \in SUBSET Files
  BY <1>1 DEF RowType
<1>5. match \in [Files -> Roms \cup {None}] /\ proof \in SUBSET Files
  BY <1>2, <1>4
<1>6. \A j \in row.proof : row.match[j] = given.content[row.torrent][j]
  BY <1>1 DEF Real
<1>7. /\ \A j \in proof : match[j] = given.content[row.torrent][j]
      /\ \A j \in row.proof : j \in proof /\ match[j] = row.match[j]
  BY <1>4, <1>6
<1>8. cand \in SUBSET (Files \X Roms) /\ row.bad \in SUBSET (Files \X Roms)
      /\ row.stamp \in (SUBSET Roms) \cup {None}
  BY <1>1 DEF RowType
<1>9. new.list = row.list
  BY <1>1 DEF WithFiles, RowType
<1> HIDE DEF match, proof, cand
<1> QED
  BY <1>3, <1>5, <1>7, <1>8, <1>9, FilesOfRow DEF real

\* Ruled out to be what it is not.
LEMMA DroppedPair ==
    ASSUME given \in Cases, NEW row, Good(row), NEW choice, Stands(choice, row),
           NEW i \in Files, NEW r \in Roms, r # given.content[row.torrent][i]
    PROVE  LET new == DropPair(row, i, r)
           IN  /\ Good(new) /\ Stands(choice, new) /\ Outlive(row, new) /\ new.platform = row.platform
               /\ new.proof = row.proof /\ \A j \in row.proof : new.match[j] = row.match[j]
<1> DEFINE cand  == row.cand \ {<<i, r>>}
           match == [row.match EXCEPT ![i] = IF row.match[i] = r THEN None ELSE row.match[i]]
           proof == IF row.match[i] = r THEN row.proof \ {i} ELSE row.proof
           bad   == row.bad \cup {<<i, r>>}
           new   == WithFiles(row, match, proof, cand, bad, row.stamp)
<1>1. row \in RowType /\ Real(row)
  BY DEF Good
<1>2. row.match \in [Files -> Roms \cup {None}] /\ row.proof \in SUBSET Files
  BY <1>1 DEF RowType
<1>3. \A j \in row.proof : row.match[j] = given.content[row.torrent][j]
  BY <1>1 DEF Real
<1>4. match \in [Files -> Roms \cup {None}]
  BY <1>2
<1>5. proof = row.proof /\ \A j \in row.proof : match[j] = row.match[j]
  BY <1>2, <1>3
<1>6. DropPair(row, i, r) = new
  <2>1. DropPair(row, i, r) = [row EXCEPT !.cand = cand, !.match = match, !.proof = proof, !.bad = bad]
    BY <1>1 DEF DropPair, RowType
  <2> HIDE DEF cand, match, proof, bad
  <2> QED
    BY <1>1, <2>1 DEF WithFiles, RowType
<1>7. cand \in SUBSET (Files \X Roms) /\ bad \in SUBSET (Files \X Roms)
      /\ row.stamp \in (SUBSET Roms) \cup {None}
  BY <1>1 DEF RowType
<1>8. row.proof # {} => row.list # None
  BY DEF Good
<1>9. new.match = match /\ new.proof = proof
  <2> HIDE DEF match, proof, cand, bad
  <2> QED
    BY <1>1 DEF WithFiles, RowType
<1> HIDE DEF match, proof, cand, bad
<1> QED
  BY <1>2, <1>3, <1>4, <1>5, <1>6, <1>7, <1>8, <1>9, FilesOfRow

LEMMA JudgeStep ==
    ASSUME IInv, NEW id \in Ids, NEW i \in Files, Judge(id, i)
    PROVE  IInv' /\ ProofStep
<1> DEFINE row  == rows[id]
           real == given.content[row.torrent][i]
           sure == Prove(row, i, real)
<1>1. /\ UNCHANGED <<given, dir, seen, live, job, light, asked>> /\ \E e \in Events : Spend(e)
      /\ row # None /\ row.state = "bound"
  BY DEF Judge, files, lanes, Events, Exists
<1>2. /\ Good(row) /\ Stands(asked[id], row) /\ row.list # None /\ row.torrent \in Torrents
  BY <1>1 DEF IInv, RowsOK, StandOK, Good, RowType
<1>3. PICK r \in Roms :
        \/ r = real /\ rows' = [rows EXCEPT ![id] = Prove(row, i, r)]
        \/ r # real /\ rows' = [rows EXCEPT ![id] = DropPair(IF real \in live THEN sure ELSE row, i, r)]
  BY DEF Judge
<1>4. /\ Good(sure) /\ Stands(asked[id], sure) /\ Outlive(row, sure) /\ sure.platform = row.platform
      /\ sure.torrent = row.torrent
  BY <1>2, ProvedRow DEF IInv, FilesOK
<1> HIDE DEF row, sure
<1>5. CASE r = real /\ rows' = [rows EXCEPT ![id] = Prove(row, i, r)]
  <2>1. rows' = [rows EXCEPT ![id] = sure]
    BY <1>5 DEF sure
  <2> QED
    BY <1>1, <1>4, <2>1, SameLight, BesideRow DEF row
<1>6. CASE r # real /\ rows' = [rows EXCEPT ![id] = DropPair(IF real \in live THEN sure ELSE row, i, r)]
  <2> DEFINE old == IF real \in live THEN sure ELSE row
             new == DropPair(old, i, r)
  <2>1. /\ Good(old) /\ Stands(asked[id], old) /\ Outlive(row, old) /\ old.platform = row.platform
        /\ old.torrent = row.torrent
    BY <1>2, <1>4 DEF Outlive
  <2>2. rows' = [rows EXCEPT ![id] = new] /\ r # given.content[old.torrent][i]
    BY <1>6, <2>1
  <2> HIDE DEF old
  <2>3. /\ Good(new) /\ Stands(asked[id], new) /\ new.platform = old.platform
        /\ new.proof = old.proof /\ \A j \in old.proof : new.match[j] = old.match[j]
    BY <2>1, <2>2, DroppedPair DEF IInv, FilesOK
  <2>4. Outlive(row, new)
    BY <2>1, <2>3 DEF Outlive
  <2> HIDE DEF new
  <2> QED
    BY <1>1, <2>1, <2>2, <2>3, <2>4, SameLight, BesideRow DEF row
<1> QED
  BY <1>3, <1>5, <1>6

-----------------------------------------------------------------------------
(* The invariant *)

LEMMA InitIInv == Init => IInv
<1> SUFFICES ASSUME Init PROVE IInv
  OBVIOUS
<1>1. FilesOK
  BY GivenFacts DEF Init, FilesOK
<1>2. TablesOK /\ RowsOK /\ StandOK
  BY DEF Init, TablesOK, RowsOK, StandOK, Stands
<1>3. JobOK /\ OnPlatform
  BY IdleJob DEF Init, JobOK, OnPlatform, Mapping, At
<1>4. LightOK
  BY DEF Init, LightOK, NoLight
<1> QED
  BY <1>1, <1>2, <1>3, <1>4 DEF IInv

LEMMA BackgroundStep ==
    ASSUME IInv, Background
    PROVE  IInv' /\ ProofStep
BY ImportTorrentStep, ImportMagnetStep, ImportRejectStep, PlaceStep, BindStep, BindEndStep, BindStartStep,
   RemapLookStep, RemapForgetStep, RemapPlanStep, RemapWriteStep, RemapStampStep, RemapEndStep,
   RemapStartStep DEF Background

LEMMA WorldStep ==
    ASSUME IInv, World
    PROVE  IInv' /\ ProofStep
<1>1. CASE \E f \in Drops : Drop(f)
  BY <1>1, DropStep
<1>2. CASE \E id \in Ids : Toggle(id) \/ Remove(id)
  BY <1>2, ToggleStep, RemoveStep
<1>3. CASE \E id \in Ids : \E c \in given.asks : Ask(id, c)
  BY <1>3, AskStep
<1>4. CASE \E id \in Ids : \E i \in Files : Judge(id, i)
  BY <1>4, JudgeStep
<1>5. CASE \E new \in given.loads : Load(new)
  BY <1>5, LoadStep
<1>6. CASE \E t \in Torrents : Metadata(t)
  BY <1>6, MetadataStep
<1>7. CASE Crash
  BY <1>7, CrashStep
<1> QED
  BY <1>1, <1>2, <1>3, <1>4, <1>5, <1>6, <1>7 DEF World

\* Every step keeps the invariant, and every proof that it need not drop.
LEMMA NextStep ==
    ASSUME IInv, [Next]_vars
    PROVE  IInv' /\ ProofStep
<1>1. CASE ImportSteps
  BY <1>1, WatchStep, ImportStartStep DEF ImportSteps
<1>2. CASE Background
  BY <1>2, BackgroundStep
<1>3. CASE Resolving
  BY <1>3, ResolveAddStep, ResolveRunStep, ResolveRecordStep, ResolveFilesStep, ResolveStopStep,
     ResolveUnwantStep, ResolveStoreStep DEF Resolving
<1>4. CASE \E id \in Ids : ResolveStart(id)
  BY <1>4, ResolveStartStep
<1>5. CASE Requests
  BY <1>5, AskQueuedStep, RemoveTorrentStep, RemoveRowStep DEF Requests
<1>6. CASE FollowUp
  BY <1>6, RebindStep, RemapQueuedStep DEF FollowUp
<1>7. CASE World
  BY <1>7, WorldStep
<1>8. CASE UNCHANGED vars
  <2>1. UNCHANGED <<given, budget, dir, seen, rows, live, job, light, asked>>
    BY <1>8 DEF vars, files, lanes
  <2> QED
    BY <2>1, SameFiles, SameJob, SameLight, Beside
<1> QED
  BY <1>1, <1>2, <1>3, <1>4, <1>5, <1>6, <1>7, <1>8 DEF Next

LEMMA Invariance == Spec => []IInv
<1>1. IInv /\ [Next]_vars => IInv'
  BY NextStep
<1> QED
  BY InitIInv, <1>1, PTL DEF Spec

LEMMA GoodRow == ASSUME NEW row, Good(row) PROVE RowOK(row)
BY DEF Good, RowType, RowOK

-----------------------------------------------------------------------------
(* What every behaviour has *)

\* The state keeps its types; a bound source has a platform, and one with a platform its files.
THEOREM TypeCorrect == Spec => []TypeOK
<1>1. IInv => TypeOK
  BY GoodRow DEF IInv, FilesOK, TablesOK, RowsOK, JobOK, JobType, LightOK, TypeOK, Exists
<1> QED
  BY <1>1, Invariance, PTL

\* The user's last choice of a platform, or of none, is what a source holds or waits to: no
\* binding, no re-map and no re-bind of a catalogue change undoes it, in whatever order they
\* and further choices come.
THEOREM ChoiceAlwaysStands == Spec => []ChoiceStands
<1>1. IInv => ChoiceStands
  BY DEF IInv, StandOK, Stands, ChoiceStands
<1> QED
  BY <1>1, Invariance, PTL

\* What an import proved of a file by its hash outlives every mapping, also one that was planned
\* before the proof was there: it goes with its rom, its platform or its source.
THEOREM ProofsAlwaysStand == Spec => ProofStands
<1>1. IInv /\ [Next]_vars =>
        [\A id \in Ids : Exists(id) /\ rows'[id] # None /\ rows'[id].torrent = rows[id].torrent =>
            \A i \in rows[id].proof :
               \/ i \in rows'[id].proof /\ rows'[id].match[i] = rows[id].match[i]
               \/ rows'[id].platform = None
               \/ rows[id].match[i] \notin live \/ given.on[rows[id].match[i]] # rows'[id].platform]_vars
  BY NextStep DEF ProofStep, Outlive, Exists
<1> QED
  BY <1>1, Invariance, PTL DEF Spec, ProofStands

=============================================================================
