---------------------------- MODULE CatalogProofs ----------------------------
(***************************************************************************)
(* What is proved of the catalogue, for every set of DATs, files, games and *)
(* preferences, every rule for family keys and every case: its types; what  *)
(* is listed is what the current versions list (ListIsCurrent); groups and  *)
(* picks are right once nothing is left to do (GroupsHold, PicksFollow); a  *)
(* version gives way only to a newer one (NewestWins); rows and wants stay  *)
(* (KeepsWants).  Last, of the way a DAT's file comes in, which has nothing *)
(* in common with the catalogue's state: a cancel that was answered is      *)
(* heeded (CancelHeeded), no file is written over (KeepsFiles) and no       *)
(* temporary file is left (NothingLeft).                                    *)
(*                                                                         *)
(* First what the operators do - the least number, the order of variants,   *)
(* each step of a recompute and of a load -, then what each step does to    *)
(* the tables, then the invariants.                                         *)
(***************************************************************************)
EXTENDS Catalog, UrlFetch, FiniteSetTheorems, SequenceTheorems, WellFoundedInduction, TLAPS

-----------------------------------------------------------------------------
(* Numbers and orders *)

\* A set of numbers has a least one.
LEMMA LeastIn ==
    ASSUME NEW S, S \subseteq Nat, S # {}
    PROVE  Least(S) \in S /\ \A y \in S : Least(S) <= y
<1>1. PICK x \in S : \A y \in S : <<y, x>> \notin OpToRel(<, Nat)
  BY NatLessThanWellFounded, WFMin
<1>2. \A y \in S : x <= y
  <2> SUFFICES ASSUME NEW y \in S
               PROVE  x <= y
    OBVIOUS
  <2>1. x \in Nat /\ y \in Nat
    OBVIOUS
  <2>2. ~(y < x)
    BY <1>1, <2>1 DEF OpToRel
  <2> QED
    BY <2>1, <2>2
<1> QED
  BY <1>2 DEF Least

\* A finite set has a last one in any order that is total and transitive on it.
LEMMA LastIn ==
    ASSUME NEW S, IsFiniteSet(S), S # {}, NEW R,
           \A d, e \in S : <<d, e>> \in R \/ <<e, d>> \in R,
           \A d, e, g \in S : <<d, e>> \in R /\ <<e, g>> \in R => <<d, g>> \in R
    PROVE  \E d \in S : \A e \in S : <<e, d>> \in R
<1> DEFINE After(d) == {e \in S : <<e, d>> \notin R}
           N == {Cardinality(After(d)) : d \in S}
<1>1. \A d \in S : IsFiniteSet(After(d)) /\ Cardinality(After(d)) \in Nat
  <2> SUFFICES ASSUME NEW d \in S
               PROVE  IsFiniteSet(After(d)) /\ Cardinality(After(d)) \in Nat
    OBVIOUS
  <2>1. After(d) \subseteq S
    OBVIOUS
  <2> HIDE DEF After
  <2> QED
    BY <2>1, FS_Subset, FS_CardinalityType
<1>2. N \subseteq Nat /\ N # {}
  BY <1>1
<1>3. Least(N) \in N /\ \A n \in N : Least(N) <= n
  BY <1>2, LeastIn
<1>4. PICK d \in S : Cardinality(After(d)) = Least(N)
  BY <1>3
<1>5. After(d) = {}
  <2> SUFFICES ASSUME NEW e \in After(d)
               PROVE  FALSE
    OBVIOUS
  <2>1. e \in S /\ <<e, d>> \notin R /\ <<d, e>> \in R /\ <<e, e>> \in R
    OBVIOUS
  <2>2. After(e) \subseteq After(d) /\ e \notin After(e)
    BY <2>1
  <2> HIDE DEF After
  <2>3. Cardinality(After(d)) <= Cardinality(After(e))
    <3>1. Cardinality(After(e)) \in N
      BY <2>1
    <3> QED
      BY <1>3, <1>4, <3>1
  <2>4. Cardinality(After(e)) <= Cardinality(After(d))
        /\ (Cardinality(After(e)) = Cardinality(After(d)) => After(e) = After(d))
    BY <1>1, <2>2, FS_Subset
  <2>5. Cardinality(After(e)) \in Nat /\ Cardinality(After(d)) \in Nat
    BY <1>1, <2>1
  <2> QED
    BY <2>2, <2>3, <2>4, <2>5
<1> QED
  BY <1>5

-----------------------------------------------------------------------------
(* The pick of a group *)

Ranks == [1..7 -> Int]

LEMMA BelowTotal ==
    ASSUME NEW a \in Ranks, NEW b \in Ranks
    PROVE  Below(a, b) \/ Below(b, a) \/ a = b
<1> DEFINE D == {i \in 1..7 : a[i] # b[i]}
<1>1. CASE D = {}
  BY <1>1 DEF Ranks
<1>2. CASE D # {}
  <2>1. D \subseteq Nat
    OBVIOUS
  <2>2. Least(D) \in D /\ \A j \in D : Least(D) <= j
    BY <1>2, <2>1, LeastIn
  <2>3. PICK i \in 1..7 : a[i] # b[i] /\ \A j \in 1..(i - 1) : a[j] = b[j]
    <3>1. Least(D) \in 1..7 /\ a[Least(D)] # b[Least(D)]
      BY <2>2
    <3>2. \A j \in 1..(Least(D) - 1) : j \in 1..7 /\ j \notin D
      BY <2>2, <3>1
    <3> QED
      BY <3>1, <3>2
  <2>4. a[i] < b[i] \/ b[i] < a[i]
    BY <2>3 DEF Ranks
  <2> QED
    BY <2>3, <2>4 DEF Below
<1> QED
  BY <1>1, <1>2

LEMMA BelowStrict ==
    ASSUME NEW a \in Ranks, NEW b \in Ranks, Below(a, b)
    PROVE  ~Below(b, a)
<1>1. PICK i \in 1..7 : a[i] < b[i] /\ \A j \in 1..(i - 1) : a[j] = b[j]
  BY DEF Below
<1> SUFFICES ASSUME NEW k \in 1..7, b[k] < a[k], \A j \in 1..(k - 1) : b[j] = a[j]
             PROVE  FALSE
  BY DEF Below
<1>2. a[i] \in Int /\ b[i] \in Int /\ a[k] \in Int /\ b[k] \in Int
  BY DEF Ranks
<1>3. CASE i < k
  <2>1. i \in 1..(k - 1)
    BY <1>3
  <2> QED
    BY <1>1, <1>2, <2>1
<1>4. CASE k < i
  <2>1. k \in 1..(i - 1)
    BY <1>4
  <2> QED
    BY <1>1, <1>2, <2>1
<1>5. CASE i = k
  BY <1>1, <1>2, <1>5
<1> QED
  BY <1>3, <1>4, <1>5

LEMMA BelowTransitive ==
    ASSUME NEW a \in Ranks, NEW b \in Ranks, NEW c \in Ranks, Below(a, b), Below(b, c)
    PROVE  Below(a, c)
<1>1. PICK i \in 1..7 : a[i] < b[i] /\ \A j \in 1..(i - 1) : a[j] = b[j]
  BY DEF Below
<1>2. PICK k \in 1..7 : b[k] < c[k] /\ \A j \in 1..(k - 1) : b[j] = c[j]
  BY DEF Below
<1>3. a[i] \in Int /\ b[i] \in Int /\ c[i] \in Int /\ a[k] \in Int /\ b[k] \in Int /\ c[k] \in Int
  BY DEF Ranks
<1>4. CASE i < k
  <2>1. i \in 1..(k - 1) /\ \A j \in 1..(i - 1) : j \in 1..(k - 1)
    BY <1>4
  <2>2. a[i] < c[i] /\ \A j \in 1..(i - 1) : a[j] = c[j]
    BY <1>1, <1>2, <1>3, <2>1
  <2> QED
    BY <2>2 DEF Below
<1>5. CASE k <= i
  <2>1. \A j \in 1..(k - 1) : j \in 1..(i - 1)
    BY <1>5
  <2>2. k < i => k \in 1..(i - 1)
    OBVIOUS
  <2>3. a[k] < c[k]
    BY <1>1, <1>2, <1>3, <1>5, <2>2
  <2>4. \A j \in 1..(k - 1) : a[j] = c[j]
    BY <1>1, <1>2, <2>1
  <2> QED
    BY <2>3, <2>4 DEF Below
<1> QED
  BY <1>4, <1>5

\* A group's variants have ranks, and are known by their ids.
IsGroup(group, p) ==
    /\ IsFiniteSet(group) /\ \A v \in group : Rank(v, p) \in Ranks
    /\ \A v, w \in group : v.id = w.id => v = w

\* The pick is the one that no other shown variant is better than.
LEMMA SelectOne ==
    ASSUME NEW group, NEW p, IsGroup(group, p)
    PROVE  /\ Select(group, p) \subseteq {v \in group : ~Hidden(v, p)}
           /\ {v \in group : ~Hidden(v, p)} = {} => Select(group, p) = {}
           /\ {v \in group : ~Hidden(v, p)} # {} => \E v : Select(group, p) = {v}
           /\ \A v \in Select(group, p) : \A w \in group : ~Hidden(w, p) => ~Better(w, v, p)
<1> DEFINE shown == {v \in group : ~Hidden(v, p)}
           picks == Select(group, p)
           R == {x \in shown \X shown : ~Below(Rank(x[1], p), Rank(x[2], p))}
<1>1. /\ picks \subseteq shown
      /\ \A v \in picks : \A w \in shown : ~Below(Rank(w, p), Rank(v, p))
      /\ \A v \in shown : (\A w \in shown : ~Below(Rank(w, p), Rank(v, p))) => v \in picks
  BY DEF Select, Better
<1>2. \A v \in shown : Rank(v, p) \in Ranks /\ v \in group
  BY DEF IsGroup
<1>3. ASSUME shown # {}
      PROVE  \E v : picks = {v}
  <2>1. IsFiniteSet(shown)
    BY FS_Subset DEF IsGroup
  <2>2. \A d, e \in shown : <<d, e>> \in R <=> ~Below(Rank(d, p), Rank(e, p))
    OBVIOUS
  <2> HIDE DEF R, shown
  <2>3. \A d, e \in shown : <<d, e>> \in R \/ <<e, d>> \in R
    BY <1>2, <2>2, BelowStrict
  <2>4. \A d, e, g \in shown : <<d, e>> \in R /\ <<e, g>> \in R => <<d, g>> \in R
    <3> SUFFICES ASSUME NEW d \in shown, NEW e \in shown, NEW g \in shown,
                        ~Below(Rank(d, p), Rank(e, p)), ~Below(Rank(e, p), Rank(g, p)),
                        Below(Rank(d, p), Rank(g, p))
                 PROVE  FALSE
      BY <2>2
    <3>1. Rank(d, p) \in Ranks /\ Rank(e, p) \in Ranks /\ Rank(g, p) \in Ranks
      BY <1>2
    <3>2. Below(Rank(e, p), Rank(d, p)) \/ Rank(d, p) = Rank(e, p)
      BY <3>1, BelowTotal
    <3>3. Below(Rank(e, p), Rank(g, p))
      BY <3>1, <3>2, BelowTransitive
    <3> QED
      BY <3>3
  <2>5. PICK v \in shown : \A w \in shown : <<w, v>> \in R
    BY <1>3, <2>1, <2>3, <2>4, LastIn
  <2>6. v \in picks
    BY <1>1, <2>2, <2>5
  <2>7. \A w \in picks : w = v
    <3> SUFFICES ASSUME NEW w \in picks
                 PROVE  w = v
      OBVIOUS
    <3>1. w \in shown /\ v \in shown /\ ~Below(Rank(w, p), Rank(v, p)) /\ ~Below(Rank(v, p), Rank(w, p))
      BY <1>1, <2>6
    <3>2. Rank(w, p) = Rank(v, p)
      BY <1>2, <3>1, BelowTotal
    <3>3. Rank(w, p)[7] = w.id /\ Rank(v, p)[7] = v.id
      BY DEF Rank
    <3> QED
      BY <1>2, <3>1, <3>2, <3>3 DEF IsGroup
  <2> QED
    BY <2>6, <2>7
<1> QED
  BY <1>1, <1>3 DEF Better

LEMMA RankType ==
    ASSUME NEW v, NEW p \in Preferences, v.revision \in Int, v.name \in Int, v.id \in Int
    PROVE  Rank(v, p) \in Ranks
<1> DEFINE places == {i \in 1..Len(p.regions) : p.regions[i] \in v.regions}
<1>1. Len(p.regions) \in Nat
  BY CatalogAssumption
<1>2. RegionRank(v, p) \in Int
  <2>1. places \subseteq Nat /\ \A x \in places : x \in Int
    OBVIOUS
  <2>2. RegionRank(v, p) = IF places = {} THEN Len(p.regions) + 1 ELSE Least(places)
    BY DEF RegionRank, Least
  <2>4. Len(p.regions) + 1 \in Int
    BY <1>1
  <2> HIDE DEF places
  <2>3. places # {} => Least(places) \in places
    BY <2>1, LeastIn
  <2> QED
    BY <2>1, <2>2, <2>3, <2>4
<1>3. LanguageRank(v, p) \in Int
  BY DEF LanguageRank
<1>4. /\ (IF v.flags \cap Unlicensed # {} THEN 1 ELSE 0) \in Int
      /\ (IF p.latest THEN 0 - v.revision ELSE v.revision) \in Int
      /\ (IF v.bad THEN 1 ELSE 0) \in Int
  OBVIOUS
<1> QED
  BY <1>2, <1>3, <1>4 DEF Rank, Ranks

-----------------------------------------------------------------------------
(* Titles *)

LEMMA GameFacts ==
    /\ \A g \in DOMAIN Game : Game[g].place \in Int /\ Game[g].revision \in Int
    /\ Games \in [Files -> Seq(DOMAIN Game)] /\ DatOf \in [Files -> Dats]
    /\ None \notin Dats /\ None \notin Files /\ None \notin Preferences /\ Default \in Preferences
    /\ 1 \in Rules /\ Rules \subseteq Nat
BY CatalogAssumption

Titles == Seq(Title)

\* The variants of live titles, or of any others, are a group.
LEMMA VariantsGroup ==
    ASSUME NEW ts \in Titles, NEW S \in SUBSET DOMAIN ts, NEW p \in Preferences
    PROVE  IsGroup(Variants(ts, S), p) /\ \A v \in Variants(ts, S) : v.id \in S
<1> DEFINE VariantOf(i) == [id |-> i, name |-> Game[ts[i].game].place, regions |-> Game[ts[i].game].regions,
                            languages |-> Game[ts[i].game].languages, revision |-> Game[ts[i].game].revision,
                            flags |-> Game[ts[i].game].flags, bad |-> Game[ts[i].game].bad]
<1>1. Variants(ts, S) = {VariantOf(i) : i \in S}
  BY DEF Variants
<1>2. IsFiniteSet(S)
  <2>1. Len(ts) \in Nat /\ S \subseteq 1..Len(ts)
    BY DEF Titles
  <2>2. IsFiniteSet(1..Len(ts))
    BY <2>1, FS_Interval
  <2> QED
    BY <2>1, <2>2, FS_Subset
<1>3. IsFiniteSet(Variants(ts, S))
  <2> DEFINE F == [i \in S |-> VariantOf(i)]
  <2> HIDE DEF VariantOf
  <2>1. F \in Surjection(S, Variants(ts, S))
    BY <1>1 DEF Surjection
  <2> QED
    BY <1>2, <2>1, FS_Surjection
<1>4. \A i \in S : VariantOf(i).id = i /\ Rank(VariantOf(i), p) \in Ranks
  <2> SUFFICES ASSUME NEW i \in S
               PROVE  Rank(VariantOf(i), p) \in Ranks
    OBVIOUS
  <2>1. i \in Int
    BY DEF Titles
  <2>2. ts[i] \in Title
    BY DEF Titles
  <2>3. ts[i].game \in DOMAIN Game
    BY <2>2 DEF Title
  <2>4. VariantOf(i).revision \in Int /\ VariantOf(i).name \in Int /\ VariantOf(i).id \in Int
    BY <2>1, <2>3, GameFacts
  <2> HIDE DEF VariantOf
  <2> QED
    BY <2>4, RankType
<1> HIDE DEF VariantOf
<1> QED
  BY <1>1, <1>3, <1>4 DEF IsGroup

\* The rows of `us` are those of `ts` but for parents, groups, picks and wants.
SameRows(ts, us) ==
    /\ DOMAIN us = DOMAIN ts
    /\ \A i \in DOMAIN ts :
          us[i].dat = ts[i].dat /\ us[i].game = ts[i].game /\ us[i].live = ts[i].live

LEMMA RowType ==
    ASSUME NEW ts \in Titles, NEW i \in DOMAIN ts
    PROVE  /\ i \in Nat /\ i # 0 /\ ts[i] \in Title
           /\ ts[i].dat \in Dats /\ ts[i].game \in DOMAIN Game /\ ts[i].live \in BOOLEAN
           /\ ts[i].parent \in Nat /\ ts[i].root \in Nat
<1>1. ts[i] \in Title /\ i \in 1..Len(ts) /\ Len(ts) \in Nat
  BY DEF Titles
<1> QED
  BY <1>1 DEF Title

LEMMA DomainFinite ==
    ASSUME NEW ts \in Titles
    PROVE  /\ DOMAIN ts = 1..Len(ts) /\ Len(ts) \in Nat /\ IsFiniteSet(DOMAIN ts)
           /\ \A S \in SUBSET DOMAIN ts : IsFiniteSet(S) /\ S \subseteq Nat
<1>1. DOMAIN ts = 1..Len(ts) /\ Len(ts) \in Nat
  BY DEF Titles
<1>2. IsFiniteSet(1..Len(ts))
  BY <1>1, FS_Interval
<1>3. \A S \in SUBSET DOMAIN ts : IsFiniteSet(S)
  BY <1>1, <1>2, FS_Subset
<1> QED
  BY <1>1, <1>2, <1>3

\* A function on the ids whose values are titles is a table.
LEMMA IsTable ==
    ASSUME NEW n \in Nat, NEW us, us = [i \in 1..n |-> us[i]], \A i \in 1..n : us[i] \in Title
    PROVE  us \in Titles /\ Len(us) = n /\ DOMAIN us = 1..n
BY DEF Titles

-----------------------------------------------------------------------------
(* Parents and groups *)

LEMMA ElectedIn ==
    ASSUME NEW ts \in Titles, NEW S \in SUBSET DOMAIN ts, S # {}
    PROVE  Elected(Variants(ts, S), Default) \in S
<1> DEFINE group == Variants(ts, S)
           picks == Select(group, Default)
           ids   == {v.id : v \in group}
<1>1. IsGroup(group, Default) /\ \A v \in group : v.id \in S
  BY VariantsGroup, GameFacts
<1>2. group # {}
  BY DEF Variants
<1>3. picks \subseteq group
  BY <1>1, SelectOne
<1>4. ids \subseteq Nat /\ ids # {}
  BY <1>1, <1>2, DomainFinite
<1>5. Elected(group, Default) =
        IF picks # {} THEN (CHOOSE v \in picks : TRUE).id
        ELSE (CHOOSE v \in group : \A w \in group : v.id <= w.id).id
  BY DEF Elected
<1> HIDE DEF group, picks
<1>6. CASE picks # {}
  <2>1. (CHOOSE v \in picks : TRUE) \in picks
    BY <1>6
  <2> QED
    BY <1>1, <1>3, <1>5, <1>6, <2>1 DEF group
<1>7. CASE picks = {}
  <2>1. Least(ids) \in ids /\ \A y \in ids : Least(ids) <= y
    BY <1>4, LeastIn
  <2>2. PICK v \in group : \A w \in group : v.id <= w.id
    BY <2>1
  <2>3. (CHOOSE x \in group : \A w \in group : x.id <= w.id) \in group
    BY <2>2
  <2> QED
    BY <1>1, <1>5, <1>7, <2>3 DEF group
<1> QED
  BY <1>6, <1>7

\* Every parent is a row.
ParentsIn(ts) == \A i \in DOMAIN ts : ts[i].parent \in DOMAIN ts

LEMMA ParentsType ==
    ASSUME NEW ts \in Titles
    PROVE  /\ Parents(ts) \in [DOMAIN ts -> Nat]
           /\ ParentsIn(ts) => Parents(ts) \in [DOMAIN ts -> DOMAIN ts]
<1> DEFINE free == {i \in Live(ts) : ts[i].inferred}
           kin(i) == {k \in free : Game[ts[k].game].key = Game[ts[i].game].key}
<1>1. Parents(ts) = [i \in DOMAIN ts |->
                        IF i \in free THEN Elected(Variants(ts, kin(i)), Default) ELSE ts[i].parent]
  BY DEF Parents
<1>2. \A i \in free : kin(i) \in SUBSET DOMAIN ts /\ kin(i) # {}
  BY DEF Live
<1> HIDE DEF kin, free
<1>3. \A i \in free : Elected(Variants(ts, kin(i)), Default) \in DOMAIN ts
  BY <1>2, ElectedIn
<1>4. DOMAIN ts \subseteq Nat
  BY DomainFinite
<1>5. \A i \in DOMAIN ts : ts[i].parent \in Nat
  BY RowType
<1>6. \A i \in DOMAIN ts :
        (IF i \in free THEN Elected(Variants(ts, kin(i)), Default) ELSE ts[i].parent) \in Nat
  BY <1>3, <1>4, <1>5
<1>7. ParentsIn(ts) => \A i \in DOMAIN ts :
        (IF i \in free THEN Elected(Variants(ts, kin(i)), Default) ELSE ts[i].parent) \in DOMAIN ts
  BY <1>3 DEF ParentsIn
<1> QED
  BY <1>1, <1>6, <1>7

Versions == [Dats -> Version \cup {None}]

LEMMA VersionType ==
    ASSUME NEW vs \in Versions, NEW d \in Dats, vs[d] # None
    PROVE  /\ vs[d] \in Version /\ vs[d].number \in Nat /\ vs[d].file \in Files
           /\ vs[d].bound \in BOOLEAN /\ vs[d].retired \in BOOLEAN /\ vs[d].count \in Nat
           /\ vs[d].super \in Dats \cup {None}
BY DEF Versions, Version

LEMMA EarliestIn ==
    ASSUME NEW vs \in Versions, NEW S \in SUBSET Current(vs), S # {}
    PROVE  Earliest(vs, S) \in S
<1> DEFINE N == {vs[d].number : d \in S}
<1>1. \A d \in S : vs[d].number \in Nat
  BY VersionType DEF Current, IsLive
<1>2. N \subseteq Nat /\ N # {}
  BY <1>1
<1>3. Least(N) \in N /\ \A n \in N : Least(N) <= n
  BY <1>2, LeastIn
<1>4. \E d \in S : \A e \in S : vs[d].number <= vs[e].number
  BY <1>3
<1> QED
  BY <1>4 DEF Earliest

LEMMA TargetsType ==
    ASSUME NEW ts \in Titles, NEW vs \in Versions, NEW S, NEW parents \in [DOMAIN ts -> S]
    PROVE  Targets(ts, vs, parents) \in [DOMAIN ts -> S]
<1> DEFINE main == Largest(vs)
           rest == Current(vs) \ {main}
           among(i)  == {ts[k].dat : k \in Twins(ts, rest, i)}
           anchor(i) == IF Twins(ts, {main}, i) # {} THEN Twins(ts, {main}, i)
                        ELSE Twins(ts, {Earliest(vs, among(i))}, i)
           links(i)  == /\ ts[i].live /\ ts[i].dat \in rest /\ Game[ts[i].game].sum # None
                        /\ (Twins(ts, {main}, i) # {} \/ ts[i].dat # Earliest(vs, among(i)))
<1>1. Targets(ts, vs, parents) =
        [i \in DOMAIN ts |-> IF links(i) THEN parents[Least(anchor(i))] ELSE parents[i]]
  BY DEF Targets
<1>2. \A i \in DOMAIN ts : anchor(i) \subseteq DOMAIN ts /\ anchor(i) \subseteq Nat
  <2>1. \A i, ds : Twins(ts, ds, i) \subseteq DOMAIN ts
    BY DEF Twins, Live
  <2> QED
    BY <2>1, DomainFinite
<1>3. \A i \in DOMAIN ts : links(i) => anchor(i) # {}
  <2> SUFFICES ASSUME NEW i \in DOMAIN ts, links(i), Twins(ts, {main}, i) = {}
               PROVE  anchor(i) # {}
    OBVIOUS
  <2>1. i \in Twins(ts, rest, i)
    BY DEF Twins, Live
  <2>2. among(i) \subseteq Current(vs) /\ among(i) # {}
    BY <2>1 DEF Twins
  <2>3. Earliest(vs, among(i)) \in among(i)
    BY <2>2, EarliestIn
  <2>4. PICK k \in Twins(ts, rest, i) : ts[k].dat = Earliest(vs, among(i))
    BY <2>3
  <2>5. k \in Twins(ts, {Earliest(vs, among(i))}, i)
    BY <2>4 DEF Twins
  <2> QED
    BY <2>5
<1> HIDE DEF links, anchor
<1>4. \A i \in DOMAIN ts : links(i) => Least(anchor(i)) \in DOMAIN ts
  BY <1>2, <1>3, LeastIn
<1>5. \A i \in DOMAIN ts : (IF links(i) THEN parents[Least(anchor(i))] ELSE parents[i]) \in S
  BY <1>4
<1> QED
  BY <1>1, <1>5

LEMMA RerootedType ==
    ASSUME NEW ts \in Titles, NEW target \in [DOMAIN ts -> Nat]
    PROVE  Rerooted(ts, target) \in [DOMAIN ts -> Nat]
<1> DEFINE stranded(r) == target[r] # r
           left(r) == {i \in DOMAIN ts : i # r /\ target[i] = r}
           heir(r) == IF left(r) \cap Live(ts) # {} THEN Least(left(r) \cap Live(ts)) ELSE Least(left(r))
<1>1. Rerooted(ts, target) =
        [i \in DOMAIN ts |->
            IF target[i] # i /\ stranded(target[i]) THEN heir(target[i]) ELSE target[i]]
  BY DEF Rerooted
<1>2. DOMAIN ts \subseteq Nat
  BY DomainFinite
<1>3. ASSUME NEW i \in DOMAIN ts, target[i] # i
      PROVE  heir(target[i]) \in Nat
  <2>1. left(target[i]) # {} /\ left(target[i]) \subseteq Nat
    BY <1>2, <1>3
  <2>2. Least(left(target[i])) \in Nat
    BY <2>1, LeastIn
  <2> DEFINE L == left(target[i]) \cap Live(ts)
  <2>3. L \subseteq Nat
    BY <2>1
  <2>4. L # {} => Least(L) \in L
    BY <2>3, LeastIn
  <2> QED
    BY <2>2, <2>3, <2>4
<1> HIDE DEF heir, stranded
<1>4. \A i \in DOMAIN ts :
        (IF target[i] # i /\ stranded(target[i]) THEN heir(target[i]) ELSE target[i]) \in Nat
  BY <1>3
<1> QED
  BY <1>1, <1>4

LEMMA RootsType ==
    ASSUME NEW ts \in Titles, NEW vs \in Versions
    PROVE  Roots(ts, vs, Parents(ts)) \in [DOMAIN ts -> Nat]
BY ParentsType, TargetsType, RerootedType DEF Roots

-----------------------------------------------------------------------------
(* The recompute *)

Regrouped(row, parent, root, pick) ==
    [row EXCEPT !.parent = parent, !.root = root, !.pick = pick]

LEMMA RegroupedRow ==
    ASSUME NEW row \in Title, NEW parent \in Nat, NEW root \in Nat, NEW pick \in BOOLEAN
    PROVE  LET new == Regrouped(row, parent, root, pick)
           IN  /\ new \in Title /\ new.dat = row.dat /\ new.game = row.game /\ new.live = row.live
               /\ new.wanted = row.wanted /\ new.parent = parent /\ new.root = root /\ new.pick = pick
BY DEF Regrouped, Title

\* The titles to be picked when groups have the roots r.
Picks(ts, roots, p) ==
    UNION {{v.id : v \in Select(Variants(ts, {k \in Live(ts) : roots[k] = r}), p)} :
              r \in {roots[i] : i \in Live(ts)}}

LEMMA RecomputedIs ==
    ASSUME NEW ts \in Titles, NEW vs \in Versions, NEW p
    PROVE  LET roots == Roots(ts, vs, Parents(ts))
           IN  Recomputed(ts, vs, p) =
                 [i \in DOMAIN ts |-> Regrouped(ts[i], Parents(ts)[i], roots[i], i \in Picks(ts, roots, p))]
BY DEF Recomputed, Regrouped, Picks

LEMMA RecomputedRows ==
    ASSUME NEW ts \in Titles, NEW vs \in Versions, NEW p
    PROVE  LET us == Recomputed(ts, vs, p)
               roots == Roots(ts, vs, Parents(ts))
           IN  /\ us \in Titles /\ SameRows(ts, us) /\ Len(us) = Len(ts)
               /\ \A i \in DOMAIN ts :
                     /\ us[i].wanted = ts[i].wanted /\ us[i].parent = Parents(ts)[i] /\ us[i].root = roots[i]
                     /\ us[i].pick = (i \in Picks(ts, roots, p))
<1> DEFINE us == Recomputed(ts, vs, p)
           roots == Roots(ts, vs, Parents(ts))
           row(i) == Regrouped(ts[i], Parents(ts)[i], roots[i], i \in Picks(ts, roots, p))
<1>1. us = [i \in DOMAIN ts |-> row(i)]
  BY RecomputedIs
<1>2. \A i \in DOMAIN ts :
        /\ row(i) \in Title /\ row(i).dat = ts[i].dat /\ row(i).game = ts[i].game
        /\ row(i).live = ts[i].live /\ row(i).wanted = ts[i].wanted
        /\ row(i).parent = Parents(ts)[i] /\ row(i).root = roots[i]
        /\ row(i).pick = (i \in Picks(ts, roots, p))
  <2> SUFFICES ASSUME NEW i \in DOMAIN ts
               PROVE  /\ row(i) \in Title /\ row(i).dat = ts[i].dat /\ row(i).game = ts[i].game
                      /\ row(i).live = ts[i].live /\ row(i).wanted = ts[i].wanted
        /\ row(i).parent = Parents(ts)[i] /\ row(i).root = roots[i]
                      /\ row(i).pick = (i \in Picks(ts, roots, p))
    OBVIOUS
  <2>1. ts[i] \in Title /\ Parents(ts)[i] \in Nat /\ roots[i] \in Nat
    BY RowType, ParentsType, RootsType
  <2>2. (i \in Picks(ts, roots, p)) \in BOOLEAN
    OBVIOUS
  <2> DEFINE picked == i \in Picks(ts, roots, p)
  <2>3. \A pick \in BOOLEAN :
          LET new == Regrouped(ts[i], Parents(ts)[i], roots[i], pick)
          IN  /\ new \in Title /\ new.dat = ts[i].dat /\ new.game = ts[i].game /\ new.live = ts[i].live
              /\ new.wanted = ts[i].wanted /\ new.parent = Parents(ts)[i] /\ new.root = roots[i]
              /\ new.pick = pick
    BY <2>1, RegroupedRow
  <2>4. picked \in BOOLEAN
    BY <2>2
  <2> HIDE DEF roots, picked
  <2>5. LET new == Regrouped(ts[i], Parents(ts)[i], roots[i], picked)
        IN  /\ new \in Title /\ new.dat = ts[i].dat /\ new.game = ts[i].game /\ new.live = ts[i].live
            /\ new.wanted = ts[i].wanted /\ new.parent = Parents(ts)[i] /\ new.root = roots[i]
            /\ new.pick = picked
    BY <2>3, <2>4
  <2> QED
    BY <2>5 DEF picked
<1> HIDE DEF row, roots
<1>3. DOMAIN ts = 1..Len(ts) /\ Len(ts) \in Nat
  BY DomainFinite
<1>4. us = [i \in 1..Len(ts) |-> us[i]] /\ \A i \in DOMAIN ts : us[i] = row(i)
  BY <1>1, <1>3
<1> HIDE DEF us
<1>5. us \in Titles /\ Len(us) = Len(ts) /\ DOMAIN us = DOMAIN ts
  BY <1>2, <1>3, <1>4, IsTable
<1> QED
  BY <1>2, <1>4, <1>5 DEF SameRows, us, roots

\* The live titles of i's group, and what is to hold of a group, of any table.
GroupIn(ts, i) == {k \in Live(ts) : ts[k].root = ts[i].root}
BestIn(ts, G, p) ==
    LET shown == {v \in Variants(ts, G) : ~Hidden(v, p)}
        picks == {v \in Variants(ts, G) : ts[v.id].pick}
    IN  /\ picks \subseteq shown /\ Cardinality(picks) = (IF shown = {} THEN 0 ELSE 1)
        /\ \A v \in picks, w \in shown : ~Better(w, v, p)
PicksHold(ts, p) ==
    /\ \A i \in DOMAIN ts : ts[i].pick => ts[i].live
    /\ \A i \in Live(ts) : BestIn(ts, GroupIn(ts, i), p)

LEMMA PicksRightIs == PicksRight <=> PicksHold(titles, prefs)
BY DEF PicksRight, PicksHold, PickedBest, BestIn, Group, GroupIn

\* Variants are read from the games alone.
LEMMA VariantsSame ==
    ASSUME NEW ts \in Titles, NEW us \in Titles, SameRows(ts, us), NEW S \in SUBSET DOMAIN ts
    PROVE  Variants(us, S) = Variants(ts, S)
BY DEF Variants, SameRows

\* What the recompute leaves is right for the preferences it was given.
LEMMA RecomputedPicks ==
    ASSUME NEW ts \in Titles, NEW vs \in Versions, NEW p \in Preferences
    PROVE  PicksHold(Recomputed(ts, vs, p), p)
<1> DEFINE us == Recomputed(ts, vs, p)
           roots == Roots(ts, vs, Parents(ts))
           ofRoot(r) == {k \in Live(ts) : roots[k] = r}
<1>1. /\ us \in Titles /\ SameRows(ts, us)
      /\ \A i \in DOMAIN ts : us[i].root = roots[i] /\ us[i].pick = (i \in Picks(ts, roots, p))
  BY RecomputedRows
<1>2. Picks(ts, roots, p) =
        UNION {{v.id : v \in Select(Variants(ts, ofRoot(r)), p)} : r \in {roots[i] : i \in Live(ts)}}
  BY DEF Picks
<1> HIDE DEF us, roots
<1>3. Live(us) = Live(ts) /\ Live(ts) \subseteq DOMAIN ts
  BY <1>1 DEF Live, SameRows
<1>4. \A r : /\ ofRoot(r) \in SUBSET DOMAIN ts
             /\ IsGroup(Variants(ts, ofRoot(r)), p)
             /\ \A v \in Variants(ts, ofRoot(r)) : v.id \in ofRoot(r)
  BY VariantsGroup DEF Live
<1>5. \A r : \A v \in Select(Variants(ts, ofRoot(r)), p) : v \in Variants(ts, ofRoot(r)) /\ v.id \in ofRoot(r)
  <2> SUFFICES ASSUME NEW r
               PROVE  \A v \in Select(Variants(ts, ofRoot(r)), p) : v \in Variants(ts, ofRoot(r)) /\ v.id \in ofRoot(r)
    OBVIOUS
  <2> DEFINE group == Variants(ts, ofRoot(r))
  <2>1. IsGroup(group, p) /\ \A v \in group : v.id \in ofRoot(r)
    BY <1>4
  <2> HIDE DEF group, ofRoot
  <2>2. Select(group, p) \subseteq {v \in group : ~Hidden(v, p)}
    BY <2>1, SelectOne
  <2> QED
    BY <2>1, <2>2 DEF group
<1>8. \A r : \A k \in ofRoot(r) : roots[k] = r /\ k \in Live(ts)
  OBVIOUS
<1> HIDE DEF ofRoot
<1>6. \A i \in DOMAIN us : us[i].pick => us[i].live
  <2> SUFFICES ASSUME NEW i \in DOMAIN ts, i \in Picks(ts, roots, p)
               PROVE  ts[i].live
    BY <1>1 DEF SameRows
  <2>1. PICK r : i \in {v.id : v \in Select(Variants(ts, ofRoot(r)), p)}
    BY <1>2
  <2>2. PICK v \in Select(Variants(ts, ofRoot(r)), p) : i = v.id
    BY <2>1
  <2>3. i \in ofRoot(r)
    BY <1>5, <2>2
  <2> QED
    BY <1>8, <2>3 DEF Live
<1>7. ASSUME NEW i \in Live(us)
      PROVE  BestIn(us, GroupIn(us, i), p)
  <2> DEFINE G == ofRoot(roots[i])
             group == Variants(ts, G)
             picks == Select(group, p)
             shown == {v \in group : ~Hidden(v, p)}
  <2>1. GroupIn(us, i) = G
    BY <1>1, <1>3 DEF GroupIn, ofRoot
  <2>2. G \in SUBSET DOMAIN ts /\ IsGroup(group, p) /\ \A v \in group : v.id \in G
    BY <1>4
  <2>3. Variants(us, G) = group
    BY <1>1, <2>2, VariantsSame
  <2>4. /\ picks \subseteq shown /\ (shown = {} => picks = {}) /\ (shown # {} => \E v : picks = {v})
        /\ \A v \in picks : \A w \in group : ~Hidden(w, p) => ~Better(w, v, p)
    <3> HIDE DEF group
    <3> QED
      BY <2>2, SelectOne
  <2>5. {v \in group : us[v.id].pick} = picks
    <3>1. ASSUME NEW v \in group
          PROVE  us[v.id].pick <=> v \in picks
      <4>1. v.id \in G /\ v.id \in DOMAIN ts
        BY <2>2, <3>1
      <4>2. us[v.id].pick = (v.id \in Picks(ts, roots, p))
        BY <1>1, <4>1
      <4>3. ASSUME v.id \in Picks(ts, roots, p)
            PROVE  v \in picks
        <5>1. PICK r : v.id \in {w.id : w \in Select(Variants(ts, ofRoot(r)), p)}
          BY <1>2, <4>3
        <5>2. PICK w \in Select(Variants(ts, ofRoot(r)), p) : w.id = v.id
          BY <5>1
        <5>3. w.id \in ofRoot(r) /\ w \in Variants(ts, ofRoot(r))
          BY <1>5
        <5>4. r = roots[i]
          BY <1>8, <4>1, <5>2, <5>3
        <5>5. w = v
          BY <2>2, <3>1, <5>2, <5>3, <5>4 DEF IsGroup
        <5> QED
          BY <5>2, <5>4, <5>5
      <4>4. ASSUME v \in picks
            PROVE  v.id \in Picks(ts, roots, p)
        <5>1. roots[i] \in {roots[k] : k \in Live(ts)}
          BY <1>3, <1>7
        <5>2. v.id \in {w.id : w \in Select(Variants(ts, ofRoot(roots[i])), p)}
          BY <4>4
        <5> QED
          BY <1>2, <5>1, <5>2
      <4> QED
        BY <4>2, <4>3, <4>4
    <3>2. picks \subseteq group
      BY <2>4
    <3> HIDE DEF picks, group
    <3> QED
      BY <3>1, <3>2
  <2> HIDE DEF picks, G, group
  <2>6. Cardinality(picks) = (IF shown = {} THEN 0 ELSE 1)
    BY <2>4, FS_EmptySet, FS_Singleton
  <2> QED
    BY <2>1, <2>3, <2>4, <2>5, <2>6 DEF BestIn
<1> QED
  BY <1>6, <1>7 DEF PicksHold, us

-----------------------------------------------------------------------------
(* Rows for new games *)

UpTo(N, k) == {j \in N : j <= k}

\* The members of a finite set of numbers are numbered by how many are no greater.
LEMMA Numbered ==
    ASSUME NEW N \in SUBSET Nat, IsFiniteSet(N)
    PROVE  /\ \A k \in N : Cardinality(UpTo(N, k)) \in 1..Cardinality(N)
           /\ \A k, l \in N : Cardinality(UpTo(N, k)) = Cardinality(UpTo(N, l)) => k = l
           /\ \A n \in 1..Cardinality(N) : \E k \in N : Cardinality(UpTo(N, k)) = n
<1> DEFINE C(k) == Cardinality(UpTo(N, k))
           F == [k \in N |-> C(k)]
<1>1. \A k : UpTo(N, k) \subseteq N
  BY DEF UpTo
<1>2. \A k : IsFiniteSet(UpTo(N, k)) /\ C(k) <= Cardinality(N) /\ C(k) \in Nat
  BY <1>1, FS_Subset, FS_CardinalityType
<1>3. Cardinality(N) \in Nat
  BY FS_CardinalityType
<1>4. \A k \in N : C(k) \in 1..Cardinality(N)
  <2> SUFFICES ASSUME NEW k \in N
               PROVE  C(k) # 0
    BY <1>2, <1>3
  <2>1. k \in UpTo(N, k)
    BY DEF UpTo
  <2> QED
    BY <1>2, <2>1, FS_EmptySet
<1>5. \A k, l \in N : k < l => C(k) # C(l)
  <2> SUFFICES ASSUME NEW k \in N, NEW l \in N, k < l, C(k) = C(l)
               PROVE  FALSE
    OBVIOUS
  <2>1. UpTo(N, k) \subseteq UpTo(N, l) /\ l \in UpTo(N, l) /\ l \notin UpTo(N, k)
    <3>1. k \in Nat /\ l \in Nat /\ \A j \in N : j \in Nat
      OBVIOUS
    <3>2. \A j \in N : j <= k => j <= l
      BY <3>1
    <3>3. ~(l <= k) /\ l <= l
      BY <3>1
    <3> QED
      BY <3>2, <3>3 DEF UpTo
  <2>2. UpTo(N, l) = UpTo(N, k)
    BY <1>2, <2>1, FS_Subset
  <2> QED
    BY <2>1, <2>2
<1>6. \A k, l \in N : C(k) = C(l) => k = l
  <2> SUFFICES ASSUME NEW k \in N, NEW l \in N, C(k) = C(l), k # l
               PROVE  FALSE
    OBVIOUS
  <2>1. k < l \/ l < k
    OBVIOUS
  <2> QED
    BY <1>5, <2>1
<1> HIDE DEF C
<1>7. F \in Injection(N, 1..Cardinality(N))
  <2>1. F \in [N -> 1..Cardinality(N)]
    BY <1>4
  <2>2. \A k, l \in N : F[k] = F[l] => k = l
    BY <1>6
  <2> HIDE DEF F
  <2> QED
    BY <2>1, <2>2 DEF Injection, IsInjective
<1>8. Cardinality(1..Cardinality(N)) = Cardinality(N) /\ IsFiniteSet(1..Cardinality(N))
  BY <1>3, FS_Interval
<1> HIDE DEF F
<1>9. F \in Surjection(N, 1..Cardinality(N))
  BY <1>7, <1>8, FS_Injection
<1>10. \A n \in 1..Cardinality(N) : \E k \in N : C(k) = n
  BY <1>9 DEF Surjection, F
<1> QED
  BY <1>4, <1>6, <1>10 DEF C

LEMMA NewType ==
    ASSUME NEW ts \in Titles, NEW d \in Dats, NEW f \in Files
    PROVE  LET N == New(ts, d, f)
           IN  /\ N \in SUBSET Nat /\ IsFiniteSet(N) /\ Cardinality(N) \in Nat
               /\ N \subseteq DOMAIN Games[f]
               /\ \A k \in N : /\ Games[f][k] \in DOMAIN Game /\ Games[f][k] \in ToSet(Games[f])
                               /\ RowOf(ts, d, Game[Games[f][k]].name) = 0
<1>1. Games[f] \in Seq(DOMAIN Game)
  BY GameFacts
<1>2. DOMAIN Games[f] = 1..Len(Games[f]) /\ Len(Games[f]) \in Nat
  BY <1>1
<1>3. New(ts, d, f) \subseteq DOMAIN Games[f] /\ New(ts, d, f) \in SUBSET Nat
  BY <1>2 DEF New
<1>4. IsFiniteSet(New(ts, d, f)) /\ Cardinality(New(ts, d, f)) \in Nat
  <2>1. IsFiniteSet(DOMAIN Games[f])
    BY <1>2, FS_Interval
  <2>2. IsFiniteSet(New(ts, d, f))
    BY <1>3, <2>1, FS_Subset
  <2> QED
    BY <2>2, FS_CardinalityType
<1>5. \A k \in DOMAIN Games[f] : Games[f][k] \in DOMAIN Game /\ Games[f][k] \in ToSet(Games[f])
  BY <1>1 DEF ToSet
<1> QED
  BY <1>3, <1>4, <1>5 DEF New

\* Each id past the table's end is that of one new game.
LEMMA NewIds ==
    ASSUME NEW ts \in Titles, NEW d \in Dats, NEW f \in Files
    PROVE  LET N == New(ts, d, f)
           IN  /\ \A k \in N : NewId(ts, d, f, k) \in (Len(ts) + 1)..(Len(ts) + Cardinality(N))
               /\ \A k, l \in N : NewId(ts, d, f, k) = NewId(ts, d, f, l) => k = l
               /\ \A i \in (Len(ts) + 1)..(Len(ts) + Cardinality(N)) :
                     \E k \in N : NewId(ts, d, f, k) = i
<1> DEFINE N == New(ts, d, f)
<1>1. N \in SUBSET Nat /\ IsFiniteSet(N) /\ Cardinality(N) \in Nat /\ Len(ts) \in Nat
  BY NewType, DomainFinite
<1>2. \A k : NewId(ts, d, f, k) = Len(ts) + Cardinality(UpTo(N, k))
  BY DEF NewId, UpTo
<1> HIDE DEF N
<1>3. /\ \A k \in N : Cardinality(UpTo(N, k)) \in 1..Cardinality(N)
      /\ \A k, l \in N : Cardinality(UpTo(N, k)) = Cardinality(UpTo(N, l)) => k = l
      /\ \A n \in 1..Cardinality(N) : \E k \in N : Cardinality(UpTo(N, k)) = n
  BY <1>1, Numbered
<1>4. \A k \in N : NewId(ts, d, f, k) \in (Len(ts) + 1)..(Len(ts) + Cardinality(N))
  BY <1>1, <1>2, <1>3
<1>5. \A k, l \in N : NewId(ts, d, f, k) = NewId(ts, d, f, l) => k = l
  <2>1. \A k \in N : Cardinality(UpTo(N, k)) \in Nat
    BY <1>1, <1>3
  <2> QED
    BY <1>1, <1>2, <1>3, <2>1
<1>6. ASSUME NEW i \in (Len(ts) + 1)..(Len(ts) + Cardinality(N))
      PROVE  \E k \in N : NewId(ts, d, f, k) = i
  <2>1. i - Len(ts) \in 1..Cardinality(N)
    BY <1>1
  <2>2. PICK k \in N : Cardinality(UpTo(N, k)) = i - Len(ts)
    BY <1>3, <2>1
  <2>3. Len(ts) + (i - Len(ts)) = i
    BY <1>1
  <2> QED
    BY <1>2, <2>2, <2>3
<1> QED
  BY <1>4, <1>5, <1>6 DEF N

-----------------------------------------------------------------------------
(* Loading a file *)

Taken(row, d, g) == [row EXCEPT !.dat = d, !.game = g, !.live = TRUE]
Ended(row)       == [row EXCEPT !.live = FALSE]

LEMMA TakenRow ==
    ASSUME NEW row \in Title, NEW d \in Dats, NEW g \in DOMAIN Game
    PROVE  /\ Taken(row, d, g) \in Title /\ Taken(row, d, g).dat = d /\ Taken(row, d, g).game = g
           /\ Taken(row, d, g).live = TRUE /\ Taken(row, d, g).wanted = row.wanted
           /\ Taken(row, d, g).root = row.root /\ Taken(row, d, g).pick = row.pick
BY DEF Taken, Title

LEMMA EndedRow ==
    ASSUME NEW row \in Title
    PROVE  /\ Ended(row) \in Title /\ Ended(row).dat = row.dat /\ Ended(row).game = row.game
           /\ Ended(row).live = FALSE /\ Ended(row).wanted = row.wanted
           /\ Ended(row).root = row.root /\ Ended(row).pick = row.pick
BY DEF Ended, Title

LEMMA NewRow ==
    ASSUME NEW d \in Dats, NEW g \in DOMAIN Game, NEW i \in Nat
    PROVE  /\ Row(d, g, i) \in Title /\ Row(d, g, i).dat = d /\ Row(d, g, i).game = g
           /\ Row(d, g, i).live = TRUE /\ Row(d, g, i).wanted = FALSE /\ Row(d, g, i).pick = FALSE
BY DEF Row, Title

LEMMA RowParents ==
    /\ \A row \in Title : \A d, g : Taken(row, d, g).parent = row.parent
    /\ \A row \in Title : Ended(row).parent = row.parent
    /\ \A d, g, i : Row(d, g, i).parent = i
BY DEF Taken, Ended, Row, Title

LEMMA GamesIn ==
    ASSUME NEW f \in Files
    PROVE  ToSet(Games[f]) \subseteq DOMAIN Game
<1>1. Games[f] \in Seq(DOMAIN Game)
  BY GameFacts
<1>2. \A k \in DOMAIN Games[f] : Games[f][k] \in DOMAIN Game
  BY <1>1
<1> QED
  BY <1>2 DEF ToSet

\* Every row after a load: taken by a game, new for one, ended, or as it was.
LEMMA AppliedRows ==
    ASSUME NEW ts \in Titles, NEW d \in Dats, NEW f \in Files
    PROVE  LET us == Applied(ts, d, f)
           IN  /\ us \in Titles /\ DOMAIN ts \subseteq DOMAIN us
               /\ Len(us) = Len(ts) + Cardinality(New(ts, d, f))
               /\ \A i \in DOMAIN ts :
                     \/ \E g \in ToSet(Games[f]) :
                           RowOf(ts, d, Game[g].name) = i /\ us[i] = Taken(ts[i], d, g)
                     \/ /\ \A g \in ToSet(Games[f]) : RowOf(ts, d, Game[g].name) # i
                        /\ us[i] = IF ts[i].dat = d THEN Ended(ts[i]) ELSE ts[i]
               /\ \A i \in DOMAIN us \ DOMAIN ts :
                     \E k \in New(ts, d, f) : NewId(ts, d, f, k) = i /\ us[i] = Row(d, Games[f][k], i)
<1> DEFINE us == Applied(ts, d, f)
           N == New(ts, d, f)
           taken(i) == {g \in ToSet(Games[f]) : RowOf(ts, d, Game[g].name) = i}
           fresh(i) == CHOOSE k \in N : NewId(ts, d, f, k) = i
           game(i) == CHOOSE g \in taken(i) : TRUE
           n == Len(ts) + Cardinality(N)
           row(i) == IF i \notin DOMAIN ts THEN Row(d, Games[f][fresh(i)], i)
                     ELSE IF taken(i) # {} THEN Taken(ts[i], d, game(i))
                     ELSE IF ts[i].dat = d THEN Ended(ts[i]) ELSE ts[i]
<1>1. us = [i \in 1..n |-> row(i)]
  BY DEF Applied, Taken, Ended
<1>2. /\ Cardinality(N) \in Nat /\ DOMAIN ts = 1..Len(ts) /\ Len(ts) \in Nat
      /\ \A k \in N : Games[f][k] \in DOMAIN Game
  BY NewType, DomainFinite
<1>3. n \in Nat /\ \A i \in 1..n : i \notin DOMAIN ts => i \in (Len(ts) + 1)..n
  BY <1>2
<1>4. ASSUME NEW i \in 1..n, i \notin DOMAIN ts
      PROVE  /\ \E k \in N : NewId(ts, d, f, k) = i /\ row(i) = Row(d, Games[f][k], i)
             /\ row(i) \in Title
  <2>1. \E k \in N : NewId(ts, d, f, k) = i
    BY <1>3, <1>4, NewIds
  <2>2. fresh(i) \in N /\ NewId(ts, d, f, fresh(i)) = i
    BY <2>1
  <2>3. row(i) = Row(d, Games[f][fresh(i)], i)
    BY <1>4
  <2>4. i \in Nat
    OBVIOUS
  <2>5. Games[f][fresh(i)] \in DOMAIN Game
    BY <1>2, <2>2
  <2> HIDE DEF fresh, row
  <2>6. row(i) \in Title
    BY <2>3, <2>4, <2>5, NewRow
  <2> QED
    BY <2>2, <2>3, <2>6
<1>5. ASSUME NEW i \in DOMAIN ts
      PROVE  /\ \/ \E g \in ToSet(Games[f]) :
                      RowOf(ts, d, Game[g].name) = i /\ row(i) = Taken(ts[i], d, g)
                \/ /\ \A g \in ToSet(Games[f]) : RowOf(ts, d, Game[g].name) # i
                   /\ row(i) = IF ts[i].dat = d THEN Ended(ts[i]) ELSE ts[i]
             /\ row(i) \in Title
  <2>1. ts[i] \in Title
    BY RowType
  <2>2. CASE taken(i) # {}
    <3>1. game(i) \in taken(i)
      BY <2>2
    <3>2. row(i) = Taken(ts[i], d, game(i))
      BY <2>2
    <3>3. game(i) \in ToSet(Games[f]) /\ RowOf(ts, d, Game[game(i)].name) = i
      BY <3>1
    <3>4. game(i) \in DOMAIN Game
      BY <3>3, GamesIn
    <3> HIDE DEF game, row
    <3>5. row(i) \in Title
      BY <2>1, <3>2, <3>4, TakenRow
    <3> QED
      BY <3>2, <3>3, <3>5
  <2>3. CASE taken(i) = {}
    <3>1. row(i) = IF ts[i].dat = d THEN Ended(ts[i]) ELSE ts[i]
      BY <2>3
    <3>2. Ended(ts[i]) \in Title
      BY <2>1, EndedRow
    <3>3. \A g \in ToSet(Games[f]) : RowOf(ts, d, Game[g].name) # i
      BY <2>3
    <3> HIDE DEF row
    <3> QED
      BY <2>1, <3>1, <3>2, <3>3
  <2> QED
    BY <2>2, <2>3
<1> HIDE DEF row
<1>6. \A i \in 1..n : us[i] = row(i) /\ row(i) \in Title
  BY <1>1, <1>4, <1>5
<1>7. us = [i \in 1..n |-> us[i]]
  BY <1>1
<1> HIDE DEF us, n
<1>8. us \in Titles /\ Len(us) = n /\ DOMAIN us = 1..n
  BY <1>3, <1>6, <1>7, IsTable
<1>9. DOMAIN ts \subseteq 1..n
  BY <1>2 DEF n
<1>10. \A i \in DOMAIN ts : us[i] = row(i)
  BY <1>6, <1>9
<1>11. \A i \in DOMAIN us \ DOMAIN ts : us[i] = row(i) /\ i \in 1..n
  BY <1>6, <1>8
<1> QED
  BY <1>4, <1>5, <1>8, <1>9, <1>10, <1>11 DEF us, n

-----------------------------------------------------------------------------
(* The order of loads *)

LoadsOrdered ==
    /\ IsFiniteSet(Known)
    /\ \A d, e \in Known : <<d, e>> \in loads \/ <<e, d>> \in loads
    /\ \A d, e, g \in Known : <<d, e>> \in loads /\ <<e, g>> \in loads => <<d, g>> \in loads

LEMMA LatestIn ==
    ASSUME LoadsOrdered, NEW S \in SUBSET Known, S # {}
    PROVE  Latest(S) \in S
<1>1. IsFiniteSet(S)
  BY FS_Subset DEF LoadsOrdered
<1>2. /\ \A d, e \in S : <<d, e>> \in loads \/ <<e, d>> \in loads
      /\ \A d, e, g \in S : <<d, e>> \in loads /\ <<e, g>> \in loads => <<d, g>> \in loads
  BY DEF LoadsOrdered
<1>3. \E d \in S : \A e \in S : <<e, d>> \in loads
  BY <1>1, <1>2, LastIn
<1> QED
  BY <1>3 DEF Latest

TitlesKnown(ts) == \A i \in DOMAIN ts : ts[i].dat \in Known

\* The row a game is stored in is one of its family with its name.
LEMMA RowOfIs ==
    ASSUME LoadsOrdered, NEW ts \in Titles, TitlesKnown(ts), NEW d \in Dats, NEW name
    PROVE  LET i == RowOf(ts, d, name)
           IN  \/ /\ i \in DOMAIN ts /\ i # 0 /\ NameOf(ts[i]) = name /\ Fam(ts[i].dat) = Fam(d)
               \/ /\ i = 0
                  /\ \A k \in DOMAIN ts : ~(NameOf(ts[k]) = name /\ Fam(ts[k].dat) = Fam(d))
<1> DEFINE own == {i \in DOMAIN ts : ts[i].dat = d /\ NameOf(ts[i]) = name}
           kin == {i \in DOMAIN ts : Fam(ts[i].dat) = Fam(d) /\ NameOf(ts[i]) = name}
           of  == {ts[k].dat : k \in kin}
<1>1. RowOf(ts, d, name) =
        IF own # {} THEN CHOOSE i \in own : TRUE
        ELSE IF kin # {} THEN CHOOSE i \in kin : ts[i].dat = Latest(of) ELSE 0
  BY DEF RowOf
<1>2. \A i \in DOMAIN ts : i # 0
  BY RowType
<1>3. CASE own # {}
  <2>1. (CHOOSE i \in own : TRUE) \in own
    BY <1>3
  <2>2. RowOf(ts, d, name) \in own
    BY <1>1, <1>3, <2>1
  <2> QED
    BY <1>2, <2>2
<1>4. CASE own = {} /\ kin # {}
  <2>1. of \subseteq Known /\ of # {}
    BY <1>4 DEF TitlesKnown
  <2>2. Latest(of) \in of
    BY <2>1, LatestIn
  <2>3. \E i \in kin : ts[i].dat = Latest(of)
    BY <2>2
  <2>4. (CHOOSE i \in kin : ts[i].dat = Latest(of)) \in kin
    BY <2>3
  <2>5. RowOf(ts, d, name) \in kin
    BY <1>1, <1>4, <2>4
  <2> QED
    BY <1>2, <2>5
<1>5. CASE own = {} /\ kin = {}
  BY <1>1, <1>5
<1> QED
  BY <1>3, <1>4, <1>5

-----------------------------------------------------------------------------
(* Links and absences *)

Inferred(row)     == [row EXCEPT !.inferred = TRUE]
Child(row, k)     == [row EXCEPT !.inferred = FALSE, !.parent = k, !.root = k]
Absented(row)     == [row EXCEPT !.live = FALSE, !.pick = FALSE]
Unpicked(row)     == [row EXCEPT !.pick = FALSE]

LEMMA LinkedRow ==
    ASSUME NEW row \in Title, NEW k \in Nat
    PROVE  \A new \in {Inferred(row), Child(row, k)} :
              /\ new \in Title /\ new.dat = row.dat /\ new.game = row.game
              /\ new.live = row.live /\ new.wanted = row.wanted /\ new.parent \in {row.parent, k}
BY DEF Inferred, Child, Title

LEMMA AbsentRow ==
    ASSUME NEW row \in Title
    PROVE  /\ Absented(row).live = FALSE /\ Unpicked(row).live = row.live
           /\ \A new \in {Absented(row), Unpicked(row)} :
                 /\ new \in Title /\ new.dat = row.dat /\ new.game = row.game
                 /\ new.wanted = row.wanted /\ new.parent = row.parent /\ new.root = row.root
                 /\ new.pick = FALSE
BY DEF Absented, Unpicked, Title

\* The links change parents and groups alone.
LEMMA LinkedRows ==
    ASSUME NEW ts \in Titles, NEW d \in Dats, NEW f \in Files
    PROVE  LET us == Linked(ts, d, f)
           IN  /\ us \in Titles /\ SameRows(ts, us) /\ Len(us) = Len(ts)
               /\ \A i \in DOMAIN ts : us[i].wanted = ts[i].wanted
               /\ ParentsIn(ts) => ParentsIn(us)
<1> DEFINE us == Linked(ts, d, f)
           named(i) == {k \in DOMAIN ts : ts[k].dat = d /\ NameOf(ts[k]) = Game[ts[i].game].cloneof}
           parent(i) == IF named(i) = {} THEN i ELSE CHOOSE k \in named(i) : TRUE
           row(i) == IF ts[i].dat # d THEN ts[i]
                     ELSE IF \E g \in ToSet(Games[f]) : Game[g].cloneof # None
                          THEN Child(ts[i], parent(i)) ELSE Inferred(ts[i])
<1>1. us = [i \in DOMAIN ts |-> row(i)]
  BY DEF Linked, Child, Inferred
<1>2. DOMAIN ts = 1..Len(ts) /\ Len(ts) \in Nat /\ DOMAIN ts \subseteq Nat
  BY DomainFinite
<1>3. ASSUME NEW i \in DOMAIN ts
      PROVE  /\ row(i) \in Title /\ row(i).dat = ts[i].dat /\ row(i).game = ts[i].game
             /\ row(i).live = ts[i].live /\ row(i).wanted = ts[i].wanted
             /\ row(i).parent \in DOMAIN ts \cup {ts[i].parent}
  <2>1. ts[i] \in Title
    BY RowType
  <2>2. parent(i) \in DOMAIN ts /\ parent(i) \in Nat
    <3>1. named(i) # {} => (CHOOSE k \in named(i) : TRUE) \in named(i)
      OBVIOUS
    <3>2. named(i) \subseteq DOMAIN ts /\ DOMAIN ts \subseteq Nat
      BY <1>2
    <3> HIDE DEF named
    <3> QED
      BY <3>1, <3>2
  <2>3. row(i) \in {ts[i], Inferred(ts[i]), Child(ts[i], parent(i))}
    OBVIOUS
  <2> HIDE DEF parent, row
  <2>4. \A new \in {Inferred(ts[i]), Child(ts[i], parent(i))} :
           /\ new \in Title /\ new.dat = ts[i].dat /\ new.game = ts[i].game
           /\ new.live = ts[i].live /\ new.wanted = ts[i].wanted /\ new.parent \in {ts[i].parent, parent(i)}
    BY <2>1, <2>2, LinkedRow
  <2> QED
    BY <2>1, <2>2, <2>3, <2>4
<1> HIDE DEF row
<1>4. us = [i \in 1..Len(ts) |-> us[i]] /\ \A i \in DOMAIN ts : us[i] = row(i)
  BY <1>1, <1>2
<1> HIDE DEF us
<1>5. us \in Titles /\ Len(us) = Len(ts) /\ DOMAIN us = DOMAIN ts
  BY <1>2, <1>3, <1>4, IsTable
<1> QED
  BY <1>3, <1>4, <1>5 DEF SameRows, ParentsIn, us

\* A title of another version of d's family ends with its load; no other is touched.
Outlived(ts, vs, d, i) ==
    ts[i].dat # d /\ ts[i].live /\ Fam(ts[i].dat) = Fam(d) /\ vs[ts[i].dat].bound

LEMMA AbsentRows ==
    ASSUME NEW ts \in Titles, NEW vs, NEW d \in Dats
    PROVE  LET us == Absent(ts, vs, d)
           IN  /\ us \in Titles /\ DOMAIN us = DOMAIN ts /\ Len(us) = Len(ts)
               /\ \A i \in DOMAIN ts :
                     /\ us[i].dat = ts[i].dat /\ us[i].game = ts[i].game
                     /\ us[i].live <=> ts[i].live /\ ~Outlived(ts, vs, d, i)
                     /\ us[i].wanted = ts[i].wanted /\ us[i].parent = ts[i].parent
<1> DEFINE us == Absent(ts, vs, d)
           row(i) == IF Outlived(ts, vs, d, i) THEN Absented(ts[i])
                     ELSE IF ts[i].dat = d /\ ~ts[i].live THEN Unpicked(ts[i]) ELSE ts[i]
<1>1. us = [i \in DOMAIN ts |-> row(i)]
  BY DEF Absent, Outlived, Absented, Unpicked
<1>2. DOMAIN ts = 1..Len(ts) /\ Len(ts) \in Nat
  BY DomainFinite
<1>3. ASSUME NEW i \in DOMAIN ts
      PROVE  /\ row(i) \in Title /\ row(i).dat = ts[i].dat /\ row(i).game = ts[i].game
             /\ row(i).live <=> ts[i].live /\ ~Outlived(ts, vs, d, i)
             /\ row(i).wanted = ts[i].wanted /\ row(i).parent = ts[i].parent
  <2>1. ts[i] \in Title
    BY RowType
  <2>2. /\ Absented(ts[i]).live = FALSE /\ Unpicked(ts[i]).live = ts[i].live
        /\ \A new \in {Absented(ts[i]), Unpicked(ts[i])} :
              /\ new \in Title /\ new.dat = ts[i].dat /\ new.game = ts[i].game
              /\ new.wanted = ts[i].wanted /\ new.parent = ts[i].parent /\ new.root = ts[i].root
              /\ new.pick = FALSE
    BY <2>1, AbsentRow
  <2>3. CASE Outlived(ts, vs, d, i)
    BY <2>2, <2>3
  <2>4. CASE ~Outlived(ts, vs, d, i) /\ ts[i].dat = d /\ ~ts[i].live
    BY <2>2, <2>4
  <2>5. CASE ~Outlived(ts, vs, d, i) /\ ~(ts[i].dat = d /\ ~ts[i].live)
    BY <2>1, <2>5
  <2> QED
    BY <2>3, <2>4, <2>5
<1> HIDE DEF row
<1>4. us = [i \in 1..Len(ts) |-> us[i]] /\ \A i \in DOMAIN ts : us[i] = row(i)
  BY <1>1, <1>2
<1> HIDE DEF us
<1>5. us \in Titles /\ Len(us) = Len(ts) /\ DOMAIN us = DOMAIN ts
  BY <1>2, <1>3, <1>4, IsTable
<1> QED
  BY <1>3, <1>4, <1>5 DEF us

\* What a row that game g of file f takes becomes, and a row that no game takes.
IsTaken(ts, us, d, f, i) ==
    \E g \in ToSet(Games[f]) :
        RowOf(ts, d, Game[g].name) = i /\ us[i].dat = d /\ us[i].game = g /\ us[i].live
IsLeft(ts, us, vs, d, f, i) ==
    /\ \A g \in ToSet(Games[f]) : RowOf(ts, d, Game[g].name) # i
    /\ us[i].dat = ts[i].dat /\ us[i].game = ts[i].game
    /\ us[i].live <=> /\ ts[i].live /\ ts[i].dat # d
                      /\ ~(Fam(ts[i].dat) = Fam(d) /\ vs[ts[i].dat].bound)
IsNew(ts, us, d, f, i) ==
    \E k \in New(ts, d, f) :
        NewId(ts, d, f, k) = i /\ us[i].dat = d /\ us[i].game = Games[f][k] /\ us[i].live

LEMMA LoadedRows ==
    ASSUME NEW ts \in Titles, NEW vs \in Versions, NEW d \in Dats, NEW f \in Files, NEW p \in Preferences
    PROVE  LET us == Loaded(ts, vs, d, f, p)
           IN  /\ us \in Titles /\ DOMAIN ts \subseteq DOMAIN us /\ PicksHold(us, p)
               /\ DOMAIN us = 1..(Len(ts) + Cardinality(New(ts, d, f)))
               /\ \A i \in DOMAIN ts : us[i].wanted = ts[i].wanted
               /\ \A i \in DOMAIN ts : IsTaken(ts, us, d, f, i) \/ IsLeft(ts, us, vs, d, f, i)
               /\ \A i \in DOMAIN us \ DOMAIN ts : IsNew(ts, us, d, f, i)
               /\ ParentsIn(ts) =>
                     \E new \in Titles : ParentsIn(new) /\ SameRows(new, us) /\ us = Recomputed(new, vs, p)
<1> DEFINE t1 == Applied(ts, d, f)
           t2 == Linked(t1, d, f)
           t3 == Absent(t2, vs, d)
           us == Recomputed(t3, vs, p)
<1>1. us = Loaded(ts, vs, d, f, p)
  BY DEF Loaded
<1>2. /\ t1 \in Titles /\ DOMAIN ts \subseteq DOMAIN t1
      /\ Len(t1) = Len(ts) + Cardinality(New(ts, d, f))
      /\ \A i \in DOMAIN ts :
            \/ \E g \in ToSet(Games[f]) :
                  RowOf(ts, d, Game[g].name) = i /\ t1[i] = Taken(ts[i], d, g)
            \/ /\ \A g \in ToSet(Games[f]) : RowOf(ts, d, Game[g].name) # i
               /\ t1[i] = IF ts[i].dat = d THEN Ended(ts[i]) ELSE ts[i]
      /\ \A i \in DOMAIN t1 \ DOMAIN ts :
            \E k \in New(ts, d, f) : NewId(ts, d, f, k) = i /\ t1[i] = Row(d, Games[f][k], i)
  BY AppliedRows
<1> HIDE DEF t1
<1>3. /\ t2 \in Titles /\ SameRows(t1, t2)
      /\ \A i \in DOMAIN t1 : t2[i].wanted = t1[i].wanted
      /\ ParentsIn(t1) => ParentsIn(t2)
  BY <1>2, LinkedRows
<1> HIDE DEF t2
<1>4. /\ t3 \in Titles /\ DOMAIN t3 = DOMAIN t2
      /\ \A i \in DOMAIN t2 :
            /\ t3[i].dat = t2[i].dat /\ t3[i].game = t2[i].game
            /\ t3[i].live <=> t2[i].live /\ ~Outlived(t2, vs, d, i)
            /\ t3[i].wanted = t2[i].wanted /\ t3[i].parent = t2[i].parent
  BY <1>3, AbsentRows
<1> HIDE DEF t3
<1>5. /\ us \in Titles /\ SameRows(t3, us) /\ PicksHold(us, p)
      /\ \A i \in DOMAIN t3 : us[i].wanted = t3[i].wanted /\ us[i].parent = Parents(t3)[i]
  BY <1>4, RecomputedRows, RecomputedPicks
<1> HIDE DEF us
<1>6. DOMAIN us = DOMAIN t1 /\ DOMAIN t2 = DOMAIN t1
  BY <1>3, <1>4, <1>5 DEF SameRows
<1>7. \A i \in DOMAIN t1 :
        /\ us[i].dat = t1[i].dat /\ us[i].game = t1[i].game /\ us[i].wanted = t1[i].wanted
        /\ us[i].live <=> /\ t1[i].live
                          /\ ~(t1[i].dat # d /\ Fam(t1[i].dat) = Fam(d) /\ vs[t1[i].dat].bound)
  <2> SUFFICES ASSUME NEW i \in DOMAIN t1
               PROVE  /\ us[i].dat = t1[i].dat /\ us[i].game = t1[i].game /\ us[i].wanted = t1[i].wanted
                      /\ us[i].live <=> /\ t1[i].live
                                        /\ ~(t1[i].dat # d /\ Fam(t1[i].dat) = Fam(d) /\ vs[t1[i].dat].bound)
    OBVIOUS
  <2>1. t2[i].dat = t1[i].dat /\ t2[i].game = t1[i].game /\ t2[i].live = t1[i].live
    BY <1>3 DEF SameRows
  <2>2. us[i].dat = t3[i].dat /\ us[i].game = t3[i].game /\ us[i].live = t3[i].live
    BY <1>4, <1>5, <1>6 DEF SameRows
  <2>3. /\ t3[i].dat = t2[i].dat /\ t3[i].game = t2[i].game
        /\ t3[i].live <=> t2[i].live /\ ~Outlived(t2, vs, d, i)
    BY <1>4, <1>6
  <2>4. us[i].wanted = t1[i].wanted
    BY <1>3, <1>4, <1>5, <1>6
  <2> QED
    BY <2>1, <2>2, <2>3, <2>4 DEF Outlived
<1>8. ASSUME NEW i \in DOMAIN ts
      PROVE  us[i].wanted = ts[i].wanted /\ (IsTaken(ts, us, d, f, i) \/ IsLeft(ts, us, vs, d, f, i))
  <2>1. ts[i] \in Title /\ i \in DOMAIN t1
    BY <1>2, RowType
  <2>2. CASE \E g \in ToSet(Games[f]) : RowOf(ts, d, Game[g].name) = i /\ t1[i] = Taken(ts[i], d, g)
    <3>1. PICK g \in ToSet(Games[f]) : RowOf(ts, d, Game[g].name) = i /\ t1[i] = Taken(ts[i], d, g)
      BY <2>2
    <3>2. g \in DOMAIN Game
      BY GamesIn
    <3>3. t1[i].dat = d /\ t1[i].game = g /\ t1[i].live = TRUE /\ t1[i].wanted = ts[i].wanted
      <4>1. ASSUME NEW row \in Title
            PROVE  LET new == Taken(row, d, g)
                   IN  new.dat = d /\ new.game = g /\ new.live = TRUE /\ new.wanted = row.wanted
        BY <3>2, TakenRow
      <4> QED
        BY <2>1, <3>1, <4>1
    <3>4. us[i].dat = d /\ us[i].game = g /\ us[i].live /\ us[i].wanted = ts[i].wanted
      BY <1>7, <2>1, <3>3
    <3> QED
      BY <3>1, <3>4 DEF IsTaken
  <2>3. CASE /\ \A g \in ToSet(Games[f]) : RowOf(ts, d, Game[g].name) # i
             /\ t1[i] = IF ts[i].dat = d THEN Ended(ts[i]) ELSE ts[i]
    <3>1. /\ t1[i].dat = ts[i].dat /\ t1[i].game = ts[i].game /\ t1[i].wanted = ts[i].wanted
          /\ t1[i].live <=> ts[i].live /\ ts[i].dat # d
      BY <2>1, <2>3, EndedRow
    <3>2. /\ us[i].dat = ts[i].dat /\ us[i].game = ts[i].game /\ us[i].wanted = ts[i].wanted
          /\ us[i].live <=> /\ ts[i].live /\ ts[i].dat # d
                            /\ ~(Fam(ts[i].dat) = Fam(d) /\ vs[ts[i].dat].bound)
      BY <1>7, <2>1, <3>1
    <3> QED
      BY <2>3, <3>2 DEF IsLeft
  <2> QED
    BY <1>2, <2>2, <2>3
<1>9. ASSUME NEW i \in DOMAIN us \ DOMAIN ts
      PROVE  IsNew(ts, us, d, f, i)
  <2>1. i \in DOMAIN t1 /\ i \notin DOMAIN ts
    BY <1>6
  <2>2. PICK k \in New(ts, d, f) : NewId(ts, d, f, k) = i /\ t1[i] = Row(d, Games[f][k], i)
    BY <1>2, <2>1
  <2>3. Games[f][k] \in DOMAIN Game /\ i \in Nat
    BY <1>2, <2>1, NewType, RowType
  <2>4. t1[i].dat = d /\ t1[i].game = Games[f][k] /\ t1[i].live = TRUE
    <3> DEFINE row == Row(d, Games[f][k], i)
    <3>1. row.dat = d /\ row.game = Games[f][k] /\ row.live = TRUE
      BY <2>3, NewRow
    <3> HIDE DEF row
    <3>2. t1[i] = row
      BY <2>2 DEF row
    <3> QED
      BY <3>1, <3>2
  <2>5. us[i].dat = d /\ us[i].game = Games[f][k] /\ us[i].live
    BY <1>7, <2>1, <2>4
  <2> QED
    BY <2>2, <2>5 DEF IsNew
<1>10. DOMAIN ts \subseteq DOMAIN us
  BY <1>2, <1>6
<1>11. us \in Titles /\ PicksHold(us, p)
  BY <1>5
<1>12. DOMAIN us = 1..(Len(ts) + Cardinality(New(ts, d, f)))
  BY <1>2, <1>6, DomainFinite
<1>13. ASSUME ParentsIn(ts)
       PROVE  \E new \in Titles : ParentsIn(new) /\ SameRows(new, us) /\ us = Recomputed(new, vs, p)
  <2>1. ASSUME NEW i \in DOMAIN t1
        PROVE  t1[i].parent \in DOMAIN t1
    <3>1. CASE i \in DOMAIN ts
      <4>1. ts[i] \in Title
        BY <3>1, RowType
      <4>2. \A g : Taken(ts[i], d, g).parent = ts[i].parent
        BY <4>1, RowParents
      <4>3. Ended(ts[i]).parent = ts[i].parent
        BY <4>1, RowParents
      <4>4. t1[i].parent = ts[i].parent
        BY <1>2, <3>1, <4>2, <4>3
      <4> QED
        BY <1>2, <1>13, <3>1, <4>4 DEF ParentsIn
    <3>2. CASE i \notin DOMAIN ts
      <4>1. PICK k \in New(ts, d, f) : t1[i] = Row(d, Games[f][k], i)
        BY <1>2, <3>2
      <4>2. Row(d, Games[f][k], i).parent = i
        BY RowParents
      <4> QED
        BY <4>1, <4>2
    <3> QED
      BY <3>1, <3>2
  <2>2. ParentsIn(t3)
    BY <1>3, <1>4, <2>1 DEF ParentsIn
  <2> QED
    BY <1>4, <1>5, <2>2 DEF us
<1> QED
  BY <1>1, <1>8, <1>9, <1>10, <1>11, <1>12, <1>13

-----------------------------------------------------------------------------
(* Versions *)

NewVersion(number, f, bound, super) ==
    [number |-> number, file |-> f, bound |-> bound, retired |-> FALSE, count |-> Len(Games[f]),
     super |-> super]
Superseded(v, d) == [v EXCEPT !.super = d]

LEMMA NewVersionRow ==
    ASSUME NEW n \in Nat, NEW f \in Files, NEW b \in BOOLEAN, NEW s \in Dats \cup {None}
    PROVE  LET v == NewVersion(n, f, b, s)
           IN  v \in Version /\ v.bound = b /\ v.retired = FALSE /\ v.super = s
<1>1. Len(Games[f]) \in Nat
  BY GameFacts
<1> QED
  BY <1>1 DEF NewVersion, Version

LEMMA SupersededRow ==
    ASSUME NEW v \in Version, NEW d \in Dats
    PROVE  LET w == Superseded(v, d)
           IN  /\ w \in Version /\ w.bound = v.bound /\ w.retired = v.retired /\ w.super = d
BY DEF Superseded, Version

LEMMA SupersededSize ==
    ASSUME NEW v \in Version, NEW d \in Dats
    PROVE  Superseded(v, d).number = v.number /\ Superseded(v, d).count = v.count
BY DEF Superseded, Version

\* What the version row of any other DAT becomes when d is loaded.
UpsertedOther(d, bound, current, e) ==
    IF current /\ e \in Known /\ Fam(e) = Fam(d) /\ dats[e].bound = bound /\ dats[e].super = None
    THEN Superseded(dats[e], d) ELSE dats[e]

\* The table vs is what `dats` becomes when d is loaded.
IsUpserted(vs, d, bind) ==
    LET bound   == Bound(d, bind)
        current == IsCurrent(d, bind)
    IN  /\ vs \in Versions
        /\ vs[d] # None /\ (vs[d].bound <=> bound) /\ vs[d].retired = FALSE
        /\ vs[d].super = IF current THEN None ELSE Latest(Rivals(d, bound))
        /\ ~current => Rivals(d, bound) # {} /\ vs[d].super \in Rivals(d, bound)
        /\ \A e \in Dats \ {d} :
              /\ vs[e] = UpsertedOther(d, bound, current, e)
              /\ vs[e] = None <=> dats[e] = None
              /\ dats[e] # None => vs[e].bound = dats[e].bound /\ vs[e].retired = dats[e].retired

LEMMA UpsertedRows ==
    ASSUME TypeOK, LoadsOrdered, NEW d \in Dats, NEW bind \in BOOLEAN, NEW f \in Files
    PROVE  IsUpserted(Upserted(d, bind, f), d, bind)
<1> DEFINE bound == Bound(d, bind)
           current == IsCurrent(d, bind)
           rivals == Rivals(d, bound)
           number == IF dats[d] # None THEN dats[d].number ELSE Cardinality(Known) + 1
           super == IF current THEN None ELSE Latest(rivals)
           vs == Upserted(d, bind, f)
           row == NewVersion(number, f, bound, super)
<1>1. vs = [e \in Dats |-> IF e = d THEN row ELSE UpsertedOther(d, bound, current, e)]
  BY DEF Upserted, NewVersion, UpsertedOther, Superseded
<1>2. dats \in Versions
  BY DEF TypeOK, Versions
<1>3. number \in Nat
  <2>1. Cardinality(Known) \in Nat
    BY FS_CardinalityType DEF LoadsOrdered
  <2> QED
    BY <1>2, <2>1, VersionType
<1>4. ~current => rivals # {} /\ Latest(rivals) \in rivals
  <2>1. rivals \subseteq Known
    BY DEF Rivals
  <2>2. ~current => rivals # {}
    BY DEF IsCurrent
  <2> HIDE DEF rivals
  <2> QED
    BY <2>1, <2>2, LatestIn
<1>5. super \in Dats \cup {None}
  BY <1>4 DEF Rivals, Known
<1>6. bound \in BOOLEAN
  <2>1. Inherits(d, bind) \in BOOLEAN
    BY DEF Inherits
  <2>2. dats[d] # None => dats[d].bound \in BOOLEAN
    BY <1>2, VersionType
  <2> QED
    BY <2>1, <2>2 DEF Bound
<1>7. row \in Version /\ (row.bound <=> bound) /\ row.retired = FALSE /\ row.super = super
  <2> HIDE DEF number, super, bound
  <2>1. \A b \in BOOLEAN :
          LET v == NewVersion(number, f, b, super)
          IN  v \in Version /\ v.bound = b /\ v.retired = FALSE /\ v.super = super
    <3> SUFFICES ASSUME NEW b \in BOOLEAN
                 PROVE  LET v == NewVersion(number, f, b, super)
                        IN  v \in Version /\ v.bound = b /\ v.retired = FALSE /\ v.super = super
      OBVIOUS
    <3> QED
      BY <1>3, <1>5, NewVersionRow
  <2> QED
    BY <1>6, <2>1
<1>8. ASSUME NEW e \in Dats \ {d}
      PROVE  LET w == UpsertedOther(d, bound, current, e)
             IN  /\ w \in Version \cup {None} /\ (w = None <=> dats[e] = None)
                 /\ dats[e] # None => w.bound = dats[e].bound /\ w.retired = dats[e].retired
  <2>1. CASE dats[e] = None
    BY <2>1 DEF UpsertedOther, Known
  <2>2. CASE dats[e] # None
    <3>1. dats[e] \in Version
      BY <1>2, <2>2, VersionType
    <3>2. LET w == Superseded(dats[e], d)
          IN  w \in Version /\ w.bound = dats[e].bound /\ w.retired = dats[e].retired
      BY <3>1, SupersededRow
    <3>3. UpsertedOther(d, bound, current, e) \in {Superseded(dats[e], d), dats[e]}
      BY DEF UpsertedOther
    <3> HIDE DEF bound, current
    <3> QED
      BY <2>2, <3>1, <3>2, <3>3, NoneAssumption
  <2> QED
    BY <2>1, <2>2
<1> HIDE DEF row, bound, current, super, rivals
<1>9. vs[d] = row /\ \A e \in Dats \ {d} : vs[e] = UpsertedOther(d, bound, current, e)
  BY <1>1
<1>10. vs \in Versions
  <2>1. \A e \in Dats : (IF e = d THEN row ELSE UpsertedOther(d, bound, current, e)) \in Version \cup {None}
    BY <1>7, <1>8
  <2> QED
    BY <1>1, <2>1 DEF Versions
<1> HIDE DEF vs
<1>11. row # None
  BY <1>7, NoneAssumption
<1>12. \A e \in Dats \ {d} :
         /\ vs[e] = None <=> dats[e] = None
         /\ dats[e] # None => vs[e].bound = dats[e].bound /\ vs[e].retired = dats[e].retired
  BY <1>8, <1>9
<1> QED
  BY <1>4, <1>7, <1>9, <1>10, <1>11, <1>12 DEF IsUpserted, vs, bound, current, super, rivals

-----------------------------------------------------------------------------
(* What the steps do to the tables *)

LEMMA TypeFacts ==
    ASSUME TypeOK
    PROVE  /\ titles \in Titles /\ dats \in Versions /\ rule \in Rules /\ queue \subseteq Task
           /\ prefs \in Preferences /\ saved \in Preferences /\ job \in Work \cup {None}
           /\ listed \in [Dats -> Files \cup {None}] /\ loads \subseteq Known \X Known
BY DEF TypeOK, Titles, Versions

Dropped(row) == [row EXCEPT !.live = FALSE, !.pick = FALSE, !.wanted = FALSE]
Unwanted(row) == [row EXCEPT !.wanted = FALSE]
Wanted(row) == [row EXCEPT !.wanted = TRUE]

LEMMA HandledRow ==
    ASSUME NEW row \in Title
    PROVE  /\ \A new \in {Dropped(row), Unwanted(row), Wanted(row)} :
                 new \in Title /\ new.dat = row.dat /\ new.game = row.game
                 /\ new.parent = row.parent /\ new.root = row.root
           /\ Dropped(row).live = FALSE /\ Dropped(row).pick = FALSE
           /\ Unwanted(row).live = row.live /\ Unwanted(row).pick = row.pick /\ Unwanted(row).wanted = FALSE
           /\ Wanted(row).live = row.live /\ Wanted(row).pick = row.pick /\ Wanted(row).wanted = TRUE
BY DEF Dropped, Unwanted, Wanted, Title

\* The same rows, with the same groups and picks.
SamePicks(ts, us) ==
    /\ SameRows(ts, us)
    /\ \A i \in DOMAIN ts :
          us[i].parent = ts[i].parent /\ us[i].root = ts[i].root /\ us[i].pick = ts[i].pick

LEMMA WantEffect ==
    ASSUME TypeOK, NEW i \in DOMAIN titles, Want(i)
    PROVE  /\ titles' \in Titles /\ SamePicks(titles, titles')
           /\ \A k \in DOMAIN titles : titles[k].wanted => titles'[k].wanted
<1>1. titles \in Titles /\ DOMAIN titles = 1..Len(titles) /\ Len(titles) \in Nat
  BY TypeFacts, DomainFinite
<1>2. titles' = [titles EXCEPT ![i] = Wanted(titles[i])]
  BY DEF Want, Wanted
<1>3. titles' = [k \in 1..Len(titles) |-> titles'[k]]
  BY <1>1, <1>2
<1>4. \A k \in DOMAIN titles : titles'[k] = IF k = i THEN Wanted(titles[i]) ELSE titles[k]
  BY <1>1, <1>2
<1>5. /\ Wanted(titles[i]) \in Title /\ Wanted(titles[i]).dat = titles[i].dat
      /\ Wanted(titles[i]).game = titles[i].game /\ Wanted(titles[i]).root = titles[i].root
      /\ Wanted(titles[i]).live = titles[i].live /\ Wanted(titles[i]).pick = titles[i].pick
      /\ Wanted(titles[i]).wanted = TRUE /\ Wanted(titles[i]).parent = titles[i].parent
  BY <1>1, RowType, HandledRow
<1>6. \A k \in 1..Len(titles) : titles'[k] \in Title
  BY <1>1, <1>4, <1>5, RowType
<1>7. titles' \in Titles /\ DOMAIN titles' = 1..Len(titles)
  BY <1>1, <1>3, <1>6, IsTable
<1> QED
  BY <1>1, <1>4, <1>5, <1>7 DEF SamePicks, SameRows

LEMMA UnwantEffect ==
    ASSUME TypeOK, NEW r, Unwant(r)
    PROVE  /\ titles' \in Titles /\ SamePicks(titles, titles')
           /\ \A k \in DOMAIN titles : titles'[k].wanted = (titles[k].root # r /\ titles[k].wanted)
<1> DEFINE row(k) == IF titles[k].root = r THEN Unwanted(titles[k]) ELSE titles[k]
<1>1. titles \in Titles /\ DOMAIN titles = 1..Len(titles) /\ Len(titles) \in Nat
  BY TypeFacts, DomainFinite
<1>2. titles' = [k \in 1..Len(titles) |-> row(k)]
  BY <1>1 DEF Unwant, Unwanted
<1>3. ASSUME NEW k \in 1..Len(titles)
      PROVE  /\ row(k) \in Title /\ row(k).dat = titles[k].dat /\ row(k).game = titles[k].game
             /\ row(k).parent = titles[k].parent /\ row(k).root = titles[k].root /\ row(k).live = titles[k].live
             /\ row(k).pick = titles[k].pick
             /\ row(k).wanted = (titles[k].root # r /\ titles[k].wanted)
  <2>1. titles[k] \in Title /\ titles[k].wanted \in BOOLEAN
    BY <1>1, RowType DEF Title
  <2>2. LET new == Unwanted(titles[k])
        IN  /\ new \in Title /\ new.dat = titles[k].dat /\ new.game = titles[k].game
            /\ new.parent = titles[k].parent /\ new.root = titles[k].root /\ new.live = titles[k].live
            /\ new.pick = titles[k].pick
            /\ new.wanted = FALSE
    BY <2>1, HandledRow
  <2> QED
    BY <2>1, <2>2
<1> HIDE DEF row
<1>4. titles' = [k \in 1..Len(titles) |-> titles'[k]] /\ \A k \in 1..Len(titles) : titles'[k] = row(k)
  BY <1>2
<1>5. titles' \in Titles /\ DOMAIN titles' = 1..Len(titles)
  BY <1>1, <1>3, <1>4, IsTable
<1> QED
  BY <1>1, <1>3, <1>4, <1>5 DEF SamePicks, SameRows

\* Titles of the DATs in D end, and are picks no more; the others are as they were.
EndOf(ts, us, D) ==
    /\ DOMAIN us = DOMAIN ts
    /\ \A i \in DOMAIN ts :
          /\ us[i].dat = ts[i].dat /\ us[i].game = ts[i].game
          /\ us[i].parent = ts[i].parent /\ us[i].root = ts[i].root
          /\ us[i].live <=> ts[i].live /\ ts[i].dat \notin D
          /\ ts[i].dat \in D => ~us[i].pick
          /\ ts[i].dat \notin D => us[i] = ts[i]

LEMMA RemoveEffect ==
    ASSUME TypeOK, NEW d \in Dats, RemoveDat(d)
    PROVE  titles' \in Titles /\ EndOf(titles, titles', {d})
<1> DEFINE row(k) == IF titles[k].dat = d THEN Dropped(titles[k]) ELSE titles[k]
<1>1. titles \in Titles /\ DOMAIN titles = 1..Len(titles) /\ Len(titles) \in Nat
  BY TypeFacts, DomainFinite
<1>2. titles' = [k \in 1..Len(titles) |-> row(k)]
  BY <1>1 DEF RemoveDat, Dropped
<1>3. ASSUME NEW k \in 1..Len(titles)
      PROVE  /\ row(k) \in Title /\ row(k).dat = titles[k].dat /\ row(k).game = titles[k].game
             /\ row(k).parent = titles[k].parent /\ row(k).root = titles[k].root
             /\ row(k).live <=> titles[k].live /\ titles[k].dat # d
             /\ titles[k].dat = d => ~row(k).pick
             /\ titles[k].dat # d => row(k) = titles[k]
  <2>1. titles[k] \in Title
    BY <1>1, RowType
  <2>2. LET new == Dropped(titles[k])
        IN  /\ new \in Title /\ new.dat = titles[k].dat /\ new.game = titles[k].game
            /\ new.parent = titles[k].parent /\ new.root = titles[k].root /\ new.live = FALSE
            /\ new.pick = FALSE
    BY <2>1, HandledRow
  <2> QED
    BY <2>1, <2>2
<1> HIDE DEF row
<1>4. titles' = [k \in 1..Len(titles) |-> titles'[k]] /\ \A k \in 1..Len(titles) : titles'[k] = row(k)
  BY <1>2
<1>5. titles' \in Titles /\ DOMAIN titles' = 1..Len(titles)
  BY <1>1, <1>3, <1>4, IsTable
<1> QED
  BY <1>1, <1>3, <1>4, <1>5 DEF EndOf

LEMMA RestartEffect ==
    ASSUME TypeOK, NEW r, Restart(r)
    PROVE  /\ titles' \in Titles /\ EndOf(titles, titles', Losers(r))
           /\ \A i \in DOMAIN titles : titles'[i].wanted = titles[i].wanted
<1> DEFINE lost == Losers(r)
           row(k) == IF titles[k].dat \in lost THEN Absented(titles[k]) ELSE titles[k]
<1>1. titles \in Titles /\ DOMAIN titles = 1..Len(titles) /\ Len(titles) \in Nat
  BY TypeFacts, DomainFinite
<1>2. titles' = [k \in 1..Len(titles) |-> row(k)]
  BY <1>1 DEF Restart, Absented
<1> HIDE DEF lost
<1>3. ASSUME NEW k \in 1..Len(titles)
      PROVE  /\ row(k) \in Title /\ row(k).dat = titles[k].dat /\ row(k).game = titles[k].game
             /\ row(k).parent = titles[k].parent /\ row(k).root = titles[k].root
             /\ row(k).live <=> titles[k].live /\ titles[k].dat \notin lost
             /\ titles[k].dat \in lost => ~row(k).pick
             /\ titles[k].dat \notin lost => row(k) = titles[k]
             /\ row(k).wanted = titles[k].wanted
  <2>1. titles[k] \in Title
    BY <1>1, RowType
  <2>2. LET new == Absented(titles[k])
        IN  /\ new \in Title /\ new.dat = titles[k].dat /\ new.game = titles[k].game
            /\ new.parent = titles[k].parent /\ new.root = titles[k].root /\ new.live = FALSE
            /\ new.pick = FALSE /\ new.wanted = titles[k].wanted
    BY <2>1, AbsentRow
  <2> QED
    BY <2>1, <2>2
<1> HIDE DEF row
<1>4. titles' = [k \in 1..Len(titles) |-> titles'[k]] /\ \A k \in 1..Len(titles) : titles'[k] = row(k)
  BY <1>2
<1>5. titles' \in Titles /\ DOMAIN titles' = 1..Len(titles)
  BY <1>1, <1>3, <1>4, IsTable
<1> QED
  BY <1>1, <1>3, <1>4, <1>5 DEF EndOf, lost

\* A family has a newest version: the one that stays is not older than any other.
LEMMA WinnerIn ==
    ASSUME LoadsOrdered, NEW vs, NEW S \in SUBSET Known, S # {}
    PROVE  Winner(vs, S) \in S /\ \A e \in S : NotOlder(Winner(vs, S), e)
<1> DEFINE newest == {d \in S : \A e \in S : NotOlder(d, e)}
           R == {x \in S \X S : Order[x[1]] <= Order[x[2]]}
<1>1. IsFiniteSet(S)
  BY FS_Subset DEF LoadsOrdered
<1>2. \A d \in S : Order[d] \in Nat
  BY CatalogAssumption DEF Known
<1>3. \A d, e \in S : <<d, e>> \in R <=> Order[d] <= Order[e]
  OBVIOUS
<1> HIDE DEF R
<1>4. \A d, e \in S : <<d, e>> \in R \/ <<e, d>> \in R
  <2> SUFFICES ASSUME NEW d \in S, NEW e \in S
               PROVE  Order[d] <= Order[e] \/ Order[e] <= Order[d]
    BY <1>3
  <2> QED
    BY <1>2
<1>5. \A d, e, g \in S : <<d, e>> \in R /\ <<e, g>> \in R => <<d, g>> \in R
  <2> SUFFICES ASSUME NEW d \in S, NEW e \in S, NEW g \in S, Order[d] <= Order[e], Order[e] <= Order[g]
               PROVE  Order[d] <= Order[g]
    BY <1>3
  <2>1. Order[d] \in Nat /\ Order[e] \in Nat /\ Order[g] \in Nat
    BY <1>2
  <2> QED
    BY <2>1
<1>6. PICK d \in S : \A e \in S : <<e, d>> \in R
  BY <1>1, <1>4, <1>5, LastIn
<1>7. d \in newest
  BY <1>2, <1>3, <1>6 DEF NotOlder
<1>8. Winner(vs, S) = Latest(newest)
  BY <1>7 DEF Winner
<1>9. newest \in SUBSET Known
  OBVIOUS
<1>10. Latest(newest) \in newest
  <2> HIDE DEF newest
  <2> QED
    BY <1>7, <1>9, LatestIn
<1> QED
  BY <1>8, <1>10

\* Bound versions stay bound, and none becomes current; those of D stop being current.
StopOf(D) ==
    /\ dats' \in Versions /\ Known' = Known
    /\ \A d \in Known :
          /\ dats'[d].bound = dats[d].bound /\ dats'[d].number = dats[d].number
          /\ d \in D => dats'[d].retired \/ dats'[d].super # None
          /\ d \notin D => dats'[d] = dats[d]

LEMMA RemoveDats ==
    ASSUME TypeOK, NEW d \in Dats, RemoveDat(d)
    PROVE  StopOf({d}) /\ dats'[d].retired
<1>1. dats \in Versions /\ dats[d] # None /\ dats' = [dats EXCEPT ![d].retired = TRUE]
  BY TypeFacts DEF RemoveDat
<1>2. dats[d] \in Version
  BY <1>1, VersionType
<1> DEFINE row == [dats[d] EXCEPT !.retired = TRUE]
<1>3. row \in Version /\ row.bound = dats[d].bound /\ row.retired = TRUE /\ row.number = dats[d].number
  BY <1>2 DEF Version
<1>4. dats' = [dats EXCEPT ![d] = row]
  BY <1>1
<1>5. row # None
  BY <1>3, NoneAssumption
<1> HIDE DEF row
<1>6. dats' \in Versions /\ dats'[d] = row /\ \A e \in Dats \ {d} : dats'[e] = dats[e]
  BY <1>1, <1>3, <1>4 DEF Versions
<1>7. Known' = Known
  BY <1>1, <1>5, <1>6 DEF Known
<1> QED
  BY <1>3, <1>6, <1>7 DEF StopOf, Known

LEMMA LoserFacts ==
    ASSUME LoadsOrdered, NEW r, NEW d \in Losers(r)
    PROVE  LET S == Equals(r, d)
           IN  /\ d \in Known /\ IsLive(dats, d) /\ d \in S /\ S \in SUBSET Known
               /\ Winner(dats, S) \in S /\ Winner(dats, S) # d /\ NotOlder(Winner(dats, S), d)
               /\ Equals(r, Winner(dats, S)) = S
<1>1. d \in Known /\ IsLive(dats, d) /\ d # Winner(dats, Equals(r, d))
  BY DEF Losers
<1>2. d \in Equals(r, d) /\ Equals(r, d) \in SUBSET Known
  BY <1>1 DEF Equals
<1>3. Winner(dats, Equals(r, d)) \in Equals(r, d) /\ NotOlder(Winner(dats, Equals(r, d)), d)
  BY <1>2, WinnerIn
<1>4. Equals(r, Winner(dats, Equals(r, d))) = Equals(r, d)
  <2> DEFINE w == Winner(dats, Equals(r, d))
  <2>1. Family[r][w] = Family[r][d] /\ dats[w].bound = dats[d].bound
    BY <1>3 DEF Equals
  <2> HIDE DEF w
  <2>2. Equals(r, w) = Equals(r, d)
    BY <2>1 DEF Equals
  <2> QED
    BY <2>2 DEF w
<1> QED
  BY <1>1, <1>2, <1>3, <1>4

LEMMA RestartDats ==
    ASSUME TypeOK, LoadsOrdered, NEW r, Restart(r)
    PROVE  StopOf(Losers(r))
<1> DEFINE lost == Losers(r)
           row(d) == IF d \in lost THEN Superseded(dats[d], Winner(dats, Equals(r, d))) ELSE dats[d]
<1>1. dats' = [d \in Dats |-> row(d)]
  BY DEF Restart, Superseded
<1>2. ASSUME NEW d \in Dats
      PROVE  /\ row(d) \in Version \cup {None} /\ (row(d) = None <=> dats[d] = None)
             /\ dats[d] # None => row(d).bound = dats[d].bound /\ row(d).number = dats[d].number
             /\ d \in lost => row(d).super # None
             /\ d \notin lost => row(d) = dats[d]
  <2>1. dats[d] \in Version \cup {None}
    BY TypeFacts DEF Versions
  <2>2. CASE d \in lost
    <3> DEFINE w == Winner(dats, Equals(r, d))
    <3>1. d \in Known /\ w \in Known
      BY <2>2, LoserFacts
    <3>2. dats[d] \in Version /\ w \in Dats /\ dats[d] # None
      BY <2>1, <3>1 DEF Known
    <3>3. row(d) = Superseded(dats[d], w)
      BY <2>2
    <3> HIDE DEF w, row
    <3>4. row(d) \in Version /\ row(d).bound = dats[d].bound /\ row(d).super = w
      BY <3>2, <3>3, SupersededRow
    <3>5. w # None
      BY <3>2, GameFacts
    <3>6. row(d).number = dats[d].number
      BY <3>2, <3>3, SupersededSize
    <3> QED
      BY <2>2, <3>2, <3>4, <3>5, <3>6, NoneAssumption
  <2>3. CASE d \notin lost
    BY <2>1, <2>3
  <2> QED
    BY <2>2, <2>3
<1> HIDE DEF row
<1>3. dats' \in Versions /\ \A d \in Dats : dats'[d] = row(d)
  BY <1>1, <1>2 DEF Versions
<1>4. Known' = Known
  BY <1>2, <1>3 DEF Known
<1>5. \A d \in Known : d \in Dats /\ dats[d] # None
  BY DEF Known
<1> HIDE DEF lost
<1> QED
  BY <1>2, <1>3, <1>4, <1>5 DEF StopOf, lost

-----------------------------------------------------------------------------
(* Types *)

JobOK ==
    job # None =>
        IF job.task = Recompute THEN job.at \in {"running", "paused"} ELSE job.at \in {"decided", "stored"}
Base == TypeOK /\ JobOK /\ LoadsOrdered /\ TitlesKnown(titles)

LEMMA TaskFacts ==
    ASSUME NEW t \in Task
    PROVE  /\ t.kind \in {"import", "bind", "recompute"} /\ (t.kind = "recompute" <=> t = Recompute)
           /\ t # Recompute => t.file \in Files /\ DatOf[t.file] \in Dats
           /\ t.kind \in {"import", "bind"} => t.file \in Files
<1>1. Recompute.kind = "recompute"
  BY DEF Recompute
<1>2. CASE t \in [kind : {"import", "bind"}, file : Files]
  BY <1>1, <1>2, GameFacts
<1>3. CASE t = Recompute
  BY <1>1, <1>3
<1> QED
  BY <1>2, <1>3 DEF Task, Recompute

LEMMA JobFacts ==
    ASSUME TypeOK, JobOK, job # None
    PROVE  /\ job \in Work /\ job.task \in Task /\ job.prefs \in Preferences
           /\ job.ram \in BOOLEAN /\ job.staged \in BOOLEAN
           /\ job.at \in {"decided", "stored"} =>
                 job.task # Recompute /\ job.task.file \in Files /\ DatOf[job.task.file] \in Dats
           /\ job.at \in {"running", "paused"} => job.task = Recompute
<1>1. job \in Work
  BY TypeFacts
<1>2. /\ job.task \in Task /\ job.prefs \in Preferences
      /\ job.ram \in BOOLEAN /\ job.staged \in BOOLEAN
  BY <1>1 DEF Work
<1> QED
  BY <1>1, <1>2, TaskFacts DEF JobOK

JobOf(t, p, ram, staged, at) == [task |-> t, prefs |-> p, ram |-> ram, staged |-> staged, at |-> at]

LEMMA JobRow ==
    ASSUME NEW t \in Task, NEW p \in Preferences, NEW ram \in BOOLEAN, NEW s \in BOOLEAN,
           NEW at \in {"decided", "stored", "running", "paused"}
    PROVE  LET j == JobOf(t, p, ram, s, at)
           IN  /\ j \in Work /\ j # None /\ j.task = t /\ j.prefs = p /\ j.ram = ram /\ j.staged = s
               /\ j.at = at
BY NoneAssumption DEF JobOf, Work

LEMMA JobMoves ==
    ASSUME TypeOK, job # None, NEW at \in {"decided", "stored", "running", "paused"},
           job' = [job EXCEPT !.at = at]
    PROVE  /\ job' \in Work /\ job' # None /\ job'.task = job.task /\ job'.prefs = job.prefs
           /\ job'.ram = job.ram /\ job'.staged = job.staged /\ job'.at = at
<1>1. job \in Work
  BY TypeFacts
<1> QED
  BY <1>1, NoneAssumption DEF Work

\* The steps that start a job.
LEMMA StartImportJob ==
    ASSUME Base, NEW t \in queue, NEW ram \in BOOLEAN, StartImport(t, ram)
    PROVE  /\ job' = None
              \/ /\ job' \in Work /\ job' # None /\ job'.task = t /\ job'.prefs = prefs /\ job'.ram = ram
                 /\ job'.at = "decided"
                 /\ job'.staged <=> /\ Bound(DatOf[t.file], t.kind = "bind")
                                    /\ IsCurrent(DatOf[t.file], t.kind = "bind")
           /\ t \in Task /\ t # Recompute /\ t.file \in Files
<1> DEFINE d == DatOf[t.file]
           bind == t.kind = "bind"
           stage == Bound(d, bind) /\ IsCurrent(d, bind)
<1>1. t \in Task /\ t # Recompute /\ t.file \in Files
  BY TypeFacts, TaskFacts DEF Base, StartImport, Recompute
<1>2. job' = None \/ job' = JobOf(t, prefs, ram, stage, "decided")
  BY DEF StartImport, JobOf
<1>3. stage \in BOOLEAN
  OBVIOUS
<1> HIDE DEF stage
<1>4. \A s \in BOOLEAN :
         LET j == JobOf(t, prefs, ram, s, "decided")
         IN  /\ j \in Work /\ j # None /\ j.task = t /\ j.prefs = prefs /\ j.ram = ram /\ j.staged = s
             /\ j.at = "decided"
  <2> SUFFICES ASSUME NEW s \in BOOLEAN
               PROVE  LET j == JobOf(t, prefs, ram, s, "decided")
                      IN  /\ j \in Work /\ j # None /\ j.task = t /\ j.prefs = prefs /\ j.ram = ram
                          /\ j.staged = s /\ j.at = "decided"
    OBVIOUS
  <2>1. prefs \in Preferences
    BY TypeFacts DEF Base
  <2> QED
    BY <1>1, <2>1, JobRow
<1> QED
  BY <1>1, <1>2, <1>3, <1>4 DEF stage

LEMMA StartRecomputeJob ==
    ASSUME Base, StartRecompute
    PROVE  /\ job' \in Work /\ job' # None /\ job'.task = Recompute /\ job'.prefs = prefs
           /\ job'.at = "running"
<1>1. prefs \in Preferences /\ Recompute \in Task
  BY TypeFacts DEF Base, Task, Recompute
<1>2. job' = JobOf(Recompute, prefs, FALSE, FALSE, "running")
  BY DEF StartRecompute, JobOf
<1>3. LET j == JobOf(Recompute, prefs, FALSE, FALSE, "running")
      IN  j \in Work /\ j # None /\ j.task = Recompute /\ j.prefs = prefs /\ j.at = "running"
  <2>1. ASSUME NEW b \in BOOLEAN
        PROVE  LET j == JobOf(Recompute, prefs, b, b, "running")
               IN  j \in Work /\ j # None /\ j.task = Recompute /\ j.prefs = prefs /\ j.at = "running"
    BY <1>1, JobRow
  <2> QED
    BY <2>1
<1> QED
  BY <1>2, <1>3

\* The store: what its import is for, and whether it fills the titles.
Storing  == DatOf[job.task.file]
ByBind   == job.task.kind = "bind"
StoreIsCurrent == IsCurrent(Storing, ByBind)
StoreIsBound   == Bound(Storing, ByBind)
Fills    == StoreIsCurrent /\ StoreIsBound /\ (job.ram \/ job.staged)
Stores ==
    /\ dats' = Upserted(Storing, ByBind, job.task.file)
    /\ loads' = {l \in loads : Storing \notin {l[1], l[2]}} \cup ((Known \cup {Storing}) \X {Storing})
    /\ \/ Fills /\ titles' = Loaded(titles, dats', Storing, job.task.file, job.prefs)
       \/ ~Fills /\ job.ram /\ StoreIsBound /\ titles' = Recomputed(titles, dats', job.prefs)
       \/ ~Fills /\ ~(job.ram /\ StoreIsBound) /\ titles' = titles
    /\ listed' = [listed EXCEPT ![Storing] = IF Fills THEN job.task.file ELSE None]
    /\ missed' = (missed /\ ~((Fills \/ (job.ram /\ StoreIsBound)) /\ job.prefs = prefs))
    /\ job' = [job EXCEPT !.at = "stored"]
    /\ UNCHANGED rule

LEMMA StoreStep ==
    ASSUME Store
    PROVE  /\ job # None /\ job.at = "decided" /\ UNCHANGED <<given, budget, queue, settings, removal>>
           /\ \/ ByBind /\ ~StoreIsCurrent /\ job' = None /\ UNCHANGED <<tables, past>>
              \/ ~(ByBind /\ ~StoreIsCurrent) /\ Stores
BY DEF Store, Stores, Storing, ByBind, StoreIsCurrent, StoreIsBound, Fills

LEMMA StoringFacts ==
    ASSUME Base, job # None, job.at = "decided"
    PROVE  /\ Storing \in Dats /\ job.task.file \in Files /\ job.prefs \in Preferences
           /\ ByBind \in BOOLEAN /\ job.task \in Task /\ job.task # Recompute
           /\ StoreIsCurrent \in BOOLEAN /\ StoreIsBound \in BOOLEAN
<1>1. Storing \in Dats /\ job.task.file \in Files /\ job.prefs \in Preferences
      /\ job.task \in Task /\ job.task # Recompute
  BY JobFacts DEF Base, Storing
<1>2. StoreIsCurrent \in BOOLEAN
  BY DEF StoreIsCurrent, IsCurrent
<1>3. StoreIsBound \in BOOLEAN
  <2>1. dats[Storing] # None => dats[Storing].bound \in BOOLEAN
    BY <1>1, TypeFacts, VersionType DEF Base
  <2> QED
    BY <2>1 DEF StoreIsBound, Bound, Inherits
<1> QED
  BY <1>1, <1>2, <1>3 DEF ByBind

\* The store's versions.
LEMMA StoredVersions ==
    ASSUME Base, job # None, job.at = "decided", Stores
    PROVE  /\ dats' \in Versions
           /\ dats'[Storing] # None /\ (dats'[Storing].bound <=> StoreIsBound)
           /\ dats'[Storing].retired = FALSE
           /\ dats'[Storing].super = IF StoreIsCurrent THEN None ELSE Latest(Rivals(Storing, StoreIsBound))
           /\ ~StoreIsCurrent => /\ Rivals(Storing, StoreIsBound) # {}
                                 /\ dats'[Storing].super \in Rivals(Storing, StoreIsBound)
           /\ \A e \in Dats \ {Storing} :
                 /\ dats'[e] = UpsertedOther(Storing, StoreIsBound, StoreIsCurrent, e)
                 /\ dats'[e] = None <=> dats[e] = None
                 /\ dats[e] # None => dats'[e].bound = dats[e].bound /\ dats'[e].retired = dats[e].retired
           /\ Known' = Known \cup {Storing}
<1>1. TypeOK /\ LoadsOrdered /\ Storing \in Dats /\ ByBind \in BOOLEAN /\ job.task.file \in Files
  BY StoringFacts DEF Base
<1>2. dats' = Upserted(Storing, ByBind, job.task.file)
  BY DEF Stores
<1>3. IsUpserted(dats', Storing, ByBind)
  <2>1. \A b \in BOOLEAN : IsUpserted(Upserted(Storing, b, job.task.file), Storing, b)
    BY <1>1, UpsertedRows
  <2>2. IsUpserted(Upserted(Storing, ByBind, job.task.file), Storing, ByBind)
    BY <1>1, <2>1, Zenon
  <2> QED
    BY <1>2, <2>2
<1>4. /\ dats' \in Versions
      /\ dats'[Storing] # None /\ (dats'[Storing].bound <=> StoreIsBound)
      /\ dats'[Storing].retired = FALSE
      /\ dats'[Storing].super = IF StoreIsCurrent THEN None ELSE Latest(Rivals(Storing, StoreIsBound))
      /\ ~StoreIsCurrent => /\ Rivals(Storing, StoreIsBound) # {}
                            /\ dats'[Storing].super \in Rivals(Storing, StoreIsBound)
      /\ \A e \in Dats \ {Storing} :
            /\ dats'[e] = UpsertedOther(Storing, StoreIsBound, StoreIsCurrent, e)
            /\ dats'[e] = None <=> dats[e] = None
            /\ dats[e] # None => dats'[e].bound = dats[e].bound /\ dats'[e].retired = dats[e].retired
  BY <1>3, Zenon DEF IsUpserted, StoreIsBound, StoreIsCurrent
<1>5. Known' = Known \cup {Storing}
  BY <1>1, <1>4 DEF Known
<1> QED
  BY <1>4, <1>5

\* The DAT stored is the last in the order of loads.
LEMMA StoredLoads ==
    ASSUME Base, job # None, job.at = "decided", Stores
    PROVE  LoadsOrdered' /\ loads' \subseteq Known' \X Known'
<1> DEFINE d == Storing
           K == Known \cup {d}
<1>1. loads \subseteq Known \X Known /\ Known' = K /\ LoadsOrdered
  BY TypeFacts, StoredVersions DEF Base
<1>2. loads' = {l \in loads : d \notin {l[1], l[2]}} \cup (K \X {d})
  BY DEF Stores
<1>3. \A a, b : <<a, b>> \in loads' <=>
                  \/ <<a, b>> \in loads /\ a # d /\ b # d
                  \/ a \in K /\ b = d
  BY <1>2
<1>4. IsFiniteSet(K)
  BY <1>1, FS_AddElement DEF LoadsOrdered
<1>5. \A a, b \in K : <<a, b>> \in loads' \/ <<b, a>> \in loads'
  BY <1>1, <1>3 DEF LoadsOrdered
<1>6. \A a, b, c \in K : <<a, b>> \in loads' /\ <<b, c>> \in loads' => <<a, c>> \in loads'
  BY <1>1, <1>3 DEF LoadsOrdered
<1>7. loads' \subseteq K \X K
  BY <1>1, <1>2
<1> HIDE DEF K
<1> QED
  BY <1>1, <1>4, <1>5, <1>6, <1>7 DEF LoadsOrdered

\* The store's titles.
LEMMA StoredTitles ==
    ASSUME Base, job # None, job.at = "decided", Stores
    PROVE  /\ titles' \in Titles /\ DOMAIN titles \subseteq DOMAIN titles'
           /\ \A i \in DOMAIN titles : titles'[i].wanted = titles[i].wanted
           /\ ~Fills => SameRows(titles, titles')
           /\ Fills =>
                LET f == job.task.file
                IN  /\ DOMAIN titles' = 1..(Len(titles) + Cardinality(New(titles, Storing, f)))
                    /\ \A i \in DOMAIN titles :
                          \/ IsTaken(titles, titles', Storing, f, i)
                          \/ IsLeft(titles, titles', dats', Storing, f, i)
                    /\ \A i \in DOMAIN titles' \ DOMAIN titles : IsNew(titles, titles', Storing, f, i)
                    /\ ParentsIn(titles) =>
                          \E new \in Titles : /\ ParentsIn(new) /\ SameRows(new, titles')
                                              /\ titles' = Recomputed(new, dats', job.prefs)
           /\ IF Fills \/ (job.ram /\ StoreIsBound) THEN PicksHold(titles', job.prefs)
              ELSE titles' = titles
<1>1. titles \in Titles /\ dats' \in Versions
  BY TypeFacts, StoredVersions DEF Base
<1>2. Storing \in Dats /\ job.task.file \in Files /\ job.prefs \in Preferences
  BY StoringFacts
<1>3. CASE Fills
  <2>1. titles' = Loaded(titles, dats', Storing, job.task.file, job.prefs)
    BY <1>3 DEF Stores
  <2> DEFINE us == Loaded(titles, dats', Storing, job.task.file, job.prefs)
             f == job.task.file
  <2>2. /\ us \in Titles /\ DOMAIN titles \subseteq DOMAIN us /\ PicksHold(us, job.prefs)
        /\ DOMAIN us = 1..(Len(titles) + Cardinality(New(titles, Storing, f)))
        /\ \A i \in DOMAIN titles : us[i].wanted = titles[i].wanted
        /\ \A i \in DOMAIN titles : IsTaken(titles, us, Storing, f, i)
                                    \/ IsLeft(titles, us, dats', Storing, f, i)
        /\ \A i \in DOMAIN us \ DOMAIN titles : IsNew(titles, us, Storing, f, i)
        /\ ParentsIn(titles) =>
              \E new \in Titles : ParentsIn(new) /\ SameRows(new, us) /\ us = Recomputed(new, dats', job.prefs)
    BY <1>1, <1>2, LoadedRows
  <2> HIDE DEF us
  <2>3. titles' = us
    BY <2>1 DEF us
  <2> QED
    BY <1>3, <2>2, <2>3
<1>4. CASE ~Fills /\ job.ram /\ StoreIsBound
  <2>1. titles' = Recomputed(titles, dats', job.prefs)
    BY <1>4 DEF Stores
  <2>2. /\ titles' \in Titles /\ SameRows(titles, titles') /\ PicksHold(titles', job.prefs)
        /\ \A i \in DOMAIN titles : titles'[i].wanted = titles[i].wanted
    BY <1>1, <1>2, <2>1, RecomputedRows, RecomputedPicks
  <2> QED
    BY <1>4, <2>2 DEF SameRows
<1>5. CASE ~Fills /\ ~(job.ram /\ StoreIsBound)
  <2>1. titles' = titles
    BY <1>5 DEF Stores
  <2> QED
    BY <1>1, <1>5, <2>1 DEF SameRows
<1> QED
  BY <1>3, <1>4, <1>5

LEMMA StoredKnown ==
    ASSUME Base, job # None, job.at = "decided", Stores
    PROVE  TitlesKnown(titles)'
<1>1. Known' = Known \cup {Storing} /\ TitlesKnown(titles)
  BY StoredVersions DEF Base
<1> SUFFICES ASSUME NEW i \in DOMAIN titles'
             PROVE  titles'[i].dat \in Known \cup {Storing}
  BY <1>1 DEF TitlesKnown
<1>2. CASE ~Fills
  <2>1. SameRows(titles, titles')
    BY <1>2, StoredTitles
  <2> QED
    BY <1>1, <2>1 DEF SameRows, TitlesKnown
<1>3. CASE Fills /\ i \in DOMAIN titles
  <2>1. \/ IsTaken(titles, titles', Storing, job.task.file, i)
        \/ IsLeft(titles, titles', dats', Storing, job.task.file, i)
    BY <1>3, StoredTitles
  <2>2. titles'[i].dat \in {Storing, titles[i].dat}
    BY <2>1 DEF IsTaken, IsLeft
  <2> QED
    BY <1>1, <1>3, <2>2 DEF TitlesKnown
<1>4. CASE Fills /\ i \notin DOMAIN titles
  <2>1. IsNew(titles, titles', Storing, job.task.file, i)
    BY <1>4, StoredTitles
  <2> QED
    BY <2>1 DEF IsNew
<1> QED
  BY <1>2, <1>3, <1>4

LEMMA StoreBase ==
    ASSUME Base, Store
    PROVE  Base'
<1>1. job # None /\ job.at = "decided" /\ UNCHANGED <<given, budget, queue, settings, removal>>
  BY StoreStep
<1>2. TypeOK
  BY DEF Base
<1>3. CASE job' = None /\ UNCHANGED <<tables, past>>
  BY <1>1, <1>2, <1>3 DEF Base, TypeOK, JobOK, LoadsOrdered, TitlesKnown, Known, tables, past, settings
<1>4. CASE Stores
  <2>1. titles' \in Titles /\ dats' \in Versions
    BY <1>1, <1>4, StoredTitles, StoredVersions
  <2>2. LoadsOrdered' /\ loads' \subseteq Known' \X Known' /\ TitlesKnown(titles)'
    BY <1>1, <1>4, StoredLoads, StoredKnown
  <2>3. job' \in Work /\ job' # None /\ job'.task = job.task /\ job'.at = "stored"
    BY <1>1, <1>4, JobMoves DEF Base, Stores
  <2>4. JobOK'
    BY <1>1, <2>3, StoringFacts DEF JobOK, Recompute
  <2>5. listed' \in [Dats -> Files \cup {None}] /\ missed' \in BOOLEAN
    <3>1. Storing \in Dats /\ job.task.file \in Files
      BY <1>1, StoringFacts
    <3>2. listed' = [listed EXCEPT ![Storing] = IF Fills THEN job.task.file ELSE None]
          /\ missed' \in BOOLEAN
      BY <1>4 DEF Stores
    <3> QED
      BY <3>1, <3>2, TypeFacts DEF Base
  <2>6. rule' = rule
    BY <1>4 DEF Stores
  <2>7. TypeOK'
    BY <1>1, <1>2, <2>1, <2>2, <2>3, <2>5, <2>6 DEF TypeOK, Titles, Versions, settings
  <2> QED
    BY <2>2, <2>4, <2>7 DEF Base
<1> QED
  BY <1>3, <1>4, StoreStep

LEMMA RestartQueue ==
    ASSUME Base, NEW r, Restart(r)
    PROVE  /\ queue' \subseteq Task
           /\ \A t \in queue : t.kind # "bind" => t \in queue'
           /\ job # None /\ job.task = Recompute => Recompute \in queue'
           /\ (\E d \in Losers(r) : dats[d].bound) => Recompute \in queue'
<1> DEFINE lost == Losers(r)
           platform == \E d \in lost : dats[d].bound
           again == IF job = None THEN {{}}
                    ELSE IF job.task.kind = "bind" THEN {{}}
                    ELSE IF job.at = "stored" THEN {{}, {job.task}} ELSE {{job.task}}
<1>1. PICK tasks \in again : queue' = {t \in queue : t.kind # "bind"} \cup tasks
                                      \cup (IF platform THEN {Recompute} ELSE {})
  BY DEF Restart
<1>2. queue \subseteq Task /\ Recompute \in Task /\ Recompute.kind = "recompute"
  BY TypeFacts DEF Base, Task, Recompute
<1>3. tasks \subseteq Task
  <2>1. job # None => job.task \in Task
    BY JobFacts DEF Base
  <2>2. tasks = {} \/ (job # None /\ tasks = {job.task})
    BY <1>1
  <2> QED
    BY <2>1, <2>2
<1>4. ASSUME job # None, job.task = Recompute
      PROVE  tasks = {Recompute}
  <2>1. job.at # "stored"
    BY <1>4 DEF Base, JobOK
  <2> QED
    BY <1>1, <1>2, <1>4, <2>1
<1> HIDE DEF again, platform
<1>5. queue' \subseteq Task
  BY <1>1, <1>2, <1>3
<1>6. \A t \in queue : t.kind # "bind" => t \in queue'
  BY <1>1
<1>7. job # None /\ job.task = Recompute => Recompute \in queue'
  BY <1>1, <1>4
<1>8. platform => Recompute \in queue'
  BY <1>1
<1> QED
  BY <1>5, <1>6, <1>7, <1>8 DEF platform

LEMMA SpendType ==
    ASSUME TypeOK, NEW e \in Events, Spend(e)
    PROVE  budget' \in [Events -> Nat]
<1>1. budget \in [Events -> Nat] /\ budget[e] \in Nat /\ budget[e] > 0
  BY DEF TypeOK, Spend
<1>2. budget[e] - 1 \in Nat
  BY <1>1
<1> QED
  BY <1>1, <1>2 DEF Spend

LEMMA RestartBase ==
    ASSUME Base, NEW r \in Rules, Restart(r)
    PROVE  Base'
<1>1. TypeOK /\ LoadsOrdered /\ TitlesKnown(titles)
  BY DEF Base
<1>2. titles' \in Titles /\ EndOf(titles, titles', Losers(r))
  BY <1>1, RestartEffect
<1>3. StopOf(Losers(r))
  BY <1>1, RestartDats
<1>4. dats' \in Versions /\ Known' = Known
  BY <1>3 DEF StopOf
<1>5. queue' \subseteq Task
  BY RestartQueue
<1>6. /\ job' = None /\ prefs' = saved /\ change' = "none" /\ removal' = FALSE
      /\ missed' \in BOOLEAN /\ rule' = r
      /\ UNCHANGED <<given, loads, saved, listed>>
  BY DEF Restart
<1>7. budget' \in [Events -> Nat]
  <2>1. Spend("kill") \/ Spend("upgrade")
    BY DEF Restart
  <2> QED
    BY <1>1, <2>1, SpendType DEF Events
<1>8. TypeOK'
  BY <1>1, <1>2, <1>4, <1>5, <1>6, <1>7 DEF TypeOK, Titles, Versions
<1>9. LoadsOrdered'
  BY <1>1, <1>4, <1>6 DEF LoadsOrdered
<1>10. TitlesKnown(titles)'
  BY <1>1, <1>2, <1>4 DEF TitlesKnown, EndOf
<1>11. JobOK'
  BY <1>6 DEF JobOK
<1> QED
  BY <1>8, <1>9, <1>10, <1>11 DEF Base

LEMMA RemoveBase ==
    ASSUME Base, NEW d \in Dats, RemoveDat(d)
    PROVE  Base'
<1>1. TypeOK /\ LoadsOrdered /\ TitlesKnown(titles) /\ JobOK
  BY DEF Base
<1>2. titles' \in Titles /\ EndOf(titles, titles', {d})
  BY <1>1, RemoveEffect
<1>3. dats' \in Versions /\ Known' = Known
  BY <1>1, RemoveDats DEF StopOf
<1>4. /\ UNCHANGED <<given, rule, loads, lane, settings, past>> /\ removal' \in BOOLEAN
      /\ Spend("remove")
  BY DEF RemoveDat
<1>5. TypeOK'
  BY <1>1, <1>2, <1>3, <1>4 DEF TypeOK, Titles, Versions, lane, settings, past, Spend, Events
<1>6. LoadsOrdered'
  BY <1>1, <1>3, <1>4 DEF LoadsOrdered
<1>7. TitlesKnown(titles)'
  BY <1>1, <1>2, <1>3 DEF TitlesKnown, EndOf
<1>8. JobOK'
  BY <1>1, <1>4 DEF JobOK, lane
<1> QED
  BY <1>5, <1>6, <1>7, <1>8 DEF Base

\* A step that changes titles only in wants, or in nothing.
LEMMA WantsBase ==
    ASSUME Base, titles' \in Titles, SameRows(titles, titles'), NEW e \in Events, Spend(e),
           UNCHANGED <<given, rule, dats, loads, lane, settings, removal, past>>
    PROVE  Base'
<1>1. TypeOK /\ LoadsOrdered /\ TitlesKnown(titles) /\ JobOK
  BY DEF Base
<1>2. Known' = Known
  BY DEF Known
<1>3. TypeOK'
  BY <1>1, <1>2 DEF TypeOK, Titles, lane, settings, past, Spend
<1>4. LoadsOrdered' /\ JobOK'
  BY <1>1, <1>2 DEF LoadsOrdered, JobOK, lane
<1>5. TitlesKnown(titles)'
  BY <1>1, <1>2 DEF TitlesKnown, SameRows
<1> QED
  BY <1>3, <1>4, <1>5 DEF Base

\* A step that leaves the tables alone.
LEMMA LaneBase ==
    ASSUME Base, UNCHANGED <<tables, given, listed>>, budget' \in [Events -> Nat],
           queue' \subseteq Task, job' \in Work \cup {None}, JobOK',
           saved' \in Preferences, prefs' \in Preferences, change' \in {"none", "stored", "effective"},
           removal' \in BOOLEAN, missed' \in BOOLEAN
    PROVE  Base'
<1>1. TypeOK /\ LoadsOrdered /\ TitlesKnown(titles)
  BY DEF Base
<1>2. Known' = Known
  BY DEF Known, tables
<1>3. TypeOK'
  BY <1>1, <1>2 DEF TypeOK, tables
<1>4. LoadsOrdered' /\ TitlesKnown(titles)'
  BY <1>1, <1>2 DEF LoadsOrdered, TitlesKnown, tables
<1> QED
  BY <1>3, <1>4 DEF Base

LEMMA LaneStepBase ==
    ASSUME Base,
           \/ \E f \in Files : Drop(f)
           \/ \E t \in queue, ram \in BOOLEAN : StartImport(t, ram)
           \/ Reject \/ FinishImport \/ StartRecompute \/ Pause \/ Resume
           \/ \E d \in Dats : BindDat(d)
           \/ QueueRemoval
           \/ \E p \in Preferences : SavePrefs(p)
           \/ ApplyPrefs \/ QueuePrefs \/ Leave
    PROVE  Base'
<1>1. /\ TypeOK /\ JobOK /\ budget \in [Events -> Nat] /\ queue \subseteq Task /\ job \in Work \cup {None}
      /\ saved \in Preferences /\ prefs \in Preferences /\ change \in {"none", "stored", "effective"}
      /\ removal \in BOOLEAN /\ missed \in BOOLEAN /\ Recompute \in Task
  BY DEF Base, TypeOK, Task, Recompute
<1>2. \A t \in Task : queue \ {t} \subseteq Task /\ queue \cup {t} \subseteq Task
  BY <1>1
<1>3. ASSUME NEW f \in Files, Drop(f)
      PROVE  Base'
  <2>1. [kind |-> "import", file |-> f] \in Task
    BY DEF Task
  <2>2. queue' \subseteq Task /\ budget' \in [Events -> Nat]
    BY <1>1, <1>2, <1>3, <2>1, SpendType DEF Drop, Events
  <2> QED
    BY <1>1, <1>3, <2>2, LaneBase DEF Drop, tables, settings, past, JobOK
<1>4. ASSUME NEW t \in queue, NEW ram \in BOOLEAN, StartImport(t, ram)
      PROVE  Base'
  <2>1. /\ \/ job' = None
           \/ job' \in Work /\ job'.at = "decided" /\ job'.task = t
        /\ t # Recompute
    BY <1>4, StartImportJob
  <2>2. job' \in Work \cup {None} /\ JobOK'
    BY <2>1 DEF JobOK, Recompute
  <2>3. queue' \subseteq Task
    BY <1>1, <1>4 DEF StartImport
  <2>4. UNCHANGED <<given, budget, tables, settings, removal, past>>
    BY <1>4 DEF StartImport
  <2> QED
    BY <1>1, <2>2, <2>3, <2>4, LaneBase DEF settings, past
<1>5. ASSUME Reject PROVE Base'
  <2>1. budget' \in [Events -> Nat]
    BY <1>1, <1>5, SpendType DEF Reject, Events
  <2>2. job' = None /\ UNCHANGED <<given, tables, queue, settings, removal, past>>
    BY <1>5 DEF Reject
  <2>3. job' \in Work \cup {None} /\ JobOK'
    BY <2>2 DEF JobOK
  <2> QED
    BY <1>1, <2>1, <2>2, <2>3, LaneBase DEF settings, past
<1>6. ASSUME FinishImport PROVE Base'
  <2>1. job' = None /\ UNCHANGED <<given, budget, tables, settings, removal, past>>
        /\ queue' \in {queue, queue \cup {Recompute}}
    BY <1>6 DEF FinishImport
  <2>2. job' \in Work \cup {None} /\ JobOK'
    BY <2>1 DEF JobOK
  <2> QED
    BY <1>1, <1>2, <2>1, <2>2, LaneBase DEF settings, past
<1>7. ASSUME StartRecompute PROVE Base'
  <2>1. job' \in Work /\ job'.task = Recompute /\ job'.at = "running"
    BY <1>7, StartRecomputeJob
  <2>2. queue' \subseteq Task /\ UNCHANGED <<given, budget, tables, settings, removal, past>>
    BY <1>1, <1>7 DEF StartRecompute
  <2>3. job' \in Work \cup {None} /\ JobOK'
    BY <2>1 DEF JobOK
  <2> QED
    BY <1>1, <2>2, <2>3, LaneBase DEF settings, past
<1>8. ASSUME NEW at \in {"running", "paused"}, job # None, job.at \in {"running", "paused"},
             job' = [job EXCEPT !.at = at], budget' \in [Events -> Nat],
             UNCHANGED <<given, tables, queue, settings, removal, past>>
      PROVE  Base'
  <2>1. job' \in Work /\ job'.task = job.task /\ job'.at = at
    BY <1>1, <1>8, JobMoves
  <2>2. job.task = Recompute
    BY <1>1, <1>8, JobFacts
  <2>3. job' \in Work \cup {None} /\ JobOK'
    BY <2>1, <2>2 DEF JobOK
  <2> QED
    BY <1>1, <1>8, <2>3, LaneBase DEF settings, past
<1>9. ASSUME Pause PROVE Base'
  <2>1. budget' \in [Events -> Nat]
    BY <1>1, <1>9, SpendType DEF Pause, Events
  <2> QED
    BY <1>8, <1>9, <2>1 DEF Pause
<1>10. ASSUME Resume PROVE Base'
  BY <1>1, <1>8, <1>10 DEF Resume
<1>11. ASSUME NEW d \in Dats, BindDat(d) PROVE Base'
  <2>1. dats[d].file \in Files
    BY <1>11, VersionType, TypeFacts DEF Base, BindDat
  <2>2. [kind |-> "bind", file |-> dats[d].file] \in Task
    BY <2>1 DEF Task
  <2>3. queue' \subseteq Task /\ budget' \in [Events -> Nat]
    BY <1>1, <1>2, <1>11, <2>2, SpendType DEF BindDat, Events
  <2>4. UNCHANGED <<given, tables, job, settings, removal, past>>
    BY <1>11 DEF BindDat
  <2>5. JobOK'
    BY <1>1, <2>4 DEF JobOK
  <2> QED
    BY <1>1, <2>3, <2>4, <2>5, LaneBase DEF settings, past
<1>12. ASSUME Submit, UNCHANGED <<given, budget, tables, job, listed>>,
              saved' \in Preferences, prefs' \in Preferences, change' \in {"none", "stored", "effective"},
              removal' \in BOOLEAN
       PROVE  Base'
  <2>1. queue' \subseteq Task /\ missed' \in BOOLEAN
    BY <1>1, <1>2, <1>12 DEF Submit
  <2>2. JobOK'
    BY <1>1, <1>12 DEF JobOK
  <2> QED
    BY <1>1, <1>12, <2>1, <2>2, LaneBase
<1>13. ASSUME QueueRemoval PROVE Base'
  BY <1>1, <1>12, <1>13 DEF QueueRemoval, settings
<1>14. ASSUME QueuePrefs PROVE Base'
  BY <1>1, <1>12, <1>14 DEF QueuePrefs
<1>15. ASSUME NEW p \in Preferences, SavePrefs(p) PROVE Base'
  <2>1. budget' \in [Events -> Nat]
    BY <1>1, <1>15, SpendType DEF SavePrefs, Events
  <2>2. saved' = p /\ change' = "stored" /\ UNCHANGED <<given, tables, lane, prefs, removal, past>>
    BY <1>15 DEF SavePrefs
  <2>3. JobOK'
    BY <1>1, <2>2 DEF JobOK, lane
  <2> QED
    BY <1>1, <2>1, <2>2, <2>3, LaneBase DEF lane, past
<1>16. ASSUME ApplyPrefs PROVE Base'
  <2>1. /\ change' \in {"effective", "none"} /\ prefs' = saved
        /\ UNCHANGED <<given, budget, tables, lane, saved, removal, past>>
    BY <1>16 DEF ApplyPrefs
  <2>2. JobOK'
    BY <1>1, <2>1 DEF JobOK, lane
  <2> QED
    BY <1>1, <2>1, <2>2, LaneBase DEF lane, past
<1>17. ASSUME Leave PROVE Base'
  <2>1. budget' \in [Events -> Nat]
    BY <1>1, <1>17, SpendType DEF Leave, Events
  <2>2. /\ change' = "none" /\ missed' = TRUE
        /\ UNCHANGED <<given, tables, lane, saved, prefs, removal, listed>>
    BY <1>17 DEF Leave
  <2>3. JobOK'
    BY <1>1, <2>2 DEF JobOK, lane
  <2> QED
    BY <1>1, <2>1, <2>2, <2>3, LaneBase DEF lane
<1> QED
  BY <1>3, <1>4, <1>5, <1>6, <1>7, <1>9, <1>10, <1>11, <1>13, <1>14, <1>15, <1>16, <1>17

LEMMA BaseInit == Init => Base
<1> SUFFICES ASSUME Init PROVE Base
  OBVIOUS
<1>1. Known = {} /\ IsFiniteSet({})
  BY FS_EmptySet DEF Init, Known
<1>2. LoadsOrdered /\ TitlesKnown(titles) /\ JobOK
  BY <1>1 DEF Init, LoadsOrdered, TitlesKnown, JobOK
<1>3. given \in Cases /\ budget \in [Events -> Nat]
  BY CatalogAssumption DEF Init
<1>4. rule \in Rules /\ Default \in Preferences /\ titles \in Seq(Title)
  BY GameFacts DEF Init
<1>5. TypeOK
  BY <1>1, <1>3, <1>4 DEF Init, TypeOK
<1> QED
  BY <1>2, <1>5 DEF Base

LEMMA BaseNext == Base /\ [Next]_vars => Base'
<1> SUFFICES ASSUME Base, [Next]_vars PROVE Base'
  OBVIOUS
<1>1. CASE UNCHANGED vars
  BY <1>1 DEF vars, tables, lane, settings, past, Base, TypeOK, JobOK, LoadsOrdered, TitlesKnown, Known
<1>2. CASE \/ \E f \in Files : Drop(f)
           \/ \E t \in queue, ram \in BOOLEAN : StartImport(t, ram)
           \/ Reject \/ FinishImport \/ StartRecompute \/ Pause \/ Resume
           \/ \E d \in Dats : BindDat(d)
           \/ QueueRemoval
           \/ \E p \in Preferences : SavePrefs(p)
           \/ ApplyPrefs \/ QueuePrefs \/ Leave
  BY <1>2, LaneStepBase
<1>3. ASSUME Store PROVE Base'
  BY <1>3, StoreBase
<1>4. ASSUME Pick PROVE Base'
  <2>1. /\ titles \in Titles /\ dats \in Versions /\ TypeOK /\ LoadsOrdered /\ TitlesKnown(titles)
        /\ job # None
    BY <1>4, TypeFacts DEF Base, Pick
  <2>2. titles' \in Titles /\ SameRows(titles, titles')
    <3>1. titles' = Recomputed(titles, dats, job.prefs)
      BY <1>4 DEF Pick
    <3> QED
      BY <2>1, <3>1, RecomputedRows
  <2>3. /\ job' = None /\ missed' \in BOOLEAN
        /\ UNCHANGED <<given, budget, rule, dats, loads, queue, settings, removal, listed>>
    BY <1>4 DEF Pick
  <2>4. Known' = Known
    BY <2>3 DEF Known
  <2>5. TypeOK' /\ JobOK'
    BY <2>1, <2>2, <2>3, <2>4 DEF TypeOK, JobOK, Titles, settings
  <2>6. LoadsOrdered' /\ TitlesKnown(titles)'
    BY <2>1, <2>2, <2>3, <2>4 DEF LoadsOrdered, TitlesKnown, SameRows
  <2> QED
    BY <2>5, <2>6 DEF Base
<1>5. ASSUME NEW d \in Dats, RemoveDat(d) PROVE Base'
  BY <1>5, RemoveBase
<1>6. ASSUME NEW i \in DOMAIN titles, Want(i) PROVE Base'
  <2>1. titles' \in Titles /\ SameRows(titles, titles')
    BY <1>6, WantEffect DEF Base, SamePicks
  <2>2. Spend("want") /\ UNCHANGED <<given, rule, dats, loads, lane, settings, removal, past>>
    BY <1>6 DEF Want
  <2> QED
    BY <2>1, <2>2, WantsBase DEF Events
<1>7. ASSUME NEW i \in DOMAIN titles, Unwant(i) PROVE Base'
  <2>1. titles' \in Titles /\ SameRows(titles, titles')
    BY <1>7, UnwantEffect DEF Base, SamePicks
  <2>2. Spend("unwant") /\ UNCHANGED <<given, rule, dats, loads, lane, settings, removal, past>>
    BY <1>7 DEF Unwant
  <2> QED
    BY <2>1, <2>2, WantsBase DEF Events
<1>8. ASSUME NEW r \in Rules, Restart(r) PROVE Base'
  BY <1>8, RestartBase
<1> QED
  BY <1>1, <1>2, <1>3, <1>4, <1>5, <1>6, <1>7, <1>8 DEF Next

LEMMA BaseHolds == Spec => []Base
BY BaseInit, BaseNext, PTL DEF Spec

\* Every variable keeps its type; dats.rs, titles/mod.rs, jobs/dat_import.
THEOREM TypeCorrect == Spec => []TypeOK
<1>1. Base => TypeOK
  BY DEF Base
<1> QED
  BY <1>1, BaseHolds, PTL

-----------------------------------------------------------------------------
(* What is listed *)

\* The parts of ListIsCurrent, and that an import that decided not to stage was not, and is
\* not, the one to fill a family that has a current version.
OneCurrent == \A d, e \in Current(dats) : Fam(d) = Fam(e) => d = e
LiveListed ==
    \A i \in Live(titles) :
        LET d == titles[i].dat
        IN  d \in Current(dats) /\ listed[d] # None /\ titles[i].game \in ToSet(Games[listed[d]])
RowsOf(ts, d, g) == {i \in Live(ts) : ts[i].dat = d /\ ts[i].game = g}
ListedOnce ==
    \A d \in Current(dats) : listed[d] # None =>
        \A g \in ToSet(Games[listed[d]]) : \E i : RowsOf(titles, d, g) = {i}
StaleDecision ==
    job # None /\ job.at = "decided" /\ ~job.ram /\ ~job.staged =>
        /\ Storing \notin Current(dats)
        /\ StoreIsBound => Rivals(Storing, TRUE) = {} \/ ~StoreIsCurrent
Lists == OneCurrent /\ LiveListed /\ ListedOnce
ListInv == Base /\ Lists /\ StaleDecision

LEMMA CurrentIs ==
    ASSUME NEW vs, NEW d
    PROVE  d \in Current(vs) <=>
              d \in Dats /\ vs[d] # None /\ ~vs[d].retired /\ vs[d].super = None /\ vs[d].bound
BY DEF Current, IsLive

\* A rival of a bound version is current.
LEMMA RivalsCurrent ==
    ASSUME NEW d, NEW e \in Rivals(d, TRUE)
    PROVE  e \in Current(dats) /\ e # d /\ Fam(e) = Fam(d)
BY CurrentIs DEF Rivals, IsLive, Known

LEMMA StoreRivals ==
    ASSUME StoreIsBound
    PROVE  StoreIsCurrent <=>
              Rivals(Storing, TRUE) = {} \/ NotOlder(Storing, Latest(Rivals(Storing, TRUE)))
<1>1. Bound(Storing, ByBind) = TRUE
  <2>1. Bound(Storing, ByBind) \in BOOLEAN
    BY DEF Bound, Inherits
  <2> QED
    BY <2>1 DEF StoreIsBound
<1> QED
  BY <1>1 DEF StoreIsCurrent, IsCurrent

\* A version that is not stored as current was not current; one that is was the only one of
\* its family, or supersedes that one.
LEMMA StoredCurrent ==
    ASSUME Base, OneCurrent, job # None, job.at = "decided", Stores
    PROVE  IF StoreIsCurrent /\ StoreIsBound
           THEN \A e : e \in Current(dats') <=> \/ e = Storing
                                                \/ e \in Current(dats) /\ Fam(e) # Fam(Storing)
           ELSE Storing \notin Current(dats) /\ Current(dats') = Current(dats)
<1> DEFINE d == Storing
<1>1. /\ d \in Dats /\ dats \in Versions
      /\ StoreIsCurrent \in BOOLEAN /\ StoreIsBound \in BOOLEAN
  BY StoringFacts, TypeFacts DEF Base
<1>2. /\ dats' \in Versions
      /\ dats'[d] # None /\ (dats'[d].bound <=> StoreIsBound)
      /\ dats'[d].retired = FALSE
      /\ dats'[d].super = IF StoreIsCurrent THEN None ELSE Latest(Rivals(d, StoreIsBound))
      /\ ~StoreIsCurrent => dats'[d].super \in Rivals(d, StoreIsBound)
      /\ \A e \in Dats \ {d} : dats'[e] = UpsertedOther(d, StoreIsBound, StoreIsCurrent, e)
  BY StoredVersions
<1>3. d \in Current(dats') <=> StoreIsCurrent /\ StoreIsBound
  <2>1. ~StoreIsCurrent => dats'[d].super # None
    <3>1. ~StoreIsCurrent => dats'[d].super \in Dats
      BY <1>2 DEF Rivals, Known
    <3> QED
      BY <3>1, GameFacts
  <2> QED
    BY <1>1, <1>2, <2>1, CurrentIs
<1>4. ASSUME NEW e \in Dats \ {d}, StoreIsCurrent, StoreIsBound
      PROVE  e \in Current(dats') <=> e \in Current(dats) /\ Fam(e) # Fam(d)
  <2>1. dats'[e] = UpsertedOther(d, StoreIsBound, StoreIsCurrent, e)
    BY <1>2
  <2>2. CASE dats[e] = None
    BY <2>1, <2>2, CurrentIs DEF UpsertedOther, Known
  <2>3. CASE dats[e] # None
    <3>1. /\ dats[e] \in Version /\ dats[e].bound \in BOOLEAN /\ e \in Known
      BY <1>1, <2>3, VersionType DEF Known
    <3>2. CASE Fam(e) = Fam(d) /\ dats[e].bound /\ dats[e].super = None
      <4>1. dats[e].bound = StoreIsBound
        BY <1>4, <3>1, <3>2
      <4>2. dats'[e] = Superseded(dats[e], d)
        BY <1>4, <2>1, <3>1, <3>2, <4>1 DEF UpsertedOther
      <4>3. dats'[e].super = d
        BY <1>1, <3>1, <4>2, SupersededRow
      <4>4. e \notin Current(dats')
        BY <1>1, <4>3, CurrentIs, GameFacts
      <4> QED
        BY <3>2, <4>4
    <3>3. CASE Fam(e) # Fam(d)
      <4>1. dats'[e] = dats[e]
        BY <2>1, <3>3 DEF UpsertedOther
      <4> QED
        BY <3>3, <4>1, CurrentIs
    <3>4. CASE Fam(e) = Fam(d) /\ ~(dats[e].bound /\ dats[e].super = None)
      <4>1. dats'[e] = dats[e]
        <5>1. ~(dats[e].bound = StoreIsBound /\ dats[e].super = None)
          BY <1>4, <3>1, <3>4
        <5> QED
          BY <2>1, <5>1 DEF UpsertedOther
      <4> QED
        BY <3>4, <4>1, CurrentIs
    <3> QED
      BY <3>2, <3>3, <3>4
  <2> QED
    BY <2>2, <2>3
<1>5. ASSUME NEW e \in Dats \ {d}, ~(StoreIsCurrent /\ StoreIsBound)
      PROVE  e \in Current(dats') <=> e \in Current(dats)
  <2>1. dats'[e] = UpsertedOther(d, StoreIsBound, StoreIsCurrent, e)
    BY <1>2
  <2>2. CASE dats'[e] = dats[e]
    BY <2>2, CurrentIs
  <2>3. CASE dats'[e] # dats[e]
    <3>1. StoreIsCurrent /\ e \in Known /\ dats[e].bound = StoreIsBound /\ dats'[e] = Superseded(dats[e], d)
      BY <2>1, <2>3 DEF UpsertedOther
    <3>2. ~StoreIsBound /\ dats[e] # None
      BY <1>5, <3>1 DEF Known
    <3>3. dats[e] \in Version /\ ~dats[e].bound
      BY <1>1, <3>1, <3>2, VersionType
    <3>4. dats'[e].bound = dats[e].bound
      BY <1>1, <3>1, <3>3, SupersededRow
    <3> QED
      BY <3>3, <3>4, CurrentIs
  <2> QED
    BY <2>2, <2>3
<1>6. ASSUME ~(StoreIsCurrent /\ StoreIsBound)
      PROVE  d \notin Current(dats)
  <2>1. CASE ~StoreIsBound
    <3>1. ~(dats[d] # None /\ dats[d].bound)
      BY <2>1 DEF StoreIsBound, Bound
    <3> QED
      BY <3>1, CurrentIs
  <2>2. CASE StoreIsBound
    <3>1. Rivals(d, TRUE) # {}
      BY <1>6, <2>2, StoreRivals
    <3>2. PICK e \in Rivals(d, TRUE) : TRUE
      BY <3>1
    <3>3. e \in Current(dats) /\ e # d /\ Fam(e) = Fam(d)
      BY RivalsCurrent
    <3> QED
      BY <3>3 DEF OneCurrent
  <2> QED
    BY <2>1, <2>2
<1>7. \A vs : Current(vs) \subseteq Dats
  BY DEF Current
<1>8. CASE StoreIsCurrent /\ StoreIsBound
  BY <1>1, <1>3, <1>4, <1>7, <1>8
<1>9. CASE ~(StoreIsCurrent /\ StoreIsBound)
  <2>1. Storing \notin Current(dats) /\ Storing \notin Current(dats')
    BY <1>3, <1>6, <1>9
  <2>2. Current(dats') = Current(dats)
    BY <1>5, <1>7, <1>9, <2>1
  <2> QED
    BY <1>9, <2>1, <2>2
<1> QED
  BY <1>8, <1>9

LEMMA NameOnce ==
    ASSUME NEW f \in Files
    PROVE  /\ \A i, k \in DOMAIN Games[f] : Game[Games[f][i]].name = Game[Games[f][k]].name => i = k
           /\ \A g, h \in ToSet(Games[f]) : Game[g].name = Game[h].name => g = h
<1>1. \A i, k \in DOMAIN Games[f] : Game[Games[f][i]].name = Game[Games[f][k]].name => i = k
  BY CatalogAssumption
<1>2. \A g \in ToSet(Games[f]) : \E i \in DOMAIN Games[f] : Games[f][i] = g
  BY DEF ToSet
<1> QED
  BY <1>1, <1>2

\* What a load that fills leaves of the rows, in terms of the games.
LEMMA FilledRows ==
    ASSUME Base, job # None, job.at = "decided", Stores, Fills, NEW g \in ToSet(Games[job.task.file])
    PROVE  \E i : RowsOf(titles', Storing, g) = {i}
<1> DEFINE d == Storing
           f == job.task.file
           r == RowOf(titles, d, Game[g].name)
<1>1. /\ DOMAIN titles \subseteq DOMAIN titles' /\ titles' \in Titles
      /\ DOMAIN titles' = 1..(Len(titles) + Cardinality(New(titles, d, f)))
      /\ \A i \in DOMAIN titles : IsTaken(titles, titles', d, f, i) \/ IsLeft(titles, titles', dats', d, f, i)
      /\ \A i \in DOMAIN titles' \ DOMAIN titles : IsNew(titles, titles', d, f, i)
  BY StoredTitles
<1>2. /\ d \in Dats /\ f \in Files /\ titles \in Titles /\ LoadsOrdered /\ TitlesKnown(titles)
  BY StoringFacts, TypeFacts DEF Base
<1>3. \A h \in ToSet(Games[f]) :
        LET i == RowOf(titles, d, Game[h].name)
        IN  \/ i \in DOMAIN titles /\ i # 0 /\ NameOf(titles[i]) = Game[h].name
            \/ i = 0
  BY <1>2, RowOfIs
<1>4. ASSUME NEW k \in RowsOf(titles', d, g)
      PROVE  \/ k \in DOMAIN titles /\ k = r
             \/ /\ k \notin DOMAIN titles
                /\ \E n \in New(titles, d, f) : NewId(titles, d, f, n) = k /\ Games[f][n] = g
  <2>1. k \in DOMAIN titles' /\ titles'[k].live /\ titles'[k].dat = d /\ titles'[k].game = g
    BY DEF RowsOf, Live
  <2>2. CASE k \in DOMAIN titles
    <3>1. ~IsLeft(titles, titles', dats', d, f, k)
      BY <2>1 DEF IsLeft
    <3>2. IsTaken(titles, titles', d, f, k)
      BY <1>1, <2>2, <3>1
    <3> QED
      BY <2>1, <2>2, <3>2 DEF IsTaken
  <2>3. CASE k \notin DOMAIN titles
    <3>1. IsNew(titles, titles', d, f, k)
      BY <1>1, <2>1, <2>3
    <3> QED
      BY <2>1, <2>3, <3>1 DEF IsNew
  <2> QED
    BY <2>2, <2>3
<1>5. CASE r # 0
  <2>1. r \in DOMAIN titles /\ NameOf(titles[r]) = Game[g].name
    BY <1>3, <1>5
  <2>2. IsTaken(titles, titles', d, f, r)
    BY <1>1, <2>1 DEF IsLeft
  <2>3. PICK h \in ToSet(Games[f]) :
           RowOf(titles, d, Game[h].name) = r /\ titles'[r].dat = d /\ titles'[r].game = h /\ titles'[r].live
    BY <2>2 DEF IsTaken
  <2>4. h = g
    BY <1>2, <1>3, <1>5, <2>1, <2>3, NameOnce
  <2>5. r \in RowsOf(titles', d, g)
    BY <1>1, <2>1, <2>3, <2>4 DEF RowsOf, Live
  <2>6. ASSUME NEW k \in RowsOf(titles', d, g), k \notin DOMAIN titles
        PROVE  FALSE
    <3>1. PICK n \in New(titles, d, f) : Games[f][n] = g
      BY <1>4, <2>6
    <3>2. r = 0
      BY <1>2, <3>1, NewType
    <3> QED
      BY <1>5, <3>2
  <2>7. \A k \in RowsOf(titles', d, g) : k = r
    BY <1>4, <2>6
  <2> QED
    BY <2>5, <2>7
<1>6. CASE r = 0
  <2>1. PICK n \in DOMAIN Games[f] : Games[f][n] = g
    BY DEF ToSet
  <2>2. n \in New(titles, d, f)
    BY <1>6, <2>1 DEF New
  <2> DEFINE i == NewId(titles, d, f, n)
  <2>3. i \in (Len(titles) + 1)..(Len(titles) + Cardinality(New(titles, d, f)))
    BY <1>2, <2>2, NewIds
  <2>4. i \in DOMAIN titles' /\ i \notin DOMAIN titles
    <3>1. Len(titles) \in Nat /\ DOMAIN titles = 1..Len(titles)
      BY <1>2, DomainFinite
    <3> HIDE DEF i
    <3> QED
      BY <1>1, <2>3, <3>1
  <2>5. PICK m \in New(titles, d, f) :
           /\ NewId(titles, d, f, m) = i
           /\ titles'[i].dat = d /\ titles'[i].game = Games[f][m] /\ titles'[i].live
    BY <1>1, <2>4 DEF IsNew
  <2>6. m = n
    BY <1>2, <2>2, <2>5, NewIds
  <2>7. i \in RowsOf(titles', d, g)
    BY <2>1, <2>4, <2>5, <2>6 DEF RowsOf, Live
  <2>8. ASSUME NEW k \in RowsOf(titles', d, g)
        PROVE  k = i
    <3>1. k \notin DOMAIN titles
      <4>1. 0 \notin DOMAIN titles
        BY <1>2, DomainFinite
      <4> QED
        BY <1>4, <1>6, <2>8, <4>1
    <3>2. PICK l \in New(titles, d, f) : NewId(titles, d, f, l) = k /\ Games[f][l] = g
      BY <1>4, <2>8, <3>1
    <3>3. l \in DOMAIN Games[f]
      BY <3>2 DEF New
    <3>4. l = n
      BY <1>2, <2>1, <3>2, <3>3, NameOnce
    <3> QED
      BY <3>2, <3>4
  <2> QED
    BY <2>7, <2>8
<1> QED
  BY <1>5, <1>6

\* A row of another family is not touched by a load.
LEMMA OtherRows ==
    ASSUME Base, job # None, job.at = "decided", Stores, Fills,
           NEW e, Fam(e) # Fam(Storing), NEW g
    PROVE  RowsOf(titles', e, g) = RowsOf(titles, e, g)
<1> DEFINE d == Storing
           f == job.task.file
<1>1. /\ DOMAIN titles \subseteq DOMAIN titles'
      /\ \A i \in DOMAIN titles : IsTaken(titles, titles', d, f, i) \/ IsLeft(titles, titles', dats', d, f, i)
      /\ \A i \in DOMAIN titles' \ DOMAIN titles : IsNew(titles, titles', d, f, i)
  BY StoredTitles
<1>2. /\ d \in Dats /\ f \in Files /\ titles \in Titles /\ LoadsOrdered /\ TitlesKnown(titles)
  BY StoringFacts, TypeFacts DEF Base
<1>3. ASSUME NEW i \in RowsOf(titles', e, g)
      PROVE  i \in RowsOf(titles, e, g)
  <2>1. i \in DOMAIN titles' /\ titles'[i].live /\ titles'[i].dat = e /\ titles'[i].game = g /\ e # d
    BY DEF RowsOf, Live
  <2>2. i \in DOMAIN titles
    BY <1>1, <2>1 DEF IsNew
  <2>3. IsLeft(titles, titles', dats', d, f, i)
    BY <1>1, <2>1, <2>2 DEF IsTaken
  <2> QED
    BY <2>1, <2>2, <2>3 DEF IsLeft, RowsOf, Live
<1>4. ASSUME NEW i \in RowsOf(titles, e, g)
      PROVE  i \in RowsOf(titles', e, g)
  <2>1. i \in DOMAIN titles /\ titles[i].live /\ titles[i].dat = e /\ titles[i].game = g /\ e # d
    BY DEF RowsOf, Live
  <2>2. ~IsTaken(titles, titles', d, f, i)
    <3> SUFFICES ASSUME NEW h \in ToSet(Games[f]), RowOf(titles, d, Game[h].name) = i
                 PROVE  FALSE
      BY DEF IsTaken
    <3>1. i # 0
      BY <1>2, <2>1, RowType
    <3>2. Fam(titles[i].dat) = Fam(d)
      BY <1>2, <3>1, RowOfIs
    <3> QED
      BY <2>1, <3>2
  <2>3. IsLeft(titles, titles', dats', d, f, i)
    BY <1>1, <2>1, <2>2
  <2> QED
    BY <1>1, <2>1, <2>3 DEF IsLeft, RowsOf, Live
<1> QED
  BY <1>3, <1>4

\* A store that does not fill stores a version that was not current, and what was stays so.
LEMMA UnfilledCurrent ==
    ASSUME ListInv, job # None, job.at = "decided", Stores, ~Fills
    PROVE  /\ Storing \notin Current(dats) /\ Current(dats) \subseteq Current(dats')
           /\ Current(dats') \subseteq Current(dats) \cup {Storing}
<1>1. Base /\ OneCurrent /\ StaleDecision
  BY DEF ListInv, Lists
<1>2. CASE StoreIsCurrent /\ StoreIsBound
  <2>1. ~job.ram /\ ~job.staged
    BY <1>2 DEF Fills
  <2>2. Storing \notin Current(dats) /\ Rivals(Storing, TRUE) = {}
    BY <1>1, <1>2, <2>1 DEF StaleDecision
  <2>3. \A e \in Current(dats) : Fam(e) # Fam(Storing)
    <3> SUFFICES ASSUME NEW e \in Current(dats), Fam(e) = Fam(Storing)
                 PROVE  e \in Rivals(Storing, TRUE)
      BY <2>2
    <3>1. e \in Dats /\ dats[e] # None /\ ~dats[e].retired /\ dats[e].super = None /\ dats[e].bound
      BY CurrentIs
    <3>2. dats[e].bound = TRUE
      BY <1>1, <3>1, TypeFacts, VersionType DEF Base
    <3> QED
      BY <2>2, <3>1, <3>2 DEF Rivals, IsLive, Known
  <2> QED
    BY <1>1, <1>2, <2>2, <2>3, StoredCurrent
<1>3. CASE ~(StoreIsCurrent /\ StoreIsBound)
  BY <1>1, <1>3, StoredCurrent
<1> QED
  BY <1>2, <1>3

LEMMA StoreLists ==
    ASSUME ListInv, job # None, job.at = "decided", Stores
    PROVE  Lists'
<1>1. Base /\ OneCurrent /\ LiveListed /\ ListedOnce
  BY DEF ListInv, Lists
<1>2. /\ Storing \in Dats /\ job.task.file \in Files /\ job.task.file # None
      /\ listed' = [listed EXCEPT ![Storing] = IF Fills THEN job.task.file ELSE None]
      /\ listed \in [Dats -> Files \cup {None}] /\ rule' = rule
  BY <1>1, StoringFacts, TypeFacts, GameFacts DEF Base, Stores
<1>3. listed'[Storing] = IF Fills THEN job.task.file ELSE None
  BY <1>2
<1>4. \A e \in Dats \ {Storing} : listed'[e] = listed[e]
  BY <1>2
<1>5. \A e : Fam(e)' = Fam(e)
  BY <1>2 DEF Fam
<1>6. \A vs : Current(vs) \subseteq Dats
  BY DEF Current
<1>7. OneCurrent'
  <2>1. \A e, g \in Current(dats') : Fam(e) = Fam(g) => e = g
    BY <1>1, StoredCurrent DEF OneCurrent
  <2> QED
    BY <1>5, <2>1 DEF OneCurrent
<1>8. CASE Fills
  <2> DEFINE d == Storing
             f == job.task.file
  <2>1. \A e : e \in Current(dats') <=> e = d \/ (e \in Current(dats) /\ Fam(e) # Fam(d))
    BY <1>1, <1>8, StoredCurrent DEF Fills
  <2>2. /\ DOMAIN titles \subseteq DOMAIN titles'
        /\ \A i \in DOMAIN titles : IsTaken(titles, titles', d, f, i) \/ IsLeft(titles, titles', dats', d, f, i)
        /\ \A i \in DOMAIN titles' \ DOMAIN titles : IsNew(titles, titles', d, f, i)
    BY <1>1, <1>8, StoredTitles
  <2>3. ASSUME NEW i \in Live(titles')
        PROVE  /\ titles'[i].dat \in Current(dats') /\ listed'[titles'[i].dat] # None
               /\ titles'[i].game \in ToSet(Games[listed'[titles'[i].dat]])
    <3>1. i \in DOMAIN titles' /\ titles'[i].live
      BY DEF Live
    <3>2. CASE i \in DOMAIN titles /\ IsTaken(titles, titles', d, f, i)
      BY <1>2, <1>3, <1>8, <2>1, <3>2 DEF IsTaken
    <3>3. CASE i \in DOMAIN titles /\ IsLeft(titles, titles', dats', d, f, i)
      <4> DEFINE e == titles[i].dat
      <4>1. /\ titles'[i].dat = e /\ titles'[i].game = titles[i].game /\ titles[i].live /\ e # d
            /\ ~(Fam(e) = Fam(d) /\ dats'[e].bound)
        BY <3>1, <3>3 DEF IsLeft
      <4>2. /\ e \in Current(dats) /\ listed[e] # None /\ titles[i].game \in ToSet(Games[listed[e]])
        BY <1>1, <3>3, <4>1 DEF LiveListed, Live
      <4>3. e \in Dats /\ dats[e] # None /\ dats[e].bound
        BY <4>2, CurrentIs
      <4>4. dats'[e].bound = dats[e].bound
        BY <1>1, <4>1, <4>3, StoredVersions
      <4>5. Fam(e) # Fam(d)
        BY <4>1, <4>3, <4>4
      <4> QED
        BY <1>4, <2>1, <4>1, <4>2, <4>3, <4>5
    <3>4. CASE i \notin DOMAIN titles
      <4>1. PICK k \in New(titles, d, f) : titles'[i].dat = d /\ titles'[i].game = Games[f][k]
        BY <2>2, <3>1, <3>4 DEF IsNew
      <4>2. Games[f][k] \in ToSet(Games[f])
        BY <1>1, <1>2, TypeFacts, NewType DEF Base
      <4> QED
        BY <1>2, <1>3, <1>8, <2>1, <4>1, <4>2
    <3> QED
      BY <2>2, <3>2, <3>3, <3>4
  <2>4. ASSUME NEW e \in Current(dats'), listed'[e] # None, NEW g \in ToSet(Games[listed'[e]])
        PROVE  \E i : RowsOf(titles', e, g) = {i}
    <3>1. CASE e = d
      BY <1>1, <1>3, <1>8, <2>4, <3>1, FilledRows
    <3>2. CASE e # d
      <4>1. e \in Current(dats) /\ Fam(e) # Fam(d) /\ e \in Dats
        BY <1>6, <2>1, <3>2
      <4>2. listed'[e] = listed[e]
        BY <1>4, <3>2, <4>1
      <4>3. \E i : RowsOf(titles, e, g) = {i}
        BY <1>1, <2>4, <4>1, <4>2 DEF ListedOnce
      <4>4. RowsOf(titles', e, g) = RowsOf(titles, e, g)
        BY <1>1, <1>8, <4>1, OtherRows
      <4> QED
        BY <4>3, <4>4
    <3> QED
      BY <3>1, <3>2
  <2>5. LiveListed' /\ ListedOnce'
    BY <2>3, <2>4 DEF LiveListed, ListedOnce
  <2> QED
    BY <1>7, <2>5 DEF Lists
<1>9. CASE ~Fills
  <2>1. /\ Storing \notin Current(dats) /\ Current(dats) \subseteq Current(dats')
        /\ Current(dats') \subseteq Current(dats) \cup {Storing}
    BY <1>9, UnfilledCurrent
  <2>2. SameRows(titles, titles')
    BY <1>1, <1>9, StoredTitles
  <2>3. \A e, g : RowsOf(titles', e, g) = RowsOf(titles, e, g)
    BY <2>2 DEF RowsOf, Live, SameRows
  <2>4. LiveListed'
    BY <1>1, <1>4, <1>6, <2>1, <2>2 DEF LiveListed, Live, SameRows
  <2>5. ListedOnce'
    <3> SUFFICES ASSUME NEW e \in Current(dats'), listed'[e] # None, NEW g \in ToSet(Games[listed'[e]])
                 PROVE  \E i : RowsOf(titles', e, g) = {i}
      BY DEF ListedOnce
    <3>1. e # Storing
      BY <1>3, <1>9
    <3>2. e \in Current(dats) /\ e \in Dats
      BY <1>6, <2>1, <3>1
    <3>3. listed'[e] = listed[e]
      BY <1>4, <3>1, <3>2
    <3> QED
      <4>1. \E i : RowsOf(titles, e, g) = {i}
        BY <1>1, <3>2, <3>3 DEF ListedOnce
      <4>2. RowsOf(titles', e, g) = RowsOf(titles, e, g)
        BY <2>3
      <4> QED
        BY <4>1, <4>2
  <2> QED
    BY <1>7, <2>4, <2>5 DEF Lists
<1> QED
  BY <1>8, <1>9

\* Titles end with the versions that stop being current.
LEMMA EndLists ==
    ASSUME ListInv, NEW D, StopOf(D), EndOf(titles, titles', D), listed' = listed,
           \A d, e \in Current(dats') : Fam(d)' = Fam(e)' => d = e
    PROVE  Lists'
<1>1. Base /\ LiveListed /\ ListedOnce
  BY DEF ListInv, Lists
<1>2. \A d \in Current(dats) \ D : d \in Current(dats')
  <2> SUFFICES ASSUME NEW d \in Current(dats) \ D
               PROVE  d \in Current(dats')
    OBVIOUS
  <2>1. d \in Known
    BY CurrentIs DEF Known
  <2>2. dats'[d] = dats[d]
    BY <2>1 DEF StopOf
  <2> QED
    BY <2>2, CurrentIs
<1>3. ASSUME NEW d \in Current(dats')
      PROVE  d \in Current(dats) \ D
  <2>1. /\ d \in Dats /\ dats'[d] # None /\ ~dats'[d].retired /\ dats'[d].super = None
    BY <1>3, CurrentIs
  <2>2. d \in Known
    BY <2>1 DEF StopOf, Known
  <2>3. d \notin D /\ dats'[d] = dats[d]
    BY <2>1, <2>2 DEF StopOf
  <2> QED
    BY <1>3, <2>3, CurrentIs
<1>4. LiveListed'
  BY <1>1, <1>2 DEF LiveListed, Live, EndOf
<1>5. ASSUME NEW d \in Current(dats'), NEW g
      PROVE  RowsOf(titles', d, g) = RowsOf(titles, d, g)
  BY <1>3 DEF RowsOf, Live, EndOf
<1>6. ListedOnce'
  <2> SUFFICES ASSUME NEW d \in Current(dats'), listed'[d] # None, NEW g \in ToSet(Games[listed'[d]])
               PROVE  \E i : RowsOf(titles', d, g) = {i}
    BY DEF ListedOnce
  <2>1. \E i : RowsOf(titles, d, g) = {i}
    BY <1>1, <1>3 DEF ListedOnce
  <2>2. RowsOf(titles', d, g) = RowsOf(titles, d, g)
    BY <1>5
  <2> QED
    BY <2>1, <2>2
<1>7. OneCurrent'
  BY DEF OneCurrent
<1> QED
  BY <1>4, <1>6, <1>7 DEF Lists

LEMMA RestartLists ==
    ASSUME ListInv, NEW r \in Rules, Restart(r)
    PROVE  Lists'
<1>1. TypeOK /\ LoadsOrdered
  BY DEF ListInv, Base
<1>2. StopOf(Losers(r)) /\ EndOf(titles, titles', Losers(r)) /\ listed' = listed /\ rule' = r
  BY <1>1, RestartDats, RestartEffect DEF Restart
<1>3. ASSUME NEW d \in Current(dats'), NEW e \in Current(dats'), Fam(d)' = Fam(e)'
      PROVE  d = e
  <2>1. /\ d \in Dats /\ dats'[d] # None /\ ~dats'[d].retired /\ dats'[d].super = None /\ dats'[d].bound
        /\ e \in Dats /\ dats'[e] # None /\ ~dats'[e].retired /\ dats'[e].super = None /\ dats'[e].bound
    BY <1>3, CurrentIs
  <2>2. d \in Known /\ e \in Known
    BY <1>2, <2>1 DEF StopOf, Known
  <2>3. /\ d \notin Losers(r) /\ dats'[d] = dats[d]
        /\ e \notin Losers(r) /\ dats'[e] = dats[e]
    BY <1>2, <2>1, <2>2 DEF StopOf
  <2>4. /\ IsLive(dats, d) /\ IsLive(dats, e) /\ Family[r][d] = Family[r][e]
        /\ dats[d].bound = TRUE /\ dats[e].bound = TRUE
    <3>1. dats[d].bound \in BOOLEAN /\ dats[e].bound \in BOOLEAN
      BY <1>1, <2>1, <2>3, TypeFacts, VersionType
    <3> QED
      BY <1>2, <1>3, <2>1, <2>3, <3>1 DEF IsLive, Fam
  <2>5. Equals(r, d) = Equals(r, e)
    BY <2>4 DEF Equals
  <2>6. d = Winner(dats, Equals(r, d)) /\ e = Winner(dats, Equals(r, e))
    BY <2>2, <2>3, <2>4 DEF Losers
  <2> QED
    BY <2>5, <2>6
<1> QED
  BY <1>2, <1>3, EndLists

LEMMA RemoveLists ==
    ASSUME ListInv, NEW d \in Dats, RemoveDat(d)
    PROVE  Lists'
<1>1. TypeOK /\ OneCurrent
  BY DEF ListInv, Base, Lists
<1>2. /\ StopOf({d}) /\ dats'[d].retired /\ EndOf(titles, titles', {d})
      /\ listed' = listed /\ rule' = rule
  BY <1>1, RemoveDats, RemoveEffect DEF RemoveDat, past
<1>3. \A e \in Current(dats') : e \in Current(dats)
  <2> SUFFICES ASSUME NEW e \in Current(dats')
               PROVE  e \in Current(dats)
    OBVIOUS
  <2>1. e \in Dats /\ dats'[e] # None /\ ~dats'[e].retired
    BY CurrentIs
  <2>2. e \in Known /\ e # d
    BY <1>2, <2>1 DEF StopOf, Known
  <2>3. dats'[e] = dats[e]
    BY <1>2, <2>2 DEF StopOf
  <2> QED
    BY <2>3, CurrentIs
<1>4. \A a, b \in Current(dats') : Fam(a)' = Fam(b)' => a = b
  BY <1>1, <1>2, <1>3 DEF OneCurrent, Fam
<1> QED
  BY <1>2, <1>4, EndLists

\* The tables' rows and versions stay, or only groups, picks and wants change.
LEMMA SameLists ==
    ASSUME ListInv, SameRows(titles, titles'), UNCHANGED <<dats, listed, rule>>
    PROVE  Lists'
<1>1. OneCurrent /\ LiveListed /\ ListedOnce
  BY DEF ListInv, Lists
<1>2. OneCurrent'
  BY <1>1 DEF OneCurrent, Fam
<1>3. LiveListed'
  BY <1>1 DEF LiveListed, Live, SameRows
<1>4. \A d, g : RowsOf(titles', d, g) = RowsOf(titles, d, g)
  BY DEF RowsOf, Live, SameRows
<1>5. ListedOnce'
  <2> SUFFICES ASSUME NEW d \in Current(dats), listed[d] # None, NEW g \in ToSet(Games[listed[d]])
               PROVE  \E i : RowsOf(titles', d, g) = {i}
    BY DEF ListedOnce
  <2>1. \E i : RowsOf(titles, d, g) = {i}
    BY <1>1 DEF ListedOnce
  <2>2. RowsOf(titles', d, g) = RowsOf(titles, d, g)
    BY <1>4
  <2> QED
    BY <2>1, <2>2
<1> QED
  BY <1>2, <1>3, <1>5 DEF Lists

\* Until it is stored, what an import decided does not become wrong.
LEMMA SameDecision ==
    ASSUME StaleDecision, UNCHANGED <<job, dats, rule, loads>>
    PROVE  StaleDecision'
BY DEF StaleDecision, Storing, ByBind, StoreIsBound, StoreIsCurrent, IsCurrent, Bound, Inherits,
       Rivals, Known, Fam, Latest

LEMMA OtherDecision ==
    ASSUME job' = None \/ job'.at # "decided"
    PROVE  StaleDecision'
BY DEF StaleDecision

LEMMA StartDecision ==
    ASSUME ListInv, NEW t \in queue, NEW ram \in BOOLEAN, StartImport(t, ram)
    PROVE  StaleDecision'
<1> DEFINE d == DatOf[t.file]
           b == t.kind = "bind"
<1> SUFFICES ASSUME job' # None, ~job'.staged
             PROVE  d \notin Current(dats) /\ (Bound(d, b) => ~IsCurrent(d, b))
  <2>1. /\ job' = None \/ (job'.task = t /\ (job'.staged <=> Bound(d, b) /\ IsCurrent(d, b)))
    BY StartImportJob DEF ListInv
  <2>2. UNCHANGED <<dats, rule, loads>>
    BY DEF StartImport, tables
  <2>3. Known' = Known /\ (\A S : Latest(S)' = Latest(S)) /\ (\A x : Fam(x)' = Fam(x))
    BY <2>2 DEF Known, Latest, Fam
  <2>4. job' # None => Storing' = d /\ ByBind' = b
    BY <2>1 DEF Storing, ByBind
  <2>5. job' # None => (StoreIsBound' <=> Bound(d, b))
    <3> SUFFICES ASSUME job' # None
                 PROVE  Bound(Storing, ByBind)' <=> Bound(d, b)
      BY DEF StoreIsBound
    <3> HIDE DEF d, b
    <3> QED
      BY <2>2, <2>3, <2>4 DEF Bound, Inherits
  <2>6. job' # None => (StoreIsCurrent' <=> IsCurrent(d, b))
    <3> SUFFICES ASSUME job' # None
                 PROVE  IsCurrent(Storing, ByBind)' <=> IsCurrent(d, b)
      BY DEF StoreIsCurrent
    <3>1. Bound(Storing, ByBind)' = Bound(d, b)
      BY <2>2, <2>3, <2>4 DEF Bound, Inherits
    <3>2. Rivals(Storing, Bound(Storing, ByBind))' = Rivals(d, Bound(d, b))
      BY <2>2, <2>3, <2>4, <3>1 DEF Rivals
    <3> HIDE DEF d, b
    <3> QED
      BY <2>2, <2>3, <2>4, <3>2 DEF IsCurrent
  <2> QED
    BY <2>2, <2>4, <2>5, <2>6 DEF StaleDecision
<1>1. Base /\ OneCurrent
  BY DEF ListInv, Lists
<1>2. ~(Bound(d, b) /\ IsCurrent(d, b))
  BY <1>1, StartImportJob
<1>3. CASE ~Bound(d, b)
  <2>1. ~(dats[d] # None /\ dats[d].bound)
    BY <1>3 DEF Bound
  <2> QED
    BY <1>3, <2>1, CurrentIs
<1>4. CASE Bound(d, b)
  <2>1. Bound(d, b) = TRUE
    <3>1. Bound(d, b) \in BOOLEAN
      BY DEF Bound, Inherits
    <3> QED
      BY <1>4, <3>1
  <2>2. Rivals(d, TRUE) # {}
    BY <1>2, <1>4, <2>1 DEF IsCurrent
  <2>3. PICK e \in Rivals(d, TRUE) : TRUE
    BY <2>2
  <2>4. e \in Current(dats) /\ e # d /\ Fam(e) = Fam(d)
    BY RivalsCurrent
  <2> QED
    BY <1>1, <1>2, <1>4, <2>4 DEF OneCurrent
<1> QED
  BY <1>3, <1>4

LEMMA RemoveDecision ==
    ASSUME ListInv, NEW x \in Dats, RemoveDat(x)
    PROVE  StaleDecision'
<1> DEFINE d == Storing
<1>1. Base /\ OneCurrent /\ StaleDecision /\ TypeOK
  BY DEF ListInv, Lists, Base
<1>2. /\ dats' \in Versions /\ Known' = Known /\ dats'[x].retired
      /\ \A e \in Known : /\ dats'[e].bound = dats[e].bound
                          /\ e # x => dats'[e] = dats[e]
      /\ job' = job /\ rule' = rule /\ loads' = loads
  BY <1>1, RemoveDats DEF StopOf, RemoveDat, lane
<1> SUFFICES ASSUME job # None, job.at = "decided", ~job.ram, ~job.staged
             PROVE  /\ d \notin Current(dats')
                    /\ StoreIsBound' => Rivals(d, TRUE)' = {} \/ ~StoreIsCurrent'
  <2>1. Storing' = Storing
    BY <1>2 DEF Storing
  <2> QED
    BY <1>2, <2>1 DEF StaleDecision, Rivals
<1>3. d \notin Current(dats) /\ (StoreIsBound => Rivals(d, TRUE) = {} \/ ~StoreIsCurrent)
  BY <1>1 DEF StaleDecision
<1>4. \A e : Fam(e)' = Fam(e)
  BY <1>2 DEF Fam
<1>5. \A e \in Known : ~dats'[e].retired => ~dats[e].retired /\ e # x
  BY <1>2
<1>6. d \notin Current(dats')
  <2> SUFFICES ASSUME d \in Current(dats')
               PROVE  FALSE
    OBVIOUS
  <2>1. d \in Dats /\ dats'[d] # None /\ ~dats'[d].retired
    BY CurrentIs
  <2>2. d \in Known'
    BY <2>1 DEF Known
  <2>3. dats'[d] = dats[d]
    BY <1>2, <1>5, <2>1, <2>2
  <2>4. d \in Current(dats)
    BY <2>3, CurrentIs
  <2> QED
    BY <1>3, <2>4
<1>7. Rivals(d, TRUE)' \subseteq Rivals(d, TRUE)
  <2> SUFFICES ASSUME NEW e \in Rivals(d, TRUE)'
               PROVE  e \in Rivals(d, TRUE)
    OBVIOUS
  <2>1. e \in Known /\ e # d /\ Fam(e) = Fam(d) /\ dats'[e].bound = TRUE /\ IsLive(dats', e)
    BY <1>2, <1>4 DEF Rivals, Storing
  <2>2. dats'[e] = dats[e]
    BY <1>2, <1>5, <2>1 DEF IsLive
  <2> QED
    BY <2>1, <2>2 DEF Rivals, IsLive
<1>8. ASSUME StoreIsBound'
      PROVE  StoreIsBound
  <2>1. Storing' = Storing /\ ByBind' = ByBind
    BY <1>2 DEF Storing, ByBind
  <2>2. CASE Inherits(d, ByBind)'
    <3>1. \/ ByBind \/ d \in Tabled
          \/ \E e \in Known' : Fam(e)' = Fam(d)' /\ dats'[e].bound /\ ~dats'[e].retired
      BY <2>1, <2>2 DEF Inherits
    <3>2. \/ ByBind \/ d \in Tabled
          \/ \E e \in Known : Fam(e) = Fam(d) /\ dats[e].bound /\ ~dats[e].retired
      <4>1. ASSUME NEW e \in Known', Fam(e)' = Fam(d)', dats'[e].bound, ~dats'[e].retired
            PROVE  e \in Known /\ Fam(e) = Fam(d) /\ dats[e].bound /\ ~dats[e].retired
        <5>1. e \in Known /\ dats'[e] = dats[e]
          BY <1>2, <1>5, <4>1
        <5>2. Fam(e) = Fam(d)
          BY <1>2, <2>1, <4>1 DEF Fam
        <5> QED
          BY <4>1, <5>1, <5>2
      <4> QED
        BY <3>1, <4>1
    <3> QED
      BY <3>2 DEF StoreIsBound, Bound, Inherits
  <2>3. CASE dats'[d] # None /\ dats'[d].bound
    <3>1. d \in Dats
      BY <1>1, StoringFacts
    <3>2. d \in Known
      BY <1>2, <2>3, <3>1 DEF Known
    <3>3. dats[d] # None /\ dats[d].bound
      BY <1>2, <2>3, <3>2 DEF Known
    <3> QED
      BY <3>3 DEF StoreIsBound, Bound
  <2> QED
    BY <1>8, <2>1, <2>2, <2>3 DEF StoreIsBound, Bound
<1>9. ASSUME StoreIsBound', Rivals(d, TRUE)' # {}
      PROVE  ~StoreIsCurrent'
  <2>1. ~StoreIsCurrent /\ StoreIsBound
    BY <1>3, <1>7, <1>8, <1>9
  <2>2. ~NotOlder(d, Latest(Rivals(d, TRUE)))
    BY <2>1, StoreRivals
  <2>3. \A a, b \in Rivals(d, TRUE) : a = b
    BY <1>1, RivalsCurrent DEF OneCurrent
  <2>4. Rivals(d, TRUE)' = Rivals(d, TRUE)
    BY <1>7, <1>9, <2>3
  <2>5. StoreIsCurrent' <=> \/ Rivals(d, TRUE)' = {}
                            \/ NotOlder(d, Latest(Rivals(d, TRUE)))'
    <3>1. (StoreIsBound => (StoreIsCurrent <=>
              Rivals(Storing, TRUE) = {} \/ NotOlder(Storing, Latest(Rivals(Storing, TRUE)))))'
      BY StoreRivals, PTL
    <3> QED
      BY <1>9, <3>1
  <2>6. NotOlder(d, Latest(Rivals(d, TRUE)))' = NotOlder(d, Latest(Rivals(d, TRUE)))
    BY <1>2, <2>4 DEF NotOlder, Latest, Storing
  <2> QED
    BY <1>9, <2>2, <2>5, <2>6
<1> QED
  BY <1>6, <1>8, <1>9

LEMMA ListInit == Init => ListInv
<1> SUFFICES ASSUME Init PROVE ListInv
  OBVIOUS
<1>1. Base
  BY BaseInit
<1>2. Current(dats) = {} /\ Live(titles) = {}
  BY DEF Init, Current, IsLive, Live
<1>3. Lists /\ StaleDecision
  BY <1>2 DEF Lists, OneCurrent, LiveListed, ListedOnce, StaleDecision, Init
<1> QED
  BY <1>1, <1>3 DEF ListInv

LEMMA ListNext == ListInv /\ [Next]_vars => ListInv'
<1> SUFFICES ASSUME ListInv, [Next]_vars PROVE ListInv'
  OBVIOUS
<1>1. Base /\ StaleDecision /\ TypeOK
  BY DEF ListInv, Base
<1>2. Base'
  BY <1>1, BaseNext
<1>3. ASSUME UNCHANGED <<titles, dats, listed, rule>>
      PROVE  Lists'
  BY <1>3, SameLists DEF SameRows
<1>4. ASSUME UNCHANGED <<tables, listed, job>>
      PROVE  Lists' /\ StaleDecision'
  BY <1>1, <1>3, <1>4, SameDecision DEF tables
<1>5. ASSUME UNCHANGED <<tables, listed>>, job' = None \/ job'.at # "decided"
      PROVE  Lists' /\ StaleDecision'
  BY <1>3, <1>5, OtherDecision DEF tables
<1>6. CASE UNCHANGED vars
  BY <1>2, <1>4, <1>6 DEF vars, lane, past, ListInv
<1>7. ASSUME \/ \E f \in Files : Drop(f)
             \/ \E d \in Dats : BindDat(d)
             \/ QueueRemoval
             \/ \E p \in Preferences : SavePrefs(p)
             \/ ApplyPrefs \/ QueuePrefs \/ Leave
      PROVE  Lists' /\ StaleDecision'
  BY <1>4, <1>7 DEF Drop, BindDat, QueueRemoval, SavePrefs, ApplyPrefs, QueuePrefs, Leave, past, lane
<1>8. ASSUME Reject \/ FinishImport
      PROVE  Lists' /\ StaleDecision'
  BY <1>5, <1>8 DEF Reject, FinishImport, past
<1>9. ASSUME StartRecompute
      PROVE  Lists' /\ StaleDecision'
  <2>1. job'.at = "running"
    BY <1>1, <1>9, StartRecomputeJob
  <2> QED
    BY <1>5, <1>9, <2>1 DEF StartRecompute, past
<1>10. ASSUME Pause \/ Resume
       PROVE  Lists' /\ StaleDecision'
  <2>1. job # None /\ \E at \in {"running", "paused"} : job' = [job EXCEPT !.at = at]
    BY <1>10 DEF Pause, Resume
  <2>2. job'.at # "decided"
    BY <1>1, <2>1, JobMoves
  <2> QED
    BY <1>5, <1>10, <2>2 DEF Pause, Resume, past
<1>11. ASSUME NEW t \in queue, NEW ram \in BOOLEAN, StartImport(t, ram)
       PROVE  Lists' /\ StaleDecision'
  BY <1>3, <1>11, StartDecision DEF StartImport, tables, past
<1>12. ASSUME Store
       PROVE  Lists' /\ StaleDecision'
  <2>1. job # None /\ job.at = "decided"
    BY <1>12, StoreStep
  <2>2. CASE job' = None /\ UNCHANGED <<tables, past>>
    BY <1>5, <2>2 DEF past
  <2>3. CASE Stores
    <3>1. job'.at = "stored"
      BY <1>1, <2>1, <2>3, JobMoves DEF Stores
    <3> QED
      BY <2>1, <2>3, <3>1, StoreLists, OtherDecision
  <2> QED
    BY <1>12, <2>2, <2>3, StoreStep
<1>13. ASSUME Pick
       PROVE  Lists' /\ StaleDecision'
  <2>1. titles' = Recomputed(titles, dats, job.prefs) /\ job' = None /\ UNCHANGED <<dats, listed, rule>>
    BY <1>13 DEF Pick
  <2>2. SameRows(titles, titles')
    <3>1. titles \in Titles /\ dats \in Versions
      BY <1>1, TypeFacts
    <3> QED
      BY <2>1, <3>1, RecomputedRows
  <2> QED
    BY <2>1, <2>2, SameLists, OtherDecision
<1>14. ASSUME NEW d \in Dats, RemoveDat(d)
       PROVE  Lists' /\ StaleDecision'
  BY <1>14, RemoveLists, RemoveDecision
<1>15. ASSUME NEW i \in DOMAIN titles, Want(i) \/ Unwant(i)
       PROVE  Lists' /\ StaleDecision'
  <2>1. SameRows(titles, titles')
    BY <1>1, <1>15, WantEffect, UnwantEffect DEF SamePicks
  <2>2. UNCHANGED <<dats, listed, rule, loads, job>>
    BY <1>15 DEF Want, Unwant, lane, past
  <2> QED
    BY <1>1, <2>1, <2>2, SameLists, SameDecision
<1>16. ASSUME NEW r \in Rules, Restart(r)
       PROVE  Lists' /\ StaleDecision'
  <2>1. job' = None
    BY <1>16 DEF Restart
  <2> QED
    BY <1>16, <2>1, RestartLists, OtherDecision
<1>17. CASE Next
  <2>1. Lists' /\ StaleDecision'
    BY <1>7, <1>8, <1>9, <1>10, <1>11, <1>12, <1>13, <1>14, <1>15, <1>16, <1>17 DEF Next
  <2> QED
    BY <1>2, <2>1 DEF ListInv
<1> QED
  BY <1>6, <1>17

LEMMA ListInvHolds == Spec => []ListInv
BY ListInit, ListNext, PTL DEF Spec

\* What is listed is what the current DATs list, whatever versions are loaded, bound, removed
\* and joined in what order, on the card or in RAM (decide, upsert_version, begin_load,
\* retire_absent, retire, resolve_families; dats.rs:157-620).
THEOREM ListStaysCurrent == Spec => []ListIsCurrent
<1>1. ListInv => ListIsCurrent
  <2> SUFFICES ASSUME ListInv PROVE ListIsCurrent
    OBVIOUS
  <2>1. OneCurrent /\ LiveListed /\ ListedOnce
    BY DEF ListInv, Lists
  <2>2. ASSUME NEW d \in Current(dats), listed[d] # None, NEW g \in ToSet(Games[listed[d]])
        PROVE  Cardinality({i \in Live(titles) : titles[i].dat = d /\ titles[i].game = g}) = 1
    <3>1. PICK i : RowsOf(titles, d, g) = {i}
      BY <2>1, <2>2 DEF ListedOnce
    <3> QED
      BY <3>1, FS_Singleton DEF RowsOf
  <2> QED
    BY <2>1, <2>2 DEF ListIsCurrent, OneCurrent, LiveListed
<1> QED
  BY <1>1, ListInvHolds, PTL

-----------------------------------------------------------------------------
(* What is picked *)

\* A recompute that sees the preferences in effect is still to come.
Owed ==
    \/ Recompute \in queue \/ change = "effective" \/ removal \/ missed
    \/ job # None /\ job.task = Recompute /\ job.prefs = prefs
\* A job that does not see them leaves a follow-up to come.
PrefsInv == job # None /\ job.prefs # prefs => Recompute \in queue \/ change = "effective" \/ missed
PickedLive == \A i \in DOMAIN titles : titles[i].pick => titles[i].live
PicksInv == ListInv /\ PickedLive /\ PrefsInv /\ (Owed \/ PicksHold(titles, prefs))

LEMMA PicksSame ==
    ASSUME NEW ts \in Titles, NEW us \in Titles, SamePicks(ts, us), NEW p \in Preferences,
           PicksHold(ts, p)
    PROVE  PicksHold(us, p)
<1>1. SameRows(ts, us) /\ \A i \in DOMAIN ts : us[i].root = ts[i].root /\ us[i].pick = ts[i].pick
  BY DEF SamePicks
<1>2. Live(us) = Live(ts)
  BY <1>1 DEF Live, SameRows
<1>3. ASSUME NEW i \in Live(us)
      PROVE  BestIn(us, GroupIn(us, i), p)
  <2> DEFINE G == GroupIn(ts, i)
             group == Variants(ts, G)
  <2>1. GroupIn(us, i) = G /\ G \in SUBSET DOMAIN ts
    BY <1>1, <1>2 DEF GroupIn, Live
  <2> HIDE DEF G
  <2>2. Variants(us, G) = group /\ \A v \in group : v.id \in G
    BY <1>1, <2>1, VariantsSame, VariantsGroup
  <2> HIDE DEF group
  <2>3. {v \in group : us[v.id].pick} = {v \in group : ts[v.id].pick}
    BY <1>1, <2>1, <2>2
  <2>4. BestIn(ts, G, p)
    BY <1>2, <1>3 DEF PicksHold, G
  <2> QED
    BY <2>1, <2>2, <2>3, <2>4 DEF BestIn, group
<1>4. \A i \in DOMAIN us : us[i].pick => us[i].live
  BY <1>1 DEF PicksHold, SameRows
<1> QED
  BY <1>3, <1>4 DEF PicksHold

\* Only titles that had ended end with versions that were not current.
LEMMA EndPicks ==
    ASSUME ListInv, PickedLive, NEW D, EndOf(titles, titles', D), titles' \in Titles,
           \A d \in D : d \notin Current(dats)
    PROVE  SamePicks(titles, titles')
<1>1. titles \in Titles /\ LiveListed
  BY TypeFacts DEF ListInv, Base, Lists
<1>2. \A i \in DOMAIN titles : titles[i].dat \in D => ~titles[i].live /\ ~titles[i].pick
  BY <1>1 DEF LiveListed, Live, PickedLive
<1>3. \A i \in DOMAIN titles : /\ titles[i].live \in BOOLEAN /\ titles'[i].live \in BOOLEAN
                               /\ titles[i].pick \in BOOLEAN /\ titles'[i].pick \in BOOLEAN
  BY <1>1, RowType DEF EndOf, Title
<1>4. ASSUME NEW i \in DOMAIN titles
      PROVE  titles'[i].live = titles[i].live /\ titles'[i].pick = titles[i].pick
  BY <1>2, <1>3 DEF EndOf
<1> QED
  BY <1>4 DEF SamePicks, SameRows, EndOf

LEMMA EndPickedLive ==
    ASSUME PickedLive, NEW D, EndOf(titles, titles', D)
    PROVE  PickedLive'
BY DEF PickedLive, EndOf

Due == Owed \/ PicksHold(titles, prefs)

\* A step that leaves the titles, the preferences and every follow-up as they are.
LEMMA KeepsDue ==
    ASSUME PicksInv, UNCHANGED <<titles, prefs>>, Recompute \in queue => Recompute \in queue',
           change = "effective" => change' = "effective", removal => removal', missed => missed',
           \/ job' = job
           \/ job # None /\ job' # None /\ job'.task = job.task /\ job'.prefs = job.prefs
           \/ (job = None \/ job.task # Recompute) /\ (job' = None \/ job'.prefs = prefs)
    PROVE  Due' /\ PrefsInv' /\ PickedLive'
<1>1. PickedLive /\ PrefsInv /\ Due
  BY DEF PicksInv, Due
<1>2. PickedLive'
  BY <1>1 DEF PickedLive
<1>3. Due'
  BY <1>1 DEF Due, Owed
<1>4. PrefsInv'
  BY <1>1 DEF PrefsInv
<1> QED
  BY <1>2, <1>3, <1>4

LEMMA StorePicks ==
    ASSUME PicksInv, Store
    PROVE  Due' /\ PrefsInv' /\ PickedLive'
<1>1. /\ job # None /\ job.at = "decided"
      /\ UNCHANGED <<queue, saved, prefs, change, removal>>
  BY StoreStep DEF settings
<1>2. Base /\ TypeOK /\ PickedLive /\ PrefsInv /\ Due
  BY DEF PicksInv, ListInv, Base, Due
<1>3. job.task # Recompute
  BY <1>1, <1>2, StoringFacts
<1>4. CASE job' = None /\ UNCHANGED <<tables, past>>
  BY <1>1, <1>3, <1>4, KeepsDue DEF tables, past
<1>5. CASE Stores
  <2>1. job' # None /\ job'.task = job.task /\ job'.prefs = job.prefs
    BY <1>1, <1>2, <1>5, JobMoves DEF Stores
  <2>2. missed' = (missed /\ ~((Fills \/ (job.ram /\ StoreIsBound)) /\ job.prefs = prefs))
    BY <1>5 DEF Stores
  <2>3. IF Fills \/ (job.ram /\ StoreIsBound) THEN PicksHold(titles', job.prefs) ELSE titles' = titles
    BY <1>1, <1>2, <1>5, StoredTitles
  <2>4. CASE ~(Fills \/ (job.ram /\ StoreIsBound))
    BY <1>1, <2>1, <2>2, <2>3, <2>4, KeepsDue
  <2>5. CASE Fills \/ (job.ram /\ StoreIsBound)
    <3>1. PicksHold(titles', job.prefs) /\ PickedLive'
      BY <2>3, <2>5 DEF PicksHold, PickedLive
    <3>2. CASE job.prefs = prefs
      BY <1>1, <2>1, <3>1, <3>2 DEF Due, PrefsInv
    <3>3. CASE job.prefs # prefs
      <4>1. Recompute \in queue \/ change = "effective" \/ missed
        BY <1>1, <1>2, <3>3 DEF PrefsInv
      <4>2. Recompute \in queue' \/ change' = "effective" \/ missed'
        BY <1>1, <2>2, <3>3, <4>1
      <4> QED
        BY <3>1, <4>2 DEF Due, Owed, PrefsInv
    <3> QED
      BY <3>1, <3>2, <3>3
  <2> QED
    BY <2>4, <2>5
<1> QED
  BY <1>4, <1>5, StoreStep

LEMMA PickPicks ==
    ASSUME PicksInv, Pick
    PROVE  Due' /\ PrefsInv' /\ PickedLive'
<1>1. /\ job # None /\ titles' = Recomputed(titles, dats, job.prefs) /\ job' = None
      /\ missed' = (missed /\ job.prefs # prefs)
      /\ UNCHANGED <<queue, saved, prefs, change, removal>>
  BY DEF Pick, settings
<1>2. Base /\ TypeOK /\ PrefsInv
  BY DEF PicksInv, ListInv, Base
<1>3. PicksHold(titles', job.prefs)
  <2>1. titles \in Titles /\ dats \in Versions /\ job.prefs \in Preferences
    BY <1>1, <1>2, TypeFacts, JobFacts DEF Base
  <2> QED
    BY <1>1, <2>1, RecomputedPicks
<1>4. PickedLive' /\ PrefsInv'
  BY <1>1, <1>3 DEF PicksHold, PickedLive, PrefsInv
<1>5. Due'
  <2>1. CASE job.prefs = prefs
    BY <1>1, <1>3, <2>1 DEF Due
  <2>2. CASE job.prefs # prefs
    <3>1. Recompute \in queue \/ change = "effective" \/ missed
      BY <1>1, <1>2, <2>2 DEF PrefsInv
    <3> QED
      BY <1>1, <2>2, <3>1 DEF Due, Owed
  <2> QED
    BY <2>1, <2>2
<1> QED
  BY <1>4, <1>5

LEMMA RemovePicks ==
    ASSUME PicksInv, NEW d \in Dats, RemoveDat(d)
    PROVE  Due' /\ PrefsInv' /\ PickedLive'
<1>1. /\ ListInv /\ TypeOK /\ PickedLive /\ PrefsInv /\ Due
  BY DEF PicksInv, ListInv, Base, Due
<1>2. titles' \in Titles /\ EndOf(titles, titles', {d})
  BY <1>1, RemoveEffect
<1>3. UNCHANGED <<queue, job, saved, prefs, change, missed>> /\ removal' = (removal \/ dats[d].bound)
  BY DEF RemoveDat, lane, settings, past
<1>4. PickedLive'
  BY <1>1, <1>2, EndPickedLive
<1>5. PrefsInv'
  BY <1>1, <1>3 DEF PrefsInv
<1>6. CASE dats[d].bound
  BY <1>3, <1>4, <1>5, <1>6 DEF Due, Owed
<1>7. CASE ~dats[d].bound
  <2>1. d \notin Current(dats)
    BY <1>7, CurrentIs
  <2>2. SamePicks(titles, titles')
    BY <1>1, <1>2, <2>1, EndPicks
  <2>3. titles \in Titles /\ prefs \in Preferences
    BY <1>1, TypeFacts
  <2>4. PicksHold(titles, prefs) => PicksHold(titles', prefs)
    BY <1>2, <2>2, <2>3, PicksSame
  <2>5. Due'
    BY <1>1, <1>3, <2>4 DEF Due, Owed
  <2> QED
    BY <1>4, <1>5, <2>5
<1> QED
  BY <1>6, <1>7

LEMMA WantPicks ==
    ASSUME PicksInv, SamePicks(titles, titles'), titles' \in Titles,
           UNCHANGED <<lane, settings, removal, missed>>
    PROVE  Due' /\ PrefsInv' /\ PickedLive'
<1>1. TypeOK /\ PickedLive /\ PrefsInv /\ Due
  BY DEF PicksInv, ListInv, Base, Due
<1>2. titles \in Titles /\ prefs \in Preferences
  BY <1>1, TypeFacts
<1>3. PicksHold(titles, prefs) => PicksHold(titles', prefs)
  BY <1>2, PicksSame
<1>4. Due'
  BY <1>1, <1>3 DEF Due, Owed, lane, settings
<1>5. PrefsInv'
  BY <1>1 DEF PrefsInv, lane, settings
<1>6. PickedLive'
  BY <1>1 DEF PickedLive, SamePicks, SameRows
<1> QED
  BY <1>4, <1>5, <1>6

LEMMA RestartPicks ==
    ASSUME PicksInv, NEW r \in Rules, Restart(r)
    PROVE  Due' /\ PrefsInv' /\ PickedLive'
<1>1. /\ ListInv /\ Base /\ TypeOK /\ PickedLive /\ Due /\ LoadsOrdered
  BY DEF PicksInv, ListInv, Base, Due
<1>2. titles' \in Titles /\ EndOf(titles, titles', Losers(r))
  BY <1>1, RestartEffect
<1>3. /\ job' = None /\ prefs' = saved
      /\ missed' = (missed \/ change # "none" \/ removal \/ saved # prefs)
  BY DEF Restart
<1>4. /\ \A t \in queue : t.kind # "bind" => t \in queue'
      /\ job # None /\ job.task = Recompute => Recompute \in queue'
      /\ (\E d \in Losers(r) : dats[d].bound) => Recompute \in queue'
  BY <1>1, RestartQueue
<1>5. PickedLive' /\ PrefsInv'
  BY <1>1, <1>2, <1>3, EndPickedLive DEF PrefsInv
<1>6. CASE Owed \/ saved # prefs
  <2>1. Recompute.kind # "bind"
    BY DEF Recompute
  <2>2. missed' \/ Recompute \in queue'
    BY <1>3, <1>4, <1>6, <2>1 DEF Owed
  <2> QED
    BY <1>5, <2>2 DEF Due, Owed
<1>7. CASE ~Owed /\ saved = prefs /\ \E d \in Losers(r) : dats[d].bound
  BY <1>4, <1>5, <1>7 DEF Due, Owed
<1>8. CASE ~Owed /\ saved = prefs /\ ~\E d \in Losers(r) : dats[d].bound
  <2>1. \A d \in Losers(r) : d \notin Current(dats)
    BY <1>8, CurrentIs
  <2>2. SamePicks(titles, titles')
    BY <1>1, <1>2, <2>1, EndPicks
  <2>3. titles \in Titles /\ prefs \in Preferences
    BY <1>1, TypeFacts
  <2>4. PicksHold(titles', prefs')
    BY <1>1, <1>2, <1>3, <1>8, <2>2, <2>3, PicksSame DEF Due
  <2> QED
    BY <1>5, <2>4 DEF Due
<1> QED
  BY <1>6, <1>7, <1>8

LEMMA PicksInit == Init => PicksInv
<1> SUFFICES ASSUME Init PROVE PicksInv
  OBVIOUS
<1>1. ListInv
  BY ListInit
<1>2. titles = <<>> /\ DOMAIN titles = {} /\ job = None
  BY DEF Init
<1>3. PickedLive /\ PrefsInv /\ PicksHold(titles, prefs)
  BY <1>2 DEF PickedLive, PrefsInv, PicksHold, Live
<1> QED
  BY <1>1, <1>3 DEF PicksInv

\* A recompute that is asked for is queued, or joins one that is held.
LEMMA SubmitOwes ==
    ASSUME Submit, UNCHANGED <<job, prefs>>
    PROVE  Owed' /\ (Recompute \in queue => Recompute \in queue') /\ (missed => missed')
<1>1. CASE Recompute \in queue
  BY <1>1 DEF Submit, Owed, Joins
<1>2. CASE Recompute \notin queue /\ ~Joins
  BY <1>2 DEF Submit, Owed
<1>3. CASE Recompute \notin queue /\ Joins
  <2>1. job # None /\ job.task = Recompute /\ queue' = queue /\ missed' = (missed \/ job.prefs # prefs)
    BY <1>3 DEF Submit, Joins
  <2> QED
    BY <1>3, <2>1 DEF Owed
<1> QED
  BY <1>1, <1>2, <1>3

\* The steps of a request or a removal that ends in asking for a recompute.
LEMMA SubmitPicks ==
    ASSUME PicksInv, QueueRemoval \/ QueuePrefs
    PROVE  Due' /\ PrefsInv' /\ PickedLive'
<1>1. TypeOK /\ PickedLive /\ PrefsInv
  BY DEF PicksInv, ListInv, Base
<1>2. Submit /\ UNCHANGED <<job, prefs, titles>>
  BY DEF QueueRemoval, QueuePrefs, tables, settings
<1>3. Owed' /\ (Recompute \in queue => Recompute \in queue') /\ (missed => missed')
  BY <1>2, SubmitOwes
<1>4. PickedLive'
  BY <1>1, <1>2 DEF PickedLive
<1>5. PrefsInv'
  <2>1. CASE QueueRemoval
    BY <1>1, <1>2, <1>3, <2>1 DEF QueueRemoval, settings, PrefsInv
  <2>2. CASE QueuePrefs
    <3>1. CASE Recompute \in queue
      BY <1>3, <3>1 DEF PrefsInv
    <3>2. CASE Recompute \notin queue /\ Joins
      BY <1>2, <3>2 DEF Submit, PrefsInv
    <3>3. CASE Recompute \notin queue /\ ~Joins
      BY <1>2, <3>3 DEF Submit, PrefsInv
    <3> QED
      BY <3>1, <3>2, <3>3
  <2> QED
    BY <2>1, <2>2
<1> QED
  BY <1>3, <1>4, <1>5 DEF Due

LEMMA PicksNext == PicksInv /\ [Next]_vars => PicksInv'
<1> SUFFICES ASSUME PicksInv, [Next]_vars PROVE PicksInv'
  OBVIOUS
<1>1. ListInv /\ Base /\ TypeOK /\ PickedLive /\ PrefsInv
  BY DEF PicksInv, ListInv, Base
<1>2. ListInv'
  BY <1>1, ListNext
<1> DEFINE goal == Due' /\ PrefsInv' /\ PickedLive'
<1>3. CASE UNCHANGED vars
  <2>1. UNCHANGED <<titles, prefs, queue, change, removal, missed, job>>
    BY <1>3 DEF vars, tables, lane, settings, past
  <2>2. goal
    BY <2>1, KeepsDue
  <2> QED
    BY <1>2, <2>2 DEF PicksInv, Due
<1>4. ASSUME \/ \E f \in Files : Drop(f)
             \/ \E d \in Dats : BindDat(d)
      PROVE  goal
  <2>1. queue \subseteq queue' /\ UNCHANGED <<titles, prefs, change, removal, missed, job>>
    BY <1>4 DEF Drop, BindDat, tables, settings, past
  <2> QED
    BY <2>1, KeepsDue
<1>5. ASSUME NEW p \in Preferences, SavePrefs(p)
      PROVE  goal
  BY <1>5, KeepsDue DEF SavePrefs, tables, lane, past
<1>6. ASSUME Reject \/ FinishImport
      PROVE  goal
  <2>1. job # None /\ job.task # Recompute /\ job' = None
    BY <1>1, <1>6, JobFacts DEF Reject, FinishImport, Base, JobOK
  <2> QED
    BY <1>6, <2>1, KeepsDue DEF Reject, FinishImport, tables, settings, past
<1>7. ASSUME NEW t \in queue, NEW ram \in BOOLEAN, StartImport(t, ram)
      PROVE  goal
  <2>1. /\ job = None /\ (job' = None \/ job'.prefs = prefs) /\ t # Recompute
        /\ queue' = queue \ {t} /\ UNCHANGED <<titles, prefs, change, removal, missed>>
    BY <1>1, <1>7, StartImportJob DEF StartImport, tables, settings, past
  <2> QED
    BY <2>1, KeepsDue
<1>8. ASSUME StartRecompute
      PROVE  goal
  <2>1. /\ job' # None /\ job'.task = Recompute /\ job'.prefs = prefs
    BY <1>1, <1>8, StartRecomputeJob
  <2>2. UNCHANGED <<titles, prefs>>
    BY <1>8 DEF StartRecompute, tables, settings
  <2> QED
    BY <1>1, <2>1, <2>2 DEF Due, Owed, PrefsInv, PickedLive
<1>9. ASSUME Pause \/ Resume
      PROVE  goal
  <2>1. job # None /\ \E at \in {"running", "paused"} : job' = [job EXCEPT !.at = at]
    BY <1>9 DEF Pause, Resume
  <2>2. job' # None /\ job'.task = job.task /\ job'.prefs = job.prefs
    BY <1>1, <2>1, JobMoves
  <2> QED
    BY <1>9, <2>1, <2>2, KeepsDue DEF Pause, Resume, tables, settings, past
<1>10. ASSUME ApplyPrefs
       PROVE  goal
  <2>1. /\ change = "stored" /\ change' = (IF saved # prefs THEN "effective" ELSE "none") /\ prefs' = saved
        /\ UNCHANGED <<titles, queue, job, removal, missed>>
    BY <1>10 DEF ApplyPrefs, tables, lane, past
  <2>2. CASE saved = prefs
    BY <2>1, <2>2, KeepsDue
  <2>3. CASE saved # prefs
    BY <1>1, <2>1, <2>3 DEF Due, Owed, PrefsInv, PickedLive
  <2> QED
    BY <2>2, <2>3
<1>11. ASSUME Leave
       PROVE  goal
  BY <1>1, <1>11 DEF Leave, tables, Due, Owed, PrefsInv, PickedLive
<1>12. ASSUME NEW i \in DOMAIN titles, Want(i) \/ Unwant(i)
       PROVE  goal
  <2>1. titles' \in Titles /\ SamePicks(titles, titles')
    BY <1>1, <1>12, WantEffect, UnwantEffect
  <2>2. UNCHANGED <<lane, settings, removal, missed>>
    BY <1>12 DEF Want, Unwant, past
  <2> QED
    BY <2>1, <2>2, WantPicks
<1>13. CASE Next
  <2>1. goal
    BY <1>4, <1>5, <1>6, <1>7, <1>8, <1>9, <1>10, <1>11, <1>12, <1>13, SubmitPicks, StorePicks,
       PickPicks, RemovePicks, RestartPicks DEF Next
  <2> QED
    BY <1>2, <2>1 DEF PicksInv, Due
<1> QED
  BY <1>2, <1>3, <1>13 DEF PicksInv, Due

\* Once nothing is left to do, every group has the pick the preferences in effect call for
\* (recompute_platform, update_settings, catalogue_changed; recompute.rs:146, app.rs:355,
\* follow_up.rs:19).
THEOREM PicksAreRight == Spec => []PicksFollow
<1>1. PicksInv => PicksFollow
  BY PicksRightIs DEF PicksInv, PicksFollow, Quiet, Owed
<1> QED
  BY <1>1, PicksInit, PicksNext, PTL DEF Spec

-----------------------------------------------------------------------------
(* Which version gives way *)

GivesWay(d) == dats'[d].retired \/ \E e \in Current(dats') : NotOlder(e, d) /\ Fam(e)' = Fam(d)'

LEMMA StoreGivesWay ==
    ASSUME ListInv, job # None, job.at = "decided", Stores, NEW d \in Current(dats) \ Current(dats')
    PROVE  GivesWay(d)
<1>1. Base /\ OneCurrent
  BY DEF ListInv, Lists
<1>2. StoreIsCurrent /\ StoreIsBound
  BY <1>1, StoredCurrent
<1>3. Storing \in Current(dats') /\ d # Storing /\ Fam(d) = Fam(Storing)
  BY <1>1, <1>2, StoredCurrent
<1>4. Rivals(Storing, TRUE) = {d}
  <2>1. d \in Dats /\ dats[d] # None /\ ~dats[d].retired /\ dats[d].super = None /\ dats[d].bound
    BY CurrentIs
  <2>2. dats[d].bound = TRUE
    BY <1>1, <2>1, TypeFacts, VersionType DEF Base
  <2>3. d \in Rivals(Storing, TRUE)
    BY <1>3, <2>1, <2>2 DEF Rivals, IsLive, Known
  <2>4. \A e \in Rivals(Storing, TRUE) : e = d
    BY <1>1, <1>3, RivalsCurrent DEF OneCurrent
  <2> QED
    BY <2>3, <2>4
<1>5. Latest({d}) = d
  <2>1. {d} \in SUBSET Known
    BY CurrentIs DEF Known
  <2> QED
    BY <1>1, <2>1, LatestIn DEF Base
<1>6. NotOlder(Storing, d)
  BY <1>2, <1>4, <1>5, StoreRivals
<1>7. \A e : Fam(e)' = Fam(e)
  BY DEF Stores, Fam
<1> QED
  BY <1>3, <1>6, <1>7 DEF GivesWay

LEMMA RestartGivesWay ==
    ASSUME ListInv, NEW r \in Rules, Restart(r), NEW d \in Current(dats) \ Current(dats')
    PROVE  GivesWay(d)
<1>1. TypeOK /\ LoadsOrdered
  BY DEF ListInv, Base
<1>2. StopOf(Losers(r)) /\ rule' = r
  BY <1>1, RestartDats DEF Restart
<1>3. /\ d \in Dats /\ d \in Known /\ dats[d].bound
  BY CurrentIs DEF Known
<1>4. d \in Losers(r)
  <2>1. CASE d \notin Losers(r)
    <3>1. dats'[d] = dats[d]
      BY <1>2, <1>3, <2>1 DEF StopOf
    <3> QED
      BY <3>1, CurrentIs
  <2> QED
    BY <2>1
<1>5. PICK w \in Equals(r, d) :
           w = Winner(dats, Equals(r, d)) /\ NotOlder(w, d) /\ Equals(r, w) = Equals(r, d)
  BY <1>1, <1>4, LoserFacts
<1>6. w \notin Losers(r)
  BY <1>5 DEF Losers
<1>7. Family[r][w] = Family[r][d] /\ dats[w].bound = dats[d].bound /\ IsLive(dats, w) /\ w \in Known
  BY <1>5 DEF Equals
<1>8. dats'[w] = dats[w]
  BY <1>2, <1>6, <1>7 DEF StopOf
<1>9. w \in Current(dats')
  BY <1>3, <1>7, <1>8, CurrentIs DEF IsLive, Known
<1>10. Fam(w)' = Fam(d)'
  BY <1>2, <1>7 DEF Fam
<1> QED
  BY <1>5, <1>9, <1>10 DEF GivesWay

\* A version stops being current only for one that is not older, or because it is removed
\* (not_older, upsert_version, resolve_families; dats.rs:213, 273, 570).
THEOREM OnlyNewerReplace == Spec => NewestWins
<1>1. ListInv /\ [Next]_vars => [\A d \in Current(dats) \ Current(dats') : GivesWay(d)]_vars
  <2> SUFFICES ASSUME ListInv, Next, NEW d \in Current(dats) \ Current(dats')
               PROVE  GivesWay(d)
    OBVIOUS
  <2>1. TypeOK
    BY DEF ListInv, Base
  <2>2. ASSUME UNCHANGED dats
        PROVE  FALSE
    BY <2>2
  <2>3. CASE Store
    BY <2>2, <2>3, StoreStep, StoreGivesWay DEF tables
  <2>4. CASE \E r \in Rules : Restart(r)
    BY <2>4, RestartGivesWay
  <2>5. ASSUME NEW e \in Dats, RemoveDat(e)
        PROVE  GivesWay(d)
    <3>1. StopOf({e}) /\ dats'[e].retired
      BY <2>1, <2>5, RemoveDats
    <3>2. d \in Known
      BY CurrentIs DEF Known
    <3>3. d = e
      <4>1. CASE d # e
        <5>1. dats'[d] = dats[d]
          BY <3>1, <3>2, <4>1 DEF StopOf
        <5> QED
          BY <5>1, CurrentIs
      <4> QED
        BY <4>1
    <3> QED
      BY <3>1, <3>3 DEF GivesWay
  <2>6. CASE Pick
    BY <2>2, <2>6 DEF Pick
  <2>7. CASE \/ \E f \in Files : Drop(f)
             \/ \E t \in queue, ram \in BOOLEAN : StartImport(t, ram)
             \/ Reject \/ FinishImport \/ StartRecompute \/ Pause \/ Resume
             \/ \E e \in Dats : BindDat(e)
             \/ QueueRemoval
             \/ \E i \in DOMAIN titles : Want(i) \/ Unwant(i)
             \/ \E p \in Preferences : SavePrefs(p)
             \/ ApplyPrefs \/ QueuePrefs \/ Leave
    BY <2>2, <2>7 DEF Drop, StartImport, Reject, FinishImport, StartRecompute, Pause, Resume, BindDat,
       QueueRemoval, Want, Unwant, SavePrefs, ApplyPrefs, QueuePrefs, Leave, tables
  <2> QED
    BY <2>3, <2>4, <2>5, <2>6, <2>7 DEF Next
<1> QED
  BY <1>1, ListInvHolds, PTL DEF Spec, NewestWins, GivesWay

-----------------------------------------------------------------------------
(* What stays wanted *)

\* Families have one row of a name, until a new rule joins families.
OneName ==
    /\ rule # 0
    /\ rule = 1 => \A i, k \in DOMAIN titles :
          NameOf(titles[i]) = NameOf(titles[k]) /\ Fam(titles[i].dat) = Fam(titles[k].dat) => i = k
NamesInv == Base /\ OneName

\* Rows stay, and keep their names and families.
SameNames ==
    /\ DOMAIN titles \subseteq DOMAIN titles'
    /\ \A i \in DOMAIN titles : /\ NameOf(titles'[i]) = NameOf(titles[i])
                                /\ Fam(titles'[i].dat) = Fam(titles[i].dat)

LEMMA RowsNames ==
    ASSUME SameRows(titles, titles')
    PROVE  SameNames /\ DOMAIN titles' = DOMAIN titles
BY DEF SameRows, SameNames, NameOf

LEMMA EndNames ==
    ASSUME NEW D, EndOf(titles, titles', D)
    PROVE  SameNames /\ DOMAIN titles' = DOMAIN titles
BY DEF EndOf, SameNames, NameOf

\* No row is new: the names stay one of each.
LEMMA SameOneName ==
    ASSUME OneName, SameNames, DOMAIN titles' = DOMAIN titles, rule' = rule \/ rule' > 1
    PROVE  OneName'
<1>1. CASE rule' = rule
  <2>1. \A d : Fam(d)' = Fam(d)
    BY <1>1 DEF Fam
  <2>2. \A t : NameOf(t)' = NameOf(t)
    BY DEF NameOf
  <2> QED
    BY <1>1, <2>1, <2>2 DEF OneName, SameNames
<1>2. CASE rule' > 1
  BY <1>2 DEF OneName
<1> QED
  BY <1>1, <1>2

LEMMA StoreNames ==
    ASSUME NamesInv, job # None, job.at = "decided", Stores
    PROVE  SameNames /\ OneName'
<1> DEFINE d == Storing
           f == job.task.file
<1>1. /\ Base /\ OneName /\ d \in Dats /\ f \in Files /\ titles \in Titles /\ LoadsOrdered
      /\ TitlesKnown(titles) /\ rule' = rule
  BY StoringFacts, TypeFacts DEF NamesInv, Base, Stores
<1>2. \A g : LET i == RowOf(titles, d, Game[g].name)
             IN  \/ /\ i \in DOMAIN titles /\ i # 0
                    /\ NameOf(titles[i]) = Game[g].name /\ Fam(titles[i].dat) = Fam(d)
                 \/ /\ i = 0
                    /\ \A k \in DOMAIN titles : ~(NameOf(titles[k]) = Game[g].name /\ Fam(titles[k].dat) = Fam(d))
  BY <1>1, RowOfIs
<1>3. CASE ~Fills
  <2>1. SameRows(titles, titles')
    BY <1>1, <1>3, StoredTitles
  <2> QED
    BY <1>1, <2>1, RowsNames, SameOneName
<1>4. CASE Fills
  <2>1. /\ DOMAIN titles \subseteq DOMAIN titles'
        /\ \A i \in DOMAIN titles : IsTaken(titles, titles', d, f, i) \/ IsLeft(titles, titles', dats', d, f, i)
        /\ \A i \in DOMAIN titles' \ DOMAIN titles : IsNew(titles, titles', d, f, i)
    BY <1>1, <1>4, StoredTitles
  <2>2. \A i \in DOMAIN titles : i # 0
    BY <1>1, RowType
  <2>3. ASSUME NEW i \in DOMAIN titles
        PROVE  NameOf(titles'[i]) = NameOf(titles[i]) /\ Fam(titles'[i].dat) = Fam(titles[i].dat)
    <3>1. CASE IsLeft(titles, titles', dats', d, f, i)
      BY <3>1 DEF IsLeft, NameOf
    <3>2. CASE IsTaken(titles, titles', d, f, i)
      <4>1. PICK g \in ToSet(Games[f]) :
               RowOf(titles, d, Game[g].name) = i /\ titles'[i].dat = d /\ titles'[i].game = g
        BY <3>2 DEF IsTaken
      <4>2. NameOf(titles[i]) = Game[g].name /\ Fam(titles[i].dat) = Fam(d)
        BY <1>2, <2>2, <4>1
      <4> QED
        BY <4>1, <4>2 DEF NameOf
    <3> QED
      BY <2>1, <3>1, <3>2
  <2>4. SameNames
    BY <2>1, <2>3 DEF SameNames
  <2>5. ASSUME NEW i \in DOMAIN titles' \ DOMAIN titles
        PROVE  \E n \in New(titles, d, f) :
                  /\ NewId(titles, d, f, n) = i /\ n \in DOMAIN Games[f]
                  /\ NameOf(titles'[i]) = Game[Games[f][n]].name /\ titles'[i].dat = d
                  /\ RowOf(titles, d, Game[Games[f][n]].name) = 0
    <3>1. PICK n \in New(titles, d, f) :
             NewId(titles, d, f, n) = i /\ titles'[i].dat = d /\ titles'[i].game = Games[f][n]
      BY <2>1 DEF IsNew
    <3>2. n \in DOMAIN Games[f] /\ RowOf(titles, d, Game[Games[f][n]].name) = 0
      BY DEF New
    <3> QED
      BY <3>1, <3>2 DEF NameOf
  <2>6. ASSUME NEW i \in DOMAIN titles', NEW k \in DOMAIN titles',
               NameOf(titles'[i]) = NameOf(titles'[k]), Fam(titles'[i].dat) = Fam(titles'[k].dat),
               k \notin DOMAIN titles
        PROVE  i = k
    <3>1. PICK n \in New(titles, d, f) :
             /\ NewId(titles, d, f, n) = k /\ n \in DOMAIN Games[f]
             /\ NameOf(titles'[k]) = Game[Games[f][n]].name /\ titles'[k].dat = d
             /\ RowOf(titles, d, Game[Games[f][n]].name) = 0
      BY <2>5, <2>6
    <3>2. CASE i \in DOMAIN titles
      <4>1. NameOf(titles[i]) = Game[Games[f][n]].name /\ Fam(titles[i].dat) = Fam(d)
        BY <2>3, <2>6, <3>1, <3>2
      <4> QED
        BY <1>2, <2>2, <3>1, <3>2, <4>1
    <3>3. CASE i \notin DOMAIN titles
      <4>1. PICK m \in New(titles, d, f) :
               /\ NewId(titles, d, f, m) = i /\ m \in DOMAIN Games[f]
               /\ NameOf(titles'[i]) = Game[Games[f][m]].name
        BY <2>5, <3>3
      <4>2. m = n
        BY <1>1, <2>6, <3>1, <4>1, NameOnce
      <4> QED
        BY <3>1, <4>1, <4>2
    <3> QED
      BY <3>2, <3>3
  <2>7. ASSUME rule = 1, NEW i \in DOMAIN titles', NEW k \in DOMAIN titles',
               NameOf(titles'[i]) = NameOf(titles'[k]), Fam(titles'[i].dat) = Fam(titles'[k].dat)
        PROVE  i = k
    <3>1. CASE i \in DOMAIN titles /\ k \in DOMAIN titles
      BY <1>1, <2>3, <2>7, <3>1 DEF OneName
    <3> QED
      BY <2>6, <2>7, <3>1
  <2>8. \A e : Fam(e)' = Fam(e)
    BY <1>1 DEF Fam
  <2>9. OneName'
    BY <1>1, <2>7, <2>8 DEF OneName, NameOf
  <2> QED
    BY <2>4, <2>9
<1> QED
  BY <1>3, <1>4

LEMMA NamesInit == Init => NamesInv
<1> SUFFICES ASSUME Init PROVE NamesInv
  OBVIOUS
<1>1. Base
  BY BaseInit
<1>2. rule = 1 /\ DOMAIN titles = {}
  BY DEF Init
<1> QED
  BY <1>1, <1>2 DEF NamesInv, OneName

\* What a step leaves of the rows.
LEMMA NamesStep ==
    ASSUME NamesInv, [Next]_vars
    PROVE  SameNames /\ OneName' /\ (rule' = 1 => rule = 1)
<1>1. Base /\ OneName /\ TypeOK /\ LoadsOrdered
  BY DEF NamesInv, Base
<1> DEFINE goal == SameNames /\ OneName' /\ (rule' = 1 => rule = 1)
<1>2. ASSUME UNCHANGED <<rule, titles>>
      PROVE  goal
  <2>1. SameRows(titles, titles')
    BY <1>2 DEF SameRows
  <2> QED
    BY <1>1, <1>2, <2>1, RowsNames, SameOneName
<1>3. ASSUME Store
      PROVE  goal
  <2>1. CASE UNCHANGED tables
    BY <1>2, <2>1 DEF tables
  <2>2. CASE Stores
    <3>1. job # None /\ job.at = "decided"
      BY <1>3, StoreStep
    <3> QED
      BY <2>2, <3>1, StoreNames DEF Stores
  <2> QED
    BY <1>3, <2>1, <2>2, StoreStep
<1>4. ASSUME Pick
      PROVE  goal
  <2>1. titles' = Recomputed(titles, dats, job.prefs) /\ rule' = rule
    BY <1>4 DEF Pick
  <2>2. titles \in Titles /\ dats \in Versions
    BY <1>1, TypeFacts
  <2>3. SameRows(titles, titles')
    <3>1. job # None
      BY <1>4 DEF Pick
    <3>2. job.prefs \in Preferences
      BY <1>1, <3>1, JobFacts DEF Base
    <3> QED
      BY <2>1, <2>2, <3>2, RecomputedRows
  <2> QED
    BY <1>1, <2>1, <2>3, RowsNames, SameOneName
<1>5. ASSUME NEW d \in Dats, RemoveDat(d)
      PROVE  goal
  <2>1. EndOf(titles, titles', {d}) /\ rule' = rule
    BY <1>1, <1>5, RemoveEffect DEF RemoveDat
  <2> QED
    BY <1>1, <2>1, EndNames, SameOneName
<1>6. ASSUME NEW i \in DOMAIN titles, Want(i) \/ Unwant(i)
      PROVE  goal
  <2>1. SameRows(titles, titles') /\ rule' = rule
    BY <1>1, <1>6, WantEffect, UnwantEffect DEF SamePicks, Want, Unwant
  <2> QED
    BY <1>1, <2>1, RowsNames, SameOneName
<1>7. ASSUME NEW r \in Rules, Restart(r)
      PROVE  goal
  <2>1. EndOf(titles, titles', Losers(r)) /\ rule' = r /\ (r = rule \/ r = rule + 1)
    BY <1>1, <1>7, RestartEffect DEF Restart
  <2>2. rule \in Nat /\ rule # 0
    BY <1>1, TypeFacts, CatalogAssumption DEF OneName, TypeOK
  <2>3. rule' = rule \/ rule' > 1
    BY <2>1, <2>2
  <2> QED
    BY <1>1, <2>1, <2>3, EndNames, SameOneName
<1>8. CASE \/ \E f \in Files : Drop(f)
           \/ \E t \in queue, ram \in BOOLEAN : StartImport(t, ram)
           \/ Reject \/ FinishImport \/ StartRecompute \/ Pause \/ Resume
           \/ \E e \in Dats : BindDat(e)
           \/ QueueRemoval
           \/ \E p \in Preferences : SavePrefs(p)
           \/ ApplyPrefs \/ QueuePrefs \/ Leave
  BY <1>2, <1>8 DEF Drop, StartImport, Reject, FinishImport, StartRecompute, Pause, Resume, BindDat,
     QueueRemoval, SavePrefs, ApplyPrefs, QueuePrefs, Leave, tables
<1>9. CASE UNCHANGED vars
  BY <1>2, <1>9 DEF vars, tables
<1>10. CASE Next
  BY <1>3, <1>4, <1>5, <1>6, <1>7, <1>8, <1>10 DEF Next
<1> QED
  BY <1>9, <1>10

LEMMA NamesNext == NamesInv /\ [Next]_vars => NamesInv'
BY NamesStep, BaseNext DEF NamesInv

LEMMA NamesHold == Spec => []NamesInv
BY NamesInit, NamesNext, PTL DEF Spec

\* What a step may do to a row that is live.
KeepsRow(i) ==
    /\ rule' = 1 /\ ~titles'[i].live =>
         \A k \in Live(titles') : NameOf(titles'[k]) # NameOf(titles[i]) \/ Fam(titles'[k].dat) # Fam(titles[i].dat)
    /\ titles[i].wanted /\ ~titles'[i].wanted =>
         dats'[titles[i].dat].retired \/ (UNCHANGED dats /\ \A k \in Group(i) : ~titles'[k].wanted)

LEMMA WantsStep ==
    ASSUME NamesInv, Next, NEW i \in DOMAIN titles, titles[i].wanted, ~titles'[i].wanted
    PROVE  dats'[titles[i].dat].retired \/ (UNCHANGED dats /\ \A k \in Group(i) : ~titles'[k].wanted)
<1>1. Base /\ TypeOK /\ LoadsOrdered
  BY DEF NamesInv, Base
<1> DEFINE goal == dats'[titles[i].dat].retired \/ (UNCHANGED dats /\ \A k \in Group(i) : ~titles'[k].wanted)
<1>2. ASSUME titles'[i].wanted = titles[i].wanted
      PROVE  FALSE
  BY <1>2
<1>3. ASSUME Store
      PROVE  goal
  <2>1. job # None /\ job.at = "decided" /\ (UNCHANGED tables \/ Stores)
    BY <1>3, StoreStep
  <2>2. titles'[i].wanted = titles[i].wanted
    BY <1>1, <2>1, StoredTitles DEF tables
  <2> QED
    BY <1>2, <2>2
<1>4. ASSUME Pick
      PROVE  goal
  <2>1. titles' = Recomputed(titles, dats, job.prefs) /\ titles \in Titles /\ dats \in Versions
    BY <1>1, <1>4, TypeFacts DEF Pick
  <2>2. job # None
    BY <1>4 DEF Pick
  <2>3. job.prefs \in Preferences
    BY <1>1, <2>2, JobFacts DEF Base
  <2>4. titles'[i].wanted = titles[i].wanted
    BY <2>1, <2>3, RecomputedRows
  <2> QED
    BY <1>2, <2>4
<1>5. ASSUME NEW d \in Dats, RemoveDat(d)
      PROVE  goal
  <2>1. EndOf(titles, titles', {d}) /\ dats'[d].retired
    BY <1>1, <1>5, RemoveEffect, RemoveDats
  <2>2. titles[i].dat = d
    BY <2>1 DEF EndOf
  <2> QED
    BY <2>1, <2>2
<1>6. ASSUME NEW k \in DOMAIN titles, Want(k)
      PROVE  goal
  <2>1. titles'[i].wanted
    BY <1>1, <1>6, WantEffect
  <2> QED
    BY <2>1
<1>7. ASSUME NEW r, Unwant(r)
      PROVE  goal
  <2>1. \A k \in DOMAIN titles : titles'[k].wanted = (titles[k].root # r /\ titles[k].wanted)
    BY <1>1, <1>7, UnwantEffect
  <2>2. titles[i].root = r
    BY <2>1
  <2>3. \A k \in Group(i) : ~titles'[k].wanted
    BY <2>1, <2>2 DEF Group, Live
  <2> QED
    BY <1>7, <2>3 DEF Unwant
<1>8. ASSUME NEW r \in Rules, Restart(r)
      PROVE  goal
  <2>1. titles'[i].wanted = titles[i].wanted
    BY <1>1, <1>8, RestartEffect
  <2> QED
    BY <1>2, <2>1
<1>9. CASE \/ \E f \in Files : Drop(f)
           \/ \E t \in queue, ram \in BOOLEAN : StartImport(t, ram)
           \/ Reject \/ FinishImport \/ StartRecompute \/ Pause \/ Resume
           \/ \E e \in Dats : BindDat(e)
           \/ QueueRemoval
           \/ \E p \in Preferences : SavePrefs(p)
           \/ ApplyPrefs \/ QueuePrefs \/ Leave
  <2>1. UNCHANGED titles
    BY <1>9 DEF Drop, StartImport, Reject, FinishImport, StartRecompute, Pause, Resume, BindDat,
       QueueRemoval, SavePrefs, ApplyPrefs, QueuePrefs, Leave, tables
  <2> QED
    BY <1>2, <2>1
<1> QED
  BY <1>3, <1>4, <1>5, <1>6, <1>7, <1>8, <1>9 DEF Next

\* A title keeps its row while its family lists its name, and stays wanted until the user says
\* otherwise or removes its DAT (put_title, upsert_title; titles/mod.rs:251, 361).
THEOREM WantsStay == Spec => KeepsWants
<1>1. NamesInv /\ [Next]_vars => [\A i \in Live(titles) : KeepsRow(i)]_vars
  <2> SUFFICES ASSUME NamesInv, Next, NEW i \in Live(titles)
               PROVE  KeepsRow(i)
    OBVIOUS
  <2>1. i \in DOMAIN titles
    BY DEF Live
  <2>2. SameNames /\ OneName' /\ (rule' = 1 => rule = 1)
    BY NamesStep
  <2>3. ASSUME rule' = 1, ~titles'[i].live, NEW k \in Live(titles'),
               NameOf(titles'[k]) = NameOf(titles[i]), Fam(titles'[k].dat) = Fam(titles[i].dat)
        PROVE  FALSE
    <3>1. k \in DOMAIN titles' /\ titles'[k].live
      BY DEF Live
    <3>2. i \in DOMAIN titles' /\ NameOf(titles'[i]) = NameOf(titles[i]) /\ Fam(titles'[i].dat) = Fam(titles[i].dat)
      BY <2>1, <2>2 DEF SameNames
    <3>3. \A d : Fam(d)' = Fam(d)
      BY <2>2, <2>3 DEF Fam
    <3>4. i = k
      BY <2>2, <2>3, <3>1, <3>2, <3>3 DEF OneName, NameOf
    <3> QED
      BY <2>3, <3>1, <3>4
  <2>4. titles[i].wanted /\ ~titles'[i].wanted =>
           dats'[titles[i].dat].retired \/ (UNCHANGED dats /\ \A k \in Group(i) : ~titles'[k].wanted)
    BY <2>1, WantsStep
  <2> QED
    BY <2>3, <2>4 DEF KeepsRow
<1> QED
  BY <1>1, NamesHold, PTL DEF Spec, KeepsWants, KeepsRow

-----------------------------------------------------------------------------
(* Groups *)

\* The rows of title i's roms in the other current versions, and those of them in the largest.
Kin(ts, vs, i)     == Twins(ts, Current(vs) \ {ts[i].dat}, i)
MainKin(ts, vs, i) == {k \in Kin(ts, vs, i) : ts[k].dat = Largest(vs)}
\* What GroupsHold says of the tables, and that roots are rows.
GroupsOK(ts, vs) ==
    \A i \in Live(ts) :
        /\ ts[i].root \in DOMAIN ts
        /\ ts[ts[i].parent].parent = ts[i].parent => ts[ts[i].root].root = ts[i].root
        /\ \A k \in Live(ts) :
              (ts[k].dat = ts[i].dat /\ Kin(ts, vs, i) = {} /\ Kin(ts, vs, k) = {}) =>
                  (ts[k].root = ts[i].root <=> ts[k].parent = ts[i].parent)
        /\ MainKin(ts, vs, i) # {} => \E k \in MainKin(ts, vs, i) : ts[k].root = ts[i].root

LEMMA GroupsHoldIs == (Quiet /\ ~missed => GroupsOK(titles, dats)) => GroupsHold
BY DEF GroupsHold, GroupsOK, Kin, MainKin

\* Rows have one root exactly when they have one target, and the root is one of them.
LEMMA RootsOfTargets ==
    ASSUME NEW ts \in Titles, NEW target \in [DOMAIN ts -> DOMAIN ts]
    PROVE  LET roots == Rerooted(ts, target)
           IN  \A i \in DOMAIN ts :
                  /\ roots[i] \in DOMAIN ts /\ roots[roots[i]] = roots[i]
                  /\ \A k \in DOMAIN ts : roots[i] = roots[k] <=> target[i] = target[k]
<1> DEFINE left(r) == {i \in DOMAIN ts : i # r /\ target[i] = r}
           heir(r) == IF left(r) \cap Live(ts) # {} THEN Least(left(r) \cap Live(ts)) ELSE Least(left(r))
           rootOf(r) == IF target[r] = r THEN r ELSE heir(r)
           roots == Rerooted(ts, target)
<1>1. roots = [i \in DOMAIN ts |->
                  IF target[i] # i /\ target[target[i]] # target[i] THEN heir(target[i]) ELSE target[i]]
  BY DEF Rerooted
<1>2. DOMAIN ts \subseteq Nat
  BY DomainFinite
<1>3. ASSUME NEW i \in DOMAIN ts
      PROVE  rootOf(target[i]) \in DOMAIN ts /\ target[rootOf(target[i])] = target[i]
  <2> DEFINE r == target[i]
  <2>1. CASE target[r] = r
    BY <2>1
  <2>2. CASE target[r] # r
    <3>1. i \in left(r)
      BY <2>2
    <3>2. left(r) \subseteq Nat /\ left(r) \cap Live(ts) \subseteq Nat
      BY <1>2
    <3> HIDE DEF left, r
    <3>3. heir(r) \in left(r)
      <4>1. Least(left(r)) \in left(r)
        BY <3>1, <3>2, LeastIn
      <4>2. left(r) \cap Live(ts) # {} => Least(left(r) \cap Live(ts)) \in left(r) \cap Live(ts)
        BY <3>2, LeastIn
      <4> QED
        BY <4>1, <4>2
    <3> HIDE DEF heir
    <3>4. rootOf(r) \in left(r)
      BY <2>2, <3>3
    <3> HIDE DEF rootOf
    <3>5. rootOf(r) \in DOMAIN ts /\ target[rootOf(r)] = r
      BY <3>4 DEF left
    <3> QED
      BY <3>5 DEF r
  <2> QED
    BY <2>1, <2>2
<1>4. \A i \in DOMAIN ts : roots[i] = rootOf(target[i])
  BY <1>1
<1> HIDE DEF roots, rootOf
<1>5. \A i \in DOMAIN ts : roots[i] \in DOMAIN ts /\ target[roots[i]] = target[i]
  BY <1>3, <1>4
<1>6. \A i \in DOMAIN ts : roots[roots[i]] = roots[i]
  BY <1>4, <1>5
<1>7. \A i, k \in DOMAIN ts : roots[i] = roots[k] <=> target[i] = target[k]
  BY <1>4, <1>5
<1> QED
  BY <1>5, <1>6, <1>7 DEF roots

\* A title no other DAT lists goes with its parent; one the largest lists goes with its twin there.
LEMMA TargetsLink ==
    ASSUME NEW ts \in Titles, NEW vs \in Versions, NEW parents,
           \A i \in Live(ts) : ts[i].dat \in Current(vs)
    PROVE  LET target == Targets(ts, vs, parents)
           IN  \A i \in Live(ts) :
                  /\ Kin(ts, vs, i) = {} => target[i] = parents[i]
                  /\ MainKin(ts, vs, i) # {} => \E k \in MainKin(ts, vs, i) : target[i] = target[k]
<1> DEFINE main == Largest(vs)
           rest == Current(vs) \ {main}
           among(i)  == {ts[k].dat : k \in Twins(ts, rest, i)}
           anchor(i) == IF Twins(ts, {main}, i) # {} THEN Twins(ts, {main}, i)
                        ELSE Twins(ts, {Earliest(vs, among(i))}, i)
           links(i)  == /\ ts[i].live /\ ts[i].dat \in rest /\ Game[ts[i].game].sum # None
                        /\ (Twins(ts, {main}, i) # {} \/ ts[i].dat # Earliest(vs, among(i)))
           target == Targets(ts, vs, parents)
<1>1. target = [i \in DOMAIN ts |-> IF links(i) THEN parents[Least(anchor(i))] ELSE parents[i]]
  BY DEF Targets
<1>2. Live(ts) \subseteq DOMAIN ts /\ DOMAIN ts \subseteq Nat
  BY DomainFinite DEF Live
<1>3. ASSUME NEW i \in Live(ts), Kin(ts, vs, i) = {}, links(i)
      PROVE  FALSE
  <2>1. Twins(ts, {main}, i) = {}
    BY <1>3 DEF Kin, Twins
  <2>2. \A k \in Twins(ts, rest, i) : ts[k].dat = ts[i].dat
    BY <1>3 DEF Kin, Twins
  <2>3. i \in Twins(ts, rest, i)
    BY <1>3 DEF Twins
  <2>4. among(i) = {ts[i].dat}
    BY <2>2, <2>3
  <2>5. among(i) \subseteq Current(vs) /\ among(i) # {}
    BY <1>3, <2>4
  <2>6. Earliest(vs, among(i)) \in among(i)
    BY <2>5, EarliestIn
  <2> QED
    BY <1>3, <2>1, <2>4, <2>6
<1>4. ASSUME NEW i \in Live(ts), MainKin(ts, vs, i) # {}
      PROVE  \E k \in MainKin(ts, vs, i) : target[i] = target[k]
  <2>1. PICK j \in Live(ts) : /\ ts[j].dat = main /\ ts[j].dat # ts[i].dat
                              /\ Game[ts[i].game].sum # None /\ Game[ts[j].game].sum = Game[ts[i].game].sum
    BY <1>4 DEF MainKin, Kin, Twins
  <2>2. Twins(ts, {main}, i) = MainKin(ts, vs, i)
    BY <2>1 DEF MainKin, Kin, Twins
  <2>3. links(i) /\ anchor(i) = MainKin(ts, vs, i)
    BY <1>4, <2>1, <2>2 DEF Live
  <2>4. MainKin(ts, vs, i) \subseteq Nat
    BY <1>2 DEF MainKin, Kin, Twins
  <2> DEFINE k == Least(MainKin(ts, vs, i))
  <2>5. k \in MainKin(ts, vs, i)
    BY <1>4, <2>4, LeastIn
  <2>6. k \in DOMAIN ts /\ ts[k].dat = main
    BY <1>2, <2>5 DEF MainKin, Kin, Twins
  <2>7. ~links(k)
    BY <2>6
  <2>8. target[k] = parents[k]
    BY <1>1, <2>6, <2>7
  <2>9. target[i] = parents[k]
    BY <1>1, <1>2, <2>3
  <2> HIDE DEF k
  <2> QED
    BY <2>5, <2>8, <2>9
<1> HIDE DEF links, anchor
<1>5. \A i \in Live(ts) : Kin(ts, vs, i) = {} => target[i] = parents[i]
  BY <1>1, <1>2, <1>3
<1> QED
  BY <1>4, <1>5

\* What the recompute leaves of the groups is right.
LEMMA RecomputedGroups ==
    ASSUME NEW ts \in Titles, NEW vs \in Versions, NEW p, ParentsIn(ts), IsFiniteSet(Current(vs)),
           \A i \in Live(ts) : ts[i].dat \in Current(vs)
    PROVE  GroupsOK(Recomputed(ts, vs, p), vs) /\ ParentsIn(Recomputed(ts, vs, p))
<1> DEFINE us == Recomputed(ts, vs, p)
           parents == Parents(ts)
           target == Targets(ts, vs, parents)
           roots == Roots(ts, vs, parents)
           alone == Cardinality(Current(vs)) <= 1
<1>1. parents \in [DOMAIN ts -> DOMAIN ts]
  BY ParentsType
<1>2. target \in [DOMAIN ts -> DOMAIN ts]
  BY <1>1, TargetsType
<1>3. roots = IF alone THEN parents ELSE Rerooted(ts, target)
  BY DEF Roots
<1>4. /\ SameRows(ts, us)
      /\ \A i \in DOMAIN ts : us[i].parent = parents[i] /\ us[i].root = roots[i]
  BY RecomputedRows
<1>5. \A i \in Live(ts) :
         /\ Kin(ts, vs, i) = {} => target[i] = parents[i]
         /\ MainKin(ts, vs, i) # {} => \E k \in MainKin(ts, vs, i) : target[i] = target[k]
  BY TargetsLink
<1>6. ASSUME ~alone
      PROVE  \A i \in DOMAIN ts :
                /\ roots[i] \in DOMAIN ts /\ roots[roots[i]] = roots[i]
                /\ \A k \in DOMAIN ts : roots[i] = roots[k] <=> target[i] = target[k]
  <2> DEFINE new == Rerooted(ts, target)
  <2> HIDE DEF target
  <2>1. \A i \in DOMAIN ts :
           /\ new[i] \in DOMAIN ts /\ new[new[i]] = new[i]
           /\ \A k \in DOMAIN ts : new[i] = new[k] <=> target[i] = target[k]
    BY <1>2, RootsOfTargets
  <2> QED
    BY <1>3, <1>6, <2>1
<1>7. ASSUME alone, NEW i \in Live(ts)
      PROVE  Kin(ts, vs, i) = {}
  <2> SUFFICES ASSUME NEW k \in Kin(ts, vs, i)
               PROVE  FALSE
    OBVIOUS
  <2> DEFINE pair == {ts[i].dat, ts[k].dat}
  <2>1. ts[i].dat \in Current(vs) /\ ts[k].dat \in Current(vs) /\ ts[k].dat # ts[i].dat
    BY DEF Kin, Twins
  <2>2. Cardinality(pair) = 2
    <3>1. pair = {ts[i].dat} \cup {ts[k].dat}
      OBVIOUS
    <3>2. IsFiniteSet({ts[i].dat}) /\ Cardinality({ts[i].dat}) = 1 /\ ts[k].dat \notin {ts[i].dat}
      BY <2>1, FS_Singleton
    <3>3. Cardinality({ts[i].dat} \cup {ts[k].dat}) = Cardinality({ts[i].dat}) + 1
      BY <3>2, FS_AddElement
    <3> QED
      BY <3>1, <3>2, <3>3
  <2>3. Cardinality(pair) <= Cardinality(Current(vs))
    BY <2>1, FS_Subset
  <2>4. Cardinality(Current(vs)) \in Nat
    BY FS_CardinalityType
  <2> QED
    BY <1>7, <2>2, <2>3, <2>4
<1> HIDE DEF us, parents, target, roots, alone
<1>8. Live(us) = Live(ts) /\ Live(ts) \subseteq DOMAIN ts
  BY <1>4 DEF Live, SameRows
<1>9. \A i \in Live(ts) : Kin(us, vs, i) = Kin(ts, vs, i) /\ MainKin(us, vs, i) = MainKin(ts, vs, i)
  BY <1>4, <1>8 DEF Kin, MainKin, Twins, SameRows
<1>10. \A i \in Live(ts) : MainKin(ts, vs, i) \subseteq DOMAIN ts /\ MainKin(ts, vs, i) \subseteq Kin(ts, vs, i)
  BY <1>8 DEF MainKin, Kin, Twins
<1>11. ASSUME NEW i \in Live(us), us[us[i].parent].parent = us[i].parent
       PROVE  us[us[i].root].root = us[i].root
  <2>1. i \in DOMAIN ts /\ parents[i] \in DOMAIN ts
    BY <1>1, <1>8
  <2>2. CASE alone
    BY <1>3, <1>4, <1>11, <2>1, <2>2
  <2>3. CASE ~alone
    BY <1>4, <1>6, <2>1, <2>3
  <2> QED
    BY <2>2, <2>3
<1>12. ASSUME NEW i \in Live(us), NEW k \in Live(us), Kin(us, vs, i) = {}, Kin(us, vs, k) = {}
       PROVE  us[k].root = us[i].root <=> us[k].parent = us[i].parent
  <2>1. i \in DOMAIN ts /\ k \in DOMAIN ts
    BY <1>8
  <2>2. CASE alone
    BY <1>3, <1>4, <2>1, <2>2
  <2>3. CASE ~alone
    <3>1. target[i] = parents[i] /\ target[k] = parents[k]
      BY <1>5, <1>8, <1>9, <1>12
    <3>2. roots[k] = roots[i] <=> target[k] = target[i]
      BY <1>6, <2>1, <2>3
    <3> QED
      BY <1>4, <2>1, <3>1, <3>2
  <2> QED
    BY <2>2, <2>3
<1>13. ASSUME NEW i \in Live(us), MainKin(us, vs, i) # {}
       PROVE  \E k \in MainKin(us, vs, i) : us[k].root = us[i].root
  <2>1. i \in Live(ts) /\ MainKin(ts, vs, i) # {} /\ i \in DOMAIN ts
    BY <1>8, <1>9, <1>13
  <2>2. ~alone
    BY <1>7, <1>10, <2>1
  <2>3. PICK k \in MainKin(ts, vs, i) : target[i] = target[k]
    BY <1>5, <2>1
  <2>4. k \in DOMAIN ts
    BY <1>10, <2>1
  <2>5. us[k].root = us[i].root
    BY <1>4, <1>6, <2>1, <2>2, <2>3, <2>4
  <2> QED
    BY <1>9, <2>1, <2>5
<1>16. \A i \in Live(us) : us[i].root \in DOMAIN us
  <2> SUFFICES ASSUME NEW i \in DOMAIN ts
               PROVE  roots[i] \in DOMAIN ts
    BY <1>4, <1>8 DEF SameRows
  <2> QED
    BY <1>1, <1>3, <1>6
<1>14. GroupsOK(us, vs)
  BY <1>11, <1>12, <1>13, <1>16 DEF GroupsOK
<1>15. ParentsIn(us)
  BY <1>1, <1>4 DEF ParentsIn, SameRows
<1> QED
  BY <1>14, <1>15 DEF us

\* Versions have numbers of their own.
NumbersOnce ==
    /\ \A d \in Known : dats[d].number <= Cardinality(Known)
    /\ \A d, e \in Known : dats[d].number = dats[e].number => d = e

IsLargest(vs, d) ==
    /\ d \in Current(vs)
    /\ \A e \in Current(vs) :
          vs[d].count > vs[e].count \/ (vs[d].count = vs[e].count /\ vs[d].number <= vs[e].number)

LEMMA LargestIs ==
    ASSUME NEW vs \in Versions, IsFiniteSet(Current(vs)), Current(vs) # {}
    PROVE  IsLargest(vs, Largest(vs))
<1> DEFINE S == Current(vs)
           R == {x \in S \X S : vs[x[2]].count > vs[x[1]].count
                                \/ (vs[x[2]].count = vs[x[1]].count /\ vs[x[2]].number <= vs[x[1]].number)}
<1>1. \A d \in S : vs[d].count \in Nat /\ vs[d].number \in Nat
  BY VersionType DEF Current, IsLive
<1>2. \A d, e \in S : <<e, d>> \in R <=> \/ vs[d].count > vs[e].count
                                         \/ vs[d].count = vs[e].count /\ vs[d].number <= vs[e].number
  OBVIOUS
<1> HIDE DEF R, S
<1>3. ASSUME NEW d \in S, NEW e \in S
      PROVE  <<d, e>> \in R \/ <<e, d>> \in R
  <2>1. /\ vs[d].count \in Nat /\ vs[d].number \in Nat
        /\ vs[e].count \in Nat /\ vs[e].number \in Nat
    BY <1>1
  <2> QED
    BY <1>2, <2>1
<1>4. ASSUME NEW d \in S, NEW e \in S, NEW g \in S, <<d, e>> \in R, <<e, g>> \in R
      PROVE  <<d, g>> \in R
  <2>1. /\ vs[d].count \in Nat /\ vs[d].number \in Nat
        /\ vs[e].count \in Nat /\ vs[e].number \in Nat
        /\ vs[g].count \in Nat /\ vs[g].number \in Nat
    BY <1>1
  <2>2. \/ vs[e].count > vs[d].count
        \/ vs[e].count = vs[d].count /\ vs[e].number <= vs[d].number
    BY <1>2, <1>4
  <2>3. \/ vs[g].count > vs[e].count
        \/ vs[g].count = vs[e].count /\ vs[g].number <= vs[e].number
    BY <1>2, <1>4
  <2>4. \/ vs[g].count > vs[d].count
        \/ vs[g].count = vs[d].count /\ vs[g].number <= vs[d].number
    BY <2>1, <2>2, <2>3
  <2> QED
    BY <1>2, <2>4
<1>5. \E d \in S : \A e \in S : <<e, d>> \in R
  BY <1>3, <1>4, LastIn DEF S
<1>6. \E d \in Current(vs) : IsLargest(vs, d)
  BY <1>2, <1>5 DEF IsLargest, S
<1> QED
  BY <1>6 DEF Largest, IsLargest

LEMMA LargestOne ==
    ASSUME NEW vs \in Versions, \A d, e \in Current(vs) : vs[d].number = vs[e].number => d = e,
           NEW d, IsLargest(vs, d), NEW e, IsLargest(vs, e)
    PROVE  d = e
<1>1. d \in Current(vs) /\ e \in Current(vs)
  BY DEF IsLargest
<1>2. /\ vs[d].count \in Nat /\ vs[d].number \in Nat
      /\ vs[e].count \in Nat /\ vs[e].number \in Nat
  BY <1>1, VersionType DEF Current, IsLive
<1>3. vs[d].number = vs[e].number
  BY <1>1, <1>2 DEF IsLargest
<1> QED
  BY <1>1, <1>3

\* The same rows, with the same parents and groups.
SameGroups(ts, us) ==
    SameRows(ts, us) /\ \A i \in DOMAIN ts : us[i].parent = ts[i].parent /\ us[i].root = ts[i].root

\* Versions that come to list nothing leave the groups right.
LEMMA GroupsSame ==
    ASSUME NEW ts \in Titles, NEW us \in Titles, SameGroups(ts, us), ParentsIn(ts),
           NEW vs \in Versions, NEW ws \in Versions, IsFiniteSet(Current(ws)),
           Current(vs) \subseteq Current(ws),
           \A d \in Current(vs) : ws[d].count = vs[d].count /\ ws[d].number = vs[d].number,
           \A d, e \in Current(ws) : ws[d].number = ws[e].number => d = e,
           \A i \in Live(ts) : ts[i].dat \in Current(vs),
           GroupsOK(ts, vs)
    PROVE  GroupsOK(us, ws)
<1>1. Live(us) = Live(ts) /\ Live(ts) \subseteq DOMAIN ts
  BY DEF Live, SameRows, SameGroups
<1>2. \A i \in DOMAIN ts : /\ us[i].dat = ts[i].dat /\ us[i].game = ts[i].game
                           /\ us[i].parent = ts[i].parent /\ us[i].root = ts[i].root
  BY DEF SameRows, SameGroups
<1>3. \A i \in Live(ts) : Kin(us, ws, i) = Kin(ts, vs, i)
  BY <1>1, <1>2 DEF Kin, Twins
<1>4. IsFiniteSet(Current(vs))
  BY FS_Subset
<1>5. ASSUME NEW i \in Live(ts)
      PROVE  MainKin(us, ws, i) = {} \/ MainKin(us, ws, i) = MainKin(ts, vs, i)
  <2> SUFFICES ASSUME NEW j \in MainKin(us, ws, i)
               PROVE  Largest(ws) = Largest(vs)
    BY <1>1, <1>2, <1>3 DEF MainKin, Kin, Twins
  <2>1. Largest(ws) \in Current(vs)
    BY <1>1, <1>2, <1>3 DEF MainKin, Kin, Twins
  <2>2. IsLargest(ws, Largest(ws)) /\ IsLargest(vs, Largest(vs))
    BY <1>4, <2>1, LargestIs
  <2>3. IsLargest(vs, Largest(ws))
    <3> DEFINE d == Largest(ws)
    <3>1. d \in Current(vs) /\ IsLargest(ws, d)
      BY <2>1, <2>2
    <3> HIDE DEF d
    <3>2. IsLargest(vs, d)
      BY <3>1 DEF IsLargest
    <3> QED
      BY <3>2 DEF d
  <2>4. \A d, e \in Current(vs) : vs[d].number = vs[e].number => d = e
    OBVIOUS
  <2> DEFINE d == Largest(ws)
             e == Largest(vs)
  <2>5. IsLargest(vs, d) /\ IsLargest(vs, e)
    BY <2>2, <2>3
  <2> HIDE DEF d, e
  <2>6. d = e
    BY <2>4, <2>5, LargestOne
  <2> QED
    BY <2>6 DEF d, e
<1>6. ASSUME NEW i \in Live(us), us[us[i].parent].parent = us[i].parent
      PROVE  us[us[i].root].root = us[i].root
  <2>1. i \in DOMAIN ts /\ ts[i].parent \in DOMAIN ts /\ ts[i].root \in DOMAIN ts
    BY <1>1 DEF GroupsOK, ParentsIn
  <2>2. ts[ts[i].parent].parent = ts[i].parent
    BY <1>2, <1>6, <2>1
  <2>3. ts[ts[i].root].root = ts[i].root
    BY <1>1, <2>2 DEF GroupsOK
  <2> QED
    BY <1>2, <2>1, <2>3
<1>7. ASSUME NEW i \in Live(us), NEW k \in Live(us), us[k].dat = us[i].dat, Kin(us, ws, i) = {}, Kin(us, ws, k) = {}
      PROVE  us[k].root = us[i].root <=> us[k].parent = us[i].parent
  <2>1. i \in Live(ts) /\ k \in Live(ts) /\ ts[k].dat = ts[i].dat /\ Kin(ts, vs, i) = {} /\ Kin(ts, vs, k) = {}
    BY <1>1, <1>2, <1>3, <1>7
  <2>2. ts[k].root = ts[i].root <=> ts[k].parent = ts[i].parent
    BY <2>1 DEF GroupsOK
  <2> QED
    BY <1>1, <1>2, <2>1, <2>2
<1>8. ASSUME NEW i \in Live(us), MainKin(us, ws, i) # {}
      PROVE  \E k \in MainKin(us, ws, i) : us[k].root = us[i].root
  <2>1. i \in Live(ts) /\ MainKin(us, ws, i) = MainKin(ts, vs, i)
    BY <1>1, <1>5, <1>8
  <2>2. PICK k \in MainKin(ts, vs, i) : ts[k].root = ts[i].root
    BY <1>8, <2>1 DEF GroupsOK
  <2>3. k \in DOMAIN ts /\ i \in DOMAIN ts
    BY <1>1, <2>1 DEF MainKin, Kin, Twins
  <2>4. us[k].root = us[i].root
    BY <1>2, <2>2, <2>3
  <2> QED
    BY <2>1, <2>4
<1>9. \A i \in Live(us) : us[i].root \in DOMAIN us
  BY <1>1, <1>2 DEF GroupsOK, SameGroups, SameRows
<1> QED
  BY <1>6, <1>7, <1>8, <1>9 DEF GroupsOK

\* A recompute is still to come.
GroupsOwed ==
    Recompute \in queue \/ removal \/ missed \/ (job # None /\ job.task = Recompute)
GroupsDue == ParentsIn(titles) /\ NumbersOnce /\ (GroupsOwed \/ GroupsOK(titles, dats))
GroupsInv == ListInv /\ GroupsDue

LEMMA CurrentFinite ==
    ASSUME LoadsOrdered
    PROVE  IsFiniteSet(Current(dats))
<1>1. Current(dats) \subseteq Known
  BY DEF Current, IsLive, Known
<1> QED
  BY <1>1, FS_Subset DEF LoadsOrdered

LEMMA CurrentFiniteNext ==
    ASSUME LoadsOrdered'
    PROVE  IsFiniteSet(Current(dats'))
<1>1. Current(dats') \subseteq Known'
  BY DEF Current, IsLive, Known
<1>2. IsFiniteSet(Known')
  BY DEF LoadsOrdered
<1> QED
  BY <1>1, <1>2, FS_Subset

LEMMA GroupsInit == Init => GroupsInv
<1> SUFFICES ASSUME Init PROVE GroupsInv
  OBVIOUS
<1>1. ListInv
  BY ListInit
<1>2. DOMAIN titles = {} /\ Live(titles) = {} /\ Known = {}
  BY DEF Init, Live, Known
<1> QED
  BY <1>1, <1>2 DEF GroupsInv, GroupsDue, ParentsIn, NumbersOnce, GroupsOK

\* A step that leaves the tables and every follow-up as they are.
LEMMA KeepsGroups ==
    ASSUME GroupsInv, UNCHANGED <<titles, dats>>, GroupsOwed => GroupsOwed'
    PROVE  GroupsDue'
<1>1. Known' = Known
  BY DEF Known
<1> QED
  BY <1>1 DEF GroupsInv, GroupsDue, ParentsIn, NumbersOnce

LEMMA SameGroupsParents ==
    ASSUME ParentsIn(titles), SameGroups(titles, titles')
    PROVE  ParentsIn(titles)'
BY DEF ParentsIn, SameGroups, SameRows

LEMMA StopNumbers ==
    ASSUME NumbersOnce, NEW D, StopOf(D)
    PROVE  NumbersOnce'
<1>1. Known' = Known /\ \A d \in Known : dats'[d].number = dats[d].number
  BY DEF StopOf
<1>2. \A d \in Known : dats'[d].number <= Cardinality(Known)
  BY <1>1 DEF NumbersOnce
<1> QED
  BY <1>1, <1>2 DEF NumbersOnce

\* Versions that were not current stop, and with them no live title.
LEMMA StopGroups ==
    ASSUME GroupsInv, ListInv', NEW D, StopOf(D), EndOf(titles, titles', D),
           \A d \in D : d \notin Current(dats), GroupsOwed => GroupsOwed'
    PROVE  GroupsDue'
<1>1. /\ titles \in Titles /\ dats \in Versions /\ titles' \in Titles /\ dats' \in Versions
      /\ LiveListed /\ ParentsIn(titles) /\ NumbersOnce /\ LoadsOrdered'
  <2>1. TypeOK /\ TypeOK' /\ LiveListed /\ LoadsOrdered'
    BY DEF GroupsInv, ListInv, Base, Lists
  <2>2. titles' \in Titles /\ dats' \in Versions
    BY <2>1 DEF TypeOK, Titles, Versions
  <2> QED
    BY <2>1, <2>2, TypeFacts DEF GroupsInv, GroupsDue
<1>2. SameGroups(titles, titles')
  <2>1. \A i \in DOMAIN titles : titles[i].dat \in D => ~titles[i].live
    BY <1>1 DEF LiveListed, Live
  <2>2. \A i \in DOMAIN titles : titles[i].live \in BOOLEAN /\ titles'[i].live \in BOOLEAN
    BY <1>1, RowType DEF EndOf
  <2>3. \A i \in DOMAIN titles : titles'[i].live = titles[i].live
    BY <2>1, <2>2 DEF EndOf
  <2> QED
    BY <2>3 DEF SameGroups, SameRows, EndOf
<1>3. ParentsIn(titles)' /\ NumbersOnce'
  BY <1>1, <1>2, SameGroupsParents, StopNumbers
<1>4. ASSUME GroupsOK(titles, dats)
      PROVE  GroupsOK(titles', dats')
  <2>1. ASSUME NEW d \in Current(dats)
        PROVE  d \in Current(dats') /\ dats'[d] = dats[d]
    <3>1. d \in Known /\ d \notin D
      BY CurrentIs DEF Known
    <3>2. dats'[d] = dats[d]
      BY <3>1 DEF StopOf
    <3> QED
      BY <3>2, CurrentIs
  <2>2. IsFiniteSet(Current(dats'))
    BY <1>1, CurrentFiniteNext
  <2>3. \A d, e \in Current(dats') : dats'[d].number = dats'[e].number => d = e
    <3>1. Current(dats') \subseteq Known'
      BY DEF Current, IsLive, Known
    <3> QED
      BY <1>3, <3>1 DEF NumbersOnce
  <2>4. \A i \in Live(titles) : titles[i].dat \in Current(dats)
    BY <1>1 DEF LiveListed
  <2> QED
    BY <1>1, <1>2, <1>4, <2>1, <2>2, <2>3, <2>4, GroupsSame
<1> QED
  BY <1>3, <1>4 DEF GroupsInv, GroupsDue

\* A recompute of the tables leaves the groups right.
LEMMA PickGroups ==
    ASSUME ListInv', NumbersOnce', NEW ts \in Titles, ParentsIn(ts), NEW p,
           titles' = Recomputed(ts, dats', p), SameRows(ts, titles')
    PROVE  GroupsDue'
<1>1. dats' \in Versions /\ LiveListed' /\ LoadsOrdered'
  <2>1. TypeOK' /\ LiveListed' /\ LoadsOrdered'
    BY DEF ListInv, Base, Lists
  <2> QED
    BY <2>1 DEF TypeOK, Versions
<1>2. IsFiniteSet(Current(dats'))
  BY <1>1, CurrentFiniteNext
<1>3. \A i \in Live(ts) : ts[i].dat \in Current(dats')
  BY <1>1 DEF LiveListed, Live, SameRows
<1>4. GroupsOK(titles', dats') /\ ParentsIn(titles')
  BY <1>1, <1>2, <1>3, RecomputedGroups
<1> QED
  BY <1>4 DEF GroupsDue, ParentsIn

LEMMA StoredNumbers ==
    ASSUME Base, NumbersOnce, job # None, job.at = "decided", Stores
    PROVE  /\ NumbersOnce'
           /\ \A e \in Known \ {Storing} : dats'[e].number = dats[e].number /\ dats'[e].count = dats[e].count
<1> DEFINE d == Storing
<1>1. /\ d \in Dats /\ dats \in Versions /\ Known' = Known \cup {d}
      /\ \A e \in Dats \ {d} : dats'[e] = UpsertedOther(d, StoreIsBound, StoreIsCurrent, e)
  BY StoringFacts, TypeFacts, StoredVersions DEF Base
<1>2. ASSUME NEW e \in Known \ {d}
      PROVE  dats'[e].number = dats[e].number /\ dats'[e].count = dats[e].count
  <2>1. e \in Dats /\ dats[e] # None
    BY DEF Known
  <2>2. dats[e] \in Version
    BY <1>1, <2>1, VersionType
  <2>3. dats'[e] = dats[e] \/ dats'[e] = Superseded(dats[e], d)
    BY <1>1, <2>1 DEF UpsertedOther
  <2> QED
    BY <1>1, <2>2, <2>3, SupersededSize
<1>3. dats'[d].number = IF dats[d] # None THEN dats[d].number ELSE Cardinality(Known) + 1
  BY <1>1 DEF Stores, Upserted
<1>4. IsFiniteSet(Known) /\ Cardinality(Known) \in Nat
  BY FS_CardinalityType DEF Base, LoadsOrdered
<1>5. \A e \in Known : dats[e].number \in Nat
  BY <1>1, VersionType DEF Known
<1>6. CASE d \in Known
  <2>1. Known' = Known /\ dats[d] # None
    BY <1>1, <1>6 DEF Known
  <2>2. \A e \in Known : dats'[e].number = dats[e].number
    BY <1>2, <1>3, <2>1
  <2>3. NumbersOnce'
    BY <2>1, <2>2 DEF NumbersOnce
  <2> QED
    BY <1>2, <2>3
<1>7. CASE d \notin Known
  <2>1. dats[d] = None
    BY <1>1, <1>7 DEF Known
  <2>2. dats'[d].number = Cardinality(Known) + 1
    BY <1>3, <2>1
  <2>3. Cardinality(Known') = Cardinality(Known) + 1
    BY <1>1, <1>4, <1>7, FS_AddElement
  <2>4. \A e \in Known : dats'[e].number = dats[e].number
    BY <1>2, <1>7
  <2> HIDE DEF d
  <2>5. ASSUME NEW e \in Known
        PROVE  dats'[e].number <= Cardinality(Known) /\ dats'[e].number \in Nat
    BY <1>5, <2>4 DEF NumbersOnce
  <2>6. \A e \in Known' : dats'[e].number <= Cardinality(Known')
    BY <1>1, <1>4, <2>2, <2>3, <2>5
  <2>7. ASSUME NEW a \in Known', NEW b \in Known', dats'[a].number = dats'[b].number
        PROVE  a = b
    <3>1. CASE a \in Known /\ b \in Known
      BY <2>4, <2>7, <3>1 DEF NumbersOnce
    <3>2. CASE a \in Known /\ b = d
      BY <1>4, <2>2, <2>5, <2>7, <3>2
    <3>3. CASE a = d /\ b \in Known
      BY <1>4, <2>2, <2>5, <2>7, <3>3
    <3> QED
      BY <1>1, <2>7, <3>1, <3>2, <3>3
  <2>8. NumbersOnce'
    BY <2>6, <2>7 DEF NumbersOnce
  <2> QED
    BY <1>2, <2>8 DEF d
<1> QED
  BY <1>6, <1>7

LEMMA StoreGroups ==
    ASSUME GroupsInv, ListInv', job # None, job.at = "decided", Stores, queue' = queue, removal' = removal
    PROVE  GroupsDue'
<1>1. Base /\ LiveListed /\ ParentsIn(titles) /\ NumbersOnce /\ titles \in Titles /\ dats \in Versions
  BY TypeFacts DEF GroupsInv, GroupsDue, ListInv, Lists, Base
<1>2. NumbersOnce'
  BY <1>1, StoredNumbers
<1>3. CASE Fills
  <2>1. PICK new \in Titles : /\ ParentsIn(new) /\ SameRows(new, titles')
                              /\ titles' = Recomputed(new, dats', job.prefs)
    BY <1>1, <1>3, StoredTitles
  <2> QED
    BY <1>2, <2>1, PickGroups
<1>4. CASE ~Fills /\ job.ram /\ StoreIsBound
  <2>1. titles' = Recomputed(titles, dats', job.prefs)
    BY <1>4 DEF Stores
  <2>2. SameRows(titles, titles')
    BY <1>1, <1>4, StoredTitles
  <2> QED
    BY <1>1, <1>2, <2>1, <2>2, PickGroups
<1>5. CASE ~Fills /\ ~(job.ram /\ StoreIsBound)
  <2>1. titles' = titles /\ missed' = missed
    <3>1. missed \in BOOLEAN
      BY <1>1 DEF Base, TypeOK
    <3> QED
      BY <1>5, <3>1 DEF Stores
  <2>2. job.task # Recompute
    BY <1>1, StoringFacts
  <2>3. GroupsOwed => GroupsOwed'
    BY <2>1, <2>2 DEF GroupsOwed
  <2>4. ASSUME GroupsOK(titles, dats)
        PROVE  GroupsOK(titles', dats')
    <3>1. Storing \notin Current(dats) /\ Current(dats) \subseteq Current(dats')
      BY <1>5, UnfilledCurrent DEF GroupsInv
    <3>2. dats' \in Versions /\ LoadsOrdered'
      BY <1>1, StoredVersions, StoredLoads
    <3>3. IsFiniteSet(Current(dats'))
      BY <3>2, CurrentFiniteNext
    <3>4. \A d \in Current(dats) : dats'[d].count = dats[d].count /\ dats'[d].number = dats[d].number
      <4>1. \A d \in Current(dats) : d \in Known \ {Storing}
        BY <3>1, CurrentIs DEF Known
      <4> QED
        BY <1>1, <4>1, StoredNumbers
    <3>5. \A d, e \in Current(dats') : dats'[d].number = dats'[e].number => d = e
      <4>1. Current(dats') \subseteq Known'
        BY DEF Current, IsLive, Known
      <4> QED
        BY <1>2, <4>1 DEF NumbersOnce
    <3>6. \A i \in Live(titles) : titles[i].dat \in Current(dats)
      BY <1>1 DEF LiveListed
    <3>7. SameGroups(titles, titles)
      BY DEF SameGroups, SameRows
    <3>8. GroupsOK(titles, dats')
      BY <1>1, <2>4, <3>1, <3>2, <3>3, <3>4, <3>5, <3>6, <3>7, GroupsSame
    <3> QED
      BY <2>1, <3>8
  <2>5. ParentsIn(titles)'
    BY <1>1, <2>1 DEF ParentsIn
  <2> QED
    BY <1>2, <2>3, <2>4, <2>5 DEF GroupsInv, GroupsDue
<1> QED
  BY <1>3, <1>4, <1>5

\* A recompute that is asked for is to come.
LEMMA SubmitGroups ==
    ASSUME GroupsInv, QueueRemoval \/ QueuePrefs
    PROVE  GroupsDue'
<1>1. Submit /\ UNCHANGED <<job, titles, dats>>
  BY DEF QueueRemoval, QueuePrefs, tables
<1>2. Recompute \in queue' \/ (job # None /\ job.task = Recompute)
  BY <1>1 DEF Submit, Joins
<1>3. GroupsOwed'
  BY <1>1, <1>2 DEF GroupsOwed
<1> QED
  BY <1>1, <1>3, KeepsGroups

LEMMA WantGroups ==
    ASSUME GroupsInv, SamePicks(titles, titles'), titles' \in Titles,
           UNCHANGED <<dats, lane, removal, missed>>
    PROVE  GroupsDue'
<1>1. /\ titles \in Titles /\ dats \in Versions /\ LiveListed /\ LoadsOrdered
      /\ ParentsIn(titles) /\ NumbersOnce
  BY TypeFacts DEF GroupsInv, GroupsDue, ListInv, Lists, Base
<1>2. SameGroups(titles, titles')
  BY DEF SamePicks, SameGroups
<1>3. ParentsIn(titles)'
  BY <1>1, <1>2, SameGroupsParents
<1>4. NumbersOnce'
  BY <1>1 DEF NumbersOnce, Known
<1>5. \A d, e \in Current(dats) : dats[d].number = dats[e].number => d = e
  BY <1>1 DEF NumbersOnce, Current, IsLive, Known
<1>6. \A i \in Live(titles) : titles[i].dat \in Current(dats)
  BY <1>1 DEF LiveListed
<1>7. IsFiniteSet(Current(dats))
  BY <1>1, CurrentFinite
<1>8. GroupsOK(titles, dats) => GroupsOK(titles', dats)
  BY <1>1, <1>2, <1>5, <1>6, <1>7, GroupsSame
<1>9. GroupsOwed => GroupsOwed'
  BY DEF GroupsOwed, lane
<1> QED
  BY <1>3, <1>4, <1>8, <1>9 DEF GroupsInv, GroupsDue

LEMMA EndParents ==
    ASSUME ParentsIn(titles), NEW D, EndOf(titles, titles', D)
    PROVE  ParentsIn(titles)'
BY DEF ParentsIn, EndOf

LEMMA RemoveGroups ==
    ASSUME GroupsInv, ListInv', NEW d \in Dats, RemoveDat(d)
    PROVE  GroupsDue'
<1>1. TypeOK /\ ParentsIn(titles) /\ NumbersOnce
  BY DEF GroupsInv, GroupsDue, ListInv, Base
<1>2. EndOf(titles, titles', {d}) /\ StopOf({d})
  BY <1>1, RemoveEffect, RemoveDats
<1>3. UNCHANGED <<queue, job, missed>> /\ removal' = (removal \/ dats[d].bound)
  BY DEF RemoveDat, lane, past
<1>4. CASE dats[d].bound
  <2>1. GroupsOwed'
    BY <1>3, <1>4 DEF GroupsOwed
  <2> QED
    BY <1>1, <1>2, <2>1, EndParents, StopNumbers DEF GroupsDue
<1>5. CASE ~dats[d].bound
  <2>1. \A e \in {d} : e \notin Current(dats)
    BY <1>5, CurrentIs
  <2>2. GroupsOwed => GroupsOwed'
    BY <1>3 DEF GroupsOwed
  <2> QED
    BY <1>2, <2>1, <2>2, StopGroups
<1> QED
  BY <1>4, <1>5

LEMMA RestartGroups ==
    ASSUME GroupsInv, ListInv', NEW r \in Rules, Restart(r)
    PROVE  GroupsDue'
<1>1. Base /\ TypeOK /\ LoadsOrdered /\ ParentsIn(titles) /\ NumbersOnce
  BY DEF GroupsInv, GroupsDue, ListInv, Base
<1>2. EndOf(titles, titles', Losers(r)) /\ StopOf(Losers(r))
  BY <1>1, RestartEffect, RestartDats
<1>3. /\ \A t \in queue : t.kind # "bind" => t \in queue'
      /\ job # None /\ job.task = Recompute => Recompute \in queue'
      /\ (\E d \in Losers(r) : dats[d].bound) => Recompute \in queue'
  BY <1>1, RestartQueue
<1>4. missed' = (missed \/ change # "none" \/ removal \/ saved # prefs)
  BY DEF Restart
<1>5. GroupsOwed => GroupsOwed'
  <2>1. Recompute.kind # "bind"
    BY DEF Recompute
  <2> QED
    BY <1>3, <1>4, <2>1 DEF GroupsOwed
<1>6. CASE \E d \in Losers(r) : dats[d].bound
  <2>1. GroupsOwed'
    BY <1>3, <1>6 DEF GroupsOwed
  <2> QED
    BY <1>1, <1>2, <2>1, EndParents, StopNumbers DEF GroupsDue
<1>7. CASE ~\E d \in Losers(r) : dats[d].bound
  <2>1. \A d \in Losers(r) : d \notin Current(dats)
    BY <1>7, CurrentIs
  <2> QED
    BY <1>2, <1>5, <2>1, StopGroups
<1> QED
  BY <1>6, <1>7

LEMMA RecomputeGroups ==
    ASSUME GroupsInv, ListInv', Pick
    PROVE  GroupsDue'
<1>1. titles' = Recomputed(titles, dats', job.prefs) /\ dats' = dats
  BY DEF Pick
<1>2. titles \in Titles /\ dats \in Versions /\ ParentsIn(titles) /\ NumbersOnce
  BY TypeFacts DEF GroupsInv, GroupsDue, ListInv, Base
<1>3. SameRows(titles, titles')
  BY <1>1, <1>2, RecomputedRows
<1>4. NumbersOnce'
  BY <1>1, <1>2 DEF NumbersOnce, Known
<1> QED
  BY <1>1, <1>2, <1>3, <1>4, PickGroups

LEMMA GroupsNext == GroupsInv /\ [Next]_vars => GroupsInv'
<1> SUFFICES ASSUME GroupsInv, [Next]_vars PROVE GroupsInv'
  OBVIOUS
<1>1. ListInv /\ Base /\ TypeOK
  BY DEF GroupsInv, ListInv, Base
<1>2. ListInv'
  BY <1>1, ListNext
<1>3. CASE UNCHANGED vars
  <2>1. UNCHANGED <<titles, dats>> /\ (GroupsOwed => GroupsOwed')
    BY <1>3 DEF vars, tables, lane, past, GroupsOwed
  <2> QED
    BY <1>2, <2>1, KeepsGroups DEF GroupsInv
<1>4. ASSUME \/ \E f \in Files : Drop(f)
             \/ \E d \in Dats : BindDat(d)
             \/ \E p \in Preferences : SavePrefs(p)
             \/ ApplyPrefs \/ Leave
      PROVE  GroupsDue'
  <2>1. queue \subseteq queue' /\ (missed => missed') /\ UNCHANGED <<titles, dats, removal, job>>
    <3>1. CASE Leave
      BY <3>1 DEF Leave, tables, lane
    <3>2. CASE ApplyPrefs \/ \E p \in Preferences : SavePrefs(p)
      BY <3>2 DEF ApplyPrefs, SavePrefs, tables, lane, past
    <3>3. CASE (\E f \in Files : Drop(f)) \/ \E d \in Dats : BindDat(d)
      <4>1. queue \subseteq queue' /\ UNCHANGED <<titles, dats, removal, job, missed>>
        BY <3>3 DEF Drop, BindDat, tables, past
      <4> QED
        BY <4>1
    <3> QED
      BY <1>4, <3>1, <3>2, <3>3
  <2>2. GroupsOwed => GroupsOwed'
    BY <2>1 DEF GroupsOwed
  <2> QED
    BY <2>1, <2>2, KeepsGroups
<1>5. ASSUME Reject \/ FinishImport
      PROVE  GroupsDue'
  <2>1. job # None /\ job.task # Recompute
    BY <1>1, <1>5, JobFacts DEF Reject, FinishImport, Base, JobOK
  <2>2. queue \subseteq queue' /\ UNCHANGED <<titles, dats, removal, missed>>
    BY <1>5 DEF Reject, FinishImport, tables, past
  <2>3. GroupsOwed => GroupsOwed'
    BY <2>1, <2>2 DEF GroupsOwed
  <2> QED
    BY <2>2, <2>3, KeepsGroups
<1>6. ASSUME NEW t \in queue, NEW ram \in BOOLEAN, StartImport(t, ram)
      PROVE  GroupsDue'
  <2>1. /\ job = None /\ t # Recompute /\ queue' = queue \ {t}
        /\ UNCHANGED <<titles, dats, removal, missed>>
    BY <1>1, <1>6, StartImportJob DEF StartImport, tables, past
  <2>2. GroupsOwed => GroupsOwed'
    BY <2>1 DEF GroupsOwed
  <2> QED
    BY <2>1, <2>2, KeepsGroups
<1>7. ASSUME StartRecompute
      PROVE  GroupsDue'
  <2>1. job' # None /\ job'.task = Recompute /\ UNCHANGED <<titles, dats>>
    BY <1>1, <1>7, StartRecomputeJob DEF StartRecompute, tables
  <2>2. GroupsOwed'
    BY <2>1 DEF GroupsOwed
  <2> QED
    BY <2>1, <2>2, KeepsGroups
<1>8. ASSUME Pause \/ Resume
      PROVE  GroupsDue'
  <2>1. job # None /\ \E at \in {"running", "paused"} : job' = [job EXCEPT !.at = at]
    BY <1>8 DEF Pause, Resume
  <2>2. job' # None /\ job'.task = job.task
    BY <1>1, <2>1, JobMoves
  <2>3. UNCHANGED <<titles, dats, queue, removal, missed>>
    BY <1>8 DEF Pause, Resume, tables, past
  <2>4. GroupsOwed => GroupsOwed'
    BY <2>2, <2>3 DEF GroupsOwed
  <2> QED
    BY <2>3, <2>4, KeepsGroups
<1>9. ASSUME NEW i \in DOMAIN titles, Want(i) \/ Unwant(i)
      PROVE  GroupsDue'
  <2>1. titles' \in Titles /\ SamePicks(titles, titles')
    BY <1>1, <1>9, WantEffect, UnwantEffect
  <2>2. UNCHANGED <<dats, lane, removal, missed>>
    BY <1>9 DEF Want, Unwant, past
  <2> QED
    BY <2>1, <2>2, WantGroups
<1>10. ASSUME Store
       PROVE  GroupsDue'
  <2>1. /\ job # None /\ job.at = "decided"
        /\ UNCHANGED <<queue, removal>>
    BY <1>10, StoreStep
  <2>2. CASE job' = None /\ UNCHANGED <<tables, past>>
    <3>1. job.task # Recompute
      BY <1>1, <2>1, StoringFacts
    <3>2. UNCHANGED <<titles, dats, missed>>
      BY <2>2 DEF tables, past
    <3>3. GroupsOwed => GroupsOwed'
      BY <2>1, <3>1, <3>2 DEF GroupsOwed
    <3> QED
      BY <3>2, <3>3, KeepsGroups
  <2>3. CASE Stores
    BY <1>2, <2>1, <2>3, StoreGroups
  <2> QED
    BY <1>10, <2>2, <2>3, StoreStep
<1>11. CASE Next
  <2>1. GroupsDue'
    BY <1>2, <1>4, <1>5, <1>6, <1>7, <1>8, <1>9, <1>10, <1>11, SubmitGroups, RecomputeGroups,
       RemoveGroups, RestartGroups DEF Next
  <2> QED
    BY <1>2, <2>1 DEF GroupsInv
<1> QED
  BY <1>3, <1>11

\* Once nothing is left to do, groups are rooted in themselves, those of one DAT never merge,
\* and what the largest DAT lists too is grouped with it there (link_shared_titles, reroot;
\* recompute.rs:237-390).
THEOREM GroupsStay == Spec => []GroupsHold
<1>1. GroupsInv => GroupsHold
  <2>1. GroupsInv /\ Quiet /\ ~missed => GroupsOK(titles, dats)
    BY DEF GroupsInv, GroupsDue, Quiet, GroupsOwed
  <2> QED
    BY <2>1, GroupsHoldIs
<1> QED
  BY <1>1, GroupsInit, GroupsNext, PTL DEF Spec

-----------------------------------------------------------------------------
(***************************************************************************)
(* Fetches.                                                                *)
(*                                                                         *)
(* A DAT's file before it is loaded: what is proved of a fetch and of the   *)
(* folder its file ends in, for every set of names, contents, requests and  *)
(* fetches and every case.                                                  *)
(*                                                                         *)
(* Three invariants carry it, on top of the types.  FolderInv: a claimed    *)
(* name is empty and has one owner.  HeedInv: until a fetch places what it  *)
(* brings, that is nowhere, and one that was cancelled cannot come to place *)
(* it.  TempInv: a fetch has the files its place in the code needs.         *)
(***************************************************************************)

ImportRowType == [name : Names, state : {"queued", "running", "done", "failed", "gone"}]
OwnerType == [at : {"idle", "write", "claim", "fill", "queue", "left"},
              what : Contents \cup {Nothing}, name : Names \cup {0}, from : {"part", "rejected"}]

FilesOK  == folder \in [Names -> Held \cup {Nothing}] /\ fate \in [Contents -> {"new", "sent", "held", "gone"}]
RowsOK   == rows \in Seq(ImportRowType) /\ (import.at # "none" => import.id \in 1..Len(rows))
OwnersOK ==
    /\ owner \in [Owners -> OwnerType]
    /\ \A o \in Owners : owner[o].at \in {"fill", "queue"} => owner[o].name \in Names
    /\ \A o \in Owners : owner[o].at \in {"write", "claim", "fill"} => owner[o].what \in Contents

\* The folder, the imports and the requests keep their types.
FolderTypes == FilesOK /\ RowsOK /\ OwnersOK

-----------------------------------------------------------------------------
(* Rows *)

LEMMA RowFacts ==
    ASSUME RowsOK
    PROVE  /\ Len(rows) \in Nat /\ DOMAIN rows = 1..Len(rows) /\ rows \in [1..Len(rows) -> ImportRowType]
           /\ \A id \in 1..Len(rows) : rows[id] \in ImportRowType /\ rows[id].name \in Names
<1>1. rows \in Seq(ImportRowType)
  BY DEF RowsOK
<1>2. Len(rows) \in Nat /\ DOMAIN rows = 1..Len(rows) /\ rows \in [1..Len(rows) -> ImportRowType]
  BY <1>1
<1>3. \A id \in 1..Len(rows) : rows[id] \in ImportRowType
  BY <1>2
<1> QED BY <1>2, <1>3 DEF ImportRowType

LEMMA SetRowFacts ==
    ASSUME RowsOK, NEW id \in 1..Len(rows), NEW s \in {"queued", "running", "done", "failed"}, SetRow(id, s)
    PROVE  rows' \in Seq(ImportRowType) /\ Len(rows') = Len(rows)
<1>1. rows \in [1..Len(rows) -> ImportRowType] /\ Len(rows) \in Nat
  BY RowFacts
<1>2. rows' \in [1..Len(rows) -> ImportRowType]
  BY <1>1 DEF ImportRowType, SetRow
<1> QED BY <1>1, <1>2

LEMMA EnqueueKeeps ==
    ASSUME RowsOK, NEW n \in Names, Enqueue(n), UNCHANGED import
    PROVE  RowsOK'
<1>1. ImportRow(n, "queued") \in ImportRowType
  BY DEF ImportRow, ImportRowType
<1> QED
  BY <1>1, RowFacts DEF Enqueue, RowsOK

LEMMA EndsKeeps ==
    ASSUME RowsOK, import.at # "none", NEW s \in {"done", "failed"}, Ends(s)
    PROVE  RowsOK'
<1>1. import.id \in 1..Len(rows) /\ SetRow(import.id, s) /\ import' = NoImport
  BY DEF RowsOK, Ends
<1>2. rows' \in Seq(ImportRowType)
  BY <1>1, SetRowFacts
<1> QED
  BY <1>1, <1>2 DEF RowsOK, NoImport

LEMMA ImportRows ==
    ASSUME RowsOK, Import
    PROVE  RowsOK'
<1>1. CASE ImportStart
  <2>1. PICK id \in DOMAIN rows : SetRow(id, "running") /\ import' = [at |-> "list", id |-> id]
    BY <1>1 DEF ImportStart
  <2>2. id \in 1..Len(rows)
    BY <2>1, RowFacts
  <2>3. rows' \in Seq(ImportRowType) /\ Len(rows') = Len(rows)
    BY <2>1, <2>2, SetRowFacts
  <2> QED
    BY <2>1, <2>2, <2>3 DEF RowsOK
<1>2. CASE ImportLists
  <2>1. import.at # "none"
    BY <1>2 DEF ImportLists, Running
  <2>2. Ends("done") \/ (UNCHANGED rows /\ \E at \in {"reject", "load"} : import' = [import EXCEPT !.at = at])
    BY <1>2 DEF ImportLists
  <2>3. CASE Ends("done")
    BY <2>1, <2>3, EndsKeeps
  <2>4. CASE UNCHANGED rows /\ \E at \in {"reject", "load"} : import' = [import EXCEPT !.at = at]
    <3>1. import'.id = import.id
      BY <2>4
    <3> QED
      BY <2>1, <2>4, <3>1 DEF RowsOK
  <2> QED BY <2>2, <2>3, <2>4
<1>3. CASE ImportLoads
  <2>1. import.at # "none"
    BY <1>3 DEF ImportLoads, Running
  <2>2. CASE Ends("failed")
    BY <2>1, <2>2, EndsKeeps
  <2>3. CASE UNCHANGED rows /\ \E at \in {"reject", "move"} : import' = [import EXCEPT !.at = at]
    <3>1. import'.id = import.id
      BY <2>3
    <3> QED
      BY <2>1, <2>3, <3>1 DEF RowsOK
  <2> QED BY <1>3, <2>2, <2>3 DEF ImportLoads
<1>4. CASE ImportMoves \/ ImportRejects
  <2>1. import.at # "none" /\ \E s \in {"done", "failed"} : Ends(s)
    BY <1>4 DEF ImportMoves, ImportRejects, Moves, MoveFails, Running
  <2> QED
    BY <2>1, EndsKeeps
<1> QED
  BY <1>1, <1>2, <1>3, <1>4 DEF Import

\* A start requeues rows and drops repeats.
LEMMA StartRows ==
    ASSUME RowsOK, StartFolder, UNCHANGED import
    PROVE  RowsOK'
<1>1. Len(rows) \in Nat /\ DOMAIN rows = 1..Len(rows) /\ \A id \in 1..Len(rows) : rows[id] \in ImportRowType
  BY RowFacts
<1>2. \A id \in 1..Len(rows), s \in {"gone", "queued"} : ImportRow(rows[id].name, s) \in ImportRowType
  BY <1>1 DEF ImportRow, ImportRowType
<1>3. rows' \in [1..Len(rows) -> ImportRowType]
  BY <1>1, <1>2 DEF StartFolder
<1>4. rows' \in Seq(ImportRowType) /\ Len(rows') = Len(rows)
  BY <1>1, <1>3
<1> QED
  BY <1>4 DEF RowsOK

-----------------------------------------------------------------------------
(* Requests *)

LEMMA IdleFacts ==
    /\ Idle \in OwnerType /\ Idle.at = "idle" /\ Idle.what = Nothing
    /\ \A c \in Contents :
          /\ [at |-> "claim", what |-> c, name |-> 0, from |-> "rejected"] \in OwnerType
          /\ \A at \in {"write", "claim"} :
                /\ [Idle EXCEPT !.at = at, !.what = c] \in OwnerType
                /\ [Idle EXCEPT !.at = at, !.what = c].at = at
                /\ [Idle EXCEPT !.at = at, !.what = c].what = c
                /\ [Idle EXCEPT !.at = at, !.what = c].name = 0
BY DEF Idle, OwnerType

LEMMA StepFacts ==
    ASSUME owner \in [Owners -> OwnerType], NEW o \in Owners, NEW at \in {"claim", "left", "queue"}, Step(o, at)
    PROVE  /\ owner' \in [Owners -> OwnerType]
           /\ \A p \in Owners : /\ owner'[p].at = IF p = o THEN at ELSE owner[p].at
                                /\ owner'[p].what = owner[p].what /\ owner'[p].name = owner[p].name
<1>1. owner' \in [Owners -> OwnerType]
  BY DEF Step, OwnerType
<1>2. owner'[o].at = at /\ owner'[o].what = owner[o].what /\ owner'[o].name = owner[o].name
  BY DEF Step, OwnerType
<1>3. \A p \in Owners \ {o} : owner'[p] = owner[p]
  BY DEF Step
<1> QED BY <1>1, <1>2, <1>3

LEMMA SetOwner ==
    ASSUME OwnersOK, NEW o \in Owners, NEW w \in OwnerType, owner' = [owner EXCEPT ![o] = w],
           w.at \in {"fill", "queue"} => w.name \in Names,
           w.at \in {"write", "claim", "fill"} => w.what \in Contents
    PROVE  OwnersOK' /\ owner'[o] = w /\ \A p \in Owners \ {o} : owner'[p] = owner[p]
<1>1. /\ owner' \in [Owners -> OwnerType] /\ owner'[o] = w
      /\ \A p \in Owners \ {o} : owner'[p] = owner[p]
  BY DEF OwnersOK
<1> QED
  BY <1>1 DEF OwnersOK

LEMMA LeavesFacts ==
    ASSUME OwnersOK, NEW o \in Owners, Leaves(o)
    PROVE  OwnersOK' /\ owner'[o] = Idle /\ \A p \in Owners \ {o} : owner'[p] = owner[p]
BY IdleFacts, SetOwner DEF Leaves

-----------------------------------------------------------------------------
(* What the steps of the folder do, and that they keep its types *)

\* Steps that leave files, requests and fates alone.
LEMMA WatchKeeps ==
    ASSUME FolderTypes, WatchPolls \/ WatchQueues
    PROVE  FolderTypes' /\ UNCHANGED <<files, owner, fate, robbed, up>>
<1>1. UNCHANGED <<files, owner, fate, robbed, up, import>>
  BY DEF WatchPolls, Poll, WatchQueues
<1>2. UNCHANGED rows \/ \E n \in Names : Enqueue(n)
  BY DEF WatchPolls, Poll, WatchQueues
<1>3. RowsOK'
  BY <1>1, <1>2, EnqueueKeeps DEF FolderTypes, RowsOK
<1> QED
  BY <1>1, <1>3 DEF FolderTypes, FilesOK, OwnersOK, files

\* An import leaves the files alone, or one of them goes from the folder to loaded/ or rejected/.
Away(n) ==
    /\ folder[n] # Nothing /\ folder' = [folder EXCEPT ![n] = Nothing]
    /\ \/ loaded' = loaded \cup {folder[n]} /\ rejected' = rejected
       \/ rejected' = rejected \cup {folder[n]} /\ loaded' = loaded
    /\ robbed' = {} => robbed = {} /\ (folder[n] # Empty \/ n \notin Claims)

LEMMA ImportKeeps ==
    ASSUME FolderTypes, Import
    PROVE  /\ FolderTypes' /\ UNCHANGED <<parts, owner, fate, up>>
           /\ UNCHANGED <<folder, loaded, rejected, robbed>> \/ \E n \in Names : Away(n)
<1>1. UNCHANGED <<parts, owner, fate, up>>
  BY DEF Import, ImportStart, ImportLists, ImportLoads, ImportMoves, ImportRejects, files
<1>2. UNCHANGED <<folder, loaded, rejected, robbed>> \/ \E n \in Names : Away(n)
  <2>1. CASE ImportStart \/ ImportLists \/ ImportLoads
    BY <2>1 DEF ImportStart, ImportLists, ImportLoads, files
  <2>2. CASE ImportMoves \/ ImportRejects
    <3>1. File \in Names
      BY <2>2, RowFacts DEF FolderTypes, RowsOK, ImportMoves, ImportRejects, Running, File
    <3>2. CASE ImportMoves /\ Moves(loaded)
      BY <3>1, <3>2 DEF ImportMoves, Moves, Away
    <3>3. CASE ImportRejects /\ Moves(rejected)
      BY <3>1, <3>3 DEF ImportRejects, Moves, Away
    <3>4. CASE MoveFails /\ UNCHANGED <<loaded, rejected>>
      BY <3>4 DEF MoveFails
    <3> QED BY <2>2, <3>2, <3>3, <3>4 DEF ImportMoves, ImportRejects
  <2> QED BY <2>1, <2>2 DEF Import
<1>3. folder' \in [Names -> Held \cup {Nothing}]
  BY <1>2 DEF FolderTypes, FilesOK, Away
<1> QED
  BY <1>1, <1>2, <1>3, ImportRows DEF FolderTypes, FilesOK, OwnersOK

\* The user's changes.
LEMMA UserKeeps ==
    ASSUME FolderTypes, User
    PROVE  FolderTypes' /\ UNCHANGED <<parts, owner, up, loaded, robbed>>
<1>1. UNCHANGED <<parts, owner, up, loaded, rows, import, robbed>>
  BY DEF User, DropFile, Replace, Discard, Delete
<1>2. FilesOK'
  BY DEF FolderTypes, FilesOK, User, DropFile, Replace, Discard, Delete, Held
<1> QED
  BY <1>1, <1>2 DEF FolderTypes, RowsOK, OwnersOK

\* Placing and the requests that begin it.
LEMMA WrittenKeeps ==
    ASSUME FolderTypes, NEW o \in Owners, UploadWritten(o)
    PROVE  /\ FolderTypes' /\ UNCHANGED <<folder, loaded, rejected, fate, up, robbed>>
           /\ up /\ owner[o].at = "write" /\ owner'[o].at \in {"claim", "left", "idle"}
           /\ owner'[o].what \in {owner[o].what, Nothing}
           /\ \A p \in Owners \ {o} : owner'[p] = owner[p]
           /\ parts' \in {parts, parts \ {o}} /\ (owner'[o].at = "idle" => o \notin parts')
<1>1. UNCHANGED <<folder, loaded, rejected, fate, up, robbed, rows, import>> /\ up /\ owner[o].at = "write"
  BY DEF UploadWritten, Doing
<1>2. owner \in [Owners -> OwnerType]
  BY DEF FolderTypes, OwnersOK
<1>3. CASE (Step(o, "claim") \/ Step(o, "left")) /\ UNCHANGED parts
  <2>1. /\ owner' \in [Owners -> OwnerType]
        /\ owner'[o].at \in {"claim", "left"}
        /\ \A p \in Owners : owner'[p].what = owner[p].what /\ owner'[p].name = owner[p].name
        /\ \A p \in Owners \ {o} : owner'[p].at = owner[p].at
    BY <1>2, <1>3, StepFacts
  <2>2. \A p \in Owners \ {o} : owner'[p] = owner[p]
    BY <1>2, <1>3 DEF Step
  <2>3. owner[o].what \in Contents
    BY <1>1 DEF FolderTypes, OwnersOK
  <2> QED
    BY <1>1, <1>3, <2>1, <2>2, <2>3 DEF FolderTypes, FilesOK, RowsOK, OwnersOK
<1>4. CASE Leaves(o) /\ parts' = parts \ {o}
  BY <1>1, <1>4, IdleFacts, LeavesFacts DEF FolderTypes, FilesOK, RowsOK
<1> QED
  BY <1>3, <1>4 DEF UploadWritten

LEMMA ClaimKeeps ==
    ASSUME FolderTypes, NEW o \in Owners, Claim(o)
    PROVE  /\ FolderTypes' /\ UNCHANGED <<loaded, rejected, fate, up, robbed>>
           /\ up /\ owner[o].at = "claim" /\ \A p \in Owners \ {o} : owner'[p] = owner[p]
           /\ \/ /\ owner'[o].at = "fill" /\ owner'[o].what = owner[o].what /\ UNCHANGED parts
                 /\ \E n \in Names : /\ folder[n] = Nothing /\ folder' = [folder EXCEPT ![n] = Empty]
                                     /\ owner'[o].name = n
              \/ owner'[o] = Idle /\ parts' = parts \ {o} /\ UNCHANGED folder
<1>1. UNCHANGED <<loaded, rejected, fate, up, robbed, rows, import>> /\ up /\ owner[o].at = "claim"
  BY DEF Claim, ClaimOf, Doing
<1>2. owner \in [Owners -> OwnerType] /\ owner[o].what \in Contents
  BY <1>1 DEF FolderTypes, OwnersOK
<1>3. CASE \E n \in Free : /\ folder' = [folder EXCEPT ![n] = Empty] /\ UNCHANGED parts
                           /\ owner' = [owner EXCEPT ![o].at = "fill", ![o].name = n]
  <2>1. PICK n \in Free : /\ folder' = [folder EXCEPT ![n] = Empty] /\ UNCHANGED parts
                          /\ owner' = [owner EXCEPT ![o].at = "fill", ![o].name = n]
    BY <1>3
  <2>2. n \in Names /\ folder[n] = Nothing
    BY DEF Free
  <2>3. owner' \in [Owners -> OwnerType]
    <3>1. owner' = [owner EXCEPT ![o] = [[owner[o] EXCEPT !.at = "fill"] EXCEPT !.name = n]]
      BY <1>2, <2>1
    <3>2. [[owner[o] EXCEPT !.at = "fill"] EXCEPT !.name = n] \in OwnerType
      BY <1>2, <2>2 DEF OwnerType
    <3> QED BY <1>2, <3>1, <3>2
  <2>4. owner'[o].at = "fill" /\ owner'[o].name = n /\ owner'[o].what = owner[o].what
    BY <1>2, <2>1 DEF OwnerType
  <2>5. \A p \in Owners \ {o} : owner'[p] = owner[p]
    BY <1>2, <2>1
  <2>6. FilesOK'
    BY <1>1, <2>1, <2>2 DEF FolderTypes, FilesOK, Held
  <2>7. OwnersOK'
    BY <1>2, <2>2, <2>3, <2>4, <2>5 DEF FolderTypes, OwnersOK
  <2> QED
    BY <1>1, <2>1, <2>2, <2>4, <2>5, <2>6, <2>7 DEF FolderTypes, RowsOK
<1>4. CASE parts' = parts \ {o} /\ Leaves(o) /\ UNCHANGED folder
  BY <1>1, <1>4, LeavesFacts DEF FolderTypes, FilesOK, RowsOK
<1> QED
  BY <1>3, <1>4 DEF Claim, ClaimOf, First

\* A fill puts its content in the folder, or takes its claim back.
LEMMA FillKeeps ==
    ASSUME FolderTypes, NEW o \in Owners, Fill(o)
    PROVE  /\ FolderTypes' /\ UNCHANGED <<loaded, up, robbed>>
           /\ up /\ owner[o].at = "fill" /\ owner[o].name \in Names /\ owner[o].what \in Contents
           /\ \A p \in Owners \ {o} : owner'[p] = owner[p]
           /\ parts' = parts \ {o}
           /\ \/ /\ folder' = [folder EXCEPT ![owner[o].name] = owner[o].what]
                 /\ rejected' = rejected \ {owner[o].what} /\ fate' = [fate EXCEPT ![owner[o].what] = "held"]
                 /\ owner'[o].at = "queue" /\ owner'[o].what = owner[o].what
              \/ /\ folder' = [folder EXCEPT ![owner[o].name] = Nothing]
                 /\ UNCHANGED <<rejected, fate>> /\ owner'[o] = Idle
<1>1. UNCHANGED <<loaded, up, robbed, rows, import>> /\ parts' = parts \ {o} /\ up /\ owner[o].at = "fill"
  BY DEF Fill, Doing
<1>2. owner \in [Owners -> OwnerType] /\ owner[o].name \in Names /\ owner[o].what \in Contents
  BY <1>1 DEF FolderTypes, OwnersOK
<1>3. CASE /\ folder' = [folder EXCEPT ![owner[o].name] = owner[o].what]
           /\ rejected' = rejected \ {owner[o].what}
           /\ fate' = [fate EXCEPT ![owner[o].what] = "held"] /\ Step(o, "queue")
  <2>1. /\ owner' \in [Owners -> OwnerType] /\ owner'[o].at = "queue"
        /\ \A p \in Owners : owner'[p].what = owner[p].what /\ owner'[p].name = owner[p].name
        /\ \A p \in Owners \ {o} : owner'[p].at = owner[p].at
    BY <1>2, <1>3, StepFacts
  <2>2. \A p \in Owners \ {o} : owner'[p] = owner[p]
    BY <1>2, <1>3 DEF Step
  <2>3. FilesOK'
    BY <1>2, <1>3 DEF FolderTypes, FilesOK, Held
  <2>4. OwnersOK'
    BY <1>2, <2>1 DEF FolderTypes, OwnersOK
  <2> QED
    BY <1>1, <1>2, <1>3, <2>1, <2>2, <2>3, <2>4 DEF FolderTypes, RowsOK
<1>4. CASE /\ folder' = [folder EXCEPT ![owner[o].name] = Nothing] /\ Leaves(o)
           /\ UNCHANGED <<rejected, fate>>
  <2>1. OwnersOK' /\ owner'[o] = Idle /\ \A p \in Owners \ {o} : owner'[p] = owner[p]
    BY <1>4, LeavesFacts DEF FolderTypes
  <2>3. FilesOK'
    BY <1>4 DEF FolderTypes, FilesOK
  <2> QED
    BY <1>1, <1>2, <1>4, <2>1, <2>3 DEF FolderTypes, RowsOK
<1> QED
  BY <1>3, <1>4 DEF Fill

LEMMA QueueKeeps ==
    ASSUME FolderTypes, NEW o \in Owners, Queue(o)
    PROVE  /\ FolderTypes' /\ UNCHANGED <<files, fate, up, robbed>>
           /\ up /\ owner[o].at = "queue" /\ owner'[o] = Idle
           /\ \A p \in Owners \ {o} : owner'[p] = owner[p]
<1>1. UNCHANGED <<files, fate, up, robbed, import>> /\ up /\ owner[o].at = "queue" /\ Leaves(o)
  BY DEF Queue, Doing
<1>2. owner[o].name \in Names /\ owner \in [Owners -> OwnerType]
  BY <1>1 DEF FolderTypes, OwnersOK
<1>3. Enqueue(owner[o].name) \/ UNCHANGED rows
  BY DEF Queue
<1>4. RowsOK'
  BY <1>1, <1>2, <1>3, EnqueueKeeps DEF FolderTypes, RowsOK
<1>5. OwnersOK' /\ owner'[o] = Idle /\ \A p \in Owners \ {o} : owner'[p] = owner[p]
  BY <1>1, LeavesFacts DEF FolderTypes
<1> QED
  BY <1>1, <1>4, <1>5 DEF FolderTypes, FilesOK, files

LEMMA RequestKeeps ==
    ASSUME FolderTypes, NEW o \in Owners, NEW c \in Contents, UploadStart(o, c) \/ RetryStart(o, c)
    PROVE  /\ FolderTypes' /\ UNCHANGED <<folder, loaded, rejected, up, robbed>>
           /\ up /\ owner[o].at = "idle" /\ owner'[o].at \in {"write", "claim"} /\ owner'[o].what = c
           /\ \A p \in Owners \ {o} : owner'[p] = owner[p]
           /\ parts' \subseteq parts \cup {o}
           /\ \/ fate[c] = "new" /\ fate' = [fate EXCEPT ![c] = "sent"]
              \/ c \in rejected /\ UNCHANGED fate
<1>1. /\ UNCHANGED <<folder, loaded, rejected, up, robbed, rows, import>> /\ up /\ owner[o].at = "idle"
      /\ parts' \subseteq parts \cup {o}
      /\ \/ fate[c] = "new" /\ fate' = [fate EXCEPT ![c] = "sent"]
         \/ c \in rejected /\ UNCHANGED fate
  BY DEF UploadStart, RetryStart, Doing, files
<1>2. PICK w \in OwnerType : /\ owner' = [owner EXCEPT ![o] = w]
                             /\ w.at \in {"write", "claim"} /\ w.what = c
  BY IdleFacts DEF UploadStart, RetryStart
<1>3. OwnersOK' /\ owner'[o] = w /\ \A p \in Owners \ {o} : owner'[p] = owner[p]
  BY <1>2, SetOwner DEF FolderTypes
<1>4. FilesOK'
  BY <1>1 DEF FolderTypes, FilesOK
<1> QED
  BY <1>1, <1>2, <1>3, <1>4 DEF FolderTypes, RowsOK

-----------------------------------------------------------------------------
(* A fetch's own steps *)

TokenSteps(t) ==
    \/ Post(t) \/ RequestEnds(t) \/ Cancel(t) \/ Fetches(t) \/ Stops(t) \/ Refused(t)
    \/ ReceiveMigrates(t) \/ RewriteMigrates(t) \/ CardFull(t)

\* They leave the folder and its imports alone; the last ones put a part in it or a torrent
\* in sources/.
LEMMA TokenFolder ==
    ASSUME FolderTypes, NEW t \in Tokens, TokenSteps(t)
    PROVE  /\ FolderTypes' /\ UNCHANGED <<folder, loaded, rejected, robbed, up>> /\ up
           /\ \/ UNCHANGED <<owner, fate>>
              \/ /\ fetch[t] \in {"look", "copy"} /\ t \notin stop /\ fetch' = [fetch EXCEPT ![t] = "placing"]
                 /\ \E w \in OwnerType : /\ owner' = [owner EXCEPT ![t] = w]
                                         /\ w.at = "claim" /\ w.what = Body[t]
                 /\ UNCHANGED fate
              \/ /\ fetch[t] = "source" /\ fetch' = [fetch EXCEPT ![t] = "over"]
                 /\ fate' = [fate EXCEPT ![Body[t]] = "gone"] /\ UNCHANGED owner
<1>1. Body[t] \in Contents /\ t \in Owners
  BY FetchAssumption
<1>2. CASE \/ Post(t) \/ RequestEnds(t) \/ Cancel(t) \/ Record(t) \/ FetchStart(t) \/ FetchBinds(t)
           \/ Connects(t) \/ Create(t) \/ Received(t) \/ Check(t) \/ Rewritten(t) \/ FetchEnds(t)
           \/ Stops(t) \/ Refused(t) \/ ReceiveMigrates(t) \/ RewriteMigrates(t) \/ CardFull(t)
  <2>1. UNCHANGED <<folder, loaded, rejected, robbed, up, owner, fate, rows, import>> /\ up
    BY <1>2 DEF Post, RequestEnds, Cancel, Record, FetchStart, FetchBinds, Connects, Create,
           Received, Check, Rewritten, FetchEnds, Stops, Refused, ReceiveMigrates, RewriteMigrates,
           CardFull, BudgetOnly, FolderStays, folderVars, files, At
  <2> QED
    BY <2>1 DEF FolderTypes, FilesOK, RowsOK, OwnersOK
<1>3. CASE Looks(t) \/ Copies(t)
  <2>1. UNCHANGED <<folder, loaded, rejected, robbed, up, fate, rows, import>> /\ up
    BY <1>3 DEF Looks, Copies, At
  <2>2. CASE UNCHANGED owner
    BY <2>1, <2>2 DEF FolderTypes, FilesOK, RowsOK, OwnersOK
  <2>3. CASE t \notin stop /\ PartDone(t)
    <3>1. /\ owner' = [owner EXCEPT ![t] = [Idle EXCEPT !.at = "claim", !.what = Body[t]]]
          /\ fetch' = [fetch EXCEPT ![t] = "placing"] /\ fetch[t] \in {"look", "copy"}
      BY <1>3, <2>3 DEF PartDone, To, Looks, Copies, At
    <3>2. PICK w \in OwnerType : owner' = [owner EXCEPT ![t] = w] /\ w.at = "claim" /\ w.what = Body[t]
      BY <1>1, <3>1, IdleFacts
    <3>3. OwnersOK'
      BY <1>1, <3>2, SetOwner DEF FolderTypes
    <3> QED
      BY <2>1, <2>3, <3>1, <3>2, <3>3 DEF FolderTypes, FilesOK, RowsOK
  <2> QED
    BY <1>3, <2>2, <2>3 DEF Looks, Copies
<1>4. CASE PlacesSource(t)
  <2>1. UNCHANGED <<folder, loaded, rejected, robbed, up, rows, import, owner>> /\ up
    BY <1>4 DEF PlacesSource, At, files
  <2>2. /\ fetch[t] = "source" /\ fetch' = [fetch EXCEPT ![t] = "over"]
        /\ UNCHANGED fate \/ fate' = [fate EXCEPT ![Body[t]] = "gone"]
    BY <1>4 DEF PlacesSource, At, OverNow, Over, To
  <2> QED
    BY <1>1, <2>1, <2>2 DEF FolderTypes, FilesOK, RowsOK, OwnersOK
<1> QED
  BY <1>2, <1>3, <1>4 DEF TokenSteps, Fetches

-----------------------------------------------------------------------------
(* What is nowhere yet stays so while others work *)

Nowhere(c) ==
    /\ fate[c] = "sent" /\ c \notin loaded \cup rejected
    /\ \A n \in Names : folder[n] # c
    /\ \A o \in Owners : owner[o].what # c

StaysNowhere == \A c \in Contents : Nowhere(c) => Nowhere(c)'

LEMMA PlacingAway ==
    ASSUME FolderTypes, NEW o \in Owners, Placing(o)
    PROVE  FolderTypes' /\ StaysNowhere
<1>1. \A c \in Contents : c # Nothing /\ c # Empty
  BY FolderAssumption DEF Held
<1>2. CASE UploadWritten(o)
  <2>1. /\ FolderTypes' /\ UNCHANGED <<folder, loaded, rejected, fate>>
        /\ owner'[o].what \in {owner[o].what, Nothing}
        /\ \A p \in Owners \ {o} : owner'[p] = owner[p]
    BY <1>2, WrittenKeeps
  <2> QED BY <1>1, <2>1 DEF StaysNowhere, Nowhere
<1>3. CASE Claim(o)
  <2>1. /\ FolderTypes' /\ UNCHANGED <<loaded, rejected, fate>>
        /\ owner'[o].what \in {owner[o].what, Nothing}
        /\ \A p \in Owners \ {o} : owner'[p] = owner[p]
        /\ UNCHANGED folder \/ \E n \in Names : folder' = [folder EXCEPT ![n] = Empty]
    BY <1>3, ClaimKeeps, IdleFacts
  <2>2. \A n \in Names : folder'[n] = folder[n] \/ folder'[n] = Empty
    BY <2>1 DEF FolderTypes, FilesOK
  <2> QED BY <1>1, <2>1, <2>2 DEF StaysNowhere, Nowhere
<1>4. CASE Fill(o)
  <2>1. /\ FolderTypes' /\ UNCHANGED loaded /\ owner[o].name \in Names /\ owner[o].what \in Contents
        /\ owner'[o].what \in {owner[o].what, Nothing}
        /\ \A p \in Owners \ {o} : owner'[p] = owner[p]
        /\ \E new \in {owner[o].what, Nothing} : folder' = [folder EXCEPT ![owner[o].name] = new]
        /\ rejected' \subseteq rejected
        /\ UNCHANGED fate \/ fate' = [fate EXCEPT ![owner[o].what] = "held"]
    BY <1>4, FillKeeps, IdleFacts
  <2>2. \A n \in Names : folder'[n] \in {folder[n], owner[o].what, Nothing}
    BY <2>1 DEF FolderTypes, FilesOK
  <2>3. \A c \in Contents : c # owner[o].what => fate'[c] = fate[c]
    BY <2>1 DEF FolderTypes, FilesOK
  <2> QED BY <1>1, <2>1, <2>2, <2>3 DEF StaysNowhere, Nowhere
<1>5. CASE Queue(o)
  <2>1. /\ FolderTypes' /\ UNCHANGED <<folder, loaded, rejected, fate>> /\ owner'[o].what = Nothing
        /\ \A p \in Owners \ {o} : owner'[p] = owner[p]
    BY <1>5, QueueKeeps, IdleFacts DEF files
  <2> QED BY <1>1, <2>1 DEF StaysNowhere, Nowhere
<1> QED
  BY <1>2, <1>3, <1>4, <1>5 DEF Placing

LEMMA FolderAway ==
    ASSUME FolderTypes, FolderSteps \/ Requests(Owners \ Tokens)
    PROVE  FolderTypes' /\ StaysNowhere
<1>1. \A c \in Contents : c # Nothing /\ c # Empty
  BY FolderAssumption DEF Held
<1>2. CASE WatchPolls \/ WatchQueues
  BY <1>2, WatchKeeps DEF StaysNowhere, Nowhere, files
<1>3. CASE Import
  <2>1. FolderTypes' /\ UNCHANGED <<owner, fate>>
    BY <1>3, ImportKeeps
  <2>2. UNCHANGED <<folder, loaded, rejected>> \/ \E n \in Names : Away(n)
    BY <1>3, ImportKeeps
  <2>3. \A c \in Contents : c \in loaded' \cup rejected' => c \in loaded \cup rejected \/ \E n \in Names : folder[n] = c
    BY <2>2 DEF Away
  <2>4. \A n \in Names : folder'[n] = folder[n] \/ folder'[n] = Nothing
    BY <2>2 DEF Away, FolderTypes, FilesOK
  <2> QED BY <1>1, <2>1, <2>3, <2>4 DEF StaysNowhere, Nowhere
<1>4. CASE User
  <2>1. FolderTypes' /\ UNCHANGED <<owner, loaded>> /\ rejected' \subseteq rejected
    BY <1>4, UserKeeps DEF User, DropFile, Replace, Discard, Delete
  <2>2. \A c \in Contents : fate[c] = "sent" /\ c \notin rejected /\ (\A n \in Names : folder[n] # c)
          => fate'[c] = "sent" /\ \A n \in Names : folder'[n] # c
    BY <1>1, <1>4 DEF User, DropFile, Replace, Discard, Delete, FolderTypes, FilesOK
  <2> QED BY <2>1, <2>2 DEF StaysNowhere, Nowhere
<1>5. CASE Requests(Owners \ Tokens)
  <2>1. PICK o \in Owners, c \in Contents : UploadStart(o, c) \/ RetryStart(o, c)
    BY <1>5 DEF Requests
  <2>2. /\ FolderTypes' /\ UNCHANGED <<folder, loaded, rejected>> /\ owner'[o].what = c
        /\ \A p \in Owners \ {o} : owner'[p] = owner[p]
        /\ \/ fate[c] = "new" /\ fate' = [fate EXCEPT ![c] = "sent"]
           \/ c \in rejected /\ UNCHANGED fate
    BY <2>1, RequestKeeps
  <2>3. \A d \in Contents : Nowhere(d) => d # c /\ fate'[d] = fate[d]
    BY <2>2 DEF Nowhere, FolderTypes, FilesOK
  <2> QED BY <2>2, <2>3 DEF StaysNowhere, Nowhere
<1> QED
  BY <1>2, <1>3, <1>4, <1>5, PlacingAway DEF FolderSteps

-----------------------------------------------------------------------------
(* A cancel that was answered is heeded *)

Slots  == {"none", "waiting", "cancelled", "job", "closed"}
Places == Early \cup {"idle", "issued", "placing", "source", "over"}

\* The token is its job's once the fetch has started, and closed once it is over.
SlotOK(t) ==
    /\ fetch[t] = "idle" => slot[t] = "none" /\ t \notin asks
    /\ fetch[t] = "issued" => slot[t] \in {"waiting", "cancelled"}
    /\ fetch[t] \in {"queued", "bound"} => slot[t] \in {"waiting", "cancelled", "job"}
    /\ fetch[t] \in (Early \ {"queued", "bound"}) \cup {"placing", "source"} => slot[t] = "job"
    /\ fetch[t] = "over" => slot[t] = "closed"

\* It will not get past its last look.
Doomed(t) ==
    \/ fetch[t] = "over"
    \/ fetch[t] \in {"issued", "queued", "bound"} /\ slot[t] = "cancelled"
    \/ fetch[t] \in Early /\ t \in stop

HeedOK(t) == SlotOK(t) /\ (t \in heard => Doomed(t))
Unplaced(t) == fetch[t] \notin {"placing", "source", "over"} \/ t \in heard

HeedInv ==
    /\ slot \in [Tokens -> Slots] /\ fetch \in [Tokens -> Places] /\ heard \subseteq Tokens
    /\ \A t \in Tokens : HeedOK(t) /\ (Unplaced(t) => Nowhere(Body[t]))

\* A step of one fetch leaves the others' tokens alone.
Alone(t) ==
    /\ slot' \in [Tokens -> Slots] /\ fetch' \in [Tokens -> Places] /\ heard' \subseteq Tokens
    /\ \A u \in Tokens \ {t} : /\ slot'[u] = slot[u] /\ fetch'[u] = fetch[u]
                               /\ u \in stop' <=> u \in stop
                               /\ u \in asks' <=> u \in asks
                               /\ u \in heard' <=> u \in heard

LEMMA GoesHeeds ==
    ASSUME HeedInv, NEW t \in Tokens, NEW at \in Places, Goes(t, at),
           \/ fetch[t] = "queued" /\ at = "bound" /\ t \notin stop
           \/ fetch[t] \in Early \ {"queued", "bound"} /\ at \in Early \ {"queued", "bound"}
    PROVE  Alone(t) /\ HeedOK(t)' /\ (Unplaced(t)' => Unplaced(t))
BY DEF Goes, To, HeedInv, HeedOK, SlotOK, Doomed, Unplaced, Alone, Places, Slots, Early

LEMMA OverHeeds ==
    ASSUME HeedInv, NEW t \in Tokens, NEW left, Over(t, left)
    PROVE  Alone(t) /\ HeedOK(t)' /\ (Unplaced(t)' => Unplaced(t))
BY DEF Over, To, HeedInv, HeedOK, SlotOK, Doomed, Unplaced, Alone, Places, Slots, Early

\* A cancelled fetch never comes to place, so what it placed is not one's that was cancelled.
LEMMA PlacesHeeds ==
    ASSUME HeedInv, NEW t \in Tokens, NEW at \in {"placing", "source"}, To(t, at),
           fetch[t] \in {"look", "copy"}, t \notin stop, UNCHANGED <<slot, asks, stop, heard>>
    PROVE  Alone(t) /\ HeedOK(t)' /\ (Unplaced(t)' => Unplaced(t))
BY DEF To, HeedInv, HeedOK, SlotOK, Doomed, Unplaced, Alone, Places, Slots, Early

LEMMA TokenHeeds ==
    ASSUME HeedInv, NEW t \in Tokens, TokenSteps(t)
    PROVE  Alone(t) /\ HeedOK(t)' /\ (Unplaced(t)' => Unplaced(t))
<1>1. CASE \E left : Over(t, left)
  BY <1>1, OverHeeds
<1>2. CASE Post(t)
  BY <1>2 DEF Post, To, HeedInv, HeedOK, SlotOK, Doomed, Unplaced, Alone, Places, Slots, Early
<1>3. CASE Record(t)
  <2>1. fetch[t] = "issued" /\ UNCHANGED <<stop, heard>>
    BY <1>3 DEF Record, At
  <2>2. CASE To(t, "queued") /\ UNCHANGED <<slot, asks>>
    BY <2>1, <2>2 DEF To, HeedInv, HeedOK, SlotOK, Doomed, Unplaced, Alone, Places, Slots, Early
  <2>3. CASE To(t, "over") /\ slot' = [slot EXCEPT ![t] = "closed"] /\ asks' = asks \ {t}
    BY <2>1, <2>3 DEF To, HeedInv, HeedOK, SlotOK, Doomed, Unplaced, Alone, Places, Slots, Early
  <2> QED
    BY <1>3, <2>2, <2>3 DEF Record
<1>4. CASE RequestEnds(t)
  <2>1. t \in asks /\ asks' = asks \ {t} /\ UNCHANGED <<fetch, heard>>
    BY <1>4 DEF RequestEnds
  <2>2. CASE UNCHANGED <<slot, stop>>
    BY <2>1, <2>2 DEF HeedInv, HeedOK, SlotOK, Doomed, Unplaced, Alone
  <2>3. CASE fetch[t] # "issued" /\ Tie(t)
    BY <2>1, <2>3 DEF Tie, HeedInv, HeedOK, SlotOK, Doomed, Unplaced, Alone, Places, Slots, Early
  <2> QED
    BY <1>4, <2>2, <2>3 DEF RequestEnds
<1>5. CASE Cancel(t)
  <2>1. /\ UNCHANGED <<asks, fetch>> /\ slot[t] \notin {"none", "closed"}
        /\ heard' = IF fetch[t] \in Early \cup {"issued"} THEN heard \cup {t} ELSE heard
    BY <1>5 DEF Cancel
  <2>2. CASE slot[t] = "job" /\ stop' = stop \cup {t} /\ UNCHANGED slot
    BY <2>1, <2>2 DEF HeedInv, HeedOK, SlotOK, Doomed, Unplaced, Alone, Places, Slots, Early
  <2>3. CASE slot[t] # "job" /\ slot' = [slot EXCEPT ![t] = "cancelled"] /\ UNCHANGED stop
    BY <2>1, <2>3 DEF HeedInv, HeedOK, SlotOK, Doomed, Unplaced, Alone, Places, Slots, Early
  <2> QED
    BY <1>5, <2>2, <2>3 DEF Cancel
<1>6. CASE FetchStart(t)
  <2>1. CASE t \notin stop /\ Goes(t, "bound")
    BY <1>6, <2>1, GoesHeeds DEF FetchStart, At, Places, Early
  <2> QED
    BY <1>1, <1>6, <2>1 DEF FetchStart, OverNow
<1>7. CASE FetchBinds(t)
  <2>1. fetch[t] = "bound" /\ Tie(t) /\ To(t, "connect") /\ UNCHANGED <<asks, heard>>
    BY <1>7 DEF FetchBinds, At
  <2> QED
    BY <2>1 DEF Tie, To, HeedInv, HeedOK, SlotOK, Doomed, Unplaced, Alone, Places, Slots, Early
<1>8. CASE Connects(t) \/ Received(t)
  BY <1>8, GoesHeeds DEF Connects, Received, At, Places, Early
<1>9. CASE Create(t) \/ Check(t) \/ Rewritten(t)
  <2>1. fetch[t] \in {"create", "check", "rewrite"}
    BY <1>9 DEF Create, Check, Rewritten, At
  <2>2. CASE \E at \in {"receive", "rewrite", "look"} : To(t, at) /\ UNCHANGED <<slot, asks, stop, heard>>
    BY <2>1, <2>2 DEF To, HeedInv, HeedOK, SlotOK, Doomed, Unplaced, Alone, Places, Slots, Early
  <2> QED
    BY <1>1, <1>9, <2>2 DEF Create, Check, Rewritten, Goes, OverNow
<1>10. CASE Looks(t)
  <2>1. fetch[t] = "look"
    BY <1>10 DEF Looks, At
  <2>2. CASE t \notin stop /\ Goes(t, "copy")
    BY <2>1, <2>2, GoesHeeds DEF Places, Early
  <2>3. CASE t \notin stop /\ \E at \in {"placing", "source"} : To(t, at) /\ UNCHANGED <<slot, asks, stop, heard>>
    BY <2>1, <2>3, PlacesHeeds
  <2> QED
    BY <1>1, <1>10, <2>2, <2>3 DEF Looks, OverNow, PartDone
<1>11. CASE Copies(t)
  <2>1. fetch[t] = "copy"
    BY <1>11 DEF Copies, At
  <2>2. CASE t \notin stop /\ To(t, "placing") /\ UNCHANGED <<slot, asks, stop, heard>>
    BY <2>1, <2>2, PlacesHeeds
  <2> QED
    BY <1>1, <1>11, <2>2 DEF Copies, OverNow, PartDone
<1>12. CASE FetchEnds(t) \/ PlacesSource(t) \/ Stops(t) \/ Refused(t) \/ CardFull(t)
  BY <1>1, <1>12 DEF FetchEnds, PlacesSource, Stops, Refused, CardFull, OverNow
<1>13. CASE ReceiveMigrates(t) \/ RewriteMigrates(t)
  <2>1. CASE UNCHANGED <<slot, asks, fetch, stop, heard>>
    BY <2>1 DEF HeedInv, HeedOK, SlotOK, Doomed, Unplaced, Alone
  <2> QED
    BY <1>1, <1>13, <2>1 DEF ReceiveMigrates, RewriteMigrates, MigrateFails, OverNow
<1> QED
  BY <1>2, <1>3, <1>4, <1>5, <1>6, <1>7, <1>8, <1>9, <1>10, <1>11, <1>12, <1>13 DEF TokenSteps, Fetches

LEMMA HeedStep ==
    ASSUME FolderTypes, HeedInv, [FetchNext]_allVars
    PROVE  FolderTypes' /\ HeedInv'
<1>1. \A t \in Tokens : Body[t] \in Contents /\ t \in Owners
  BY FetchAssumption
<1>2. CASE (FolderSteps \/ Requests(Owners \ Tokens)) /\ UNCHANGED fetchVars
  <2>1. FolderTypes' /\ StaysNowhere
    BY <1>2, FolderAway
  <2> QED
    BY <1>1, <1>2, <2>1 DEF StaysNowhere, HeedInv, HeedOK, SlotOK, Doomed, Unplaced, fetchVars
<1>3. ASSUME NEW t \in Tokens, TokenSteps(t)
      PROVE  FolderTypes' /\ HeedInv'
  <2>1. Alone(t) /\ HeedOK(t)' /\ (Unplaced(t)' => Unplaced(t))
    BY <1>3, TokenHeeds
  <2>2. FolderTypes' /\ UNCHANGED <<folder, loaded, rejected>>
    BY <1>3, TokenFolder
  <2>3. \A u \in Tokens : HeedOK(u)' /\ (Unplaced(u)' => Unplaced(u))
    BY <2>1 DEF Alone, HeedInv, HeedOK, SlotOK, Doomed, Unplaced
  <2>4. ASSUME NEW u \in Tokens, Unplaced(u)', Nowhere(Body[u])
        PROVE  Nowhere(Body[u])'
    <3>1. CASE UNCHANGED <<owner, fate>>
      BY <2>2, <2>4, <3>1 DEF Nowhere
    <3>2. CASE /\ fetch[t] \in {"look", "copy"} /\ t \notin stop /\ fetch' = [fetch EXCEPT ![t] = "placing"]
               /\ \E w \in OwnerType : owner' = [owner EXCEPT ![t] = w] /\ w.at = "claim" /\ w.what = Body[t]
               /\ UNCHANGED fate
      <4>1. u # t
        BY <2>1, <2>4, <3>2 DEF HeedInv, HeedOK, Doomed, Unplaced, Early
      <4>2. Body[u] # Body[t]
        BY <4>1, FetchAssumption
      <4>3. \A o \in Owners : owner'[o].what \in {owner[o].what, Body[t]}
        BY <1>1, <3>2 DEF FolderTypes, OwnersOK
      <4> QED
        BY <2>2, <2>4, <3>2, <4>2, <4>3 DEF Nowhere
    <3>3. CASE /\ fetch[t] = "source" /\ fetch' = [fetch EXCEPT ![t] = "over"]
               /\ fate' = [fate EXCEPT ![Body[t]] = "gone"] /\ UNCHANGED owner
      <4>1. u # t
        BY <2>1, <2>3, <2>4, <3>3 DEF HeedInv, HeedOK, Doomed, Unplaced, Early
      <4>2. Body[u] # Body[t] /\ Body[u] \in Contents
        BY <1>1, <4>1, FetchAssumption
      <4> QED
        BY <2>2, <2>4, <3>3, <4>2 DEF Nowhere, FolderTypes, FilesOK
    <3> QED
      BY <1>3, <3>1, <3>2, <3>3, TokenFolder
  <2> QED
    BY <2>1, <2>2, <2>3, <2>4 DEF HeedInv, Alone
<1>4. CASE Kill
  <2>1. FolderTypes'
    BY <1>4, IdleFacts DEF Kill, KillFolder, NoImport, files, FolderTypes, FilesOK, RowsOK, OwnersOK
  <2>2. /\ slot' = [t \in Tokens |-> IF slot[t] = "none" THEN "none" ELSE "closed"]
        /\ fetch' = [t \in Tokens |-> IF fetch[t] = "idle" THEN "idle" ELSE "over"]
        /\ asks' = {} /\ UNCHANGED heard
    BY <1>4 DEF Kill
  <2>3. \A t \in Tokens : HeedOK(t)'
    BY <2>2 DEF HeedInv, HeedOK, SlotOK, Doomed, Early, Slots, Places
  <2>4. \A t \in Tokens : Unplaced(t)' => Unplaced(t)
    BY <2>2 DEF Unplaced
  <2>5. \A c \in Contents : Nowhere(c) => Nowhere(c)'
    BY <1>4, IdleFacts, FolderAssumption DEF Kill, KillFolder, files, Nowhere, Held
  <2> QED
    BY <1>1, <2>1, <2>2, <2>3, <2>4, <2>5 DEF HeedInv, Slots, Places
<1>5. CASE Start
  <2>1. UNCHANGED <<folder, loaded, rejected, owner, fate, import, slot, fetch, stop, asks, heard>> /\ StartFolder
    BY <1>5 DEF Start
  <2>2. RowsOK'
    BY <2>1, StartRows DEF FolderTypes
  <2>3. HeedInv'
    BY <2>1 DEF HeedInv, HeedOK, SlotOK, Doomed, Unplaced, Nowhere
  <2> QED
    BY <2>1, <2>2, <2>3 DEF FolderTypes, FilesOK, OwnersOK
<1>6. CASE UNCHANGED allVars
  BY <1>6 DEF allVars, folderVars, fetchVars, files, FolderTypes, FilesOK, RowsOK, OwnersOK, HeedInv, HeedOK, SlotOK,
         Doomed, Unplaced, Nowhere
<1> QED
  BY <1>2, <1>3, <1>4, <1>5, <1>6 DEF FetchNext, TokenSteps

LEMMA HeedInit == FetchInit => FolderTypes /\ HeedInv
<1> SUFFICES ASSUME FetchInit PROVE FolderTypes /\ HeedInv
  OBVIOUS
<1>1. FilesOK
  BY DEF FetchInit, InitFolder, FilesOK
<1>2. RowsOK
  BY DEF FetchInit, InitFolder, RowsOK, NoImport
<1>3. OwnersOK
  BY IdleFacts DEF FetchInit, InitFolder, OwnersOK
<1>4. \A t \in Tokens : Nowhere(Body[t])
  <2>1. \A t \in Tokens : Body[t] \in Contents /\ Body[t] # Nothing
    BY FetchAssumption, FolderAssumption DEF Held
  <2> QED
    BY <2>1, IdleFacts DEF FetchInit, InitFolder, Nowhere
<1>5. HeedInv
  BY <1>4 DEF FetchInit, HeedInv, HeedOK, SlotOK, Slots, Places, Early
<1> QED
  BY <1>1, <1>2, <1>3, <1>5 DEF FolderTypes

\* A cancel answered 204 before the fetch's last look holds: nothing of that fetch is placed.
THEOREM CancelIsHeeded == FetchSpec => []CancelHeeded
<1>1. FolderTypes /\ HeedInv => CancelHeeded
  BY DEF HeedInv, Unplaced, Nowhere, CancelHeeded
<1>2. (FolderTypes /\ HeedInv) /\ [FetchNext]_allVars => (FolderTypes /\ HeedInv)'
  BY HeedStep
<1> QED
  BY HeedInit, <1>1, <1>2, PTL DEF FetchSpec

-----------------------------------------------------------------------------
(* No file is written over *)

\* A claimed name is empty and has one owner.
FillsOwn ==
    \A o \in Owners : owner[o].at = "fill" =>
        /\ folder[owner[o].name] = Empty
        /\ \A p \in Owners : owner[p].at = "fill" /\ owner[p].name = owner[o].name => p = o

Kept(c) == c \in loaded \cup rejected \/ \E n \in Names : folder[n] = c
FolderInv == robbed = {} => FillsOwn /\ \A c \in Contents : fate[c] = "held" => Kept(c)

LEMMA PlacingKeeps ==
    ASSUME FolderTypes, FolderInv, NEW o \in Owners, Placing(o)
    PROVE  FolderInv'
<1>1. Nothing # Empty /\ \A c \in Contents : c # Nothing /\ c # Empty
  BY FolderAssumption DEF Held
<1>2. CASE UploadWritten(o)
  <2>1. /\ UNCHANGED <<folder, loaded, rejected, fate, robbed>> /\ owner'[o].at # "fill"
        /\ \A p \in Owners \ {o} : owner'[p] = owner[p]
    BY <1>2, WrittenKeeps
  <2> QED BY <2>1 DEF FolderInv, FillsOwn, Kept
<1>3. CASE Claim(o)
  <2>1. UNCHANGED <<loaded, rejected, fate, robbed>> /\ \A p \in Owners \ {o} : owner'[p] = owner[p]
    BY <1>3, ClaimKeeps
  <2>2. CASE owner'[o] = Idle /\ UNCHANGED folder
    <3>1. owner'[o].at # "fill"
      BY <2>2, IdleFacts
    <3> QED BY <2>1, <2>2, <3>1 DEF FolderInv, FillsOwn, Kept
  <2>3. CASE \E n \in Names : /\ folder[n] = Nothing /\ folder' = [folder EXCEPT ![n] = Empty]
                              /\ owner'[o].name = n
    <3>1. PICK n \in Names : /\ folder[n] = Nothing /\ folder' = [folder EXCEPT ![n] = Empty]
                             /\ owner'[o].name = n
      BY <2>3
    <3>2. folder'[n] = Empty /\ \A m \in Names \ {n} : folder'[m] = folder[m]
      BY <3>1 DEF FolderTypes, FilesOK
    <3>3. robbed = {} => \A p \in Owners : owner[p].at = "fill" => owner[p].name # n
      BY <1>1, <3>1 DEF FolderInv, FillsOwn
    <3>4. robbed = {} => FillsOwn'
      BY <2>1, <3>1, <3>2, <3>3 DEF FolderInv, FillsOwn, FolderTypes, OwnersOK
    <3>5. \A c \in Contents : Kept(c) => Kept(c)'
      BY <1>1, <2>1, <3>1, <3>2 DEF Kept
    <3> QED BY <2>1, <3>4, <3>5 DEF FolderInv
  <2> QED BY <1>3, <2>2, <2>3, ClaimKeeps
<1>4. CASE Fill(o)
  <2> PICK n, w : n = owner[o].name /\ w = owner[o].what
    OBVIOUS
  <2>1. /\ UNCHANGED <<loaded, robbed>> /\ owner[o].at = "fill" /\ n \in Names /\ w \in Contents
        /\ \A p \in Owners \ {o} : owner'[p] = owner[p]
        /\ owner'[o].at # "fill"
        /\ \/ /\ folder' = [folder EXCEPT ![n] = w] /\ rejected' = rejected \ {w}
              /\ fate' = [fate EXCEPT ![w] = "held"]
           \/ folder' = [folder EXCEPT ![n] = Nothing] /\ UNCHANGED <<rejected, fate>>
    BY <1>4, FillKeeps, IdleFacts
  <2>2. \A m \in Names \ {n} : folder'[m] = folder[m]
    BY <2>1 DEF FolderTypes, FilesOK
  <2>3. robbed = {} => folder[n] = Empty /\ \A p \in Owners : owner[p].at = "fill" /\ owner[p].name = n => p = o
    BY <2>1 DEF FolderInv, FillsOwn
  <2>4. robbed = {} => FillsOwn'
    <3> SUFFICES ASSUME robbed = {}, NEW p \in Owners, owner'[p].at = "fill"
                 PROVE  /\ folder'[owner'[p].name] = Empty
                        /\ \A q \in Owners : owner'[q].at = "fill" /\ owner'[q].name = owner'[p].name => q = p
      BY DEF FillsOwn
    <3>1. p # o /\ owner'[p] = owner[p] /\ owner[p].name # n /\ owner[p].name \in Names
      BY <2>1, <2>3 DEF FolderTypes, OwnersOK
    <3>2. folder'[owner'[p].name] = Empty
      BY <2>2, <3>1 DEF FolderInv, FillsOwn
    <3>3. ASSUME NEW q \in Owners, owner'[q].at = "fill", owner'[q].name = owner'[p].name PROVE q = p
      BY <2>1, <3>1, <3>3 DEF FolderInv, FillsOwn
    <3> QED BY <3>2, <3>3
  <2>5. robbed = {} => \A c \in Contents : c # w /\ Kept(c) => Kept(c)'
    BY <1>1, <2>1, <2>2, <2>3 DEF Kept
  <2>6. CASE folder' = [folder EXCEPT ![n] = w] /\ fate' = [fate EXCEPT ![w] = "held"]
    <3>1. folder'[n] = w
      BY <2>1, <2>6 DEF FolderTypes, FilesOK
    <3>2. Kept(w)'
      BY <2>1, <3>1 DEF Kept
    <3>3. \A c \in Contents : c # w => fate'[c] = fate[c]
      BY <2>6 DEF FolderTypes, FilesOK
    <3>4. robbed = {} => \A c \in Contents : fate'[c] = "held" => Kept(c)'
      BY <2>5, <3>2, <3>3 DEF FolderInv
    <3> QED BY <2>1, <2>4, <3>4 DEF FolderInv
  <2>7. CASE UNCHANGED <<rejected, fate>>
    <3>1. robbed = {} => \A c \in Contents : Kept(c) => Kept(c)'
      BY <1>1, <2>1, <2>2, <2>3, <2>7 DEF Kept
    <3> QED BY <2>1, <2>4, <2>7, <3>1 DEF FolderInv
  <2> QED BY <2>1, <2>6, <2>7
<1>5. CASE Queue(o)
  <2>1. /\ UNCHANGED <<folder, loaded, rejected, fate, robbed>> /\ owner'[o].at # "fill"
        /\ \A p \in Owners \ {o} : owner'[p] = owner[p]
    BY <1>5, QueueKeeps, IdleFacts DEF files
  <2> QED BY <2>1 DEF FolderInv, FillsOwn, Kept
<1> QED
  BY <1>2, <1>3, <1>4, <1>5 DEF Placing

LEMMA UserKept ==
    ASSUME FolderTypes, FolderInv, User
    PROVE  FolderInv'
<1>1. Nothing # Empty /\ \A c \in Contents : c # Nothing /\ c # Empty
  BY FolderAssumption DEF Held
<1>2. UNCHANGED <<owner, loaded, robbed>>
  BY UserKeeps
<1>3. ASSUME NEW n \in Names, NEW new \in Contents \cup {Nothing}, folder' = [folder EXCEPT ![n] = new],
             folder[n] # Empty, rejected' = rejected,
             \A c \in Contents : fate'[c] = "held" => c = new \/ (fate[c] = "held" /\ c # folder[n])
      PROVE  FolderInv'
  <2>1. folder'[n] = new /\ \A m \in Names \ {n} : folder'[m] = folder[m]
    BY <1>3 DEF FolderTypes, FilesOK
  <2>2. robbed = {} => FillsOwn'
    BY <1>2, <1>3, <2>1 DEF FolderInv, FillsOwn, FolderTypes, OwnersOK
  <2>3. \A c \in Contents : c = new \/ (c # folder[n] /\ Kept(c)) => Kept(c)'
    BY <1>2, <1>3, <2>1 DEF Kept
  <2> QED BY <1>2, <1>3, <2>2, <2>3 DEF FolderInv
<1>4. ASSUME NEW n \in Names, NEW c \in Contents, DropFile(n, c) PROVE FolderInv'
  BY <1>1, <1>3, <1>4 DEF DropFile, Free, FolderTypes, FilesOK
<1>5. ASSUME NEW n \in Names, NEW c \in Contents, Replace(n, c) PROVE FolderInv'
  BY <1>1, <1>3, <1>5 DEF Replace, FolderTypes, FilesOK
<1>6. ASSUME NEW n \in Names, Discard(n) PROVE FolderInv'
  BY <1>1, <1>3, <1>6 DEF Discard, FolderTypes, FilesOK
<1>7. ASSUME NEW c \in Held, Delete(c) PROVE FolderInv'
  <2>1. UNCHANGED folder /\ rejected' = rejected \ {c}
    BY <1>7 DEF Delete
  <2>2. \A d \in Contents : fate'[d] = "held" => fate[d] = "held" /\ d # c
    BY <1>1, <1>7 DEF Delete, Held, FolderTypes, FilesOK
  <2> QED BY <1>2, <2>1, <2>2 DEF FolderInv, FillsOwn, Kept
<1> QED
  BY <1>4, <1>5, <1>6, <1>7 DEF User

LEMMA FolderKept ==
    ASSUME FolderTypes, FolderInv, FolderSteps \/ Requests(Owners \ Tokens)
    PROVE  FolderInv'
<1>1. CASE WatchPolls \/ WatchQueues
  BY <1>1, WatchKeeps DEF FolderInv, FillsOwn, Kept, files
<1>2. CASE Import
  <2>1. UNCHANGED <<owner, fate>>
    BY <1>2, ImportKeeps
  <2>2. CASE UNCHANGED <<folder, loaded, rejected, robbed>>
    BY <2>1, <2>2 DEF FolderInv, FillsOwn, Kept
  <2>3. ASSUME NEW n \in Names, Away(n) PROVE FolderInv'
    <3>1. \A m \in Names \ {n} : folder'[m] = folder[m]
      BY <2>3 DEF Away, FolderTypes, FilesOK
    <3>2. robbed' = {} => \A o \in Owners : owner[o].at = "fill" => owner[o].name # n
      BY <2>3 DEF Away, FolderInv, FillsOwn, Claims
    <3>3. robbed' = {} => FillsOwn'
      BY <2>1, <2>3, <3>1, <3>2 DEF Away, FolderInv, FillsOwn, FolderTypes, OwnersOK
    <3>4. \A c \in Contents : Kept(c) => Kept(c)'
      BY <2>3, <3>1 DEF Away, Kept
    <3> QED BY <2>1, <2>3, <3>3, <3>4 DEF Away, FolderInv
  <2> QED BY <1>2, <2>2, <2>3, ImportKeeps
<1>3. CASE Requests(Owners \ Tokens)
  <2>1. PICK o \in Owners, c \in Contents : UploadStart(o, c) \/ RetryStart(o, c)
    BY <1>3 DEF Requests
  <2>2. /\ UNCHANGED <<folder, loaded, rejected, robbed>> /\ owner'[o].at # "fill"
        /\ \A p \in Owners \ {o} : owner'[p] = owner[p]
        /\ fate' = [fate EXCEPT ![c] = "sent"] \/ UNCHANGED fate
    BY <2>1, RequestKeeps
  <2>3. \A d \in Contents : fate'[d] = "held" => fate[d] = "held"
    BY <2>2 DEF FolderTypes, FilesOK
  <2> QED BY <2>2, <2>3 DEF FolderInv, FillsOwn, Kept
<1> QED
  BY <1>1, <1>2, <1>3, UserKept, PlacingKeeps DEF FolderSteps

LEMMA FolderStep ==
    ASSUME FolderTypes, FolderInv, [FetchNext]_allVars
    PROVE  FolderInv'
<1>1. CASE FolderSteps \/ Requests(Owners \ Tokens)
  BY <1>1, FolderKept
<1>2. ASSUME NEW t \in Tokens, TokenSteps(t) PROVE FolderInv'
  <2>1. UNCHANGED <<folder, loaded, rejected, robbed>>
    BY <1>2, TokenFolder
  <2>2. \A o \in Owners : owner'[o].at = "fill" => owner'[o] = owner[o]
    <3>1. CASE \E w \in OwnerType : owner' = [owner EXCEPT ![t] = w] /\ w.at = "claim"
      BY <3>1, FetchAssumption DEF FolderTypes, OwnersOK
    <3> QED BY <1>2, <3>1, TokenFolder
  <2>3. \A c \in Contents : fate'[c] = "held" => fate[c] = "held"
    <3>1. UNCHANGED fate \/ fate' = [fate EXCEPT ![Body[t]] = "gone"]
      BY <1>2, TokenFolder
    <3> QED BY <3>1, FetchAssumption DEF FolderTypes, FilesOK
  <2> QED BY <2>1, <2>2, <2>3 DEF FolderInv, FillsOwn, Kept
<1>3. CASE Kill
  <2>1. UNCHANGED <<folder, loaded, rejected, fate, robbed>> /\ \A o \in Owners : owner'[o].at # "fill"
    BY <1>3, IdleFacts DEF Kill, KillFolder, files
  <2> QED BY <2>1 DEF FolderInv, FillsOwn, Kept
<1>4. CASE Start
  BY <1>4 DEF Start, FolderInv, FillsOwn, Kept
<1>5. CASE UNCHANGED allVars
  BY <1>5 DEF allVars, folderVars, files, FolderInv, FillsOwn, Kept
<1> QED
  BY <1>1, <1>2, <1>3, <1>4, <1>5 DEF FetchNext, TokenSteps

\* A file mistarr took in stays in dats/, loaded/ or rejected/ until the user takes it away.
THEOREM FilesAreKept == FetchSpec => []KeepsFiles
<1>1. FetchInit => FolderTypes /\ HeedInv /\ FolderInv
  <2> SUFFICES ASSUME FetchInit PROVE FolderTypes /\ HeedInv /\ FolderInv
    OBVIOUS
  <2>1. \A o \in Owners : owner[o].at # "fill"
    BY IdleFacts DEF FetchInit, InitFolder
  <2>2. \A c \in Contents : fate[c] # "held"
    BY DEF FetchInit, InitFolder
  <2> QED BY <2>1, <2>2, HeedInit DEF FolderInv, FillsOwn
<1>2. (FolderTypes /\ HeedInv /\ FolderInv) /\ [FetchNext]_allVars => (FolderTypes /\ HeedInv /\ FolderInv)'
  BY HeedStep, FolderStep
<1>3. FolderInv => KeepsFiles
  BY DEF FolderInv, Kept, KeepsFiles
<1> QED
  BY <1>1, <1>2, <1>3, PTL DEF FetchSpec

-----------------------------------------------------------------------------
(* No temporary file is left *)

Spots == {"ram", "card"}

\* What a fetch owns at each place, and that its own step alone changes it.
PathOK(t) ==
    /\ fetch[t] \in {"receive", "check", "rewrite"} => path[t] \in {"body"} \X Spots
    /\ fetch[t] \in {"look", "copy"} => path[t] \in {"body", "out"} \X Spots
    /\ fetch[t] \notin {"receive", "check", "rewrite", "look", "copy"} => path[t] = Nothing
TempsOK(t) ==
    IF fetch[t] = "rewrite" THEN \E spot \in Spots : Of(t) = Own(t) \cup {<<t, "out", spot>>}
                            ELSE Of(t) = Own(t)
SpoolOK(t) == PathOK(t) /\ (t \in stray => fetch[t] = "over") /\ (up /\ t \notin stray => TempsOK(t))

PartsOK ==
    /\ up => \A o \in parts : \/ owner[o].at \in {"write", "claim", "fill", "left"}
                              \/ o \in Tokens /\ fetch[o] = "copy"
    /\ \A t \in Tokens : fetch[t] # "placing" => owner[t].at = "idle"

TempInv ==
    /\ path \in [Tokens -> ({"body", "out"} \X Spots) \cup {Nothing}] /\ parts \subseteq Owners
    /\ \A t \in Tokens : SpoolOK(t)
    /\ ~up => \A t \in Tokens : fetch[t] \in {"idle", "over"}
    /\ PartsOK

SpoolAlone(t) ==
    /\ path' \in [Tokens -> ({"body", "out"} \X Spots) \cup {Nothing}]
    /\ \A u \in Tokens \ {t} : /\ path'[u] = path[u] /\ Of(u)' = Of(u)
                               /\ u \in stray' <=> u \in stray

\* What a fetch has besides what it owns is its rewrite.
LEMMA OwnFacts ==
    ASSUME TempInv, NEW t \in Tokens
    PROVE  /\ path[t] = Nothing => Own(t) = {}
           /\ path[t] # Nothing => Own(t) = {<<t, path[t][1], path[t][2]>>}
           /\ \A f \in Own(t) \cup Rewrite(t) : f[1] = t
           /\ path[t] \in {"body", "out"} \X Spots => path[t] # Nothing
BY FetchAssumption DEF Own, Rewrite, Of, Spots

LEMMA OverSpools ==
    ASSUME TempInv, NEW t \in Tokens, fetch[t] # "idle", up, UNCHANGED up, OverNow(t), UNCHANGED stray,
           fetch \in [Tokens -> Places]
    PROVE  SpoolAlone(t) /\ SpoolOK(t)'
<1>1. /\ fetch'[t] = "over" /\ path' = [path EXCEPT ![t] = Nothing]
      /\ temps' = (temps \ Rewrite(t)) \ Own(t)
  BY DEF OverNow, Over, To
<1>2. path'[t] = Nothing /\ Own(t)' = {}
  BY <1>1 DEF TempInv, Own
<1>3. t \notin stray => Of(t)' = {}
  <2>1. t \notin stray => \A f \in Of(t) : f \in Own(t) \cup Rewrite(t)
    BY DEF TempInv, SpoolOK, TempsOK, Rewrite
  <2> QED BY <1>1, <2>1 DEF Of
<1>4. \A u \in Tokens \ {t} : path'[u] = path[u] /\ Of(u)' = Of(u)
  BY <1>1, OwnFacts DEF Of, TempInv
<1>5. path' \in [Tokens -> ({"body", "out"} \X Spots) \cup {Nothing}]
  BY <1>1 DEF TempInv
<1> QED
  BY <1>1, <1>2, <1>3, <1>4, <1>5 DEF SpoolAlone, SpoolOK, PathOK, TempsOK

\* A fetch that goes on with the same files.
LEMMA SameSpools ==
    ASSUME TempInv, NEW t \in Tokens, UNCHANGED <<path, temps, stray, up>>, NEW at \in Places,
           fetch'[t] = at, fetch[t] \notin {"rewrite", "over"}, at # "rewrite", SpoolOK(t) => PathOK(t)'
    PROVE  SpoolAlone(t) /\ SpoolOK(t)'
BY DEF TempInv, SpoolAlone, SpoolOK, TempsOK, Of, Own

\* A fetch's file becomes a part or goes to sources/.
LEMMA HandsOver ==
    ASSUME TempInv, NEW t \in Tokens, NEW at \in {"placing", "source"}, fetch[t] \in {"look", "copy"},
           fetch'[t] = at, temps' = temps \ Own(t), path' = [path EXCEPT ![t] = Nothing],
           UNCHANGED <<stray, up>>
    PROVE  SpoolAlone(t) /\ SpoolOK(t)'
<1>1. path'[t] = Nothing /\ Own(t)' = {}
  BY DEF TempInv, Own
<1>2. up /\ t \notin stray => Of(t)' = {}
  BY DEF TempInv, SpoolOK, TempsOK, Of
<1>3. \A u \in Tokens \ {t} : path'[u] = path[u] /\ Of(u)' = Of(u)
  BY OwnFacts DEF Of, TempInv
<1>4. path' \in [Tokens -> ({"body", "out"} \X Spots) \cup {Nothing}]
  BY DEF TempInv
<1> QED
  BY <1>1, <1>2, <1>3, <1>4 DEF TempInv, SpoolAlone, SpoolOK, PathOK, TempsOK

\* A temporary file of a fetch is added.
LEMMA AddsSpool ==
    ASSUME TempInv, NEW t \in Tokens, NEW f, f[1] = t, temps' = temps \cup {f}
    PROVE  Of(t)' = Of(t) \cup {f} /\ \A u \in Tokens \ {t} : Of(u)' = Of(u)
BY DEF Of

LEMMA CreateSpools ==
    ASSUME TempInv, NEW t \in Tokens, fetch \in [Tokens -> Places], UNCHANGED <<stray, up>>, fetch[t] = "create",
           NEW spot \in Spots, temps' = temps \cup {<<t, "body", spot>>},
           path' = [path EXCEPT ![t] = <<"body", spot>>], To(t, "receive")
    PROVE  SpoolAlone(t) /\ SpoolOK(t)'
<1>1. /\ path'[t] = <<"body", spot>> /\ fetch'[t] = "receive"
      /\ path' \in [Tokens -> ({"body", "out"} \X Spots) \cup {Nothing}]
      /\ \A u \in Tokens \ {t} : path'[u] = path[u]
  BY DEF TempInv, To
<1>2. Own(t)' = {<<t, "body", spot>>}
  BY <1>1, FetchAssumption DEF Own, Spots
<1>3. path[t] = Nothing /\ Own(t) = {}
  BY OwnFacts DEF TempInv, SpoolOK, PathOK
<1>4. Of(t)' = Of(t) \cup {<<t, "body", spot>>} /\ \A u \in Tokens \ {t} : Of(u)' = Of(u)
  BY AddsSpool
<1> QED
  BY <1>1, <1>2, <1>3, <1>4 DEF TempInv, SpoolAlone, SpoolOK, PathOK, TempsOK

LEMMA CheckSpools ==
    ASSUME TempInv, NEW t \in Tokens, fetch \in [Tokens -> Places], UNCHANGED <<stray, up, path>>, fetch[t] = "check",
           NEW spot \in Spots, temps' = temps \cup {<<t, "out", spot>>}, To(t, "rewrite")
    PROVE  SpoolAlone(t) /\ SpoolOK(t)'
<1>1. fetch'[t] = "rewrite" /\ Own(t)' = Own(t)
  BY DEF To, Own
<1>2. Of(t)' = Of(t) \cup {<<t, "out", spot>>} /\ \A u \in Tokens \ {t} : Of(u)' = Of(u)
  BY AddsSpool
<1> QED
  BY <1>1, <1>2 DEF TempInv, SpoolAlone, SpoolOK, PathOK, TempsOK

\* A file moved to the card.
LEMMA MovedFacts ==
    ASSUME TempInv, NEW t \in Tokens, NEW f \in Own(t) \cup Rewrite(t), temps' = Moved(f), f \in temps
    PROVE  /\ Of(t)' = (Of(t) \ {f}) \cup {<<t, f[2], "card">>}
           /\ \A u \in Tokens \ {t} : Of(u)' = Of(u)
BY OwnFacts DEF Of, Moved, ToCard

LEMMA ReceiveSpools ==
    ASSUME TempInv, NEW t \in Tokens, UNCHANGED <<stray, up, fetch>>, fetch[t] = "receive", up,
           path[t] = <<"body", "ram">>, NEW f \in Own(t),
           temps' = Moved(f), path' = [path EXCEPT ![t] = <<"body", "card">>]
    PROVE  SpoolAlone(t) /\ SpoolOK(t)'
<1>1. /\ path'[t] = <<"body", "card">>
      /\ path' \in [Tokens -> ({"body", "out"} \X Spots) \cup {Nothing}]
      /\ \A u \in Tokens \ {t} : path'[u] = path[u]
  BY DEF TempInv, Spots
<1>2. Own(t)' = {<<t, "body", "card">>}
  BY <1>1, FetchAssumption DEF Own
<1>3. Own(t) = {<<t, "body", "ram">>} /\ f = <<t, "body", "ram">>
  BY FetchAssumption DEF Own
<1>4. \A u \in Tokens \ {t} : Of(u)' = Of(u)
  BY <1>3 DEF Of, Moved, ToCard
<1>5. t \notin stray => Of(t)' = Own(t)'
  <2> SUFFICES ASSUME t \notin stray PROVE Of(t)' = Own(t)'
    OBVIOUS
  <2>1. Of(t) = {f}
    BY <1>3 DEF TempInv, SpoolOK, TempsOK
  <2>2. f \in temps
    BY <2>1 DEF Of
  <2> QED BY <1>2, <1>3, <2>1, <2>2, MovedFacts
<1> QED
  BY <1>1, <1>4, <1>5 DEF TempInv, SpoolAlone, SpoolOK, PathOK, TempsOK, Spots

LEMMA RewriteSpools ==
    ASSUME TempInv, NEW t \in Tokens, UNCHANGED <<stray, up, fetch, path>>, fetch[t] = "rewrite", up,
           NEW f \in Rewrite(t), temps' = Moved(f)
    PROVE  SpoolAlone(t) /\ SpoolOK(t)'
<1>1. f \in temps /\ f \in Of(t) /\ f \notin Own(t)
  BY DEF Rewrite, Of
<1>2. Own(t)' = Own(t)
  BY DEF Own
<1>3. /\ Of(t)' = (Of(t) \ {f}) \cup {<<t, f[2], "card">>}
      /\ \A u \in Tokens \ {t} : Of(u)' = Of(u)
  BY <1>1, MovedFacts
<1>4. t \notin stray => Of(t)' = Own(t) \cup {<<t, "out", "card">>}
  <2> SUFFICES ASSUME t \notin stray PROVE Of(t)' = Own(t) \cup {<<t, "out", "card">>}
    OBVIOUS
  <2>1. PICK spot \in Spots : Of(t) = Own(t) \cup {<<t, "out", spot>>}
    BY DEF TempInv, SpoolOK, TempsOK
  <2>2. f = <<t, "out", spot>> /\ f[2] = "out"
    BY <1>1, <2>1
  <2> QED BY <1>1, <1>3, <2>1, <2>2
<1> QED
  BY <1>2, <1>3, <1>4 DEF TempInv, SpoolAlone, SpoolOK, PathOK, TempsOK, Spots

LEMMA RewrittenSpools ==
    ASSUME TempInv, NEW t \in Tokens, fetch \in [Tokens -> Places], UNCHANGED <<stray, up>>, fetch[t] = "rewrite", up,
           NEW f \in Rewrite(t), path' = [path EXCEPT ![t] = <<"out", f[3]>>], temps' = temps \ Own(t),
           To(t, "look"), f[3] \in Spots
    PROVE  SpoolAlone(t) /\ SpoolOK(t)'
<1>1. /\ path'[t] = <<"out", f[3]>> /\ fetch'[t] = "look"
      /\ path' \in [Tokens -> ({"body", "out"} \X Spots) \cup {Nothing}]
      /\ \A u \in Tokens \ {t} : path'[u] = path[u]
  BY DEF TempInv, To
<1>2. Own(t)' = {<<t, "out", f[3]>>}
  BY <1>1, FetchAssumption DEF Own, Spots
<1>3. \A u \in Tokens \ {t} : Of(u)' = Of(u)
  BY OwnFacts DEF Of
<1>4. t \notin stray => Of(t)' = {<<t, "out", f[3]>>}
  <2> SUFFICES ASSUME t \notin stray PROVE Of(t)' = {<<t, "out", f[3]>>}
    OBVIOUS
  <2>1. PICK spot \in Spots : Of(t) = Own(t) \cup {<<t, "out", spot>>}
    BY DEF TempInv, SpoolOK, TempsOK
  <2>2. f \in Of(t) /\ f \notin Own(t)
    BY DEF Rewrite
  <2>3. f = <<t, "out", spot>> /\ f[3] = spot
    BY <2>1, <2>2
  <2>4. Of(t)' = Of(t) \ Own(t)
    BY DEF Of
  <2> QED BY <2>1, <2>2, <2>3, <2>4
<1> QED
  BY <1>1, <1>2, <1>3, <1>4 DEF TempInv, SpoolAlone, SpoolOK, PathOK, TempsOK

LEMMA TokenSpools ==
    ASSUME TempInv, HeedInv, NEW t \in Tokens, TokenSteps(t)
    PROVE  SpoolAlone(t) /\ SpoolOK(t)'
<1>1. fetch \in [Tokens -> Places] /\ fetch' \in [Tokens -> Places]
  BY TokenHeeds DEF HeedInv, Alone
<1>2. UNCHANGED up /\ up
  BY DEF TokenSteps, Fetches, Post, RequestEnds, Cancel, Record, FetchStart, FetchBinds, Connects, Create,
         Received, Check, Rewritten, Looks, Copies, FetchEnds, PlacesSource, Stops, Refused,
         ReceiveMigrates, RewriteMigrates, CardFull, BudgetOnly, FolderStays, folderVars, files, At
<1>3. CASE UNCHANGED stray /\ OverNow(t) /\ fetch[t] # "idle"
  BY <1>1, <1>2, <1>3, OverSpools
<1>4. CASE Post(t) \/ Record(t)
  <2>1. PICK at \in {"issued", "queued", "over"} : To(t, at)
    BY <1>4 DEF Post, Record
  <2>2. UNCHANGED <<path, temps, stray>> /\ fetch'[t] = at
    BY <1>1, <1>4, <2>1 DEF Post, Record, To
  <2>3. fetch[t] \in {"idle", "issued"}
    <3>1. CASE Post(t)
      BY <1>1, <3>1 DEF Post, HeedInv, HeedOK, SlotOK, Places, Early
    <3> QED BY <1>4, <3>1 DEF Record, At
  <2> QED BY <1>2, <2>1, <2>2, <2>3, SameSpools DEF SpoolOK, PathOK, Places, Early
<1>5. CASE UNCHANGED <<fetch, path, temps, stray>>
  BY <1>2, <1>5 DEF TempInv, SpoolAlone, SpoolOK, PathOK, TempsOK, Of, Own
<1>6. CASE FetchStart(t) /\ Goes(t, "bound")
  <2>1. fetch[t] = "queued" /\ fetch'[t] = "bound" /\ UNCHANGED <<path, temps, stray>>
    BY <1>1, <1>6 DEF FetchStart, At, Goes, To
  <2> QED BY <1>2, <2>1, SameSpools DEF SpoolOK, PathOK, Places, Early
<1>7. CASE FetchBinds(t) \/ Connects(t) \/ Received(t) \/ (Check(t) /\ Goes(t, "look"))
  <2>1. UNCHANGED <<path, temps, stray>> /\ fetch[t] \in {"bound", "connect", "receive", "check"}
    BY <1>7 DEF FetchBinds, Connects, Received, Check, Goes, At
  <2>2. /\ fetch[t] = "bound" => fetch'[t] = "connect"
        /\ fetch[t] = "connect" => fetch'[t] = "create"
        /\ fetch[t] = "receive" => fetch'[t] = "check"
        /\ fetch[t] = "check" => fetch'[t] = "look"
    BY <1>1, <1>7 DEF FetchBinds, Connects, Received, Check, Goes, At, To
  <2> QED BY <1>2, <2>1, <2>2, SameSpools DEF SpoolOK, PathOK, Places, Early
<1>8. CASE Create(t)
  <2>1. CASE \E spot \in Spots : /\ temps' = temps \cup {<<t, "body", spot>>}
                                 /\ path' = [path EXCEPT ![t] = <<"body", spot>>]
                                 /\ To(t, "receive")
    BY <1>1, <1>2, <1>8, <2>1, CreateSpools DEF Create, At
  <2> QED BY <1>3, <1>8, <2>1 DEF Create, At, Spots
<1>9. CASE Check(t)
  <2>1. CASE To(t, "rewrite") /\ UNCHANGED path /\ \E spot \in Spots : temps' = temps \cup {<<t, "out", spot>>}
    BY <1>1, <1>2, <1>9, <2>1, CheckSpools DEF Check, At
  <2> QED BY <1>7, <1>9, <2>1 DEF Check, Spots
<1>10. CASE Rewritten(t)
  <2>1. fetch[t] = "rewrite" /\ To(t, "look") /\ temps' = temps \ Own(t) /\ UNCHANGED stray
    BY <1>10 DEF Rewritten, At
  <2>2. PICK f \in Rewrite(t) : path' = [path EXCEPT ![t] = <<"out", f[3]>>]
    BY <1>10 DEF Rewritten
  <2>3. f[3] \in Spots
    <3>1. PICK spot \in Spots : Of(t) = Own(t) \cup {<<t, "out", spot>>}
      BY <1>2, <2>1 DEF TempInv, SpoolOK, TempsOK
    <3>2. f = <<t, "out", spot>>
      BY <3>1 DEF Rewrite
    <3> QED BY <3>2
  <2> QED BY <1>1, <1>2, <2>1, <2>2, <2>3, RewrittenSpools
<1>11. CASE Looks(t) \/ Copies(t)
  <2>1. fetch[t] \in {"look", "copy"} /\ UNCHANGED stray
    BY <1>11 DEF Looks, Copies, At
  <2>2. CASE Goes(t, "copy")
    <3>1. fetch'[t] = "copy" /\ UNCHANGED <<path, temps>>
      BY <1>1, <2>2 DEF Goes, To
    <3> QED BY <1>2, <2>1, <3>1, SameSpools DEF SpoolOK, PathOK, Places, Early
  <2>3. CASE \E at \in {"placing", "source"} : /\ To(t, at) /\ temps' = temps \ Own(t)
                                               /\ path' = [path EXCEPT ![t] = Nothing]
    BY <1>1, <1>2, <2>1, <2>3, HandsOver DEF To
  <2> QED BY <1>3, <1>11, <2>1, <2>2, <2>3 DEF Looks, Copies, PartDone
<1>12. CASE ReceiveMigrates(t)
  <2>1. fetch[t] = "receive" /\ path[t] = <<"body", "ram">>
    BY <1>12 DEF ReceiveMigrates, At
  <2>2. PICK f \in Own(t) :
          \/ /\ temps' = Moved(f) /\ path' = [path EXCEPT ![t] = <<"body", "card">>]
             /\ UNCHANGED <<fetch, stray>>
          \/ OverNow(t) /\ UNCHANGED stray
          \/ Over(t, Moved(f)) /\ stray' = stray \cup {t}
    BY <1>12 DEF ReceiveMigrates, MigrateFails
  <2>3. CASE Over(t, Moved(f)) /\ stray' = stray \cup {t}
    <3>1. /\ fetch'[t] = "over" /\ path' = [path EXCEPT ![t] = Nothing] /\ temps' = Moved(f) \ Own(t)
      BY <1>1, <2>3 DEF Over, To
    <3>2. f[1] = t /\ \A g \in Own(t) : g[1] = t
      BY OwnFacts
    <3>3. \A u \in Tokens \ {t} : Of(u)' = Of(u)
      BY <3>1, <3>2 DEF Of, Moved, ToCard
    <3> QED BY <2>3, <3>1, <3>3 DEF TempInv, SpoolAlone, SpoolOK, PathOK
  <2> QED BY <1>2, <1>3, <2>1, <2>2, <2>3, ReceiveSpools
<1>13. CASE RewriteMigrates(t)
  <2>1. fetch[t] = "rewrite" /\ UNCHANGED stray
    BY <1>13 DEF RewriteMigrates, At
  <2>2. PICK f \in Rewrite(t) : (temps' = Moved(f) /\ UNCHANGED <<fetch, path>>) \/ OverNow(t)
    BY <1>13 DEF RewriteMigrates, MigrateFails
  <2> QED BY <1>2, <1>3, <2>1, <2>2, RewriteSpools
<1>14. CASE FetchStart(t) \/ FetchEnds(t) \/ PlacesSource(t) \/ Stops(t) \/ Refused(t) \/ CardFull(t)
  BY <1>3, <1>6, <1>14 DEF FetchStart, FetchEnds, PlacesSource, Stops, Refused, CardFull, At
<1>15. CASE RequestEnds(t) \/ Cancel(t)
  BY <1>5, <1>15 DEF RequestEnds, Cancel
<1> QED
  BY <1>4, <1>7, <1>8, <1>9, <1>10, <1>11, <1>12, <1>13, <1>14, <1>15 DEF TokenSteps, Fetches

LEMMA FolderParts ==
    ASSUME FolderTypes, TempInv, FolderSteps \/ Requests(Owners \ Tokens), UNCHANGED fetchVars
    PROVE  TempInv'
<1>1. parts' \subseteq Owners /\ PartsOK' /\ UNCHANGED up
  <2>1. ASSUME NEW o \in Owners, Placing(o) PROVE parts' \subseteq Owners /\ PartsOK' /\ UNCHANGED up
    <3>1. /\ UNCHANGED <<up, fetch>> /\ owner[o].at # "idle"
          /\ \A p \in Owners \ {o} : owner'[p] = owner[p]
          /\ parts' \in {parts, parts \ {o}}
          /\ o \in parts' => (o \in parts /\ owner'[o].at \in {"claim", "fill", "left"}) \/ owner[o].at = "queue"
      <4>1. CASE UploadWritten(o)
        BY <4>1, WrittenKeeps DEF fetchVars
      <4>2. CASE Claim(o)
        BY <4>2, ClaimKeeps DEF fetchVars
      <4>3. CASE Fill(o)
        BY <4>3, FillKeeps DEF fetchVars
      <4>4. CASE Queue(o)
        BY <4>4, QueueKeeps DEF fetchVars, files
      <4> QED BY <2>1, <4>1, <4>2, <4>3, <4>4 DEF Placing
    <3>2. o \in Tokens => fetch[o] = "placing"
      BY <3>1 DEF TempInv, PartsOK
    <3>3. parts' \subseteq parts
      BY <3>1
    <3>4. \A t \in Tokens : fetch'[t] # "placing" => owner'[t].at = "idle"
      BY <3>1, <3>2, FetchAssumption DEF TempInv, PartsOK
    <3>5. ASSUME up, NEW p \in parts'
          PROVE  owner'[p].at \in {"write", "claim", "fill", "left"} \/ (p \in Tokens /\ fetch'[p] = "copy")
      <4>1. CASE p = o
        BY <3>1, <3>2, <3>3, <3>5, <4>1 DEF TempInv, PartsOK
      <4>2. CASE p # o
        BY <3>1, <3>3, <3>5, <4>2 DEF TempInv, PartsOK
      <4> QED BY <4>1, <4>2
    <3> QED BY <3>1, <3>3, <3>4, <3>5 DEF TempInv, PartsOK
  <2>2. CASE WatchPolls \/ WatchQueues
    BY <2>2, WatchKeeps DEF fetchVars, files, TempInv, PartsOK
  <2>3. CASE Import
    BY <2>3, ImportKeeps DEF fetchVars, TempInv, PartsOK
  <2>4. CASE User
    BY <2>4, UserKeeps DEF fetchVars, TempInv, PartsOK
  <2>5. CASE Requests(Owners \ Tokens)
    <3>1. PICK o \in Owners \ Tokens, c \in Contents : UploadStart(o, c) \/ RetryStart(o, c)
      BY <2>5 DEF Requests
    <3>2. /\ UNCHANGED up /\ owner'[o].at \in {"write", "claim"}
          /\ \A p \in Owners \ {o} : owner'[p] = owner[p]
          /\ parts' \subseteq parts \cup {o}
      BY <3>1, RequestKeeps
    <3> QED BY <3>2, FetchAssumption DEF fetchVars, TempInv, PartsOK
  <2> QED BY <2>1, <2>2, <2>3, <2>4, <2>5 DEF FolderSteps
<1> QED
  BY <1>1 DEF fetchVars, TempInv, SpoolOK, PathOK, TempsOK, Of, Own

LEMMA TempStep ==
    ASSUME FolderTypes, HeedInv, TempInv, [FetchNext]_allVars
    PROVE  TempInv'
<1>1. CASE (FolderSteps \/ Requests(Owners \ Tokens)) /\ UNCHANGED fetchVars
  BY <1>1, FolderParts
<1>2. ASSUME NEW t \in Tokens, TokenSteps(t) PROVE TempInv'
  <2>1. Alone(t) /\ SpoolAlone(t) /\ SpoolOK(t)' /\ up /\ UNCHANGED up
    BY <1>2, TokenHeeds, TokenSpools, TokenFolder
  <2>2. \A u \in Tokens : SpoolOK(u)'
    BY <2>1 DEF Alone, SpoolAlone, TempInv, SpoolOK, PathOK, TempsOK, Own
  <2>3. parts' \subseteq Owners /\ PartsOK'
    <3>1. t \in Owners /\ \A u \in Tokens \ {t} : fetch'[u] = fetch[u]
      BY <2>1, FetchAssumption DEF Alone
    <3>2. CASE UNCHANGED <<parts, owner>> /\ fetch[t] \notin {"placing", "copy"} /\ fetch'[t] # "placing"
      BY <2>1, <3>1, <3>2 DEF TempInv, PartsOK
    <3>3. CASE UNCHANGED <<parts, owner, fetch>>
      BY <2>1, <3>3 DEF TempInv, PartsOK
    <3>4. CASE FetchEnds(t)
      <4>1. fetch[t] = "placing" /\ owner[t].at = "idle" /\ UNCHANGED <<parts, owner>>
        BY <3>4 DEF FetchEnds, FolderStays, folderVars, files, At
      <4> QED BY <2>1, <3>1, <4>1 DEF TempInv, PartsOK
    <3>5. CASE Looks(t) \/ Copies(t)
      <4>1. fetch[t] \in {"look", "copy"} /\ fetch \in [Tokens -> Places]
        BY <3>5 DEF Looks, Copies, At, HeedInv
      <4>2. CASE UNCHANGED <<parts, owner>> /\ fetch[t] = "look" /\ fetch'[t] # "placing"
        BY <3>2, <4>2
      <4>3. CASE parts' = parts \cup {t} /\ UNCHANGED owner /\ fetch'[t] = "copy"
        BY <2>1, <3>1, <4>1, <4>3 DEF TempInv, PartsOK
      <4>4. CASE parts' = parts \ {t} /\ UNCHANGED owner /\ fetch'[t] = "over"
        BY <2>1, <3>1, <4>1, <4>4 DEF TempInv, PartsOK
      <4>5. CASE PartDone(t)
        <5>1. fetch'[t] = "placing" /\ parts' = parts \cup {t} /\ owner'[t].at = "claim"
              /\ \A p \in Owners \ {t} : owner'[p] = owner[p]
          <6>1. fetch'[t] = "placing" /\ parts' = parts \cup {t}
            BY <4>1, <4>5 DEF PartDone, To
          <6>2. owner' = [owner EXCEPT ![t] = [Idle EXCEPT !.at = "claim", !.what = Body[t]]]
            BY <4>5 DEF PartDone
          <6>3. Body[t] \in Contents
            BY FetchAssumption
          <6>4. /\ owner'[t] = [Idle EXCEPT !.at = "claim", !.what = Body[t]]
                /\ \A p \in Owners \ {t} : owner'[p] = owner[p]
            BY <3>1, <6>2 DEF FolderTypes, OwnersOK
          <6>5. owner'[t].at = "claim"
            BY <6>4 DEF Idle
          <6> QED BY <6>1, <6>4, <6>5
        <5> QED BY <2>1, <3>1, <5>1, FetchAssumption DEF TempInv, PartsOK
      <4> QED BY <3>5, <4>1, <4>2, <4>3, <4>4, <4>5 DEF Looks, Copies, Goes, OverNow, Over, To, At
    <3>6. CASE \/ Post(t) \/ Record(t) \/ FetchStart(t) \/ FetchBinds(t) \/ Connects(t) \/ Create(t)
               \/ Received(t) \/ Check(t) \/ Rewritten(t) \/ PlacesSource(t) \/ Stops(t) \/ Refused(t)
               \/ ReceiveMigrates(t) \/ RewriteMigrates(t) \/ CardFull(t)
      <4>1. UNCHANGED <<parts, owner>>
        BY <3>6 DEF Post, Record, FetchStart, FetchBinds, Connects, Create, Received, Check, Rewritten,
               PlacesSource, Stops, Refused, ReceiveMigrates, RewriteMigrates, CardFull,
               BudgetOnly, FolderStays, folderVars, files
      <4>2. fetch[t] \notin {"placing", "copy"}
        <5>1. CASE Post(t)
          BY <5>1 DEF Post, HeedInv, HeedOK, SlotOK, Early
        <5> QED
          BY <3>6, <5>1 DEF Record, FetchStart, FetchBinds, Connects, Create, Received, Check, Rewritten,
                 PlacesSource, Stops, Refused, ReceiveMigrates, RewriteMigrates, CardFull, At
      <4>3. fetch'[t] # "placing"
        <5>1. fetch'[t] = fetch[t] \/ \E at \in Places \ {"placing"} : To(t, at)
          BY <3>6 DEF Record, FetchStart, FetchBinds, Connects, Create, Received, Check, Rewritten, Goes,
                 PlacesSource, Stops, Refused, ReceiveMigrates, RewriteMigrates, CardFull, MigrateFails,
                 OverNow, Over, Post, Places, Early
        <5> QED BY <4>2, <5>1 DEF To, HeedInv
      <4> QED BY <3>2, <4>1, <4>2, <4>3
    <3>7. CASE RequestEnds(t) \/ Cancel(t)
      BY <3>3, <3>7 DEF RequestEnds, Cancel, BudgetOnly, FolderStays, folderVars, files
    <3> QED
      BY <1>2, <3>4, <3>5, <3>6, <3>7 DEF TokenSteps, Fetches
  <2> QED BY <2>1, <2>2, <2>3 DEF SpoolAlone, TempInv
<1>3. CASE Kill
  <2>1. /\ ~up' /\ path' = [t \in Tokens |-> Nothing] /\ UNCHANGED <<parts, stray>>
        /\ fetch' = [t \in Tokens |-> IF fetch[t] = "idle" THEN "idle" ELSE "over"]
        /\ \A o \in Owners : owner'[o].at = "idle"
    BY <1>3, IdleFacts DEF Kill, KillFolder, files
  <2>2. \A t \in Tokens : SpoolOK(t)'
    BY <2>1 DEF TempInv, SpoolOK, PathOK
  <2> QED BY <2>1, <2>2, FetchAssumption DEF TempInv, PartsOK
<1>4. CASE Start
  <2>1. /\ ~up /\ UNCHANGED <<owner, fetch, path>> /\ parts' = {} /\ temps' = {} /\ stray' = {}
    BY <1>4 DEF Start, StartFolder
  <2>2. ASSUME NEW t \in Tokens PROVE SpoolOK(t)'
    <3>1. fetch[t] \in {"idle", "over"} /\ path[t] = Nothing
      BY <2>1 DEF TempInv, SpoolOK, PathOK
    <3>2. Of(t)' = {} /\ Own(t)' = {}
      BY <2>1, <3>1 DEF Of, Own
    <3> QED BY <2>1, <3>1, <3>2 DEF SpoolOK, PathOK, TempsOK
  <2> QED BY <2>1, <2>2 DEF TempInv, PartsOK
<1>5. CASE UNCHANGED allVars
  BY <1>5 DEF allVars, folderVars, fetchVars, files, TempInv, SpoolOK, PathOK, TempsOK, Of, Own, PartsOK
<1> QED
  BY <1>1, <1>2, <1>3, <1>4, <1>5 DEF FetchNext, TokenSteps

LEMMA TempInit == FetchInit => TempInv
<1> SUFFICES ASSUME FetchInit PROVE TempInv
  OBVIOUS
<1>1. \A t \in Tokens : fetch[t] = "idle" /\ path[t] = Nothing /\ Of(t) = {} /\ Own(t) = {}
  BY DEF FetchInit, Of, Own
<1>2. \A t \in Tokens : SpoolOK(t)
  BY <1>1 DEF FetchInit, SpoolOK, PathOK, TempsOK
<1>3. \A t \in Tokens : owner[t].at = "idle"
  BY IdleFacts, FetchAssumption DEF FetchInit, InitFolder
<1> QED
  BY <1>1, <1>2, <1>3 DEF FetchInit, InitFolder, TempInv, PartsOK

\* While mistarr runs a fetch has its own file and, while it is made, the rewrite, and a part in
\* dats/ is of a placing under way.
THEOREM NothingIsLeft == FetchSpec => []NothingLeft
<1>1. FetchInit => FolderTypes /\ HeedInv /\ TempInv
  BY HeedInit, TempInit
<1>2. (FolderTypes /\ HeedInv /\ TempInv) /\ [FetchNext]_allVars => (FolderTypes /\ HeedInv /\ TempInv)'
  BY HeedStep, TempStep
<1>3. TempInv => NothingLeft
  <2> SUFFICES ASSUME TempInv, up PROVE NothingLeft
    BY DEF NothingLeft
  <2>1. ASSUME NEW t \in Tokens \ stray
        PROVE  Of(t) = Own(t) \cup (IF fetch[t] = "rewrite" THEN Rewrite(t) ELSE {})
    <3>1. CASE fetch[t] = "rewrite"
      <4>1. Own(t) \subseteq Of(t) /\ \A f \in Of(t) \ Own(t) : f[2] = "out"
        BY <2>1, <3>1 DEF TempInv, SpoolOK, TempsOK
      <4> QED BY <3>1, <4>1 DEF Rewrite
    <3>2. CASE fetch[t] # "rewrite"
      BY <2>1, <3>2 DEF TempInv, SpoolOK, TempsOK
    <3> QED BY <3>1, <3>2
  <2> QED BY <2>1 DEF NothingLeft, TempInv, PartsOK
<1> QED
  BY <1>1, <1>2, <1>3, PTL DEF FetchSpec
=============================================================================
