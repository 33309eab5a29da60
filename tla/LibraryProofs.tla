---------------------------- MODULE LibraryProofs ----------------------------
(***************************************************************************)
(* What a scan never loses, and what an image waits for: the action         *)
(* properties of Library and the invariant of Images, for every platform,   *)
(* set of files, directories and images, batch size and case.               *)
(*                                                                         *)
(* A step of the system is a step of Library, with or without one of        *)
(* Images, or one of Images alone.  What a scan knows, ScanInv, is kept by  *)
(* steps that leave the size and mtime of every row as they are (loads,     *)
(* recomputes), by those that write a batch, whose effect on the rows       *)
(* CommitStores says once, by the renames, whose files count as touched,    *)
(* and by the steps of the walk itself, one by one.  On that rest the ids   *)
(* of the rows and the sizes of the batches, FitInv, and so the types.      *)
(***************************************************************************)
EXTENDS Images, FiniteSetTheorems, SequenceTheorems, WellFoundedInduction, TLAPS

-----------------------------------------------------------------------------
(* Numbers and orders. *)

\* A set of numbers has a least one.
LEMMA HasLeast ==
    ASSUME NEW S, S \subseteq Nat, S # {}
    PROVE  \E x \in S : \A y \in S : x <= y
<1>1. PICK x \in S : \A y \in S : <<y, x>> \notin OpToRel(<, Nat)
  BY NatLessThanWellFounded, WFMin
<1>2. ASSUME NEW y \in S PROVE x <= y
  <2>1. x \in Nat /\ y \in Nat /\ ~(y < x)
    BY <1>1 DEF OpToRel
  <2> QED
    BY <2>1
<1> QED
  BY <1>2

\* A set that has 0, and n + 1 with n, has all the numbers to n.
LEMMA Upward ==
    ASSUME NEW N \in Nat, NEW S, 0 \in S, \A n \in S : n \in 0..(N - 1) => n + 1 \in S
    PROVE  0..N \subseteq S
<1> DEFINE Left == {n \in 0..N : n \notin S}
<1> SUFFICES ASSUME Left # {} PROVE FALSE
  OBVIOUS
<1>1. PICK n \in Left : \A k \in Left : n <= k
  <2>1. Left \subseteq Nat
    OBVIOUS
  <2> QED
    BY <2>1, HasLeast
<1>2. n \in 0..N /\ n # 0 /\ n \notin S
  BY <1>1
<1>3. n - 1 \in 0..(N - 1) /\ n - 1 \in 0..N /\ (n - 1) + 1 = n
  BY <1>2
<1>4. n - 1 \notin Left
  BY <1>1, <1>3
<1> QED
  BY <1>2, <1>3, <1>4

\* A finite set of numbers has a greatest one.
LEMMA HasMax ==
    ASSUME NEW S, IsFiniteSet(S), S \subseteq Nat, S # {}
    PROVE  Max(S) \in S /\ \A y \in S : y <= Max(S)
<1> DEFINE Above(d) == {e \in S : e > d}
           N == {Cardinality(Above(d)) : d \in S}
<1>1. ASSUME NEW d \in S PROVE IsFiniteSet(Above(d)) /\ Cardinality(Above(d)) \in Nat
  <2>1. Above(d) \subseteq S
    OBVIOUS
  <2> HIDE DEF Above
  <2> QED
    BY <2>1, FS_Subset, FS_CardinalityType
<1>2. PICK d \in S : \A e \in S : Cardinality(Above(d)) <= Cardinality(Above(e))
  <2>1. N \subseteq Nat /\ N # {}
    BY <1>1
  <2>2. PICK n \in N : \A m \in N : n <= m
    BY <2>1, HasLeast
  <2> HIDE DEF Above
  <2> QED
    BY <2>2
<1>3. ASSUME NEW e \in S PROVE e <= d
  <2> SUFFICES ASSUME e > d PROVE FALSE
    OBVIOUS
  <2>1. Above(e) \subseteq Above(d) /\ e \in Above(d) /\ e \notin Above(e)
    <3>1. d \in Nat /\ e \in Nat /\ e > d
      OBVIOUS
    <3>2. ASSUME NEW x \in S, x > e PROVE x > d
      <4>1. x \in Nat
        OBVIOUS
      <4> QED
        BY <3>1, <3>2, <4>1
    <3>3. ~(e > e)
      BY <3>1
    <3> QED
      BY <3>1, <3>2, <3>3
  <2>2. Cardinality(Above(e)) < Cardinality(Above(d))
    <3> HIDE DEF Above
    <3>1. Above(e) # Above(d)
      BY <2>1
    <3> QED
      BY <2>1, <3>1, <1>1, FS_Subset, FS_CardinalityType
  <2> HIDE DEF Above
  <2> QED
    BY <1>1, <1>2, <2>2
<1>4. \E x \in S : \A y \in S : x >= y
  BY <1>3
<1>5. Max(S) \in S /\ \A y \in S : Max(S) >= y
  <2>1. Max(S) = CHOOSE x \in S : \A y \in S : x >= y
    BY DEF Max
  <2> QED
    BY <1>4, <2>1
<1> QED
  BY <1>5

\* Of a set of members of a sequence one comes first.
LEMMA EarliestIn ==
    ASSUME NEW T, NEW order \in Seq(T), NEW S, S # {}, S \subseteq ToSet(order)
    PROVE  Earliest(order, S) \in S
<1> DEFINE I == {i \in DOMAIN order : order[i] \in S}
<1>1. I \subseteq Nat /\ I # {}
  BY DEF ToSet
<1>2. PICK i \in I : \A j \in I : i <= j
  BY <1>1, HasLeast
<1> QED
  BY <1>2 DEF Earliest

-----------------------------------------------------------------------------
(* The types. *)

Rename == [id : Nat, to : Paths, mtime : Nat, stale : Nat \cup {None}]
Work   == [job : {"load", "retired", "unmatched", "recomputed", "recheck"}, after : Nat]

Types ==
    /\ given \in Cases
    /\ budget \in [Events -> Nat] /\ budget["copy"] <= given.budget["copy"]
    /\ disk \in [Paths -> File \cup {None}] /\ shut \subseteq Dirs
    /\ rows \in [Paths -> Row \cup {None}] /\ roms \in [Roms -> Listed \cup {None}]
    /\ saved \subseteq Dirs /\ touched \subseteq Paths /\ closed \subseteq Dirs
    /\ wanted \in BOOLEAN /\ again \in BOOLEAN /\ told \in BOOLEAN
    /\ bg = None \/ bg \in Work
    /\ moving = None \/ moving \in Rename
    /\ scan = None \/ scan \in ScanState

-----------------------------------------------------------------------------
(* What a scan knows. *)

\* A file that lay untouched and in reach since the scan began, and one whose row says so.
Lay(p)     == disk[p] # None /\ p \notin touched
Current(p) == Same(rows[p], Stat(p))

Tracked(s, p) == \E i \in DOMAIN s.tracks : s.tracks[i].path = p
Batched(s, p) == \E i \in DOMAIN s.sink : s.sink[i].path = p
Underway(s, p) == p \in s.left \/ Tracked(s, p) \/ Batched(s, p)

InReach == (scan # None \/ saved # {}) => \A p \in Paths \ touched : Reach(p)

\* A directory that is saved as done has its rows.
SavedStored == \A p \in Paths : (saved # {} /\ Lay(p) /\ DirOf[p] \in saved) => Current(p)

\* Where the scan is says what it has in hand.
HandsFit(s) ==
    /\ s.at # "file" => s.left = {} /\ s.tracks = <<>>
    /\ s.at \notin {"file", "flush"} => s.sink = <<>>
    /\ s.left \subseteq DOMAIN s.stat
    /\ \A i \in DOMAIN s.tracks : s.tracks[i].path \in DOMAIN s.stat
    /\ DOMAIN s.stat \subseteq s.keep
    /\ \A i \in DOMAIN s.sink : s.sink[i].path \in s.keep

Agrees(row, s) == row.size = s.size /\ row.mtime = s.mtime

\* What it read of a file that lay there is still so.
ReadRight(s) ==
    \A p \in Paths : Lay(p) =>
        /\ p \in DOMAIN s.stat => s.stat[p] = Stat(p)
        /\ \A i \in DOMAIN s.sink : s.sink[i].path = p => Agrees(s.sink[i].row, Stat(p))

\* Every file that lay there is in a directory still to come, or is kept and has its row, or
\* one under way.
Accounted(s, p) ==
    /\ DirOf[p] \in s.units \cup s.done
    /\ DirOf[p] \in s.done => p \in s.keep /\ (Current(p) \/ Underway(s, p))

\* What lies in a directory that could not be read is kept, or the directory is known as unread
\* or still to come.
Spared(s, p) ==
    \A d \in Within(DirOf[p]) \cap closed : p \in s.keep \/ Lies(p, s.unread) \/ d \in s.units

WalkInv(s) ==
    /\ closed \subseteq shut
    /\ HandsFit(s) /\ ReadRight(s)
    /\ \A p \in Paths : Lay(p) => Accounted(s, p)
    /\ \A p \in Paths : rows[p] # None => Spared(s, p)

ScanInv ==
    /\ InReach /\ SavedStored
    /\ (scan # None /\ scan.at # "clear") => WalkInv(scan)
    /\ (scan # None /\ scan.at = "clear") => \A p \in Paths : Lay(p) => Current(p)

LibraryInv == Types /\ ScanInv

-----------------------------------------------------------------------------
(* Rows and their matches. *)

Table == [Paths -> Row \cup {None}]

\* A row, and what it may become without a scan telling the two apart.
SameStamp(a, b) ==
    /\ (a = None) = (b = None)
    /\ a # None => a.id = b.id /\ a.size = b.size /\ a.mtime = b.mtime

SameStamps(rs, new) == \A p \in Paths : SameStamp(rs[p], new[p])

\* A row given a rom and a state is a row of the same file.
LEMMA Rematched ==
    ASSUME NEW row \in Row, NEW r \in Roms \cup {None}, NEW s \in States
    PROVE  LET new == [row EXCEPT !.rom = r, !.state = s] IN new \in Row /\ SameStamp(row, new)
<1>1. row # None /\ None \notin Row
  BY LibraryAssumption
<1>2. [row EXCEPT !.rom = r, !.state = s] \in Row
  BY DEF Row
<1>3. /\ [row EXCEPT !.rom = r, !.state = s].id = row.id
      /\ [row EXCEPT !.rom = r, !.state = s].size = row.size
      /\ [row EXCEPT !.rom = r, !.state = s].mtime = row.mtime
  BY DEF Row
<1> QED
  BY <1>1, <1>2, <1>3 DEF SameStamp

\* What a hash matches is a rom or nothing.
LEMMA MatchTypes ==
    ASSUME roms \in [Roms -> Listed \cup {None}], NEW c
    PROVE  LiveMatch(c) \in Roms \cup {None} /\ BestMatch(c) \in Roms \cup {None}
<1>1. ASSUME NEW S, S \subseteq Roms PROVE One(S) \in Roms \cup {None}
  BY <1>1 DEF One
<1>2. ListOf(c) \subseteq Roms
  BY DEF ListOf, Known
<1>3. LiveMatch(c) \in Roms \cup {None} /\ One(ListOf(c)) \in Roms \cup {None}
  BY <1>1, <1>2 DEF LiveMatch
<1> QED
  BY <1>3 DEF BestMatch

LEMMA StateTypes == \A p, r : StateOf(p, r) \in States
BY DEF StateOf, States

LEMMA DiscStates ==
    ASSUME NEW m, NEW p
    PROVE  DiscState(m, p) \in States
<1>1. DiscState(m, p) = "unverified" \/ DiscState(m, p) = StateOf(p, m[p])
  BY DEF DiscState
<1> QED
  BY <1>1, StateTypes DEF States

LEMMA StoredTypes ==
    ASSUME roms \in [Roms -> Listed \cup {None}], NEW row
    PROVE  StoredMatch(row) \in Roms \cup {None}
BY MatchTypes DEF StoredMatch

\* Matching rows again leaves them where they are, of the same size and time.
LEMMA RematchStays ==
    ASSUME roms \in [Roms -> Listed \cup {None}], NEW rs \in Table, NEW P \in SUBSET Paths,
           \A p \in P : rs[p] # None
    PROVE  Rematch(rs, P) \in Table /\ SameStamps(rs, Rematch(rs, P))
<1>1. ASSUME NEW p \in Paths, NEW r \in Roms \cup {None}, NEW s \in States, rs[p] # None
      PROVE  /\ [rs[p] EXCEPT !.rom = r, !.state = s] \in Row
             /\ SameStamp(rs[p], [rs[p] EXCEPT !.rom = r, !.state = s])
  <2>1. rs[p] \in Row
    BY <1>1 DEF Table
  <2> QED
    BY <2>1, Rematched
<1>2. \A p : SameStamp(rs[p], rs[p])
  BY DEF SameStamp
<1>3. ASSUME NEW p \in Paths
      PROVE  Rematch(rs, P)[p] \in Row \cup {None} /\ SameStamp(rs[p], Rematch(rs, P)[p])
  <2>1. StoredMatch(rs[p]) \in Roms \cup {None}
    BY StoredTypes
  <2>2. DiscState(Tracks(rs, DirOf[p]), p) \in States /\ StateOf(p, StoredMatch(rs[p])) \in States
    BY DiscStates, StateTypes
  <2>3. \/ Rematch(rs, P)[p] = rs[p]
        \/ /\ rs[p] # None
           /\ \/ Rematch(rs, P)[p] = [rs[p] EXCEPT !.rom = StoredMatch(rs[p]),
                                                   !.state = DiscState(Tracks(rs, DirOf[p]), p)]
              \/ Rematch(rs, P)[p] = [rs[p] EXCEPT !.rom = StoredMatch(rs[p]),
                                                   !.state = StateOf(p, StoredMatch(rs[p]))]
    BY DEF Rematch
  <2>4. CASE Rematch(rs, P)[p] = rs[p]
    BY <1>2, <2>4 DEF Table
  <2>5. CASE rs[p] # None /\ Rematch(rs, P)[p] = [rs[p] EXCEPT !.rom = StoredMatch(rs[p]),
                                                   !.state = DiscState(Tracks(rs, DirOf[p]), p)]
    <3> DEFINE r == StoredMatch(rs[p])  s == DiscState(Tracks(rs, DirOf[p]), p)
    <3> HIDE DEF r, s
    <3>1. r \in Roms \cup {None} /\ s \in States
      BY <2>1, <2>2 DEF r, s
    <3>2. Rematch(rs, P)[p] = [rs[p] EXCEPT !.rom = r, !.state = s]
      BY <2>5 DEF r, s
    <3>3. /\ [rs[p] EXCEPT !.rom = r, !.state = s] \in Row
          /\ SameStamp(rs[p], [rs[p] EXCEPT !.rom = r, !.state = s])
      BY <1>1, <2>5, <3>1, Zenon
    <3> QED
      BY <3>2, <3>3, Zenon
  <2>6. CASE rs[p] # None /\ Rematch(rs, P)[p] = [rs[p] EXCEPT !.rom = StoredMatch(rs[p]),
                                                   !.state = StateOf(p, StoredMatch(rs[p]))]
    <3> DEFINE r == StoredMatch(rs[p])  s == StateOf(p, StoredMatch(rs[p]))
    <3> HIDE DEF r, s
    <3>1. r \in Roms \cup {None} /\ s \in States
      BY <2>1, <2>2 DEF r, s
    <3>2. Rematch(rs, P)[p] = [rs[p] EXCEPT !.rom = r, !.state = s]
      BY <2>6 DEF r, s
    <3>3. /\ [rs[p] EXCEPT !.rom = r, !.state = s] \in Row
          /\ SameStamp(rs[p], [rs[p] EXCEPT !.rom = r, !.state = s])
      BY <1>1, <2>6, <3>1, Zenon
    <3> QED
      BY <3>2, <3>3, Zenon
  <2> QED
    BY <2>3, <2>4, <2>5, <2>6
<1>4. \E f : Rematch(rs, P) = [p \in Paths |-> f[p]]
  <2>1. CASE given.disc
    <3> DEFINE f == Rematch(rs, P)
    <3>1. f = [p \in Paths |-> f[p]]
      BY <2>1 DEF Rematch
    <3> QED
      BY <3>1
  <2>2. CASE ~given.disc
    <3> DEFINE f == Rematch(rs, P)
    <3>1. f = [p \in Paths |-> f[p]]
      BY <2>2 DEF Rematch
    <3> QED
      BY <3>1
  <2> QED
    BY <2>1, <2>2
<1> QED
  BY <1>3, <1>4 DEF Table, SameStamps

-----------------------------------------------------------------------------
(* A batch is written. *)

\* What CommitRow is given for entry i of a batch.
Given(batch, i) == [path |-> batch[i].path, row |-> batch[i].row, id |-> IdIn(batch, i)]

LEMMA PathsFinite == IsFiniteSet(Paths)
<1>1. PathOrder \in Seq(Paths)
  BY LibraryAssumption
<1>2. IsFiniteSet(DOMAIN PathOrder)
  <2>1. DOMAIN PathOrder = 1..Len(PathOrder) /\ Len(PathOrder) \in Nat
    BY <1>1
  <2> QED
    BY <2>1, FS_Interval
<1>3. PathOrder \in Surjection(DOMAIN PathOrder, Paths)
  <2>1. Paths = {PathOrder[i] : i \in DOMAIN PathOrder}
    BY DEF Paths, ToSet
  <2>2. PathOrder \in [DOMAIN PathOrder -> Paths]
    BY <1>1
  <2> QED
    BY <2>1, <2>2 DEF Surjection
<1> QED
  BY <1>2, <1>3, FS_Surjection

LEMMA IdTypes ==
    ASSUME rows \in Table, NEW batch \in Seq(Entry), NEW i \in DOMAIN batch
    PROVE  IdIn(batch, i) \in Nat
<1> DEFINE Present == {q \in Paths : rows[q] # None}
           Used == {rows[p].id : p \in Present}
           Added == {j \in 1..i : rows[batch[j].path] = None}
<1>1. IsFiniteSet({0} \cup Used) /\ {0} \cup Used \subseteq Nat
  <2>1. IsFiniteSet(Present)
    BY PathsFinite, FS_Subset
  <2>2. IsFiniteSet(Used)
    <3> DEFINE f == [p \in Present |-> rows[p].id]
    <3>1. f \in Surjection(Present, Used)
      BY DEF Surjection
    <3> HIDE DEF Present, Used, f
    <3> QED
      BY <2>1, <3>1, FS_Surjection
  <2>3. ASSUME NEW p \in Present PROVE rows[p].id \in Nat
    BY DEF Table, Row
  <2>4. IsFiniteSet({0} \cup Used)
    <3> HIDE DEF Used
    <3> QED
      BY <2>2, FS_Singleton, FS_Union
  <2> QED
    BY <2>3, <2>4
<1>2. Max({0} \cup Used) \in Nat
  <2> HIDE DEF Used
  <2> QED
    BY <1>1, HasMax
<1>3. Cardinality(Added) \in Nat
  <2>1. IsFiniteSet(1..i)
    BY FS_Interval
  <2>2. Added \subseteq 1..i
    OBVIOUS
  <2> HIDE DEF Added
  <2> QED
    BY <2>1, <2>2, FS_Subset, FS_CardinalityType
<1>4. CASE rows[batch[i].path] # None
  <2>1. batch[i] \in Entry
    OBVIOUS
  <2>2. batch[i].path \in Paths
    BY <2>1 DEF Entry
  <2>3. rows[batch[i].path].id \in Nat
    BY <1>4, <2>2 DEF Table, Row
  <2> QED
    BY <1>4, <2>3 DEF IdIn
<1>5. CASE rows[batch[i].path] = None
  <2>1. IdIn(batch, i) = Max({0} \cup Used) + Cardinality(Added)
    BY <1>5 DEF IdIn
  <2> HIDE DEF Used, Added
  <2> QED
    BY <1>2, <1>3, <2>1
<1> QED
  BY <1>4, <1>5

\* A row is stored at its path, with its size and time; every other one stays where it is.
LEMMA CommitRowStores ==
    ASSUME roms \in [Roms -> Listed \cup {None}], NEW rs \in Table, NEW path \in Paths,
           NEW row \in Fresh, NEW id \in Nat
    PROVE  LET new == CommitRow(rs, [path |-> path, row |-> row, id |-> id])
           IN  /\ new \in Table
               /\ new[path] # None /\ new[path].id = id /\ new[path].size = row.size /\ new[path].mtime = row.mtime
               /\ \A p \in Paths \ {path} : SameStamp(rs[p], new[p])
<1> DEFINE e == [path |-> path, row |-> row, id |-> id]
           r == [id |-> id, size |-> row.size, mtime |-> row.mtime, sum |-> row.sum,
                 level |-> row.level, rom |-> row.rom, state |-> row.state]
           up == Upsert(rs, e)
<1>1. r \in Row /\ r # None /\ r.id = id /\ r.size = row.size /\ r.mtime = row.mtime
  <2>1. r \in Row
    BY DEF Fresh, Row
  <2> QED
    BY <2>1, LibraryAssumption
<1>2. up = [rs EXCEPT ![path] = r]
  BY DEF Upsert
<1>3. up \in Table /\ up[path] = r /\ \A p \in Paths \ {path} : up[p] = rs[p]
  BY <1>1, <1>2 DEF Table
<1>4. \A p \in Paths \ {path} : SameStamp(rs[p], up[p])
  BY <1>3 DEF SameStamp
<1>5. CommitRow(rs, e) = up \/ CommitRow(rs, e) = Rematch(up, {path})
  BY DEF CommitRow
<1>6. Rematch(up, {path}) \in Table /\ SameStamps(up, Rematch(up, {path}))
  <2>1. \A p \in {path} : up[p] # None
    BY <1>1, <1>3
  <2> HIDE DEF up
  <2> QED
    BY <1>3, <2>1, RematchStays
<1>7. CASE CommitRow(rs, e) = up
  BY <1>1, <1>3, <1>4, <1>7
<1>8. CASE CommitRow(rs, e) = Rematch(up, {path})
  <2> DEFINE new == Rematch(up, {path})
  <2>1. ASSUME NEW p \in Paths PROVE SameStamp(up[p], new[p])
    BY <1>6 DEF SameStamps
  <2>2. new[path] # None /\ new[path].id = id /\ new[path].size = row.size /\ new[path].mtime = row.mtime
    BY <1>1, <1>3, <2>1 DEF SameStamp
  <2>3. ASSUME NEW p \in Paths \ {path} PROVE SameStamp(rs[p], new[p])
    BY <1>3, <2>1
  <2> HIDE DEF new, up
  <2> QED
    BY <1>6, <1>8, <2>2, <2>3 DEF new
<1> HIDE DEF up, r
<1> QED
  BY <1>5, <1>7, <1>8

\* What the first n entries of a batch make of the rows: the paths among them have the id, size
\* and time of one of their entries, the others what they had.
StoredOf(batch, i, p, row) ==
    /\ batch[i].path = p /\ row # None /\ row.id = IdIn(batch, i)
    /\ row.size = batch[i].row.size /\ row.mtime = batch[i].row.mtime

Stored(batch, n, new) ==
    /\ new \in Table
    /\ \A p \in Paths : \/ \E i \in 1..n : StoredOf(batch, i, p, new[p])
                        \/ (\A i \in 1..n : batch[i].path # p) /\ SameStamp(rows[p], new[p])

LEMMA StoreOne ==
    ASSUME roms \in [Roms -> Listed \cup {None}], rows \in Table, NEW batch \in Seq(Entry),
           NEW n \in 1..Len(batch), NEW rs, Stored(batch, n - 1, rs)
    PROVE  Stored(batch, n, CommitRow(rs, Given(batch, n)))
<1> DEFINE path == batch[n].path  row == batch[n].row  new == CommitRow(rs, Given(batch, n))
<1>1. path \in Paths /\ row \in Fresh /\ IdIn(batch, n) \in Nat
  <2>1. n \in DOMAIN batch /\ batch[n] \in Entry
    OBVIOUS
  <2> QED
    BY <2>1, IdTypes DEF Entry
<1>2. rs \in Table
  BY DEF Stored
<1>3. /\ new \in Table
      /\ new[path] # None /\ new[path].id = IdIn(batch, n) /\ new[path].size = row.size /\ new[path].mtime = row.mtime
      /\ \A p \in Paths \ {path} : SameStamp(rs[p], new[p])
  <2> HIDE DEF path, row
  <2>1. new = CommitRow(rs, [path |-> path, row |-> row, id |-> IdIn(batch, n)])
    BY DEF Given, path, row
  <2> HIDE DEF new
  <2> QED
    BY <1>1, <1>2, <2>1, CommitRowStores
<1>4. ASSUME NEW p \in Paths
      PROVE  \/ \E i \in 1..n : StoredOf(batch, i, p, new[p])
             \/ (\A i \in 1..n : batch[i].path # p) /\ SameStamp(rows[p], new[p])
  <2>1. CASE p = path
    BY <1>3, <2>1 DEF StoredOf
  <2>2. CASE p # path
    <3>1. SameStamp(rs[p], new[p])
      BY <1>3, <2>2
    <3>2. CASE \E i \in 1..(n - 1) : StoredOf(batch, i, p, rs[p])
      <4>1. PICK i \in 1..(n - 1) : StoredOf(batch, i, p, rs[p])
        BY <3>2
      <4>2. i \in 1..n /\ StoredOf(batch, i, p, new[p])
        BY <3>1, <4>1 DEF StoredOf, SameStamp
      <4> QED
        BY <4>2
    <3>3. CASE (\A i \in 1..(n - 1) : batch[i].path # p) /\ SameStamp(rows[p], rs[p])
      <4>1. SameStamp(rows[p], new[p])
        BY <3>1, <3>3 DEF SameStamp
      <4>2. \A i \in 1..n : i \in 1..(n - 1) \/ i = n
        OBVIOUS
      <4>3. \A i \in 1..n : batch[i].path # p
        BY <2>2, <3>3, <4>2
      <4> QED
        BY <4>1, <4>3
    <3> QED
      BY <3>2, <3>3 DEF Stored
  <2> QED
    BY <2>1, <2>2
<1> HIDE DEF new
<1>5. Stored(batch, n, new)
  BY <1>3, <1>4 DEF Stored
<1> QED
  BY <1>5 DEF new

\* The rows after each entry, in order.
LEMMA CommitSteps ==
    ASSUME NEW batch \in Seq(Entry)
    PROVE  \E f : /\ CommitUnit(batch) = f[Len(batch)] /\ f[0] = rows
                  /\ \A n \in 1..Len(batch) : f[n] = CommitRow(f[n - 1], Given(batch, n))
<1> DEFINE N == Len(batch)
           G(f, m) == [n \in 0..m |-> IF n = 0 THEN rows ELSE CommitRow(f[n - 1], Given(batch, n))]
           S == {m \in 0..N : \E f : f = G(f, m)}
           after == CHOOSE f : f = G(f, N)
<1>1. N \in Nat
  OBVIOUS
<1>2. 0 \in S
  <2>1. [n \in 0..0 |-> rows] = G([n \in 0..0 |-> rows], 0)
    OBVIOUS
  <2>2. \E f : f = G(f, 0)
    BY <2>1
  <2>3. 0 \in 0..N
    BY <1>1
  <2> QED
    BY <2>2, <2>3
<1>3. ASSUME NEW m \in S, m \in 0..(N - 1) PROVE m + 1 \in S
  <2>1. PICK f : f = G(f, m)
    OBVIOUS
  <2> DEFINE g == [n \in 0..(m + 1) |-> IF n = m + 1 THEN CommitRow(f[m], Given(batch, m + 1)) ELSE f[n]]
  <2>2. m \in Nat /\ m + 1 \in 0..N /\ m + 1 # 0
    BY <1>3, <1>1
  <2>3. ASSUME NEW n \in 0..(m + 1)
        PROVE  g[n] = IF n = 0 THEN rows ELSE CommitRow(g[n - 1], Given(batch, n))
    <3>1. CASE n = m + 1
      <4>1. n - 1 = m /\ n - 1 \in 0..(m + 1) /\ n # 0 /\ n - 1 # m + 1
        BY <2>2, <3>1
      <4>2. g[n - 1] = f[m]
        BY <4>1
      <4> QED
        BY <3>1, <4>1, <4>2
    <3>2. CASE n # m + 1
      <4>1. n \in 0..m /\ g[n] = f[n]
        BY <2>2, <3>2
      <4>2. f[n] = IF n = 0 THEN rows ELSE CommitRow(f[n - 1], Given(batch, n))
        BY <2>1, <4>1
      <4>3. n # 0 => n - 1 \in 0..(m + 1) /\ n - 1 # m + 1
        BY <2>2, <4>1
      <4>4. n # 0 => g[n - 1] = f[n - 1]
        BY <4>3
      <4> QED
        BY <4>1, <4>2, <4>4
    <3> QED
      BY <3>1, <3>2
  <2>4. g = G(g, m + 1)
    <3>1. g = [n \in 0..(m + 1) |-> g[n]]
      OBVIOUS
    <3> HIDE DEF g
    <3> QED
      BY <2>3, <3>1
  <2> HIDE DEF g
  <2> QED
    BY <2>2, <2>4
<1>4. N \in S
  <2>1. \A n \in S : n \in 0..(N - 1) => n + 1 \in S
    BY <1>3
  <2> HIDE DEF S
  <2>2. 0..N \subseteq S
    BY <1>1, <1>2, <2>1, Upward
  <2> QED
    BY <1>1, <2>2
<1>5. after = G(after, N)
  <2>1. \E f : f = G(f, N)
    BY <1>4
  <2> QED
    BY <2>1
<1>6. CommitUnit(batch) = after[Len(batch)]
  BY Zenon DEF CommitUnit, Given
<1> HIDE DEF after
<1>7. after[0] = rows
  <2>1. 0 \in 0..N
    BY <1>1
  <2> QED
    BY <1>5, <2>1
<1>8. ASSUME NEW n \in 1..Len(batch) PROVE after[n] = CommitRow(after[n - 1], Given(batch, n))
  <2>1. n \in 0..N /\ n # 0
    BY <1>1
  <2> QED
    BY <1>5, <2>1
<1> QED
  BY <1>6, <1>7, <1>8

\* The rows of a batch are stored, and no other file's size or time changes.
LEMMA CommitStores ==
    ASSUME roms \in [Roms -> Listed \cup {None}], rows \in Table, NEW batch \in Seq(Entry)
    PROVE  Stored(batch, Len(batch), CommitUnit(batch))
<1>1. PICK f : /\ CommitUnit(batch) = f[Len(batch)] /\ f[0] = rows
               /\ \A n \in 1..Len(batch) : f[n] = CommitRow(f[n - 1], Given(batch, n))
  BY CommitSteps
<1> DEFINE N == Len(batch)
           S == {n \in 0..N : Stored(batch, n, f[n])}
<1>2. N \in Nat
  OBVIOUS
<1>3. 0 \in S
  <2>1. Stored(batch, 0, rows)
    BY DEF Stored, SameStamp
  <2> QED
    BY <1>1, <1>2, <2>1
<1>4. ASSUME NEW n \in S, n \in 0..(N - 1) PROVE n + 1 \in S
  <2>1. n + 1 \in 1..N /\ (n + 1) - 1 = n /\ n + 1 \in 0..N
    BY <1>2, <1>4
  <2>2. Stored(batch, (n + 1) - 1, f[n])
    BY <2>1
  <2>3. Stored(batch, n + 1, CommitRow(f[n], Given(batch, n + 1)))
    BY <2>1, <2>2, StoreOne
  <2>4. f[n + 1] = CommitRow(f[n], Given(batch, n + 1))
    BY <1>1, <2>1
  <2> QED
    BY <2>1, <2>3, <2>4
<1>5. 0..N \subseteq S
  <2>1. \A n \in S : n \in 0..(N - 1) => n + 1 \in S
    BY <1>4
  <2> HIDE DEF S
  <2> QED
    BY <1>2, <1>3, <2>1, Upward
<1>6. N \in S
  BY <1>2, <1>5
<1> QED
  BY <1>1, <1>6

-----------------------------------------------------------------------------
(* Steps beside the scan. *)

\* The scan goes on as it was, held or not.
SameScan(s, t) ==
    /\ t.at = s.at /\ t.units = s.units /\ t.done = s.done /\ t.keep = s.keep /\ t.unread = s.unread
    /\ t.left = s.left /\ t.stat = s.stat /\ t.tracks = s.tracks /\ t.sink = s.sink

ScanStays == saved' = saved /\ (scan' = None) = (scan = None) /\ (scan # None => SameScan(scan, scan'))

\* A file that still counts as untouched was and is, in its place and with its row.
Undisturbed(p) == Lay(p)' => Lay(p) /\ disk'[p] = disk[p] /\ SameStamp(rows[p], rows'[p])

LEMMA CurrentStays ==
    ASSUME NEW p, disk'[p] = disk[p], SameStamp(rows[p], rows'[p]), Current(p)
    PROVE  Current(p)'
<1>1. Stat(p)' = Stat(p)
  BY DEF Stat
<1> QED
  BY <1>1 DEF Current, Same, SameStamp

\* What a scan knows outlives a step that disturbs only files it counts as touched.
LEMMA BesideScan ==
    ASSUME ScanInv, given' = given, ScanStays,
           scan # None \/ saved # {} =>
              /\ \A p \in Paths : Undisturbed(p)
              /\ \A p \in Paths \ touched' : p \notin touched /\ (Reach(p) => Reach(p)'),
           scan # None =>
              /\ closed' \subseteq closed /\ (closed \subseteq shut => closed' \subseteq shut')
              /\ \A p \in Paths : rows'[p] # None => rows[p] # None \/ Within(DirOf[p]) \cap closed' = {},
           Types
    PROVE  ScanInv'
<1> DEFINE begun == scan # None \/ saved # {}
<1>1. (scan' # None \/ saved' # {}) = begun /\ saved' = saved
  BY DEF ScanStays
<1>2. ASSUME begun, NEW p \in Paths, Lay(p)' PROVE Lay(p) /\ (Current(p) => Current(p)') /\ Stat(p)' = Stat(p)
  <2>1. Lay(p) /\ disk'[p] = disk[p] /\ SameStamp(rows[p], rows'[p])
    BY <1>2 DEF Undisturbed
  <2>2. Stat(p)' = Stat(p)
    BY <2>1 DEF Stat
  <2> QED
    BY <2>1, <2>2, CurrentStays
<1>3. InReach'
  BY <1>1 DEF InReach, ScanInv
<1>4. SavedStored'
  <2> SUFFICES ASSUME NEW p \in Paths, saved' # {}, Lay(p)', DirOf[p] \in saved' PROVE Current(p)'
    BY DEF SavedStored
  <2>1. Lay(p) /\ (Current(p) => Current(p)')
    BY <1>1, <1>2
  <2> QED
    BY <1>1, <2>1 DEF ScanInv, SavedStored
<1>5. ASSUME scan' # None PROVE SameScan(scan, scan') /\ scan # None
  BY <1>5 DEF ScanStays
<1>6. ASSUME scan' # None, scan'.at # "clear" PROVE WalkInv(scan)'
  <2>1. SameScan(scan, scan') /\ scan # None /\ WalkInv(scan) /\ scan \in ScanState
    BY <1>5, <1>6 DEF ScanInv, SameScan, Types
  <2>2. HandsFit(scan')
    BY <2>1 DEF WalkInv, HandsFit, SameScan
  <2>3. ReadRight(scan)'
    <3> SUFFICES ASSUME NEW p \in Paths, Lay(p)'
                 PROVE  /\ p \in DOMAIN scan'.stat => scan'.stat[p] = Stat(p)'
                        /\ \A i \in DOMAIN scan'.sink : scan'.sink[i].path = p => Agrees(scan'.sink[i].row, Stat(p)')
      BY DEF ReadRight, Agrees
    <3>1. Lay(p) /\ Stat(p)' = Stat(p)
      BY <1>1, <1>2, <1>6
    <3>2. /\ p \in DOMAIN scan.stat => scan.stat[p] = Stat(p)
          /\ \A i \in DOMAIN scan.sink : scan.sink[i].path = p => Agrees(scan.sink[i].row, Stat(p))
      BY <2>1, <3>1 DEF WalkInv, ReadRight
    <3>3. scan'.stat = scan.stat /\ scan'.sink = scan.sink
      BY <2>1 DEF SameScan
    <3> QED
      BY <3>1, <3>2, <3>3
  <2>4. ASSUME NEW p \in Paths, Lay(p)' PROVE Accounted(scan, p)'
    <3>1. Lay(p) /\ (Current(p) => Current(p)')
      BY <1>2, <2>1, <2>4
    <3>2. Accounted(scan, p)
      BY <2>1, <3>1 DEF WalkInv
    <3>3. Underway(scan, p) => Underway(scan, p)'
      BY <2>1 DEF Underway, Tracked, Batched, SameScan
    <3> QED
      BY <2>1, <3>1, <3>2, <3>3 DEF Accounted, SameScan
  <2>5. ASSUME NEW p \in Paths, rows'[p] # None PROVE Spared(scan, p)'
    <3>1. ASSUME NEW d \in Within(DirOf[p]) \cap closed'
          PROVE  p \in scan'.keep \/ Within(DirOf[p]) \cap scan'.unread # {} \/ d \in scan'.units
      <4>1. rows[p] # None /\ d \in Within(DirOf[p]) \cap closed
        BY <2>1, <2>5, <3>1
      <4>2. p \in scan.keep \/ Within(DirOf[p]) \cap scan.unread # {} \/ d \in scan.units
        BY <2>1, <4>1 DEF WalkInv, Spared, Lies
      <4> QED
        BY <2>1, <4>2 DEF SameScan
    <3>2. Within(DirOf[p])' = Within(DirOf[p])
      BY DEF Within
    <3> QED
      BY <3>1, <3>2 DEF Spared, Lies
  <2>6. closed' \subseteq shut'
    BY <2>1 DEF WalkInv
  <2> QED
    BY <2>2, <2>3, <2>4, <2>5, <2>6 DEF WalkInv, HandsFit
<1>7. ASSUME scan' # None, scan'.at = "clear", NEW p \in Paths, Lay(p)' PROVE Current(p)'
  <2>1. SameScan(scan, scan') /\ scan # None
    BY <1>5, <1>7
  <2>2. Lay(p) /\ (Current(p) => Current(p)')
    BY <1>2, <1>7, <2>1
  <2>3. scan.at = "clear"
    BY <1>7, <2>1 DEF SameScan
  <2> QED
    BY <2>1, <2>2, <2>3 DEF ScanInv
<1>8. ScanInv' = (InReach' /\ SavedStored' /\ ((scan' # None /\ scan'.at # "clear") => WalkInv(scan)')
                 /\ ((scan' # None /\ scan'.at = "clear") => \A p \in Paths : Lay(p)' => Current(p)'))
  BY DEF ScanInv
<1> QED
  BY <1>3, <1>4, <1>6, <1>7, <1>8

\* A step that leaves every row its size and time, and nothing else that a scan knows changed.
LEMMA RowsAlone ==
    ASSUME Types, ScanInv, UNCHANGED <<given, disk, shut, saved, touched, closed>>,
           (scan' = None) = (scan = None), scan # None => SameScan(scan, scan'),
           \A p \in Paths : SameStamp(rows[p], rows'[p])
    PROVE  ScanInv'
<1>1. ScanStays
  BY DEF ScanStays
<1>2. \A p \in Paths : Undisturbed(p)
  BY DEF Undisturbed, Lay
<1>3. \A p \in Paths \ touched' : p \notin touched /\ (Reach(p) => Reach(p)')
  BY DEF Reach, Within
<1>4. \A p \in Paths : rows'[p] # None => rows[p] # None
  BY DEF SameStamp
<1> QED
  BY <1>1, <1>2, <1>3, <1>4, BesideScan

\* ... and that changes no row at all.
LEMMA NoRow ==
    ASSUME Types, ScanInv, UNCHANGED <<given, disk, shut, rows, saved, scan, touched, closed>>
    PROVE  ScanInv'
<1>1. \A p \in Paths : SameStamp(rows[p], rows'[p])
  BY DEF SameStamp
<1>2. scan # None => SameScan(scan, scan')
  BY DEF SameScan
<1> QED
  BY <1>1, <1>2, RowsAlone

\* The user and the card.
LEMMA CardKeeps ==
    ASSUME Types, ScanInv,
           \/ \E p \in Paths : Delete(p) \/ RenameFile(p) \/ \E c \in Contents : Copy(p, c)
           \/ \E d \in Dirs : Shut(d) \/ Reopen(d)
    PROVE  ScanInv'
<1> DEFINE begun == scan # None \/ saved # {}
<1>1. given' = given /\ rows' = rows /\ UNCHANGED <<saved, scan>>
  BY DEF Delete, RenameFile, Copy, Shut, Reopen, table, lanes
<1>2. ScanStays
  BY <1>1 DEF ScanStays, SameScan
<1>3. begun => \A p \in Paths : Undisturbed(p)
  <2> SUFFICES ASSUME begun, NEW p \in Paths, Lay(p)'
               PROVE  Lay(p) /\ disk'[p] = disk[p]
    BY <1>1 DEF Undisturbed, SameStamp
  <2>1. disk'[p] # None /\ p \notin touched'
    BY DEF Lay
  <2>2. CASE \E q \in Paths : Delete(q)
    BY <2>1, <2>2 DEF Delete, Touch, Lay, Types
  <2>3. CASE \E q \in Paths : RenameFile(q)
    <3>1. PICK q \in Paths : RenameFile(q)
      BY <2>3
    <3>2. /\ disk' = [disk EXCEPT ![q] = None, ![Home[rows[q].rom]] = disk[q]]
          /\ touched' = touched \cup {q, Home[rows[q].rom]}
      BY <3>1 DEF RenameFile, Touch
    <3> QED
      BY <2>1, <3>2 DEF Lay, Types
  <2>4. CASE \E q \in Paths, c \in Contents : Copy(q, c)
    BY <2>1, <2>4 DEF Copy, Touch, Lay, Types
  <2>5. CASE \E d \in Dirs : Shut(d) \/ Reopen(d)
    BY <2>1, <2>5 DEF Shut, Reopen, Touch, Lay
  <2> QED
    BY <2>2, <2>3, <2>4, <2>5
<1>4. begun => \A p \in Paths \ touched' : p \notin touched /\ (Reach(p) => Reach(p)')
  <2> SUFFICES ASSUME begun, NEW p \in Paths, p \notin touched', Within(DirOf[p]) \cap shut = {} \/ p \in touched
               PROVE  p \notin touched /\ Within(DirOf[p]) \cap shut' = {}
    BY <1>1 DEF Reach, Within
  <2>1. CASE \E q \in Paths : Delete(q) \/ RenameFile(q) \/ \E c \in Contents : Copy(q, c)
    BY <2>1 DEF Delete, RenameFile, Copy, Touch
  <2>2. CASE \E d \in Dirs : Shut(d)
    BY <2>2 DEF Shut, Touch, Lies
  <2>3. CASE \E d \in Dirs : Reopen(d)
    BY <2>3 DEF Reopen
  <2> QED
    BY <2>1, <2>2, <2>3
<1>5. closed' \subseteq closed /\ (closed \subseteq shut => closed' \subseteq shut')
  BY DEF Delete, RenameFile, Copy, Shut, Reopen
<1> QED
  BY <1>1, <1>2, <1>3, <1>4, <1>5, BesideScan

LEMMA RenameRowKeeps == ASSUME Types, ScanInv, RenameRow PROVE ScanInv'
<1> DEFINE begun == scan # None \/ saved # {}
           Changed == {p \in Paths : rows'[p] # rows[p]}
<1>1. /\ UNCHANGED <<given, disk, shut, saved, scan>> /\ Touch(Changed)
      /\ closed' = IF rows' = rows THEN closed ELSE closed \ Within(DirOf[moving.to])
  BY DEF RenameRow, world
<1>2. ScanStays
  BY <1>1 DEF ScanStays, SameScan
<1>3. begun => touched' = touched \cup Changed
  BY <1>1 DEF Touch
<1>4. begun => \A p \in Paths : Undisturbed(p)
  BY <1>1, <1>3 DEF Undisturbed, Lay, SameStamp
<1>5. begun => \A p \in Paths \ touched' : p \notin touched /\ (Reach(p) => Reach(p)')
  BY <1>1, <1>3 DEF Reach, Within
<1>6. ASSUME NEW p \in Paths, rows'[p] # None, rows[p] = None PROVE p = moving.to
  <2>1. ASSUME NEW stale PROVE (IF rows[p] # None /\ rows[p].id = stale THEN None ELSE rows[p]) = None
    BY <1>6
  <2> QED
    BY <1>6, <2>1 DEF RenameRow
<1>7. \A p \in Paths : rows'[p] # None => rows[p] # None \/ Within(DirOf[p]) \cap closed' = {}
  BY <1>1, <1>6
<1>8. closed' \subseteq closed /\ (closed \subseteq shut => closed' \subseteq shut')
  BY <1>1
<1> HIDE DEF Changed
<1> QED
  BY <1>1, <1>2, <1>4, <1>5, <1>7, <1>8, BesideScan

\* Requests, checkpoints and the catalogue.
LEMMA RequestsKeep ==
    ASSUME Types, ScanInv,
           RequestScan \/ FollowLoad \/ RemoveDat \/ FollowRemove \/ RecomputeBegin \/ RecomputeEnd
    PROVE  ScanInv'
BY NoRow DEF RequestScan, FollowLoad, RemoveDat, FollowRemove, RecomputeBegin, RecomputeEnd, world, table, past

LEMMA HoldKeeps == ASSUME Types, ScanInv, Hold \/ Free PROVE ScanInv'
<1>1. scan # None /\ UNCHANGED <<given, disk, shut, rows, saved, touched, closed>>
  BY DEF Hold, Free, AtCheckpoint, world, table, past
<1>2. scan' # None /\ SameScan(scan, scan')
  <2>1. PICK h \in BOOLEAN : scan' = [scan EXCEPT !.held = h]
    BY DEF Hold, Free
  <2> QED
    <3>1. scan \in ScanState /\ None \notin ScanState
      BY <1>1, LibraryAssumption DEF Types
    <3>2. scan' \in ScanState
      BY <2>1, <3>1 DEF ScanState
    <3> QED
      BY <2>1, <3>1, <3>2 DEF ScanState, SameScan
<1>3. \A p \in Paths : SameStamp(rows[p], rows'[p])
  BY <1>1 DEF SameStamp
<1> QED
  BY <1>1, <1>2, <1>3, RowsAlone

\* A load of a DAT and the pages of a recompute leave each row its file's size and time.
LEMMA UnmatchStays ==
    ASSUME rows \in Table, NEW v
    PROVE  Unmatch(rows, v) \in Table /\ SameStamps(rows, Unmatch(rows, v))
<1>1. ASSUME NEW p \in Paths
      PROVE  Unmatch(rows, v)[p] \in Row \cup {None} /\ SameStamp(rows[p], Unmatch(rows, v)[p])
  <2>1. CASE Unmatch(rows, v)[p] = rows[p]
    BY <2>1 DEF Table, SameStamp
  <2>2. CASE rows[p] # None /\ Unmatch(rows, v)[p] = [rows[p] EXCEPT !.rom = None, !.state = "unverified"]
    <3>1. rows[p] \in Row
      BY <2>2 DEF Table
    <3> QED
      BY <2>2, <3>1, Rematched DEF States
  <2> QED
    BY <2>1, <2>2 DEF Unmatch
<1> QED
  BY <1>1 DEF Table, SameStamps, Unmatch

LEMMA PageStays ==
    ASSUME Types, NEW P \in SUBSET Paths, \A p \in P : rows[p] # None, NEW n
    PROVE  /\ Rematch(rows, Page(P, n)) \in Table /\ SameStamps(rows, Rematch(rows, Page(P, n)))
           /\ Page(P, n) \subseteq P /\ IsFiniteSet(Page(P, n))
<1>1. Page(P, n) \subseteq P /\ Page(P, n) \in SUBSET Paths
  BY DEF Page
<1>2. IsFiniteSet(Page(P, n))
  BY <1>1, PathsFinite, FS_Subset
<1>3. \A p \in Page(P, n) : rows[p] # None
  BY <1>1
<1> QED
  BY <1>1, <1>2, <1>3, RematchStays DEF Types, Table

LEMMA CatalogueStays ==
    ASSUME Types, (\E v \in given.loads : Load(v)) \/ RecomputeRetired \/ RecomputeUnmatched
    PROVE  rows' \in Table /\ SameStamps(rows, rows')
<1>1. CASE \E v \in given.loads : Load(v)
  BY <1>1, UnmatchStays DEF Load, Store, Types, Table
<1>2. CASE RecomputeRetired
  <2>1. Retired(rows) \in SUBSET Paths /\ \A p \in Retired(rows) : rows[p] # None
    BY DEF Retired
  <2> QED
    BY <1>2, <2>1, PageStays DEF RecomputeRetired
<1>3. CASE RecomputeUnmatched
  <2>1. Unmatched(rows) \in SUBSET Paths /\ \A p \in Unmatched(rows) : rows[p] # None
    BY DEF Unmatched
  <2> QED
    BY <1>3, <2>1, PageStays DEF RecomputeUnmatched
<1> QED
  BY <1>1, <1>2, <1>3

LEMMA CatalogueKeeps ==
    ASSUME Types, ScanInv, (\E v \in given.loads : Load(v)) \/ RecomputeRetired \/ RecomputeUnmatched
    PROVE  ScanInv' /\ rows' \in Table
<1>1. UNCHANGED <<given, disk, shut, saved, scan, touched, closed>>
  BY DEF Load, RecomputeRetired, RecomputeUnmatched, world, past
<1>2. rows' \in Table /\ SameStamps(rows, rows')
  BY CatalogueStays
<1>3. scan # None => SameScan(scan, scan')
  BY <1>1 DEF SameScan
<1> QED
  BY <1>1, <1>2, <1>3, RowsAlone DEF SameStamps

-----------------------------------------------------------------------------
(* The types. *)

LEMMA SpendTypes ==
    ASSUME Types, NEW e \in Events, Spend(e)
    PROVE  budget' \in [Events -> Nat] /\ budget'["copy"] <= given.budget["copy"]
<1>1. budget' = [budget EXCEPT ![e] = budget[e] - 1] /\ budget[e] \in Nat /\ budget[e] > 0
  BY DEF Spend, Types
<1>2. "copy" \in Events /\ given.budget["copy"] \in Nat
  <2>1. given.budget \in [Events -> Nat]
    BY LibraryAssumption DEF Types
  <2> QED
    BY <2>1 DEF Events
<1>3. budget["copy"] \in Nat /\ budget["copy"] <= given.budget["copy"]
  BY <1>2 DEF Types
<1>4. budget' \in [Events -> Nat]
  BY <1>1 DEF Types
<1>5. budget'["copy"] = budget["copy"] \/ budget'["copy"] = budget["copy"] - 1
  BY <1>1, <1>2 DEF Types
<1> QED
  BY <1>2, <1>3, <1>4, <1>5

LEMMA TimeTypes == ASSUME Types PROVE Now \in Nat
<1>1. given.budget["copy"] \in Nat /\ budget["copy"] \in Nat
  <2>1. given.budget \in [Events -> Nat]
    BY LibraryAssumption DEF Types
  <2> QED
    BY <2>1 DEF Events, Types
<1> QED
  BY <1>1 DEF Now, Types

LEMMA CardTypes ==
    ASSUME Types,
           \/ \E p \in Paths : Delete(p) \/ RenameFile(p) \/ \E c \in Contents : Copy(p, c)
           \/ \E d \in Dirs : Shut(d) \/ Reopen(d)
    PROVE  Types'
<1>1. UNCHANGED <<given, rows, roms, saved, wanted, again, told, bg, scan>> /\ closed' \subseteq closed
  BY DEF Delete, RenameFile, Copy, Shut, Reopen, table, lanes
<1>2. budget' \in [Events -> Nat] /\ budget'["copy"] <= given.budget["copy"]
  <2>1. CASE \E d \in Dirs : Reopen(d)
    BY <2>1 DEF Reopen, Types
  <2>2. CASE ~\E d \in Dirs : Reopen(d)
    <3>1. \E e \in Events : Spend(e)
      BY <2>2 DEF Delete, RenameFile, Copy, Shut, Events
    <3> QED
      BY <3>1, SpendTypes
  <2> QED
    BY <2>1, <2>2
<1>3. disk' \in [Paths -> File \cup {None}] /\ touched' \subseteq Paths /\ shut' \subseteq Dirs
      /\ (moving' = None \/ moving' \in Rename)
  <2>1. CASE \E q \in Paths : Delete(q)
    BY <2>1 DEF Delete, Touch, lanes, Types
  <2>2. CASE \E q \in Paths : RenameFile(q)
    <3>1. PICK q \in Paths : RenameFile(q)
      BY <2>2
    <3> DEFINE to == Home[rows[q].rom]
    <3>2. to \in Paths /\ rows[q] \in Row /\ disk[q] \in File
      <4>1. rows[q] \in Row /\ disk[q] \in File /\ rows[q].rom \in Live
        BY <3>1 DEF RenameFile, Types
      <4>2. rows[q].rom \in Roms
        BY <4>1 DEF Live, Known
      <4> QED
        BY <4>1, <4>2, LibraryAssumption
    <3>3. rows[to] \in Row \cup {None}
      BY <3>2 DEF Types
    <3>4. moving' = [id |-> rows[q].id, to |-> to, mtime |-> disk[q].mtime,
                     stale |-> IF rows[to] = None THEN None ELSE rows[to].id]
      BY <3>1 DEF RenameFile
    <3>5. moving' \in Rename
      BY <3>2, <3>3, <3>4 DEF Rename, Row, File
    <3>6. disk' \in [Paths -> File \cup {None}]
      BY <3>1, <3>2 DEF RenameFile, Types
    <3>7. touched' \subseteq Paths /\ shut' \subseteq Dirs
      BY <3>1, <3>2 DEF RenameFile, Types, Touch
    <3> QED
      BY <3>5, <3>6, <3>7
  <2>3. CASE \E q \in Paths, c \in Contents : Copy(q, c)
    <3>1. PICK q \in Paths, c \in Contents : Copy(q, c)
      BY <2>3
    <3>2. [sum |-> c, mtime |-> Now] \in File
      BY TimeTypes DEF File
    <3> QED
      BY <3>1, <3>2 DEF Copy, Touch, lanes, Types
  <2>4. CASE \E d \in Dirs : Shut(d) \/ Reopen(d)
    BY <2>4 DEF Shut, Reopen, Touch, lanes, Types
  <2> QED
    BY <2>1, <2>2, <2>3, <2>4
<1> QED
  BY <1>1, <1>2, <1>3 DEF Types

LEMMA RenameRowTypes == ASSUME Types, RenameRow PROVE Types'
<1> DEFINE kept == [p \in Paths |-> IF rows[p] # None /\ rows[p].id = moving.stale THEN None ELSE rows[p]]
           from == {p \in Paths : kept[p] # None /\ kept[p].id = moving.id}
           moved == [kept[CHOOSE q \in from : TRUE] EXCEPT !.state = "verified", !.mtime = moving.mtime]
<1>1. moving \in Rename
  BY DEF RenameRow, Types
<1>2. kept \in [Paths -> Row \cup {None}]
  BY DEF Types
<1>3. rows' \in [Paths -> Row \cup {None}]
  <2>1. CASE rows' = rows
    BY <2>1 DEF Types
  <2>2. CASE from # {} /\ rows' = [p \in Paths |-> IF p = moving.to THEN moved ELSE IF p \in from THEN None ELSE kept[p]]
    <3>1. PICK q \in from : q = CHOOSE x \in from : TRUE
      BY <2>2
    <3>2. kept[q] \in Row
      BY <1>2, <3>1
    <3> HIDE DEF kept
    <3>3. [kept[q] EXCEPT !.state = "verified", !.mtime = moving.mtime] \in Row
      BY <1>1, <3>2 DEF Row, Rename, States
    <3>4. moved \in Row
      BY <3>1, <3>3
    <3> HIDE DEF moved
    <3> QED
      BY <1>2, <2>2, <3>4
  <2> QED
    BY <2>1, <2>2 DEF RenameRow
<1>4. UNCHANGED <<given, budget, disk, shut, roms, saved, wanted, scan, bg, again, told>> /\ moving' = None
  BY DEF RenameRow, world
<1>5. touched' \subseteq Paths /\ closed' \subseteq Dirs
  BY DEF RenameRow, Touch, Types
<1> QED
  BY <1>3, <1>4, <1>5 DEF Types

LEMMA LanesTypes ==
    ASSUME Types, \/ RequestScan \/ FollowLoad \/ RemoveDat \/ FollowRemove
                  \/ RecomputeBegin \/ RecomputeEnd \/ Hold \/ Free
    PROVE  Types'
<1>1. UNCHANGED <<given, disk, shut, rows, saved, moving, touched, closed>>
  BY DEF RequestScan, FollowLoad, RemoveDat, FollowRemove, RecomputeBegin, RecomputeEnd, Hold, Free,
         world, table, past
<1>2. budget' \in [Events -> Nat] /\ budget'["copy"] <= given.budget["copy"]
  <2>1. budget' = budget \/ Spend("remove") \/ Spend("hold")
    BY DEF RequestScan, FollowLoad, RemoveDat, FollowRemove, RecomputeBegin, RecomputeEnd, Hold, Free
  <2> QED
    BY <2>1, SpendTypes DEF Events, Types
<1>3. wanted' \in BOOLEAN /\ again' \in BOOLEAN /\ told' \in BOOLEAN
  BY DEF RequestScan, FollowLoad, RemoveDat, FollowRemove, RecomputeBegin, RecomputeEnd, Hold, Free, Types
<1>4. bg' = None \/ bg' \in Work
  BY DEF RequestScan, FollowLoad, RemoveDat, FollowRemove, RecomputeBegin, RecomputeEnd, Hold, Free, Types, Work
<1>5. roms' \in [Roms -> Listed \cup {None}]
  <2>1. CASE RemoveDat
    <3>1. \A r \in Roms : roms[r] # None => [roms[r] EXCEPT !.live = FALSE] \in Listed
      BY DEF Types, Listed
    <3> QED
      BY <2>1, <3>1 DEF RemoveDat
  <2>2. CASE ~RemoveDat
    BY <2>2 DEF RequestScan, FollowLoad, FollowRemove, RecomputeBegin, RecomputeEnd, Hold, Free, table, Types
  <2> QED
    BY <2>1, <2>2
<1>6. scan' = None \/ scan' \in ScanState
  <2>1. scan' = scan \/ (scan # None /\ \E h \in BOOLEAN : scan' = [scan EXCEPT !.held = h])
    BY DEF RequestScan, FollowLoad, RemoveDat, FollowRemove, RecomputeBegin, RecomputeEnd, Hold, Free, AtCheckpoint
  <2> QED
    BY <2>1 DEF Types, ScanState
<1> QED
  BY <1>1, <1>2, <1>3, <1>4, <1>5, <1>6 DEF Types

LEMMA CatalogueTypes ==
    ASSUME Types, ScanInv, (\E v \in given.loads : Load(v)) \/ RecomputeRetired \/ RecomputeUnmatched
    PROVE  Types'
<1>1. UNCHANGED <<given, disk, shut, saved, moving, touched, closed, wanted, again, told, scan>>
  BY DEF Load, RecomputeRetired, RecomputeUnmatched, world, past
<1>2. rows' \in [Paths -> Row \cup {None}]
  BY CatalogueKeeps DEF Table
<1>3. budget' \in [Events -> Nat] /\ budget'["copy"] <= given.budget["copy"]
  <2>1. budget' = budget \/ Spend("load")
    BY DEF Load, RecomputeRetired, RecomputeUnmatched
  <2> QED
    BY <2>1, SpendTypes DEF Events, Types
<1>4. roms' \in [Roms -> Listed \cup {None}]
  <2>1. CASE roms' = roms
    BY <2>1 DEF Types
  <2>2. ASSUME NEW v \in given.loads, Load(v) PROVE roms' \in [Roms -> Listed \cup {None}]
    <3>1. v \in [Roms -> Contents \cup {None}]
      BY LibraryAssumption DEF Types, Lists
    <3>2. \A r \in Roms : roms[r] # None => [roms[r] EXCEPT !.live = FALSE] \in Listed
      BY DEF Types, Listed
    <3>3. \A r \in Roms : v[r] # None => [sum |-> v[r], live |-> TRUE] \in Listed
      BY <3>1 DEF Listed
    <3> QED
      BY <2>2, <3>2, <3>3 DEF Load, Store
  <2> QED
    BY <2>1, <2>2 DEF RecomputeRetired, RecomputeUnmatched
<1>5. bg' = None \/ bg' \in Work
  <2>1. CASE RecomputeUnmatched
    <3> DEFINE page == Page(Unmatched(rows), bg.after)
               ids == {rows[p].id : p \in page}
    <3>1. Unmatched(rows) \in SUBSET Paths /\ \A p \in Unmatched(rows) : rows[p] # None
      BY DEF Unmatched
    <3>2. page \subseteq Unmatched(rows) /\ IsFiniteSet(page)
      BY <3>1, PageStays
    <3> HIDE DEF page
    <3>3. IsFiniteSet(ids) /\ ids \subseteq Nat
      <4>1. IsFiniteSet(ids)
        <5> DEFINE f == [p \in page |-> rows[p].id]
        <5>1. f \in Surjection(page, ids)
          BY DEF Surjection
        <5> HIDE DEF f, ids
        <5> QED
          BY <3>2, <5>1, FS_Surjection
      <4>2. \A p \in page : rows[p].id \in Nat
        BY <3>1, <3>2 DEF Types, Row
      <4> QED
        BY <4>1, <4>2
    <3>4. Cardinality(page) = Chunk => ids # {}
      <4>1. Chunk # 0
        BY LibraryAssumption
      <4> QED
        BY <4>1, FS_EmptySet
    <3>5. Cardinality(page) = Chunk => Max(ids) \in Nat
      BY <3>3, <3>4, HasMax
    <3>6. \/ Cardinality(page) = Chunk /\ bg' = [bg EXCEPT !.after = Max(ids)]
          \/ bg' = [job |-> "recomputed", after |-> 0]
          \/ bg' = None
      BY <2>1 DEF RecomputeUnmatched, page
    <3>7. bg \in Work
      BY <2>1 DEF RecomputeUnmatched, Types
    <3> HIDE DEF ids
    <3> QED
      BY <3>5, <3>6, <3>7 DEF Work
  <2>2. CASE ~RecomputeUnmatched
    BY <2>2 DEF Load, RecomputeRetired, Types, Work
  <2> QED
    BY <2>1, <2>2
<1> QED
  BY <1>1, <1>2, <1>3, <1>4, <1>5 DEF Types

LEMMA CutTypes == ASSUME Types, ScanClear \/ Cancel \/ Kill PROVE Types'
<1>1. UNCHANGED <<given, disk, shut, rows, roms>> /\ scan' = None
  BY DEF ScanClear, Cancel, Kill, world, table
<1>2. budget' \in [Events -> Nat] /\ budget'["copy"] <= given.budget["copy"]
  <2>1. budget' = budget \/ Spend("cancel") \/ Spend("kill")
    BY DEF ScanClear, Cancel, Kill
  <2> QED
    BY <2>1, SpendTypes DEF Events, Types
<1>3. wanted' \in BOOLEAN /\ again' \in BOOLEAN /\ told' \in BOOLEAN
  BY DEF ScanClear, Cancel, Kill, Types
<1>4. /\ saved' \subseteq Dirs /\ touched' \subseteq Paths /\ closed' \subseteq Dirs
      /\ bg' = None \/ bg' \in Work
      /\ moving' = None \/ moving' \in Rename
  BY DEF ScanClear, Cancel, Kill, Ended, table, Types
<1> QED
  BY <1>1, <1>2, <1>3, <1>4 DEF Types

LEMMA CutKeeps == ASSUME Types, ScanInv, ScanClear \/ Cancel \/ Kill PROVE ScanInv'
<1>1. UNCHANGED <<given, disk, shut, rows>> /\ scan' = None
  BY DEF ScanClear, Cancel, Kill, world, table
<1>2. saved' # {} => saved' = saved /\ touched' = touched
  BY DEF ScanClear, Cancel, Kill, Ended, table
<1>3. InReach'
  BY <1>1, <1>2 DEF ScanInv, InReach, Reach, Within
<1>4. SavedStored'
  BY <1>1, <1>2 DEF ScanInv, SavedStored, Lay, Current, Same, Stat
<1> QED
  BY <1>1, <1>3, <1>4 DEF ScanInv

-----------------------------------------------------------------------------
(* The walk. *)

\* Directories: each lies in itself; of a disc platform's, those it is under are its tops.
LEMMA DirsLie ==
    ASSUME Types, NEW d \in Dirs
    PROVE  /\ Within(d) \subseteq Dirs /\ d \in Within(d) /\ (~given.disc => Within(d) = {d})
           /\ \A t \in Within(d) \ {d} : Within(t) = {t}
<1>1. given \in Cases /\ given.within \in [Dirs -> SUBSET Dirs]
  BY LibraryAssumption DEF Types
<1> QED
  BY <1>1, LibraryAssumption DEF Within

LEMMA PathsLie == ASSUME NEW p \in Paths PROVE DirOf[p] \in Dirs
BY LibraryAssumption

\* A directory with a file that can be reached is walked.
LEMMA WalksReach ==
    ASSUME Types, NEW p \in Paths, disk[p] # None, Reach(p)
    PROVE  DirOf[p] \in Units
<1>1. DirOf[p] \in Dirs /\ Within(DirOf[p]) \cap shut = {}
  BY PathsLie DEF Reach
<1>2. \A S : S \subseteq Within(DirOf[p]) => S \cap shut = {}
  BY <1>1
<1>3. (IF Within(DirOf[p]) = {DirOf[p]} THEN {DirOf[p]} ELSE Within(DirOf[p]) \ {DirOf[p]}) \cap shut = {}
  BY <1>2
<1> QED
  BY <1>1, <1>3 DEF Units

\* A directory that cannot be read is walked, or one it lies in is a top that cannot be read.
LEMMA WalksShut ==
    ASSUME Types, NEW p \in Paths, NEW d \in Within(DirOf[p]) \cap shut
    PROVE  \/ d \in Units
           \/ given.disc /\ Within(DirOf[p]) \cap (Tops \cap shut) # {}
<1>1. DirOf[p] \in Dirs /\ d \in Dirs
  BY PathsLie, DirsLie
<1>2. CASE ~given.disc
  BY <1>1, <1>2 DEF Units
<1>3. CASE given.disc /\ Within(d) = {d}
  BY <1>1, <1>3 DEF Tops
<1>4. CASE given.disc /\ Within(d) # {d}
  <2>1. d = DirOf[p]
    BY <1>1, <1>4, DirsLie
  <2>2. CASE (Within(d) \ {d}) \cap shut = {}
    BY <1>1, <1>4, <2>2 DEF Units
  <2>3. CASE (Within(d) \ {d}) \cap shut # {}
    <3>1. PICK t \in Within(d) \ {d} : t \in shut
      BY <2>3
    <3>2. t \in Dirs /\ Within(t) = {t}
      BY <1>1, <3>1, DirsLie
    <3> QED
      BY <1>4, <2>1, <3>1, <3>2 DEF Tops
  <2> QED
    BY <2>2, <2>3
<1> QED
  BY <1>2, <1>3, <1>4

LEMMA BeginTypes == ASSUME Types, ScanBegin PROVE Types' /\ scan' # None
<1> DEFINE done == saved \cap Units
           keep == {p \in Paths : rows[p] # None /\ Lies(p, done)}
<1>1. Units \subseteq Dirs /\ Tops \subseteq Dirs
  BY DEF Units, Tops
<1>2. scan' = [Scan0 EXCEPT !.units = Units \ done, !.done = done, !.keep = keep,
                            !.unread = IF given.disc THEN Tops \cap shut ELSE {}]
  BY DEF ScanBegin
<1>3. <<>> \in UNION {[P -> Stamp] : P \in SUBSET Paths}
  <2>1. <<>> \in [{} -> Stamp]
    OBVIOUS
  <2> QED
    BY <2>1
<1>4. keep \subseteq Paths
  OBVIOUS
<1>5. scan' \in ScanState
  <2>1. /\ scan' = [at |-> "unit", held |-> FALSE, units |-> Units \ done, done |-> done, keep |-> keep,
                    unread |-> IF given.disc THEN Tops \cap shut ELSE {},
                    unit |-> None, left |-> {}, stat |-> <<>>, tracks |-> <<>>, sink |-> <<>>]
    BY <1>2 DEF Scan0
  <2>2. <<>> \in Seq(Track) /\ <<>> \in Seq(Entry)
    OBVIOUS
  <2> HIDE DEF keep
  <2> QED
    BY <1>1, <1>3, <1>4, <2>1, <2>2 DEF ScanState
<1>6. wanted' = FALSE /\ touched' \subseteq Paths /\ closed' \subseteq Dirs
  BY DEF ScanBegin, Types
<1> QED
  BY <1>5, <1>6, LibraryAssumption DEF Types, ScanBegin, world, table

LEMMA BeginKeeps == ASSUME Types, ScanInv, ScanBegin PROVE ScanInv'
<1> DEFINE done == saved \cap Units
           keep == {p \in Paths : rows[p] # None /\ Lies(p, done)}
           unread == IF given.disc THEN Tops \cap shut ELSE {}
<1>1. UNCHANGED <<given, disk, shut, rows, saved>> /\ closed' = shut /\ scan' # None
  BY BeginTypes DEF ScanBegin, world, table
<1>2. /\ scan'.at = "unit" /\ scan'.units = Units \ done /\ scan'.done = done /\ scan'.keep = keep
      /\ scan'.unread = unread /\ scan'.left = {} /\ scan'.stat = <<>> /\ scan'.tracks = <<>>
      /\ scan'.sink = <<>>
  BY DEF ScanBegin, Scan0
<1>3. InReach'
  BY <1>1 DEF ScanBegin, InReach, Reach, Within, ScanInv
<1>4. saved # {} => touched' = touched
  BY DEF ScanBegin
<1>5. SavedStored'
  BY <1>1, <1>4 DEF ScanInv, SavedStored, Lay, Current, Same, Stat
<1>6. ASSUME NEW p \in Paths, Lay(p)' PROVE Accounted(scan, p)'
  <2>1. disk[p] # None /\ Reach(p) /\ p \notin touched'
    BY <1>1, <1>3, <1>6 DEF InReach, Lay, Reach, Within
  <2>2. DirOf[p] \in Units
    BY <2>1, WalksReach
  <2>3. ASSUME DirOf[p] \in done PROVE p \in keep /\ Current(p)'
    <3>1. Current(p)
      BY <1>4, <2>1, <2>3 DEF ScanInv, SavedStored, Lay
    <3>2. rows[p] # None /\ Lies(p, done)
      BY <2>3, <3>1, PathsLie, DirsLie DEF Current, Same, Lies
    <3> QED
      BY <1>1, <3>1, <3>2 DEF Current, Same, Stat
  <2> HIDE DEF done, keep
  <2>4. DirOf[p] \in scan'.units \cup scan'.done
    BY <1>2, <2>2
  <2> QED
    BY <1>2, <2>3, <2>4 DEF Accounted, Current, Same, Stat
<1>7. ASSUME NEW p \in Paths, rows'[p] # None PROVE Spared(scan, p)'
  <2> SUFFICES ASSUME NEW d \in Within(DirOf[p]) \cap shut
               PROVE  p \in keep \/ Within(DirOf[p]) \cap unread # {} \/ d \in Units \ done
    <3> HIDE DEF done, keep, unread
    <3> QED
      BY <1>1, <1>2 DEF Spared, Lies, Within
  <2>1. CASE d \in done
    BY <1>1, <1>7, <2>1 DEF Lies
  <2>2. CASE d \notin done
    BY <2>2, WalksShut
  <2> QED
    BY <2>1, <2>2
<1>8. HandsFit(scan)' /\ ReadRight(scan)' /\ closed' \subseteq shut'
  BY <1>1, <1>2 DEF HandsFit, ReadRight, Lay
<1>9. WalkInv(scan)'
  BY <1>6, <1>7, <1>8 DEF WalkInv
<1> QED
  BY <1>2, <1>3, <1>5, <1>9 DEF ScanInv

\* A running scan's facts.
LEMMA Running ==
    ASSUME Types, ScanInv, scan # None, scan.at # "clear"
    PROVE  /\ scan \in ScanState /\ WalkInv(scan) /\ InReach /\ SavedStored
           /\ \A p \in Paths : Lay(p) => Reach(p)
BY DEF Types, ScanInv, InReach, Lay

\* A step of the walk that changes the scan alone.
LEMMA WalkStep ==
    ASSUME Types, ScanInv, UNCHANGED <<given, disk, shut, rows, saved, touched, closed>>, scan # None,
           scan' # None, scan'.at # "clear", WalkInv(scan')
    PROVE  ScanInv'
<1>1. WalkInv(scan)'
  BY DEF WalkInv, HandsFit, ReadRight, Accounted, Underway, Tracked, Batched, Spared, Lies, Within, Lay, Current,
         Same, Agrees, Stat
<1>2. InReach' /\ SavedStored'
  BY DEF ScanInv, InReach, SavedStored, Reach, Within, Lay, Current, Same, Stat
<1> QED
  BY <1>1, <1>2 DEF ScanInv

\* ... is typed when the scan is.
LEMMA WalkTypes ==
    ASSUME Types, UNCHANGED <<given, disk, shut, rows, roms, saved, touched, closed, wanted, again, told, bg, moving>>,
           budget' \in [Events -> Nat] /\ budget'["copy"] <= given.budget["copy"],
           scan' \in ScanState
    PROVE  Types' /\ scan' # None
BY LibraryAssumption DEF Types

LEMMA StatTypes ==
    ASSUME Types, NEW P \in SUBSET Paths, \A p \in P : disk[p] # None
    PROVE  /\ [p \in P |-> Stat(p)] \in [P -> Stamp]
           /\ [p \in P |-> Stat(p)] \in UNION {[Q -> Stamp] : Q \in SUBSET Paths}
<1>1. ASSUME NEW p \in P PROVE Stat(p) \in Stamp
  <2>1. disk[p] \in File
    BY DEF Types
  <2> QED
    BY <2>1, LibraryAssumption DEF Stat, Stamp, File
<1> QED
  BY <1>1

LEMMA UnitKeeps == ASSUME Types, ScanInv, ScanUnit PROVE Types' /\ ScanInv'
<1> DEFINE d == Earliest(DirOrder, scan.units)
           here == {p \in Paths : DirOf[p] = d /\ disk[p] # None}
<1>1. /\ UNCHANGED <<given, budget, disk, shut, rows, roms, saved, touched, closed, wanted, again, told, bg, moving>>
      /\ scan # None /\ scan.at = "unit" /\ scan.units # {}
  BY DEF ScanUnit, Runs, world, table, past
<1>2. /\ scan \in ScanState /\ WalkInv(scan) /\ \A p \in Paths : Lay(p) => Reach(p)
  BY <1>1, Running
<1>3. d \in scan.units /\ d \in Dirs
  <2>1. scan.units \subseteq ToSet(DirOrder) /\ DirOrder \in Seq(Dirs)
    BY <1>2, LibraryAssumption DEF ScanState, Dirs
  <2> QED
    BY <1>1, <1>2, <2>1, EarliestIn DEF ScanState
<1>4. scan.left = {} /\ scan.tracks = <<>> /\ scan.sink = <<>>
  BY <1>1, <1>2 DEF WalkInv, HandsFit
<1>5. CASE d \in shut
  <2>1. scan' = [scan EXCEPT !.at = "flush", !.unit = d, !.units = scan.units \ {d},
                             !.unread = scan.unread \cup {d}, !.done = scan.done \cup {d}]
    BY <1>5 DEF ScanUnit
  <2> HIDE DEF d
  <2>2. scan' \in ScanState
    BY <1>2, <1>3, <2>1 DEF ScanState
  <2>3. Types' /\ scan' # None
    BY <1>1, <2>2, WalkTypes DEF Types
  <2>4. /\ scan'.at = "flush" /\ scan'.units = scan.units \ {d} /\ scan'.unread = scan.unread \cup {d}
        /\ scan'.done = scan.done \cup {d} /\ scan'.keep = scan.keep
        /\ UNCHANGED <<scan.left, scan.stat, scan.tracks, scan.sink>>
    BY <1>2, <2>1 DEF ScanState
  <2>5. HandsFit(scan') /\ ReadRight(scan')
    BY <1>2, <1>4, <2>4 DEF WalkInv, HandsFit, ReadRight
  <2>6. ASSUME NEW p \in Paths, Lay(p) PROVE Accounted(scan', p)
    <3>1. Accounted(scan, p) /\ Reach(p)
      BY <1>2, <2>6 DEF WalkInv
    <3>2. DirOf[p] # d
      BY <1>5, <3>1, PathsLie, DirsLie DEF Reach
    <3> QED
      BY <2>4, <3>1, <3>2 DEF Accounted, Underway, Tracked, Batched
  <2>7. ASSUME NEW p \in Paths, rows[p] # None PROVE Spared(scan', p)
    <3>1. Spared(scan, p)
      BY <1>2, <2>7 DEF WalkInv
    <3> QED
      BY <2>4, <3>1 DEF Spared, Lies
  <2>8. WalkInv(scan')
    BY <1>2, <2>5, <2>6, <2>7 DEF WalkInv
  <2> QED
    BY <1>1, <2>3, <2>4, <2>8, WalkStep
<1>6. CASE d \notin shut
  <2>1. scan' = [scan EXCEPT !.at = "file", !.unit = d, !.units = scan.units \ {d}, !.done = scan.done \cup {d},
                             !.left = here, !.keep = scan.keep \cup here, !.tracks = <<>>,
                             !.stat = [p \in here |-> Stat(p)]]
    BY <1>6 DEF ScanUnit
  <2>2. here \in SUBSET Paths /\ \A p \in here : disk[p] # None
    OBVIOUS
  <2>3. \A p \in Paths : (disk[p] # None /\ DirOf[p] = d) <=> p \in here
    OBVIOUS
  <2> HIDE DEF d, here
  <2> DEFINE stat == [p \in here |-> Stat(p)]
  <2>4. stat \in UNION {[Q -> Stamp] : Q \in SUBSET Paths} /\ DOMAIN stat = here
    BY <2>2, StatTypes
  <2>5. scan' = [scan EXCEPT !.at = "file", !.unit = d, !.units = scan.units \ {d}, !.done = scan.done \cup {d},
                             !.left = here, !.keep = scan.keep \cup here, !.tracks = <<>>, !.stat = stat]
    BY <2>1
  <2>6. \A p \in here : stat[p] = Stat(p)
    OBVIOUS
  <2> HIDE DEF stat
  <2>7. scan' \in ScanState
    <3>1. <<>> \in Seq(Track)
      OBVIOUS
    <3> QED
      BY <1>2, <1>3, <2>2, <2>4, <2>5, <3>1 DEF ScanState
  <2>8. Types' /\ scan' # None
    BY <1>1, <2>7, WalkTypes DEF Types
  <2>9. /\ scan'.at = "file" /\ scan'.units = scan.units \ {d} /\ scan'.done = scan.done \cup {d}
        /\ scan'.left = here /\ scan'.keep = scan.keep \cup here /\ scan'.tracks = <<>> /\ scan'.stat = stat
        /\ scan'.unread = scan.unread /\ scan'.sink = <<>>
    BY <1>2, <1>4, <2>5 DEF ScanState
  <2>10. HandsFit(scan') /\ ReadRight(scan')
    BY <2>4, <2>6, <2>9 DEF HandsFit, ReadRight
  <2>11. ASSUME NEW p \in Paths, Lay(p) PROVE Accounted(scan', p)
    <3>1. Accounted(scan, p) /\ disk[p] # None
      BY <1>2, <2>11 DEF WalkInv, Lay
    <3>2. DirOf[p] \in scan.done => p \in scan.keep /\ Current(p)
      BY <1>4, <3>1 DEF Accounted, Underway, Tracked, Batched
    <3>3. DirOf[p] = d => p \in here
      BY <2>3, <3>1
    <3> QED
      BY <2>9, <3>1, <3>2, <3>3 DEF Accounted, Underway
  <2>12. ASSUME NEW p \in Paths, rows[p] # None PROVE Spared(scan', p)
    <3>1. Spared(scan, p) /\ d \notin closed
      BY <1>2, <1>6, <2>12 DEF WalkInv
    <3> QED
      BY <2>9, <3>1 DEF Spared, Lies
  <2>13. WalkInv(scan')
    BY <1>2, <2>10, <2>11, <2>12 DEF WalkInv
  <2> QED
    BY <1>1, <2>8, <2>9, <2>13, WalkStep
<1> QED
  BY <1>5, <1>6

\* A budget that was spent or not.
LEMMA UnreadTypes ==
    ASSUME Types, Spend("unread") \/ UNCHANGED budget
    PROVE  budget' \in [Events -> Nat] /\ budget'["copy"] <= given.budget["copy"]
<1>1. "unread" \in Events
  BY DEF Events
<1> QED
  BY <1>1, SpendTypes DEF Types

LEMMA ReadTypes == ASSUME Types, NEW p \in Paths PROVE Reads(p) \subseteq Contents \cup {None}
<1>1. disk[p] # None => disk[p].sum \in Contents
  BY DEF Types, File
<1> QED
  BY <1>1 DEF Reads

\* What a file adds to the batch is a row of its size and time, or nothing when its row has those.
LEMMA FlatRows ==
    ASSUME Types, NEW p \in Paths, NEW s \in Stamp, NEW c \in Contents \cup {None}
    PROVE  \/ FlatRow(p, s, c) = <<>> /\ Same(rows[p], s)
           \/ \E r \in Fresh : FlatRow(p, s, c) = <<r>> /\ r.size = s.size /\ r.mtime = s.mtime
<1> DEFINE row == rows[p]
<1>1. ASSUME NEW c1 \in Contents \cup {None}, NEW level \in Levels, NEW r \in Roms \cup {None}, NEW state \in States
      PROVE  LET new == NewRow(s, c1, level, r, state)
             IN  new \in Fresh /\ new.size = s.size /\ new.mtime = s.mtime
  BY DEF NewRow, Fresh, Stamp
<1>2. \A x : LiveMatch(x) \in Roms \cup {None} /\ BestMatch(x) \in Roms \cup {None}
  BY MatchTypes DEF Types
<1>3. {"full", "crc", "failed", "none"} \subseteq Levels /\ "unverified" \in States
  BY DEF Levels, States
<1>4. CASE MustHash(row, s)
  <2> DEFINE crc == NewRow(s, c, "crc", None, "unverified")
             full == NewRow(s, c, "full", BestMatch(c), StateOf(p, BestMatch(c)))
             miss == NewRow(s, None, IF p \in Zipped THEN "failed" ELSE "none", None, "unverified")
  <2>1. FlatRow(p, s, c) \in {<<crc>>, <<full>>, <<miss>>}
    BY <1>4 DEF FlatRow
  <2>2. /\ crc \in Fresh /\ crc.size = s.size /\ crc.mtime = s.mtime
        /\ full \in Fresh /\ full.size = s.size /\ full.mtime = s.mtime
        /\ miss \in Fresh /\ miss.size = s.size /\ miss.mtime = s.mtime
    <3>1. StateOf(p, BestMatch(c)) \in States
      BY StateTypes
    <3>2. crc \in Fresh /\ crc.size = s.size /\ crc.mtime = s.mtime
      BY <1>1, <1>3
    <3>3. BestMatch(c) \in Roms \cup {None} /\ "full" \in Levels
      BY <1>2, <1>3
    <3>4. full \in Fresh /\ full.size = s.size /\ full.mtime = s.mtime
      BY <1>1, <3>1, <3>3
    <3>5. (IF p \in Zipped THEN "failed" ELSE "none") \in Levels
      BY <1>3
    <3>6. miss \in Fresh /\ miss.size = s.size /\ miss.mtime = s.mtime
      <4> DEFINE level == IF p \in Zipped THEN "failed" ELSE "none"
      <4>1. level \in Levels
        BY <3>5
      <4> HIDE DEF level
      <4>2. LET new == NewRow(s, None, level, None, "unverified")
            IN  new \in Fresh /\ new.size = s.size /\ new.mtime = s.mtime
        BY <1>1, <1>3, <4>1
      <4> QED
        BY <4>2 DEF level
    <3> HIDE DEF crc, full, miss
    <3> QED
      BY <3>2, <3>4, <3>6
  <2> HIDE DEF crc, full, miss
  <2> QED
    BY <2>1, <2>2
<1>5. CASE ~MustHash(row, s)
  <2> DEFINE r == StoredMatch(row)
             new == NewRow(s, row.sum, row.level, r, StateOf(p, r))
  <2>1. Same(row, s)
    BY <1>5 DEF MustHash
  <2>2. row \in Row
    BY <2>1 DEF Same, Types
  <2>3. new \in Fresh /\ new.size = s.size /\ new.mtime = s.mtime
    <3>1. StateOf(p, r) \in States /\ r \in Roms \cup {None}
      BY StateTypes, StoredTypes DEF Types
    <3>2. row.sum \in Contents \cup {None} /\ row.level \in Levels
      BY <2>2 DEF Row
    <3> HIDE DEF r, row
    <3> QED
      BY <1>1, <3>1, <3>2
  <2>4. FlatRow(p, s, c) = <<>> \/ FlatRow(p, s, c) = <<new>>
    BY <1>5 DEF FlatRow
  <2> HIDE DEF new, row
  <2> QED
    BY <2>1, <2>3, <2>4 DEF row
<1> QED
  BY <1>4, <1>5

\* The file at hand is one left, and what was listed of it is so as long as it lies there.
LEMMA AtHand ==
    ASSUME Types, WalkInv(scan), scan \in ScanState, scan.left # {}
    PROVE  LET p == Earliest(PathOrder, scan.left)
           IN  /\ p \in scan.left /\ p \in Paths /\ p \in scan.keep /\ p \in DOMAIN scan.stat /\ scan.stat[p] \in Stamp
               /\ Lay(p) => scan.stat[p] = Stat(p)
<1> DEFINE p == Earliest(PathOrder, scan.left)
<1>1. p \in scan.left
  <2>1. scan.left \subseteq ToSet(PathOrder) /\ PathOrder \in Seq(Paths)
    BY LibraryAssumption DEF ScanState, Paths
  <2> QED
    BY <2>1, EarliestIn
<1>2. p \in Paths /\ p \in DOMAIN scan.stat /\ p \in scan.keep
  BY <1>1 DEF ScanState, WalkInv, HandsFit
<1>3. scan.stat[p] \in Stamp
  <2>1. PICK P \in SUBSET Paths : scan.stat \in [P -> Stamp]
    BY DEF ScanState
  <2> QED
    BY <1>2, <2>1
<1> QED
  BY <1>1, <1>2, <1>3 DEF WalkInv, ReadRight

LEMMA FileKeeps == ASSUME Types, ScanInv, ScanFile PROVE Types' /\ ScanInv'
<1> DEFINE p == Earliest(PathOrder, scan.left)
           s == scan.stat[p]
<1>1. /\ UNCHANGED <<given, disk, shut, rows, roms, saved, touched, closed, wanted, again, told, bg, moving>>
      /\ scan # None /\ scan.at = "file" /\ scan.left # {}
  BY DEF ScanFile, Runs, world, table, past
<1>2. scan \in ScanState /\ WalkInv(scan)
  BY <1>1, Running
<1>3. /\ p \in scan.left /\ p \in Paths /\ p \in scan.keep /\ p \in DOMAIN scan.stat /\ s \in Stamp
      /\ Lay(p) => s = Stat(p)
  BY <1>1, <1>2, AtHand
<1>4. PICK c \in Contents \cup {None} :
          /\ Spend("unread") \/ UNCHANGED budget
          /\ scan' = [scan EXCEPT !.left = scan.left \ {p}, !.sink = scan.sink \o AsEntry(p, FlatRow(p, s, c))]
  <2>1. Reads(p) \subseteq Contents \cup {None}
    BY <1>3, ReadTypes
  <2>2. PICK c \in (IF MustHash(rows[p], s) THEN Reads(p) ELSE {None}) :
          /\ IF MustHash(rows[p], s) /\ Unread(p, c) THEN Spend("unread") ELSE UNCHANGED budget
          /\ scan' = [scan EXCEPT !.left = scan.left \ {p}, !.sink = scan.sink \o AsEntry(p, FlatRow(p, s, c))]
    BY DEF ScanFile
  <2>3. c \in Contents \cup {None}
    BY <2>1, <2>2
  <2> QED
    BY <2>2, <2>3
<1> DEFINE added == AsEntry(p, FlatRow(p, s, c))
<1> HIDE DEF p, s
<1>5. \/ added = <<>> /\ Same(rows[p], s)
      \/ \E e \in Entry : added = <<e>> /\ e.path = p /\ e.row.size = s.size /\ e.row.mtime = s.mtime
  <2>1. CASE FlatRow(p, s, c) = <<>> /\ Same(rows[p], s)
    BY <2>1 DEF AsEntry
  <2>2. ASSUME NEW r \in Fresh, FlatRow(p, s, c) = <<r>>, r.size = s.size, r.mtime = s.mtime
        PROVE  \E e \in Entry : added = <<e>> /\ e.path = p /\ e.row.size = s.size /\ e.row.mtime = s.mtime
    <3>1. added = <<[path |-> p, row |-> r]>>
      BY <2>2 DEF AsEntry
    <3>2. [path |-> p, row |-> r] \in Entry
      BY <1>3 DEF Entry
    <3> HIDE DEF added
    <3> QED
      BY <2>2, <3>1, <3>2
  <2> HIDE DEF added
  <2> QED
    BY <1>3, <2>1, <2>2, FlatRows
<1> HIDE DEF added
<1>6. added \in Seq(Entry) /\ scan.sink \in Seq(Entry) /\ scan.sink \o added \in Seq(Entry)
  <2>1. added \in Seq(Entry)
    <3>1. CASE added = <<>>
      BY <3>1
    <3>2. ASSUME NEW e \in Entry, added = <<e>> PROVE added \in Seq(Entry)
      BY <3>2
    <3> QED
      BY <1>5, <3>1, <3>2
  <2>2. scan.sink \in Seq(Entry)
    BY <1>2 DEF ScanState
  <2> QED
    BY <2>1, <2>2
<1>7. scan' \in ScanState
  <2> DEFINE sink == scan.sink \o added
  <2>1. scan' = [scan EXCEPT !.left = scan.left \ {p}, !.sink = sink] /\ sink \in Seq(Entry)
    BY <1>4, <1>6 DEF added
  <2> HIDE DEF sink
  <2> QED
    BY <1>2, <2>1 DEF ScanState
<1>8. Types' /\ scan' # None
  BY <1>1, <1>4, <1>7, UnreadTypes, WalkTypes
<1>9. /\ UNCHANGED <<scan.at, scan.units, scan.done, scan.keep, scan.unread, scan.stat, scan.tracks>>
      /\ scan'.left = scan.left \ {p} /\ scan'.sink = scan.sink \o added
  BY <1>2, <1>4 DEF ScanState, added
<1>10. ASSUME NEW i \in DOMAIN scan'.sink
       PROVE  \/ i \in DOMAIN scan.sink /\ scan'.sink[i] = scan.sink[i]
              \/ scan'.sink[i].path = p /\ scan'.sink[i].row.size = s.size /\ scan'.sink[i].row.mtime = s.mtime
  <2>1. scan.sink \in Seq(Entry)
    BY <1>2 DEF ScanState
  <2>2. CASE added = <<>>
    BY <1>9, <2>1, <2>2
  <2>3. CASE \E e \in Entry : added = <<e>> /\ e.path = p /\ e.row.size = s.size /\ e.row.mtime = s.mtime
    <3>1. PICK e \in Entry : added = <<e>> /\ e.path = p /\ e.row.size = s.size /\ e.row.mtime = s.mtime
      BY <2>3
    <3>2. i \in 1..(Len(scan.sink) + 1)
      BY <1>9, <1>10, <2>1, <3>1
    <3>3. CASE i = Len(scan.sink) + 1
      BY <1>9, <2>1, <3>1, <3>3
    <3>4. CASE i # Len(scan.sink) + 1
      BY <1>9, <2>1, <3>1, <3>2, <3>4
    <3> QED
      BY <3>3, <3>4
  <2> QED
    BY <1>5, <2>2, <2>3
<1>11. \A q : Batched(scan, q) => Batched(scan', q)
  <2> SUFFICES ASSUME NEW q, NEW i \in DOMAIN scan.sink, scan.sink[i].path = q PROVE Batched(scan', q)
    BY DEF Batched
  <2>1. i \in DOMAIN (scan.sink \o added) /\ (scan.sink \o added)[i] = scan.sink[i]
    BY <1>6
  <2> QED
    BY <1>9, <2>1 DEF Batched
<1>12. Same(rows[p], s) \/ Batched(scan', p)
  <2>1. scan.sink \in Seq(Entry)
    BY <1>2 DEF ScanState
  <2>2. ASSUME NEW e \in Entry, added = <<e>>, e.path = p PROVE Batched(scan', p)
    <3>1. scan'.sink = Append(scan.sink, e)
      BY <1>9, <2>1, <2>2
    <3>2. Len(scan.sink) + 1 \in DOMAIN scan'.sink /\ scan'.sink[Len(scan.sink) + 1] = e
      BY <2>1, <3>1
    <3> QED
      BY <2>2, <3>2 DEF Batched
  <2> QED
    BY <1>5, <2>2
<1>13. HandsFit(scan')
  <2>1. scan'.left \subseteq DOMAIN scan'.stat /\ DOMAIN scan'.stat \subseteq scan'.keep
    BY <1>2, <1>9 DEF WalkInv, HandsFit
  <2>2. \A i \in DOMAIN scan'.sink : scan'.sink[i].path \in scan'.keep
    BY <1>2, <1>3, <1>9, <1>10 DEF WalkInv, HandsFit
  <2>3. \A i \in DOMAIN scan'.tracks : scan'.tracks[i].path \in DOMAIN scan'.stat
    BY <1>2, <1>9 DEF WalkInv, HandsFit
  <2> QED
    BY <1>1, <1>9, <2>1, <2>2, <2>3 DEF HandsFit
<1>14. ReadRight(scan')
  <2> SUFFICES ASSUME NEW q \in Paths, Lay(q)
               PROVE  /\ q \in DOMAIN scan'.stat => scan'.stat[q] = Stat(q)
                      /\ \A i \in DOMAIN scan'.sink : scan'.sink[i].path = q => Agrees(scan'.sink[i].row, Stat(q))
    BY DEF ReadRight
  <2>1. /\ q \in DOMAIN scan.stat => scan.stat[q] = Stat(q)
        /\ \A i \in DOMAIN scan.sink : scan.sink[i].path = q => Agrees(scan.sink[i].row, Stat(q))
    BY <1>2 DEF WalkInv, ReadRight
  <2>2. ASSUME NEW i \in DOMAIN scan'.sink, scan'.sink[i].path = q PROVE Agrees(scan'.sink[i].row, Stat(q))
    <3>1. CASE i \in DOMAIN scan.sink /\ scan'.sink[i] = scan.sink[i]
      BY <2>1, <2>2, <3>1
    <3>2. CASE scan'.sink[i].path = p /\ scan'.sink[i].row.size = s.size /\ scan'.sink[i].row.mtime = s.mtime
      BY <1>3, <2>2, <3>2 DEF Agrees
    <3> QED
      BY <1>10, <3>1, <3>2
  <2> QED
    BY <1>9, <2>1, <2>2
<1>15. ASSUME NEW q \in Paths, Lay(q) PROVE Accounted(scan', q)
  <2>1. Accounted(scan, q)
    BY <1>2, <1>15 DEF WalkInv
  <2>2. ASSUME q = p PROVE Current(q) \/ Underway(scan', q)
    <3>1. s = Stat(q)
      BY <1>3, <1>15, <2>2
    <3>2. CASE Same(rows[p], s)
      BY <2>2, <3>1, <3>2 DEF Current
    <3>3. CASE Batched(scan', p)
      BY <2>2, <3>3 DEF Underway
    <3> QED
      BY <1>12, <3>2, <3>3
  <2>3. q # p /\ Underway(scan, q) => Underway(scan', q)
    BY <1>9, <1>11 DEF Underway, Tracked
  <2> QED
    BY <1>9, <2>1, <2>2, <2>3 DEF Accounted
<1>16. ASSUME NEW q \in Paths, rows[q] # None PROVE Spared(scan', q)
  BY <1>2, <1>9, <1>16 DEF WalkInv, Spared, Lies
<1>17. WalkInv(scan')
  BY <1>2, <1>13, <1>14, <1>15, <1>16 DEF WalkInv
<1>18. scan'.at # "clear"
  BY <1>1, <1>9
<1> QED
  BY <1>1, <1>8, <1>17, <1>18, WalkStep

LEMMA TrackKeeps == ASSUME Types, ScanInv, ScanTrack PROVE Types' /\ ScanInv'
<1> DEFINE p == Earliest(PathOrder, scan.left)
           s == scan.stat[p]
<1>1. /\ UNCHANGED <<given, disk, shut, rows, roms, saved, touched, closed, wanted, again, told, bg, moving>>
      /\ scan # None /\ scan.at = "file" /\ scan.left # {}
  BY DEF ScanTrack, Runs, world, table, past
<1>2. scan \in ScanState /\ WalkInv(scan)
  BY <1>1, Running
<1>3. p \in scan.left /\ p \in Paths /\ p \in DOMAIN scan.stat
  BY <1>1, <1>2, AtHand
<1>4. PICK t \in Track :
          /\ t.path = p /\ (Spend("unread") \/ UNCHANGED budget)
          /\ scan' = [scan EXCEPT !.left = scan.left \ {p}, !.tracks = Append(scan.tracks, t)]
  <2> DEFINE kept == Same(rows[p], s) /\ rows[p].level = "full"
  <2>1. PICK c \in (IF kept THEN {rows[p].sum} ELSE Reads(p)) :
          /\ IF ~kept /\ Unread(p, c) THEN Spend("unread") ELSE UNCHANGED budget
          /\ scan' = [scan EXCEPT !.left = scan.left \ {p}, !.tracks = Append(scan.tracks,
                         [path |-> p, sum |-> c, match |-> IF c = None THEN None ELSE BestMatch(c)])]
    BY DEF ScanTrack
  <2>2. c \in Contents \cup {None}
    <3>1. CASE kept
      <4>1. rows[p] \in Row
        BY <1>3, <3>1 DEF Same, Types
      <4> QED
        BY <2>1, <3>1, <4>1 DEF Row
    <3>2. CASE ~kept
      BY <1>3, <2>1, <3>2, ReadTypes
    <3> QED
      BY <3>1, <3>2
  <2> DEFINE t == [path |-> p, sum |-> c, match |-> IF c = None THEN None ELSE BestMatch(c)]
  <2>3. BestMatch(c) \in Roms \cup {None}
    BY MatchTypes DEF Types
  <2> HIDE DEF kept, p
  <2>4. t \in Track /\ t.path = p
    BY <1>3, <2>2, <2>3 DEF Track
  <2>5. scan' = [scan EXCEPT !.left = scan.left \ {p}, !.tracks = Append(scan.tracks, t)]
    BY <2>1
  <2>6. Spend("unread") \/ UNCHANGED budget
    BY <2>1
  <2> HIDE DEF t
  <2> QED
    BY <2>4, <2>5, <2>6
<1> HIDE DEF p, s
<1>5. scan.tracks \in Seq(Track) /\ Append(scan.tracks, t) \in Seq(Track)
  BY <1>2 DEF ScanState
<1>6. scan' \in ScanState
  <2> DEFINE more == Append(scan.tracks, t)
  <2>1. scan' = [scan EXCEPT !.left = scan.left \ {p}, !.tracks = more] /\ more \in Seq(Track)
    BY <1>4, <1>5
  <2> HIDE DEF more
  <2> QED
    BY <1>2, <2>1 DEF ScanState
<1>7. Types' /\ scan' # None
  BY <1>1, <1>4, <1>6, UnreadTypes, WalkTypes
<1>8. /\ UNCHANGED <<scan.at, scan.units, scan.done, scan.keep, scan.unread, scan.stat, scan.sink>>
      /\ scan'.left = scan.left \ {p} /\ scan'.tracks = Append(scan.tracks, t)
  BY <1>2, <1>4 DEF ScanState
<1>9. ASSUME NEW i \in DOMAIN scan'.tracks
      PROVE  (i \in DOMAIN scan.tracks /\ scan'.tracks[i] = scan.tracks[i]) \/ scan'.tracks[i] = t
  BY <1>5, <1>8
<1>10. \A i \in DOMAIN scan.tracks : i \in DOMAIN scan'.tracks /\ scan'.tracks[i] = scan.tracks[i]
  BY <1>5, <1>8
<1>11. Len(scan.tracks) + 1 \in DOMAIN scan'.tracks /\ scan'.tracks[Len(scan.tracks) + 1] = t
  BY <1>5, <1>8
<1>12. HandsFit(scan')
  <2>1. \A i \in DOMAIN scan'.tracks : scan'.tracks[i].path \in DOMAIN scan'.stat
    BY <1>2, <1>3, <1>4, <1>8, <1>9 DEF WalkInv, HandsFit
  <2> QED
    BY <1>1, <1>2, <1>8, <2>1 DEF WalkInv, HandsFit
<1>13. ReadRight(scan')
  BY <1>2, <1>8 DEF WalkInv, ReadRight
<1>14. ASSUME NEW q \in Paths, Lay(q) PROVE Accounted(scan', q)
  <2>1. Accounted(scan, q)
    BY <1>2, <1>14 DEF WalkInv
  <2>2. Tracked(scan', p) /\ (Tracked(scan, q) => Tracked(scan', q))
    BY <1>4, <1>10, <1>11 DEF Tracked
  <2>3. Underway(scan, q) => Underway(scan', q)
    BY <1>8, <2>2 DEF Underway, Batched
  <2> QED
    BY <1>8, <2>1, <2>3 DEF Accounted
<1>15. ASSUME NEW q \in Paths, rows[q] # None PROVE Spared(scan', q)
  BY <1>2, <1>8, <1>15 DEF WalkInv, Spared, Lies
<1>16. WalkInv(scan')
  BY <1>2, <1>12, <1>13, <1>14, <1>15 DEF WalkInv
<1>17. scan'.at # "clear"
  BY <1>1, <1>8
<1> QED
  BY <1>1, <1>7, <1>16, <1>17, WalkStep

LEMMA Joins ==
    ASSUME NEW T, NEW s \in Seq(T), NEW t \in Seq(T)
    PROVE  DOMAIN (s \o t) = 1..(Len(s) + Len(t))
<1>1. Len(s \o t) = Len(s) + Len(t) /\ s \o t \in Seq(T)
  OBVIOUS
<1> QED
  BY <1>1

LEMMA JudgeKeeps == ASSUME Types, ScanInv, ScanJudge PROVE Types' /\ ScanInv'
<1> DEFINE m == [p \in {t.path : t \in ToSet(scan.tracks)} |->
                    (CHOOSE t \in ToSet(scan.tracks) : t.path = p).match]
           judged(t) == [path |-> t.path, row |->
               NewRow(scan.stat[t.path], t.sum, IF t.sum = None THEN "none" ELSE "full",
                      m[t.path], DiscState(m, t.path))]
           added == [i \in DOMAIN scan.tracks |-> judged(scan.tracks[i])]
<1>1. /\ UNCHANGED <<given, budget, disk, shut, rows, roms, saved, touched, closed, wanted, again, told, bg, moving>>
      /\ scan # None /\ scan.at = "file" /\ scan.left = {}
  BY DEF ScanJudge, Runs, world, table, past
<1>2. scan \in ScanState /\ WalkInv(scan)
  BY <1>1, Running
<1>3. scan.tracks \in Seq(Track) /\ scan.sink \in Seq(Entry)
  BY <1>2 DEF ScanState
<1>4. ASSUME NEW i \in DOMAIN scan.tracks
      PROVE  /\ added[i] \in Entry /\ added[i].path = scan.tracks[i].path
             /\ scan.tracks[i].path \in Paths /\ scan.tracks[i].path \in DOMAIN scan.stat
             /\ Agrees(added[i].row, scan.stat[scan.tracks[i].path])
  <2> DEFINE t == scan.tracks[i]  p == t.path
  <2>1. t \in Track /\ t \in ToSet(scan.tracks)
    BY <1>3 DEF ToSet
  <2>2. p \in Paths /\ t.sum \in Contents \cup {None}
    BY <2>1 DEF Track
  <2>3. p \in DOMAIN scan.stat
    BY <1>2 DEF WalkInv, HandsFit
  <2>4. scan.stat[p] \in Stamp
    <3>1. PICK P \in SUBSET Paths : scan.stat \in [P -> Stamp]
      BY <1>2 DEF ScanState
    <3> QED
      BY <2>3, <3>1
  <2>5. m[p] \in Roms \cup {None}
    <3>1. m[p] = (CHOOSE u \in ToSet(scan.tracks) : u.path = p).match
      BY <2>1
    <3>2. \A u \in ToSet(scan.tracks) : u.match \in Roms \cup {None}
      <4>1. ASSUME NEW u \in ToSet(scan.tracks) PROVE u \in Track
        BY <1>3, <4>1 DEF ToSet
      <4> QED
        BY <4>1 DEF Track
    <3>3. \E u \in ToSet(scan.tracks) : u.path = p
      BY <2>1
    <3> HIDE DEF m, p
    <3> QED
      BY <3>1, <3>2, <3>3
  <2>6. DiscState(m, p) \in States
    BY DiscStates
  <2> DEFINE level == IF t.sum = None THEN "none" ELSE "full"
             rom == m[p]
             state == DiscState(m, p)
             stat == scan.stat[p]
  <2>7. level \in Levels
    BY DEF Levels
  <2>8. added[i] = [path |-> p, row |-> NewRow(stat, t.sum, level, rom, state)]
    OBVIOUS
  <2>9. stat \in Stamp /\ rom \in Roms \cup {None} /\ state \in States
    BY <2>4, <2>5, <2>6
  <2> HIDE DEF added, m, level, rom, state, stat
  <2>10. NewRow(stat, t.sum, level, rom, state) \in Fresh
    BY <2>2, <2>7, <2>9 DEF NewRow, Fresh, Stamp
  <2>11. added[i] \in Entry /\ added[i].path = p /\ Agrees(added[i].row, stat)
    BY <2>2, <2>8, <2>10 DEF Entry, Agrees, NewRow
  <2> QED
    BY <2>2, <2>3, <2>11 DEF stat
<1>5. scan' = [scan EXCEPT !.at = "flush", !.left = {}, !.stat = <<>>, !.tracks = <<>>,
                           !.sink = scan.sink \o added]
  BY DEF ScanJudge
<1>6. DOMAIN added = DOMAIN scan.tracks
  OBVIOUS
<1> HIDE DEF added, m
<1>7. added \in Seq(Entry) /\ Len(added) = Len(scan.tracks)
  <2>1. added \in [1..Len(scan.tracks) -> Entry] /\ Len(scan.tracks) \in Nat
    <3>1. DOMAIN scan.tracks = 1..Len(scan.tracks) /\ Len(scan.tracks) \in Nat
      BY <1>3
    <3>2. added = [i \in DOMAIN scan.tracks |-> added[i]]
      BY DEF added
    <3> QED
      BY <1>4, <3>1, <3>2
  <2> QED
    BY <2>1
<1>8. scan.sink \o added \in Seq(Entry)
  BY <1>3, <1>7
<1>9. /\ scan' \in ScanState
      /\ scan'.at = "flush" /\ scan'.left = {} /\ scan'.stat = <<>> /\ scan'.tracks = <<>>
      /\ scan'.sink = scan.sink \o added
      /\ UNCHANGED <<scan.units, scan.done, scan.keep, scan.unread>>
  <2>1. <<>> \in UNION {[P -> Stamp] : P \in SUBSET Paths}
    <3>1. <<>> \in [{} -> Stamp]
      OBVIOUS
    <3> QED
      BY <3>1
  <2>2. <<>> \in Seq(Track)
    OBVIOUS
  <2> DEFINE sink == scan.sink \o added  none == <<>>
  <2>3. /\ scan' = [scan EXCEPT !.at = "flush", !.left = {}, !.stat = none, !.tracks = none, !.sink = sink]
        /\ sink \in Seq(Entry) /\ none \in Seq(Track) /\ none \in UNION {[P -> Stamp] : P \in SUBSET Paths}
    BY <1>5, <1>8, <2>1, <2>2
  <2> HIDE DEF sink, none
  <2>4. scan' \in ScanState
    BY <1>2, <2>3 DEF ScanState
  <2> QED
    BY <1>2, <2>3, <2>4 DEF ScanState, sink, none
<1>10. Types' /\ scan' # None
  BY <1>1, <1>9, WalkTypes DEF Types
<1>11. ASSUME NEW j \in DOMAIN scan'.sink
       PROVE  \/ j \in DOMAIN scan.sink /\ scan'.sink[j] = scan.sink[j]
              \/ \E i \in DOMAIN scan.tracks : scan'.sink[j] = added[i]
  <2>1. j \in 1..(Len(scan.sink) + Len(added))
    <3>1. DOMAIN (scan.sink \o added) = 1..(Len(scan.sink) + Len(added))
      BY <1>3, <1>7, Joins
    <3> QED
      BY <1>9, <3>1
  <2>2. CASE j <= Len(scan.sink)
    BY <1>3, <1>7, <1>9, <2>1, <2>2
  <2>3. CASE j > Len(scan.sink)
    <3>1. scan'.sink[j] = added[j - Len(scan.sink)] /\ j - Len(scan.sink) \in 1..Len(added)
      BY <1>3, <1>7, <1>9, <2>1, <2>3
    <3>2. j - Len(scan.sink) \in DOMAIN scan.tracks
      BY <1>3, <1>7, <3>1
    <3> QED
      BY <3>1, <3>2
  <2> QED
    BY <1>3, <2>1, <2>2, <2>3
<1>12. HandsFit(scan')
  <2>1. ASSUME NEW j \in DOMAIN scan'.sink PROVE scan'.sink[j].path \in scan'.keep
    <3>1. \A i \in DOMAIN scan.tracks : added[i].path \in scan.keep
      BY <1>2, <1>4 DEF WalkInv, HandsFit
    <3>2. \A i \in DOMAIN scan.sink : scan.sink[i].path \in scan.keep
      BY <1>2 DEF WalkInv, HandsFit
    <3> QED
      BY <1>9, <1>11, <3>1, <3>2
  <2> QED
    BY <1>9, <2>1 DEF HandsFit
<1>13. ReadRight(scan')
  <2> SUFFICES ASSUME NEW q \in Paths, Lay(q), NEW j \in DOMAIN scan'.sink, scan'.sink[j].path = q
               PROVE  Agrees(scan'.sink[j].row, Stat(q))
    BY <1>9 DEF ReadRight
  <2>1. /\ q \in DOMAIN scan.stat => scan.stat[q] = Stat(q)
        /\ \A i \in DOMAIN scan.sink : scan.sink[i].path = q => Agrees(scan.sink[i].row, Stat(q))
    BY <1>2 DEF WalkInv, ReadRight
  <2>2. ASSUME NEW i \in DOMAIN scan.tracks, scan'.sink[j] = added[i] PROVE Agrees(scan'.sink[j].row, Stat(q))
    <3>1. scan.tracks[i].path = q
      BY <1>4, <2>2
    <3> QED
      BY <1>4, <2>1, <2>2, <3>1
  <2> QED
    BY <1>11, <2>1, <2>2
<1>14. ASSUME NEW q, Tracked(scan, q) \/ Batched(scan, q) PROVE Batched(scan', q)
  <2>1. ASSUME NEW i \in DOMAIN scan.tracks, scan.tracks[i].path = q PROVE Batched(scan', q)
    <3>1. i \in 1..Len(added) /\ added[i].path = q
      BY <1>3, <1>4, <1>7, <2>1
    <3>2. Len(scan.sink) + i \in DOMAIN (scan.sink \o added) /\ (scan.sink \o added)[Len(scan.sink) + i] = added[i]
      BY <1>3, <1>7, <3>1
    <3> QED
      BY <1>9, <3>1, <3>2 DEF Batched
  <2>2. ASSUME NEW i \in DOMAIN scan.sink, scan.sink[i].path = q PROVE Batched(scan', q)
    <3>1. i \in DOMAIN (scan.sink \o added) /\ (scan.sink \o added)[i] = scan.sink[i]
      BY <1>3, <1>7
    <3> QED
      BY <1>9, <2>2, <3>1 DEF Batched
  <2> QED
    BY <1>14, <2>1, <2>2 DEF Tracked, Batched
<1>15. ASSUME NEW q \in Paths, Lay(q) PROVE Accounted(scan', q)
  <2>1. Accounted(scan, q)
    BY <1>2, <1>15 DEF WalkInv
  <2>2. Underway(scan, q) => Underway(scan', q)
    BY <1>1, <1>14 DEF Underway
  <2> QED
    BY <1>9, <2>1, <2>2 DEF Accounted
<1>16. ASSUME NEW q \in Paths, rows[q] # None PROVE Spared(scan', q)
  BY <1>2, <1>9, <1>16 DEF WalkInv, Spared, Lies
<1>17. WalkInv(scan')
  BY <1>2, <1>12, <1>13, <1>15, <1>16 DEF WalkInv
<1> QED
  BY <1>1, <1>9, <1>10, <1>17, WalkStep

\* A batch that is committed: its files have their rows, no other row changes.
LEMMA BatchKeeps ==
    ASSUME Types, ScanInv, scan # None, scan.at # "clear", rows' = CommitUnit(scan.sink),
           UNCHANGED <<disk, touched>>
    PROVE  /\ rows' \in Table
           /\ \A p \in Paths : Lay(p)' <=> Lay(p)
           /\ \A p \in Paths : Lay(p) /\ (Current(p) \/ Batched(scan, p)) => Current(p)'
           /\ \A p \in Paths : rows'[p] # None => rows[p] # None \/ p \in scan.keep
<1>1. scan \in ScanState /\ WalkInv(scan)
  BY Running
<1>2. Stored(scan.sink, Len(scan.sink), rows')
  <2>1. scan.sink \in Seq(Entry)
    BY <1>1 DEF ScanState
  <2> QED
    BY <2>1, CommitStores DEF Types, Table
<1>3. DOMAIN scan.sink = 1..Len(scan.sink)
  BY <1>1 DEF ScanState
<1>4. \A p \in Paths : Lay(p)' <=> Lay(p)
  BY DEF Lay
<1>5. ASSUME NEW p \in Paths, Lay(p), Current(p) \/ Batched(scan, p) PROVE Current(p)'
  <2>1. Stat(p)' = Stat(p)
    BY DEF Stat
  <2>2. ASSUME NEW i \in 1..Len(scan.sink), StoredOf(scan.sink, i, p, rows'[p]) PROVE Current(p)'
    <3>1. Agrees(scan.sink[i].row, Stat(p))
      BY <1>1, <1>3, <1>5, <2>2 DEF WalkInv, ReadRight, StoredOf
    <3> QED
      BY <2>1, <2>2, <3>1 DEF StoredOf, Agrees, Current, Same
  <2>3. ASSUME \A i \in 1..Len(scan.sink) : scan.sink[i].path # p, SameStamp(rows[p], rows'[p]) PROVE Current(p)'
    <3>1. Current(p)
      BY <1>3, <1>5, <2>3 DEF Batched
    <3> QED
      BY <2>3, <3>1, CurrentStays
  <2> QED
    BY <1>2, <2>2, <2>3 DEF Stored
<1>6. ASSUME NEW p \in Paths, rows'[p] # None PROVE rows[p] # None \/ p \in scan.keep
  <2>1. ASSUME NEW i \in 1..Len(scan.sink), StoredOf(scan.sink, i, p, rows'[p]) PROVE p \in scan.keep
    BY <1>1, <1>3, <2>1 DEF WalkInv, HandsFit, StoredOf
  <2>2. SameStamp(rows[p], rows'[p]) => rows[p] # None
    BY <1>6 DEF SameStamp
  <2> QED
    BY <1>2, <2>1, <2>2 DEF Stored
<1> QED
  BY <1>2, <1>4, <1>5, <1>6 DEF Stored

LEMMA FlushKeeps == ASSUME Types, ScanInv, ScanFlush PROVE Types' /\ ScanInv'
<1>1. /\ UNCHANGED <<given, budget, disk, shut, roms, saved, touched, closed, wanted, again, told, bg, moving>>
      /\ scan # None /\ scan.at = "file" /\ rows' = CommitUnit(scan.sink)
      /\ scan' = [scan EXCEPT !.sink = <<>>]
  BY DEF ScanFlush, Runs, world, past
<1>2. scan \in ScanState /\ WalkInv(scan) /\ InReach /\ SavedStored
  BY <1>1, Running
<1>3. /\ rows' \in Table
      /\ \A p \in Paths : Lay(p)' <=> Lay(p)
      /\ \A p \in Paths : Lay(p) /\ (Current(p) \/ Batched(scan, p)) => Current(p)'
      /\ \A p \in Paths : rows'[p] # None => rows[p] # None \/ p \in scan.keep
  BY <1>1, BatchKeeps
<1>4. /\ scan' \in ScanState /\ scan'.sink = <<>>
      /\ UNCHANGED <<scan.at, scan.units, scan.done, scan.keep, scan.unread, scan.left, scan.stat, scan.tracks>>
  <2>1. <<>> \in Seq(Entry)
    OBVIOUS
  <2> QED
    BY <1>1, <1>2, <2>1 DEF ScanState
<1>5. scan' # None
  BY <1>4, LibraryAssumption
<1>6. Types'
  BY <1>1, <1>3, <1>4 DEF Types, Table
<1>7. InReach'
  BY <1>1, <1>2 DEF InReach, Reach, Within
<1>8. SavedStored'
  BY <1>1, <1>2, <1>3 DEF SavedStored
<1>9. HandsFit(scan)'
  BY <1>1, <1>2, <1>4 DEF WalkInv, HandsFit
<1>10. ReadRight(scan)'
  <2>1. ASSUME NEW p \in Paths, Lay(p)', p \in DOMAIN scan'.stat PROVE scan'.stat[p] = Stat(p)'
    <3>1. Stat(p)' = Stat(p) /\ Lay(p)
      BY <1>1, <1>3, <2>1 DEF Stat
    <3> QED
      BY <1>2, <1>4, <2>1, <3>1 DEF WalkInv, ReadRight
  <2> QED
    BY <1>4, <2>1 DEF ReadRight
<1>11. ASSUME NEW p \in Paths, Lay(p)' PROVE Accounted(scan, p)'
  <2>1. Accounted(scan, p) /\ Lay(p)
    BY <1>2, <1>3, <1>11 DEF WalkInv
  <2>2. Underway(scan, p) => Underway(scan, p)' \/ Batched(scan, p)
    BY <1>4 DEF Underway, Tracked
  <2> QED
    BY <1>3, <1>4, <2>1, <2>2 DEF Accounted
<1>12. ASSUME NEW p \in Paths, rows'[p] # None PROVE Spared(scan, p)'
  <2>1. CASE p \in scan.keep
    BY <1>4, <2>1 DEF Spared
  <2>2. CASE rows[p] # None
    <3>1. Spared(scan, p)
      BY <1>2, <2>2 DEF WalkInv
    <3>2. Within(DirOf[p])' = Within(DirOf[p])
      BY <1>1 DEF Within
    <3> QED
      BY <1>1, <1>4, <3>1, <3>2 DEF Spared, Lies
  <2> QED
    BY <1>3, <1>12, <2>1, <2>2
<1>13. WalkInv(scan)'
  BY <1>1, <1>2, <1>9, <1>10, <1>11, <1>12 DEF WalkInv
<1> QED
  BY <1>1, <1>4, <1>6, <1>7, <1>8, <1>13 DEF ScanInv

LEMMA EndKeeps == ASSUME Types, ScanInv, ScanUnitEnd PROVE Types' /\ ScanInv'
<1>1. /\ UNCHANGED <<given, budget, disk, shut, roms, touched, closed, wanted, again, told, bg, moving>>
      /\ scan # None /\ scan.at = "flush" /\ rows' = CommitUnit(scan.sink)
      /\ saved' \in {saved, scan.done}
      /\ scan' = [scan EXCEPT !.at = "unit", !.unit = None, !.sink = <<>>]
  BY DEF ScanUnitEnd, Runs, world, past
<1>2. scan \in ScanState /\ WalkInv(scan) /\ InReach /\ SavedStored
  BY <1>1, Running
<1>3. /\ rows' \in Table
      /\ \A p \in Paths : Lay(p)' <=> Lay(p)
      /\ \A p \in Paths : Lay(p) /\ (Current(p) \/ Batched(scan, p)) => Current(p)'
      /\ \A p \in Paths : rows'[p] # None => rows[p] # None \/ p \in scan.keep
  BY <1>1, BatchKeeps
<1>4. /\ scan' \in ScanState /\ scan'.sink = <<>> /\ scan'.at = "unit"
      /\ UNCHANGED <<scan.units, scan.done, scan.keep, scan.unread, scan.left, scan.stat, scan.tracks>>
  <2>1. <<>> \in Seq(Entry)
    OBVIOUS
  <2> QED
    BY <1>1, <1>2, <2>1 DEF ScanState
<1>5. scan' # None
  BY <1>4, LibraryAssumption
<1>6. Types'
  <2>1. saved' \subseteq Dirs
    BY <1>1, <1>2 DEF Types, ScanState
  <2> QED
    BY <1>1, <1>3, <1>4, <2>1 DEF Types, Table
<1>7. InReach'
  BY <1>1, <1>2 DEF InReach, Reach, Within
<1>8. scan.left = {} /\ scan.tracks = <<>>
  BY <1>1, <1>2 DEF WalkInv, HandsFit
<1>9. ASSUME NEW p \in Paths, Lay(p)
      PROVE  /\ DirOf[p] \in scan.units \cup scan.done
             /\ DirOf[p] \in scan.done => p \in scan.keep /\ Current(p)'
  <2>1. Accounted(scan, p)
    BY <1>2, <1>9 DEF WalkInv
  <2>2. Underway(scan, p) => Batched(scan, p)
    BY <1>8 DEF Underway, Tracked
  <2> QED
    BY <1>3, <1>9, <2>1, <2>2 DEF Accounted
<1>10. SavedStored'
  <2> SUFFICES ASSUME NEW p \in Paths, saved' # {}, Lay(p)', DirOf[p] \in saved' PROVE Current(p)'
    BY DEF SavedStored
  <2>1. Lay(p)
    BY <1>3
  <2>2. CASE saved' = saved
    BY <1>2, <1>3, <2>1, <2>2 DEF SavedStored
  <2>3. CASE saved' = scan.done
    BY <1>9, <2>1, <2>3
  <2> QED
    BY <1>1, <2>2, <2>3
<1>11. HandsFit(scan)'
  BY <1>2, <1>4, <1>8 DEF WalkInv, HandsFit
<1>12. ReadRight(scan)'
  <2>1. ASSUME NEW p \in Paths, Lay(p)', p \in DOMAIN scan'.stat PROVE scan'.stat[p] = Stat(p)'
    <3>1. Stat(p)' = Stat(p) /\ Lay(p)
      BY <1>1, <1>3, <2>1 DEF Stat
    <3> QED
      BY <1>2, <1>4, <2>1, <3>1 DEF WalkInv, ReadRight
  <2> QED
    BY <1>4, <2>1 DEF ReadRight
<1>13. ASSUME NEW p \in Paths, Lay(p)' PROVE Accounted(scan, p)'
  BY <1>3, <1>4, <1>9, <1>13 DEF Accounted
<1>14. ASSUME NEW p \in Paths, rows'[p] # None PROVE Spared(scan, p)'
  <2>1. CASE p \in scan.keep
    BY <1>4, <2>1 DEF Spared
  <2>2. CASE rows[p] # None
    <3>1. Spared(scan, p)
      BY <1>2, <2>2 DEF WalkInv
    <3>2. Within(DirOf[p])' = Within(DirOf[p])
      BY <1>1 DEF Within
    <3> QED
      BY <1>1, <1>4, <3>1, <3>2 DEF Spared, Lies
  <2> QED
    BY <1>3, <1>14, <2>1, <2>2
<1>15. WalkInv(scan)'
  BY <1>1, <1>2, <1>11, <1>12, <1>13, <1>14 DEF WalkInv
<1> QED
  BY <1>4, <1>6, <1>7, <1>10, <1>15 DEF ScanInv

LEMMA PruneKeeps == ASSUME Types, ScanInv, ScanPrune PROVE Types' /\ ScanInv'
<1>1. /\ UNCHANGED <<given, budget, disk, shut, roms, saved, touched, closed, wanted, again, told, bg, moving>>
      /\ scan # None /\ scan.at = "unit" /\ scan.units = {}
      /\ rows' = [p \in Paths |-> IF p \in scan.keep \/ Lies(p, scan.unread) THEN rows[p] ELSE None]
      /\ scan' = [scan EXCEPT !.at = "clear"]
  BY DEF ScanPrune, Runs, world, past
<1>2. scan \in ScanState /\ WalkInv(scan) /\ InReach /\ SavedStored
  BY <1>1, Running
<1>3. scan' \in ScanState /\ scan'.at = "clear" /\ scan' # None
  <2>1. scan' \in ScanState /\ scan'.at = "clear"
    BY <1>1, <1>2 DEF ScanState
  <2> QED
    BY <2>1, LibraryAssumption
<1>4. Types'
  <2>1. rows' \in [Paths -> Row \cup {None}]
    BY <1>1 DEF Types
  <2> QED
    BY <1>1, <1>3, <2>1 DEF Types
<1>5. ASSUME NEW p \in Paths, Lay(p)' PROVE Current(p)'
  <2>1. Lay(p) /\ Stat(p)' = Stat(p)
    BY <1>1, <1>5 DEF Lay, Stat
  <2>2. Accounted(scan, p) /\ ~Underway(scan, p)
    BY <1>1, <1>2, <2>1 DEF WalkInv, HandsFit, Underway, Tracked, Batched
  <2>3. p \in scan.keep /\ Current(p)
    BY <1>1, <2>2 DEF Accounted
  <2> QED
    BY <1>1, <2>1, <2>3 DEF Current, Same
<1>6. SavedStored'
  BY <1>5 DEF SavedStored
<1>7. InReach'
  BY <1>1, <1>2 DEF InReach, Reach, Within
<1> QED
  BY <1>3, <1>4, <1>5, <1>6, <1>7 DEF ScanInv

-----------------------------------------------------------------------------
(* The steps. *)

\* A start: with no row, or those a scan left.
LEMMA StartHolds == Init => Types /\ ScanInv
<1> SUFFICES ASSUME Init PROVE Types /\ ScanInv
  OBVIOUS
<1>1. /\ given \in Cases /\ given.budget \in [Events -> Nat] /\ given.disk \in [Paths -> Contents \cup {None}]
      /\ given.list \in [Roms -> Contents \cup {None}]
  BY LibraryAssumption DEF Init, Lists
<1>2. disk \in [Paths -> File \cup {None}]
  BY <1>1 DEF Init, File
<1>3. roms \in [Roms -> Listed \cup {None}]
  BY <1>1 DEF Init, Listed
<1>4. Scanned(given, NoRows) \in Table
  <2> DEFINE match(p) == One({r \in Roms : given.list[r] = given.disk[p]})
             n(p) == CHOOSE i \in DOMAIN PathOrder : PathOrder[i] = p
             row(p) == [id |-> n(p), size |-> SizeOf[given.disk[p]], mtime |-> 0, sum |-> given.disk[p],
                        level |-> "full", rom |-> match(p), state |-> StateOf(p, match(p))]
  <2>1. ASSUME NEW p \in Paths, given.disk[p] # None PROVE row(p) \in Row
    <3>1. match(p) \in Roms \cup {None}
      <4> DEFINE S == {r \in Roms : given.list[r] = given.disk[p]}
      <4>1. S \subseteq Roms
        OBVIOUS
      <4> HIDE DEF S
      <4>2. One(S) \in Roms \cup {None}
        BY <4>1 DEF One
      <4> QED
        BY <4>2 DEF S
    <3>2. n(p) \in Nat
      <4>1. \E i \in DOMAIN PathOrder : PathOrder[i] = p
        BY DEF Paths, ToSet
      <4>2. n(p) \in DOMAIN PathOrder
        BY <4>1
      <4>3. DOMAIN PathOrder \subseteq Nat
        BY LibraryAssumption
      <4> QED
        BY <4>2, <4>3
    <3>3. given.disk[p] \in Contents /\ SizeOf[given.disk[p]] \in Nat
      BY <1>1, <2>1, LibraryAssumption
    <3>4. StateOf(p, match(p)) \in States
      BY StateTypes
    <3> HIDE DEF match, n
    <3> QED
      BY <3>1, <3>2, <3>3, <3>4 DEF Row, Levels
  <2>2. Scanned(given, NoRows) = [p \in Paths |-> IF given.disk[p] = None THEN None ELSE row(p)]
    BY DEF Scanned
  <2> HIDE DEF row
  <2> QED
    BY <2>1, <2>2 DEF Table
<1>5. NoRows \in Table
  BY DEF NoRows, Table
<1>6. rows \in [Paths -> Row \cup {None}]
  BY <1>4, <1>5 DEF Init, Table
<1>7. budget \in [Events -> Nat] /\ budget["copy"] <= given.budget["copy"]
  <2>1. given.budget["copy"] \in Nat
    BY <1>1 DEF Events
  <2> QED
    BY <1>1, <2>1 DEF Init
<1>8. Types
  BY <1>1, <1>2, <1>3, <1>6, <1>7 DEF Init, Types
<1>9. ScanInv
  BY DEF Init, ScanInv, InReach, SavedStored
<1> QED
  BY <1>8, <1>9

LEMMA ApartKeeps == ASSUME Types, ScanInv, Apart PROVE Types' /\ ScanInv'
<1>1. CASE \/ \E p \in Paths : Delete(p) \/ RenameFile(p) \/ \E c \in Contents : Copy(p, c)
           \/ \E d \in Dirs : Shut(d) \/ Reopen(d)
  BY <1>1, CardTypes, CardKeeps
<1>2. CASE RenameRow
  BY <1>2, RenameRowTypes, RenameRowKeeps
<1>3. CASE RequestScan \/ FollowLoad \/ RemoveDat \/ FollowRemove \/ RecomputeBegin
  BY <1>3, LanesTypes, RequestsKeep
<1>4. CASE Free
  BY <1>4, LanesTypes, HoldKeeps
<1>5. CASE ScanUnit \/ ScanFile \/ ScanFlush \/ ScanTrack \/ ScanJudge \/ ScanUnitEnd
  BY <1>5, UnitKeeps, FileKeeps, FlushKeeps, TrackKeeps, JudgeKeeps, EndKeeps
<1> QED
  BY <1>1, <1>2, <1>3, <1>4, <1>5 DEF Apart

LEMMA SharedKeeps ==
    ASSUME Types, ScanInv,
           \/ ScanBegin \/ ScanPrune \/ ScanClear \/ Hold \/ Cancel
           \/ \E v \in given.loads : Load(v)
           \/ RecomputeRetired \/ RecomputeUnmatched \/ RecomputeEnd
           \/ Kill
    PROVE  Types' /\ ScanInv'
<1>1. CASE ScanBegin
  BY <1>1, BeginTypes, BeginKeeps
<1>2. CASE ScanPrune
  BY <1>2, PruneKeeps
<1>3. CASE ScanClear \/ Cancel \/ Kill
  BY <1>3, CutTypes, CutKeeps
<1>4. CASE Hold
  BY <1>4, LanesTypes, HoldKeeps
<1>5. CASE (\E v \in given.loads : Load(v)) \/ RecomputeRetired \/ RecomputeUnmatched
  BY <1>5, CatalogueTypes, CatalogueKeeps
<1>6. CASE RecomputeEnd
  BY <1>6, LanesTypes, RequestsKeep
<1> QED
  BY <1>1, <1>2, <1>3, <1>4, <1>5, <1>6

\* A step of Images alone.
Alone0 ==
    \/ \E i \in Images : Take(i) \/ \E c \in Contents : Put(i, c)
    \/ Toggle \/ Apply \/ WalkList \/ WalkRead \/ WalkStore
    \/ ChdBegin \/ ChdPage \/ ChdOpen \/ ChdDecode \/ ChdReason \/ ChdRecord \/ ChdYield
    \/ ChdHold \/ ChdFree \/ ChdCancel
    \/ RecheckBegin \/ Recheck

LEMMA AloneIs ==
    ASSUME Types, Alone0
    PROVE  /\ UNCHANGED <<given, disk, shut, rows, roms, saved, wanted, scan, again, told, moving, touched, closed>>
           /\ budget' = budget \/ \E e \in Events : Spend(e)
           /\ bg' = None \/ bg' \in Work
<1>1. {"put", "delete", "toggle", "unread", "hold", "cancel"} \subseteq Events
  BY DEF Events
<1>2. CASE \E i \in Images : Take(i) \/ \E c \in Contents : Put(i, c)
  BY <1>1, <1>2 DEF Take, Put, world, table, lanes, past, Types
<1>3. CASE Toggle \/ Apply
  BY <1>1, <1>3 DEF Toggle, Apply, vars, world, table, lanes, past, Types
<1>4. CASE WalkList \/ WalkRead \/ WalkStore
  BY <1>1, <1>4 DEF WalkList, WalkRead, WalkStore, vars, world, table, lanes, past, Types
<1>5. CASE ChdBegin \/ ChdPage \/ ChdReason \/ ChdRecord \/ ChdYield \/ ChdFree
  BY <1>5 DEF ChdBegin, ChdPage, ChdReason, ChdRecord, ChdYield, ChdFree, vars, world, table, lanes, past, Types
<1>6. CASE ChdOpen \/ ChdDecode \/ ChdHold \/ ChdCancel
  BY <1>1, <1>6 DEF ChdOpen, ChdDecode, ChdHold, ChdCancel, world, table, lanes, past, Types
<1>7. CASE RecheckBegin \/ Recheck
  BY <1>7 DEF RecheckBegin, Recheck, world, table, past, Types, Work
<1> QED
  BY <1>2, <1>3, <1>4, <1>5, <1>6, <1>7 DEF Alone0

LEMMA AloneKeeps == ASSUME Types, ScanInv, Alone0 PROVE Types' /\ ScanInv'
<1>1. /\ UNCHANGED <<given, disk, shut, rows, roms, saved, wanted, scan, again, told, moving, touched, closed>>
      /\ budget' = budget \/ \E e \in Events : Spend(e)
      /\ bg' = None \/ bg' \in Work
  BY AloneIs
<1>2. budget' \in [Events -> Nat] /\ budget'["copy"] <= given.budget["copy"]
  BY <1>1, SpendTypes DEF Types
<1>3. Types'
  BY <1>1, <1>2 DEF Types
<1> QED
  BY <1>1, <1>3, NoRow

\* Every step of Images is one of Library, or one of Images alone.
LEMMA ImagesSteps ==
    ASSUME ImagesNext
    PROVE  \/ Apart
           \/ ScanBegin \/ ScanPrune \/ ScanClear \/ Hold \/ Cancel
           \/ \E v \in given.loads : Load(v)
           \/ RecomputeRetired \/ RecomputeUnmatched
           \/ Kill
           \/ Alone0
BY DEF ImagesNext, Alone0, WalkBegin, WalkPrune, WalkClear, WalkHold, WalkCancel, LoadImages, RematchRetired,
       RematchUnmatched, KillImages

LEMMA StepKeeps == Types /\ ScanInv /\ [ImagesNext]_all => Types' /\ ScanInv'
<1> SUFFICES ASSUME Types, ScanInv, [ImagesNext]_all PROVE Types' /\ ScanInv'
  OBVIOUS
<1>1. CASE UNCHANGED all
  <2>1. UNCHANGED vars
    BY <1>1 DEF all
  <2>2. UNCHANGED <<given, budget, disk, shut, rows, roms, saved, wanted, scan, bg, again, told, moving, touched, closed>>
    BY <2>1 DEF vars, world, table, lanes, past
  <2>3. Types'
    BY <2>2 DEF Types
  <2> QED
    BY <2>2, <2>3, NoRow
<1>2. CASE ImagesNext
  BY <1>2, ImagesSteps, ApartKeeps, SharedKeeps, AloneKeeps
<1> QED
  BY <1>1, <1>2

-----------------------------------------------------------------------------
(* What follows. *)

\* Every row, file and scan is well formed, and what a running or unfinished scan knows is true:
\* directories saved as done have their rows, a file that lay untouched is listed, batched or
\* stored, and what lies under a directory that could not be read is spared.
THEOREM ScanKnows == ImagesSpec => []LibraryInv
<1>1. ImagesInit => Types /\ ScanInv
  BY StartHolds DEF ImagesInit
<1> QED
  BY <1>1, StepKeeps, PTL DEF ImagesSpec, LibraryInv

\* A step that takes a row away while the scan looks for its next directory, and is no rename,
\* is the deletion at the end of the walk.
LEMMA OnlyPrunes ==
    ASSUME Types, ImagesNext, scan # None, scan.at = "unit", NEW p \in Paths, rows[p] # None, rows'[p] = None,
           moving' = moving
    PROVE  ScanPrune
<1>1. ~ScanFlush /\ ~ScanUnitEnd /\ ~RenameRow
  BY DEF ScanFlush, ScanUnitEnd, RenameRow, Runs
<1>2. ~Alone0
  BY AloneIs
<1>3. ASSUME (\E v \in given.loads : Load(v)) \/ RecomputeRetired \/ RecomputeUnmatched PROVE FALSE
  BY <1>3, CatalogueStays DEF SameStamps, SameStamp
<1>4. ASSUME Apart PROVE FALSE
  <2>1. rows' = rows
    BY <1>1, <1>4 DEF Apart, Delete, RenameFile, Copy, Shut, Reopen, RequestScan, ScanUnit, ScanFile, ScanTrack,
       ScanJudge, Free, FollowLoad, RemoveDat, FollowRemove, RecomputeBegin, table
  <2> QED
    BY <2>1
<1>5. ASSUME ScanBegin \/ ScanClear \/ Hold \/ Cancel \/ Kill PROVE FALSE
  BY <1>5 DEF ScanBegin, ScanClear, Hold, Cancel, Kill, table
<1> QED
  BY <1>2, <1>3, <1>4, <1>5, ImagesSteps

\* The end of a scan takes away the row of no file that lay on the card, in reach, since it, or
\* the one it resumes, began, and no row under a directory it could not read.
THEOREM KeepsRows == ImagesSpec => LosesNoRow
<1> DEFINE P == \A p \in Paths :
                   (scan # None /\ scan.at = "unit" /\ rows[p] # None /\ rows'[p] = None /\ moving' = moving)
                     => /\ disk[p] = None \/ p \in touched
                        /\ ~Lies(p, closed)
<1>1. LibraryInv /\ [ImagesNext]_all => [P]_vars
  <2> SUFFICES ASSUME LibraryInv, [ImagesNext]_all, NEW p \in Paths, scan # None, scan.at = "unit",
                      rows[p] # None, rows'[p] = None, moving' = moving
               PROVE  (disk[p] = None \/ p \in touched) /\ ~Lies(p, closed)
    OBVIOUS
  <2>1. ImagesNext
    BY DEF all, vars, table
  <2>2. ScanPrune
    BY <2>1, OnlyPrunes DEF LibraryInv
  <2>3. scan.units = {} /\ p \notin scan.keep /\ ~Lies(p, scan.unread) /\ WalkInv(scan)
    BY <2>2 DEF ScanPrune, Runs, LibraryInv, ScanInv
  <2>4. ~Lay(p)
    BY <2>3 DEF WalkInv, Accounted
  <2>5. Spared(scan, p)
    BY <2>3 DEF WalkInv
  <2> QED
    BY <2>3, <2>4, <2>5 DEF Lay, Spared, Lies
<1> QED
  BY <1>1, ScanKnows, PTL DEF ImagesSpec, LosesNoRow

\* A scan that ends has a row, of its size and mtime, for every file that lay untouched since it
\* began, however often it was killed and resumed.
THEOREM StoresDone == ImagesSpec => DoneIsStored
<1> DEFINE P == (scan # None /\ scan.at = "clear" /\ scan' = None /\ saved' = {})
                   => \A p \in Paths : (disk[p] # None /\ p \notin touched) => Same(rows[p], Stat(p))
<1>1. LibraryInv => P
  BY DEF LibraryInv, ScanInv, Lay, Current
<1> QED
  BY <1>1, ScanKnows, PTL DEF DoneIsStored

-----------------------------------------------------------------------------
(***************************************************************************)
(* Images that wait.                                                       *)
(*                                                                         *)
(* The rows of images follow the setting, whoever writes them: the scan,    *)
(* the chd_tracks job, a recheck after a load of the catalogue or a start.  *)
(***************************************************************************)

\* An image's other row gives a reason, ...
Reasoned == /\ box = [i \in Images |-> box[i]]
            /\ \A i \in Images : box[i] # None => "why" \in DOMAIN box[i]

\* ... and the job never has "off" in hand for one.
Decided ==
    chd # None =>
        /\ chd = [at |-> chd.at, held |-> chd.held, after |-> chd.after, skipped |-> chd.skipped,
                  progressed |-> chd.progressed, row |-> chd.row, image |-> chd.image, why |-> chd.why]
        /\ chd.at = "reason" => chd.why # "off"

\* The rows bs follow setting o.
Follow(bs, o) == \A i \in Images : bs[i] # None =>
                     IF o THEN bs[i].why # "off" ELSE bs[i].why \notin {"pending", "no_layout"}

ImagesInv == Reasoned /\ Decided /\ (~apply => Follow(box, on))

-----------------------------------------------------------------------------
(* The rows *)

LEMMA FollowIsWaits == WaitsAsSet <=> (~apply => Follow(box, on))
BY DEF WaitsAsSet, Follow, With

\* A reason that is settled follows the setting.
LEMMA SettledFollows ==
    ASSUME NEW why, NEW o
    PROVE  IF o THEN Settle(why, o) # "off" ELSE Settle(why, o) \notin {"pending", "no_layout"}
BY DEF Settle

LEMMA NewReason ==
    ASSUME NEW b, "why" \in DOMAIN b, NEW w
    PROVE  [b EXCEPT !.why = w].why = w /\ "why" \in DOMAIN [b EXCEPT !.why = w]
OBVIOUS

\* All rows are settled.
LEMMA SettleAllFollows ==
    ASSUME Reasoned, box' = SettleAll
    PROVE  Reasoned' /\ Follow(box', on)
<1>1. box' = [i \in Images |-> IF box[i] = None THEN None
                               ELSE [box[i] EXCEPT !.why = Settle(box[i].why, on)]]
  BY DEF SettleAll
<1>2. ASSUME NEW i \in Images, box'[i] # None
      PROVE  box'[i].why = Settle(box[i].why, on) /\ "why" \in DOMAIN box'[i]
  <2>1. box[i] # None /\ box'[i] = [box[i] EXCEPT !.why = Settle(box[i].why, on)]
    BY <1>1, <1>2
  <2>2. "why" \in DOMAIN box[i]
    BY <2>1 DEF Reasoned
  <2> QED BY <2>1, <2>2, NewReason
<1>3. Reasoned'
  BY <1>1, <1>2 DEF Reasoned
<1>4. Follow(box', on)
  BY <1>2, SettledFollows DEF Follow
<1> QED BY <1>3, <1>4

\* Rows are taken away.
LEMMA TakenFollow ==
    ASSUME Reasoned, NEW P, box' = [i \in Images |-> IF i \in P THEN None ELSE box[i]],
           ~apply => Follow(box, on)
    PROVE  Reasoned' /\ (~apply => Follow(box', on))
BY DEF Reasoned, Follow

-----------------------------------------------------------------------------
(* The steps *)

LEMMA StartFollows == ImagesInit => ImagesInv
<1> SUFFICES ASSUME ImagesInit PROVE ImagesInv
  OBVIOUS
<1>1. box = [i \in Images |-> None] /\ chd = None
  BY DEF ImagesInit
<1> QED BY <1>1 DEF ImagesInv, Reasoned, Decided, Follow

\* A step that leaves the rows and the setting alone.
LEMMA AsBefore ==
    ASSUME ImagesInv, UNCHANGED <<box, on, apply>>, Decided'
    PROVE  ImagesInv'
BY DEF ImagesInv, Reasoned, Follow

LEMMA Untouched ==
    ASSUME ImagesInv, UNCHANGED <<box, on, apply, chd>>
    PROVE  ImagesInv'
BY DEF ImagesInv, Reasoned, Decided, Follow

\* The user, the scan and the DATs.
LEMMA OutsideKeeps ==
    ASSUME ImagesInv,
           \/ Apart /\ UNCHANGED images
           \/ \E i \in Images : Take(i) \/ \E c \in Contents : Put(i, c)
           \/ WalkBegin \/ WalkList \/ WalkRead \/ WalkClear \/ WalkHold
           \/ WalkCancel
           \/ \E v \in given.loads : LoadImages(v)
           \/ RecheckBegin
    PROVE  ImagesInv'
<1>1. UNCHANGED <<box, on, apply, chd>>
  BY DEF images, stored, Take, Put, WalkBegin, WalkList, WalkRead,
         WalkClear, WalkHold, WalkCancel,
         LoadImages, RecheckBegin
<1> QED BY <1>1, Untouched

LEMMA SettingKeeps == ASSUME ImagesInv, Toggle \/ Apply PROVE ImagesInv'
<1>1. CASE Toggle
  BY <1>1 DEF Toggle, ImagesInv, Reasoned, Decided, stored
<1>2. CASE Apply
  <2>1. box' = SettleAll /\ UNCHANGED <<on, chd>>
    BY <1>2 DEF Apply
  <2>2. Reasoned' /\ Follow(box', on)
    BY <2>1, SettleAllFollows DEF ImagesInv
  <2> QED BY <2>1, <2>2 DEF ImagesInv, Decided, Follow
<1> QED BY <1>1, <1>2

LEMMA StoreKeeps == ASSUME ImagesInv, WalkStore PROVE ImagesInv'
<1> DEFINE i == walk.now row == walk.row
<1>1. UNCHANGED <<on, apply, chd>>
  BY DEF WalkStore
<1>2. CASE "why" \in DOMAIN row /\ box' = [box EXCEPT ![i] = [row EXCEPT !.why = Written(row.why)]]
  <2> DEFINE new == [row EXCEPT !.why = Written(row.why)]
  <2>1. new.why = Settle(row.why, on) /\ "why" \in DOMAIN new
    BY <1>2, NewReason DEF Written
  <2>2. IF on THEN new.why # "off" ELSE new.why \notin {"pending", "no_layout"}
    BY <2>1, SettledFollows
  <2>3. box' = [box EXCEPT ![i] = new]
    BY <1>2
  <2> HIDE DEF i, row, new
  <2> QED BY <1>1, <2>1, <2>2, <2>3 DEF ImagesInv, Reasoned, Decided, Follow
<1>3. CASE \E stays \in BOOLEAN : box' = [box EXCEPT ![i] = IF stays THEN box[i] ELSE None]
  <2> HIDE DEF i
  <2> QED BY <1>1, <1>3 DEF ImagesInv, Reasoned, Decided, Follow
<1>4. \/ "why" \in DOMAIN row /\ box' = [box EXCEPT ![i] = [row EXCEPT !.why = Written(row.why)]]
      \/ box' = [box EXCEPT ![i] = IF row.rom \in Live \cup {None} THEN box[i] ELSE None]
  BY DEF WalkStore
<1> QED BY <1>2, <1>3, <1>4

LEMMA RematchKeeps ==
    ASSUME ImagesInv, WalkPrune \/ RematchRetired \/ RematchUnmatched
    PROVE ImagesInv'
<1>1. UNCHANGED <<on, apply, chd>>
  BY DEF WalkPrune, RematchRetired, RematchUnmatched
<1>2. \E P : box' = [i \in Images |-> IF i \in P THEN None ELSE box[i]]
  <2>1. CASE WalkPrune
    <3>1. box' = [i \in Images |-> IF i \in walk.boxes THEN box[i] ELSE None]
      BY <2>1 DEF WalkPrune
    <3>2. box' = [i \in Images |-> IF i \in Images \ walk.boxes THEN None ELSE box[i]]
      BY <3>1
    <3> QED BY <3>2
  <2>2. CASE RematchRetired
    BY <2>2 DEF RematchRetired, RematchTracks
  <2>3. CASE RematchUnmatched
    BY <2>3 DEF RematchUnmatched, RematchTracks
  <2> QED BY <2>1, <2>2, <2>3
<1>3. Reasoned' /\ (~apply => Follow(box', on))
  BY <1>2, TakenFollow DEF ImagesInv
<1> QED BY <1>1, <1>3 DEF ImagesInv, Decided, Follow

LEMMA RecheckKeeps == ASSUME ImagesInv, Recheck PROVE ImagesInv'
<1>1. UNCHANGED <<on, apply, chd>> /\ box' = Rechecked(box)
  BY DEF Recheck
<1>2. box' = [i \in Images |-> IF box[i] # None /\ box[i].why = "no_layout"
                               THEN [box[i] EXCEPT !.why = "pending"] ELSE box[i]]
  BY <1>1 DEF Rechecked
<1>3. ASSUME NEW i \in Images, box'[i] # None
      PROVE  /\ box[i] # None /\ "why" \in DOMAIN box'[i]
             /\ box'[i].why = IF box[i].why = "no_layout" THEN "pending" ELSE box[i].why
  <2>1. CASE box[i] # None /\ box[i].why = "no_layout"
    <3>1. box'[i] = [box[i] EXCEPT !.why = "pending"] /\ "why" \in DOMAIN box[i]
      BY <1>2, <2>1 DEF ImagesInv, Reasoned
    <3> QED BY <3>1, <2>1, NewReason
  <2>2. CASE ~(box[i] # None /\ box[i].why = "no_layout")
    BY <1>2, <1>3, <2>2 DEF ImagesInv, Reasoned
  <2> QED BY <2>1, <2>2
<1>4. Reasoned'
  BY <1>2, <1>3 DEF Reasoned
<1>5. ~apply => Follow(box', on)
  BY <1>3 DEF ImagesInv, Follow
<1> QED BY <1>1, <1>4, <1>5 DEF ImagesInv, Decided, Follow

LEMMA KillKeeps == ASSUME ImagesInv, KillImages PROVE ImagesInv'
<1>1. box' = SettleAll /\ on' = on /\ chd' = None
  BY DEF KillImages
<1>2. Reasoned' /\ Follow(box', on)
  BY <1>1, SettleAllFollows DEF ImagesInv
<1> QED BY <1>1, <1>2 DEF ImagesInv, Decided, Follow

\* The job.
LEMMA OpenKeeps == ASSUME ImagesInv, ChdOpen PROVE ImagesInv'
<1>1. UNCHANGED <<box, on, apply>> /\ chd # None
  BY DEF ChdOpen, Works, stored
<1>2. chd' = None \/ \E file : chd' = Opened(file)
  BY DEF ChdOpen
<1>3. ASSUME NEW file, chd' = Opened(file) PROVE Decided'
  BY <1>1, <1>3 DEF Opened, Skipped, Reason, ImagesInv, Decided
<1>4. Decided'
  BY <1>2, <1>3 DEF Decided
<1> QED BY <1>1, <1>4, AsBefore

LEMMA JobKeeps ==
    ASSUME ImagesInv, ChdBegin \/ ChdPage \/ ChdDecode \/ ChdYield \/ ChdHold
                      \/ ChdFree \/ ChdCancel
    PROVE  ImagesInv'
<1>1. UNCHANGED <<box, on, apply>>
  BY DEF ChdBegin, ChdPage, ChdDecode, ChdYield, ChdHold, ChdFree,
         ChdCancel, stored
<1>2. Decided'
  <2>1. CASE ChdBegin
    BY <2>1 DEF ChdBegin, Chd0, Decided
  <2>2. CASE ChdPage
    BY <2>2 DEF ChdPage, Works, ImagesInv, Decided
  <2>3. CASE ChdDecode
    BY <2>3 DEF ChdDecode, Works, Skipped, Reason, ImagesInv, Decided
  <2>4. CASE ChdYield
    BY <2>4 DEF ChdYield, Works, ImagesInv, Decided
  <2>5. CASE ChdHold \/ ChdFree \/ ChdCancel
    BY <2>5 DEF ChdHold, ChdFree, ChdCancel, ImagesInv, Decided
  <2> QED BY <2>1, <2>2, <2>3, <2>4, <2>5
<1> QED BY <1>1, <1>2, AsBefore

LEMMA ReasonKeeps == ASSUME ImagesInv, ChdReason PROVE ImagesInv'
<1> DEFINE i == chd.row
<1>1. UNCHANGED <<on, apply>> /\ chd # None /\ chd.at = "reason"
  BY DEF ChdReason, Works
<1>2. Decided'
  BY <1>1 DEF ChdReason, ImagesInv, Decided
<1>3. CASE UNCHANGED box
  BY <1>1, <1>2, <1>3, AsBefore
<1>4. CASE on /\ i \in Waits(box) /\ box' = [box EXCEPT ![i].why = chd.why]
  <2>1. i \in Images /\ box[i] # None /\ "why" \in DOMAIN box[i] /\ chd.why # "off"
    BY <1>1, <1>4 DEF Waits, ImagesInv, Reasoned, Decided
  <2>2. box' = [box EXCEPT ![i] = [box[i] EXCEPT !.why = chd.why]]
    BY <1>4
  <2> DEFINE new == [box[i] EXCEPT !.why = chd.why]
  <2>3. new.why # "off" /\ "why" \in DOMAIN new
    BY <2>1, NewReason
  <2>4. on /\ box' = [box EXCEPT ![i] = new]
    BY <1>4, <2>2
  <2> HIDE DEF new, i
  <2> QED BY <1>1, <1>2, <2>1, <2>3, <2>4 DEF ImagesInv, Reasoned, Follow
<1> QED BY <1>3, <1>4 DEF ChdReason

LEMMA RecordKeeps == ASSUME ImagesInv, ChdRecord PROVE ImagesInv'
<1>1. UNCHANGED <<on, apply>> /\ chd # None /\ box' = [box EXCEPT ![chd.row] = None]
  BY DEF ChdRecord, Works
<1>2. Decided'
  BY <1>1 DEF ChdRecord, ImagesInv, Decided
<1>3. Reasoned' /\ (~apply => Follow(box', on))
  BY <1>1 DEF ImagesInv, Reasoned, Follow
<1> QED BY <1>1, <1>2, <1>3 DEF ImagesInv, Follow

-----------------------------------------------------------------------------

LEMMA FollowKeeps == ImagesInv /\ [ImagesNext]_all => ImagesInv'
<1> SUFFICES ASSUME ImagesInv, [ImagesNext]_all PROVE ImagesInv'
  OBVIOUS
<1>1. CASE UNCHANGED all
  BY <1>1, Untouched DEF all, images, stored
<1>2. CASE ImagesNext
  BY <1>2, OutsideKeeps, SettingKeeps, StoreKeeps, RematchKeeps, RecheckKeeps, KillKeeps, OpenKeeps,
     JobKeeps, ReasonKeeps, RecordKeeps DEF ImagesNext
<1> QED BY <1>1, <1>2

\* No image waits for its decoding while chd_tracks is off, nor stays "off" while it is on, but
\* until the change is applied: through scans, decodes, DAT loads, rechecks and starts.
THEOREM RowsFollowSetting == ImagesSpec => []WaitsAsSet
<1>1. ImagesInit => ImagesInv
  BY StartFollows
<1>2. ImagesInv /\ [ImagesNext]_all => ImagesInv'
  BY FollowKeeps
<1>3. ImagesInv => WaitsAsSet
  BY FollowIsWaits DEF ImagesInv
<1> QED BY <1>1, <1>2, <1>3, PTL DEF ImagesSpec

-----------------------------------------------------------------------------
(***************************************************************************)
(* One row for an id.                                                      *)
(*                                                                         *)
(* A row keeps its id while its size and mtime stay, a batch gives its new  *)
(* rows ids above all others, each its own, and a rename moves a row from   *)
(* its path, taking the row it finds at the new one away.                   *)
(***************************************************************************)
OneIdEach(rs) == \A p, q \in Paths : (rs[p] # None /\ rs[q] # None /\ rs[p].id = rs[q].id) => p = q

\* Rows that are rows of before, at their paths.
FromRows(rs, new) == \A p \in Paths : new[p] # None => rs[p] # None /\ new[p].id = rs[p].id

LEMMA IdsStay ==
    ASSUME NEW rs, NEW new, OneIdEach(rs), FromRows(rs, new)
    PROVE  OneIdEach(new)
BY DEF OneIdEach, FromRows

LEMMA StampsAreRows ==
    ASSUME NEW rs, NEW new, SameStamps(rs, new)
    PROVE  FromRows(rs, new)
BY DEF SameStamps, SameStamp, FromRows

\* A new row's id is above those of the table, and of the new rows before it in the batch.
LEMMA NewIds ==
    ASSUME rows \in Table, NEW batch \in Seq(Entry), NEW i \in DOMAIN batch, rows[batch[i].path] = None
    PROVE  /\ \A p \in Paths : rows[p] # None => rows[p].id < IdIn(batch, i)
           /\ \A j \in DOMAIN batch : (i < j /\ rows[batch[j].path] = None) => IdIn(batch, i) < IdIn(batch, j)
<1> DEFINE Present == {q \in Paths : rows[q] # None}
           Used == {rows[p].id : p \in Present}
           Added(k) == {j \in 1..k : rows[batch[j].path] = None}
           M == Max({0} \cup Used)
<1>1. IsFiniteSet({0} \cup Used) /\ {0} \cup Used \subseteq Nat
  <2>1. IsFiniteSet(Present)
    BY PathsFinite, FS_Subset
  <2>2. IsFiniteSet(Used)
    <3> DEFINE f == [p \in Present |-> rows[p].id]
    <3>1. f \in Surjection(Present, Used)
      BY DEF Surjection
    <3> HIDE DEF Present, Used, f
    <3> QED
      BY <2>1, <3>1, FS_Surjection
  <2>3. ASSUME NEW p \in Present PROVE rows[p].id \in Nat
    BY DEF Table, Row
  <2>4. IsFiniteSet({0} \cup Used)
    <3> HIDE DEF Used
    <3> QED
      BY <2>2, FS_Singleton, FS_Union
  <2> QED
    BY <2>3, <2>4
<1>2. M \in Nat /\ \A x \in {0} \cup Used : x <= M
  <2> HIDE DEF Used
  <2> QED
    BY <1>1, HasMax
<1>3. ASSUME NEW k \in DOMAIN batch PROVE IsFiniteSet(Added(k)) /\ Cardinality(Added(k)) \in Nat
  <2>1. IsFiniteSet(1..k)
    BY FS_Interval
  <2>2. Added(k) \subseteq 1..k
    OBVIOUS
  <2> HIDE DEF Added
  <2> QED
    BY <2>1, <2>2, FS_Subset, FS_CardinalityType
<1>4. ASSUME NEW k \in DOMAIN batch, rows[batch[k].path] = None
      PROVE  IdIn(batch, k) = M + Cardinality(Added(k)) /\ k \in Added(k)
  <2>1. k \in 1..k
    OBVIOUS
  <2>2. IdIn(batch, k) = M + Cardinality(Added(k))
    BY <1>4 DEF IdIn
  <2> QED
    BY <1>4, <2>1, <2>2
<1>5. ASSUME NEW p \in Paths, rows[p] # None PROVE rows[p].id < IdIn(batch, i)
  <2>1. rows[p].id <= M /\ rows[p].id \in Nat
    BY <1>1, <1>2, <1>5
  <2>2. Cardinality(Added(i)) # 0
    <3>1. Added(i) # {}
      BY <1>4
    <3> HIDE DEF Added
    <3> QED
      BY <1>3, <3>1, FS_EmptySet
  <2> HIDE DEF M, Added
  <2> QED
    BY <1>2, <1>3, <1>4, <2>1, <2>2
<1>6. ASSUME NEW j \in DOMAIN batch, i < j, rows[batch[j].path] = None PROVE IdIn(batch, i) < IdIn(batch, j)
  <2>1. Added(i) \subseteq Added(j)
    BY <1>6
  <2>2. j \in Added(j) /\ j \notin Added(i)
    BY <1>4, <1>6
  <2>3. Cardinality(Added(i)) < Cardinality(Added(j))
    <3> HIDE DEF Added
    <3>1. Added(i) # Added(j)
      BY <2>2
    <3> QED
      BY <1>3, <2>1, <3>1, FS_Subset, FS_CardinalityType
  <2> HIDE DEF M, Added
  <2> QED
    BY <1>2, <1>3, <1>4, <1>6, <2>3
<1> QED
  BY <1>5, <1>6

\* A batch leaves one row for an id.
LEMMA CommitIds ==
    ASSUME roms \in [Roms -> Listed \cup {None}], rows \in Table, OneIdEach(rows), NEW batch \in Seq(Entry)
    PROVE  OneIdEach(CommitUnit(batch))
<1> DEFINE new == CommitUnit(batch)  N == Len(batch)
           Fresh1(p, i) == i \in DOMAIN batch /\ batch[i].path = p /\ rows[p] = None /\ new[p].id = IdIn(batch, i)
<1>1. Stored(batch, N, new)
  BY CommitStores
<1> HIDE DEF new
<1>2. N \in Nat /\ DOMAIN batch = 1..N
  OBVIOUS
<1>3. ASSUME NEW p \in Paths, new[p] # None
      PROVE  (rows[p] # None /\ new[p].id = rows[p].id) \/ \E i : Fresh1(p, i)
  <2>1. CASE \E i \in 1..N : StoredOf(batch, i, p, new[p])
    <3>1. PICK i \in 1..N : StoredOf(batch, i, p, new[p])
      BY <2>1
    <3>2. i \in DOMAIN batch /\ batch[i].path = p /\ new[p].id = IdIn(batch, i)
      BY <1>2, <3>1 DEF StoredOf
    <3>3. rows[p] # None => IdIn(batch, i) = rows[p].id
      BY <3>2 DEF IdIn
    <3> QED
      BY <3>2, <3>3
  <2>2. CASE SameStamp(rows[p], new[p])
    BY <1>3, <2>2 DEF SameStamp
  <2> QED
    BY <1>1, <2>1, <2>2 DEF Stored
<1>4. ASSUME NEW p \in Paths, NEW i, Fresh1(p, i), NEW q \in Paths, rows[q] # None PROVE new[p].id # rows[q].id
  <2>1. rows[q].id < IdIn(batch, i)
    BY <1>4, NewIds
  <2>2. rows[q].id \in Nat /\ IdIn(batch, i) \in Nat
    BY <1>4, IdTypes DEF Table, Row
  <2> QED
    BY <1>4, <2>1, <2>2
<1>5. ASSUME NEW p \in Paths, NEW i, Fresh1(p, i), NEW q \in Paths, NEW j, Fresh1(q, j), new[p].id = new[q].id
      PROVE  p = q
  <2>1. i \in DOMAIN batch /\ j \in DOMAIN batch /\ IdIn(batch, i) \in Nat /\ IdIn(batch, j) \in Nat
    BY <1>5, IdTypes
  <2>2. ~(i < j)
    <3>1. i < j => IdIn(batch, i) < IdIn(batch, j)
      BY <1>5, NewIds
    <3> QED
      BY <1>5, <2>1, <3>1
  <2>3. ~(j < i)
    <3>1. j < i => IdIn(batch, j) < IdIn(batch, i)
      BY <1>5, NewIds
    <3> QED
      BY <1>5, <2>1, <3>1
  <2>4. i = j
    BY <1>2, <2>1, <2>2, <2>3
  <2> QED
    BY <1>5, <2>4
<1> SUFFICES ASSUME NEW p \in Paths, NEW q \in Paths, new[p] # None, new[q] # None, new[p].id = new[q].id
             PROVE  p = q
  BY DEF OneIdEach, new
<1> HIDE DEF Fresh1
<1> QED
  BY <1>3, <1>4, <1>5 DEF OneIdEach

\* A rename moves one row.
LEMMA RenameIds ==
    ASSUME Types, OneIdEach(rows), RenameRow
    PROVE  OneIdEach(rows')
<1> DEFINE kept == [p \in Paths |-> IF rows[p] # None /\ rows[p].id = moving.stale THEN None ELSE rows[p]]
           from == {p \in Paths : kept[p] # None /\ kept[p].id = moving.id}
           moved == [kept[CHOOSE q \in from : TRUE] EXCEPT !.state = "verified", !.mtime = moving.mtime]
<1>1. OneIdEach(kept) /\ FromRows(rows, kept) /\ kept \in Table
  <2>1. FromRows(rows, kept)
    BY DEF FromRows
  <2>2. kept \in Table
    BY DEF Table, Types
  <2> HIDE DEF kept
  <2> QED
    BY <2>1, <2>2, IdsStay
<1>2. \/ rows' = rows
      \/ /\ from # {}
         /\ rows' = [p \in Paths |-> IF p = moving.to THEN moved ELSE IF p \in from THEN None ELSE kept[p]]
  BY DEF RenameRow
<1>3. CASE rows' = rows
  BY <1>3
<1>4. CASE /\ from # {}
           /\ rows' = [p \in Paths |-> IF p = moving.to THEN moved ELSE IF p \in from THEN None ELSE kept[p]]
  <2>1. PICK x \in from : x = CHOOSE q \in from : TRUE
    BY <1>4
  <2>2. kept[x] \in Row /\ kept[x].id = moving.id
    BY <1>1, <2>1 DEF Table
  <2> HIDE DEF kept
  <2>3. moved.id = moving.id
    BY <2>1, <2>2 DEF Row
  <2>4. ASSUME NEW p \in Paths, rows'[p] # None, p # moving.to
        PROVE  kept[p] # None /\ rows'[p] = kept[p] /\ kept[p].id # moving.id
    BY <1>4, <2>4
  <2>5. ASSUME NEW p \in Paths, p = moving.to PROVE rows'[p].id = moving.id
    BY <1>4, <2>3, <2>5
  <2> HIDE DEF from, moved
  <2> SUFFICES ASSUME NEW p \in Paths, NEW q \in Paths, rows'[p] # None, rows'[q] # None, rows'[p].id = rows'[q].id
               PROVE  p = q
    BY DEF OneIdEach
  <2> QED
    BY <1>1, <2>4, <2>5 DEF OneIdEach
<1> QED
  BY <1>2, <1>3, <1>4

\* Whatever writes rows leaves one for an id.
LEMMA IdsKeep ==
    ASSUME Types, OneIdEach(rows), ImagesNext
    PROVE  OneIdEach(rows')
<1>1. CASE ScanFlush \/ ScanUnitEnd
  <2>1. scan.sink \in Seq(Entry) /\ rows' = CommitUnit(scan.sink)
    BY <1>1 DEF ScanFlush, ScanUnitEnd, Runs, Types, ScanState
  <2> QED
    BY <2>1, CommitIds DEF Types, Table
<1>2. CASE RenameRow
  BY <1>2, RenameIds
<1>3. CASE (\E v \in given.loads : Load(v)) \/ RecomputeRetired \/ RecomputeUnmatched
  BY <1>3, CatalogueStays, StampsAreRows, IdsStay
<1>4. CASE ScanPrune
  <2>1. FromRows(rows, rows')
    BY <1>4 DEF ScanPrune, FromRows
  <2> QED
    BY <2>1, IdsStay
<1>5. CASE Apart /\ ~ScanFlush /\ ~ScanUnitEnd /\ ~RenameRow
  <2>1. rows' = rows
    BY <1>5 DEF Apart, Delete, RenameFile, Copy, Shut, Reopen, RequestScan, ScanUnit, ScanFile, ScanTrack,
       ScanJudge, Free, FollowLoad, RemoveDat, FollowRemove, RecomputeBegin, table
  <2> QED
    BY <2>1
<1>6. CASE ScanBegin \/ ScanClear \/ Hold \/ Cancel \/ Kill
  <2>1. rows' = rows
    BY <1>6 DEF ScanBegin, ScanClear, Hold, Cancel, Kill, table
  <2> QED
    BY <2>1
<1>7. CASE Alone0
  BY <1>7, AloneIs
<1> QED
  BY <1>1, <1>2, <1>3, <1>4, <1>5, <1>6, <1>7, ImagesSteps

-----------------------------------------------------------------------------
(* What a scan has in hand. *)

\* A directory that could not be read is done, or a top; a batch of a flat directory is no longer
\* than it is written at, and one of a disc no longer than the disc has files.
Fits(s) ==
    /\ s.unread \subseteq s.done \cup Tops
    /\ ~given.disc => Len(s.sink) <= FlushRows /\ s.tracks = <<>>
    /\ given.disc => /\ Len(s.sink) <= Len(PathOrder) /\ (s.at # "flush" => s.sink = <<>>)
                     /\ Len(s.tracks) + Cardinality(s.left) <= Len(PathOrder)

FitInv == closed \subseteq shut /\ OneIdEach(rows) /\ (scan # None => Fits(scan))

LEMMA Sizes ==
    ASSUME NEW S \in SUBSET Paths
    PROVE  IsFiniteSet(S) /\ Cardinality(S) \in Nat /\ Len(PathOrder) \in Nat /\ Cardinality(S) <= Len(PathOrder)
<1>1. PathOrder \in Seq(Paths) /\ DOMAIN PathOrder = 1..Len(PathOrder) /\ Len(PathOrder) \in Nat
  BY LibraryAssumption
<1>2. IsFiniteSet(1..Len(PathOrder)) /\ Cardinality(1..Len(PathOrder)) = Len(PathOrder)
  BY <1>1, FS_Interval
<1>3. PathOrder \in Surjection(1..Len(PathOrder), Paths)
  <2>1. Paths = {PathOrder[i] : i \in DOMAIN PathOrder}
    BY DEF Paths, ToSet
  <2>2. PathOrder \in [1..Len(PathOrder) -> Paths]
    BY <1>1
  <2> QED
    BY <1>1, <2>1, <2>2 DEF Surjection
<1>4. Cardinality(Paths) <= Len(PathOrder)
  BY <1>2, <1>3, FS_Surjection
<1>5. IsFiniteSet(S) /\ Cardinality(S) <= Cardinality(Paths)
  BY PathsFinite, FS_Subset
<1> QED
  BY <1>1, <1>4, <1>5, PathsFinite, FS_CardinalityType

LEMMA FitsStay ==
    ASSUME NEW s, Fits(s), NEW t, t.unread = s.unread, t.done = s.done, t.sink = s.sink, t.tracks = s.tracks,
           t.left = s.left, t.at = s.at \/ t.sink = <<>>
    PROVE  Fits(t)
BY DEF Fits

LEMMA BeginFits == ASSUME Types, ScanBegin PROVE Fits(scan')
<1>1. /\ scan'.unread \subseteq Tops /\ scan'.sink = <<>> /\ scan'.tracks = <<>> /\ scan'.left = {}
  BY DEF ScanBegin, Scan0
<1>2. Cardinality({}) = 0 /\ Len(PathOrder) \in Nat /\ FlushRows \in Nat
  BY FS_EmptySet, Sizes, LibraryAssumption
<1> QED
  BY <1>1, <1>2 DEF Fits

LEMMA UnitFits == ASSUME Types, ScanInv, ScanUnit, Fits(scan) PROVE Fits(scan')
<1> DEFINE d == Earliest(DirOrder, scan.units)
           here == {p \in Paths : DirOf[p] = d /\ disk[p] # None}
           stat == [p \in here |-> Stat(p)]
<1>1. scan \in ScanState /\ scan.at = "unit" /\ scan.sink = <<>>
  BY Running DEF ScanUnit, Runs, WalkInv, HandsFit
<1>2. \/ scan' = [scan EXCEPT !.at = "flush", !.unit = d, !.units = scan.units \ {d},
                              !.unread = scan.unread \cup {d}, !.done = scan.done \cup {d}]
      \/ scan' = [scan EXCEPT !.at = "file", !.unit = d, !.units = scan.units \ {d}, !.done = scan.done \cup {d},
                              !.left = here, !.keep = scan.keep \cup here, !.tracks = <<>>, !.stat = stat]
  BY DEF ScanUnit
<1>3. here \in SUBSET Paths
  OBVIOUS
<1> HIDE DEF d, here, stat
<1>4. /\ scan'.sink = <<>> /\ scan'.unread \subseteq scan'.done \cup Tops
      /\ \/ scan'.tracks = scan.tracks /\ scan'.left = scan.left
         \/ scan'.tracks = <<>> /\ scan'.left = here
  <2> USE DEF ScanState
  <2>1. scan.unread \subseteq scan.done \cup Tops
    BY DEF Fits
  <2>2. CASE scan' = [scan EXCEPT !.at = "flush", !.unit = d, !.units = scan.units \ {d},
                                  !.unread = scan.unread \cup {d}, !.done = scan.done \cup {d}]
    <3>1. /\ scan'.sink = scan.sink /\ scan'.unread = scan.unread \cup {d} /\ scan'.done = scan.done \cup {d}
          /\ scan'.tracks = scan.tracks /\ scan'.left = scan.left
      BY <1>1, <2>2
    <3> QED
      BY <1>1, <2>1, <3>1
  <2>3. CASE scan' = [scan EXCEPT !.at = "file", !.unit = d, !.units = scan.units \ {d}, !.done = scan.done \cup {d},
                                  !.left = here, !.keep = scan.keep \cup here, !.tracks = <<>>, !.stat = stat]
    <3>1. /\ scan'.sink = scan.sink /\ scan'.unread = scan.unread /\ scan'.done = scan.done \cup {d}
          /\ scan'.tracks = <<>> /\ scan'.left = here
      BY <1>1, <2>3
    <3> QED
      BY <1>1, <2>1, <3>1
  <2> QED
    BY <1>2, <2>2, <2>3
<1>5. Cardinality(here) <= Len(PathOrder) /\ Cardinality(here) \in Nat /\ Len(PathOrder) \in Nat /\ FlushRows \in Nat
  BY <1>3, Sizes, LibraryAssumption
<1> QED
  BY <1>4, <1>5 DEF Fits

LEMMA FileFits == ASSUME Types, ScanInv, ScanFile, Fits(scan) PROVE Fits(scan')
<1> DEFINE p == Earliest(PathOrder, scan.left)  s == scan.stat[p]
<1>1. scan \in ScanState /\ ~given.disc /\ Len(scan.sink) < FlushRows
  BY Running DEF ScanFile, Runs
<1>2. PICK c : scan' = [scan EXCEPT !.left = scan.left \ {p}, !.sink = scan.sink \o AsEntry(p, FlatRow(p, s, c))]
  BY DEF ScanFile
<1> DEFINE added == AsEntry(p, FlatRow(p, s, c))
<1>3. added = <<>> \/ \E e : added = <<e>>
  BY DEF AsEntry
<1> HIDE DEF added, p
<1>4. /\ scan'.sink = scan.sink \o added
      /\ scan'.unread = scan.unread /\ scan'.done = scan.done /\ scan'.tracks = scan.tracks
  BY <1>1, <1>2 DEF ScanState, added
<1>5. Len(scan.sink \o added) <= Len(scan.sink) + 1 /\ Len(scan.sink) \in Nat
  <2>1. scan.sink \in Seq(Entry)
    BY <1>1 DEF ScanState
  <2>2. CASE added = <<>>
    BY <2>1, <2>2
  <2>3. ASSUME NEW e, added = <<e>> PROVE Len(scan.sink \o added) <= Len(scan.sink) + 1
    <3>1. scan.sink \in Seq(Entry \cup {e}) /\ <<e>> \in Seq(Entry \cup {e})
      BY <2>1
    <3>2. Len(scan.sink \o <<e>>) = Len(scan.sink) + Len(<<e>>) /\ Len(<<e>>) = 1
      BY <3>1
    <3> QED
      BY <2>1, <2>3, <3>2
  <2> QED
    BY <1>3, <2>1, <2>2, <2>3
<1>6. FlushRows \in Nat
  BY LibraryAssumption
<1>7. Len(scan'.sink) <= FlushRows
  <2> DEFINE n == Len(scan.sink)  m == Len(scan.sink \o added)
  <2>1. n \in Nat /\ m <= n + 1 /\ n < FlushRows /\ (m = n \/ m = n + 1 \/ m <= n)
    BY <1>1, <1>5
  <2> QED
    BY <1>4, <1>5, <1>6, <2>1
<1> QED
  BY <1>1, <1>4, <1>7 DEF Fits

LEMMA TrackFits == ASSUME Types, ScanInv, ScanTrack, Fits(scan) PROVE Fits(scan')
<1> DEFINE p == Earliest(PathOrder, scan.left)
<1>1. scan \in ScanState /\ WalkInv(scan) /\ given.disc /\ scan.left # {} /\ scan.at = "file"
  BY Running DEF ScanTrack, Runs
<1>2. p \in scan.left
  BY <1>1, AtHand
<1>3. PICK t : scan' = [scan EXCEPT !.left = scan.left \ {p}, !.tracks = Append(scan.tracks, t)]
  BY DEF ScanTrack
<1> HIDE DEF p
<1>4. /\ scan'.left = scan.left \ {p} /\ scan'.tracks = Append(scan.tracks, t)
      /\ scan'.sink = scan.sink /\ scan'.unread = scan.unread /\ scan'.done = scan.done /\ scan'.at = scan.at
  BY <1>1, <1>3 DEF ScanState
<1>5. Cardinality(scan.left \ {p}) = Cardinality(scan.left) - 1 /\ Cardinality(scan.left) \in Nat
  <2>1. scan.left \in SUBSET Paths
    BY <1>1 DEF ScanState
  <2> QED
    BY <1>2, <2>1, Sizes, FS_RemoveElement
<1>6. Len(Append(scan.tracks, t)) = Len(scan.tracks) + 1 /\ Len(scan.tracks) \in Nat
  <2>1. scan.tracks \in Seq(Track)
    BY <1>1 DEF ScanState
  <2> QED
    BY <2>1
<1>7. Len(PathOrder) \in Nat
  BY Sizes
<1> QED
  BY <1>1, <1>4, <1>5, <1>6, <1>7 DEF Fits

LEMMA JudgeFits == ASSUME Types, ScanInv, ScanJudge, Fits(scan) PROVE Fits(scan')
<1>1. scan \in ScanState /\ scan.at = "file" /\ scan.left = {} /\ Len(scan.sink) < FlushRows
  BY Running DEF ScanJudge, Runs
<1>2. PICK f : /\ DOMAIN f = DOMAIN scan.tracks /\ f = [i \in DOMAIN scan.tracks |-> f[i]]
               /\ scan' = [scan EXCEPT !.at = "flush", !.left = {}, !.stat = <<>>, !.tracks = <<>>,
                                       !.sink = scan.sink \o f]
  <2> DEFINE m == [p \in {t.path : t \in ToSet(scan.tracks)} |->
                      (CHOOSE t \in ToSet(scan.tracks) : t.path = p).match]
             judged(t) == [path |-> t.path, row |->
                 NewRow(scan.stat[t.path], t.sum, IF t.sum = None THEN "none" ELSE "full",
                        m[t.path], DiscState(m, t.path))]
             g == [i \in DOMAIN scan.tracks |-> judged(scan.tracks[i])]
  <2>1. scan' = [scan EXCEPT !.at = "flush", !.left = {}, !.stat = <<>>, !.tracks = <<>>, !.sink = scan.sink \o g]
    BY DEF ScanJudge
  <2> HIDE DEF judged
  <2>2. DOMAIN g = DOMAIN scan.tracks /\ g = [i \in DOMAIN scan.tracks |-> g[i]]
    OBVIOUS
  <2> HIDE DEF g
  <2> QED
    BY <2>1, <2>2
<1>3. scan.tracks \in Seq(Track) /\ scan.sink \in Seq(Entry)
  BY <1>1 DEF ScanState
<1>4. f \in Seq({f[i] : i \in DOMAIN f}) /\ Len(f) = Len(scan.tracks)
  <2>1. DOMAIN f = 1..Len(scan.tracks) /\ Len(scan.tracks) \in Nat
    BY <1>2, <1>3
  <2>2. f \in [1..Len(scan.tracks) -> {f[i] : i \in DOMAIN f}]
    BY <1>2, <2>1
  <2>3. f \in Seq({f[i] : i \in DOMAIN f})
    BY <2>1, <2>2, SeqDef
  <2> QED
    BY <2>1, <2>3, LenProperties
<1>5. Len(scan.sink \o f) = Len(scan.sink) + Len(scan.tracks)
  <2> DEFINE T == Entry \cup {f[i] : i \in DOMAIN f}
  <2>1. scan.sink \in Seq(T) /\ f \in Seq(T)
    BY <1>3, <1>4
  <2> HIDE DEF T
  <2>2. Len(scan.sink \o f) = Len(scan.sink) + Len(f)
    BY <2>1
  <2>3. Len(f) = Len(scan.tracks)
    BY <1>4
  <2> QED
    BY <2>2, <2>3
<1>6. /\ scan'.at = "flush" /\ scan'.left = {} /\ scan'.tracks = <<>> /\ scan'.sink = scan.sink \o f
      /\ scan'.unread = scan.unread /\ scan'.done = scan.done
  BY <1>1, <1>2 DEF ScanState
<1>7. Cardinality({}) = 0 /\ Len(PathOrder) \in Nat /\ Len(<<>>) = 0 /\ Len(scan.sink) \in Nat /\ FlushRows \in Nat
  BY <1>3, FS_EmptySet, Sizes, LibraryAssumption
<1>8. CASE given.disc
  <2>1. scan.sink = <<>> /\ Len(scan.tracks) <= Len(PathOrder)
    <3>1. Len(scan.tracks) + Cardinality({}) <= Len(PathOrder) /\ scan.sink = <<>>
      BY <1>1, <1>8 DEF Fits
    <3>2. Len(scan.tracks) \in Nat
      BY <1>3
    <3> QED
      BY <1>7, <3>1, <3>2
  <2>2. Len(scan.sink \o f) <= Len(PathOrder)
    BY <1>5, <1>7, <2>1
  <2> QED
    BY <1>6, <1>7, <1>8, <2>2 DEF Fits
<1>9. CASE ~given.disc
  <2>1. Len(scan.tracks) = 0
    BY <1>9 DEF Fits
  <2>2. Len(scan.sink \o f) <= FlushRows
    BY <1>1, <1>5, <1>7, <2>1
  <2> QED
    BY <1>6, <1>9, <2>2 DEF Fits
<1> QED
  BY <1>8, <1>9

LEMMA WriteFits == ASSUME Types, ScanFlush \/ ScanUnitEnd \/ ScanPrune, ScanInv, Fits(scan) PROVE Fits(scan')
<1>1. scan \in ScanState
  BY DEF ScanFlush, ScanUnitEnd, ScanPrune, Runs, Types
<1>2. /\ scan'.unread = scan.unread /\ scan'.done = scan.done /\ scan'.tracks = scan.tracks /\ scan'.left = scan.left
      /\ scan'.sink = <<>>
  <2>1. CASE ScanFlush
    BY <1>1, <2>1 DEF ScanFlush, ScanState
  <2>2. CASE ScanUnitEnd
    BY <1>1, <2>2 DEF ScanUnitEnd, ScanState
  <2>3. CASE ScanPrune
    <3>1. scan.sink = <<>>
      BY <2>3, Running DEF ScanPrune, Runs, WalkInv, HandsFit
    <3> QED
      BY <1>1, <2>3, <3>1 DEF ScanPrune, ScanState
  <2> QED
    BY <2>1, <2>2, <2>3
<1>3. Len(PathOrder) \in Nat /\ FlushRows \in Nat /\ Len(<<>>) = 0
  BY Sizes, LibraryAssumption
<1> QED
  BY <1>2, <1>3 DEF Fits

\* A step that leaves the scan alone, or lets it go on as it was.
LEMMA SameFits ==
    ASSUME given' = given, scan' = None \/ SameScan(scan, scan'), scan' # None => scan # None /\ Fits(scan)
    PROVE  scan' # None => Fits(scan)'
<1>1. Tops' = Tops
  BY DEF Tops, Within
<1> QED
  BY <1>1 DEF Fits, SameScan

\* A step of the walk that leaves the case alone.
LEMMA StepFits ==
    ASSUME given' = given, Fits(scan')
    PROVE  Fits(scan)'
<1>1. Tops' = Tops
  BY DEF Tops, Within
<1> QED
  BY <1>1 DEF Fits

LEMMA WalkFits ==
    ASSUME Types, ScanInv, Fits(scan),
           ScanUnit \/ ScanFile \/ ScanFlush \/ ScanTrack \/ ScanJudge \/ ScanUnitEnd \/ ScanPrune
    PROVE  UNCHANGED <<given, shut, closed>> /\ scan # None /\ Fits(scan')
<1>1. UNCHANGED <<given, shut, closed>> /\ scan # None
  BY DEF ScanUnit, ScanFile, ScanFlush, ScanTrack, ScanJudge, ScanUnitEnd, ScanPrune, Runs, world, past
<1>2. Fits(scan')
  BY UnitFits, FileFits, WriteFits, TrackFits, JudgeFits
<1> QED
  BY <1>1, <1>2

\* The walk's steps and its begin are told apart from the others, which leave the scan as it was.
LEMMA FitKeeps == LibraryInv /\ FitInv /\ [ImagesNext]_all => FitInv'
<1> SUFFICES ASSUME Types, ScanInv, FitInv, [ImagesNext]_all PROVE FitInv'
  BY DEF LibraryInv
<1>1. CASE UNCHANGED all
  <2>1. UNCHANGED <<given, shut, closed, rows, scan>>
    BY <1>1 DEF all, vars, world, table, lanes, past
  <2>2. scan' = None \/ SameScan(scan, scan')
    BY <2>1 DEF SameScan
  <2> QED
    BY <2>1, <2>2, SameFits DEF FitInv, OneIdEach
<1>2. CASE ImagesNext
  <2>1. OneIdEach(rows)'
    <3>1. OneIdEach(rows')
      BY <1>2, IdsKeep DEF FitInv
    <3> QED
      BY <3>1 DEF OneIdEach
  <2>2. CASE ScanUnit \/ ScanFile \/ ScanFlush \/ ScanTrack \/ ScanJudge \/ ScanUnitEnd \/ ScanPrune
    <3>1. scan # None
      BY <2>2 DEF ScanUnit, ScanFile, ScanFlush, ScanTrack, ScanJudge, ScanUnitEnd, ScanPrune, Runs
    <3>2. UNCHANGED <<given, shut, closed>> /\ Fits(scan')
      BY <2>2, <3>1, WalkFits DEF FitInv
    <3>3. Fits(scan)'
      BY <3>2, StepFits
    <3> QED
      BY <2>1, <3>2, <3>3 DEF FitInv
  <2>3. CASE ScanBegin
    <3>1. UNCHANGED <<given, shut>> /\ closed' = shut
      BY <2>3 DEF ScanBegin, world
    <3>2. Fits(scan)'
      BY <2>3, <3>1, BeginFits, StepFits
    <3> QED
      BY <2>1, <3>1, <3>2 DEF FitInv
  <2>4. CASE \/ \E p \in Paths : Delete(p) \/ RenameFile(p) \/ \E c \in Contents : Copy(p, c)
             \/ RenameRow \/ RequestScan \/ FollowLoad \/ RemoveDat \/ FollowRemove \/ RecomputeBegin
             \/ (\E v \in given.loads : Load(v)) \/ RecomputeRetired \/ RecomputeUnmatched \/ Alone0
    <3>1. UNCHANGED <<given, shut, scan>> /\ closed' \subseteq closed
      <4>1. CASE Alone0
        BY <4>1, AloneIs
      <4>2. CASE RenameRow
        BY <4>2 DEF RenameRow, world
      <4>3. CASE ~Alone0 /\ ~RenameRow
        BY <2>4, <4>3 DEF Delete, RenameFile, Copy, RequestScan, FollowLoad, RemoveDat, FollowRemove, RecomputeBegin,
           Load, RecomputeRetired, RecomputeUnmatched, world, lanes, past
      <4> QED
        BY <4>1, <4>2, <4>3
    <3>2. scan' = None \/ SameScan(scan, scan')
      BY <3>1 DEF SameScan
    <3>3. scan' # None => Fits(scan)'
      BY <3>1, <3>2, SameFits DEF FitInv
    <3> QED
      BY <2>1, <3>1, <3>3 DEF FitInv
  <2>5. CASE \E d \in Dirs : Shut(d) \/ Reopen(d)
    <3>1. UNCHANGED <<given, scan>> /\ closed' \subseteq shut'
      BY <2>5 DEF Shut, Reopen, lanes, FitInv
    <3>2. scan' = None \/ SameScan(scan, scan')
      BY <3>1 DEF SameScan
    <3>3. scan' # None => Fits(scan)'
      BY <3>1, <3>2, SameFits DEF FitInv
    <3> QED
      BY <2>1, <3>1, <3>3 DEF FitInv
  <2>6. CASE Hold \/ Free
    <3>1. UNCHANGED <<given, shut, closed>> /\ scan # None /\ scan \in ScanState
      BY <2>6 DEF Hold, Free, AtCheckpoint, world, past, Types
    <3>2. SameScan(scan, scan')
      BY <2>6, <3>1 DEF Hold, Free, SameScan, ScanState
    <3>3. scan' # None => Fits(scan)'
      BY <3>1, <3>2, SameFits DEF FitInv
    <3> QED
      BY <2>1, <3>1, <3>3 DEF FitInv
  <2>7. CASE ScanClear \/ Cancel \/ Kill
    <3>1. scan' = None /\ closed' = {}
      BY <2>7 DEF ScanClear, Cancel, Kill, Ended
    <3> QED
      BY <2>1, <3>1 DEF FitInv
  <2> QED
    BY <1>2, <2>2, <2>3, <2>4, <2>5, <2>6, <2>7, ImagesSteps DEF Apart
<1> QED
  BY <1>1, <1>2

LEMMA StartFits == Init => FitInv
<1> SUFFICES ASSUME Init PROVE FitInv
  OBVIOUS
<1>1. closed \subseteq shut /\ scan = None
  BY DEF Init
<1>2. OneIdEach(rows)
  <2> DEFINE n(p) == CHOOSE i \in DOMAIN PathOrder : PathOrder[i] = p
  <2>1. ASSUME NEW p \in Paths, rows[p] # None PROVE rows[p].id = n(p) /\ PathOrder[n(p)] = p
    <3>1. given.known /\ rows = Scanned(given, NoRows)
      BY <2>1 DEF Init, NoRows
    <3>2. rows[p].id = n(p)
      BY <2>1, <3>1 DEF Scanned
    <3>3. \E i \in DOMAIN PathOrder : PathOrder[i] = p
      BY DEF Paths, ToSet
    <3> QED
      BY <3>2, <3>3
  <2> HIDE DEF n
  <2> QED
    BY <2>1 DEF OneIdEach
<1> QED
  BY <1>1, <1>2 DEF FitInv

\* Every row, file and scan of the library is of its type, no two rows have one id, a scan knows
\* a directory it could not read as done or as one of the tops, and its batch is never longer than
\* it is written at, or, on a disc platform, than there are files: whatever scans, recomputes,
\* loads, renames and kills come between.
THEOREM TypeCorrect == ImagesSpec => []TypeOK
<1>1. ImagesInit => FitInv
  BY StartFits DEF ImagesInit
<1>2. LibraryInv /\ FitInv => TypeOK
  <2> SUFFICES ASSUME Types, FitInv PROVE TypeOK
    BY DEF LibraryInv
  <2>1. given \in Cases /\ budget \in [Events -> Nat] /\ {wanted, again, told} \subseteq BOOLEAN
    BY DEF Types
  <2>2. bg = None \/ bg \in [job : {"load", "retired", "unmatched", "recomputed", "recheck"}, after : Nat]
    BY DEF Types, Work
  <2>3. scan = None \/ /\ scan \in ScanState /\ scan.unread \subseteq scan.done \cup Tops
                       /\ Len(scan.sink) <= IF given.disc THEN Len(PathOrder) ELSE FlushRows
    BY DEF Types, FitInv, Fits
  <2> QED
    BY <2>1, <2>2, <2>3 DEF Types, TypeOK, FitInv, OneIdEach
<1>3. ImagesSpec => []FitInv
  BY <1>1, FitKeeps, ScanKnows, PTL DEF ImagesSpec
<1> QED
  BY <1>2, <1>3, ScanKnows, PTL
=============================================================================
