----------------------------- MODULE ImportsProofs -----------------------------
(***************************************************************************)
(* What is proved of Imports for every number of tracks, every bound on    *)
(* rows and every case: type correctness; and, in every case in which no   *)
(* kill cuts a plan that rewrites its file (NoCutRewrite), that a file     *)
(* recorded as verified, or as the bad dump it is, has what the core needs *)
(* (VerifiedIsRight), that a download is done only when its rom is in      *)
(* games/ and recorded for what it is (DoneIsPlaced), that the last good   *)
(* copy of a rom never goes (GoodStays), and that a disc is placed         *)
(* together (DiscTogether).                                                *)
(*                                                                         *)
(* These need what the job knows at each of its places: while it looks at  *)
(* the staged files, whoever it has passed is found or verified; once it   *)
(* has a plan, every rom is to be moved, landed or verified.  And what     *)
(* lies where: what the job found is staged until it lands, what it moves  *)
(* is what the torrent should have, and nothing that was not made for the  *)
(* core is in a scratch directory.                                         *)
(*                                                                         *)
(* A scan may take `verified` from a track, so what is recorded of a done  *)
(* download does not follow from what the job knew: that its rom is in     *)
(* games/ is shown for the whole entry (InPlace), which nothing undoes,    *)
(* and what is recorded from the step that makes the download done         *)
(* (BecomeDone) on.                                                        *)
(***************************************************************************)
EXTENDS Imports, SequenceTheorems, FiniteSetTheorems, TLAPS

RowType == [rom : AllRoms, st : States]
BusType(ids) == [id : ids, st : {"importing", "failed", "cancelled"}]
JobType(ids) ==
    [at : Stages, id : ids \union {0}, roms : SUBSET AllRoms, ids : SUBSET ids, left : SUBSET ids,
     found : SUBSET AllRoms, moves : SUBSET AllRoms, landed : SUBSET AllRoms,
     next : {"fail", "record", "discard"}]

Verified(i) == file[row[i].rom] = "verified"

\* A job that is at work is some download's.
Owned == job.at # "idle" => job.id # 0

\* What the job knows of its downloads at each of its places.
Known ==
    /\ job.at \in {"open", "survey"} => job.found = {}
    /\ job.at = "hash" =>
          /\ job.found \subseteq job.roms
          /\ \A i \in job.ids \ job.left : row[i].rom \in job.found \/ Verified(i)
    /\ job.at \in {"prepare", "move", "undo", "discard", "record"} =>
          \A i \in job.ids : row[i].rom \in job.moves \union job.landed \/ Verified(i)
    /\ job.at = "finish" => \A i \in job.ids : Verified(i)

Typed == TypeOK /\ Owned
IInv  == Typed /\ Known

-----------------------------------------------------------------------------
(* The table of downloads *)

LEMMA RowFacts ==
    ASSUME TypeOK
    PROVE  /\ row \in Seq(RowType) /\ Len(row) \in Nat /\ Len(row) <= MaxRows
           /\ Ids = 1 .. Len(row) /\ Ids \subseteq Nat \ {0}
           /\ \A i \in Ids : row[i] \in RowType
<1>1. row \in Seq(RowType) /\ Len(row) <= MaxRows
  BY DEF TypeOK, RowType
<1>2. Len(row) \in Nat /\ DOMAIN row = 1 .. Len(row) /\ row \in [1 .. Len(row) -> RowType]
  BY <1>1, LenProperties
<1> QED
  BY <1>1, <1>2 DEF Ids

\* Moving rows keeps their ids and roms.
LEMMA MovedFacts ==
    ASSUME TypeOK, NEW ids, NEW from, NEW to \in States
    PROVE  /\ Moved(ids, from, to) \in Seq(RowType)
           /\ Len(Moved(ids, from, to)) = Len(row)
           /\ \A i \in Ids : /\ Moved(ids, from, to)[i].rom = row[i].rom
                             /\ Moved(ids, from, to)[i].st =
                                  IF i \in ids /\ row[i].st \in from THEN to ELSE row[i].st
<1> DEFINE m == Moved(ids, from, to)
<1>1. \A i \in Ids : /\ m[i] \in RowType /\ m[i].rom = row[i].rom
                     /\ m[i].st = IF i \in ids /\ row[i].st \in from THEN to ELSE row[i].st
  BY RowFacts DEF Moved, RowType
<1>2. m = [i \in 1 .. Len(row) |-> m[i]]
  BY RowFacts DEF Moved
<1>3. m \in [1 .. Len(row) -> RowType]
  BY <1>1, <1>2, RowFacts
<1>4. m \in Seq(RowType) /\ Len(m) = Len(row)
  BY <1>3, RowFacts
<1> QED BY <1>1, <1>4

\* When the table only grows, what names a row still does.
LEMMA Grown ==
    ASSUME TypeOK, row' \in Seq(RowType), Len(row') <= MaxRows, Len(row) <= Len(row')
    PROVE  /\ Ids \subseteq Ids' /\ Ids' = 1 .. Len(row')
           /\ row' \in Seq([rom : AllRoms, st : States])
           /\ queue \in Seq(Ids') /\ list \in Seq(Ids')
           /\ bus \in Seq(BusType(Ids'))
           /\ job \in JobType(Ids')
<1>1. Len(row') \in Nat /\ DOMAIN row' = 1 .. Len(row')
  BY LenProperties
<1>2. Ids \subseteq Ids' /\ Ids' = 1 .. Len(row')
  BY <1>1, RowFacts DEF Ids
<1>3. queue \in Seq(Ids') /\ list \in Seq(Ids')
  BY <1>2, SeqMonotonic DEF TypeOK
<1>4. BusType(Ids) \subseteq BusType(Ids')
  BY <1>2 DEF BusType
<1>5. bus \in Seq(BusType(Ids'))
  BY <1>4, SeqMonotonic DEF TypeOK, BusType
<1>6. job \in JobType(Ids')
  BY <1>2 DEF TypeOK, JobType
<1> QED BY <1>2, <1>3, <1>5, <1>6 DEF RowType

\* The order of a set of ids has as many places as the set has members.
LEMMA AscendingFacts ==
    ASSUME TypeOK, NEW S, NEW n \in Nat, S \subseteq 1 .. n, NEW s \in Ascending(S)
    PROVE  /\ Cardinality(S) \in Nat /\ DOMAIN s = 1 .. Cardinality(S)
           /\ s \in Seq(S) /\ Len(s) = Cardinality(S)
<1>1. IsFiniteSet(S)
  <2>1. IsFiniteSet(1 .. n)
    BY FS_Interval
  <2>2. S \in SUBSET (1 .. n)
    OBVIOUS
  <2> QED BY <2>1, <2>2, FS_Subset
<1>2. Cardinality(S) \in Nat
  BY <1>1, FS_CardinalityType
<1>3. s \in [1 .. Cardinality(S) -> S]
  BY DEF Ascending
<1> QED BY <1>2, <1>3

LEMMA RomFacts ==
    ASSUME TypeOK
    PROVE  Roms \subseteq AllRoms /\ Live \subseteq AllRoms /\ 1 \in AllRoms
BY ImportAssumption DEF Roms, Live, AllRoms

LEMMA SpendType ==
    ASSUME TypeOK, NEW e \in Events, Spend(e)
    PROVE  budget' \in [Events -> Nat]
BY DEF TypeOK, Spend

\* Publishing keeps the type of what the watch hears.
LEMMA PublishType ==
    ASSUME TypeOK, NEW ids, ids \subseteq Ids,
           NEW st \in {"importing", "failed", "cancelled"}, Publish(ids, st)
    PROVE  bus' \in Seq(BusType(Ids))
<1>1. PICK s \in Ascending(ids) : bus' = bus \o [k \in DOMAIN s |-> [id |-> s[k], st |-> st]]
  BY DEF Publish
<1>2. Ids = 1 .. Len(row) /\ Len(row) \in Nat
  BY RowFacts
<1>3. DOMAIN s = 1 .. Len(s) /\ Len(s) \in Nat /\ s \in Seq(ids)
  BY <1>2, AscendingFacts
<1>4. [k \in DOMAIN s |-> [id |-> s[k], st |-> st]] \in Seq(BusType(Ids))
  BY <1>3 DEF BusType
<1>5. bus \in Seq(BusType(Ids))
  BY DEF TypeOK, BusType
<1> QED BY <1>1, <1>4, <1>5

-----------------------------------------------------------------------------
(* The steps of the user, the client and the watch keep the types *)

\* A step that writes the table and leaves the job alone keeps the types, if it keeps those
\* of the table and of what it writes besides.
LEMMA TableStep ==
    ASSUME Typed, row' \in Seq(RowType), Len(row') <= MaxRows, Len(row) <= Len(row'),
           job' = job, queue' = queue, list' = list, missed' = missed, file' = file,
           kind' = kind, dumps' = dumps, torrent' = torrent, scratch' = scratch, lib' = lib,
           retired' \in BOOLEAN, budget' \in [Events -> Nat], staged' \in [AllRoms -> Contents],
           bus' \in Seq(BusType(Ids'))
    PROVE  Typed'
<1>1. /\ row' \in Seq([rom : AllRoms, st : States])
      /\ queue' \in Seq(Ids') /\ list' \in Seq(Ids') /\ job' \in JobType(Ids')
  BY Grown DEF Typed
<1> QED BY <1>1 DEF Typed, TypeOK, Owned, JobType, BusType

LEMMA WantTyped == ASSUME Typed, Want PROVE Typed'
<1>1. PICK s \in Ascending(Missing) : row' = row \o [k \in DOMAIN s |-> NewRow(s[k])]
  BY DEF Want
<1>2. Missing \subseteq 1 .. Tracks /\ Tracks \in Nat
  BY RomFacts, ImportAssumption DEF Missing, AllRoms, Typed
<1>3. /\ Cardinality(Missing) \in Nat /\ DOMAIN s = 1 .. Cardinality(Missing)
      /\ s \in Seq(Missing) /\ Len(s) = Cardinality(Missing)
  BY <1>2, AscendingFacts DEF Typed
<1>4. \A r \in AllRoms : NewRow(r) \in RowType
  BY DEF NewRow, RowType, States, Open
<1>5. [k \in DOMAIN s |-> NewRow(s[k])] \in Seq(RowType)
  <2>1. \A k \in DOMAIN s : s[k] \in AllRoms
    BY <1>2, <1>3, ElementOfSeq DEF AllRoms
  <2>2. [k \in DOMAIN s |-> NewRow(s[k])] \in [1 .. Cardinality(Missing) -> RowType]
    BY <1>3, <1>4, <2>1
  <2> QED BY <1>3, <2>2
<1>6. Len([k \in DOMAIN s |-> NewRow(s[k])]) = Cardinality(Missing)
  BY <1>3
<1>7. /\ row' \in Seq(RowType) /\ Len(row') = Len(row) + Cardinality(Missing)
      /\ Len(row) \in Nat
  BY <1>1, <1>5, <1>6, RowFacts DEF Typed
<1>8. budget' \in [Events -> Nat]
  BY SpendType DEF Want, Events, Typed
<1>9. Len(row') <= MaxRows /\ Len(row) <= Len(row')
  BY <1>3, <1>7 DEF Want
<1>10. bus' \in Seq(BusType(Ids'))
  BY <1>7, <1>9, Grown DEF Want, watch, Typed
<1> QED
  BY <1>7, <1>8, <1>9, <1>10, TableStep
  DEF Want, given, disk, watch, Typed, TypeOK

\* A step that only moves rows, and may publish that it did.
LEMMA MovedStep ==
    ASSUME Typed, NEW ids, NEW from, NEW to \in States, row' = Moved(ids, from, to)
    PROVE  /\ row' \in Seq(RowType) /\ Len(row') = Len(row) /\ Len(row') <= MaxRows
           /\ Len(row) <= Len(row') /\ Ids' = Ids
<1>1. row' \in Seq(RowType) /\ Len(row') = Len(row)
  BY MovedFacts DEF Typed
<1>2. Len(row) \in Nat /\ Len(row) <= MaxRows /\ Ids = 1 .. Len(row)
  BY RowFacts DEF Typed
<1>3. Ids' = 1 .. Len(row')
  BY <1>1, <1>2, Grown DEF Typed
<1> QED BY <1>1, <1>2, <1>3

LEMMA UserTyped ==
    ASSUME Typed, NEW i \in Ids, Cancel(i) \/ Retry(i) PROVE Typed'
<1> USE DEF Typed
<1>1. CASE Cancel(i)
  <2>1. row' = Moved({i}, InFlight, "cancelled") /\ "cancelled" \in States
    BY <1>1 DEF Cancel, States
  <2>2. bus' \in Seq(BusType(Ids))
    BY <1>1, PublishType DEF Cancel
  <2>3. budget' \in [Events -> Nat]
    BY <1>1, SpendType DEF Cancel, Events
  <2> QED
    BY <1>1, <2>1, <2>2, <2>3, MovedStep, TableStep DEF Cancel, given, disk, TypeOK
<1>2. CASE Retry(i)
  <2>1. row' = Moved({i}, {"failed"}, "queued") /\ "queued" \in States
    BY <1>2 DEF Retry, States, Open
  <2>2. bus' \in Seq(BusType(Ids))
    BY <1>2 DEF Retry, TypeOK, watch, BusType
  <2>3. budget' \in [Events -> Nat]
    BY <1>2, SpendType DEF Retry, Events
  <2> QED
    BY <1>2, <2>1, <2>2, <2>3, MovedStep, TableStep DEF Retry, given, disk, watch, TypeOK
<1> QED BY <1>1, <1>2

LEMMA DropTyped == ASSUME Typed, DropDat PROVE Typed'
<1> USE DEF Typed
<1>1. row' = Moved(Ids, {"wanted", "queued"}, "cancelled") /\ "cancelled" \in States
  BY DEF DropDat, States
<1>2. bus' \in Seq(BusType(Ids))
  BY DEF DropDat, TypeOK, watch, BusType
<1>3. budget' \in [Events -> Nat]
  BY SpendType DEF DropDat, Events
<1> QED
  BY <1>1, <1>2, <1>3, MovedStep, TableStep DEF DropDat, given, disk, watch, TypeOK

LEMMA ClientTyped ==
    ASSUME Typed, NEW i \in Ids, Start(i) \/ Deliver(i) \/ FailTransfer(i) PROVE Typed'
<1> USE DEF Typed
<1>1. CASE Start(i)
  <2>1. row' = Moved({i}, {"queued"}, "transferring") /\ "transferring" \in States
    BY <1>1 DEF Start, States, Open
  <2>2. bus' \in Seq(BusType(Ids))
    BY <1>1 DEF Start, TypeOK, watch, BusType
  <2> QED
    BY <1>1, <2>1, <2>2, MovedStep, TableStep DEF Start, given, disk, watch, TypeOK
<1>2. CASE Deliver(i)
  <2>1. row' = Moved({i}, {"transferring"}, "importing") /\ "importing" \in States
    BY <1>2 DEF Deliver, States, Open
  <2>2. bus' \in Seq(BusType(Ids))
    BY <1>2, PublishType DEF Deliver
  <2>3. row[i].rom \in AllRoms
    BY RowFacts DEF RowType
  <2>4. staged' \in [AllRoms -> Contents]
    <3>1. torrent[row[i].rom] \in Contents /\ staged \in [AllRoms -> Contents]
      BY <2>3 DEF TypeOK, Contents
    <3>2. \/ staged' = [staged EXCEPT ![row[i].rom] = torrent[row[i].rom]]
          \/ staged' = staged
      BY <1>2 DEF Deliver
    <3> QED BY <2>3, <3>1, <3>2
  <2>5. /\ kind' = kind /\ dumps' = dumps /\ torrent' = torrent /\ file' = file
        /\ scratch' = scratch /\ lib' = lib /\ retired' = retired /\ budget' = budget
        /\ job' = job /\ queue' = queue
        /\ list' = list /\ missed' = missed
    BY <1>2 DEF Deliver, given
  <2>6. retired \in BOOLEAN /\ budget \in [Events -> Nat]
    BY DEF TypeOK
  <2> QED
    BY <2>1, <2>2, <2>4, <2>5, <2>6, MovedStep, TableStep
<1>3. CASE FailTransfer(i)
  <2>1. row' = Moved({i}, {"transferring"}, "failed") /\ "failed" \in States
    BY <1>3 DEF FailTransfer, States
  <2>2. bus' \in Seq(BusType(Ids))
    BY <1>3, PublishType DEF FailTransfer
  <2>3. budget' \in [Events -> Nat]
    BY <1>3, SpendType DEF FailTransfer, Events
  <2> QED
    BY <1>3, <2>1, <2>2, <2>3, MovedStep, TableStep DEF FailTransfer, given, disk, TypeOK
<1> QED BY <1>1, <1>2, <1>3

LEMMA WatchTyped ==
    ASSUME Typed, Hear \/ Lag \/ Submit PROVE Typed'
<1> USE DEF Typed
<1>1. /\ queue \in Seq(Ids) /\ list \in Seq(Ids) /\ bus \in Seq(BusType(Ids))
      /\ Len(row) \in Nat /\ Importing \subseteq 1 .. Len(row) /\ Ids = 1 .. Len(row)
  BY RowFacts DEF TypeOK, BusType, Importing, In
<1>2. \A s \in Ascending(Importing) : s \in Seq(Ids)
  BY <1>1, AscendingFacts, SeqMonotonic
<1>3. CASE Hear
  <2>1. Tail(bus) \in Seq(BusType(Ids)) /\ Head(bus) \in BusType(Ids)
    BY <1>1, <1>3 DEF Hear
  <2>2. list' \in Seq(Ids)
    <3>1. CASE Head(bus).st = "importing"
      <4>1. list' = <<Head(bus).id>> /\ Head(bus).id \in Ids
        BY <1>3, <2>1, <3>1 DEF Hear, BusType
      <4> QED BY <4>1
    <3>2. CASE Head(bus).st # "importing"
      BY <1>2, <1>3, <3>2 DEF Hear
    <3> QED BY <3>1, <3>2
  <2> QED
    BY <1>3, <2>1, <2>2 DEF Hear, given, db, disk, TypeOK, Owned, Ids, BusType
<1>4. CASE Lag
  <2>1. bus' \in Seq(BusType(Ids))
    BY <1>1, <1>4 DEF Lag
  <2>2. budget' \in [Events -> Nat]
    BY <1>4, SpendType DEF Lag, Events
  <2>3. list' \in Seq(Ids)
    BY <1>2, <1>4 DEF Lag
  <2> QED
    BY <1>4, <2>1, <2>2, <2>3 DEF Lag, given, db, disk, TypeOK, Owned, Ids, BusType
<1>5. CASE Submit
  <2>1. Tail(list) \in Seq(Ids) /\ Head(list) \in Ids
    BY <1>1, <1>5 DEF Submit
  <2>2. queue' \in Seq(Ids)
    <3>1. Append(queue, Head(list)) \in Seq(Ids)
      BY <1>1, <2>1
    <3> QED BY <1>1, <1>5, <3>1 DEF Submit
  <2>3. missed' \in BOOLEAN
    BY <1>5 DEF Submit, TypeOK
  <2> QED
    BY <1>5, <2>1, <2>2, <2>3 DEF Submit, given, db, disk, TypeOK, Owned, Ids
<1> QED BY <1>3, <1>4, <1>5

-----------------------------------------------------------------------------
(* The steps of the job keep the types *)

\* A step of the job that leaves the table, the queue and the watch alone.
LEMMA JobStep ==
    ASSUME Typed, row' = row, queue' = queue, bus' = bus, list' = list, missed' \in BOOLEAN,
           kind' = kind, dumps' = dumps, torrent' = torrent, retired' = retired, file' = file,
           budget' \in [Events -> Nat], staged' \in [AllRoms -> Contents],
           lib' \in [AllRoms -> Contents], scratch' \in [1 .. MaxRows -> Contents],
           job' \in JobType(Ids), job'.at # "idle" => job'.id # 0
    PROVE  Typed'
<1>1. Ids' = Ids
  BY DEF Ids
<1> QED BY <1>1 DEF Typed, TypeOK, Owned, JobType

LEMMA JobFacts ==
    ASSUME Typed
    PROVE  /\ job \in JobType(Ids) /\ Idle \in JobType(Ids)
           /\ Importing \in SUBSET Ids /\ Live \in SUBSET AllRoms
           /\ \A i \in Ids : row[i].rom \in AllRoms
BY RowFacts, RomFacts
DEF Typed, TypeOK, JobType, Idle, Stages, Importing, In, RowType

LEMMA ReadTyped ==
    ASSUME Typed, OpenRow \/ Survey \/ SkipPlaced \/ Hash \/ Nothing \/ Plan \/ Landed
    PROVE  Typed'
<1>1. /\ UNCHANGED <<given, budget, db, disk, queue, watch>>
      /\ job' \in JobType(Ids) /\ job'.id # 0
  <2> USE JobFacts DEF JobType, Stages, Typed, Owned
  <2>1. CASE OpenRow
    <3>1. job.at = "open" /\ job.id # 0 /\ UNCHANGED <<given, budget, db, disk, queue, watch>>
      BY <2>1 DEF OpenRow
    <3>2. CASE Return
      BY <3>1, <3>2 DEF Return
    <3>3. CASE job' = [job EXCEPT !.at = "survey", !.roms = Live]
      BY <3>1, <3>3
    <3>4. CASE /\ job.id \in Importing
               /\ job' = [job EXCEPT !.at = "hash", !.roms = Live, !.ids = {job.id},
                                    !.left = {job.id}]
      <4>1. {job.id} \in SUBSET Ids
        BY <3>4
      <4> QED BY <3>1, <3>4, <4>1
    <3> QED BY <2>1, <3>1, <3>2, <3>3, <3>4 DEF OpenRow
  <2>2. CASE Survey
    BY <2>2 DEF Survey, Return
  <2>3. CASE SkipPlaced
    BY <2>3 DEF SkipPlaced, Turn
  <2>4. CASE Hash
    <3>1. PICK i \in job.left :
             job' = [job EXCEPT !.left = @ \ {i}, !.found = @ \union {row[i].rom}]
      BY <2>4 DEF Hash
    <3>2. job.at # "idle" /\ UNCHANGED <<given, budget, db, disk, queue, watch>>
      BY <2>4 DEF Hash, Turn
    <3>3. i \in Ids /\ row[i].rom \in AllRoms
      BY <3>1
    <3> QED BY <3>1, <3>2, <3>3
  <2>5. CASE Nothing
    BY <2>5 DEF Nothing, To
  <2>6. CASE Plan
    BY <2>6 DEF Plan
  <2>7. CASE Landed
    BY <2>7 DEF Landed
  <2> QED BY <2>1, <2>2, <2>3, <2>4, <2>5, <2>6, <2>7
<1> QED
  BY <1>1, JobStep DEF given, db, disk, watch, Typed, TypeOK

LEMMA FileTyped ==
    ASSUME Typed,
           \/ HashError \/ Quarantine \/ Prepare \/ (\E r \in AllRoms : Move(r)) \/ MoveFails
           \/ Rollback \/ Discard
    PROVE  Typed'
<1> USE JobFacts DEF JobType, Stages, Typed, Owned
<1>1. \A r \in AllRoms : Built(Read(r)) \in Contents
  BY DEF Built, Contents
<1>2. job.at # "idle" => job.id \in Ids
  OBVIOUS
<1>3. \A r \in AllRoms : job.id \in 1 .. MaxRows => Read(r) \in Contents
  BY DEF Read, TypeOK
<1>4. Ids \subseteq 1 .. MaxRows
  BY RowFacts, ImportAssumption
<1>5. CASE HashError
  <2>1. job' \in JobType(Ids) /\ job'.id # 0
    BY <1>5 DEF HashError, Turn, To
  <2>2. budget' \in [Events -> Nat]
    BY <1>5, SpendType DEF HashError, Events, TypeOK
  <2> QED
    BY <1>5, <2>1, <2>2, JobStep DEF HashError, given, db, disk, watch, TypeOK
<1>6. CASE Quarantine
  <2>1. job' \in JobType(Ids) /\ job'.id # 0
    <3>1. PICK i \in job.left : job' = [job EXCEPT !.at = "quarantined", !.left = {i}]
      BY <1>6 DEF Quarantine
    <3>2. job.at # "idle"
      BY <1>6 DEF Quarantine, Turn
    <3>3. {i} \in SUBSET Ids
      BY <3>1
    <3> QED BY <3>1, <3>2, <3>3
  <2>2. budget' \in [Events -> Nat]
    BY <1>6, SpendType DEF Quarantine, Events, TypeOK
  <2>3. staged' \in [AllRoms -> Contents]
    BY <1>6, ZenonT(60) DEF Quarantine, TypeOK, Contents
  <2> QED
    BY <1>6, <2>1, <2>2, <2>3, JobStep DEF Quarantine, given, db, watch, TypeOK
<1>7. CASE Prepare
  <2>1. job' \in JobType(Ids) /\ job'.id # 0
    BY <1>7 DEF Prepare, To
  <2>2. budget' \in [Events -> Nat]
    BY <1>7, SpendType DEF Prepare, Events, TypeOK
  <2>3. scratch' \in [1 .. MaxRows -> Contents]
    BY <1>1, <1>7, RomFacts DEF Prepare, TypeOK
  <2> QED
    BY <1>7, <2>1, <2>2, <2>3, JobStep DEF Prepare, given, db, watch, TypeOK
<1>8. ASSUME NEW r \in AllRoms, Move(r) PROVE Typed'
  <2>1. job' \in JobType(Ids) /\ job'.id # 0
    BY <1>8 DEF Move
  <2>2. lib' \in [AllRoms -> Contents]
    BY <1>2, <1>3, <1>4, <1>8 DEF Move, TypeOK
  <2>3. scratch' \in [1 .. MaxRows -> Contents] /\ staged' \in [AllRoms -> Contents]
    <3>1. "none" \in Contents
      BY DEF Contents
    <3>2. scratch \in [1 .. MaxRows -> Contents] /\ staged \in [AllRoms -> Contents]
      BY DEF TypeOK
    <3>3. \/ scratch' = [scratch EXCEPT ![job.id] = "none"] /\ staged' = staged
          \/ staged' = [staged EXCEPT ![r] = "none"] /\ scratch' = scratch
      BY <1>8 DEF Move
    <3> QED BY <3>1, <3>2, <3>3
  <2> QED
    BY <1>8, <2>1, <2>2, <2>3, JobStep DEF Move, given, db, watch, TypeOK
<1>9. CASE MoveFails
  <2>1. job' \in JobType(Ids) /\ job'.id # 0
    BY <1>9 DEF MoveFails
  <2>2. budget' \in [Events -> Nat]
    BY <1>9, SpendType DEF MoveFails, Events, TypeOK
  <2> QED
    BY <1>9, <2>1, <2>2, JobStep DEF MoveFails, given, db, disk, watch, TypeOK
<1>10. CASE Rollback
  <2>1. job' \in JobType(Ids) /\ job'.id # 0
    BY <1>10 DEF Rollback, To
  <2>2. budget' \in [Events -> Nat]
    BY <1>10, SpendType DEF Rollback, Events, TypeOK
  <2>3. scratch' \in [1 .. MaxRows -> Contents]
    BY <1>10 DEF Rollback, TypeOK, Contents
  <2> QED
    BY <1>10, <2>1, <2>2, <2>3, JobStep DEF Rollback, given, db, watch, TypeOK
<1>11. CASE Discard
  <2>1. job' \in JobType(Ids) /\ job'.id # 0
    BY <1>11 DEF Discard, To
  <2>2. budget' \in [Events -> Nat]
    BY <1>11, SpendType DEF Discard, Events, TypeOK
  <2>3. staged' \in [AllRoms -> Contents]
    BY <1>11 DEF Discard, TypeOK, Contents
  <2> QED
    BY <1>11, <2>1, <2>2, <2>3, JobStep DEF Discard, given, db, watch, TypeOK
<1> QED BY <1>5, <1>6, <1>7, <1>8, <1>9, <1>10, <1>11

LEMMA LaneTyped ==
    ASSUME Typed, Take \/ End \/ Err \/ Scan \/ Crash PROVE Typed'
<1> USE DEF Typed
<1>1. /\ queue \in Seq(Ids) /\ list \in Seq(Ids) /\ Len(row) \in Nat
      /\ Importing \subseteq 1 .. Len(row) /\ Ids = 1 .. Len(row)
  BY RowFacts DEF TypeOK, Importing, In
<1>2. CASE Take
  <2>1. Tail(queue) \in Seq(Ids) /\ Head(queue) \in Ids
    BY <1>1, <1>2 DEF Take
  <2>2. /\ job' = [Idle EXCEPT !.at = "open", !.id = Head(queue)]
        /\ queue' \in Seq(Ids) /\ UNCHANGED <<given, budget, db, disk, watch>>
    BY <1>2, <2>1 DEF Take
  <2>3. job' \in JobType(Ids) /\ job'.id # 0
    <3>1. Idle \in JobType(Ids) /\ "open" \in Stages /\ Head(queue) \in Ids
      BY <2>1, JobFacts DEF Stages
    <3>2. job' \in JobType(Ids) /\ job'.id = Head(queue)
      BY <2>2, <3>1 DEF JobType
    <3> QED BY <1>1, <2>1, <3>2
  <2> QED
    BY <2>2, <2>3 DEF given, db, disk, watch, TypeOK, Owned, JobType, Ids
<1>3. CASE End
  <2>1. job' = Idle /\ job'.at = "idle"
    BY <1>3 DEF End, Idle
  <2> QED
    BY <1>3, <2>1, JobStep, JobFacts DEF End, given, db, disk, watch, TypeOK
<1>4. CASE Err
  <2>1. job' \in JobType(Ids) /\ job'.id # 0
    BY <1>4, JobFacts DEF Err, Return, JobType, Stages, Owned
  <2>2. budget' \in [Events -> Nat]
    BY <1>4, SpendType DEF Err, Events
  <2> QED
    BY <1>4, <2>1, <2>2, JobStep DEF Err, given, db, disk, TypeOK
<1>5. CASE Scan
  <2>1. file' \in [AllRoms -> FileStates]
    BY <1>5 DEF Scan, Scanned, FileState, FileStates, TypeOK
  <2> QED
    BY <1>5, <2>1 DEF Scan, given, disk, watch, TypeOK, Owned, Ids
<1>6. CASE Crash
  <2>1. job.at # "idle" => <<job.id>> \o queue \in Seq(Ids)
    <3>1. job.at # "idle" => job.id \in Ids
      BY JobFacts DEF JobType, Owned
    <3> QED BY <1>1, <3>1
  <2>2. queue' \in Seq(Ids)
    BY <1>1, <1>6, <2>1 DEF Crash
  <2>3. list' \in Seq(Ids)
    BY <1>1, <1>6, AscendingFacts, SeqMonotonic DEF Crash
  <2>4. budget' \in [Events -> Nat]
    BY <1>6, SpendType DEF Crash, Events
  <2>5. bus' = <<>> /\ missed' = FALSE /\ job' = Idle /\ UNCHANGED <<given, db, disk>>
    BY <1>6 DEF Crash
  <2>6. Idle \in JobType(Ids) /\ Idle.at = "idle"
    BY JobFacts DEF Idle
  <2> QED
    <3>1. Ids' = Ids
      BY <2>5 DEF db, Ids
    <3>2. bus' \in Seq(BusType(Ids)) /\ missed' \in BOOLEAN
      BY <2>5, EmptySeq
    <3>3. Owned'
      BY <2>5, <2>6 DEF Owned
    <3>4. job' \in JobType(Ids)
      BY <2>5, <2>6
    <3> HIDE DEF Typed
    <3>5. TypeOK
      BY DEF Typed
    <3>6. TypeOK'
      BY <2>2, <2>3, <2>4, <2>5, <3>1, <3>2, <3>4, <3>5
      DEF given, db, disk, TypeOK, JobType, BusType
    <3> QED BY <3>3, <3>6 DEF Typed
<1> QED BY <1>2, <1>3, <1>4, <1>5, <1>6

\* A step of the job that writes the table.
LEMMA SettleStep ==
    ASSUME Typed, row' \in Seq(RowType), Len(row') <= MaxRows, Len(row) <= Len(row'),
           queue' = queue, list' = list, missed' = missed, kind' = kind, dumps' = dumps,
           torrent' = torrent, retired' = retired, staged' = staged, lib' = lib, scratch' = scratch,
           file' \in [AllRoms -> FileStates],
           budget' = budget, bus' \in Seq(BusType(Ids')),
           job' \in JobType(Ids), job'.at # "idle" => job'.id # 0
    PROVE  Typed'
<1>1. /\ row' \in Seq([rom : AllRoms, st : States]) /\ Ids \subseteq Ids'
      /\ queue' \in Seq(Ids') /\ list' \in Seq(Ids')
  BY Grown DEF Typed
<1>2. job' \in JobType(Ids')
  BY <1>1 DEF JobType
<1> QED BY <1>1, <1>2 DEF Typed, TypeOK, Owned, JobType, BusType

LEMMA SettleTyped ==
    ASSUME Typed, RecordBad \/ Record \/ Finish \/ Fail PROVE Typed'
<1> USE DEF Typed
<1>1. /\ bus \in Seq(BusType(Ids)) /\ file \in [AllRoms -> FileStates]
      /\ {"bad", "done", "failed"} \subseteq States /\ Len(row) \in Nat
  BY RowFacts DEF TypeOK, BusType, States
<1>2. CASE RecordBad
  <2>1. PICK i \in job.left :
           LET bad == Moved({i}, {"importing"}, "bad")
           IN \/ row' = bad
              \/ /\ row[i].rom \in Live /\ Len(row) < MaxRows
                 /\ row' = Append(bad, [rom |-> row[i].rom, st |-> "wanted"])
    BY <1>2 DEF RecordBad
  <2> DEFINE bad == Moved({i}, {"importing"}, "bad")
  <2>2. bad \in Seq(RowType) /\ Len(bad) = Len(row)
    BY <1>1, MovedFacts
  <2>3. [rom |-> row[i].rom, st |-> "wanted"] \in RowType
    BY JobFacts DEF RowType, States, Open, JobType
  <2>4. row' \in Seq(RowType) /\ Len(row') <= MaxRows /\ Len(row) <= Len(row')
    <3>1. CASE row' = bad
      BY <2>2, <3>1, RowFacts
    <3>2. CASE Len(row) < MaxRows /\ row' = Append(bad, [rom |-> row[i].rom, st |-> "wanted"])
      <4> HIDE DEF bad
      <4>1. row' \in Seq(RowType) /\ Len(row') = Len(row) + 1
        BY <2>2, <2>3, <3>2
      <4> QED BY <1>1, <3>2, <4>1, ImportAssumption
    <3> QED BY <2>1, <3>1, <3>2
  <2>5. job' \in JobType(Ids) /\ job'.id # 0
    BY <1>2, JobFacts DEF RecordBad, To, JobType, Stages, Owned
  <2>6. bus' \in Seq(BusType(Ids'))
    BY <1>2, <2>4, Grown DEF RecordBad, watch
  <2> HIDE DEF bad
  <2> QED
    BY <1>1, <1>2, <2>4, <2>5, <2>6, SettleStep DEF RecordBad, given, disk, watch
<1>3. CASE Record
  <2>1. row' = Moved(job.ids, {"importing"}, "done") \/ row' = row
    BY <1>3 DEF Record
  <2>2. row' \in Seq(RowType) /\ Len(row') <= MaxRows /\ Len(row) <= Len(row') /\ Ids' = Ids
    <3>1. CASE row' = row
      BY <3>1, RowFacts DEF Ids
    <3>2. CASE row' = Moved(job.ids, {"importing"}, "done")
      BY <1>1, <3>2, MovedStep
    <3> QED BY <2>1, <3>1, <3>2
  <2>3. job' \in JobType(Ids) /\ job'.id # 0
    BY <1>3, JobFacts DEF Record, Return, To, JobType, Stages, Owned
  <2>4. file' \in [AllRoms -> FileStates]
    BY <1>1, <1>3 DEF Record, FileState, FileStates
  <2>5. bus' \in Seq(BusType(Ids'))
    BY <1>1, <1>3, <2>2 DEF Record, watch
  <2> QED
    BY <1>3, <2>2, <2>3, <2>4, <2>5, SettleStep DEF Record, given, disk, watch
<1>4. CASE Finish
  <2>1. row' = Moved(job.ids, {"importing"}, "done")
    BY <1>4 DEF Finish
  <2>2. row' \in Seq(RowType) /\ Len(row') <= MaxRows /\ Len(row) <= Len(row') /\ Ids' = Ids
    BY <1>1, <2>1, MovedStep
  <2>3. job' \in JobType(Ids) /\ job'.id # 0
    BY <1>4, JobFacts DEF Finish, Return, JobType, Stages, Owned
  <2>4. bus' \in Seq(BusType(Ids'))
    BY <1>1, <1>4, <2>2 DEF Finish, watch
  <2> QED
    BY <1>1, <1>4, <2>2, <2>3, <2>4, SettleStep DEF Finish, given, disk, watch
<1>5. CASE Fail
  <2>1. row' = Moved(job.ids, {"importing"}, "failed")
    BY <1>5 DEF Fail
  <2>2. row' \in Seq(RowType) /\ Len(row') <= MaxRows /\ Len(row) <= Len(row') /\ Ids' = Ids
    BY <1>1, <2>1, MovedStep
  <2>3. job' \in JobType(Ids) /\ job'.id # 0
    BY <1>5, JobFacts DEF Fail, Return, JobType, Stages, Owned
  <2>4. bus' \in Seq(BusType(Ids'))
    <3>1. job.ids \intersect Importing \subseteq Ids
      BY JobFacts
    <3> QED BY <1>5, <2>2, <3>1, PublishType DEF Fail
  <2> QED
    BY <1>1, <1>5, <2>2, <2>3, <2>4, SettleStep DEF Fail, given, disk, watch
<1> QED BY <1>2, <1>3, <1>4, <1>5

-----------------------------------------------------------------------------
(* Type correctness *)

LEMMA InitTyped == Init => Typed
<1> SUFFICES ASSUME Init PROVE Typed
  OBVIOUS
<1>1. PICK c \in Cases : kind = c.kind /\ dumps = c.dumps /\ budget = c.budget
  BY DEF Init
<1>2. kind \in Kinds /\ dumps \subseteq AllRoms /\ budget \in [Events -> Nat]
  BY <1>1, ImportAssumption DEF AllRoms
<1>3. Right \in Contents /\ {"none", "bad"} \subseteq Contents
  BY DEF Right, Contents
<1>4. lib \in [AllRoms -> Contents]
  BY <1>3 DEF Init
<1>5. /\ row = <<>> /\ queue = <<>> /\ bus = <<>> /\ list = <<>>
      /\ row \in Seq([rom : AllRoms, st : States]) /\ Len(row) = 0
      /\ queue \in Seq(Ids) /\ bus \in Seq(BusType(Ids)) /\ list \in Seq(Ids)
  BY EmptySeq DEF Init
<1>6. job \in JobType(Ids) /\ job.at = "idle"
  BY DEF Init, Idle, JobType, Stages
<1>7. MaxRows \in Nat
  BY ImportAssumption
<1>8. /\ torrent \in [AllRoms -> {"raw", "bad"}] /\ retired \in BOOLEAN /\ missed \in BOOLEAN
      /\ file \in [AllRoms -> FileStates]
      /\ staged \in [AllRoms -> Contents] /\ scratch \in [1 .. MaxRows -> Contents]
  BY <1>3 DEF Init
<1>9. TypeOK
  <2> HIDE DEF Contents, States, Stages, Kinds, Events
  <2> QED
    BY <1>2, <1>4, <1>5, <1>6, <1>7, <1>8 DEF TypeOK, JobType, BusType
<1> QED
  BY <1>6, <1>9 DEF Typed, Owned

LEMMA StutterTyped == ASSUME Typed, UNCHANGED vars PROVE Typed'
<1>1. /\ UNCHANGED <<kind, dumps, torrent, budget, row, file, retired, staged, scratch, lib>>
      /\ UNCHANGED <<queue, job, bus, list, missed>>
  BY DEF vars, given, db, disk, watch
<1>2. Ids' = Ids
  BY <1>1 DEF Ids
<1>3. TypeOK'
  BY <1>1, <1>2 DEF Typed, TypeOK
<1>4. Owned'
  BY <1>1 DEF Typed, Owned
<1> QED BY <1>3, <1>4 DEF Typed

LEMMA NextTyped == Typed /\ [Next]_vars => Typed'
<1> SUFFICES ASSUME Typed, [Next]_vars PROVE Typed'
  OBVIOUS
<1>1. CASE UNCHANGED vars
  BY <1>1, StutterTyped
<1>2. CASE Worker
  BY <1>2, LaneTyped, ReadTyped, FileTyped, SettleTyped DEF Worker
<1>3. CASE Watch \/ Lag
  BY <1>3, WatchTyped DEF Watch
<1>4. CASE Scan \/ Crash
  BY <1>4, LaneTyped
<1>5. CASE Want
  BY <1>5, WantTyped
<1>6. CASE DropDat
  BY <1>6, DropTyped
<1>7. ASSUME NEW i \in Ids, Cancel(i) \/ Retry(i) PROVE Typed'
  BY <1>7, UserTyped
<1>8. ASSUME NEW i \in Ids, Start(i) \/ Deliver(i) \/ FailTransfer(i) PROVE Typed'
  BY <1>8, ClientTyped
<1> QED BY <1>1, <1>2, <1>3, <1>4, <1>5, <1>6, <1>7, <1>8 DEF Next

\* Every variable keeps its type: the table never outgrows its bound, and what the watch,
\* the lane and the job hold are rows of the table.
THEOREM TypeCorrect == Spec => []TypeOK
<1>1. Typed => TypeOK
  BY DEF Typed
<1> QED BY <1>1, InitTyped, NextTyped, PTL DEF Spec

-----------------------------------------------------------------------------
(* What the job knows, and which rows it ends as done *)

\* No row becomes done in a step.
NoneDone == \A i \in Ids' : row'[i].st = "done" => i \in Ids /\ row[i].st = "done"

\* The rows that become done in a step are the job's, and each one's rom has landed or was
\* there before.
JobsDone ==
    /\ Record => job.moves = {} \/ NoneDone
    /\ \A i \in Ids' : row'[i].st = "done" =>
          /\ i \in Ids
          /\ \/ row[i].st = "done"
             \/ i \in job.ids /\ Verified(i)
             \/ i \in job.ids /\ Record /\ row[i].rom \in job.landed

\* A step that keeps what the job knows, and ends rows as done only where the job does.
Knows == IInv' /\ (NoneDone \/ ((Record \/ Finish) /\ JobsDone))

\* A step that leaves the rows alone makes none done.
LEMMA SameRows == ASSUME row' = row PROVE NoneDone
BY DEF NoneDone, Ids

\* A step of another actor: roms and files stay, the job does, and no row becomes done.
LEMMA OthersStep ==
    ASSUME IInv, Typed', job' = job, file' = file,
           \A i \in Ids : /\ row'[i].rom = row[i].rom
                          /\ row'[i].st = "done" => row[i].st = "done",
           \A i \in Ids' \ Ids : row'[i].st # "done"
    PROVE  Knows
<1>1. \A i \in Ids : Verified(i)' <=> Verified(i)
  BY DEF Verified
<1>2. job.ids \subseteq Ids
  BY JobFacts DEF IInv, JobType
<1>3. Known'
  BY <1>1, <1>2 DEF IInv, Known
<1>4. NoneDone
  BY DEF NoneDone
<1> QED BY <1>3, <1>4 DEF IInv, Knows

\* Moving rows to a state other than done is such a step.
LEMMA MovedKeeps ==
    ASSUME IInv, Typed', job' = job, file' = file,
           NEW ids, NEW from, NEW to \in States \ {"done"}, row' = Moved(ids, from, to)
    PROVE  Knows
<1>1. \A i \in Ids : /\ row'[i].rom = row[i].rom
                     /\ row'[i].st = "done" => row[i].st = "done"
  BY MovedFacts DEF IInv, Typed
<1>2. Ids' = Ids
  BY MovedStep DEF IInv
<1> QED BY <1>1, <1>2, OthersStep

LEMMA UserKnown ==
    ASSUME IInv, \/ DropDat
                 \/ \E i \in Ids : Cancel(i) \/ Retry(i) \/ Start(i) \/ Deliver(i) \/ FailTransfer(i)
    PROVE  Knows
<1>1. Typed'
  BY DropTyped, UserTyped, ClientTyped DEF IInv
<1>2. {"cancelled", "queued", "transferring", "importing", "failed"} \subseteq States \ {"done"}
  BY DEF States, Open
<1>3. CASE DropDat
  BY <1>1, <1>2, <1>3, MovedKeeps DEF DropDat
<1>4. ASSUME NEW i \in Ids, Cancel(i) PROVE Knows
  BY <1>1, <1>2, <1>4, MovedKeeps DEF Cancel
<1>5. ASSUME NEW i \in Ids, Retry(i) PROVE Knows
  BY <1>1, <1>2, <1>5, MovedKeeps DEF Retry
<1>6. ASSUME NEW i \in Ids, Start(i) PROVE Knows
  BY <1>1, <1>2, <1>6, MovedKeeps DEF Start
<1>7. ASSUME NEW i \in Ids, Deliver(i) PROVE Knows
  BY <1>1, <1>2, <1>7, MovedKeeps DEF Deliver
<1>8. ASSUME NEW i \in Ids, FailTransfer(i) PROVE Knows
  BY <1>1, <1>2, <1>8, MovedKeeps DEF FailTransfer
<1> QED BY <1>3, <1>4, <1>5, <1>6, <1>7, <1>8

LEMMA WantKnown == ASSUME IInv, Want PROVE Knows
<1>1. Typed'
  BY WantTyped DEF IInv
<1>2. PICK s \in Ascending(Missing) : row' = row \o [k \in DOMAIN s |-> NewRow(s[k])]
  BY DEF Want
<1> DEFINE new == [k \in DOMAIN s |-> NewRow(s[k])]
<1>3. /\ DOMAIN s = 1 .. Len(s) /\ Len(s) \in Nat
  <2>1. Missing \subseteq 1 .. Tracks /\ Tracks \in Nat
    BY RomFacts, ImportAssumption DEF Missing, AllRoms, IInv, Typed
  <2> QED BY <2>1, AscendingFacts DEF IInv, Typed
<1>4. \A k \in 1 .. Len(s) : new[k].st # "done"
  BY <1>3 DEF NewRow
<1>5. \A k \in 1 .. Len(s) : new[k] \in [rom : {s[k]}, st : {"wanted", "queued"}]
  BY <1>3 DEF NewRow
<1>6. new \in Seq({new[k] : k \in 1 .. Len(s)}) /\ Len(new) = Len(s)
  BY <1>3
<1>7. row \in Seq(RowType) /\ Len(row) \in Nat /\ Ids = 1 .. Len(row)
  BY RowFacts DEF IInv, Typed
<1> HIDE DEF new
<1>8. /\ Len(row') = Len(row) + Len(s)
      /\ \A i \in 1 .. Len(row) : row'[i] = row[i]
      /\ \A i \in Len(row) + 1 .. Len(row) + Len(s) : row'[i] = new[i - Len(row)]
  <2>1. row' = row \o new
    BY <1>2 DEF new
  <2>2. row \in Seq(RowType \union {new[k] : k \in 1 .. Len(s)})
    BY <1>7, SeqMonotonic
  <2>3. new \in Seq(RowType \union {new[k] : k \in 1 .. Len(s)})
    BY <1>6, SeqMonotonic
  <2>4. /\ Len(row \o new) = Len(row) + Len(new)
        /\ \A i \in 1 .. Len(row) + Len(new) :
             (row \o new)[i] = IF i <= Len(row) THEN row[i] ELSE new[i - Len(row)]
    BY <2>2, <2>3, ConcatProperties
  <2> QED BY <1>3, <1>6, <1>7, <2>1, <2>4, SMTT(40)
<1>9. Ids' = 1 .. Len(row')
  BY <1>1, LenProperties DEF Typed, TypeOK, Ids
<1>10. \A i \in Ids' \ Ids : row'[i].st # "done"
  <2> SUFFICES ASSUME NEW i \in Ids' \ Ids PROVE row'[i].st # "done"
    OBVIOUS
  <2>1. i \in Len(row) + 1 .. Len(row) + Len(s) /\ i - Len(row) \in 1 .. Len(s)
    BY <1>3, <1>7, <1>8, <1>9
  <2> QED BY <1>4, <1>8, <2>1
<1> QED
  BY <1>1, <1>7, <1>8, <1>10, OthersStep DEF Want, disk, watch

\* What the watch does, and a step that changes nothing.
LEMMA WatchKnown ==
    ASSUME IInv, Hear \/ Submit \/ Lag \/ UNCHANGED vars PROVE Knows
<1>1. Typed'
  BY WatchTyped, StutterTyped DEF IInv
<1>2. job' = job /\ file' = file /\ row' = row
  BY DEF Hear, Submit, Lag, vars, db
<1>3. Ids' = Ids
  BY <1>2 DEF Ids
<1> QED BY <1>1, <1>2, <1>3, OthersStep

\* A step of the job that leaves the rows alone.
LEMMA ReadStep ==
    ASSUME Typed', row' = row, Known'
    PROVE  Knows
BY SameRows DEF IInv, Knows

LEMMA ReadKnown ==
    ASSUME IInv, OpenRow \/ Survey \/ SkipPlaced \/ Hash \/ Nothing \/ Plan \/ Landed
    PROVE  Knows
<1>1. Typed'
  BY ReadTyped DEF IInv
<1>2. row' = row /\ file' = file
  BY DEF OpenRow, Survey, SkipPlaced, Hash, Nothing, Plan, Landed, db
<1>3. \A i : Verified(i)' <=> Verified(i)
  BY <1>2 DEF Verified
<1>4. job \in JobType(Ids) /\ \A i \in Ids : row[i].rom \in AllRoms
  BY JobFacts DEF IInv
<1>5. job \in [at : Stages, id : Ids \union {0}, roms : SUBSET AllRoms, ids : SUBSET Ids,
               left : SUBSET Ids, found : SUBSET AllRoms, moves : SUBSET AllRoms,
               landed : SUBSET AllRoms, next : {"fail", "record", "discard"}]
  BY <1>4 DEF JobType
<1>6. Known'
  <2>1. CASE OpenRow \/ Survey
    <3>1. job.found = {}
      BY <2>1 DEF OpenRow, Survey, Known, IInv
    <3>2. CASE Return
      <4>1. job'.at = "end"
        BY <3>2 DEF Return, Idle
      <4> QED BY <4>1 DEF Known
    <3>3. CASE ~Return
      <4>1. /\ job'.at \in {"survey", "hash", "fail"} /\ job'.found = {}
            /\ job'.at = "hash" => job'.left = job'.ids
        BY <1>5, <2>1, <3>1, <3>3, ZenonT(60) DEF OpenRow, Survey
      <4> QED BY <4>1 DEF Known
    <3> QED BY <3>2, <3>3
  <2>3. CASE SkipPlaced
    <3>1. PICK i \in job.left : /\ Turn(i) /\ Placed(row[i].rom)
                                /\ job' = [job EXCEPT !.left = @ \ {i}]
      BY <2>3 DEF SkipPlaced
    <3>2. Verified(i) /\ job.at = "hash"
      BY <3>1 DEF Placed, Turn, Verified
    <3>3. /\ job'.at = "hash" /\ job'.found = job.found /\ job'.roms = job.roms
          /\ job'.ids = job.ids /\ job'.left = job.left \ {i}
      BY <1>5, <3>1, <3>2
    <3> QED BY <1>2, <1>3, <3>2, <3>3 DEF Known, IInv
  <2>4. CASE Hash
    <3>1. PICK i \in job.left :
             /\ Turn(i) /\ row[i].rom \in job.roms
             /\ job' = [job EXCEPT !.left = @ \ {i}, !.found = @ \union {row[i].rom}]
      BY <2>4 DEF Hash
    <3>2. job.at = "hash"
      BY <3>1 DEF Turn
    <3>3. /\ job'.at = "hash" /\ job'.found = job.found \union {row[i].rom}
          /\ job'.roms = job.roms /\ job'.ids = job.ids /\ job'.left = job.left \ {i}
      BY <1>5, <3>1, <3>2
    <3> QED BY <1>2, <1>3, <3>1, <3>2, <3>3 DEF Known, IInv
  <2>5. CASE Nothing
    <3>1. /\ job.at = "hash" /\ job.left = {} /\ job.found = {}
          /\ job'.at = "finish" /\ job'.ids = job.ids
      BY <1>5, <2>5 DEF Nothing, To
    <3> QED BY <1>2, <1>3, <3>1 DEF Known, IInv
  <2>6. CASE Plan
    <3>1. /\ job.at = "hash" /\ job.left = {} /\ job'.ids = job.ids
          /\ job'.at \in {"prepare", "move"}
          /\ job'.moves = {r \in job.roms : ~Keeps(r)} /\ job'.landed = job.landed
      BY <1>5, <2>6 DEF Plan
    <3>2. job.found \subseteq job.roms
      BY <3>1 DEF Known, IInv
    <3>3. \A i \in job.ids : row[i].rom \in job'.moves \/ Verified(i)
      BY <3>1, <3>2 DEF Known, IInv, Keeps, Verified
    <3> QED BY <1>2, <1>3, <3>1, <3>3 DEF Known
  <2>7. CASE Landed
    <3>1. /\ job.at = "move" /\ job'.at = "undo" /\ job'.ids = job.ids
          /\ job'.moves = job.moves /\ job'.landed = job.landed
      BY <1>5, <2>7 DEF Landed
    <3> QED BY <1>2, <1>3, <3>1 DEF Known, IInv
  <2> QED BY <2>1, <2>3, <2>4, <2>5, <2>6, <2>7
<1> QED BY <1>1, <1>2, <1>6, ReadStep

LEMMA FileKnown ==
    ASSUME IInv,
           \/ HashError \/ Quarantine \/ Prepare \/ (\E r \in AllRoms : Move(r)) \/ MoveFails
           \/ Rollback \/ Discard
    PROVE  Knows
<1>1. Typed'
  BY FileTyped DEF IInv
<1>2. row' = row /\ file' = file
  BY DEF HashError, Quarantine, Prepare, Move, MoveFails, Rollback, Discard, db
<1>3. \A i : Verified(i)' <=> Verified(i)
  BY <1>2 DEF Verified
<1>4. job \in [at : Stages, id : Ids \union {0}, roms : SUBSET AllRoms, ids : SUBSET Ids,
               left : SUBSET Ids, found : SUBSET AllRoms, moves : SUBSET AllRoms,
               landed : SUBSET AllRoms, next : {"fail", "record", "discard"}]
  BY JobFacts DEF IInv, JobType
<1>5. Known'
  <2>1. CASE HashError \/ Quarantine
    <3>1. job'.at \in {"fail", "quarantined"}
      BY <1>4, <2>1 DEF HashError, Quarantine, To
    <3> QED BY <3>1 DEF Known
  <2>2. CASE Prepare \/ MoveFails \/ Rollback \/ Discard
    <3>1. /\ job.at \in {"prepare", "move", "undo", "discard"}
          /\ job'.at \in {"move", "undo", "discard", "record", "fail"} /\ job'.ids = job.ids
          /\ job'.moves = job.moves /\ job'.landed = job.landed
      BY <1>4, <2>2 DEF Prepare, MoveFails, Rollback, Discard, To
    <3> QED BY <1>2, <1>3, <3>1 DEF Known, IInv
  <2>3. ASSUME NEW r \in AllRoms, Move(r) PROVE Known'
    <3>1. /\ job.at = "move" /\ job'.at = "move" /\ job'.ids = job.ids
          /\ job'.moves = job.moves \ {r} /\ job'.landed = job.landed \union {r}
      BY <1>4, <2>3 DEF Move
    <3> QED BY <1>2, <1>3, <3>1 DEF Known, IInv
  <2> QED BY <2>1, <2>2, <2>3
<1> QED BY <1>1, <1>2, <1>5, ReadStep

LEMMA LaneKnown ==
    ASSUME IInv, Take \/ End \/ Err \/ Scan \/ Crash PROVE Knows
<1>1. Typed'
  BY LaneTyped DEF IInv
<1>2. row' = row
  BY DEF Take, End, Err, Scan, Crash, db
<1>4. job'.at \in {"idle", "open", "end"} /\ (job'.at = "open" => job'.found = {})
  <2>1. CASE Take
    BY <2>1 DEF Take, Idle
  <2>2. CASE Err
    BY <2>2 DEF Err, Return, Idle
  <2>3. CASE End \/ Crash
    BY <2>3 DEF End, Crash, Idle
  <2>4. CASE Scan
    BY <2>4 DEF Scan
  <2> QED BY <2>1, <2>2, <2>3, <2>4
<1>5. Known'
  BY <1>4 DEF Known
<1> QED BY <1>1, <1>2, <1>5, ReadStep

\* The rows that the job ends as done have their roms in place.
LEMMA SettleKnown ==
    ASSUME IInv, RecordBad \/ Record \/ Finish \/ Fail PROVE Knows
<1>1. Typed'
  BY SettleTyped DEF IInv
<1>2. job'.at \in {"fail", "end"}
  <2>1. job \in JobType(Ids)
    BY JobFacts DEF IInv
  <2> QED BY <2>1 DEF JobType, RecordBad, Record, Finish, Fail, Return, Idle, To
<1>3. IInv'
  BY <1>1, <1>2 DEF IInv, Known
<1>4. /\ Ids = 1 .. Len(row) /\ Len(row) \in Nat /\ TypeOK
      /\ \A i \in Ids : row[i].rom \in AllRoms
      /\ {"bad", "failed", "done"} \subseteq States /\ job.ids \subseteq Ids
  BY RowFacts, JobFacts DEF IInv, Typed, TypeOK, States, JobType
<1>5. CASE RecordBad
  <2>1. PICK i \in job.left :
           LET bad == Moved({i}, {"importing"}, "bad")
           IN row' = bad \/ row' = Append(bad, [rom |-> row[i].rom, st |-> "wanted"])
    BY <1>5 DEF RecordBad
  <2> DEFINE bad == Moved({i}, {"importing"}, "bad")
  <2>2. /\ bad \in Seq(RowType) /\ Len(bad) = Len(row)
        /\ \A j \in Ids : bad[j].st = "done" => row[j].st = "done"
    BY <1>4, MovedFacts
  <2> HIDE DEF bad
  <2>3. [rom |-> row[i].rom, st |-> "wanted"] \in RowType
    BY JobFacts DEF RowType, States, Open, JobType, IInv
  <2>4. /\ \A j \in Ids : row'[j] = bad[j]
        /\ \A j \in Ids' \ Ids : row'[j].st = "wanted"
    <3>1. CASE row' = bad
      BY <1>4, <2>2, <3>1 DEF Ids
    <3>2. CASE row' = Append(bad, [rom |-> row[i].rom, st |-> "wanted"])
      <4>1. /\ DOMAIN row' = 1 .. Len(row) + 1 /\ \A j \in 1 .. Len(row) : row'[j] = bad[j]
            /\ row'[Len(row) + 1] = [rom |-> row[i].rom, st |-> "wanted"]
        BY <1>4, <2>2, <2>3, <3>2, AppendProperties
      <4> QED BY <1>4, <4>1 DEF Ids
    <3> QED BY <2>1, <3>1, <3>2 DEF bad
  <2>5. NoneDone
    BY <2>2, <2>4 DEF NoneDone
  <2> QED BY <1>3, <2>5 DEF Knows
<1>6. CASE Record
  <2>1. CASE row' = row
    BY <1>3, <2>1, SameRows DEF Knows
  <2>2. CASE job.moves = {} /\ row' = Moved(job.ids, {"importing"}, "done")
    <3>1. \A i \in Ids : row'[i].st = "done" => row[i].st = "done" \/ i \in job.ids
      BY <1>4, <2>2, MovedFacts
    <3>2. \A i \in job.ids : row[i].rom \in job.landed \/ Verified(i)
      BY <1>6, <2>2 DEF Record, Known, IInv
    <3>3. Ids' = Ids
      BY <1>4, <2>2, MovedStep DEF IInv
    <3> HIDE DEF Record
    <3>4. JobsDone
      BY <1>6, <2>2, <3>1, <3>2, <3>3 DEF JobsDone
    <3> QED BY <1>3, <1>6, <3>4 DEF Knows
  <2> QED BY <1>6, <2>1, <2>2 DEF Record
<1>7. CASE Finish
  <2>1. row' = Moved(job.ids, {"importing"}, "done") /\ job.at = "finish"
    BY <1>7 DEF Finish
  <2>2. \A i \in Ids : row'[i].st = "done" => row[i].st = "done" \/ i \in job.ids
    BY <1>4, <2>1, MovedFacts
  <2>3. \A i \in job.ids : Verified(i)
    BY <2>1 DEF Known, IInv
  <2>4. Ids' = Ids
    BY <1>4, <2>1, MovedStep DEF IInv
  <2>5. ~Record
    BY <2>1 DEF Record
  <2>6. JobsDone
    BY <2>2, <2>3, <2>4, <2>5 DEF JobsDone
  <2> QED BY <1>3, <1>7, <2>6 DEF Knows
<1>8. CASE Fail
  <2>1. row' = Moved(job.ids, {"importing"}, "failed")
    BY <1>8 DEF Fail
  <2>2. \A i \in Ids : row'[i].st = "done" => row[i].st = "done"
    BY <1>4, <2>1, MovedFacts
  <2>3. Ids' = Ids
    BY <1>4, <2>1, MovedStep DEF IInv
  <2>4. NoneDone
    BY <2>2, <2>3 DEF NoneDone
  <2> QED BY <1>3, <2>4 DEF Knows
<1> QED BY <1>5, <1>6, <1>7, <1>8

LEMMA InitKnown == Init => IInv
<1> SUFFICES ASSUME Init PROVE IInv
  OBVIOUS
<1>1. Known
  BY DEF Init, Idle, Known
<1> QED BY <1>1, InitTyped DEF IInv

LEMMA NextKnown == IInv /\ [Next]_vars => Knows
<1> SUFFICES ASSUME IInv, [Next]_vars PROVE Knows
  OBVIOUS
<1>1. CASE UNCHANGED vars \/ Watch \/ Lag
  BY <1>1, WatchKnown DEF Watch
<1>2. CASE Worker
  BY <1>2, LaneKnown, ReadKnown, FileKnown, SettleKnown DEF Worker
<1>3. CASE Scan \/ Crash
  BY <1>3, LaneKnown
<1>4. CASE Want
  BY <1>4, WantKnown
<1>5. CASE DropDat
  BY <1>5, UserKnown
<1>6. ASSUME NEW i \in Ids,
             Cancel(i) \/ Retry(i) \/ Start(i) \/ Deliver(i) \/ FailTransfer(i)
      PROVE  Knows
  BY <1>6, UserKnown
<1> QED BY <1>1, <1>2, <1>3, <1>4, <1>5, <1>6 DEF Next

-----------------------------------------------------------------------------
(* What lies where *)

\* A rewriting step reads its own output when it runs again, so a kill between that step
\* and the rename spoils the file; the theorems say what holds where this does not come.
NoCutRewrite == \A c \in Cases : c.kind = "rewrite" => c.budget["crash"] = 0

Steps == {"rewrite", "zip"}

\* A staged file is the torrent's.
Sourced == \A r \in AllRoms : staged[r] \in {"none", torrent[r]}

Named == \A i \in Ids : row[i].rom \in Roms

Uncut == kind = "rewrite" => budget["crash"] = 0

\* A scratch file is well made, and that of a rewriting plan is about to be moved or undone.
Scratching ==
    \A i \in 1 .. MaxRows : scratch[i] # "none" =>
        /\ scratch[i] = "made" /\ kind \in Steps
        /\ kind = "rewrite" => i = job.id /\ job.at \in {"move", "undo"}

\* The job read all roms of the entry, or none when its version was removed.
Reading ==
    job.at \in {"survey", "hash"} => job.roms \in {{}, Roms} /\ (~retired => job.roms = Roms)

\* While the job looks at files, what it found is staged and is all right.
Looking ==
    job.at = "hash" =>
        /\ job.roms \subseteq RomsOf(job.ids)
        /\ kind = "disc" => job.roms = Roms
        /\ \A r \in job.found : staged[r] = "raw"

\* While it places, every rom has a good copy, and is to be moved or is in place.
Placing ==
    /\ job.at \in {"prepare", "move"} =>
          /\ job.found \subseteq Roms /\ job.moves \subseteq Roms
          /\ \A r \in job.moves : torrent[r] = "raw"
          /\ \A r \in Roms : Kept(r) /\ (r \in job.moves \/ lib[r] = Right)
    /\ job.at = "prepare" => kind \in Steps /\ staged[1] = "raw"
    /\ job.at = "move" /\ kind \in Steps /\ job.moves # {} => scratch[job.id] = "made"

Landing == \A r \in job.landed : lib[r] = Right

\* Originals are discarded only when what was found is in place.
Clearing ==
    job.at = "discard" \/ (job.at = "undo" /\ job.next = "discard") =>
        \A r \in job.found : lib[r] = Right

Contented ==
    /\ Sourced /\ Named /\ Uncut /\ Scratching /\ Reading /\ Looking
    /\ Placing /\ Landing /\ Clearing /\ VerifiedIsRight

CInv == IInv /\ Contented

-----------------------------------------------------------------------------
(* What no step changes *)

\* The entry and its torrent stay, rows keep their roms, and no kill is spent on a rewrite.
Fixed ==
    /\ kind' = kind /\ dumps' = dumps /\ torrent' = torrent
    /\ \A i \in Ids : i \in Ids' /\ row'[i].rom = row[i].rom
    /\ Named' /\ Uncut'
    /\ retired => retired'

LEMMA JobIs ==
    ASSUME Typed
    PROVE  job \in [at : Stages, id : Ids \union {0}, roms : SUBSET AllRoms, ids : SUBSET Ids,
                    left : SUBSET Ids, found : SUBSET AllRoms, moves : SUBSET AllRoms,
                    landed : SUBSET AllRoms, next : {"fail", "record", "discard"}]
BY DEF Typed, TypeOK

LEMMA RomsAre ==
    ASSUME Typed
    PROVE  /\ Roms \subseteq AllRoms /\ Live \in {{}, Roms} /\ (~retired => Live = Roms)
           /\ Roms # {} /\ (kind # "disc" => Roms = {1})
BY RomFacts, ImportAssumption DEF Typed, Roms, Live, AllRoms

\* A step that leaves the rows alone or only moves them.
LEMMA SameRoms ==
    ASSUME Typed, Named, kind' = kind,
           row' = row \/ \E ids, from : \E to \in States : row' = Moved(ids, from, to)
    PROVE  Named' /\ \A i \in Ids : i \in Ids' /\ row'[i].rom = row[i].rom
<1>1. CASE row' = row
  BY <1>1 DEF Named, Ids, Roms
<1>2. ASSUME NEW ids, NEW from, NEW to \in States, row' = Moved(ids, from, to)
      PROVE  Named' /\ \A i \in Ids : i \in Ids' /\ row'[i].rom = row[i].rom
  <2>1. Ids' = Ids
    BY <1>2, MovedStep
  <2>2. \A i \in Ids : row'[i].rom = row[i].rom
    BY <1>2, MovedFacts DEF Typed
  <2> QED BY <2>1, <2>2 DEF Named, Roms
<1> QED BY <1>1, <1>2

LEMMA WantRoms ==
    ASSUME Typed, Named, Want
    PROVE  Named' /\ \A i \in Ids : i \in Ids' /\ row'[i].rom = row[i].rom
<1>1. PICK s \in Ascending(Missing) : row' = row \o [k \in DOMAIN s |-> NewRow(s[k])]
  BY DEF Want
<1> DEFINE new == [k \in DOMAIN s |-> NewRow(s[k])]
<1>2. Missing \subseteq 1 .. Tracks /\ Tracks \in Nat /\ Missing \subseteq Roms
  BY RomFacts, RomsAre, ImportAssumption DEF Missing, AllRoms, Typed
<1>3. /\ DOMAIN s = 1 .. Len(s) /\ Len(s) \in Nat /\ s \in Seq(Missing)
  BY <1>2, AscendingFacts DEF Typed
<1>4. \A k \in 1 .. Len(s) : new[k].rom \in Roms
  BY <1>2, <1>3, ElementOfSeq DEF NewRow
<1>5. new \in Seq({new[k] : k \in 1 .. Len(s)}) /\ Len(new) = Len(s)
  BY <1>3
<1>6. row \in Seq(RowType) /\ Len(row) \in Nat /\ Ids = 1 .. Len(row)
  BY RowFacts DEF Typed
<1> HIDE DEF new
<1>7. /\ DOMAIN row' = 1 .. Len(row) + Len(s)
      /\ \A i \in 1 .. Len(row) : row'[i] = row[i]
      /\ \A i \in Len(row) + 1 .. Len(row) + Len(s) : row'[i] = new[i - Len(row)]
  <2>1. row' = row \o new
    BY <1>1 DEF new
  <2>2. row \in Seq(RowType \union {new[k] : k \in 1 .. Len(s)})
    BY <1>6, SeqMonotonic
  <2>3. new \in Seq(RowType \union {new[k] : k \in 1 .. Len(s)})
    BY <1>5, SeqMonotonic
  <2>4. /\ row \o new \in Seq(RowType \union {new[k] : k \in 1 .. Len(s)})
        /\ Len(row \o new) = Len(row) + Len(new)
        /\ \A i \in 1 .. Len(row) + Len(new) :
             (row \o new)[i] = IF i <= Len(row) THEN row[i] ELSE new[i - Len(row)]
    BY <2>2, <2>3, ConcatProperties
  <2>5. DOMAIN (row \o new) = 1 .. Len(row) + Len(new)
    BY <2>4, LenProperties
  <2> QED BY <1>3, <1>5, <1>6, <2>1, <2>4, <2>5, SMTT(40)
<1>8. \A i \in Ids' : i \in Ids \/ (i - Len(row) \in 1 .. Len(s) /\ row'[i] = new[i - Len(row)])
  BY <1>3, <1>6, <1>7 DEF Ids
<1>9. kind' = kind
  BY DEF Want, given
<1>10. \A i \in Ids : i \in Ids' /\ row'[i] = row[i]
  BY <1>3, <1>6, <1>7 DEF Ids
<1>11. Named'
  <2> SUFFICES ASSUME NEW i \in Ids' PROVE row'[i].rom \in Roms
    BY <1>9 DEF Named, Roms
  <2>1. CASE i \in Ids
    BY <1>10, <2>1 DEF Named
  <2>2. CASE i \notin Ids
    BY <1>4, <1>8, <2>2
  <2> QED BY <2>1, <2>2
<1> QED BY <1>10, <1>11

LEMMA BadRoms ==
    ASSUME Typed, Named, RecordBad
    PROVE  Named' /\ \A i \in Ids : i \in Ids' /\ row'[i].rom = row[i].rom
<1>1. PICK i \in job.left :
         LET bad == Moved({i}, {"importing"}, "bad")
         IN row' = bad \/ row' = Append(bad, [rom |-> row[i].rom, st |-> "wanted"])
  BY DEF RecordBad
<1> DEFINE bad == Moved({i}, {"importing"}, "bad")
<1>2. i \in Ids /\ "bad" \in States /\ Ids = 1 .. Len(row) /\ Len(row) \in Nat /\ kind' = kind
  BY JobIs, RowFacts DEF Typed, States, RecordBad, given
<1>3. /\ bad \in Seq(RowType) /\ Len(bad) = Len(row)
      /\ \A j \in Ids : bad[j].rom = row[j].rom
  BY <1>2, MovedFacts DEF Typed
<1>4. CASE row' = bad
  BY <1>2, <1>4, SameRoms
<1> HIDE DEF bad
<1>5. CASE row' = Append(bad, [rom |-> row[i].rom, st |-> "wanted"])
  <2>1. [rom |-> row[i].rom, st |-> "wanted"] \in RowType
    BY <1>2, RowFacts DEF Typed, RowType, States, Open
  <2>2. /\ DOMAIN row' = 1 .. Len(row) + 1 /\ \A j \in 1 .. Len(row) : row'[j] = bad[j]
        /\ row'[Len(row) + 1] = [rom |-> row[i].rom, st |-> "wanted"]
    BY <1>2, <1>3, <1>5, <2>1, AppendProperties
  <2> QED BY <1>2, <1>3, <2>2 DEF Ids, Named, Roms
<1> QED BY <1>1, <1>4, <1>5 DEF bad

LEMMA BudgetStep ==
    ASSUME Typed, [Next]_vars
    PROVE  budget'["crash"] = budget["crash"] \/ (Spend("crash") /\ Crash)
<1>1. budget \in [Events -> Nat] /\ "crash" \in Events
  BY DEF Typed, TypeOK, Events
<1>2. \A e \in Events \ {"crash"} : Spend(e) => budget'["crash"] = budget["crash"]
  BY <1>1 DEF Spend
<1>3. {"want", "fail", "error", "cancel", "drop", "retry", "lag"} \subseteq Events \ {"crash"}
  BY DEF Events
<1>4. CASE UNCHANGED vars \/ Watch \/ Scan
  BY <1>4 DEF vars, Watch, Hear, Submit, Scan
<1>5. CASE Lag \/ Want \/ DropDat
  BY <1>2, <1>3, <1>5 DEF Lag, Want, DropDat
<1>6. CASE Crash
  BY <1>6 DEF Crash
<1>7. ASSUME NEW i \in Ids, Cancel(i) \/ Retry(i) \/ Start(i) \/ Deliver(i) \/ FailTransfer(i)
      PROVE  budget'["crash"] = budget["crash"]
  BY <1>2, <1>3, <1>7 DEF Cancel, Retry, Start, Deliver, FailTransfer
<1>8. CASE Worker
  <2>1. CASE \/ Take \/ OpenRow \/ Survey \/ SkipPlaced \/ Hash \/ Nothing \/ Plan \/ Landed
             \/ (\E r \in AllRoms : Move(r)) \/ End \/ RecordBad \/ Record \/ Finish \/ Fail
    <3>1. budget' = budget
      BY <2>1 DEF Take, OpenRow, Survey, SkipPlaced, Hash, Nothing, Plan, Landed, Move, End,
                  RecordBad, Record, Finish, Fail
    <3> QED BY <3>1
  <2>2. CASE HashError \/ Quarantine \/ Prepare \/ MoveFails \/ Rollback \/ Discard \/ Err
    BY <1>2, <1>3, <2>2 DEF HashError, Quarantine, Prepare, MoveFails, Rollback, Discard, Err
  <2> QED BY <1>8, <2>1, <2>2 DEF Worker
<1> QED BY <1>4, <1>5, <1>6, <1>7, <1>8 DEF Next

LEMMA NextFixed ==
    ASSUME Typed, Named, Uncut, [Next]_vars
    PROVE  Fixed
<1>1. kind' = kind /\ dumps' = dumps /\ torrent' = torrent /\ (retired => retired')
  <2>1. CASE UNCHANGED vars \/ Watch \/ Scan \/ Lag \/ Want \/ DropDat \/ Crash
    BY <2>1 DEF vars, Watch, Hear, Submit, Scan, Lag, Want, DropDat, Crash, given, db
  <2>2. ASSUME NEW i \in Ids,
               Cancel(i) \/ Retry(i) \/ Start(i) \/ Deliver(i) \/ FailTransfer(i)
        PROVE  kind' = kind /\ dumps' = dumps /\ torrent' = torrent /\ (retired => retired')
    BY <2>2 DEF Cancel, Retry, Start, Deliver, FailTransfer, given
  <2>3. ASSUME Worker
        PROVE  kind' = kind /\ dumps' = dumps /\ torrent' = torrent /\ retired' = retired
    <3>1. CASE \/ Take \/ OpenRow \/ Survey \/ SkipPlaced \/ Hash \/ Nothing \/ Plan \/ Landed
               \/ (\E r \in AllRoms : Move(r)) \/ End
      BY <3>1 DEF Take, OpenRow, Survey, SkipPlaced, Hash, Nothing, Plan, Landed, Move, End,
                  given, db
    <3>2. CASE RecordBad \/ Record \/ Finish \/ Fail
      BY <3>2 DEF RecordBad, Record, Finish, Fail, given
    <3>3. CASE \/ HashError \/ Quarantine \/ Prepare \/ MoveFails \/ Rollback \/ Discard \/ Err
      BY <3>3 DEF HashError, Quarantine, Prepare, MoveFails, Rollback, Discard, Err, given, db
    <3> QED BY <2>3, <3>1, <3>2, <3>3 DEF Worker
  <2> QED BY <2>1, <2>2, <2>3 DEF Next
<1>2. {"cancelled", "queued", "transferring", "importing", "failed", "done"} \subseteq States
  BY DEF States, Open
<1>3. \/ Want \/ RecordBad
      \/ row' = row \/ \E ids, from : \E to \in States : row' = Moved(ids, from, to)
  <2>1. CASE UNCHANGED vars \/ Watch \/ Scan \/ Lag \/ Crash
    BY <2>1 DEF vars, Watch, Hear, Submit, Scan, Lag, Crash, db
  <2>2. CASE DropDat
    BY <1>2, <2>2 DEF DropDat
  <2>3. ASSUME NEW i \in Ids,
               Cancel(i) \/ Retry(i) \/ Start(i) \/ Deliver(i) \/ FailTransfer(i)
        PROVE  \E ids, from : \E to \in States : row' = Moved(ids, from, to)
    BY <1>2, <2>3 DEF Cancel, Retry, Start, Deliver, FailTransfer
  <2>4. CASE \/ Take \/ OpenRow \/ Survey \/ SkipPlaced \/ Hash \/ Nothing \/ Plan \/ Landed
             \/ (\E r \in AllRoms : Move(r)) \/ End \/ HashError \/ Quarantine \/ Prepare
             \/ MoveFails \/ Rollback \/ Discard \/ Err
    BY <2>4 DEF Take, OpenRow, Survey, SkipPlaced, Hash, Nothing, Plan, Landed, Move, End,
                HashError, Quarantine, Prepare, MoveFails, Rollback, Discard, Err, db
  <2>5. CASE Record \/ Finish \/ Fail
    BY <1>2, <2>5 DEF Record, Finish, Fail
  <2> QED BY <2>1, <2>2, <2>3, <2>4, <2>5 DEF Next, Worker
<1>4. Named' /\ \A i \in Ids : i \in Ids' /\ row'[i].rom = row[i].rom
  BY <1>1, <1>3, WantRoms, BadRoms, SameRoms
<1>5. Uncut'
  BY <1>1, BudgetStep DEF Uncut, Spend
<1> QED BY <1>1, <1>4, <1>5 DEF Fixed

-----------------------------------------------------------------------------
(* The steps that keep the contents right *)

\* A step of another actor: games/, the scratch files, the verified files and the job stay,
\* and a file that is staged is the torrent's.
LEMMA OthersKeep ==
    ASSUME CInv, Fixed, job' = job, lib' = lib, scratch' = scratch, file' = file,
           \A r \in AllRoms : staged'[r] \in {staged[r], torrent[r]}
    PROVE  Contented'
<1>1. Typed /\ Roms' = Roms /\ Right' = Right /\ dumps' = dumps
  BY DEF CInv, IInv, Fixed, Roms, Right
<1>2. job.ids \subseteq Ids /\ job.found \subseteq AllRoms /\ 1 \in AllRoms
  BY <1>1, JobIs, RomFacts DEF Typed
<1>3. Roms \subseteq AllRoms
  BY <1>1, RomsAre
<1>4. \A r \in AllRoms : staged[r] = "raw" => staged'[r] = "raw"
  BY DEF CInv, Contented, Sourced
<1>5. \A r \in Roms : Kept(r) => Kept(r)'
  BY <1>1, <1>3, <1>4 DEF Kept
<1>6. RomsOf(job.ids)' = RomsOf(job.ids)
  BY <1>2 DEF RomsOf, Fixed
<1>7. Sourced'
  BY DEF CInv, Contented, Sourced, Fixed
<1>8. Scratching'
  BY DEF CInv, Contented, Scratching, Fixed
<1>9. Reading'
  BY <1>1 DEF CInv, Contented, Reading, Fixed
<1>10. Looking'
  BY <1>1, <1>2, <1>4, <1>6 DEF CInv, Contented, Looking, Fixed
<1>11. Placing'
  BY <1>1, <1>2, <1>4, <1>5 DEF CInv, Contented, Placing, Fixed
<1>12. Landing' /\ Clearing' /\ VerifiedIsRight'
  BY <1>1 DEF CInv, Contented, Landing, Clearing, VerifiedIsRight, FileState
<1> QED BY <1>7, <1>8, <1>9, <1>10, <1>11, <1>12 DEF Fixed, Contented

Quiet == {"idle", "open", "quarantined", "finish", "fail", "record", "end"}

\* A step of the lane to a place from which nothing is placed.
LEMMA QuietStep ==
    ASSUME CInv, Fixed, lib' = lib, job'.at \in Quiet, job'.landed \subseteq job.landed,
           \A r \in AllRoms : staged'[r] \in {staged[r], "none"},
           \A i \in 1 .. MaxRows : scratch'[i] \in {scratch[i], "none"},
           kind = "rewrite" => \A i \in 1 .. MaxRows : scratch'[i] = "none",
           \A r \in Roms : file'[r] \in {"verified", "bad"} => file'[r] = FileState(r) /\ lib[r] = Right
    PROVE  Contented'
<1>1. Roms' = Roms /\ Right' = Right /\ dumps' = dumps
  BY DEF Fixed, Roms, Right
<1>2. job'.at \notin {"survey", "hash", "prepare", "move", "undo", "discard"}
  BY DEF Quiet
<1>3. Sourced'
  BY DEF CInv, Contented, Sourced, Fixed
<1>4. Scratching'
  BY DEF CInv, Contented, Scratching, Fixed
<1>5. Reading' /\ Looking' /\ Placing' /\ Clearing'
  BY <1>2 DEF Reading, Looking, Placing, Clearing
<1>6. Landing' /\ VerifiedIsRight'
  BY <1>1 DEF CInv, Contented, Landing, VerifiedIsRight, FileState
<1> QED BY <1>3, <1>4, <1>5, <1>6 DEF Fixed, Contented

\* Where a rewriting plan is not at its renames, it has nothing in the scratch directories.
LEMMA NoScratch ==
    ASSUME CInv, kind = "rewrite", job.at \notin {"move", "undo"}
    PROVE  \A i \in 1 .. MaxRows : scratch[i] = "none"
BY DEF CInv, Contented, Scratching

\* The steps that end a job or lead it to its end, but for the rollback.
LEMMA QuietKept ==
    ASSUME CInv, Fixed, \/ Take \/ HashError \/ Quarantine \/ RecordBad \/ Nothing \/ Discard
                        \/ Record \/ Finish \/ Fail \/ End \/ Err
    PROVE  Contented'
<1>1. job \in [at : Stages, id : Ids \union {0}, roms : SUBSET AllRoms, ids : SUBSET Ids,
               left : SUBSET Ids, found : SUBSET AllRoms, moves : SUBSET AllRoms,
               landed : SUBSET AllRoms, next : {"fail", "record", "discard"}]
  BY JobIs DEF CInv, IInv
<1>2. /\ lib' = lib /\ scratch' = scratch
      /\ \A r \in AllRoms : staged'[r] \in {staged[r], "none"}
  <2>1. staged \in [AllRoms -> Contents]
    BY DEF CInv, IInv, Typed, TypeOK
  <2>2. CASE Take \/ HashError \/ RecordBad \/ Nothing \/ Record \/ Finish \/ Fail \/ End \/ Err
    BY <2>2 DEF Take, HashError, RecordBad, Nothing, Record, Finish, Fail, End, Err, disk
  <2>3. CASE Quarantine
    BY <2>1, <2>3 DEF Quarantine
  <2>4. CASE Discard
    BY <2>1, <2>4 DEF Discard
  <2> QED BY <2>2, <2>3, <2>4
<1>3. job.at \notin {"move", "undo"}
  <2>1. CASE Take \/ RecordBad \/ Nothing \/ Record \/ Finish \/ Fail \/ End \/ Err \/ Discard
    BY <2>1 DEF Take, RecordBad, Nothing, Record, Finish, Fail, End, Err, Discard
  <2>2. CASE HashError \/ Quarantine
    BY <2>2 DEF HashError, Quarantine, Turn
  <2> QED BY <2>1, <2>2
<1>4. job'.at \in Quiet /\ job'.landed \subseteq job.landed
  <2>1. CASE HashError \/ Quarantine \/ RecordBad \/ Nothing \/ Discard
    BY <1>1, <2>1 DEF HashError, Quarantine, RecordBad, Nothing, Discard, To, Quiet
  <2>2. Return => job'.at = "end" /\ job'.landed = {}
    BY DEF Return, Idle
  <2>3. CASE Take \/ End
    <3>1. CASE Take
      <4>1. job'.at = "open" /\ job'.landed = {}
        BY <3>1 DEF Take, Idle
      <4> QED BY <4>1 DEF Quiet
    <3>2. CASE End
      <4>1. job'.at = "idle" /\ job'.landed = {}
        BY <3>2 DEF End, Idle
      <4> QED BY <4>1 DEF Quiet
    <3> QED BY <2>3, <3>1, <3>2
  <2>4. CASE Finish \/ Fail \/ Err
    BY <2>2, <2>4 DEF Finish, Fail, Err, Quiet
  <2>5. CASE Record
    <3>1. CASE Return
      BY <2>2, <3>1 DEF Quiet
    <3>2. CASE To("fail")
      BY <1>1, <3>2 DEF To, Quiet
    <3> QED BY <2>5, <3>1, <3>2 DEF Record
  <2> QED BY <2>1, <2>3, <2>4, <2>5
<1>5. \A r \in Roms : file'[r] \in {"verified", "bad"} => file'[r] = FileState(r) /\ lib[r] = Right
  <2>1. CASE Record
    <3>1. \A r \in Roms : file'[r] = IF r \in job.landed THEN FileState(r) ELSE file[r]
      BY <2>1, RomsAre DEF Record, CInv, IInv
    <3> QED BY <3>1 DEF CInv, Contented, Landing, VerifiedIsRight, FileState
  <2>2. CASE ~Record
    <3>1. file' = file
      BY <2>2 DEF Take, HashError, Quarantine, RecordBad, Nothing, Discard, Finish, Fail, End, Err, db
    <3> QED BY <3>1 DEF CInv, Contented, VerifiedIsRight, FileState
  <2> QED BY <2>1, <2>2
<1> QED BY <1>2, <1>3, <1>4, <1>5, NoScratch, QuietStep

\* A kill leaves the scratch directories, of which a rewriting plan has none by assumption.
LEMMA CrashKept == ASSUME CInv, Fixed, Crash PROVE Contented'
<1>1. budget["crash"] > 0 /\ lib' = lib /\ staged' = staged /\ scratch' = scratch /\ file' = file
  BY DEF Crash, Spend, disk, db
<1>2. kind # "rewrite"
  BY <1>1 DEF CInv, Contented, Uncut
<1>3. job'.at \in Quiet /\ job'.landed \subseteq job.landed
  BY DEF Crash, Idle, Quiet
<1> QED BY <1>1, <1>2, <1>3, QuietStep DEF CInv, Contented, VerifiedIsRight, FileState

\* The scan records a rom for what it is only where it finds it right.
LEMMA ScanKept == ASSUME CInv, Fixed, Scan PROVE Contented'
<1>1. lib' = lib /\ staged' = staged /\ scratch' = scratch /\ job' = job /\ job.at = "idle"
  BY DEF Scan, disk
<1>2. \A r \in Roms : file'[r] \in {"verified", "bad"} => file'[r] = FileState(r) /\ lib[r] = Right
  <2>1. \A r \in Roms : file'[r] \in {Scanned(r), file[r]}
    BY RomsAre DEF Scan, CInv, IInv
  <2> QED BY <2>1 DEF Scanned, CInv, Contented, VerifiedIsRight, FileState
<1> QED BY <1>1, <1>2, NoScratch, QuietStep DEF Quiet

\* The rollback empties the job's scratch directory.
LEMMA RollbackKept == ASSUME CInv, Fixed, Rollback PROVE Contented'
<1>1. job \in [at : Stages, id : Ids \union {0}, roms : SUBSET AllRoms, ids : SUBSET Ids,
               left : SUBSET Ids, found : SUBSET AllRoms, moves : SUBSET AllRoms,
               landed : SUBSET AllRoms, next : {"fail", "record", "discard"}]
  BY JobIs DEF CInv, IInv
<1>2. /\ scratch \in [1 .. MaxRows -> Contents] /\ job.at = "undo" /\ file' = file
      /\ lib' = lib /\ staged' = staged /\ scratch' = [scratch EXCEPT ![job.id] = "none"]
  BY DEF CInv, IInv, Typed, TypeOK, Rollback, db
<1>3. /\ \A i \in 1 .. MaxRows : scratch'[i] \in {scratch[i], "none"}
      /\ kind = "rewrite" => \A i \in 1 .. MaxRows : scratch'[i] = "none"
  BY <1>2 DEF CInv, Contented, Scratching
<1>4. /\ job'.found = job.found /\ job'.landed = job.landed
      /\ job'.at = "fail" \/ (job'.at = job.next /\ job.next \in {"fail", "record", "discard"})
  BY <1>1 DEF Rollback, To
<1>5. CASE job'.at \in {"fail", "record"}
  BY <1>2, <1>3, <1>4, <1>5, QuietStep DEF Quiet, CInv, Contented, VerifiedIsRight, FileState
<1>6. CASE job'.at = "discard" /\ job.next = "discard"
  <2>1. Roms' = Roms /\ Right' = Right
    BY DEF Fixed, Roms, Right
  <2>2. Scratching'
    BY <1>3 DEF CInv, Contented, Scratching, Fixed
  <2>3. Clearing' /\ Landing'
    BY <1>2, <1>4, <1>6, <2>1 DEF CInv, Contented, Clearing, Landing
  <2>4. Reading' /\ Looking' /\ Placing'
    BY <1>6 DEF Reading, Looking, Placing
  <2>5. Sourced' /\ VerifiedIsRight'
    BY <1>2, <2>1 DEF CInv, Contented, Sourced, VerifiedIsRight, FileState, Fixed
  <2> QED BY <2>2, <2>3, <2>4, <2>5 DEF Fixed, Contented
<1> QED BY <1>4, <1>5, <1>6

\* A step of the job that reads: the disk and the files of the table stay.
LEMMA ReadKept ==
    ASSUME CInv, Fixed, disk' = disk, file' = file, job'.landed \subseteq job.landed,
           job.at \notin {"move", "undo"}, Reading', Looking', Placing', Clearing'
    PROVE  Contented'
<1>1. Roms' = Roms /\ Right' = Right /\ lib' = lib /\ staged' = staged /\ scratch' = scratch
  BY DEF Fixed, Roms, Right, disk
<1>2. Scratching'
  BY <1>1, NoScratch DEF CInv, Contented, Scratching, Fixed
<1>3. Sourced' /\ Landing' /\ VerifiedIsRight'
  BY <1>1 DEF CInv, Contented, Sourced, Landing, VerifiedIsRight, FileState, Fixed
<1> QED BY <1>2, <1>3 DEF Fixed, Contented

LEMMA OpenKept == ASSUME CInv, Fixed, OpenRow PROVE Contented'
<1>1. job \in [at : Stages, id : Ids \union {0}, roms : SUBSET AllRoms, ids : SUBSET Ids,
               left : SUBSET Ids, found : SUBSET AllRoms, moves : SUBSET AllRoms,
               landed : SUBSET AllRoms, next : {"fail", "record", "discard"}]
  BY JobIs DEF CInv, IInv
<1>2. /\ job.at = "open" /\ job.found = {} /\ disk' = disk /\ file' = file /\ row' = row
      /\ retired' = retired
  BY DEF CInv, IInv, Known, OpenRow, db
<1>3. CASE Return
  <2>1. job'.at = "end" /\ job'.landed = {}
    BY <1>3 DEF Return, Idle
  <2> QED
    BY <1>2, <2>1, NoScratch, QuietStep DEF Quiet, disk, CInv, Contented, VerifiedIsRight, FileState
<1>4. /\ Roms' = Roms /\ Live \in {{}, Roms} /\ (~retired => Live = Roms)
      /\ (kind # "disc" => Roms = {1})
  BY RomsAre DEF CInv, IInv, Fixed, Roms
<1>5. CASE kind = "disc" /\ job' = [job EXCEPT !.at = "survey", !.roms = Live]
  <2>1. job'.at = "survey" /\ job'.roms = Live /\ job'.landed = job.landed
    BY <1>1, <1>5
  <2>2. Reading' /\ Looking' /\ Placing' /\ Clearing'
    BY <1>2, <1>4, <2>1 DEF Reading, Looking, Placing, Clearing
  <2> QED BY <1>2, <2>1, <2>2, ReadKept
<1>6. CASE /\ job.id \in Importing /\ kind # "disc"
           /\ job' = [job EXCEPT !.at = "hash", !.roms = Live, !.ids = {job.id}, !.left = {job.id}]
  <2>1. /\ job'.at = "hash" /\ job'.roms = Live /\ job'.ids = {job.id} /\ job'.found = {}
        /\ job'.landed = job.landed
    BY <1>1, <1>2, <1>6
  <2>2. row'[job.id].rom = 1
    <3>1. job.id \in Ids
      BY <1>6 DEF Importing, In
    <3> QED BY <1>2, <1>4, <1>6, <3>1 DEF CInv, Contented, Named
  <2>3. Looking'
    <3>1. job'.roms \subseteq RomsOf(job.ids)'
      BY <1>4, <1>6, <2>1, <2>2 DEF RomsOf
    <3> QED BY <1>6, <2>1, <3>1 DEF Looking, Fixed
  <2>4. Reading' /\ Placing' /\ Clearing'
    BY <1>2, <1>4, <2>1 DEF Reading, Placing, Clearing
  <2> QED BY <1>2, <2>1, <2>3, <2>4, ReadKept
<1> QED BY <1>3, <1>5, <1>6 DEF OpenRow

LEMMA SurveyKept == ASSUME CInv, Fixed, Survey PROVE Contented'
<1>1. job \in [at : Stages, id : Ids \union {0}, roms : SUBSET AllRoms, ids : SUBSET Ids,
               left : SUBSET Ids, found : SUBSET AllRoms, moves : SUBSET AllRoms,
               landed : SUBSET AllRoms, next : {"fail", "record", "discard"}]
  BY JobIs DEF CInv, IInv
<1>2. /\ job.at = "survey" /\ job.found = {} /\ disk' = disk /\ file' = file /\ row' = row
      /\ retired' = retired
  BY DEF CInv, IInv, Known, Survey, db
<1>3. CASE Return \/ (job'.at = "fail" /\ job'.landed = job.landed)
  <2>1. job'.at \in {"end", "fail"} /\ job'.landed \subseteq job.landed
    BY <1>3 DEF Return, Idle
  <2> QED
    BY <1>2, <2>1, NoScratch, QuietStep DEF Quiet, disk, CInv, Contented, VerifiedIsRight, FileState
<1>4. CASE Covered /\ job' = [job EXCEPT !.at = "hash", !.ids = Importing, !.left = Importing]
  <2>1. /\ job'.at = "hash" /\ job'.roms = job.roms /\ job'.ids = Importing /\ job'.found = {}
        /\ job'.landed = job.landed
    BY <1>1, <1>2, <1>4
  <2>2. job.roms \in {{}, Roms} /\ (~retired => job.roms = Roms) /\ Roms' = Roms
    BY <1>2 DEF CInv, Contented, Reading, Fixed, Roms
  <2>3. Looking'
    <3>1. job'.roms \subseteq RomsOf(job.ids)' /\ job'.roms # {}
      BY <1>2, <1>4, <2>1 DEF RomsOf, Covered
    <3> QED BY <2>1, <2>2, <3>1 DEF Looking
  <2>4. Reading' /\ Placing' /\ Clearing'
    BY <1>2, <2>1, <2>2 DEF Reading, Placing, Clearing
  <2> QED BY <1>2, <2>1, <2>3, <2>4, ReadKept
<1>5. CASE job' = [job EXCEPT !.at = "fail", !.ids = Importing]
  <2>1. job'.at = "fail" /\ job'.landed = job.landed
    BY <1>1, <1>5
  <2> QED BY <1>3, <2>1
<1> QED BY <1>3, <1>4, <1>5 DEF Survey

LEMMA LookKept == ASSUME CInv, Fixed, SkipPlaced \/ Hash PROVE Contented'
<1>1. job \in [at : Stages, id : Ids \union {0}, roms : SUBSET AllRoms, ids : SUBSET Ids,
               left : SUBSET Ids, found : SUBSET AllRoms, moves : SUBSET AllRoms,
               landed : SUBSET AllRoms, next : {"fail", "record", "discard"}]
  BY JobIs DEF CInv, IInv
<1>2. /\ job.at = "hash" /\ disk' = disk /\ file' = file /\ row' = row /\ retired' = retired
  BY DEF SkipPlaced, Hash, Turn, db
<1>3. /\ job'.at = "hash" /\ job'.roms = job.roms /\ job'.ids = job.ids
      /\ job'.landed = job.landed
      /\ \A r \in job'.found : r \in job.found \/ staged[r] = "raw"
  <2>1. CASE SkipPlaced
    BY <1>1, <1>2, <2>1 DEF SkipPlaced
  <2>2. CASE Hash
    <3>1. PICK i \in job.left :
             /\ staged[row[i].rom] = "raw"
             /\ job' = [job EXCEPT !.left = @ \ {i}, !.found = @ \union {row[i].rom}]
      BY <2>2 DEF Hash
    <3> QED BY <1>1, <1>2, <3>1
  <2> QED BY <2>1, <2>2
<1>4. Roms' = Roms /\ staged' = staged /\ RomsOf(job.ids)' = RomsOf(job.ids)
  BY <1>2, <1>3 DEF Fixed, Roms, disk, RomsOf
<1>5. Looking' /\ Reading'
  BY <1>2, <1>3, <1>4 DEF CInv, Contented, Looking, Reading, Fixed
<1>6. Placing' /\ Clearing'
  BY <1>3 DEF Placing, Clearing
<1> QED BY <1>2, <1>3, <1>5, <1>6, ReadKept

\* The plan: whatever is not kept was found, since a verified rom is there.
LEMMA PlanKept == ASSUME CInv, Fixed, Plan PROVE Contented'
<1>1. job \in [at : Stages, id : Ids \union {0}, roms : SUBSET AllRoms, ids : SUBSET Ids,
               left : SUBSET Ids, found : SUBSET AllRoms, moves : SUBSET AllRoms,
               landed : SUBSET AllRoms, next : {"fail", "record", "discard"}]
  BY JobIs DEF CInv, IInv
<1>2. /\ job.at = "hash" /\ job.left = {} /\ job.found # {}
      /\ disk' = disk /\ file' = file /\ row' = row
      /\ Roms' = Roms /\ Right' = Right /\ staged' = staged /\ lib' = lib /\ scratch' = scratch
  BY DEF Plan, db, disk, Fixed, Roms, Right
<1>3. /\ job'.found = job.found /\ job'.landed = job.landed
      /\ job'.moves = {r \in job.roms : ~Keeps(r)}
      /\ job'.at = IF kind \in Steps THEN "prepare" ELSE "move"
  BY <1>1 DEF Plan, Steps
<1>4. job.found \subseteq job.roms /\ job.roms = Roms
  BY <1>2 DEF CInv, IInv, Known, Contented, Reading
<1>5. \A r \in job.found : staged[r] = "raw" /\ torrent[r] = "raw"
  BY <1>1, <1>2 DEF CInv, Contented, Looking, Sourced
<1>6. \A r \in Roms : r \in job.found \/ (file[r] = "verified" /\ lib[r] = Right)
  <2> SUFFICES ASSUME NEW r \in Roms
               PROVE  r \in job.found \/ (file[r] = "verified" /\ lib[r] = Right)
    OBVIOUS
  <2>1. PICK i \in job.ids : row[i].rom = r
    BY <1>2, <1>4 DEF CInv, Contented, Looking, RomsOf
  <2>2. row[i].rom \in job.found \/ Verified(i)
    BY <1>2 DEF CInv, IInv, Known
  <2> QED BY <2>1, <2>2 DEF Verified, CInv, Contented, VerifiedIsRight, FileState
<1>7. Right # "none"
  BY DEF Right
<1>8. \A r \in Roms : (r \in job'.moves => torrent[r] = "raw") /\ Kept(r)
                      /\ (r \in job'.moves \/ lib[r] = Right)
  BY <1>3, <1>4, <1>5, <1>6, <1>7 DEF Keeps, Kept, CInv, Contented, VerifiedIsRight, FileState
<1>10. \A r \in Roms : Kept(r)' <=> Kept(r)
  BY <1>2 DEF Kept
<1>11. kind \in Steps => staged[1] = "raw"
  <2>1. kind \in Steps => Roms = {1}
    BY RomsAre DEF CInv, IInv, Steps
  <2> QED BY <1>2, <1>4, <1>5, <2>1
<1>12. job'.found \subseteq Roms /\ job'.moves \subseteq Roms
  BY <1>3, <1>4
<1>13. Placing'
  BY <1>2, <1>3, <1>8, <1>10, <1>11, <1>12 DEF Placing, Fixed
<1>14. Reading' /\ Looking' /\ Clearing'
  BY <1>3 DEF Reading, Looking, Clearing
<1> QED BY <1>2, <1>3, <1>13, <1>14, ReadKept

\* A step makes the right file of a raw one, and it never finds one of its own.
LEMMA PrepareKept == ASSUME CInv, Fixed, Prepare PROVE Contented'
<1>1. job \in [at : Stages, id : Ids \union {0}, roms : SUBSET AllRoms, ids : SUBSET Ids,
               left : SUBSET Ids, found : SUBSET AllRoms, moves : SUBSET AllRoms,
               landed : SUBSET AllRoms, next : {"fail", "record", "discard"}]
  BY JobIs DEF CInv, IInv
<1>2. /\ job.at = "prepare" /\ file' = file /\ staged' = staged /\ lib' = lib
      /\ Roms' = Roms /\ Right' = Right
  BY DEF Prepare, db, Fixed, Roms, Right
<1>3. /\ scratch \in [1 .. MaxRows -> Contents] /\ job.id \in 1 .. MaxRows
      /\ kind \in Steps /\ staged[1] = "raw"
  <2>1. job.id # 0 /\ job.id \in Ids
    BY <1>1, <1>2 DEF CInv, IInv, Typed, Owned
  <2>2. Ids = 1 .. Len(row) /\ Len(row) \in Nat /\ Len(row) <= MaxRows /\ MaxRows \in Nat
    BY RowFacts, ImportAssumption DEF CInv, IInv, Typed
  <2> QED BY <1>2, <2>1, <2>2 DEF CInv, IInv, Typed, TypeOK, Contented, Placing
<1>4. \A r \in Roms : Kept(r)' <=> Kept(r)
  BY <1>2 DEF Kept
<1>5. Sourced' /\ VerifiedIsRight'
  BY <1>2 DEF CInv, Contented, Sourced, VerifiedIsRight, FileState, Fixed
<1>6. CASE /\ kind = "rewrite" \/ scratch[job.id] = "none"
           /\ scratch' = [scratch EXCEPT ![job.id] = Built(Read(1))] /\ To("move")
  <2>1. /\ job'.at = "move" /\ job'.id = job.id /\ job'.found = job.found
        /\ job'.moves = job.moves /\ job'.landed = job.landed
    BY <1>1, <1>6 DEF To
  <2>2. scratch[job.id] = "none"
    BY <1>2, <1>3, <1>6, NoScratch
  <2>3. Built(Read(1)) = "made"
    BY <1>3, <2>2 DEF Built, Read
  <2>4. scratch'[job.id] = "made" /\ \A i \in 1 .. MaxRows : i # job.id => scratch'[i] = scratch[i]
    BY <1>3, <1>6, <2>3
  <2>5. Scratching'
    <3>1. kind = "rewrite" => \A i \in 1 .. MaxRows : scratch[i] = "none"
      BY <1>2, NoScratch
    <3> QED BY <1>3, <2>1, <2>4, <3>1 DEF CInv, Contented, Scratching, Fixed
  <2>6. Placing'
    BY <1>2, <1>4, <2>1, <2>4 DEF CInv, Contented, Placing, Fixed
  <2>7. Reading' /\ Looking' /\ Clearing' /\ Landing'
    BY <1>2, <2>1 DEF Reading, Looking, Clearing, Landing, CInv, Contented
  <2> QED BY <1>5, <2>5, <2>6, <2>7 DEF Fixed, Contented
<1>7. CASE scratch' = scratch /\ job' = [job EXCEPT !.at = "undo", !.next = "fail"]
  <2>1. job'.at = "undo" /\ job'.next = "fail" /\ job'.landed = job.landed
    BY <1>1, <1>7
  <2>2. Scratching'
    <3>1. kind = "rewrite" => \A i \in 1 .. MaxRows : scratch[i] = "none"
      BY <1>2, NoScratch
    <3> QED BY <1>7, <3>1 DEF CInv, Contented, Scratching, Fixed
  <2>3. Reading' /\ Looking' /\ Placing' /\ Clearing' /\ Landing'
    BY <1>2, <2>1 DEF Reading, Looking, Placing, Clearing, Landing, CInv, Contented
  <2> QED BY <1>5, <2>2, <2>3 DEF Fixed, Contented
<1> QED BY <1>6, <1>7 DEF Prepare

\* What a rename brings into games/ is what the core needs.
LEMMA MoveBrings ==
    ASSUME CInv, NEW r \in AllRoms, Move(r)
    PROVE  Read(r) = Right /\ r \in Roms
<1>1. job.at = "move" /\ r \in job.moves /\ Read(r) # "none"
  BY DEF Move
<1>2. r \in Roms /\ torrent[r] = "raw" /\ kind \in Kinds
  BY <1>1 DEF CInv, IInv, Typed, TypeOK, Contented, Placing
<1>3. job.id \in 1 .. MaxRows
  <2>1. job.id # 0 /\ job.id \in Ids
    BY <1>1, JobIs DEF CInv, IInv, Typed, Owned
  <2> QED BY <2>1, RowFacts, ImportAssumption DEF CInv, IInv, Typed
<1>4. CASE kind \in Steps
  <2>1. scratch[job.id] = "made"
    BY <1>1, <1>4 DEF CInv, Contented, Placing
  <2> QED BY <1>2, <1>4, <2>1 DEF Read, Right, Steps
<1>5. CASE kind \notin Steps
  <2>1. scratch[job.id] = "none"
    BY <1>3, <1>5 DEF CInv, Contented, Scratching
  <2>2. staged[r] = "raw"
    BY <1>1, <1>2, <2>1 DEF Read, CInv, Contented, Sourced
  <2> QED BY <1>2, <1>5, <2>1, <2>2 DEF Read, Right, Steps, Kinds
<1> QED BY <1>4, <1>5

LEMMA MoveKept == ASSUME CInv, Fixed, NEW r \in AllRoms, Move(r) PROVE Contented'
<1>1. job \in [at : Stages, id : Ids \union {0}, roms : SUBSET AllRoms, ids : SUBSET Ids,
               left : SUBSET Ids, found : SUBSET AllRoms, moves : SUBSET AllRoms,
               landed : SUBSET AllRoms, next : {"fail", "record", "discard"}]
  BY JobIs DEF CInv, IInv
<1>2. /\ job.at = "move" /\ r \in job.moves /\ file' = file /\ lib' = [lib EXCEPT ![r] = Read(r)]
      /\ job'.at = "move" /\ job'.id = job.id /\ job'.found = job.found
      /\ job'.moves = job.moves \ {r} /\ job'.landed = job.landed \union {r}
  BY <1>1 DEF Move, db
<1>3. /\ Roms' = Roms /\ Right' = Right /\ dumps' = dumps
      /\ Read(r) = Right /\ r \in Roms /\ Roms \subseteq AllRoms
  BY MoveBrings, RomsAre DEF Fixed, Roms, Right, CInv, IInv
<1>4. /\ lib \in [AllRoms -> Contents] /\ staged \in [AllRoms -> Contents]
      /\ scratch \in [1 .. MaxRows -> Contents]
  BY DEF CInv, IInv, Typed, TypeOK
<1>5. lib'[r] = Right /\ \A q \in AllRoms : q # r => lib'[q] = lib[q]
  BY <1>2, <1>3, <1>4
<1>6. \A q \in AllRoms : staged'[q] = staged[q] \/ (q = r /\ staged'[q] = "none")
  BY <1>4 DEF Move
<1>7. \A i \in 1 .. MaxRows : scratch'[i] \in {scratch[i], "none"}
  BY <1>4 DEF Move
<1>8. Sourced'
  BY <1>6 DEF CInv, Contented, Sourced, Fixed
<1>9. Scratching'
  BY <1>2, <1>7 DEF CInv, Contented, Scratching, Fixed
<1>10. \A q \in Roms : Kept(q) => Kept(q)'
  BY <1>3, <1>5, <1>6 DEF Kept
<1>11. Placing'
  <2>1. kind \in Steps => job'.moves = {}
    <3>1. kind \in Steps => Roms = {1}
      BY RomsAre DEF CInv, IInv, Steps
    <3>2. job.moves \subseteq Roms
      BY <1>2 DEF CInv, Contented, Placing
    <3> QED BY <1>2, <3>1, <3>2
  <2> QED BY <1>2, <1>3, <1>5, <1>10, <2>1 DEF CInv, Contented, Placing, Fixed
<1>12. VerifiedIsRight' /\ Landing'
  BY <1>1, <1>2, <1>3, <1>5 DEF CInv, Contented, VerifiedIsRight, FileState, Landing
<1>13. Reading' /\ Looking' /\ Clearing'
  BY <1>2 DEF Reading, Looking, Clearing
<1> QED BY <1>8, <1>9, <1>11, <1>12, <1>13 DEF Fixed, Contented

\* Originals may go only once nothing is left to move.
LEMMA MovedKept == ASSUME CInv, Fixed, MoveFails \/ Landed PROVE Contented'
<1>1. job \in [at : Stages, id : Ids \union {0}, roms : SUBSET AllRoms, ids : SUBSET Ids,
               left : SUBSET Ids, found : SUBSET AllRoms, moves : SUBSET AllRoms,
               landed : SUBSET AllRoms, next : {"fail", "record", "discard"}]
  BY JobIs DEF CInv, IInv
<1>2. /\ job.at = "move" /\ file' = file /\ disk' = disk /\ staged' = staged /\ lib' = lib
      /\ scratch' = scratch /\ Roms' = Roms /\ Right' = Right
  BY DEF MoveFails, Landed, db, disk, Fixed, Roms, Right
<1>3. job'.next = "discard" => job.moves = {}
  <2>1. CASE MoveFails
    BY <1>1, <2>1 DEF MoveFails
  <2>2. CASE Landed
    BY <1>1, <2>2 DEF Landed
  <2> QED BY <2>1, <2>2
<1>4. job'.at = "undo" /\ job'.id = job.id /\ job'.found = job.found /\ job'.landed = job.landed
  <2>1. CASE MoveFails
    BY <1>1, <2>1 DEF MoveFails
  <2>2. CASE Landed
    BY <1>1, <2>2 DEF Landed
  <2> QED BY <2>1, <2>2
<1>5. Clearing'
  BY <1>2, <1>3, <1>4 DEF CInv, Contented, Clearing, Placing
<1>6. Scratching'
  BY <1>2, <1>4 DEF CInv, Contented, Scratching, Fixed
<1>7. Sourced' /\ Landing' /\ VerifiedIsRight'
  BY <1>2, <1>4 DEF CInv, Contented, Sourced, Landing, VerifiedIsRight, FileState, Fixed
<1>8. Reading' /\ Looking' /\ Placing'
  BY <1>4 DEF Reading, Looking, Placing
<1> QED BY <1>5, <1>6, <1>7, <1>8 DEF Fixed, Contented

-----------------------------------------------------------------------------
(* The theorems *)

LEMMA InitContents == NoCutRewrite /\ Init => CInv
<1> SUFFICES ASSUME NoCutRewrite, Init PROVE CInv
  OBVIOUS
<1>1. IInv
  BY InitKnown
<1>2. row = <<>> /\ job.at = "idle" /\ job.landed = {}
  BY DEF Init, Idle
<1>3. Named /\ Reading /\ Looking /\ Placing /\ Landing /\ Clearing
  BY <1>2, EmptySeq DEF Named, Ids, Reading, Looking, Placing, Landing, Clearing
<1>4. Sourced /\ Scratching
  BY DEF Init, Sourced, Scratching
<1>5. VerifiedIsRight
  <2>1. Roms \subseteq AllRoms
    BY <1>1, RomsAre DEF IInv
  <2> QED BY <2>1 DEF Init, VerifiedIsRight, FileState
<1>6. Uncut
  BY DEF Init, NoCutRewrite, Uncut
<1> QED BY <1>1, <1>3, <1>4, <1>5, <1>6 DEF CInv, Contented

LEMMA NextContents == CInv /\ [Next]_vars => CInv'
<1> SUFFICES ASSUME CInv, [Next]_vars PROVE CInv'
  OBVIOUS
<1>1. IInv'
  BY NextKnown DEF CInv, Knows
<1>2. Fixed
  BY NextFixed DEF CInv, IInv, Contented
<1>3. CASE UNCHANGED vars \/ Watch \/ Lag \/ Want \/ DropDat
  <2>1. job' = job /\ lib' = lib /\ scratch' = scratch /\ file' = file /\ staged' = staged
    BY <1>3 DEF vars, Watch, Hear, Submit, Lag, Want, DropDat, db, disk
  <2> QED BY <1>1, <1>2, <2>1, OthersKeep DEF CInv
<1>4. ASSUME NEW i \in Ids, Cancel(i) \/ Retry(i) \/ Start(i) \/ FailTransfer(i)
      PROVE  CInv'
  <2>1. job' = job /\ lib' = lib /\ scratch' = scratch /\ file' = file /\ staged' = staged
    BY <1>4 DEF Cancel, Retry, Start, FailTransfer, disk
  <2> QED BY <1>1, <1>2, <2>1, OthersKeep DEF CInv
<1>5. ASSUME NEW i \in Ids, Deliver(i) PROVE CInv'
  <2>1. job' = job /\ lib' = lib /\ scratch' = scratch /\ file' = file
    BY <1>5 DEF Deliver
  <2>2. \A r \in AllRoms : staged'[r] \in {staged[r], torrent[r]}
    <3>1. staged \in [AllRoms -> Contents]
      BY DEF CInv, IInv, Typed, TypeOK
    <3> QED BY <1>5, <3>1 DEF Deliver
  <2> QED BY <1>1, <1>2, <2>1, <2>2, OthersKeep DEF CInv
<1>6. CASE Worker
  <2>1. Contented'
    BY <1>2, <1>6, QuietKept, RollbackKept, OpenKept, SurveyKept, LookKept, PlanKept,
       PrepareKept, MoveKept, MovedKept DEF Worker
  <2> QED BY <1>1, <2>1 DEF CInv
<1>7. CASE Scan \/ Crash
  BY <1>1, <1>2, <1>7, ScanKept, CrashKept DEF CInv
<1> QED BY <1>3, <1>4, <1>5, <1>6, <1>7 DEF Next

\* Where no kill cuts a rewriting plan, a rom whose file is recorded as verified has what
\* the core needs in games/, whatever fails, is retried, killed or dropped in between.
THEOREM VerifiedAlwaysRight == NoCutRewrite => (Spec => []VerifiedIsRight)
<1>1. CInv => VerifiedIsRight
  BY DEF CInv, Contented
<1> QED BY <1>1, InitContents, NextContents, PTL DEF Spec

-----------------------------------------------------------------------------
(* A download that is done has its rom in games/ *)

InPlace == \A r \in Roms : lib[r] = Right

\* Once nothing is left to move, every rom is in place; and so are a disc's when all its
\* downloads had been placed before.
Ending ==
    \/ job.at \in {"undo", "discard", "record"} /\ job.moves = {}
    \/ job.at = "finish" /\ kind = "disc"
    => InPlace

\* An entry has all its roms in place once a download of it is done.
DoneHere == In({"done"}) # {} => InPlace

DInv == CInv /\ Ending /\ DoneHere /\ DoneIsPlaced

\* A rename brings what the core needs, so what is in place stays.
LEMMA InPlaceStays == ASSUME CInv, [Next]_vars, InPlace PROVE InPlace'
<1>1. Roms' = Roms /\ Right' = Right /\ Roms \subseteq AllRoms /\ lib \in [AllRoms -> Contents]
  BY NextFixed, RomsAre DEF CInv, IInv, Contented, Fixed, Roms, Right, Typed, TypeOK
<1>2. CASE lib' = lib
  BY <1>1, <1>2 DEF InPlace
<1>3. CASE \E q \in AllRoms : Move(q)
  BY <1>1, <1>3, MoveBrings DEF InPlace, Move
<1>4. lib' = lib \/ \E q \in AllRoms : Move(q)
  <2>1. CASE UNCHANGED vars \/ Watch \/ Lag \/ Want \/ DropDat \/ Scan \/ Crash
    BY <2>1 DEF vars, Watch, Hear, Submit, Lag, Want, DropDat, Scan, Crash, disk
  <2>2. CASE \E i \in Ids : Cancel(i) \/ Retry(i) \/ Start(i) \/ Deliver(i) \/ FailTransfer(i)
    BY <2>2 DEF Cancel, Retry, Start, Deliver, FailTransfer, disk
  <2>3. CASE \/ Take \/ OpenRow \/ Survey \/ SkipPlaced \/ Hash \/ HashError \/ RecordBad
             \/ Nothing \/ Plan \/ MoveFails \/ Landed \/ Record \/ Finish \/ Fail \/ End \/ Err
    BY <2>3 DEF Take, OpenRow, Survey, SkipPlaced, Hash, HashError, RecordBad, Nothing, Plan,
                MoveFails, Landed, Record, Finish, Fail, End, Err, disk
  <2>4. CASE Prepare \/ Rollback \/ Quarantine \/ Discard
    BY <2>4 DEF Prepare, Rollback, Quarantine, Discard
  <2> QED BY <2>1, <2>2, <2>3, <2>4 DEF Next, Worker
<1> QED BY <1>2, <1>3, <1>4

\* The job comes to its last places with everything in place, or with something left to move.
LEMMA EndingStays == ASSUME CInv, Ending, [Next]_vars PROVE Ending'
<1>1. job \in [at : Stages, id : Ids \union {0}, roms : SUBSET AllRoms, ids : SUBSET Ids,
               left : SUBSET Ids, found : SUBSET AllRoms, moves : SUBSET AllRoms,
               landed : SUBSET AllRoms, next : {"fail", "record", "discard"}]
  BY JobIs DEF CInv, IInv
<1>2. kind' = kind
  BY NextFixed DEF CInv, IInv, Contented, Fixed
<1>3. SUFFICES ASSUME \/ job'.at \in {"undo", "discard", "record"} /\ job'.moves = {}
                      \/ job'.at = "finish" /\ kind = "disc"
               PROVE  InPlace
  BY <1>2, InPlaceStays DEF Ending
<1>4. CASE job' = job
  BY <1>3, <1>4 DEF Ending
<1>5. CASE UNCHANGED vars \/ Watch \/ Lag \/ Want \/ DropDat \/ Scan
  BY <1>4, <1>5 DEF vars, Watch, Hear, Submit, Lag, Want, DropDat, Scan
<1>6. CASE \E i \in Ids : Cancel(i) \/ Retry(i) \/ Start(i) \/ Deliver(i) \/ FailTransfer(i)
  BY <1>4, <1>6 DEF Cancel, Retry, Start, Deliver, FailTransfer
<1>7. CASE \/ Crash \/ Take \/ OpenRow \/ Survey \/ SkipPlaced \/ Hash \/ HashError \/ Quarantine
           \/ RecordBad \/ Plan \/ (\E r \in AllRoms : Move(r)) \/ Finish \/ Fail \/ End \/ Err
           \/ Record
  <2>1. Return => job'.at = "end"
    BY DEF Return, Idle
  <2>2. job'.at \notin {"undo", "discard", "record", "finish"}
    <3>1. CASE Crash \/ Take \/ End
      <4>1. CASE Crash \/ End
        BY <4>1 DEF Crash, End, Idle
      <4>2. CASE Take
        BY <4>2 DEF Take, Idle
      <4> QED BY <3>1, <4>1, <4>2
    <3>2. CASE OpenRow \/ Survey
      BY <1>1, <2>1, <3>2 DEF OpenRow, Survey
    <3>3. CASE SkipPlaced \/ Hash \/ HashError \/ Quarantine \/ RecordBad
      BY <1>1, <3>3 DEF SkipPlaced, Hash, HashError, Quarantine, RecordBad, Turn, To
    <3>4. CASE Plan \/ \E r \in AllRoms : Move(r)
      BY <1>1, <3>4 DEF Plan, Move
    <3>5. CASE Finish \/ Fail \/ Err
      BY <2>1, <3>5 DEF Finish, Fail, Err
    <3>6. CASE Record
      <4>1. To("fail") => job'.at = "fail"
        BY <1>1 DEF To
      <4> QED BY <2>1, <3>6, <4>1 DEF Record
    <3> QED BY <1>7, <3>1, <3>2, <3>3, <3>4, <3>5, <3>6
  <2> QED BY <1>3, <2>2
<1>8. CASE Prepare \/ MoveFails \/ Landed
  <2>1. job.at \in {"prepare", "move"} /\ job'.moves = job.moves
    BY <1>1, <1>8 DEF Prepare, MoveFails, Landed, To
  <2>2. job'.at # "finish"
    BY <1>1, <1>8 DEF Prepare, MoveFails, Landed, To
  <2> QED BY <1>3, <2>1, <2>2 DEF CInv, Contented, Placing, InPlace
<1>9. CASE Rollback \/ Discard
  <2>1. /\ job.at \in {"undo", "discard"} /\ job'.moves = job.moves
        /\ job'.at \in {"fail", "record", "discard"}
    BY <1>1, <1>9 DEF Rollback, Discard, To
  <2> QED BY <1>3, <2>1 DEF Ending
<1>10. CASE Nothing
  <2>1. job.at = "hash" /\ job.left = {} /\ job.found = {} /\ job'.at = "finish"
    BY <1>1, <1>10 DEF Nothing, To
  <2>2. Roms \subseteq RomsOf(job.ids)
    BY <1>3, <2>1 DEF CInv, Contented, Looking
  <2>3. \A i \in job.ids : Verified(i)
    BY <2>1 DEF CInv, IInv, Known
  <2> QED BY <2>2, <2>3 DEF RomsOf, Verified, CInv, Contented, VerifiedIsRight, InPlace
<1> QED BY <1>5, <1>6, <1>7, <1>8, <1>9, <1>10 DEF Next, Worker

\* What is recorded of a rom for what it is stays so, but for a scan of a disc with a bad
\* dump or of a version that went.
LEMMA RecordedStays ==
    ASSUME CInv, [Next]_vars, InPlace, NEW r \in Roms,
           \/ file[r] = FileState(r)
           \/ kind = "disc" /\ dumps # {} /\ file[r] = "unverified",
           ~retired'
    PROVE  \/ file'[r] = FileState(r)
           \/ kind = "disc" /\ dumps # {} /\ file'[r] = "unverified"
<1>1. Roms \subseteq AllRoms /\ ~retired /\ Live = Roms
  BY NextFixed, RomsAre DEF CInv, IInv, Contented, Fixed
<1>2. CASE file' = file
  BY <1>2
<1>3. CASE Record
  BY <1>1, <1>3 DEF Record
<1>4. CASE Scan
  <2>1. /\ file'[r] = file[r] \/ (file'[r] = Scanned(r))
    BY <1>1, <1>4 DEF Scan
  <2>2. kind # "disc" \/ dumps = {} => Scanned(r) = FileState(r)
    BY <1>1 DEF Scanned, Whole, InPlace
  <2>3. Scanned(r) \in {FileState(r), "unverified"}
    BY DEF Scanned
  <2> QED BY <2>1, <2>2, <2>3
<1>5. file' = file \/ Record \/ Scan
  <2>1. CASE UNCHANGED vars \/ Watch \/ Lag \/ Want \/ DropDat \/ Crash
    BY <2>1 DEF vars, Watch, Hear, Submit, Lag, Want, DropDat, Crash, db
  <2>2. CASE \E i \in Ids : Cancel(i) \/ Retry(i) \/ Start(i) \/ Deliver(i) \/ FailTransfer(i)
    BY <2>2 DEF Cancel, Retry, Start, Deliver, FailTransfer
  <2>3. CASE \/ Take \/ OpenRow \/ Survey \/ SkipPlaced \/ Hash \/ HashError \/ RecordBad
             \/ Nothing \/ Plan \/ MoveFails \/ Landed \/ Finish \/ Fail \/ End \/ Err
    BY <2>3 DEF Take, OpenRow, Survey, SkipPlaced, Hash, HashError, RecordBad, Nothing, Plan,
                MoveFails, Landed, Finish, Fail, End, Err, db
  <2>4. CASE Prepare \/ Rollback \/ Quarantine \/ Discard \/ (\E q \in AllRoms : Move(q))
    BY <2>4 DEF Prepare, Rollback, Quarantine, Discard, Move, db
  <2> QED BY <2>1, <2>2, <2>3, <2>4 DEF Next, Worker
<1> QED BY <1>2, <1>3, <1>4, <1>5

\* The rows that become done in a step find everything in place, and their roms recorded.
LEMMA BecomeDone ==
    ASSUME CInv, Ending, [Next]_vars, NEW i \in Ids', row'[i].st = "done"
    PROVE  /\ i \in Ids
           /\ row[i].st = "done" \/ (InPlace /\ file'[row[i].rom] = FileState(row[i].rom))
<1>1. Knows /\ Typed /\ Named /\ job.ids \subseteq Ids
  BY NextKnown, JobIs DEF CInv, IInv, Contented
<1>2. CASE NoneDone
  BY <1>2 DEF NoneDone
<1>3. CASE (Record \/ Finish) /\ JobsDone
  <2>1. SUFFICES ASSUME row[i].st # "done"
                 PROVE  InPlace /\ file'[row[i].rom] = FileState(row[i].rom)
    BY <1>3 DEF JobsDone
  <2>2. /\ i \in job.ids /\ i \in Ids
        /\ Verified(i) \/ (Record /\ row[i].rom \in job.landed)
        /\ Record => job.moves = {}
    BY <1>3, <2>1 DEF JobsDone, NoneDone
  <2>3. row[i].rom \in Roms /\ Roms \subseteq AllRoms /\ (kind # "disc" => Roms = {1})
    BY <1>1, <2>2, RomsAre DEF Named
  <2>4. Verified(i) => file[row[i].rom] = FileState(row[i].rom) /\ lib[row[i].rom] = Right
    BY <2>3 DEF Verified, CInv, Contented, VerifiedIsRight
  <2>5. CASE Record
    <3>1. InPlace
      BY <2>2, <2>5 DEF Record, Ending
    <3>2. file'[row[i].rom] = IF row[i].rom \in job.landed THEN FileState(row[i].rom)
                                                         ELSE file[row[i].rom]
      BY <2>3, <2>5 DEF Record
    <3> QED BY <2>2, <2>4, <3>1, <3>2
  <2>6. CASE Finish
    <3>1. job.at = "finish" /\ file' = file /\ ~Record
      BY <2>6 DEF Finish, Record
    <3>2. Verified(i)
      BY <2>2, <3>1
    <3>3. InPlace
      BY <2>3, <2>4, <3>1, <3>2 DEF Ending, InPlace
    <3> QED BY <2>4, <3>1, <3>2, <3>3
  <2> QED BY <1>3, <2>5, <2>6
<1> QED BY <1>1, <1>2, <1>3 DEF Knows

LEMMA InitDone == NoCutRewrite /\ Init => DInv
<1> SUFFICES ASSUME NoCutRewrite, Init PROVE DInv
  OBVIOUS
<1>1. row = <<>> /\ job.at = "idle"
  BY DEF Init, Idle
<1>2. In({"done"}) = {}
  BY <1>1 DEF In, Ids
<1> QED BY <1>1, <1>2, InitContents DEF DInv, Ending, DoneHere, DoneIsPlaced

LEMMA NextDone == DInv /\ [Next]_vars => DInv'
<1> SUFFICES ASSUME DInv, [Next]_vars PROVE DInv'
  OBVIOUS
<1>1. CInv' /\ Ending' /\ CInv
  BY NextContents, EndingStays DEF DInv
<1>2. Fixed
  BY NextFixed DEF DInv, CInv, IInv, Contented
<1>3. Roms' = Roms /\ Right' = Right /\ kind' = kind /\ dumps' = dumps
  BY <1>2 DEF Fixed, Roms, Right
<1>4. \A i \in In({"done"})' :
         /\ i \in Ids /\ row'[i].rom = row[i].rom /\ row[i].rom \in Roms /\ InPlace
         /\ i \in In({"done"}) \/ file'[row[i].rom] = FileState(row[i].rom)
  <2> SUFFICES ASSUME NEW i \in In({"done"})'
               PROVE  /\ i \in Ids /\ row'[i].rom = row[i].rom /\ row[i].rom \in Roms /\ InPlace
                      /\ i \in In({"done"}) \/ file'[row[i].rom] = FileState(row[i].rom)
    OBVIOUS
  <2>1. i \in Ids' /\ row'[i].st = "done"
    BY DEF In
  <2>2. /\ i \in Ids
        /\ row[i].st = "done" \/ (InPlace /\ file'[row[i].rom] = FileState(row[i].rom))
    BY <2>1, BecomeDone DEF DInv
  <2>3. row[i].st = "done" => i \in In({"done"}) /\ InPlace
    BY <2>2 DEF In, DInv, DoneHere
  <2> QED BY <1>2, <2>2, <2>3 DEF Fixed, DInv, CInv, Contented, Named
<1>5. DoneHere'
  BY <1>1, <1>4, InPlaceStays DEF DoneHere
<1>6. DoneIsPlaced'
  <2> SUFFICES ASSUME NEW i \in In({"done"})'
               PROVE  /\ lib'[row[i].rom] = Right
                      /\ \/ retired' \/ file'[row[i].rom] = FileState(row[i].rom)
                         \/ kind = "disc" /\ dumps # {} /\ file'[row[i].rom] = "unverified"
    BY <1>3, <1>4 DEF DoneIsPlaced, FileState
  <2>1. lib'[row[i].rom] = Right
    BY <1>1, <1>3, <1>4, InPlaceStays DEF InPlace
  <2>2. ASSUME ~retired', i \in In({"done"})
        PROVE  \/ file'[row[i].rom] = FileState(row[i].rom)
               \/ kind = "disc" /\ dumps # {} /\ file'[row[i].rom] = "unverified"
    <3>1. ~retired
      BY <1>2, <2>2 DEF Fixed
    <3>2. \/ file[row[i].rom] = FileState(row[i].rom)
          \/ kind = "disc" /\ dumps # {} /\ file[row[i].rom] = "unverified"
      BY <2>2, <3>1 DEF DInv, DoneIsPlaced
    <3> QED BY <1>1, <1>4, <2>2, <3>2, RecordedStays
  <2> QED BY <1>4, <2>1, <2>2
<1> QED BY <1>1, <1>5, <1>6 DEF DInv

\* Whatever the order of placing, recording, failing and crashing, and whoever retries,
\* wants, scans or cancels in between: a download that is done has its rom in games/, and
\* recorded for what it is, where no kill cuts a rewriting plan.
THEOREM DoneAlwaysPlaced == NoCutRewrite => (Spec => []DoneIsPlaced)
<1>1. DInv => DoneIsPlaced
  BY DEF DInv
<1> QED BY <1>1, InitDone, NextDone, PTL DEF Spec

-----------------------------------------------------------------------------
(* The last good copy, and discs *)

\* A good copy goes only when a better place holds one: to quarantine goes no file of the
\* entry, a rename carries it, and the originals are discarded when all is in place.
LEMMA KeptStep ==
    ASSUME CInv, [Next]_vars, ~retired', NEW r \in Roms, Kept(r)
    PROVE  Kept(r)'
<1>1. Fixed
  BY NextFixed DEF CInv, IInv, Contented
<1>2. Roms' = Roms /\ Right' = Right /\ ~retired /\ Roms \subseteq AllRoms
  BY <1>1, RomsAre DEF Fixed, Roms, Right, CInv, IInv
<1>3. staged \in [AllRoms -> Contents] /\ lib \in [AllRoms -> Contents]
  BY DEF CInv, IInv, Typed, TypeOK
<1>4. CASE lib' = lib /\ staged' = staged
  BY <1>2, <1>4 DEF Kept
<1>5. CASE UNCHANGED vars \/ Watch \/ Lag \/ Want \/ DropDat \/ Scan \/ Crash
  <2>1. lib' = lib /\ staged' = staged
    BY <1>5 DEF vars, Watch, Hear, Submit, Lag, Want, DropDat, Scan, Crash, disk
  <2> QED BY <1>4, <2>1
<1>6. ASSUME NEW i \in Ids, Cancel(i) \/ Retry(i) \/ Start(i) \/ FailTransfer(i)
      PROVE  Kept(r)'
  <2>1. lib' = lib /\ staged' = staged
    BY <1>6 DEF Cancel, Retry, Start, FailTransfer, disk
  <2> QED BY <1>4, <2>1
<1>7. ASSUME NEW i \in Ids, Deliver(i) PROVE Kept(r)'
  <2>1. lib' = lib
    BY <1>7 DEF Deliver
  <2>2. staged'[r] \in {staged[r], torrent[r]}
    BY <1>2, <1>3, <1>7 DEF Deliver
  <2>3. staged[r] = "raw" => torrent[r] = "raw"
    BY <1>2 DEF CInv, Contented, Sourced
  <2> QED BY <1>2, <2>1, <2>2, <2>3 DEF Kept
<1>8. CASE Worker
  <2>1. CASE \/ Take \/ OpenRow \/ Survey \/ SkipPlaced \/ Hash \/ HashError \/ RecordBad
             \/ Nothing \/ Plan \/ MoveFails \/ Landed \/ Record \/ Finish \/ Fail \/ End \/ Err
    <3>1. lib' = lib /\ staged' = staged
      BY <2>1 DEF Take, OpenRow, Survey, SkipPlaced, Hash, HashError, RecordBad, Nothing, Plan,
                  MoveFails, Landed, Record, Finish, Fail, End, Err, disk
    <3> QED BY <1>4, <3>1
  <2>2. CASE Prepare \/ Rollback
    <3>1. lib' = lib /\ staged' = staged
      BY <2>2 DEF Prepare, Rollback
    <3> QED BY <1>4, <3>1
  <2>3. CASE Quarantine
    <3>1. PICK i \in job.left :
             /\ Turn(i) /\ (row[i].rom \notin job.roms \/ staged[row[i].rom] # "raw")
             /\ staged' \in {staged, [staged EXCEPT ![row[i].rom] = "none"]}
      BY <2>3 DEF Quarantine
    <3>2. lib' = lib
      BY <2>3 DEF Quarantine
    <3>3. job.roms = Roms
      BY <1>2, <3>1 DEF Turn, CInv, Contented, Reading
    <3>4. staged[r] = "raw" => staged'[r] = "raw"
      BY <1>2, <1>3, <3>1, <3>3
    <3> QED BY <1>2, <3>2, <3>4 DEF Kept
  <2>4. ASSUME NEW q \in AllRoms, Move(q) PROVE Kept(r)'
    <3>1. lib' = [lib EXCEPT ![q] = Read(q)] /\ Read(q) = Right
      BY <2>4, MoveBrings DEF Move
    <3>2. q # r => staged'[r] = staged[r]
      BY <1>2, <1>3, <2>4 DEF Move
    <3> QED BY <1>2, <1>3, <3>1, <3>2 DEF Kept
  <2>5. CASE Discard
    <3>1. lib' = lib /\ (r \notin job.found => staged'[r] = staged[r])
      BY <1>2, <1>3, <2>5 DEF Discard
    <3>2. r \in job.found => lib[r] = Right
      BY <2>5 DEF Discard, CInv, Contented, Clearing
    <3> QED BY <1>2, <3>1, <3>2 DEF Kept
  <2> QED BY <1>8, <2>1, <2>2, <2>3, <2>4, <2>5 DEF Worker
<1> QED BY <1>5, <1>6, <1>7, <1>8 DEF Next

\* While the entry's DAT version is there, a rom that has a good copy, staged or in games/,
\* keeps one through every rollback, discard, replacement, kill and act of the user.
THEOREM GoodAlwaysStays == NoCutRewrite => (Spec => GoodStays)
<1>1. CInv /\ [Next]_vars => [~retired' => \A r \in Roms : Kept(r) => Kept(r)']_vars
  BY KeptStep
<1> QED BY <1>1, InitContents, NextContents, PTL DEF Spec, GoodStays

\* No track of a disc lands while another is neither staged nor in place.
THEOREM DiscAlwaysTogether == NoCutRewrite => (Spec => DiscTogether)
<1>1. CInv /\ [Next]_vars => [kind = "disc" /\ lib' # lib => \A r \in Roms : Kept(r)]_vars
  <2> SUFFICES ASSUME CInv, Next, lib' # lib PROVE \A r \in Roms : Kept(r)
    OBVIOUS
  <2>1. ~(Watch \/ Lag \/ Want \/ DropDat \/ Scan \/ Crash)
    BY DEF Watch, Hear, Submit, Lag, Want, DropDat, Scan, Crash, disk
  <2>2. ~\E i \in Ids : Cancel(i) \/ Retry(i) \/ Start(i) \/ Deliver(i) \/ FailTransfer(i)
    BY DEF Cancel, Retry, Start, Deliver, FailTransfer, disk
  <2>3. ~(\/ Take \/ OpenRow \/ Survey \/ SkipPlaced \/ Hash \/ HashError \/ RecordBad \/ Nothing
          \/ Plan \/ MoveFails \/ Landed \/ Record \/ Finish \/ Fail \/ End \/ Err)
    BY DEF Take, OpenRow, Survey, SkipPlaced, Hash, HashError, RecordBad, Nothing, Plan,
           MoveFails, Landed, Record, Finish, Fail, End, Err, disk
  <2>4. ~(Prepare \/ Rollback \/ Quarantine \/ Discard)
    BY DEF Prepare, Rollback, Quarantine, Discard
  <2>5. \E q \in AllRoms : Move(q)
    BY <2>1, <2>2, <2>3, <2>4 DEF Next, Worker
  <2>6. job.at = "move"
    BY <2>5 DEF Move
  <2> QED BY <2>6 DEF CInv, Contented, Placing
<1> QED BY <1>1, InitContents, NextContents, PTL DEF Spec, DiscTogether

=============================================================================
