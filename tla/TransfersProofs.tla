---------------------------- MODULE TransfersProofs ----------------------------
(***************************************************************************)
(* What is proved of Transfers for every set of roms and files and every   *)
(* bound on rows and faults: type correctness, that a rom never has two    *)
(* open downloads (OneOpenRow), that an ended download stays ended but     *)
(* for a failed one that is retried (EndedStays), and that what was        *)
(* started stays selected until the gate replays (StartedIsSelected).      *)
(*                                                                         *)
(* The second and third follow from what a step may do to the table        *)
(* (RowStep): a row keeps its rom, its state moves along the edges of the  *)
(* state machine, and one that becomes open is the only open one of its    *)
(* rom.  The last one needs what the tasks have in hand (EInv): the light  *)
(* lane's selection covers what runs and what its pass will start, and the *)
(* poller's rows were not started anew since it read them.                 *)
(***************************************************************************)
EXTENDS Transfers, SequenceTheorems, TLAPS

RowType == [rom : Roms, st : States]

\* What a step may do to the table of downloads.
RowStep ==
    /\ row' \in Seq(RowType) /\ Len(row') <= MaxRows /\ Ids \subseteq Ids'
    /\ \A i \in Ids : /\ row'[i].rom = row[i].rom
                      /\ row'[i].st # row[i].st => CanBecome(row[i].st, row'[i].st)
    /\ \A j \in Ids' :
          /\ row'[j].st \in Open
          /\ j \in Ids => row[j].st \notin Open
          => \A i \in Ids' : row'[i].st \in Open /\ row'[i].rom = row'[j].rom => i = j

IInv == TypeOK /\ OneOpenRow

-----------------------------------------------------------------------------
(* The table *)

\* The table is a sequence of rows.
LEMMA RowFacts ==
    ASSUME TypeOK
    PROVE  /\ row \in Seq(RowType) /\ Len(row) \in Nat /\ Len(row) <= MaxRows
           /\ Ids = 1 .. Len(row)
           /\ row \in [Ids -> RowType]
           /\ \A i \in Ids : row[i] \in RowType
<1>1. row \in Seq(RowType) /\ Len(row) <= MaxRows
  BY DEF TypeOK, RowType
<1>2. Len(row) \in Nat /\ DOMAIN row = 1 .. Len(row) /\ row \in [1 .. Len(row) -> RowType]
  BY <1>1
<1> QED
  BY <1>1, <1>2 DEF Ids

\* Without a change of the table there is nothing to show.
LEMMA SameRows ==
    ASSUME TypeOK, UNCHANGED row
    PROVE  RowStep
BY RowFacts DEF RowStep, Ids

\* Rows that move along the edges, none of them to an open state from an ended
\* one, are a step of the table.
LEMMA MovedRows ==
    ASSUME TypeOK,
           NEW new, new \in [Ids -> RowType],
           \A i \in Ids : /\ new[i].rom = row[i].rom
                          /\ new[i].st # row[i].st => CanBecome(row[i].st, new[i].st)
                          /\ new[i].st \in Open => row[i].st \in Open,
           row' = new
    PROVE  RowStep
<1>1. row \in Seq(RowType) /\ Len(row) \in Nat /\ Ids = 1 .. Len(row)
  BY RowFacts
<1>2. new \in Seq(RowType) /\ Len(new) = Len(row)
  BY <1>1
<1>3. Ids' = Ids
  BY <1>1, <1>2 DEF Ids
<1> QED
  BY <1>1, <1>2, <1>3, RowFacts DEF RowStep

\* set_state of some rows.
LEMMA SetState ==
    ASSUME TypeOK, NEW ids \in SUBSET Ids, NEW to \in States,
           \A i \in ids : CanBecome(row[i].st, to) /\ (to \in Open => row[i].st \in Open),
           row' = WithState(ids, to)
    PROVE  RowStep
<1>1. row \in [Ids -> RowType]
  BY RowFacts
<1>2. WithState(ids, to) \in [Ids -> RowType]
  BY <1>1 DEF WithState, RowType
<1>3. \A i \in Ids : /\ WithState(ids, to)[i].rom = row[i].rom
                     /\ WithState(ids, to)[i].st = IF i \in ids THEN to ELSE row[i].st
  BY <1>1 DEF WithState, RowType
<1> QED
  BY <1>2, <1>3, MovedRows

\* A row added for a rom that has no open one.
LEMMA AddedRow ==
    ASSUME NEW old \in Seq(RowType), NEW new \in RowType,
           Ids = DOMAIN old, row \in Seq(RowType),
           Len(old) < MaxRows, MaxRows \in Nat,
           \A i \in Ids : /\ old[i].rom = row[i].rom
                          /\ old[i].st # row[i].st => CanBecome(row[i].st, old[i].st)
                          /\ old[i].st \in Open => row[i].st \in Open,
           \A i \in Ids : old[i].rom = new.rom => old[i].st \notin Open,
           row' = Append(old, new)
    PROVE  RowStep
<1>1. /\ row' \in Seq(RowType) /\ Len(row') = Len(old) + 1
      /\ \A i \in 1 .. Len(old) : row'[i] = old[i]
      /\ row'[Len(old) + 1] = new
  OBVIOUS
<1>2. Ids = 1 .. Len(old) /\ Ids' = 1 .. Len(old) + 1 /\ Len(old) \in Nat
  BY <1>1 DEF Ids
<1> QED
  BY <1>1, <1>2, SMTT(40) DEF RowStep

-----------------------------------------------------------------------------
(* The rest of the state *)

SourceOK == bound \in BOOLEAN /\ seed \in Seeds /\ clientId \in BOOLEAN
KeptOK   == deferred \subseteq Kept /\ todo \subseteq Kept /\ served \subseteq Kept
LightOK  == light \in Seq({"transfer", "deselect"}) /\ IsInjective(light)
HandsOK  == sel \in [Tasks -> SUBSET Files] /\ picked \in [Tasks -> SUBSET Ids]
ClientOK ==
    /\ torrent \in [there : BOOLEAN, sel : SUBSET Files, run : BOOLEAN]
    /\ data \in [Files -> {"part", "full", "ok"}]
    /\ here \in BOOLEAN

RestOK == SourceOK /\ KeptOK /\ LightOK /\ HandsOK /\ ClientOK

\* The types are those of the table and of the rest.
LEMMA Parts ==
    TypeOK <=> row \in Seq(RowType) /\ Len(row) <= MaxRows /\ RestOK
BY DEF TypeOK, RestOK, SourceOK, KeptOK, LightOK, HandsOK, ClientOK, RowType

\* A step of the table keeps the ids a task has read.
LEMMA KeptHands ==
    ASSUME HandsOK, RowStep, UNCHANGED <<sel, picked>>
    PROVE  HandsOK'
BY DEF HandsOK, RowStep

\* A task that goes on, or ends, keeps or drops what it has read.
LEMMA GoOn ==
    ASSUME HandsOK, RowStep, NEW p, NEW step, Go(p, step)
    PROVE  HandsOK'
BY KeptHands DEF Go

LEMMA EndTask ==
    ASSUME HandsOK, RowStep, NEW p \in Tasks, Ends(p)
    PROVE  HandsOK'
BY DEF HandsOK, RowStep, Ends

\* Kept work that was served or that is kept for later.
LEMMA ServeKept ==
    ASSUME HandsOK, KeptOK, RowStep, NEW p \in Tasks, NEW op \in Kept,
           Served(p, op) \/ Refused(p, op)
    PROVE  HandsOK' /\ KeptOK'
<1>1. HandsOK'
  BY EndTask DEF Served, Refused
<1>2. KeptOK'
  BY DEF KeptOK, Served, Refused, replay
<1> QED
  BY <1>1, <1>2

\* A job is queued once.
LEMMA SubmitJob ==
    ASSUME LightOK, NEW job \in {"transfer", "deselect"}, Submit(job)
    PROVE  LightOK'
<1>1. CASE job \in Range(light)
  BY <1>1 DEF LightOK, Submit
<1>2. CASE job \notin Range(light)
  <2>1. light' = Append(light, job)
    BY <1>2 DEF Submit
  <2>2. \A i \in 1 .. Len(light) : light[i] # job
    BY <1>2 DEF Range, LightOK
  <2>3. /\ light' \in Seq({"transfer", "deselect"}) /\ Len(light') = Len(light) + 1
        /\ \A i \in 1 .. Len(light) : light'[i] = light[i]
        /\ light'[Len(light) + 1] = job /\ Len(light) \in Nat
    BY <2>1 DEF LightOK
  <2>4. \A i, k \in 1 .. Len(light) : light[i] = light[k] => i = k
    BY DEF LightOK, IsInjective
  <2>5. \A i, k \in 1 .. Len(light') : light'[i] = light'[k] => i = k
    BY <2>2, <2>3, <2>4
  <2> QED
    BY <2>3, <2>5 DEF LightOK, IsInjective
<1> QED
  BY <1>1, <1>2

LEMMA TakeJob ==
    ASSUME LightOK, light # <<>>, light' = Tail(light)
    PROVE  LightOK'
<1>1. /\ light' \in Seq({"transfer", "deselect"}) /\ Len(light') = Len(light) - 1
      /\ Len(light) \in Nat
      /\ \A i \in 1 .. Len(light') : light'[i] = light[i + 1]
  BY DEF LightOK
<1>2. \A i, k \in 1 .. Len(light) : light[i] = light[k] => i = k
  BY DEF LightOK, IsInjective
<1>3. \A i, k \in 1 .. Len(light') : light'[i] = light'[k] => i = k
  BY <1>1, <1>2
<1> QED
  BY <1>1, <1>3 DEF LightOK, IsInjective

\* A call, taken or failed, leaves a torrent.
LEMMA Torrents ==
    ASSUME ClientOK
    PROVE  /\ Absent \in [there : BOOLEAN, sel : SUBSET Files, run : BOOLEAN]
           /\ \A yes \in BOOLEAN :
                Running(yes) \in [there : BOOLEAN, sel : SUBSET Files, run : BOOLEAN]
           /\ \A S \in SUBSET Files :
                /\ WithSel(S) \in [there : BOOLEAN, sel : SUBSET Files, run : BOOLEAN]
                /\ Loaded(S) \in [there : BOOLEAN, sel : SUBSET Files, run : BOOLEAN]
BY DEF ClientOK, Absent, Running, WithSel, Loaded

LEMMA Calls ==
    ASSUME ClientOK, NEW result \in [there : BOOLEAN, sel : SUBSET Files, run : BOOLEAN],
           Call(result) \/ Fault(result)
    PROVE  ClientOK'
BY DEF ClientOK, Call, Fault, world

\* The files of some rows are files of the source.
LEMMA SomeFiles ==
    ASSUME TypeOK, NEW ids \in SUBSET Ids
    PROVE  FilesOf(ids) \subseteq Files
BY RowFacts DEF FilesOf, Files, RowType

-----------------------------------------------------------------------------
(* Steps that end rows, and requests *)

Ended == {"failed", "done", "bad", "cancelled"}

\* move_all to an ended state is a step of the table.
LEMMA EndRows ==
    ASSUME TypeOK, NEW ids \in SUBSET Ids, NEW to \in Ended, MoveAll(ids, to)
    PROVE  RowStep
<1>1. Movable(ids, to) \in SUBSET Ids /\ \A i \in Movable(ids, to) : CanBecome(row[i].st, to)
  BY DEF Movable
<1>2. to \in States /\ to \notin Open
  BY DEF Ended, States, Open
<1>3. row' = WithState(Movable(ids, to), to)
  BY DEF MoveAll
<1> QED
  BY <1>1, <1>2, <1>3, SetState

LEMMA WantStep ==
    ASSUME TypeOK, NEW r \in Roms, Want(r)
    PROVE  RowStep /\ RestOK'
<1>1. RowStep
  <2>1. CASE UNCHANGED row
    BY <2>1, SameRows
  <2>2. CASE MayWant(r) /\ Len(row) < MaxRows /\ row' = Append(row, NewRow(r))
    <3>1. NewRow(r) \in RowType /\ NewRow(r).rom = r
      BY DEF NewRow, RowType, States, Open
    <3>2. \A i \in Ids : row[i].rom = r => row[i].st \notin Open
      BY <2>2 DEF MayWant, Busy, In
    <3> QED
      BY <2>2, <3>1, <3>2, RowFacts, RowsAssumption, AddedRow DEF Ids
  <2> QED
    BY <2>1, <2>2 DEF Want
<1>2. LightOK'
  BY Parts, SubmitJob DEF Want, RestOK
<1> QED
  BY <1>1, <1>2, Parts, KeptHands
     DEF Want, RestOK, SourceOK, KeptOK, ClientOK, tasks, replay, client, world

LEMMA CancelJob ==
    ASSUME LightOK, NEW ids, AfterCancel(ids)
    PROVE  LightOK'
BY SubmitJob DEF AfterCancel, LightOK

LEMMA CancelStep ==
    ASSUME TypeOK, NEW i \in Ids, Cancel(i)
    PROVE  RowStep /\ RestOK'
<1>1. RowStep
  BY EndRows DEF Cancel, Ended
<1>2. LightOK'
  BY Parts, CancelJob DEF Cancel, RestOK
<1> QED
  BY <1>1, <1>2, Parts, KeptHands
     DEF Cancel, RestOK, SourceOK, KeptOK, ClientOK, tasks, replay, client, world

LEMMA UnwantStep ==
    ASSUME TypeOK, NEW r \in Roms, Unwant(r)
    PROVE  RowStep /\ RestOK'
<1> DEFINE ids == {i \in In(Cancellable) : row[i].rom = r}
<1>1. ids \in SUBSET Ids /\ \A i \in ids : CanBecome(row[i].st, "cancelled")
  BY DEF In, Cancellable, CanBecome, Edges
<1>2. row' = WithState(ids, "cancelled") /\ "cancelled" \in States /\ "cancelled" \notin Open
  BY DEF Unwant, States, Open
<1>3. RowStep
  BY <1>1, <1>2, SetState
<1>4. LightOK'
  BY Parts, CancelJob DEF Unwant, RestOK
<1> QED
  BY <1>3, <1>4, Parts, KeptHands
     DEF Unwant, RestOK, SourceOK, KeptOK, ClientOK, tasks, replay, client, world

\* A retried row opens while its rom has no open one.
LEMMA RetryStep ==
    ASSUME TypeOK, NEW i \in Ids, Retry(i)
    PROVE  RowStep /\ RestOK'
<1>1. RowStep
  <2>1. row[i].st = "failed" /\ \A k \in Ids : row[k].rom = row[i].rom => row[k].st \notin Open
    BY DEF Retry, MayRetry, Busy, In
  <2>2. row' = WithState({i}, "queued")
    <3>1. Movable({i}, "queued") = {i}
      BY <2>1 DEF Movable, CanBecome, Edges
    <3> QED
      BY <3>1 DEF Retry, MoveAll
  <2>3. /\ row' \in [Ids -> RowType]
        /\ \A k \in Ids : /\ row'[k].rom = row[k].rom
                           /\ row'[k].st = IF k = i THEN "queued" ELSE row[k].st
    BY <2>2, RowFacts DEF WithState, RowType, States, Open
  <2>4. row' \in Seq(RowType) /\ Len(row') = Len(row) /\ Ids' = Ids
    BY <2>3, RowFacts DEF Ids
  <2>5. CanBecome(row[i].st, "queued")
    BY <2>1 DEF CanBecome, Edges
  <2> QED
    BY <2>1, <2>3, <2>4, <2>5, RowFacts DEF RowStep
<1>2. LightOK'
  BY Parts, SubmitJob DEF Retry, RestOK
<1> QED
  BY <1>1, <1>2, Parts, KeptHands
     DEF Retry, RestOK, SourceOK, KeptOK, ClientOK, tasks, replay, client, world

LEMMA BindStep ==
    ASSUME TypeOK, Bind
    PROVE  RowStep /\ RestOK'
<1>1. RowStep
  BY SameRows DEF Bind
<1>2. LightOK'
  BY Parts, SubmitJob DEF Bind, RestOK
<1> QED
  BY <1>1, <1>2, Parts, KeptHands
     DEF Bind, RestOK, SourceOK, KeptOK, ClientOK, tasks, replay, client, world

-----------------------------------------------------------------------------
(* The light lane *)

LEMMA PromoteStep ==
    ASSUME TypeOK, Promote
    PROVE  RowStep /\ RestOK'
<1> DEFINE ids == {i \in In({"wanted"}) : HasFile(row[i].rom)}
<1>1. /\ ids \in SUBSET Ids
      /\ \A i \in ids : CanBecome(row[i].st, "queued") /\ row[i].st \in Open
  BY DEF In, CanBecome, Edges, Open
<1>2. row' = WithState(ids, "queued") /\ "queued" \in States
  BY DEF Promote, States, Open
<1>3. RowStep
  BY <1>1, <1>2, SetState
<1>4. LightOK'
  BY Parts, TakeJob DEF Promote, RestOK
<1>5. HandsOK'
  BY <1>3, Parts, GoOn, KeptHands DEF Promote, RestOK, tasks
<1> QED
  BY <1>3, <1>4, <1>5, Parts
     DEF Promote, RestOK, SourceOK, KeptOK, ClientOK, replay, client, world

LEMMA ReadSourceStep ==
    ASSUME TypeOK, ReadSource
    PROVE  RowStep /\ RestOK'
<1>1. RowStep
  BY SameRows DEF ReadSource, db
<1>2. SelectedFiles \subseteq Files /\ In({"queued"}) \subseteq Ids
  BY SomeFiles DEF SelectedFiles, In
<1>3. HandsOK'
  <2>1. CASE Ends("light")
    BY <1>1, <2>1, Parts, EndTask DEF RestOK, Tasks
  <2>2. CASE /\ sel' = [sel EXCEPT !["light"] = SelectedFiles]
             /\ picked' = [picked EXCEPT !["light"] = In({"queued"})]
    BY <1>1, <1>2, <2>2, Parts DEF RestOK, HandsOK, RowStep
  <2> QED
    BY <2>1, <2>2 DEF ReadSource
<1> QED
  BY <1>1, <1>3, Parts
     DEF ReadSource, RestOK, SourceOK, KeptOK, LightOK, ClientOK, db, replay, client, world

\* Steps that call the client and go on.
LEMMA SelectStep ==
    ASSUME TypeOK, Select
    PROVE  RowStep /\ RestOK'
<1>1. RowStep
  BY SameRows DEF Select
<1>2. ClientOK'
  BY Parts, Torrents, Calls DEF Select, RestOK, HandsOK, Tasks
<1>3. HandsOK'
  BY <1>1, Parts, GoOn DEF Select, RestOK
<1> QED
  BY <1>1, <1>2, <1>3, Parts DEF Select, RestOK, SourceOK, KeptOK, LightOK, replay

LEMMA AddStep ==
    ASSUME TypeOK, Add
    PROVE  RowStep /\ RestOK'
<1>1. RowStep
  BY SameRows DEF Add, db
<1>2. ClientOK'
  BY Parts, Torrents, Calls DEF Add, RestOK, HandsOK, Tasks
<1>3. HandsOK'
  BY <1>1, Parts, GoOn DEF Add, RestOK
<1> QED
  BY <1>1, <1>2, <1>3, Parts DEF Add, RestOK, SourceOK, KeptOK, LightOK, db, replay

LEMMA RecordStep ==
    ASSUME TypeOK, Record
    PROVE  RowStep /\ RestOK'
<1>1. RowStep
  BY SameRows DEF Record
<1>2. HandsOK'
  BY <1>1, Parts, GoOn DEF Record, RestOK
<1> QED
  BY <1>1, <1>2, Parts
     DEF Record, RestOK, SourceOK, KeptOK, LightOK, ClientOK, replay, client, world

\* A call that failed ends the pass, and may fail the rows it was for.
LEMMA NotTakenStep ==
    ASSUME TypeOK, NotTaken
    PROVE  RowStep /\ RestOK'
<1>1. RowStep
  <2>1. picked["light"] \in SUBSET Ids
    BY Parts DEF RestOK, HandsOK, Tasks
  <2>2. UNCHANGED row \/ MoveAll(picked["light"], "failed")
    BY DEF NotTaken, Unanswered
  <2> QED
    BY <2>1, <2>2, SameRows, EndRows DEF Ended
<1>2. ClientOK'
  BY Parts, Torrents, Calls DEF NotTaken, RestOK, HandsOK, Tasks
<1>3. HandsOK'
  BY <1>1, Parts, EndTask DEF NotTaken, RestOK, Tasks
<1> QED
  BY <1>1, <1>2, <1>3, Parts DEF NotTaken, RestOK, SourceOK, KeptOK, LightOK, replay

LEMMA StartTorrentStep ==
    ASSUME TypeOK, StartTorrent
    PROVE  RowStep /\ RestOK'
<1>1. RowStep
  BY SameRows DEF StartTorrent, db
<1>2. ClientOK'
  BY Parts, Torrents, Calls DEF StartTorrent, RestOK
<1>3. HandsOK'
  BY <1>1, Parts, GoOn, EndTask DEF StartTorrent, RestOK, Tasks
<1> QED
  BY <1>1, <1>2, <1>3, Parts
     DEF StartTorrent, RestOK, SourceOK, KeptOK, LightOK, db, replay

\* A row a pass has read starts only if it is still queued.
LEMMA MoveStartedStep ==
    ASSUME TypeOK, MoveStarted
    PROVE  RowStep /\ RestOK'
<1>1. RowStep
  <2>1. StartedRows \in SUBSET Ids
    BY Parts DEF RestOK, HandsOK, Tasks, StartedRows, Movable
  <2>2. \A i \in StartedRows : CanBecome(row[i].st, "transferring") /\ row[i].st \in Open
    BY DEF StartedRows, Movable, CanBecome, Edges, Open
  <2>3. row' = WithState(StartedRows, "transferring") /\ "transferring" \in States
    BY DEF MoveStarted, States, Open
  <2> QED
    BY <2>1, <2>2, <2>3, SetState
<1>2. LightOK'
  BY Parts, SubmitJob DEF MoveStarted, RestOK, LightOK
<1>3. HandsOK'
  BY <1>1, Parts, EndTask DEF MoveStarted, RestOK, Tasks
<1> QED
  BY <1>1, <1>2, <1>3, Parts
     DEF MoveStarted, RestOK, SourceOK, KeptOK, ClientOK, replay, client, world

LEMMA TakeDeselectStep ==
    ASSUME TypeOK, TakeDeselect
    PROVE  RowStep /\ RestOK'
<1>1. RowStep
  BY SameRows DEF TakeDeselect, db
<1>2. LightOK'
  BY Parts, TakeJob DEF TakeDeselect, RestOK
<1>3. HandsOK'
  BY <1>1, Parts, GoOn DEF TakeDeselect, RestOK
<1> QED
  BY <1>1, <1>2, <1>3, Parts
     DEF TakeDeselect, RestOK, SourceOK, KeptOK, ClientOK, db, replay, client, world

-----------------------------------------------------------------------------
(* Deselect and release, run by a lane and by the gate *)

LEMMA ReadSelectionStep ==
    ASSUME TypeOK, NEW p \in Tasks, ReadSelection(p)
    PROVE  RowStep /\ RestOK'
<1>1. RowStep
  BY SameRows DEF ReadSelection, db
<1>2. HandsOK' /\ KeptOK'
  <2>1. CASE Served(p, "deselect") \/ Refused(p, "deselect")
    BY <1>1, <2>1, Parts, ServeKept DEF RestOK, Kept
  <2>2. CASE /\ sel' = [sel EXCEPT ![p] = SelectedFiles]
             /\ UNCHANGED <<picked, snap, deferred, replay>>
    <3>1. SelectedFiles \subseteq Files
      BY SomeFiles DEF SelectedFiles, In
    <3> QED
      BY <1>1, <2>2, <3>1, Parts DEF RestOK, HandsOK, RowStep, KeptOK, replay
  <2> QED
    BY <2>1, <2>2 DEF ReadSelection
<1> QED
  BY <1>1, <1>2, Parts
     DEF ReadSelection, RestOK, SourceOK, LightOK, ClientOK, db, client, world

\* A call after which kept work is over, or goes on.
LEMMA KeptCallStep ==
    ASSUME TypeOK, NEW p \in Tasks, NEW op \in Kept, NEW step,
           NEW result \in [there : BOOLEAN, sel : SUBSET Files, run : BOOLEAN],
           Call(result) \/ Fault(result),
           \/ Go(p, step) /\ UNCHANGED <<deferred, replay>>
           \/ Served(p, op) \/ Refused(p, op),
           UNCHANGED <<db, light>>
    PROVE  RowStep /\ RestOK'
<1>1. RowStep
  BY SameRows DEF db
<1>2. ClientOK'
  BY Parts, Calls DEF RestOK
<1>3. HandsOK' /\ KeptOK'
  BY <1>1, Parts, GoOn, ServeKept DEF RestOK, KeptOK, replay
<1> QED
  BY <1>1, <1>2, <1>3, Parts DEF RestOK, SourceOK, LightOK, db

LEMMA StopEmptyStep ==
    ASSUME TypeOK, NEW p \in Tasks, StopEmpty(p)
    PROVE  RowStep /\ RestOK'
<1>1. Running(FALSE) \in [there : BOOLEAN, sel : SUBSET Files, run : BOOLEAN]
  BY Parts, Torrents DEF RestOK
<1> QED
  BY <1>1, KeptCallStep DEF StopEmpty, Kept

LEMMA SetSelectionStep ==
    ASSUME TypeOK, NEW p \in Tasks, SetSelection(p)
    PROVE  RowStep /\ RestOK'
<1>1. WithSel(sel[p]) \in [there : BOOLEAN, sel : SUBSET Files, run : BOOLEAN]
  BY Parts, Torrents DEF RestOK, HandsOK
<1> QED
  BY <1>1, KeptCallStep DEF SetSelection, Kept

LEMMA ReadReleaseStep ==
    ASSUME TypeOK, NEW p \in Tasks, ReadRelease(p)
    PROVE  RowStep /\ RestOK'
<1>1. RowStep
  BY SameRows DEF ReadRelease, db
<1>2. HandsOK' /\ KeptOK'
  BY <1>1, Parts, GoOn, ServeKept DEF ReadRelease, RestOK, KeptOK, Kept, replay
<1> QED
  BY <1>1, <1>2, Parts DEF ReadRelease, RestOK, SourceOK, LightOK, ClientOK, db, client, world

LEMMA RemoveTorrentStep ==
    ASSUME TypeOK, NEW p \in Tasks, RemoveTorrent(p)
    PROVE  RowStep /\ RestOK'
<1>1. Absent \in [there : BOOLEAN, sel : SUBSET Files, run : BOOLEAN]
  BY Parts, Torrents DEF RestOK
<1> QED
  BY <1>1, KeptCallStep DEF RemoveTorrent, Kept

LEMMA ForgetStep ==
    ASSUME TypeOK, NEW p \in Tasks, Forget(p)
    PROVE  RowStep /\ RestOK'
<1>1. RowStep
  BY SameRows DEF Forget
<1>2. HandsOK' /\ KeptOK'
  BY <1>1, Parts, ServeKept DEF Forget, RestOK, Kept
<1> QED
  BY <1>1, <1>2, Parts DEF Forget, RestOK, SourceOK, LightOK, ClientOK, client, world

\* An import ends its row; a mismatch may open the rom again, if nothing of it is open.
LEMMA ImportStep ==
    ASSUME TypeOK, NEW i \in Ids, Import(i)
    PROVE  RowStep /\ RestOK'
<1>1. RowStep
  <2>1. CASE \E to \in {"done", "failed", "bad"} : MoveAll({i}, to)
    BY <2>1, EndRows DEF Ended
  <2>2. CASE row' = WantAgain(WithState({i}, "bad"), row[i].rom)
    <3> DEFINE old == WithState({i}, "bad")
               new == [rom |-> row[i].rom, st |-> "wanted"]
    <3>1. /\ old \in [Ids -> RowType]
          /\ \A k \in Ids : /\ old[k].rom = row[k].rom
                             /\ old[k].st = IF k = i THEN "bad" ELSE row[k].st
      BY RowFacts DEF WithState, RowType, States
    <3>2. CanBecome(row[i].st, "bad") /\ "bad" \notin Open
      BY DEF Import, CanBecome, Edges, Open
    <3>3. \A k \in Ids : /\ old[k].st # row[k].st => CanBecome(row[k].st, old[k].st)
                         /\ old[k].st \in Open => row[k].st \in Open
      BY <3>1, <3>2
    <3>4. CASE row' = old
      <4> HIDE DEF old
      <4> QED
        BY <3>1, <3>3, <3>4, MovedRows
    <3>5. CASE /\ row' = Append(old, new) /\ Len(old) < MaxRows
               /\ \A k \in DOMAIN old : old[k].rom = row[i].rom => old[k].st \notin Open
      <4>1. new \in RowType
        BY RowFacts DEF RowType, States, Open
      <4>2. old \in Seq(RowType) /\ DOMAIN old = Ids
        <5> HIDE DEF old
        <5> QED
          BY <3>1, RowFacts
      <4> HIDE DEF old
      <4> QED
        BY <3>1, <3>3, <3>5, <4>1, <4>2, RowFacts, RowsAssumption, AddedRow, ZenonT(60)
    <3> QED
      BY <2>2, <3>4, <3>5 DEF WantAgain
  <2> QED
    BY <2>1, <2>2 DEF Import
<1>2. HandsOK'
  BY <1>1, Parts, GoOn DEF Import, RestOK
<1> QED
  BY <1>1, <1>2, Parts
     DEF Import, RestOK, SourceOK, KeptOK, LightOK, ClientOK, replay, client, world

-----------------------------------------------------------------------------
(* The poller *)

LEMMA PollWakeStep ==
    ASSUME TypeOK, PollWake
    PROVE  RowStep /\ RestOK'
<1>1. RowStep
  BY SameRows DEF PollWake, db
<1>2. LightOK'
  BY Parts, SubmitJob DEF PollWake, RestOK
<1> QED
  BY <1>1, <1>2, Parts, KeptHands
     DEF PollWake, RestOK, SourceOK, KeptOK, ClientOK, db, tasks, replay, client, world

LEMMA PollReadStep ==
    ASSUME TypeOK, PollRead
    PROVE  RowStep /\ RestOK'
<1>1. RowStep
  BY SameRows DEF PollRead, db
<1>2. HandsOK'
  BY <1>1, Parts DEF PollRead, RestOK, HandsOK, RowStep, In
<1> QED
  BY <1>1, <1>2, Parts
     DEF PollRead, RestOK, SourceOK, KeptOK, LightOK, ClientOK, db, replay, client, world

LEMMA PollStatusStep ==
    ASSUME TypeOK, PollStatus
    PROVE  RowStep /\ RestOK'
<1>1. RowStep
  BY SameRows DEF PollStatus, db
<1>2. ClientOK'
  <2>1. torrent \in [there : BOOLEAN, sel : SUBSET Files, run : BOOLEAN]
    BY Parts DEF RestOK, ClientOK
  <2> QED
    BY <2>1, Parts, Calls DEF PollStatus, RestOK
<1>3. HandsOK'
  BY <1>1, Parts, KeptHands, EndTask DEF PollStatus, RestOK, Tasks
<1> QED
  BY <1>1, <1>2, <1>3, Parts DEF PollStatus, RestOK, SourceOK, KeptOK, LightOK, db, replay

\* What the poll saw moves only rows the client works on, and to such states.
LEMMA PollWriteStep ==
    ASSUME TypeOK, PollWrite
    PROVE  RowStep /\ RestOK'
<1>1. RowStep
  <2>1. \A i \in Ids : Seen(i) \in {"transferring", "checking", "importing"}
    BY DEF Seen
  <2>2. AfterPoll \in [Ids -> RowType]
    BY <2>1, RowFacts DEF AfterPoll, RowType, States, Open
  <2>3. \A i \in Ids : /\ AfterPoll[i].rom = row[i].rom
                       /\ AfterPoll[i].st = IF i \in Observed THEN Seen(i) ELSE row[i].st
    BY RowFacts DEF AfterPoll, RowType
  <2>4. \A i \in Observed : CanBecome(row[i].st, Seen(i))
    BY DEF Observed
  <2>5. \A i \in Ids : i \in Observed => row[i].st \in Open
    BY <2>1, <2>4 DEF CanBecome, Edges, Open
  <2>6. row' = AfterPoll
    BY DEF PollWrite
  <2> HIDE DEF AfterPoll, Seen, Observed
  <2> QED
    BY <2>2, <2>3, <2>4, <2>5, <2>6, MovedRows
<1>2. HandsOK'
  BY <1>1, Parts, GoOn, EndTask DEF PollWrite, RestOK, Tasks
<1> QED
  BY <1>1, <1>2, Parts
     DEF PollWrite, RestOK, SourceOK, KeptOK, LightOK, ClientOK, replay, client, world

\* A torrent in error, and one the client no longer has, fail the rows read.
LEMMA PollErrorStep ==
    ASSUME TypeOK, PollError
    PROVE  RowStep /\ RestOK'
<1>1. RowStep
  BY Parts, EndRows DEF PollError, RestOK, HandsOK, Tasks, Ended
<1>2. HandsOK'
  BY <1>1, Parts, EndTask DEF PollError, RestOK, Tasks
<1> QED
  BY <1>1, <1>2, Parts
     DEF PollError, RestOK, SourceOK, KeptOK, LightOK, ClientOK, replay, client

LEMMA PollLostStep ==
    ASSUME TypeOK, PollLost
    PROVE  RowStep /\ RestOK'
<1>1. RowStep
  BY Parts, EndRows DEF PollLost, RestOK, HandsOK, Tasks, Ended
<1>2. HandsOK'
  BY <1>1, Parts, EndTask DEF PollLost, RestOK, Tasks
<1> QED
  BY <1>1, <1>2, Parts
     DEF PollLost, RestOK, SourceOK, KeptOK, LightOK, ClientOK, replay, client, world

LEMMA PollStopStep ==
    ASSUME TypeOK, PollStop
    PROVE  RowStep /\ RestOK'
<1>1. RowStep
  BY SameRows DEF PollStop, db
<1>2. ClientOK'
  BY Parts, Torrents, Calls DEF PollStop, RestOK
<1>3. HandsOK'
  BY <1>1, Parts, EndTask DEF PollStop, RestOK, Tasks
<1> QED
  BY <1>1, <1>2, <1>3, Parts DEF PollStop, RestOK, SourceOK, KeptOK, LightOK, db, replay

-----------------------------------------------------------------------------
(* The gate, the client and a crash *)

LEMMA GateTaskStep ==
    ASSUME TypeOK, Replay \/ RunKept \/ Finish
    PROVE  RowStep /\ RestOK'
<1>1. RowStep
  BY SameRows DEF Replay, RunKept, Finish, db
<1>2. HandsOK'
  BY <1>1, Parts, GoOn DEF Replay, RunKept, Finish, RestOK
<1>3. KeptOK'
  BY Parts DEF Replay, RunKept, Finish, RestOK, KeptOK
<1> QED
  BY <1>1, <1>2, <1>3, Parts
     DEF Replay, RunKept, Finish, RestOK, SourceOK, LightOK, ClientOK, db, client, world

LEMMA WorldStep ==
    ASSUME TypeOK, Freeze \/ Thaw \/ Lose \/ (\E f \in Files : Fetch(f) \/ Check(f))
    PROVE  RowStep /\ RestOK'
<1>1. RowStep
  BY SameRows DEF Freeze, Thaw, Lose, Fetch, Check, db
<1>2. ClientOK'
  <2> USE Parts DEF RestOK
  <2>1. CASE Freeze \/ Thaw
    BY <2>1 DEF Freeze, Thaw, ClientOK, client
  <2>2. CASE Lose
    BY <2>2, Torrents DEF Lose, ClientOK
  <2>3. ASSUME NEW f \in Files, Fetch(f) \/ Check(f)
        PROVE  ClientOK'
    <3>1. data' \in [Files -> {"part", "full", "ok"}] /\ UNCHANGED <<torrent, here>>
      BY <2>3 DEF Fetch, Check, ClientOK, world
    <3> QED
      BY <3>1 DEF ClientOK
  <2> QED
    BY <2>1, <2>2, <2>3
<1>3. UNCHANGED <<bound, seed, clientId, deferred, todo, served, light, sel, picked>>
  BY DEF Freeze, Thaw, Lose, Fetch, Check, db, tasks, replay
<1> QED
  BY <1>1, <1>2, <1>3, Parts, KeptHands DEF RestOK, SourceOK, KeptOK, LightOK

LEMMA CrashStep ==
    ASSUME TypeOK, Crash
    PROVE  RowStep /\ RestOK'
<1>1. RowStep
  BY SameRows DEF Crash, db
<1>2. LightOK' /\ HandsOK' /\ KeptOK'
  BY <1>1, Parts DEF Crash, RestOK, LightOK, HandsOK, KeptOK, IsInjective
<1> QED
  BY <1>1, <1>2, Parts DEF Crash, RestOK, SourceOK, ClientOK, db, client

-----------------------------------------------------------------------------
(* The theorems *)

\* Every step is a step of the table, and keeps the types.
LEMMA Steps ==
    ASSUME TypeOK, [Next]_vars
    PROVE  RowStep /\ RestOK'
<1>1. CASE Request
  BY <1>1, WantStep, UnwantStep, CancelStep, RetryStep, BindStep DEF Request
<1>2. CASE LightStep
  BY <1>2, PromoteStep, ReadSourceStep, SelectStep, AddStep, RecordStep, StartTorrentStep,
     MoveStartedStep, NotTakenStep, TakeDeselectStep, ReadSelectionStep, StopEmptyStep,
     SetSelectionStep DEF LightStep, Tasks
<1>3. CASE HeavyStep
  BY <1>3, ImportStep, ReadReleaseStep, RemoveTorrentStep, ForgetStep DEF HeavyStep, Tasks
<1>4. CASE PollWake \/ PollStep
  BY <1>4, PollWakeStep, PollReadStep, PollStatusStep, PollWriteStep, PollErrorStep,
     PollStopStep, PollLostStep DEF PollStep
<1>5. CASE GateStep
  BY <1>5, GateTaskStep, ReadSelectionStep, StopEmptyStep, SetSelectionStep, ReadReleaseStep,
     RemoveTorrentStep, ForgetStep DEF GateStep, Tasks
<1>6. CASE ClientStep \/ Freeze \/ Thaw \/ Lose
  BY <1>6, WorldStep DEF ClientStep
<1>7. CASE Crash
  BY <1>7, CrashStep
<1>8. CASE UNCHANGED vars
  <2>1. RowStep
    BY <1>8, SameRows DEF vars, db
  <2> QED
    BY <1>8, <2>1, Parts, KeptHands
       DEF vars, db, tasks, replay, client, world, RestOK, SourceOK, KeptOK, LightOK, ClientOK
<1> QED
  BY <1>1, <1>2, <1>3, <1>4, <1>5, <1>6, <1>7, <1>8 DEF Next

LEMMA InitOK == Init => IInv
<1> SUFFICES ASSUME Init PROVE IInv
  OBVIOUS
<1>1. row = <<>> /\ Ids = {} /\ Len(row) <= MaxRows /\ row \in Seq(RowType)
  BY RowsAssumption DEF Init, Ids
<1>2. SourceOK /\ KeptOK
  BY DEF Init, SourceOK, KeptOK
<1>3. LightOK
  <2>1. light = <<>>
    BY DEF Init
  <2> QED
    BY <2>1 DEF LightOK, IsInjective
<1>4. HandsOK /\ ClientOK
  BY DEF Init, HandsOK, ClientOK, Absent
<1>5. OneOpenRow
  BY <1>1 DEF OneOpenRow, In
<1> QED
  BY <1>1, <1>2, <1>3, <1>4, <1>5, Parts DEF IInv, RestOK

\* A step of the table opens no rom twice.
LEMMA OneOpenStep ==
    ASSUME OneOpenRow, RowStep
    PROVE  OneOpenRow'
<1> SUFFICES ASSUME NEW i \in In(Open)', NEW j \in In(Open)',
                    row'[i].rom = row'[j].rom, i # j
             PROVE  FALSE
  BY DEF OneOpenRow
<1>1. /\ i \in Ids' /\ j \in Ids'
      /\ row'[i].st \in Open /\ row'[j].st \in Open
  BY DEF In
<1>2. /\ i \in Ids /\ row[i].st \in Open
      /\ j \in Ids /\ row[j].st \in Open
  BY <1>1 DEF RowStep
<1>3. row[i].rom = row[j].rom
  BY <1>2 DEF RowStep
<1> QED
  BY <1>2, <1>3 DEF OneOpenRow, In

LEMMA StepsKeep == IInv /\ [Next]_vars => IInv'
<1> SUFFICES ASSUME IInv, [Next]_vars PROVE IInv'
  OBVIOUS
<1>1. RowStep /\ RestOK'
  BY Steps DEF IInv
<1>2. row' \in Seq(RowType) /\ Len(row') <= MaxRows
  BY <1>1 DEF RowStep
<1>3. TypeOK'
  BY <1>1, <1>2, Parts DEF TypeOK, RestOK, SourceOK, KeptOK, LightOK, HandsOK, ClientOK, RowType
<1>4. OneOpenRow'
  BY <1>1, OneOpenStep DEF IInv
<1> QED
  BY <1>3, <1>4 DEF IInv

\* The inductive invariant holds in every state of every behaviour.
THEOREM Invariant == Spec => []IInv
BY InitOK, StepsKeep, PTL DEF Spec

\* Type correctness of the downloads, the torrent and what each task has read.
THEOREM TypeCorrect == Spec => []TypeOK
<1>1. IInv => TypeOK
  BY DEF IInv
<1> QED
  BY <1>1, Invariant, PTL

\* A rom never has two open downloads, whoever opens them (want_title, retry, want_again).
THEOREM OneOpenAlways == Spec => []OneOpenRow
<1>1. IInv => OneOpenRow
  BY DEF IInv
<1> QED
  BY <1>1, Invariant, PTL

\* A download that is done, bad or cancelled stays so, whatever a task read before (set_state).
THEOREM EndedAlways == Spec => EndedStays
<1>1. ASSUME TypeOK, [Next]_vars
      PROVE  \A i \in Ids : row[i].st \in {"done", "bad", "cancelled"} => row'[i] = row[i]
  <2> SUFFICES ASSUME NEW i \in Ids, row[i].st \in {"done", "bad", "cancelled"}
               PROVE  row'[i] = row[i]
    OBVIOUS
  <2>1. RowStep
    BY <1>1, Steps
  <2>2. row[i] \in RowType /\ row'[i] \in RowType
    BY <1>1, <2>1, RowFacts DEF RowStep, Ids
  <2>3. row'[i].st = row[i].st /\ row'[i].rom = row[i].rom
    BY <2>1 DEF RowStep, CanBecome, Edges
  <2> QED
    BY <2>2, <2>3 DEF RowType
<1> QED
  BY <1>1, TypeCorrect, PTL DEF Spec, EndedStays

-----------------------------------------------------------------------------
(* What was started is selected *)

\* Where a task can be while the gate stands still.
Places == {"idle", "source", "select", "add", "record", "start", "move", "deselect", "stop", "set",
           "release", "remove", "forget", "status", "write", "lost", "halt"}

\* The gate replays nothing.
Calm == at \in [Tasks -> Places] /\ at["gate"] = "idle"

\* Where the light lane holds a selection, and where it holds rows for it.
Choosing == {"select", "add", "record", "start", "move", "stop", "set"}
Starting == {"select", "add", "record", "start", "move"}
Chosen   == {"record", "start", "move"}

\* None of the rows in hand runs yet.
Waiting == \A i \in picked["light"] : row[i].st \notin Started

\* The selection in hand has the files of what runs and of what is to start, and the torrent
\* has it once it was sent.
InHand ==
    /\ at["light"] \in Choosing => FilesOf(In(Started)) \subseteq sel["light"]
    /\ at["light"] \in Starting => Waiting /\ FilesOf(picked["light"]) \subseteq sel["light"]
    /\ at["light"] \in Chosen /\ torrent.there => torrent.sel = sel["light"]

\* The rows the poller has read run still or were cancelled: none was started anew.
Polling == {"status", "write", "lost"}
OnOrOff == Started \cup {"cancelled"}
Polled  == at["poll"] \in Polling => \A i \in picked["poll"] : row[i].st \in OnOrOff

EInv == Calm /\ InHand /\ Polled /\ StartedIsSelected

\* A step that starts no row, and one that ends none the poller may have read.
StartsNone == \A i \in Ids' : row'[i].st \in Started => i \in Ids /\ row[i].st \in Started
EndsNone   == \A i \in Ids : row[i].st \in OnOrOff => row'[i].st \in OnOrOff

LEMMA FewerFiles ==
    ASSUME RowStep, StartsNone
    PROVE  FilesOf(In(Started))' \subseteq FilesOf(In(Started))
BY DEF RowStep, StartsNone, FilesOf, In

LEMMA SameTable ==
    ASSUME UNCHANGED row
    PROVE  StartsNone /\ EndsNone
BY DEF StartsNone, EndsNone, Ids

\* Where a step leaves the poller's rows.
LEMMA StillPolled ==
    ASSUME TypeOK, Polled, EndsNone,
           \/ at'["poll"] \notin Polling
           \/ at["poll"] \in Polling /\ picked'["poll"] = picked["poll"]
    PROVE  Polled'
<1>1. picked["poll"] \subseteq Ids
  BY Parts DEF RestOK, HandsOK, Tasks
<1> QED
  BY <1>1 DEF Polled, EndsNone

\* A step besides the light lane that starts no row and leaves the selection.
LEMMA Beside ==
    ASSUME TypeOK, EInv, RowStep, StartsNone, Calm', Polled',
           at'["light"] = at["light"], sel'["light"] = sel["light"], picked'["light"] = picked["light"],
           torrent'.there => torrent.there /\ torrent'.sel = torrent.sel
    PROVE  EInv'
<1>1. FilesOf(In(Started))' \subseteq FilesOf(In(Started))
  BY FewerFiles
<1>2. FilesOf(picked["light"])' = FilesOf(picked["light"])
  <2>1. picked["light"] \subseteq Ids
    BY Parts DEF RestOK, HandsOK, Tasks
  <2> QED
    BY <2>1 DEF RowStep, FilesOf
<1>3. Waiting => Waiting'
  <2>1. picked["light"] \subseteq Ids
    BY Parts DEF RestOK, HandsOK, Tasks
  <2> QED
    BY <2>1 DEF RowStep, Waiting, StartsNone
<1>4. InHand'
  BY <1>1, <1>2, <1>3 DEF EInv, InHand
<1>5. StartedIsSelected'
  BY <1>1 DEF EInv, StartedIsSelected
<1> QED
  BY <1>4, <1>5 DEF EInv

\* A step of the light lane that ends its job.
LEMMA Leaves ==
    ASSUME TypeOK, EInv, RowStep, StartsNone, Calm', Polled', at'["light"] \notin Choosing,
           torrent'.there => torrent.there /\ torrent'.sel = torrent.sel
    PROVE  EInv'
<1>1. StartedIsSelected'
  BY FewerFiles DEF EInv, StartedIsSelected
<1> QED
  BY <1>1 DEF EInv, InHand, Choosing, Starting, Chosen

\* The tasks' places after a step of one.
LEMMA Placed ==
    ASSUME Calm, NEW p \in {"light", "heavy", "poll"}, NEW step \in Places,
           at' = [at EXCEPT ![p] = step]
    PROVE  Calm' /\ at'[p] = step /\ \A q \in Tasks \ {p} : at'[q] = at[q]
<1>1. at \in [Tasks -> Places] /\ p \in Tasks /\ p # "gate" /\ "gate" \in Tasks
  BY DEF Calm, Tasks
<1>2. at' \in [Tasks -> Places] /\ at'[p] = step /\ \A q \in Tasks \ {p} : at'[q] = at[q]
  BY <1>1
<1> QED
  BY <1>1, <1>2 DEF Calm

LEMMA Went ==
    ASSUME Calm, NEW p \in {"light", "heavy", "poll"}, NEW step \in Places,
           Go(p, step)
    PROVE  Calm' /\ at'[p] = step /\ \A q \in Tasks \ {p} : at'[q] = at[q]
BY Placed DEF Go

LEMMA JobEnded ==
    ASSUME Calm, NEW p \in {"light", "heavy", "poll"}, Ends(p)
    PROVE  Calm' /\ at'[p] = "idle" /\ \A q \in Tasks \ {p} : at'[q] = at[q]
<1>1. at' = [at EXCEPT ![p] = "idle"] /\ "idle" \in Places
  BY DEF Ends, Places
<1> QED
  BY <1>1, Placed

\* The hands of the tasks that do not step.
LEMMA Others ==
    ASSUME TypeOK, NEW p \in Tasks, (\E step : Go(p, step)) \/ Ends(p)
    PROVE  \A q \in Tasks \ {p} : sel'[q] = sel[q] /\ picked'[q] = picked[q]
<1>1. sel \in [Tasks -> SUBSET Files] /\ picked \in [Tasks -> SUBSET Ids]
  BY Parts DEF RestOK, HandsOK
<1> QED
  BY <1>1 DEF Go, Ends

-----------------------------------------------------------------------------

LEMMA RequestEInv ==
    ASSUME TypeOK, EInv, Request
    PROVE  EInv'
<1>1. UNCHANGED <<at, sel, picked, torrent>>
  BY DEF Request, Want, Unwant, Cancel, Retry, Bind, tasks, client
<1>2. RowStep
  BY Steps DEF Next
<1>3. StartsNone /\ EndsNone
  <2>1. ASSUME NEW r \in Roms, Want(r)
        PROVE  StartsNone /\ EndsNone
    <3>1. CASE UNCHANGED row
      BY <3>1, SameTable
    <3>2. CASE row' = Append(row, NewRow(r))
      <4>1. /\ Ids' = 1 .. Len(row) + 1 /\ Len(row) \in Nat /\ Ids = 1 .. Len(row)
            /\ \A i \in Ids : row'[i] = row[i]
            /\ row'[Len(row) + 1] = NewRow(r)
        BY <3>2, RowFacts DEF Ids
      <4>2. NewRow(r).st \notin Started
        BY DEF NewRow, Started
      <4> QED
        BY <4>1, <4>2 DEF StartsNone, EndsNone
    <3> QED
      BY <2>1, <3>1, <3>2 DEF Want
  <2>2. ASSUME NEW ids \in SUBSET Ids, NEW to \in {"cancelled", "queued"}, row' = WithState(ids, to),
               to = "queued" => \A i \in ids : row[i].st \notin OnOrOff
        PROVE  StartsNone /\ EndsNone
    <3>1. Ids' = Ids /\ \A i \in Ids : row'[i].st = IF i \in ids THEN to ELSE row[i].st
      BY <2>2, RowFacts DEF WithState, Ids, RowType
    <3> QED
      BY <2>2, <3>1 DEF StartsNone, EndsNone, OnOrOff, Started
  <2>3. ASSUME NEW r \in Roms, Unwant(r)
        PROVE  StartsNone /\ EndsNone
    BY <2>2, <2>3 DEF Unwant, In
  <2>4. ASSUME NEW i \in Ids, Cancel(i)
        PROVE  StartsNone /\ EndsNone
    BY <2>2, <2>4 DEF Cancel, MoveAll, Movable
  <2>5. ASSUME NEW i \in Ids, Retry(i)
        PROVE  StartsNone /\ EndsNone
    BY <2>2, <2>5 DEF Retry, MayRetry, MoveAll, Movable, OnOrOff, Started
  <2>6. CASE Bind
    BY <2>6, SameTable DEF Bind
  <2> QED
    BY <2>1, <2>3, <2>4, <2>5, <2>6 DEF Request
<1>4. Calm' /\ Polled'
  BY <1>1, <1>3, StillPolled DEF EInv, Calm, Polled
<1> QED
  BY <1>1, <1>2, <1>3, <1>4, Beside

LEMMA HeavyEInv ==
    ASSUME TypeOK, EInv, HeavyStep
    PROVE  EInv'
<1>1. RowStep
  BY Steps DEF Next
<1>2. ASSUME NEW i \in Ids, Import(i)
      PROVE  EInv'
  <2>1. UNCHANGED torrent /\ Go("heavy", "release") /\ row[i].st = "importing"
    BY <1>2 DEF Import, client
  <2>2. Calm' /\ at'["light"] = at["light"] /\ at'["poll"] = at["poll"]
    BY <2>1, Went DEF EInv, Tasks, Places
  <2>3. UNCHANGED <<sel, picked>>
    BY <2>1 DEF Go
  <2>4. \A k \in Ids : row'[k].st = row[k].st \/ (k = i /\ row'[k].st \notin Started)
    <3>1. \A to : \A k \in Ids : WithState({i}, to)[k].st = (IF k = i THEN to ELSE row[k].st)
      BY RowFacts DEF WithState, RowType
    <3>2. ASSUME NEW to \in {"done", "failed", "bad"}, MoveAll({i}, to)
          PROVE  \A k \in Ids : row'[k].st = row[k].st \/ (k = i /\ row'[k].st \notin Started)
      <4>1. Movable({i}, to) = {i} \/ Movable({i}, to) = {}
        BY DEF Movable
      <4>2. CASE Movable({i}, to) = {i}
        BY <3>1, <3>2, <4>2 DEF MoveAll, Started
      <4>3. CASE Movable({i}, to) = {}
        BY <3>2, <4>3, RowFacts DEF MoveAll, WithState, RowType
      <4> QED
        BY <4>1, <4>2, <4>3
    <3>3. CASE row' = WantAgain(WithState({i}, "bad"), row[i].rom)
      <4> DEFINE old == WithState({i}, "bad")
      <4>1. old \in Seq(RowType) /\ DOMAIN old = Ids /\ Ids = 1 .. Len(old)
        <5>1. old \in [Ids -> RowType]
          BY RowFacts DEF WithState, RowType, States
        <5> HIDE DEF old
        <5> QED
          BY <5>1, RowFacts
      <4>2. \A k \in Ids : row'[k] = old[k]
        <5> HIDE DEF old
        <5> QED
          BY <3>3, <4>1 DEF WantAgain, old
      <4>3. \A k \in Ids : old[k].st = IF k = i THEN "bad" ELSE row[k].st
        BY <3>1
      <4> HIDE DEF old
      <4> QED
        BY <4>2, <4>3 DEF Started
    <3> QED
      BY <1>2, <3>2, <3>3 DEF Import
  <2>5. \A k \in Ids' \ Ids : row'[k].st \notin Started
    <3>1. CASE \E to \in {"done", "failed", "bad"} : MoveAll({i}, to)
      BY <3>1 DEF MoveAll, WithState, Ids
    <3>2. CASE row' = WantAgain(WithState({i}, "bad"), row[i].rom)
      <4> DEFINE old == WithState({i}, "bad")
                 new == [rom |-> row[i].rom, st |-> "wanted"]
      <4>1. old \in [Ids -> RowType]
        BY RowFacts DEF WithState, RowType, States
      <4>2. old \in Seq(RowType) /\ DOMAIN old = Ids /\ Ids = 1 .. Len(old) /\ Len(old) \in Nat
        <5> HIDE DEF old
        <5> QED
          BY <4>1, RowFacts
      <4>3. row' = old \/ row' = Append(old, new)
        BY <3>2 DEF WantAgain
      <4>4. new.st \notin Started
        BY DEF Started
      <4> HIDE DEF old, new
      <4> QED
        BY <4>2, <4>3, <4>4 DEF Ids
    <3> QED
      BY <1>2, <3>1, <3>2 DEF Import
  <2>6. StartsNone /\ EndsNone
    BY <2>1, <2>4, <2>5 DEF StartsNone, EndsNone, OnOrOff, Started
  <2>7. Polled'
    BY <2>2, <2>3, <2>6, StillPolled DEF EInv, Polled
  <2> QED
    BY <1>1, <2>1, <2>2, <2>3, <2>6, <2>7, Beside
<1>3. ASSUME ReadRelease("heavy") \/ RemoveTorrent("heavy") \/ Forget("heavy")
      PROVE  EInv'
  <2>1. UNCHANGED row
    BY <1>3 DEF ReadRelease, RemoveTorrent, Forget, db
  <2>2. Go("heavy", "remove") \/ Go("heavy", "forget") \/ Ends("heavy")
    BY <1>3 DEF ReadRelease, RemoveTorrent, Forget, Served, Refused
  <2>3. Calm' /\ at'["light"] = at["light"] /\ at'["poll"] = at["poll"]
    BY <2>1, <2>2, Went, JobEnded DEF EInv, Tasks, Places
  <2>4. \A q \in Tasks \ {"heavy"} : sel'[q] = sel[q] /\ picked'[q] = picked[q]
    BY <2>2, Others DEF Tasks
  <2>5. StartsNone /\ Polled'
    BY <2>1, <2>3, <2>4, SameTable, StillPolled DEF EInv, Polled, Tasks
  <2>6. torrent'.there => torrent.there /\ torrent'.sel = torrent.sel
    BY <1>3 DEF ReadRelease, RemoveTorrent, Forget, Call, Fault, Absent, client
  <2> QED
    BY <1>1, <2>3, <2>4, <2>5, <2>6, Beside DEF Tasks
<1> QED
  BY <1>2, <1>3 DEF HeavyStep

LEMMA PollEInv ==
    ASSUME TypeOK, EInv, PollWake \/ PollStep
    PROVE  EInv'
<1>1. RowStep
  BY Steps DEF Next
<1>2. CASE PollWake
  <2>1. UNCHANGED <<row, at, sel, picked, torrent>>
    BY <1>2 DEF PollWake, db, tasks, client
  <2> QED
    BY <1>1, <2>1, SameTable, StillPolled, Beside DEF EInv, Calm, Polled
<1>3. CASE PollRead
  <2>1. UNCHANGED <<row, sel, torrent>>
    BY <1>3 DEF PollRead, db, client
  <2>2. Calm' /\ at'["light"] = at["light"] /\ picked'["light"] = picked["light"]
    <3>1. Calm' /\ at'["light"] = at["light"]
      BY <1>3, <2>1, Placed DEF PollRead, EInv, Tasks, Places
    <3>2. picked'["light"] = picked["light"]
      BY <1>3, Parts DEF PollRead, RestOK, HandsOK, Tasks
    <3> QED
      BY <3>1, <3>2
  <2>3. picked'["poll"] = In(Started)
    BY <1>3, Parts DEF PollRead, RestOK, HandsOK, Tasks
  <2>4. Polled'
    BY <2>1, <2>3 DEF Polled, In, OnOrOff
  <2> QED
    BY <1>1, <2>1, <2>2, <2>4, SameTable, Beside
<1>4. CASE PollStatus
  <2>1. UNCHANGED <<row, torrent>> /\ at["poll"] = "status"
    BY <1>4 DEF PollStatus, Call, Fault, db
  <2>2. CASE Ends("poll")
    <3>1. Calm' /\ at'["light"] = at["light"] /\ at'["poll"] \notin Polling
      BY <2>2, JobEnded DEF EInv, Tasks, Polling
    <3>2. sel'["light"] = sel["light"] /\ picked'["light"] = picked["light"]
      BY <2>2, Others DEF Tasks
    <3> QED
      BY <1>1, <2>1, <3>1, <3>2, SameTable, Beside DEF Polled
  <2>3. CASE UNCHANGED <<sel, picked>> /\ at' = [at EXCEPT !["poll"] = IF torrent.there THEN "write" ELSE "lost"]
    <3>1. PICK step \in {"write", "lost"} : at' = [at EXCEPT !["poll"] = step]
      BY <2>3
    <3>2. Calm' /\ at'["light"] = at["light"]
      BY <3>1, Placed DEF EInv, Tasks, Places
    <3> QED
      BY <1>1, <2>1, <2>3, <3>2, SameTable, StillPolled, Beside DEF EInv, Polling
  <2> QED
    BY <1>4, <2>2, <2>3 DEF PollStatus
<1>5. CASE PollWrite
  <2>1. UNCHANGED torrent /\ at["poll"] = "write"
    BY <1>5 DEF PollWrite, client
  <2>2. Go("poll", "halt") \/ Ends("poll")
    BY <1>5 DEF PollWrite
  <2>3. Calm' /\ at'["light"] = at["light"] /\ at'["poll"] \notin Polling
    BY <2>1, <2>2, Went, JobEnded DEF EInv, Tasks, Polling, Places
  <2>4. sel'["light"] = sel["light"] /\ picked'["light"] = picked["light"]
    BY <2>2, Others DEF Tasks
  <2>5. StartsNone
    <3>1. \A i \in Observed : row[i].st \in Started
      <4>1. \A i \in Observed : i \in picked["poll"] /\ CanBecome(row[i].st, Seen(i))
        BY DEF Observed
      <4>2. \A i \in picked["poll"] : row[i].st \in OnOrOff
        BY <2>1 DEF EInv, Polled, Polling
      <4> QED
        BY <4>1, <4>2 DEF OnOrOff, CanBecome, Edges, Started
    <3>2. Ids' = Ids /\ \A i \in Ids : i \in Observed \/ row'[i] = row[i]
      BY <1>5 DEF PollWrite, AfterPoll, Ids
    <3> QED
      BY <3>1, <3>2 DEF StartsNone
  <2>6. Polled'
    BY <2>3 DEF Polled
  <2> QED
    BY <1>1, <2>1, <2>3, <2>4, <2>5, <2>6, Beside
<1>6. CASE PollLost \/ PollError
  <2>1. UNCHANGED torrent /\ Ends("poll") /\ MoveAll(picked["poll"], "failed")
    BY <1>6 DEF PollLost, PollError, client
  <2>2. Calm' /\ at'["light"] = at["light"] /\ at'["poll"] \notin Polling
    BY <2>1, JobEnded DEF EInv, Tasks, Polling
  <2>3. sel'["light"] = sel["light"] /\ picked'["light"] = picked["light"]
    BY <2>1, Others DEF Tasks
  <2>4. StartsNone
    BY <2>1, RowFacts DEF MoveAll, WithState, StartsNone, Ids, Started, RowType
  <2> QED
    BY <1>1, <2>1, <2>2, <2>3, <2>4, Beside DEF Polled
<1>7. CASE PollStop
  <2>1. UNCHANGED row /\ Ends("poll")
    BY <1>7 DEF PollStop, db
  <2>2. Calm' /\ at'["light"] = at["light"] /\ at'["poll"] \notin Polling
    BY <2>1, JobEnded DEF EInv, Tasks, Polling
  <2>3. sel'["light"] = sel["light"] /\ picked'["light"] = picked["light"]
    BY <2>1, Others DEF Tasks
  <2>4. torrent'.there => torrent.there /\ torrent'.sel = torrent.sel
    BY <1>7, Parts DEF PollStop, Call, Fault, Running, RestOK, ClientOK
  <2> QED
    BY <1>1, <2>1, <2>2, <2>3, <2>4, SameTable, Beside DEF Polled
<1> QED
  BY <1>2, <1>3, <1>4, <1>5, <1>6, <1>7 DEF PollStep

\* The light lane's steps, one by one: what it chose stays chosen until it is sent.
LEMMA LightEInv ==
    ASSUME TypeOK, EInv, LightStep
    PROVE  EInv'
<1>1. RowStep
  BY Steps DEF Next
<1>0. /\ sel \in [Tasks -> SUBSET Files] /\ picked \in [Tasks -> SUBSET Ids]
      /\ torrent \in [there : BOOLEAN, sel : SUBSET Files, run : BOOLEAN]
  BY Parts DEF RestOK, HandsOK, ClientOK
\* A step that leaves the table and goes on to a place, or ends the job.
<1>a. ASSUME NEW step \in Places, UNCHANGED row, Go("light", step),
             step \in Choosing => FilesOf(In(Started)) \subseteq sel["light"],
             step \in Starting => Waiting /\ FilesOf(picked["light"]) \subseteq sel["light"],
             step \in Chosen /\ torrent'.there => torrent'.sel = sel["light"],
             torrent'.there => FilesOf(In(Started)) \subseteq torrent'.sel
      PROVE  EInv'
  <2>1. Calm' /\ at'["light"] = step /\ at'["poll"] = at["poll"]
    BY <1>a, Went DEF EInv, Tasks
  <2>2. UNCHANGED <<sel, picked>>
    BY <1>a DEF Go
  <2>3. Polled'
    BY <1>a, <2>1, <2>2 DEF EInv, Polled
  <2>4. FilesOf(In(Started))' = FilesOf(In(Started)) /\ FilesOf(picked["light"])' = FilesOf(picked["light"])
    BY <1>a, <2>2 DEF FilesOf, In, Ids
  <2>5. InHand'
    BY <1>a, <2>1, <2>2, <2>4 DEF InHand, Waiting
  <2> QED
    BY <1>a, <2>1, <2>3, <2>4, <2>5 DEF EInv, StartedIsSelected
<1>b. ASSUME StartsNone, EndsNone, Ends("light"),
             torrent'.there => FilesOf(In(Started)) \subseteq torrent'.sel
      PROVE  EInv'
  <2>1. Calm' /\ at'["light"] = "idle" /\ at'["poll"] = at["poll"]
    BY <1>b, JobEnded DEF EInv, Tasks
  <2>2. picked'["poll"] = picked["poll"]
    BY <1>b, Others DEF Tasks
  <2>3. Polled'
    BY <1>b, <2>1, <2>2, StillPolled DEF EInv, Polled
  <2>4. FilesOf(In(Started))' \subseteq FilesOf(In(Started))
    BY <1>1, <1>b, FewerFiles
  <2> QED
    BY <1>b, <2>1, <2>3, <2>4 DEF EInv, InHand, Choosing, Starting, Chosen, StartedIsSelected
<1>2. CASE Promote
  <2>1. UNCHANGED <<sel, picked, torrent>> /\ at["light"] = "idle"
    BY <1>2 DEF Promote, Go, tasks, client
  <2>2. Calm' /\ at'["light"] \notin Choosing /\ at'["poll"] = at["poll"]
    <3>1. CASE Go("light", "source")
      BY <3>1, Went DEF EInv, Tasks, Choosing, Places
    <3>2. CASE UNCHANGED at
      BY <2>1, <3>2 DEF EInv, Calm, Choosing
    <3> QED
      BY <1>2, <3>1, <3>2 DEF Promote, tasks
  <2>3. StartsNone /\ EndsNone
    <3>1. Ids' = Ids /\ \A i \in Ids : row'[i].st = row[i].st \/ (row[i].st = "wanted" /\ row'[i].st = "queued")
      BY <1>2, RowFacts DEF Promote, WithState, Ids, In, RowType
    <3> QED
      BY <3>1 DEF StartsNone, EndsNone, OnOrOff, Started
  <2>4. Polled'
    BY <2>1, <2>2, <2>3, StillPolled DEF EInv, Polled
  <2> QED
    BY <1>1, <2>1, <2>2, <2>3, <2>4, Leaves
<1>3. CASE ReadSource
  <2>1. UNCHANGED <<row, torrent>>
    BY <1>3 DEF ReadSource, db, client
  <2>2. CASE Ends("light")
    BY <1>b, <2>1, <2>2, SameTable DEF EInv, StartedIsSelected
  <2>3. CASE /\ at' = [at EXCEPT !["light"] = IF clientId THEN "select" ELSE "add"]
             /\ sel' = [sel EXCEPT !["light"] = SelectedFiles]
             /\ picked' = [picked EXCEPT !["light"] = In({"queued"})]
    <3>1. Calm' /\ at'["light"] \in {"select", "add"} /\ at'["poll"] = at["poll"]
      <4>1. PICK step \in {"select", "add"} : at' = [at EXCEPT !["light"] = step]
        BY <2>3
      <4> QED
        BY <2>1, <4>1, Placed DEF EInv, Tasks, Places
    <3>2. sel'["light"] = SelectedFiles /\ picked'["light"] = In({"queued"}) /\ picked'["poll"] = picked["poll"]
      BY <1>0, <2>3 DEF Tasks
    <3>3. FilesOf(In(Started))' \subseteq SelectedFiles /\ FilesOf(picked["light"])' \subseteq SelectedFiles
      BY <2>1, <3>2 DEF FilesOf, In, Started, Selected, SelectedFiles, Ids
    <3>4. Polled'
      BY <2>1, <3>1, <3>2, SameTable, StillPolled DEF EInv, Polled
    <3>5. StartedIsSelected'
      BY <2>1 DEF EInv, StartedIsSelected, FilesOf, In, Ids
    <3>6. Waiting'
      BY <2>1, <3>2 DEF Waiting, In, Started
    <3> QED
      BY <3>1, <3>2, <3>3, <3>4, <3>5, <3>6 DEF EInv, InHand, Chosen
  <2> QED
    BY <1>3, <2>2, <2>3 DEF ReadSource
<1>4. CASE Select
  <2>1. UNCHANGED row /\ at["light"] = "select" /\ torrent' = WithSel(sel["light"])
    BY <1>4 DEF Select, Call
  <2>3. /\ torrent'.there = torrent.there
        /\ torrent.there => torrent'.sel = sel["light"]
    BY <1>0, <2>1 DEF WithSel
  <2>4. Waiting /\ FilesOf(In(Started)) \cup FilesOf(picked["light"]) \subseteq sel["light"]
    BY <2>1 DEF EInv, InHand, Choosing, Starting
  <2>5. CASE torrent.there
    <3>1. Go("light", "start")
      BY <1>4, <2>5 DEF Select
    <3> QED
      BY <1>a, <2>1, <2>3, <2>4, <3>1 DEF Places
  <2>6. CASE ~torrent.there
    <3>1. Go("light", "add")
      BY <1>4, <2>6 DEF Select
    <3> QED
      BY <1>a, <2>1, <2>3, <2>4, <2>6, <3>1 DEF Places
  <2> QED
    BY <2>5, <2>6
<1>5. CASE Add
  <2>1. UNCHANGED row /\ at["light"] = "add" /\ torrent' = Loaded(sel["light"])
    BY <1>5 DEF Add, Call, db
  <2>2. Go("light", "record")
    BY <1>5 DEF Add
  <2>3. torrent'.sel = sel["light"]
    BY <1>0, <2>1 DEF Loaded, WithSel
  <2>4. Waiting /\ FilesOf(In(Started)) \cup FilesOf(picked["light"]) \subseteq sel["light"]
    BY <2>1 DEF EInv, InHand, Choosing, Starting
  <2> QED
    BY <1>a, <2>1, <2>2, <2>3, <2>4 DEF Places
<1>6. CASE Record
  <2>1. UNCHANGED <<row, torrent>> /\ at["light"] = "record" /\ Go("light", "start")
    BY <1>6 DEF Record, client
  <2>2. /\ Waiting /\ FilesOf(In(Started)) \cup FilesOf(picked["light"]) \subseteq sel["light"]
        /\ torrent.there => torrent.sel = sel["light"]
    BY <2>1 DEF EInv, InHand, Choosing, Starting, Chosen
  <2> QED
    BY <1>a, <2>1, <2>2 DEF Places
<1>7. CASE StartTorrent
  <2>1. UNCHANGED row /\ at["light"] = "start" /\ torrent' = Running(TRUE)
    BY <1>7 DEF StartTorrent, Call, db
  <2>2. torrent'.there = torrent.there /\ torrent'.sel = torrent.sel
    BY <1>0, <2>1 DEF Running
  <2>3. /\ Waiting /\ FilesOf(In(Started)) \cup FilesOf(picked["light"]) \subseteq sel["light"]
        /\ torrent'.there => torrent'.sel = sel["light"]
    BY <2>1, <2>2 DEF EInv, InHand, Choosing, Starting, Chosen
  <2>4. CASE Go("light", "move")
    BY <1>a, <2>1, <2>3, <2>4 DEF Places
  <2>5. CASE Ends("light")
    BY <1>b, <2>1, <2>3, <2>5, SameTable
  <2> QED
    BY <1>7, <2>4, <2>5 DEF StartTorrent
<1>8. CASE MoveStarted
  <2>1. UNCHANGED torrent /\ at["light"] = "move" /\ Ends("light")
    BY <1>8 DEF MoveStarted, client
  <2>2. Calm' /\ at'["light"] = "idle" /\ at'["poll"] = at["poll"]
    BY <2>1, JobEnded DEF EInv, Tasks
  <2>3. picked'["poll"] = picked["poll"]
    BY <2>1, Others DEF Tasks
  <2>4. /\ Ids' = Ids
        /\ \A i \in Ids : /\ row'[i].rom = row[i].rom
                          /\ row'[i].st = IF i \in StartedRows THEN "transferring" ELSE row[i].st
    BY <1>8, RowFacts DEF MoveStarted, WithState, Ids, RowType
  <2>5. StartedRows \subseteq picked["light"] /\ \A i \in StartedRows : row[i].st # "cancelled"
    BY DEF StartedRows, Movable, CanBecome, Edges
  <2>6. EndsNone
    BY <2>4 DEF EndsNone, OnOrOff, Started
  <2>7. Polled'
    BY <2>2, <2>3, <2>6, StillPolled DEF EInv, Polled
  <2>8. FilesOf(In(Started))' \subseteq FilesOf(In(Started)) \cup FilesOf(picked["light"])
    BY <2>4, <2>5 DEF FilesOf, In
  <2>9. StartedIsSelected'
    BY <2>1, <2>8 DEF EInv, InHand, Choosing, Starting, Chosen, StartedIsSelected
  <2> QED
    BY <2>2, <2>7, <2>9 DEF EInv, InHand, Choosing, Starting, Chosen
<1>9. CASE NotTaken
  <2>1. Ends("light") /\ at["light"] \in {"select", "add", "start"}
    BY <1>9 DEF NotTaken
  <2>2. CASE UNCHANGED row
    <3>1. torrent'.there => FilesOf(In(Started)) \subseteq torrent'.sel
      BY <1>0, <1>9, <2>1 DEF NotTaken, Fault, WithSel, Loaded, Running, EInv, InHand, StartedIsSelected,
         Choosing
    <3> QED
      BY <1>b, <2>1, <2>2, <3>1, SameTable
  <2>3. CASE MoveAll(picked["light"], "failed") /\ at["light"] \in {"select", "add"}
    <3>1. torrent'.there => FilesOf(In(Started)) \subseteq torrent'.sel
      <4>1. torrent' \in {torrent, WithSel(sel["light"]), Loaded(sel["light"])}
        BY <1>9, <2>3 DEF NotTaken, Fault
      <4>2. FilesOf(In(Started)) \subseteq sel["light"]
        BY <2>3 DEF EInv, InHand, Choosing
      <4> QED
        BY <1>0, <4>1, <4>2 DEF WithSel, Loaded, EInv, StartedIsSelected
    <3>2. /\ Ids' = Ids
          /\ \A i \in Ids : /\ row'[i].st # row[i].st =>
                               /\ i \in picked["light"] /\ CanBecome(row[i].st, "failed")
                               /\ row'[i].st = "failed"
      BY <2>3, RowFacts DEF MoveAll, Movable, WithState, Ids, RowType
    <3>3. Waiting
      BY <2>3 DEF EInv, InHand, Starting
    <3>4. StartsNone /\ EndsNone
      BY <3>2, <3>3 DEF StartsNone, EndsNone, Waiting, OnOrOff, Started, CanBecome, Edges
    <3> QED
      BY <1>b, <2>1, <3>1, <3>4
  <2> QED
    BY <1>9, <2>2, <2>3 DEF NotTaken, Unanswered
<1>10. CASE TakeDeselect
  <2>1. UNCHANGED <<row, torrent>> /\ Go("light", "deselect")
    BY <1>10 DEF TakeDeselect, db, client
  <2> QED
    BY <1>a, <2>1 DEF EInv, StartedIsSelected, Places, Choosing, Starting, Chosen
<1>11. CASE ReadSelection("light")
  <2>1. UNCHANGED <<row, torrent>>
    BY <1>11 DEF ReadSelection, db, client
  <2>2. CASE Ends("light")
    BY <1>b, <2>1, <2>2, SameTable DEF EInv, StartedIsSelected
  <2>3. CASE /\ at' = [at EXCEPT !["light"] = IF SelectedFiles = {} THEN "stop" ELSE "set"]
             /\ sel' = [sel EXCEPT !["light"] = SelectedFiles] /\ UNCHANGED picked
    <3>1. Calm' /\ at'["light"] \in {"stop", "set"} /\ at'["poll"] = at["poll"]
      <4>1. PICK step \in {"stop", "set"} : at' = [at EXCEPT !["light"] = step]
        BY <2>3
      <4> QED
        BY <2>1, <4>1, Placed DEF EInv, Tasks, Places
    <3>2. sel'["light"] = SelectedFiles
      BY <1>0, <2>3 DEF Tasks
    <3>3. FilesOf(In(Started))' \subseteq SelectedFiles
      BY <2>1 DEF FilesOf, In, Started, Selected, SelectedFiles, Ids
    <3>4. Polled'
      BY <2>1, <2>3, <3>1, SameTable, StillPolled DEF EInv, Polled
    <3>5. StartedIsSelected'
      BY <2>1 DEF EInv, StartedIsSelected, FilesOf, In, Ids
    <3> QED
      BY <3>1, <3>2, <3>3, <3>4, <3>5 DEF EInv, InHand, Starting, Chosen
  <2> QED
    BY <1>11, <2>2, <2>3 DEF ReadSelection, Served, Refused
<1>12. CASE StopEmpty("light")
  <2>1. UNCHANGED row /\ at["light"] = "stop" /\ torrent' \in {torrent, Running(FALSE)}
        /\ (Go("light", "set") \/ Ends("light"))
    BY <1>12 DEF StopEmpty, Refused, Call, Fault, db
  <2>2. torrent'.there = torrent.there /\ torrent'.sel = torrent.sel
    BY <1>0, <2>1 DEF Running
  <2>3. FilesOf(In(Started)) \subseteq sel["light"]
    BY <2>1 DEF EInv, InHand, Choosing
  <2>4. torrent'.there => FilesOf(In(Started)) \subseteq torrent'.sel
    BY <2>2 DEF EInv, StartedIsSelected
  <2>5. CASE Go("light", "set")
    BY <1>a, <2>1, <2>3, <2>4, <2>5 DEF Places, Starting, Chosen
  <2>6. CASE Ends("light")
    BY <1>b, <2>1, <2>4, <2>6, SameTable
  <2> QED
    BY <2>1, <2>5, <2>6
<1>13. CASE SetSelection("light")
  <2>1. UNCHANGED row /\ at["light"] = "set" /\ torrent' \in {torrent, WithSel(sel["light"])}
        /\ Ends("light")
    BY <1>13 DEF SetSelection, Served, Refused, Call, Fault, db
  <2>2. FilesOf(In(Started)) \subseteq sel["light"]
    BY <2>1 DEF EInv, InHand, Choosing
  <2>3. torrent'.there => FilesOf(In(Started)) \subseteq torrent'.sel
    BY <1>0, <2>1, <2>2 DEF WithSel, EInv, StartedIsSelected
  <2> QED
    BY <1>b, <2>1, <2>3, SameTable
<1> QED
  BY <1>2, <1>3, <1>4, <1>5, <1>6, <1>7, <1>8, <1>9, <1>10, <1>11, <1>12, <1>13 DEF LightStep

LEMMA WorldEInv ==
    ASSUME TypeOK, EInv, ClientStep \/ Freeze \/ Thaw \/ Lose \/ Crash
    PROVE  EInv'
<1>1. RowStep
  BY Steps DEF Next
<1>2. CASE ClientStep \/ Freeze \/ Thaw \/ Lose
  <2>1. UNCHANGED <<row, at, sel, picked>>
    BY <1>2 DEF ClientStep, Fetch, Check, Freeze, Thaw, Lose, db, tasks
  <2>2. UNCHANGED torrent \/ ~torrent'.there
    BY <1>2 DEF ClientStep, Fetch, Check, Freeze, Thaw, Lose, Absent, client
  <2> QED
    BY <1>1, <2>1, <2>2, SameTable, StillPolled, Beside DEF EInv, Calm, Polled
<1>3. CASE Crash
  <2>1. UNCHANGED <<row, torrent>> /\ at' = [p \in Tasks |-> "idle"]
    BY <1>3 DEF Crash, db, client
  <2>2. Calm' /\ at'["light"] \notin Choosing /\ at'["poll"] \notin Polling
    BY <2>1 DEF Calm, Tasks, Choosing, Polling, Places
  <2> QED
    BY <1>1, <2>1, <2>2, SameTable, Leaves DEF Polled
<1> QED
  BY <1>2, <1>3

LEMMA SelectedSteps ==
    ASSUME TypeOK, EInv, [Next]_vars, [~Replay]_vars
    PROVE  EInv'
<1>1. CASE UNCHANGED vars
  <2>1. UNCHANGED <<row, at, sel, picked, torrent>>
    BY <1>1 DEF vars, db, tasks, client
  <2>2. RowStep
    BY <2>1, SameRows
  <2> QED
    BY <2>1, <2>2, SameTable, StillPolled, Beside DEF EInv, Calm, Polled
<1>2. CASE GateStep
  <2>1. Replay
    BY <1>2 DEF GateStep, RunKept, Finish, ReadSelection, StopEmpty, SetSelection, ReadRelease,
       RemoveTorrent, Forget, EInv, Calm
  <2> QED
    BY <1>1, <2>1
<1> QED
  BY <1>1, <1>2, RequestEInv, HeavyEInv, PollEInv, LightEInv, WorldEInv DEF Next

LEMMA SelectedAtFirst == Init => EInv
<1> SUFFICES ASSUME Init
             PROVE  EInv
  OBVIOUS
<1>1. Calm
  BY DEF Init, Calm, Tasks, Places
<1>2. at["light"] = "idle" /\ at["poll"] = "idle" /\ ~torrent.there
  BY DEF Init, Tasks, Absent
<1> QED
  BY <1>1, <1>2 DEF EInv, InHand, Polled, StartedIsSelected, Choosing, Starting, Chosen, Polling

\* As long as the gate replays no kept work, every file of a started row stays selected in its
\* torrent, whatever was selected, cancelled, added, removed, refused, lost or cut off by a crash
\* in between (start_source, deselect, release_source, tick).
THEOREM SelectedUntilReplay == Spec /\ [][~Replay]_vars => []StartedIsSelected
<1>1. TypeOK /\ EInv /\ [Next]_vars /\ [~Replay]_vars => EInv'
  BY SelectedSteps
<1>2. EInv => StartedIsSelected
  BY DEF EInv
<1> QED
  BY <1>1, <1>2, SelectedAtFirst, TypeCorrect, PTL DEF Spec

-----------------------------------------------------------------------------
(* A client that always answers *)

NoFaults == MaxFaults = 0 /\ MaxFrozen = 0

\* Nothing is kept for a client that answers and is never frozen.
NoneKept ==
    /\ used \in [{"call", "frozen", "lost", "crash"} -> Nat]
    /\ here /\ deferred = {}

LEMMA NoFault ==
    ASSUME NoFaults, NoneKept
    PROVE  /\ \A result : ~Fault(result)
           /\ ~(used["call"] < MaxFaults) /\ ~(used["frozen"] < MaxFrozen)
<1>1. here /\ used["call"] \in Nat /\ used["frozen"] \in Nat /\ MaxFaults = 0 /\ MaxFrozen = 0
  BY DEF NoFaults, NoneKept
<1>2. ~(used["call"] < MaxFaults) /\ ~(used["frozen"] < MaxFrozen)
  BY <1>1
<1> QED
  BY <1>1, <1>2 DEF Fault

LEMMA KeptSteps ==
    ASSUME NoFaults, TypeOK, EInv, NoneKept, [Next]_vars
    PROVE  NoneKept' /\ ~Replay
<1> DEFINE Still == UNCHANGED <<here, deferred, used>>
<1>1. here /\ deferred = {} /\ ~Replay
  BY DEF NoneKept, Replay
<1> SUFFICES NoneKept'
  BY <1>1
<1>2. CASE Request \/ PollWake \/ UNCHANGED vars
  <2>1. Still
    BY <1>2 DEF Request, Want, Unwant, Cancel, Retry, Bind, PollWake, vars, world
  <2> QED
    BY <2>1 DEF NoneKept
<1>3. CASE LightStep
  <2>1. ~NotTaken
    BY NoFault DEF NotTaken
  <2>2. \A p : ReadSelection(p) \/ StopEmpty(p) \/ SetSelection(p) => Still
    BY <1>1, NoFault DEF ReadSelection, StopEmpty, SetSelection, Served, Call, world
  <2> QED
    BY <1>3, <2>1, <2>2 DEF LightStep, Promote, ReadSource, Select, Add, Record, StartTorrent, MoveStarted,
       TakeDeselect, Call, world, NoneKept
<1>4. CASE HeavyStep
  <2>1. \A p : ReadRelease(p) \/ RemoveTorrent(p) \/ Forget(p) => Still
    BY <1>1, NoFault DEF ReadRelease, RemoveTorrent, Forget, Served, Call, world
  <2>2. \A i \in Ids : Import(i) => Still
    BY DEF Import, world
  <2> QED
    BY <1>4, <2>1, <2>2 DEF HeavyStep, NoneKept
<1>5. CASE PollStep
  <2>1. ~PollError
    BY NoFault DEF PollError
  <2> QED
    BY <1>5, <2>1, NoFault DEF PollStep, PollRead, PollStatus, PollWrite, PollStop, PollLost, Call, world,
       NoneKept
<1>6. CASE ClientStep
  <2>1. Still
    BY <1>6, NoFault DEF ClientStep, Fetch, Check, world
  <2> QED
    BY <2>1 DEF NoneKept
<1>7. CASE Freeze \/ Thaw \/ Lose \/ Crash
  <2>1. UNCHANGED <<here, deferred>> /\ (Spend("lost") \/ Spend("crash"))
    BY <1>1, <1>7, NoFault DEF Freeze, Thaw, Lose, Crash
  <2>2. used' \in [{"call", "frozen", "lost", "crash"} -> Nat]
    BY <2>1 DEF Spend, NoneKept
  <2> QED
    BY <2>1, <2>2 DEF NoneKept
<1>8. ~GateStep
  BY <1>1 DEF GateStep, RunKept, Finish, ReadSelection, StopEmpty, SetSelection, ReadRelease,
     RemoveTorrent, Forget, EInv, Calm
<1> QED
  BY <1>2, <1>3, <1>4, <1>5, <1>6, <1>7, <1>8 DEF Next

\* With calls that are all answered and a client that is never frozen the gate has nothing to
\* replay, and every file of a started row is selected, crashes and lost torrents included.
COROLLARY StartedAlwaysSelected == NoFaults => (Spec => []StartedIsSelected)
<1> SUFFICES ASSUME NoFaults
             PROVE  Spec => []StartedIsSelected
  OBVIOUS
<1>1. Init => NoneKept
  BY DEF Init, NoneKept
<1>2. TypeOK /\ EInv /\ NoneKept /\ [Next]_vars => EInv' /\ NoneKept'
  BY KeptSteps, SelectedSteps
<1>3. EInv => StartedIsSelected
  BY DEF EInv
<1> QED
  BY <1>1, <1>2, <1>3, SelectedAtFirst, TypeCorrect, PTL DEF Spec
=============================================================================
