------------------------------ MODULE Transfers ------------------------------
(***************************************************************************)
(* The downloads of one source and its torrent in the download client:     *)
(* db/downloads.rs, jobs/transfer.rs, jobs/watch/poll.rs, the release of    *)
(* jobs/import.rs and the work jobs/watch/core_limits.rs keeps for a client *)
(* that cannot be called.                                                   *)
(*                                                                         *)
(* Four tasks of the server touch the same rows and the same torrent, each  *)
(* with reads of the database and calls to the client in between:          *)
(*   "light"  the light lane's worker, running Transfer and Deselect jobs   *)
(*   "heavy"  the heavy lane's worker, importing and then releasing         *)
(*   "poll"   the poller                                                    *)
(*   "gate"   the core gate, replaying the work kept under client.deferred  *)
(* A step is one database transaction or one call to the client; what a     *)
(* task has read and not yet used is in sel, picked and snap.  Requests of  *)
(* the HTTP API are single transactions that queue a job.                   *)
(***************************************************************************)
EXTENDS Naturals, Sequences, FiniteSets, SequencesExt

CONSTANTS
    Roms,        \* the wanted entries, one rom each
    FileOf,      \* the file of the torrent best_file picks for a rom
    Seeds,       \* the seed policies the source may have: "none" or "keep"
    MaxRows,     \* bound on the rows of downloads
    MaxFaults,   \* bound on calls that fail and checks that fail
    MaxFrozen,   \* bound on how often the client is frozen
    MaxLost,     \* bound on how often the torrent is removed in the client
    MaxCrashes   \* bound on crashes of the server

Files == {FileOf[r] : r \in Roms}
Tasks == {"light", "heavy", "poll", "gate"}
Kept  == {"deselect", "release"}

ASSUME SourceAssumption == /\ DOMAIN FileOf = Roms
                           /\ Seeds \subseteq {"none", "keep"}
ASSUME RowsAssumption == MaxRows \in Nat

VARIABLES
    row,       \* downloads: a sequence of [rom, st], the id of a row its place
    bound,     \* whether the source is bound to a platform
    seed,      \* the source's seed policy
    clientId,  \* whether sources.client_id is set
    deferred,  \* the work kept under client.deferred
    light,     \* the jobs queued on the light lane
    at,        \* where each task is
    sel,       \* the selection a task has read
    picked,    \* the rows a task has read
    snap,      \* the status the client last answered the poller
    todo,      \* the kept work the gate has still to run
    served,    \* the kept work the client took
    torrent,   \* the torrent in the client: [there, sel, run]
    data,      \* what the client has of each file
    here,      \* whether the client runs, or is frozen for a core
    used       \* how often each bounded fault has happened

db      == <<row, bound, seed, clientId>>
tasks   == <<at, sel, picked, snap>>
replay  == <<todo, served>>
client  == <<torrent, data>>
world   == <<here, used>>
vars == <<db, deferred, light, tasks, replay, client, world>>

-----------------------------------------------------------------------------
(* The downloads table. *)

Open        == {"wanted", "queued", "transferring", "checking", "importing"}
Selected    == {"queued", "transferring", "checking", "importing"}
Started     == {"transferring", "checking"}
Cancellable == {"wanted", "queued", "transferring", "checking"}
States      == Open \union {"done", "bad", "failed", "cancelled"}

Edges(st) ==
    CASE st = "wanted"       -> {"queued", "cancelled"}
      [] st = "queued"       -> {"transferring", "failed", "cancelled"}
      [] st = "transferring" -> {"checking", "importing", "failed", "cancelled"}
      [] st = "checking"     -> {"transferring", "importing", "failed", "cancelled"}
      [] st = "importing"    -> {"done", "bad", "failed"}
      [] st = "failed"       -> {"queued"}
      [] OTHER               -> {}

CanBecome(from, to) == to \in Edges(from)

Ids           == DOMAIN row
In(states)    == {i \in Ids : row[i].st \in states}
FilesOf(ids)  == {FileOf[row[i].rom] : i \in ids}
Busy(r)       == \E i \in In(Open) : row[i].rom = r

\* Mutant of SelectedFiles: the selection of a pass forgets what runs already.
QueuedFiles == FilesOf(In({"queued"}))

\* The files that should be selected in the client.
SelectedFiles == FilesOf(In(Selected))

\* A rom has a verified file once a download of it was placed.
Have(r)       == \E i \in In({"done"}) : row[i].rom = r

\* best_file: a bound source's file, unless it already gave this rom a bad download.
HasFile(r) == bound /\ ~\E i \in In({"bad"}) : row[i].rom = r

\* set_state for each of ids, where the state machine allows it.
Movable(ids, to) == {i \in ids : CanBecome(row[i].st, to)}
WithState(ids, to) == [i \in Ids |-> IF i \in ids THEN [row[i] EXCEPT !.st = to] ELSE row[i]]
MoveAll(ids, to) == row' = WithState(Movable(ids, to), to)

NewRow(r) == [rom |-> r, st |-> IF HasFile(r) THEN "queued" ELSE "wanted"]

\* A job of the light lane joins one of its kind that has not started.
Submit(job) == light' = IF job \in Range(light) THEN light ELSE Append(light, job)

-----------------------------------------------------------------------------
(* The client.  A call it takes has its effect; one that fails may have had *)
(* it.  A frozen client takes nothing.                                      *)

Absent == [there |-> FALSE, sel |-> {}, run |-> FALSE]

WithSel(s)   == IF torrent.there THEN [torrent EXCEPT !.sel = s] ELSE torrent
Loaded(s)    == IF torrent.there THEN WithSel(s) ELSE [there |-> TRUE, sel |-> s, run |-> FALSE]
Running(yes) == IF torrent.there THEN [torrent EXCEPT !.run = yes] ELSE torrent

Spend(fault) == used' = [used EXCEPT ![fault] = @ + 1]

Call(result) == here /\ torrent' = result /\ UNCHANGED <<data, world>>

Fault(result) ==
    /\ \/ ~here /\ UNCHANGED <<torrent, used>>
       \/ here /\ used["call"] < MaxFaults /\ Spend("call") /\ torrent' \in {torrent, result}
    /\ UNCHANGED <<data, here>>

-----------------------------------------------------------------------------
(* Where a task goes next, and what it forgets when it ends. *)

NoSnap == [torrent |-> Absent, data |-> [f \in Files |-> "part"]]

Go(p, step) == at' = [at EXCEPT ![p] = step] /\ UNCHANGED <<sel, picked, snap>>

Ends(p) ==
    /\ at' = [at EXCEPT ![p] = IF p = "gate" THEN "next" ELSE "idle"]
    /\ sel' = [sel EXCEPT ![p] = {}]
    /\ picked' = [picked EXCEPT ![p] = {}]
    /\ snap' = IF p = "poll" THEN NoSnap ELSE snap

\* Client work that went through, which the gate remembers, or that is kept for later.
Served(p, op)  == /\ Ends(p)
                  /\ served' = IF p = "gate" THEN served \union {op} ELSE served
                  /\ UNCHANGED <<deferred, todo>>
Refused(p, op) == Ends(p) /\ deferred' = deferred \union {op} /\ UNCHANGED replay

Init ==
    /\ row = <<>> /\ bound \in BOOLEAN
    /\ seed \in Seeds /\ clientId = FALSE
    /\ deferred = {} /\ light = <<>>
    /\ at = [p \in Tasks |-> "idle"]
    /\ sel = [p \in Tasks |-> {}] /\ picked = [p \in Tasks |-> {}]
    /\ snap = NoSnap /\ todo = {} /\ served = {}
    /\ torrent = Absent /\ data = [f \in Files |-> "part"]
    /\ here = TRUE
    /\ used = [f \in {"call", "frozen", "lost", "crash"} |-> 0]

-----------------------------------------------------------------------------
(* Requests of the HTTP API, and a source that binds. *)

\* want_title: no second open download of a rom, none for a rom already verified.
MayWant(r) == ~Have(r) /\ ~Busy(r)

Want(r) ==
    /\ IF MayWant(r)
       THEN Len(row) < MaxRows /\ row' = Append(row, NewRow(r))
       ELSE UNCHANGED row
    /\ Submit("transfer")
    /\ UNCHANGED <<bound, seed, clientId, deferred, tasks, replay, client, world>>

\* A Deselect is queued only for rows the client had started.
AfterCancel(ids) ==
    IF ids \intersect In(Started) # {} THEN Submit("deselect") ELSE UNCHANGED light

Cancel(i) ==
    /\ CanBecome(row[i].st, "cancelled")
    /\ MoveAll({i}, "cancelled") /\ AfterCancel({i})
    /\ UNCHANGED <<bound, seed, clientId, deferred, tasks, replay, client, world>>

Unwant(r) ==
    LET ids == {i \in In(Cancellable) : row[i].rom = r} IN
    /\ row' = WithState(ids, "cancelled") /\ AfterCancel(ids)
    /\ UNCHANGED <<bound, seed, clientId, deferred, tasks, replay, client, world>>

\* Mutant of MayRetry: another open row of the rom does not matter.
RetriesAnyFailed(i) == row[i].st = "failed"

MayRetry(i) == row[i].st = "failed" /\ ~Busy(row[i].rom)

Retry(i) ==
    /\ MayRetry(i) /\ MoveAll({i}, "queued") /\ Submit("transfer")
    /\ UNCHANGED <<bound, seed, clientId, deferred, tasks, replay, client, world>>

Bind ==
    /\ ~bound /\ bound' = TRUE /\ Submit("transfer")
    /\ UNCHANGED <<row, seed, clientId, deferred, tasks, replay, client, world>>

-----------------------------------------------------------------------------
(* The Transfer job. *)

\* promote_wanted, the job's first transaction; with no client the job ends there.
Promote ==
    LET ids == {i \in In({"wanted"}) : HasFile(row[i].rom)} IN
    /\ at["light"] = "idle" /\ light # <<>> /\ Head(light) = "transfer"
    /\ light' = Tail(light)
    /\ row' = WithState(ids, "queued")
    /\ IF here THEN Go("light", "source") ELSE UNCHANGED tasks
    /\ UNCHANGED <<bound, seed, clientId, deferred, replay, client, world>>

\* start_source reads the row, the queued downloads and the selection at once.
ReadSource ==
    /\ at["light"] = "source"
    /\ IF In({"queued"}) = {}
       THEN Ends("light")
       ELSE /\ at' = [at EXCEPT !["light"] = IF clientId THEN "select" ELSE "add"]
            /\ sel' = [sel EXCEPT !["light"] = SelectedFiles]
            /\ picked' = [picked EXCEPT !["light"] = In({"queued"})]
            /\ UNCHANGED snap
    /\ UNCHANGED <<db, deferred, light, replay, client, world>>

\* Mutant of Select: a torrent the client does not know ends the pass.
SelectGivesUp ==
    /\ at["light"] = "select"
    /\ Call(WithSel(sel["light"]))
    /\ IF torrent.there THEN Go("light", "start") ELSE Ends("light")
    /\ UNCHANGED <<db, deferred, light, replay>>

\* set_wanted; a torrent the client does not know is forgotten and added again.
Select ==
    /\ at["light"] = "select"
    /\ Call(WithSel(sel["light"]))
    /\ IF torrent.there
       THEN Go("light", "start") /\ UNCHANGED clientId
       ELSE Go("light", "add") /\ clientId' = FALSE
    /\ UNCHANGED <<row, bound, seed, deferred, light, replay>>

Add ==
    /\ at["light"] = "add"
    /\ Call(Loaded(sel["light"]))
    /\ Go("light", "record")
    /\ UNCHANGED <<db, deferred, light, replay>>

Record ==
    /\ at["light"] = "record" /\ clientId' = TRUE /\ Go("light", "start")
    /\ UNCHANGED <<row, bound, seed, deferred, light, replay, client, world>>

\* An error the client will repeat, or a .torrent that is gone, fails the rows
\* read; any other keeps them queued and ends the pass.
Unanswered == UNCHANGED row \/ MoveAll(picked["light"], "failed")

NotTaken ==
    /\ \/ at["light"] = "select" /\ Fault(WithSel(sel["light"])) /\ Unanswered
       \/ at["light"] = "add" /\ Fault(Loaded(sel["light"])) /\ Unanswered
       \/ at["light"] = "start" /\ Fault(Running(TRUE)) /\ UNCHANGED row
    /\ Ends("light")
    /\ UNCHANGED <<bound, seed, clientId, deferred, light, replay>>

StartTorrent ==
    /\ at["light"] = "start"
    /\ Call(Running(TRUE))
    /\ IF torrent.there THEN Go("light", "move") ELSE Ends("light")
    /\ UNCHANGED <<db, deferred, light, replay>>

\* Mutant of StartedRows: the rows read before the call start, whatever they are now.
AllPicked == picked["light"]

\* Rows cancelled meanwhile stay cancelled, and their files are deselected again.
StartedRows == Movable(picked["light"], "transferring")

MoveStarted ==
    /\ at["light"] = "move"
    /\ row' = WithState(StartedRows, "transferring")
    /\ IF StartedRows # picked["light"] THEN Submit("deselect") ELSE UNCHANGED light
    /\ Ends("light")
    /\ UNCHANGED <<bound, seed, clientId, deferred, replay, client, world>>

-----------------------------------------------------------------------------
(* deselect, run by a Deselect job and by the gate's replay. *)

TakeDeselect ==
    /\ at["light"] = "idle" /\ light # <<>> /\ Head(light) = "deselect"
    /\ light' = Tail(light) /\ Go("light", "deselect")
    /\ UNCHANGED <<db, deferred, replay, client, world>>

\* Mutant of ReadSelection: a source without a torrent counts as not served.
ReadSelectionWaits(p) ==
    /\ at[p] = "deselect"
    /\ \/ ~(clientId /\ here) /\ Refused(p, "deselect")
       \/ /\ clientId /\ here
          /\ at' = [at EXCEPT ![p] = IF SelectedFiles = {} THEN "stop" ELSE "set"]
          /\ sel' = [sel EXCEPT ![p] = SelectedFiles]
          /\ UNCHANGED <<picked, snap, deferred, replay>>
    /\ UNCHANGED <<db, light, client, world>>

ReadSelection(p) ==
    /\ at[p] = "deselect"
    /\ \/ ~clientId /\ Served(p, "deselect")
       \/ clientId /\ ~here /\ Refused(p, "deselect")
       \/ /\ clientId /\ here
          /\ at' = [at EXCEPT ![p] = IF SelectedFiles = {} THEN "stop" ELSE "set"]
          /\ sel' = [sel EXCEPT ![p] = SelectedFiles]
          /\ UNCHANGED <<picked, snap, deferred, replay>>
    /\ UNCHANGED <<db, light, client, world>>

StopEmpty(p) ==
    /\ at[p] = "stop"
    /\ \/ Call(Running(FALSE)) /\ Go(p, "set") /\ UNCHANGED <<deferred, replay>>
       \/ Fault(Running(FALSE)) /\ Refused(p, "deselect")
    /\ UNCHANGED <<db, light>>

SetSelection(p) ==
    /\ at[p] = "set"
    /\ \/ Call(WithSel(sel[p])) /\ Served(p, "deselect")
       \/ Fault(WithSel(sel[p])) /\ Refused(p, "deselect")
    /\ UNCHANGED <<db, light>>

-----------------------------------------------------------------------------
(* An import's end, and release_source, run after it and by the replay. *)

\* want_again: a mismatch may open the rom again, while its title is still wanted,
\* which is left open here.  The file just gave a bad download, so the row waits.
WantAgain(rows, r) ==
    IF /\ ~Have(r) /\ Len(rows) < MaxRows
       /\ \A i \in DOMAIN rows : rows[i].rom = r => rows[i].st \notin Open
    THEN Append(rows, [rom |-> r, st |-> "wanted"])
    ELSE rows

Import(i) ==
    LET r == row[i].rom IN
    /\ at["heavy"] = "idle" /\ row[i].st = "importing"
    /\ \/ MoveAll({i}, "done")
       \/ MoveAll({i}, "failed")
       \/ MoveAll({i}, "bad")
       \/ row' = WantAgain(WithState({i}, "bad"), r)
    /\ Go("heavy", "release")
    /\ UNCHANGED <<bound, seed, clientId, deferred, light, replay, client, world>>

Releasable == In(Selected) = {} /\ In({"done"}) # {} /\ seed = "none" /\ clientId

ReadRelease(p) ==
    /\ at[p] = "release"
    /\ \/ ~Releasable /\ Served(p, "release")
       \/ Releasable /\ ~here /\ Refused(p, "release")
       \/ Releasable /\ here /\ Go(p, "remove") /\ UNCHANGED <<deferred, replay>>
    /\ UNCHANGED <<db, light, client, world>>

RemoveTorrent(p) ==
    /\ at[p] = "remove"
    /\ \/ Call(Absent) /\ Go(p, "forget") /\ UNCHANGED <<deferred, replay>>
       \/ Fault(Absent) /\ Refused(p, "release")
    /\ UNCHANGED <<db, light>>

Forget(p) ==
    /\ at[p] = "forget" /\ clientId' = FALSE /\ Served(p, "release")
    /\ UNCHANGED <<row, bound, seed, light, client, world>>

-----------------------------------------------------------------------------
(* The poller. *)

\* run: while downloads wait, each poll queues a Transfer.
PollWake ==
    /\ at["poll"] = "idle" /\ In({"wanted", "queued"}) # {} /\ Submit("transfer")
    /\ UNCHANGED <<db, deferred, tasks, replay, client, world>>

\* tick reads the started rows; a source without a client id is passed over.
PollRead ==
    /\ at["poll"] = "idle" /\ here /\ clientId /\ In(Started) # {}
    /\ at' = [at EXCEPT !["poll"] = "status"]
    /\ picked' = [picked EXCEPT !["poll"] = In(Started)]
    /\ UNCHANGED <<db, deferred, light, sel, snap, replay, client, world>>

PollStatus ==
    /\ at["poll"] = "status"
    /\ \/ /\ Call(torrent)
          /\ at' = [at EXCEPT !["poll"] = IF torrent.there THEN "write" ELSE "lost"]
          /\ snap' = [torrent |-> torrent, data |-> data]
          /\ UNCHANGED <<sel, picked>>
       \/ Fault(torrent) /\ Ends("poll")
    /\ UNCHANGED <<db, deferred, light, replay>>

\* observe: the state a file's bytes and the client's check call for.
Seen(i) ==
    CASE snap.data[FileOf[row[i].rom]] = "part" -> "transferring"
      [] snap.data[FileOf[row[i].rom]] = "full" -> "checking"
      [] OTHER                                  -> "importing"

Observed == {i \in picked["poll"] : CanBecome(row[i].st, Seen(i))}
AfterPoll == [i \in Ids |-> IF i \in Observed THEN [row[i] EXCEPT !.st = Seen(i)] ELSE row[i]]

\* should_stop, with the rows as the write leaves them and the client as the poll saw it.
ShouldStop ==
    /\ seed = "none" /\ snap.torrent.run
    /\ \A f \in snap.torrent.sel : snap.data[f] # "part"
    /\ \A i \in Ids : AfterPoll[i].st \notin {"queued", "transferring", "checking"}

PollWrite ==
    /\ at["poll"] = "write"
    /\ row' = AfterPoll
    /\ IF ShouldStop /\ \E i \in Observed : Seen(i) = "importing"
       THEN Go("poll", "halt")
       ELSE Ends("poll")
    /\ UNCHANGED <<bound, seed, clientId, deferred, light, replay, client, world>>

\* A torrent the client itself stopped with an error fails its rows.
PollError ==
    /\ at["poll"] = "write" /\ used["call"] < MaxFaults /\ Spend("call")
    /\ MoveAll(picked["poll"], "failed") /\ Ends("poll")
    /\ UNCHANGED <<bound, seed, clientId, deferred, light, replay, client, here>>

PollStop ==
    /\ at["poll"] = "halt"
    /\ Call(Running(FALSE)) \/ Fault(Running(FALSE))
    /\ Ends("poll")
    /\ UNCHANGED <<db, deferred, light, replay>>

PollLost ==
    /\ at["poll"] = "lost"
    /\ clientId' = FALSE /\ MoveAll(picked["poll"], "failed") /\ Ends("poll")
    /\ UNCHANGED <<bound, seed, deferred, light, replay, client, world>>

-----------------------------------------------------------------------------
(* The core gate: freezing the client and replaying the work kept for it. *)

\* follow_gate freezes between two passes, never while it replays.
Freeze ==
    /\ at["gate"] = "idle" /\ here /\ used["frozen"] < MaxFrozen
    /\ here' = FALSE /\ Spend("frozen")
    /\ UNCHANGED <<db, deferred, light, tasks, replay, client>>

Thaw ==
    /\ ~here /\ here' = TRUE
    /\ UNCHANGED <<db, deferred, light, tasks, replay, client, used>>

Replay ==
    /\ at["gate"] = "idle" /\ here /\ deferred # {}
    /\ todo' = deferred /\ Go("gate", "next")
    /\ UNCHANGED <<db, deferred, light, served, client, world>>

RunKept ==
    /\ at["gate"] = "next"
    /\ \E op \in todo : todo' = todo \ {op} /\ Go("gate", op)
    /\ UNCHANGED <<db, deferred, light, served, client, world>>

\* finish takes the served work off the list, also when it was asked for again meanwhile.
Finish ==
    /\ at["gate"] = "next" /\ todo = {}
    /\ deferred' = deferred \ served /\ served' = {} /\ Go("gate", "idle")
    /\ UNCHANGED <<db, light, todo, client, world>>

-----------------------------------------------------------------------------
(* The client's own doing, and a crash of the server. *)

Fetch(f) ==
    /\ here /\ torrent.run /\ f \in torrent.sel /\ data[f] = "part"
    /\ data' = [data EXCEPT ![f] = "full"]
    /\ UNCHANGED <<db, deferred, light, tasks, replay, torrent, world>>

Check(f) ==
    /\ here /\ torrent.there /\ data[f] = "full"
    /\ \/ data' = [data EXCEPT ![f] = "ok"] /\ UNCHANGED used
       \/ data' = [data EXCEPT ![f] = "part"] /\ used["call"] < MaxFaults /\ Spend("call")
    /\ UNCHANGED <<db, deferred, light, tasks, replay, torrent, here>>

Lose ==
    /\ torrent.there /\ here /\ used["lost"] < MaxLost /\ Spend("lost")
    /\ torrent' = Absent
    /\ UNCHANGED <<db, deferred, light, tasks, replay, data, here>>

\* Transfer and Deselect jobs are not run again after a restart; the kept work is.
Crash ==
    /\ used["crash"] < MaxCrashes /\ Spend("crash")
    /\ light' = <<>> /\ at' = [p \in Tasks |-> "idle"]
    /\ sel' = [p \in Tasks |-> {}] /\ picked' = [p \in Tasks |-> {}]
    /\ snap' = NoSnap /\ todo' = {} /\ served' = {}
    /\ UNCHANGED <<db, deferred, client, here>>

-----------------------------------------------------------------------------

LightStep ==
    \/ Promote \/ ReadSource \/ Select \/ Add \/ Record \/ StartTorrent \/ MoveStarted
    \/ NotTaken \/ TakeDeselect
    \/ ReadSelection("light") \/ StopEmpty("light") \/ SetSelection("light")

HeavyStep ==
    \/ \E i \in Ids : Import(i)
    \/ ReadRelease("heavy") \/ RemoveTorrent("heavy") \/ Forget("heavy")

PollStep == PollRead \/ PollStatus \/ PollWrite \/ PollError \/ PollStop \/ PollLost

GateStep ==
    \/ Replay \/ RunKept \/ Finish
    \/ ReadSelection("gate") \/ StopEmpty("gate") \/ SetSelection("gate")
    \/ ReadRelease("gate") \/ RemoveTorrent("gate") \/ Forget("gate")

ClientStep == \E f \in Files : Fetch(f) \/ Check(f)

Request ==
    \/ \E r \in Roms : Want(r) \/ Unwant(r)
    \/ \E i \in Ids : Cancel(i) \/ Retry(i)
    \/ Bind

Next ==
    \/ Request \/ LightStep \/ HeavyStep \/ PollWake \/ PollStep \/ GateStep
    \/ ClientStep \/ Freeze \/ Thaw \/ Lose \/ Crash

Spec == Init /\ [][Next]_vars

\* The workers and watchers are tasks of the runtime and run whenever they can.
Fairness ==
    /\ WF_vars(LightStep) /\ WF_vars(HeavyStep) /\ WF_vars(PollWake) /\ WF_vars(PollStep)
    /\ WF_vars(GateStep)

FairSpec == Spec /\ Fairness

-----------------------------------------------------------------------------
(* Properties. *)

TypeOK ==
    /\ row \in Seq([rom : Roms, st : States]) /\ Len(row) <= MaxRows
    /\ bound \in BOOLEAN
    /\ seed \in Seeds /\ clientId \in BOOLEAN
    /\ deferred \subseteq Kept /\ todo \subseteq Kept /\ served \subseteq Kept
    /\ light \in Seq({"transfer", "deselect"}) /\ IsInjective(light)
    /\ sel \in [Tasks -> SUBSET Files] /\ picked \in [Tasks -> SUBSET Ids]
    /\ torrent \in [there : BOOLEAN, sel : SUBSET Files, run : BOOLEAN]
    /\ data \in [Files -> {"part", "full", "ok"}]
    /\ here \in BOOLEAN

\* One rom has at most one row outside the ended states, whoever opened it: a
\* want, a retry of a failed row, or an import that opens the rom again.
OneOpenRow ==
    \A i, j \in In(Open) : row[i].rom = row[j].rom => i = j

\* Every file the client was told to fetch for a started row is still selected
\* in its torrent, whatever was selected, cancelled or added in between.  A
\* replay of the gate may break it.
StartedIsSelected ==
    torrent.there => FilesOf(In(Started)) \subseteq torrent.sel

\* An ended row stays ended but for a failed one that is retried: no answer of the
\* client, and no job that read the row earlier, brings a cancelled one back.
EndedStays ==
    [][\A i \in Ids : row[i].st \in {"done", "bad", "cancelled"} => row'[i] = row[i]]_vars

\* A queued row leaves the queue, once the client stays thawed.
QueuedLeaves ==
    \A i \in 1 .. MaxRows :
        <>[]here => (i \in In({"queued"}) ~> i \notin In({"queued"}))

\* The work kept for the client is taken off the list, once the client stays thawed.
KeptWorkEnds == <>[]here => []<>(deferred = {})

=============================================================================
