------------------------------ MODULE Scheduler ------------------------------
(***************************************************************************)
(* The job scheduler of mistarr-server: the `jobs` rows in SQLite, the     *)
(* channel and worker of each lane, the gate that holds the heavy and the  *)
(* background lane, the join of repeated requests, the DAT imports one     *)
(* import takes along as a batch, and the reconciliation at start.         *)
(*                                                                         *)
(* The body of a job is abstract: it passes checkpoints, and it ends.      *)
(***************************************************************************)
EXTENDS Integers, Sequences, FiniteSets

CONSTANTS
    Jobs,       \* the jobs requests ask for: [kind, payload, binds]
    Inline,     \* the job `start` runs before the lanes open (DetectClient)
    MaxId,      \* bound on row ids
    Keep,       \* finished rows `prune` keeps
    CoreNames,  \* the values of /tmp/CORENAME, MENU among them
    Lanes,      \* lanes that are opened: all four in the code, fewer in an instance
                \* whose jobs leave some of them idle
    Faults      \* which faults may occur: "leave", "write", "crash", "abort"

MENU == "MENU"

JobKind == {"scan", "import", "detect_client", "dat_import", "recompute_1g1r",
            "source_import", "resolve_magnet", "transfer", "deselect",
            "arcade_catalog", "chd_tracks", "remap_sources", "bind_source",
            "url_fetch"}

ASSUME JobsAssumption ==
    /\ \A j \in Jobs \cup {Inline} : /\ DOMAIN j = {"kind", "payload", "binds"}
                                     /\ j.kind \in JobKind
                                     /\ j.binds \in BOOLEAN
    /\ Inline.kind = "detect_client"
ASSUME BoundsAssumption == MaxId \in Nat /\ Keep \in Nat /\ MENU \in CoreNames
ASSUME FaultsAssumption == Faults \subseteq {"leave", "write", "crash", "abort"}

-----------------------------------------------------------------------------
(* Kinds, lanes and rows *)

Lane == {"heavy", "background", "light", "fetch"}

\* The workers: one per lane, and the one job `start` runs itself.
Runner == Lane \cup {"inline"}

LaneOf(j) ==
    CASE j.kind \in {"scan", "import", "arcade_catalog", "chd_tracks"} -> "heavy"
      [] j.kind \in {"dat_import", "recompute_1g1r", "source_import",
                     "remap_sources", "bind_source"}                   -> "background"
      [] j.kind = "url_fetch"                                          -> "fetch"
      [] OTHER                                                         -> "light"

ASSUME LanesAssumption == Lanes \subseteq Lane /\ \A j \in Jobs : LaneOf(j) \in Lanes

JobState == {"queued", "running", "paused", "done", "failed"}
Active   == {"queued", "running", "paused"}
Finished == {"done", "failed"}

\* Mutant: a request joins a job already running.
DedupeRunning(j) == {"queued", "running"}

\* The states of a row that a new request for the same job joins.
Dedupe(j) ==
    CASE j.kind \in {"arcade_catalog", "scan", "recompute_1g1r", "chd_tracks"}
                             -> {"queued", "paused"}
      [] j.kind = "import"   -> Active
      [] OTHER               -> {"queued"}

\* The jobs a restart runs again; the others fail as interrupted.
Revives(j) ==
    /\ j.kind \notin {"detect_client", "resolve_magnet", "transfer",
                      "deselect", "url_fetch"}
    /\ ~j.binds

\* A DAT import that names no version may lead or follow a batch.
Batches(j) == j.kind = "dat_import" /\ ~j.binds

Ids   == 1..MaxId
NoJob == [kind |-> "none", payload |-> "none", binds |-> FALSE]
NoRow == [job |-> NoJob, lane |-> "light", state |-> "absent"]
Row   == [job : Jobs \cup {Inline}, lane : Lane, state : JobState] \cup {NoRow}

VARIABLES
    rows,     \* the `jobs` table: id -> row
    phase,    \* the process: "down", "reconcile", "boot", "up", "stopping"
    todo,     \* `reconcile`: the open rows it has yet to handle
    seen,     \* `reconcile`: the jobs it has met
    calls,    \* rows `enqueue` has inserted and not yet dispatched
    chan,     \* lane -> ids sent to its channel
    pc,       \* runner -> where it is
    cur,      \* runner -> the id it holds
    cands,    \* `take_batch`: listed followers, not yet claimed
    batch,    \* followers taken along by the running DAT import
    exit,     \* how the import goes on once its followers are settled
    taken,    \* ids a batch took from their lane
    cancels,  \* open cancel flags: id -> set or not
    gate,     \* [core, manual]
    owed      \* history: requests no run has started for yet, but for those a failed
              \* write at the end of a pause takes with the row they joined

rowVars  == <<rows, owed>>
bootVars == <<phase, todo, seen>>
laneVars == <<chan, pc, cur>>
datVars  == <<cands, batch, exit, taken>>
vars == <<rowVars, bootVars, calls, laneVars, datVars, cancels, gate>>

Places == {"off", "insert", "recv", "gate", "start", "run", "held", "after",
           "drain", "take", "claim", "batch", "bheld", "release", "settle", "gone"}

TypeOK ==
    /\ rows \in [Ids -> Row]
    /\ phase \in {"down", "reconcile", "boot", "up", "stopping"}
    /\ todo \in SUBSET Ids
    /\ seen \in SUBSET (Jobs \cup {Inline})
    /\ calls \in SUBSET Ids
    /\ chan \in [Lane -> Seq(Ids)]
    /\ pc \in [Runner -> Places]
    /\ cur \in [Runner -> Ids \cup {0}]
    /\ cands \in SUBSET Ids
    /\ batch \in SUBSET Ids
    /\ exit \in {"run", "done", "failed", "stopped"}
    /\ taken \in SUBSET Ids
    /\ cancels \in [Ids -> {"none", "open", "set"}]
    /\ gate \in [core : CoreNames, manual : {"none", "paused", "running"}]
    /\ owed \in SUBSET Jobs

-----------------------------------------------------------------------------
(* The gate *)

CoreRunning == gate.core # MENU

PauseReason ==
    CASE gate.manual = "paused"  -> "manual"
      [] gate.manual = "running" -> "none"
      [] OTHER                   -> IF CoreRunning THEN "core" ELSE "none"

Held(r) ==
    CASE r = "heavy"      -> PauseReason # "none"
      [] r = "background" -> gate.manual = "paused"
      [] OTHER            -> FALSE

Stopping == phase = "stopping"

Open(id)   == rows[id].state \in Active
OpenIds    == {id \in Ids : Open(id)}

\* The table with one row in another state.
InState(id, state) == [rows EXCEPT ![id] = [job |-> @.job, lane |-> @.lane, state |-> state]]

\* SQLite's next rowid: one above the largest in the table.
IsNextId(id) ==
    /\ \A k \in Ids : k >= id => rows[k] = NoRow
    /\ id > 1 => rows[id - 1] # NoRow

\* An id some part of the process still refers to.
Referred(id) ==
    \/ id \in calls \cup taken
    \/ \E l \in Lane : \E i \in 1..Len(chan[l]) : chan[l][i] = id

\* What the write of a last state leaves: finished rows beyond Keep may be pruned once
\* they are an hour old, by when nothing refers to them.
Pruned(table) ==
    LET ended == {id \in Ids : table[id].state \in Finished} IN
    {table} \cup
    {[id \in Ids |-> IF id \in gone THEN NoRow ELSE table[id]] :
        gone \in {g \in SUBSET ended : /\ Cardinality(ended \ g) = Keep
                                      /\ \A id \in g : ~Referred(id)}}

-----------------------------------------------------------------------------
(* The process: start, reconciliation, shutdown, crash *)

Init ==
    /\ rows = [id \in Ids |-> NoRow]
    /\ phase = "down" /\ todo = {} /\ seen = {}
    /\ gate \in [core : CoreNames, manual : {"none"}]
    /\ owed = {}
    /\ calls = {}
    /\ chan = [l \in Lane |-> <<>>]
    /\ pc = [r \in Runner |-> "off"]
    /\ cur = [r \in Runner |-> 0]
    /\ cands = {} /\ batch = {} /\ exit = "run" /\ taken = {}
    /\ cancels = [id \in Ids |-> "none"]

\* A process starts: CORENAME is read before anything is queued.
Boot ==
    /\ phase = "down"
    /\ phase' = "reconcile"
    /\ todo' = OpenIds /\ seen' = {}
    /\ gate' \in [core : CoreNames, manual : {"none"}]
    /\ UNCHANGED <<rowVars, calls, laneVars, datVars, cancels>>

Send(id, l) ==
    /\ chan' = [chan EXCEPT ![l] = Append(@, id)]
    /\ cancels' = [cancels EXCEPT ![id] = IF @ = "none" THEN "open" ELSE @]

\* One row of `reconcile`, in id order: a repeat goes, a known kind is queued and
\* sent to its lane, any other fails.
Reconcile(id) ==
    /\ phase = "reconcile"
    /\ id \in todo /\ \A k \in todo : id <= k
    /\ todo' = todo \ {id}
    /\ seen' = seen \cup {rows[id].job}
    /\ \/ /\ rows[id].job \in seen
          /\ rows' = [rows EXCEPT ![id] = NoRow]
          /\ UNCHANGED <<chan, cancels>>
       \/ /\ rows[id].job \notin seen /\ Revives(rows[id].job)
          /\ LET l == LaneOf(rows[id].job) IN
                /\ rows' = [rows EXCEPT ![id] = [job |-> @.job, lane |-> l, state |-> "queued"]]
                /\ Send(id, l)
       \/ /\ rows[id].job \notin seen /\ ~Revives(rows[id].job)
          /\ rows' = InState(id, "failed")
          /\ UNCHANGED <<chan, cancels>>
    /\ UNCHANGED <<phase, owed, calls, pc, cur, datVars, gate>>

Reconciled ==
    /\ phase = "reconcile" /\ todo = {}
    /\ phase' = "boot"
    /\ pc' = [pc EXCEPT !["inline"] = "insert"]
    /\ UNCHANGED <<rowVars, todo, seen, calls, chan, cur, datVars, cancels, gate>>

\* `run_inline`: a row like any other, on no channel.
RunInline ==
    /\ pc["inline"] = "insert"
    /\ \E id \in Ids :
          /\ IsNextId(id)
          /\ rows' = [rows EXCEPT ![id] = [job |-> Inline, lane |-> "light", state |-> "queued"]]
          /\ cur' = [cur EXCEPT !["inline"] = id]
          /\ cancels' = [cancels EXCEPT ![id] = "open"]
    /\ pc' = [pc EXCEPT !["inline"] = "start"]
    /\ UNCHANGED <<owed, bootVars, calls, chan, datVars, gate>>

\* `Scheduler::start`, once the inline job has ended.
OpenLanes ==
    /\ phase = "boot" /\ pc["inline"] = "gone"
    /\ phase' = "up"
    /\ pc' = [r \in Runner |-> IF r \in Lanes THEN "recv" ELSE "gone"]
    /\ UNCHANGED <<rowVars, todo, seen, calls, chan, cur, datVars, cancels, gate>>

BeginShutdown ==
    /\ phase = "up"
    /\ phase' = "stopping"
    /\ UNCHANGED <<rowVars, todo, seen, calls, laneVars, datVars, cancels, gate>>

\* The process is gone; only the table stays.
GoDown ==
    /\ phase' = "down" /\ todo' = {} /\ seen' = {}
    /\ calls' = {}
    /\ chan' = [l \in Lane |-> <<>>]
    /\ pc' = [r \in Runner |-> "off"]
    /\ cur' = [r \in Runner |-> 0]
    /\ cands' = {} /\ batch' = {} /\ exit' = "run" /\ taken' = {}
    /\ cancels' = [id \in Ids |-> "none"]
    /\ gate' = [gate EXCEPT !.manual = "none"]
    /\ UNCHANGED rowVars

\* Every lane has ended; requests not yet dispatched are dropped with the process.
Stop == Stopping /\ (\A l \in Lane : pc[l] = "gone") /\ GoDown

Crash == "crash" \in Faults /\ phase # "down" /\ GoDown

\* A lane that does not stop in time is aborted where it waits.
Abort(l) ==
    /\ "abort" \in Faults /\ Stopping /\ pc[l] # "gone"
    /\ pc' = [pc EXCEPT ![l] = "gone"]
    /\ cur' = [cur EXCEPT ![l] = 0]
    /\ UNCHANGED <<rowVars, bootVars, calls, chan, datVars, cancels, gate>>

-----------------------------------------------------------------------------
(* Requests *)

\* Requests whose coverage by a later run is promised: those a restart keeps, of a
\* kind that never joins a run already under way.
Owes(j) == Revives(j) /\ Dedupe(j) # Active

\* The row insert of `enqueue`, or the row it joins, in one write.
Request(j) ==
    /\ phase \in {"boot", "up", "stopping"}
    /\ LET same == {id \in Ids : rows[id].job = j /\ rows[id].state \in Dedupe(j)} IN
          \/ same # {} /\ UNCHANGED <<rows, calls>>
          \/ /\ same = {}
             /\ \E id \in Ids :
                   /\ IsNextId(id)
                   /\ rows' = [rows EXCEPT ![id] =
                                  [job |-> j, lane |-> LaneOf(j), state |-> "queued"]]
                   /\ calls' = calls \cup {id}
    /\ owed' = IF Owes(j) THEN owed \cup {j} ELSE owed
    /\ UNCHANGED <<bootVars, laneVars, datVars, cancels, gate>>

\* The rest of `enqueue`: to the lane, or nowhere when the lane has ended.
Dispatch(id) ==
    /\ id \in calls
    /\ calls' = calls \ {id}
    /\ LET l == LaneOf(rows[id].job) IN
          \/ pc[l] # "gone" /\ Send(id, l)
          \/ /\ pc[l] = "gone"
             /\ cancels' = [cancels EXCEPT ![id] = "none"]
             /\ UNCHANGED chan
    /\ UNCHANGED <<rowVars, bootVars, pc, cur, datVars, gate>>

\* A handler's future is dropped with its connection while the insert runs.
Leave(id) ==
    /\ "leave" \in Faults /\ phase \in {"up", "stopping"}
    /\ id \in calls
    /\ calls' = calls \ {id}
    /\ UNCHANGED <<rowVars, bootVars, laneVars, datVars, cancels, gate>>

\* Only a URL fetch is ever cancelled.
Cancel(id) ==
    /\ rows[id].job.kind = "url_fetch" /\ cancels[id] = "open"
    /\ cancels' = [cancels EXCEPT ![id] = "set"]
    /\ UNCHANGED <<rowVars, bootVars, calls, laneVars, datVars, gate>>

\* The watcher of /tmp/CORENAME, which ends with the shutdown signal.
SetCorename(c) ==
    /\ phase = "up" /\ gate.core # c
    /\ gate' = [core |-> c, manual |-> "none"]
    /\ UNCHANGED <<rowVars, bootVars, calls, laneVars, datVars, cancels>>

\* POST /system/pause and /system/resume; after the shutdown signal no worker waits for
\* the gate.
SetOverride(m) ==
    /\ phase = "up"
    /\ gate' = [gate EXCEPT !.manual = m]
    /\ UNCHANGED <<rowVars, bootVars, calls, laneVars, datVars, cancels>>

-----------------------------------------------------------------------------
(* A lane *)

\* Mutant: the lane does not look whether a batch took the job.
RecvTaken(l) ==
    /\ pc[l] = "recv" /\ chan[l] # <<>>
    /\ chan' = [chan EXCEPT ![l] = Tail(@)]
    /\ pc' = [pc EXCEPT ![l] = "gate"]
    /\ cur' = [cur EXCEPT ![l] = Head(chan[l])]
    /\ UNCHANGED <<rowVars, bootVars, calls, datVars, cancels, gate>>

\* The next job of the channel; one a batch took is dropped.
Recv(l) ==
    /\ pc[l] = "recv" /\ chan[l] # <<>>
    /\ chan' = [chan EXCEPT ![l] = Tail(@)]
    /\ LET id == Head(chan[l]) IN
          \/ /\ id \in taken
             /\ taken' = taken \ {id}
             /\ UNCHANGED <<pc, cur>>
          \/ /\ id \notin taken
             /\ pc' = [pc EXCEPT ![l] = "gate"]
             /\ cur' = [cur EXCEPT ![l] = id]
             /\ UNCHANGED taken
    /\ UNCHANGED <<rowVars, bootVars, calls, cands, batch, exit, cancels, gate>>

PassGate(l) ==
    /\ pc[l] = "gate" /\ ~Held(l)
    /\ pc' = [pc EXCEPT ![l] = "start"]
    /\ UNCHANGED <<rowVars, bootVars, calls, chan, cur, datVars, cancels, gate>>

LaneStops(l) ==
    /\ pc[l] \in {"recv", "gate"} /\ Stopping
    /\ pc' = [pc EXCEPT ![l] = "gone"]
    /\ cur' = [cur EXCEPT ![l] = 0]
    /\ UNCHANGED <<rowVars, bootVars, calls, chan, datVars, cancels, gate>>

\* Where a runner goes when its job has ended.
Onward(r) == CASE r = "heavy"  -> "after"
               [] r = "inline" -> "gone"
               [] OTHER        -> "recv"

Leaves(r) ==
    /\ pc' = [pc EXCEPT ![r] = Onward(r)]
    /\ cur' = [cur EXCEPT ![r] = 0]

\* The write of a job's last state, which may fail and then leaves the row as it was.
LastState(id, state) ==
    /\ rows' \in (IF state = "queued" THEN {InState(id, state)}
                  ELSE Pruned(InState(id, state)))
                 \cup (IF "write" \in Faults THEN {rows} ELSE {})
    /\ cancels' = [cancels EXCEPT ![id] = "none"]

Conclude(r, state) == LastState(cur[r], state) /\ Leaves(r)

Stopped(r) == Stopping \/ cancels[cur[r]] = "set"

\* The first step of `execute` for a job that may start.
Start(r) ==
    /\ pc[r] = "start" /\ ~Stopped(r)
    /\ rows' = InState(cur[r], "running")
    /\ pc' = [pc EXCEPT ![r] = IF Batches(rows[cur[r]].job) THEN "take" ELSE "run"]
    /\ owed' = owed \ {rows[cur[r]].job}
    /\ UNCHANGED <<bootVars, calls, chan, cur, datVars, cancels, gate>>

\* The row cannot be marked running: `execute` returns and the lane goes on.
StartFails(r) ==
    /\ "write" \in Faults /\ r \in Lane
    /\ pc[r] = "start" /\ ~Stopped(r)
    /\ cancels' = [cancels EXCEPT ![cur[r]] = "none"]
    /\ Leaves(r)
    /\ UNCHANGED <<rowVars, bootVars, calls, chan, datVars, gate>>

\* Shutdown or a cancel, seen before the start, at a checkpoint or in a pause.
\* Shutdown wins: the row is queued for the next process.
StopJob(r) ==
    /\ pc[r] \in {"start", "run", "held"} /\ Stopped(r)
    /\ Conclude(r, IF Stopping THEN "queued" ELSE "failed")
    /\ UNCHANGED <<owed, bootVars, calls, chan, datVars, gate>>

\* Mutant: a checkpoint waits for the user's pause only.
PauseManual(r) ==
    /\ pc[r] = "run" /\ gate.manual = "paused" /\ ~Stopped(r)
    /\ rows' = InState(cur[r], "paused")
    /\ pc' = [pc EXCEPT ![r] = "held"]
    /\ UNCHANGED <<owed, bootVars, calls, chan, cur, datVars, cancels, gate>>

\* Mutant: a paused job wakes for the menu only, not for Run now.
UnpauseAtMenu(r) ==
    /\ pc[r] = "held" /\ ~CoreRunning /\ ~Held(r) /\ ~Stopped(r)
    /\ rows' = InState(cur[r], "running")
    /\ pc' = [pc EXCEPT ![r] = "run"]
    /\ owed' = owed \ {rows[cur[r]].job}
    /\ UNCHANGED <<bootVars, calls, chan, cur, datVars, cancels, gate>>

\* A checkpoint under a held gate, and its end.
Pause(r) ==
    /\ pc[r] = "run" /\ Held(r) /\ ~Stopped(r)
    /\ rows' = InState(cur[r], "paused")
    /\ pc' = [pc EXCEPT ![r] = "held"]
    /\ UNCHANGED <<owed, bootVars, calls, chan, cur, datVars, cancels, gate>>

Unpause(r) ==
    /\ pc[r] = "held" /\ ~Held(r) /\ ~Stopped(r)
    /\ rows' = InState(cur[r], "running")
    /\ pc' = [pc EXCEPT ![r] = "run"]
    /\ owed' = owed \ {rows[cur[r]].job}
    /\ UNCHANGED <<bootVars, calls, chan, cur, datVars, cancels, gate>>

\* Row id stands for a request for job j.
Covers(id, j) == rows[id].job = j /\ rows[id].state \in Dedupe(j)

\* The row cannot be marked running again: the body returns the error and the row, which
\* is still paused, fails. A request that joined it meanwhile is lost with it, unless
\* another row stands for it too.
UnpauseFails(r) ==
    /\ "write" \in Faults
    /\ pc[r] = "held" /\ ~Held(r) /\ ~Stopped(r)
    /\ Conclude(r, "failed")
    /\ LET j == rows[cur[r]].job
           lost == rows' # rows /\ \A id \in Ids \ {cur[r]} : ~Covers(id, j)
       IN owed' = IF lost THEN owed \ {j} ELSE owed
    /\ UNCHANGED <<bootVars, calls, chan, datVars, gate>>

\* The body returns, with an error where a row cannot be marked paused; a DAT import
\* may end before it looks for followers.
Finish(r) ==
    /\ pc[r] \in {"run", "take"}
    /\ \E state \in Finished : Conclude(r, state)
    /\ UNCHANGED <<owed, bootVars, calls, chan, datVars, gate>>

\* `after_heavy` reads the queue, and only then ends Run now.
ReadHeavyQueue ==
    /\ pc["heavy"] = "after"
    /\ LET empty == \A id \in OpenIds : rows[id].lane # "heavy" IN
          pc' = [pc EXCEPT !["heavy"] = IF empty THEN "drain" ELSE "recv"]
    /\ UNCHANGED <<rowVars, bootVars, calls, chan, cur, datVars, cancels, gate>>

EndRunNow ==
    /\ pc["heavy"] = "drain"
    /\ pc' = [pc EXCEPT !["heavy"] = "recv"]
    /\ gate' = [gate EXCEPT !.manual = IF @ = "running" THEN "none" ELSE @]
    /\ UNCHANGED <<rowVars, bootVars, calls, chan, cur, datVars, cancels>>

-----------------------------------------------------------------------------
(* A DAT import and the queued imports it takes along *)

bg   == "background"
lead == cur[bg]

\* `take_batch` lists queued imports; which of them can be read and fit is open.
ListBatch ==
    /\ pc[bg] = "take"
    /\ \E found \in SUBSET {id \in Ids \ {lead} : /\ rows[id].state = "queued"
                                                  /\ Batches(rows[id].job)
                                                  /\ cancels[id] # "set"} :
          /\ cands' = found
          /\ pc' = [pc EXCEPT ![bg] = IF found = {} THEN "run" ELSE "claim"]
    /\ UNCHANGED <<rowVars, bootVars, calls, chan, cur, batch, exit, taken, cancels, gate>>

\* One follower is taken from the lane, if its row can still be claimed.
Claim(id) ==
    /\ pc[bg] = "claim"
    /\ id \in cands /\ \A k \in cands : id <= k
    /\ cands' = cands \ {id}
    /\ \/ /\ rows[id].state = "queued"
          /\ rows' = InState(id, "running")
          /\ owed' = owed \ {rows[id].job}
          /\ taken' = taken \cup {id}
          /\ batch' = batch \cup {id}
          /\ cancels' = [cancels EXCEPT ![id] = IF @ = "none" THEN "open" ELSE @]
       \/ /\ rows[id].state # "queued" \/ "write" \in Faults
          /\ taken' = taken \ {id}
          /\ UNCHANGED <<rowVars, batch, cancels>>
    /\ pc' = IF cands' # {} THEN pc
             ELSE [pc EXCEPT ![bg] = IF batch' = {} THEN "run" ELSE "batch"]
    /\ UNCHANGED <<bootVars, calls, chan, cur, exit, gate>>

Marked(ids, state) ==
    [id \in Ids |-> IF id \in ids
                    THEN [job |-> rows[id].job, lane |-> rows[id].lane, state |-> state]
                    ELSE rows[id]]

\* The sets of followers whose rows are written: a write that fails is only logged.
Written == IF "write" \in Faults THEN SUBSET batch ELSE {batch}

\* The import in RAM is given up for a pause and made again after it.
BatchPause ==
    /\ pc[bg] = "batch" /\ Held(bg) /\ ~Stopping
    /\ \E ids \in Written : rows' = Marked(ids \cup {lead}, "paused")
    /\ pc' = [pc EXCEPT ![bg] = "bheld"]
    /\ UNCHANGED <<owed, bootVars, calls, chan, cur, datVars, cancels, gate>>

BatchResume ==
    /\ pc[bg] = "bheld" /\ ~Held(bg) /\ ~Stopping
    /\ \E ids \in Written : rows' = Marked(ids \cup {lead}, "running")
    /\ pc' = [pc EXCEPT ![bg] = "batch"]
    /\ UNCHANGED <<owed, bootVars, calls, chan, cur, datVars, cancels, gate>>

BatchStop ==
    /\ pc[bg] \in {"batch", "bheld"} /\ Stopping
    /\ \E ids \in Written : rows' = Marked(ids, "running")
    /\ exit' = "stopped"
    /\ pc' = [pc EXCEPT ![bg] = "release"]
    /\ UNCHANGED <<owed, bootVars, calls, chan, cur, cands, batch, taken, cancels, gate>>

\* The lead's row cannot be marked paused, or running again: the followers are marked
\* running, the batch is given up and the lead fails.
BatchMarkFails ==
    /\ "write" \in Faults /\ ~Stopping
    /\ \/ /\ pc[bg] = "batch" /\ Held(bg)
          /\ \E left \in SUBSET batch :
                rows' = [id \in Ids |-> IF id \in left THEN Marked(batch, "paused")[id]
                                                      ELSE Marked(batch, "running")[id]]
       \/ /\ pc[bg] = "bheld" /\ ~Held(bg)
          /\ \E ids \in Written : rows' = Marked(ids, "running")
    /\ exit' = "failed"
    /\ pc' = [pc EXCEPT ![bg] = "release"]
    /\ UNCHANGED <<owed, bootVars, calls, chan, cur, cands, batch, taken, cancels, gate>>

\* No room for a copy (the lead goes on alone), or an error that ends the lead.
BatchGivesUp ==
    /\ pc[bg] = "batch"
    /\ exit' \in {"run", "failed"}
    /\ pc' = [pc EXCEPT ![bg] = "release"]
    /\ UNCHANGED <<rowVars, bootVars, calls, chan, cur, cands, batch, taken, cancels, gate>>

\* A follower failed after some of its members were stored: it fails, the rest start over.
BatchDirty(id) ==
    /\ pc[bg] = "batch" /\ id \in batch
    /\ batch' = batch \ {id}
    /\ LastState(id, "failed")
    /\ UNCHANGED <<owed, bootVars, calls, laneVars, cands, exit, taken, gate>>

\* The copy is on the card: each import of the batch has its own result.
BatchEnds ==
    /\ pc[bg] = "batch"
    /\ exit' \in {"done", "failed"}
    /\ pc' = [pc EXCEPT ![bg] = "settle"]
    /\ UNCHANGED <<rowVars, bootVars, calls, chan, cur, cands, batch, taken, cancels, gate>>

Settle(id) ==
    /\ pc[bg] = "settle" /\ id \in batch
    /\ batch' = batch \ {id}
    /\ \E state \in Finished : LastState(id, state)
    /\ UNCHANGED <<owed, bootVars, calls, laneVars, cands, exit, taken, gate>>

\* Mutant: a released follower stays taken, so its lane drops it.
ReleaseTaken(id) ==
    /\ pc[bg] = "release" /\ id \in batch
    /\ batch' = batch \ {id}
    /\ rows' = [rows EXCEPT ![id] = [job |-> @.job, lane |-> bg, state |-> "queued"]]
    /\ UNCHANGED <<owed, bootVars, calls, laneVars, cands, exit, taken, cancels, gate>>

Release(id) ==
    /\ pc[bg] = "release" /\ id \in batch
    /\ batch' = batch \ {id}
    /\ taken' = taken \ {id}
    /\ rows' \in {[rows EXCEPT ![id] = [job |-> @.job, lane |-> bg, state |-> "queued"]]}
                 \cup (IF "write" \in Faults THEN {rows} ELSE {})
    /\ UNCHANGED <<owed, bootVars, calls, laneVars, cands, exit, cancels, gate>>

BatchOver ==
    /\ pc[bg] \in {"settle", "release"} /\ batch = {}
    /\ exit' = "run"
    /\ IF exit = "run"
       THEN pc' = [pc EXCEPT ![bg] = "run"] /\ UNCHANGED <<rows, cur, cancels>>
       ELSE Conclude(bg, IF exit = "stopped" THEN "queued" ELSE exit)
    /\ UNCHANGED <<owed, bootVars, calls, chan, cands, batch, taken, gate>>

-----------------------------------------------------------------------------
DatStep == ListBatch \/ (\E id \in Ids : Claim(id)) \/ BatchGivesUp \/ BatchEnds
           \/ BatchResume \/ BatchStop
           \/ (\E id \in Ids : Settle(id) \/ Release(id)) \/ BatchOver

\* What `execute` does with the job a runner holds, its body's work and end aside.
JobStep(r) == Start(r) \/ StopJob(r) \/ Unpause(r)

LaneStep(l) == Recv(l) \/ PassGate(l) \/ LaneStops(l)

Next ==
    \/ Boot \/ Reconciled \/ RunInline \/ OpenLanes
    \/ BeginShutdown \/ Stop \/ Crash
    \/ \E id \in Ids : Reconcile(id) \/ Dispatch(id) \/ Leave(id) \/ Cancel(id)
                       \/ BatchDirty(id)
    \/ \E j \in Jobs : Request(j)
    \/ \E c \in CoreNames : SetCorename(c)
    \/ \E m \in {"paused", "running"} : SetOverride(m)
    \/ \E l \in Lane : LaneStep(l) \/ Abort(l)
    \/ \E r \in Runner : JobStep(r) \/ StartFails(r) \/ Pause(r) \/ UnpauseFails(r)
                         \/ Finish(r)
    \/ ReadHeavyQueue \/ EndRunNow
    \/ DatStep \/ BatchPause \/ BatchMarkFails

Spec == Init /\ [][Next]_vars

\* A task that can go on does: the runtime polls every ready task, a channel or the gate
\* wakes its receiver, and a job's body reaches its next checkpoint.
Fairness ==
    /\ WF_vars(Reconciled) /\ WF_vars(RunInline) /\ WF_vars(OpenLanes)
    /\ \A id \in Ids : WF_vars(Reconcile(id)) /\ WF_vars(Dispatch(id))
    /\ \A l \in Lane : WF_vars(LaneStep(l))
    /\ \A r \in Runner : WF_vars(JobStep(r)) /\ WF_vars(Pause(r))
    /\ WF_vars(ReadHeavyQueue) /\ WF_vars(EndRunNow)
    /\ WF_vars(DatStep) /\ WF_vars(BatchPause)

\* A body whose lane is free comes to its end.
BodiesEnd == \A r \in Runner : WF_vars(Finish(r))

FairSpec == Spec /\ Fairness

-----------------------------------------------------------------------------
(* Properties *)

Sent(id)  == \E l \in Lane : \E i \in 1..Len(chan[l]) : chan[l][i] = id
Waits(id) == /\ id \notin taken
             /\ \/ id \in calls \/ Sent(id)
                \/ \E r \in Runner : cur[r] = id /\ pc[r] \in {"gate", "start"}
Works(id) == \/ id \in batch
             \/ \E r \in Runner : cur[r] = id /\ pc[r] \notin {"gate", "start"}

\* While the process runs, a queued row is on its way to its lane (in the call that
\* inserted it, in a channel, or held by a worker before its start), and a running or
\* paused row is in the hands of a worker or of a batch. A row outside both would keep
\* later requests joining a job nobody runs: the comment on JobState::Queued, "Waiting
\* for its lane", and enqueue's "hands it to its lane".
NothingStranded ==
    phase \in {"boot", "up"} =>
        \A id \in Ids : /\ rows[id].state = "queued" => Waits(id)
                        /\ rows[id].state \in {"running", "paused"} => Works(id)

\* A request a restart keeps, whose kind joins only jobs yet to start or waiting at the
\* gate, always has such a row before it: joins, batches, shutdown, a crash and the
\* reconciliation of repeats lose none (Dedupe's "whose run still covers the request").
\* One way to lose a request is set aside with `owed`: UnpauseFails, where it joined a
\* paused job whose row then cannot be marked running again.
NoRequestLost == \A j \in owed : \E id \in Ids : Covers(id, j)

\* What a worker or a batch works on is open and in nobody else's hands: no finished
\* job starts again, and a follower is not also run by its lane (`skip`).
OneWorker ==
    \A r \in Runner : cur[r] # 0 =>
        /\ Open(cur[r])
        /\ cur[r] \notin batch
        /\ \A s \in Runner : cur[s] = cur[r] => s = r

\* A finished row never changes again, except that it may be deleted.
FinishedStays ==
    [][\A id \in Ids : rows[id].state \in Finished => rows'[id] \in {rows[id], NoRow}]_vars

\* Every accepted job ends, if bodies do and from some point on the process runs and no
\* lane is held.
EveryJobEnds ==
    BodiesEnd /\ <>[](phase = "up" /\ \A l \in Lane : ~Held(l)) =>
        \A id \in Ids : [](Open(id) => <>(~Open(id)))

\* A core that stays loaded without an override ends up with no heavy job at work: each
\* reaches a checkpoint and waits there (ARCHITECTURE.md, "Pausing for the core").
HeldLaneRests ==
    <>[](phase = "up" /\ Held("heavy")) =>
        <>[](pc["heavy"] \in {"recv", "gate", "held"})

=============================================================================
