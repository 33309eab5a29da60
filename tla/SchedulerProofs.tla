---------------------------- MODULE SchedulerProofs ----------------------------
(***************************************************************************)
(* What is proved of Scheduler for every set of jobs, every bound and      *)
(* every choice of faults: type correctness, that a job is never in two    *)
(* hands (OneWorker), that a finished row stays (FinishedStays) and that   *)
(* no request is lost (NoRequestLost), but where a paused row cannot be    *)
(* marked running again; and that no row is stranded (NothingStranded),    *)
(* when no caller leaves and no write of a row fails.                      *)
(*                                                                         *)
(* An id moves from the call that inserted its row to its lane's channel,  *)
(* and from there to its worker, and is in one place at a time; a batch    *)
(* may claim its row meanwhile, and then the id is `taken`.  The parts of  *)
(* the inductive invariant say just that.                                  *)
(*                                                                         *)
(* A request waits for a run that has not started: its row is queued, or   *)
(* paused at the gate.  Rows leave those states when a run starts, which   *)
(* takes the request off `owed`, as does the failure of a paused job whose *)
(* row cannot be written; AtWork says that a row in the hands of a worker  *)
(* has left them, so that the end of its run loses nothing; Flags          *)
(* that only a URL fetch, which no restart keeps, is ended before it       *)
(* starts; Met that a row `reconcile` deletes has a queued one before it.  *)
(*                                                                         *)
(* Where a row is, its job is: a queued row in the call that inserted it,  *)
(* in a channel or before its start, a running or paused one with a worker *)
(* or a batch.  What has to be known beside is that a worker between two   *)
(* jobs holds none (Idle), that a follower a batch gives back is still on  *)
(* its way (Ready), and what `reconcile` has yet to send (Sending).        *)
(***************************************************************************)
EXTENDS Scheduler, TLAPS

\* Where a worker holds an id.
Busy == {"gate", "start", "run", "held", "take", "claim", "batch", "bheld",
         "release", "settle"}

\* Where a batch may be: at work, or left behind by a lane that was aborted.
Batching == {"claim", "batch", "bheld", "release", "settle", "gone"}

\* Before the lanes open nothing but `reconcile` and the inline job is at work.
Phases ==
    /\ phase = "down" => \A l \in Lane : chan[l] = <<>>
    /\ phase \in {"down", "reconcile"} =>
           /\ calls = {} /\ taken = {} /\ batch = {}
           /\ \A r \in Runner : cur[r] = 0 /\ pc[r] = "off"
    /\ phase = "boot" => \A l \in Lane : cur[l] = 0 /\ pc[l] = "off"
    /\ phase = "reconcile" =>
           \A id \in todo : /\ Open(id)
                            /\ \A l \in Lane : \A i \in 1..Len(chan[l]) : chan[l][i] # id

\* What is under way has a row, on its lane, which is open unless a batch took it.
Routed ==
    /\ \A id \in calls : /\ rows[id] # NoRow
                         /\ id \notin taken => Open(id)
    /\ \A l \in Lane : \A i \in 1..Len(chan[l]) :
           /\ rows[chan[l][i]] # NoRow
           /\ LaneOf(rows[chan[l][i]].job) = l
           /\ chan[l][i] \notin taken => Open(chan[l][i])

\* What a worker holds is open, on its lane, and no batch's.
Worked ==
    \A r \in Runner :
        /\ pc[r] \in Busy => cur[r] # 0
        /\ cur[r] # 0 => /\ Open(cur[r])
                         /\ cur[r] \notin taken
                         /\ r = "inline" => rows[cur[r]].job = Inline
                         /\ r # "inline" => LaneOf(rows[cur[r]].job) = r

\* An id is in one place.
Once ==
    /\ \A l, m \in Lane : \A i \in 1..Len(chan[l]), k \in 1..Len(chan[m]) :
           chan[l][i] = chan[m][k] => l = m /\ i = k
    /\ \A l \in Lane : \A i \in 1..Len(chan[l]) :
           /\ chan[l][i] \notin calls
           /\ \A r \in Runner : chan[l][i] # cur[r]
    /\ \A r \in Runner : cur[r] \notin calls
    /\ \A r, s \in Runner : cur[r] # 0 /\ cur[r] = cur[s] => r = s

\* What a batch holds is taken and open, and a batch is there only while it runs.
Batched ==
    /\ batch # {} => pc["background"] \in Batching
    /\ \A id \in batch : id \in taken /\ Open(id) /\ Batches(rows[id].job)
    /\ \A id \in taken : rows[id] # NoRow /\ rows[id].state # "queued"
    /\ pc["background"] = "claim" =>
           \A id \in cands : /\ rows[id].state = "queued" /\ Batches(rows[id].job)
                             /\ id # cur["background"]

IInv == TypeOK /\ Phases /\ Routed /\ Worked /\ Once /\ Batched

-----------------------------------------------------------------------------
(* Rows and types *)

\* A row that is there has a job, a lane and a state, and an open row is there.
LEMMA RowPresent ==
    ASSUME TypeOK, NEW id \in Ids
    PROVE  /\ Open(id) => rows[id] # NoRow
           /\ rows[id].state = "queued" => rows[id] # NoRow
           /\ rows[id] # NoRow => rows[id] \in [job : Jobs \cup {Inline}, lane : Lane, state : JobState]
BY DEF TypeOK, Open, Active, NoRow, Row

\* Ids are above 0, which stands for no id.
LEMMA IdsPositive == 0 \notin Ids /\ Ids \subseteq Nat
BY BoundsAssumption DEF Ids

\* What a channel carries are ids.
LEMMA ChanIds ==
    ASSUME TypeOK
    PROVE  \A l \in Lane : /\ Len(chan[l]) \in Nat
                           /\ \A i \in 1..Len(chan[l]) : chan[l][i] \in Ids
BY DEF TypeOK

\* The kinds of jobs decide their lanes.
LEMMA LaneOfType ==
    ASSUME NEW j PROVE LaneOf(j) \in Lane
BY DEF LaneOf, Lane

\* A DAT import that batches belongs to the background lane, and the inline job is none.
LEMMA BatchLane ==
    ASSUME NEW j, Batches(j) PROVE LaneOf(j) = "background" /\ j # Inline
BY JobsAssumption DEF Batches, LaneOf

\* A new state leaves a row's job, and every other row.
LEMMA SetStateRows ==
    ASSUME TypeOK, NEW id \in Ids, rows[id] # NoRow, NEW s \in JobState
    PROVE  /\ InState(id, s) \in [Ids -> Row]
           /\ InState(id, s)[id].job = rows[id].job
           /\ InState(id, s)[id].state = s
           /\ InState(id, s)[id] # NoRow
           /\ \A k \in Ids : k # id => InState(id, s)[k] = rows[k]
<1>1. rows[id] \in [job : Jobs \cup {Inline}, lane : Lane, state : JobState]
  BY RowPresent
<1>2. DEFINE new == [job |-> rows[id].job, lane |-> rows[id].lane, state |-> s]
<1>3. new \in Row /\ new # NoRow
  BY <1>1 DEF Row, NoRow, JobState
<1>4. InState(id, s) = [rows EXCEPT ![id] = new]
  BY DEF InState
<1>5. new.job = rows[id].job /\ new.state = s
  OBVIOUS
<1> HIDE DEF new
<1>6. InState(id, s) \in [Ids -> Row] /\ InState(id, s)[id] = new
      /\ \A k \in Ids : k # id => InState(id, s)[k] = rows[k]
  BY <1>3, <1>4 DEF TypeOK
<1> QED BY <1>3, <1>5, <1>6

\* The table with a queued row put at an id.
WithRow(id, j, l) == [rows EXCEPT ![id] = [job |-> j, lane |-> l, state |-> "queued"]]

\* A queued row is there, with its job, and no other row changes.
LEMMA QueuedRow ==
    ASSUME TypeOK, NEW id \in Ids, NEW j \in Jobs \cup {Inline}, NEW l \in Lane
    PROVE  /\ WithRow(id, j, l) \in [Ids -> Row]
           /\ WithRow(id, j, l)[id].job = j
           /\ WithRow(id, j, l)[id].state = "queued"
           /\ WithRow(id, j, l)[id] # NoRow
           /\ \A k \in Ids : k # id => WithRow(id, j, l)[k] = rows[k]
<1>1. DEFINE new == [job |-> j, lane |-> l, state |-> "queued"]
<1>2. new \in Row /\ new # NoRow
  BY DEF Row, NoRow, JobState
<1>3. new.job = j /\ new.state = "queued"
  OBVIOUS
<1>4. WithRow(id, j, l) = [rows EXCEPT ![id] = new]
  BY DEF WithRow
<1> HIDE DEF new
<1>5. WithRow(id, j, l) \in [Ids -> Row] /\ WithRow(id, j, l)[id] = new
      /\ \A k \in Ids : k # id => WithRow(id, j, l)[k] = rows[k]
  BY <1>2, <1>4 DEF TypeOK
<1> QED BY <1>2, <1>3, <1>5

\* The rows of a batch change their state together, and no other row does.
LEMMA MarkedRows ==
    ASSUME TypeOK, NEW ids \in SUBSET Ids, \A k \in ids : rows[k] # NoRow, NEW s \in JobState
    PROVE  /\ Marked(ids, s) \in [Ids -> Row]
           /\ \A k \in ids : /\ Marked(ids, s)[k].job = rows[k].job
                             /\ Marked(ids, s)[k].state = s
                             /\ Marked(ids, s)[k] # NoRow
           /\ \A k \in Ids \ ids : Marked(ids, s)[k] = rows[k]
<1>1. ASSUME NEW k \in ids
      PROVE  /\ [job |-> rows[k].job, lane |-> rows[k].lane, state |-> s] \in Row
             /\ [job |-> rows[k].job, lane |-> rows[k].lane, state |-> s] # NoRow
  BY RowPresent, k \in Ids, rows[k] # NoRow DEF Row, NoRow, JobState
<1>2. \A k \in Ids \ ids : rows[k] \in Row
  BY DEF TypeOK
<1>3. Marked(ids, s) = [k \in Ids |-> IF k \in ids
                                      THEN [job |-> rows[k].job, lane |-> rows[k].lane, state |-> s]
                                      ELSE rows[k]]
  BY DEF Marked
<1> QED BY <1>1, <1>2, <1>3

\* Open rows are marked running or paused, or left as they were, and no other row changes.
Marking(S) ==
    /\ rows' \in [Ids -> Row]
    /\ \A k \in S : /\ rows'[k].job = rows[k].job /\ rows'[k] # NoRow
                    /\ rows'[k].state \in {"running", "paused", rows[k].state}
    /\ \A k \in Ids \ S : rows'[k] = rows[k]

\* Some of the rows are marked alike; or some are left paused and the others run.
LEMMA MarkingRows ==
    ASSUME TypeOK, NEW S \in SUBSET Ids, \A k \in S : Open(k), NEW ids \in SUBSET S,
           \/ \E s \in {"running", "paused"} : rows' = Marked(ids, s)
           \/ \E left \in SUBSET ids :
                 rows' = [k \in Ids |-> IF k \in left THEN Marked(ids, "paused")[k]
                                                     ELSE Marked(ids, "running")[k]]
    PROVE  Marking(S)
<1>1. ids \in SUBSET Ids /\ \A k \in S : rows[k] # NoRow
  BY RowPresent
<1>2. ASSUME NEW s \in {"running", "paused"}
      PROVE  /\ Marked(ids, s) \in [Ids -> Row]
             /\ \A k \in ids : /\ Marked(ids, s)[k].job = rows[k].job
                               /\ Marked(ids, s)[k].state = s
                               /\ Marked(ids, s)[k] # NoRow
             /\ \A k \in Ids \ ids : Marked(ids, s)[k] = rows[k]
  BY <1>1, MarkedRows DEF JobState
<1>3. CASE \E s \in {"running", "paused"} : rows' = Marked(ids, s)
  BY <1>1, <1>2, <1>3 DEF Marking
<1>4. ASSUME NEW left \in SUBSET ids,
             rows' = [k \in Ids |-> IF k \in left THEN Marked(ids, "paused")[k]
                                                 ELSE Marked(ids, "running")[k]]
      PROVE  Marking(S)
  BY <1>1, <1>2, <1>4 DEF Marking
<1> QED BY <1>3, <1>4

\* What pruning leaves of a table: every row, or none where the row had finished and
\* nothing refers to it.
LEMMA PrunedRows ==
    ASSUME NEW table \in [Ids -> Row], NEW t \in Pruned(table)
    PROVE  /\ t \in [Ids -> Row]
           /\ \A k \in Ids : \/ t[k] = table[k]
                             \/ t[k] = NoRow /\ table[k].state \in Finished /\ ~Referred(k)
<1>1. CASE t = table
  BY <1>1
<1>2. CASE t # table
  <2>1. PICK gone \in SUBSET {id \in Ids : table[id].state \in Finished} :
            /\ \A id \in gone : ~Referred(id)
            /\ t = [id \in Ids |-> IF id \in gone THEN NoRow ELSE table[id]]
    BY <1>2 DEF Pruned
  <2> QED BY <2>1 DEF Row
<1> QED BY <1>1, <1>2

\* The write of a last state gives an open row that state, or fails, and may prune
\* finished rows nothing refers to.
LEMMA LastStateRows ==
    ASSUME TypeOK, NEW id \in Ids, Open(id), NEW s \in {"queued", "done", "failed"},
           LastState(id, s)
    PROVE  /\ rows' \in [Ids -> Row]
           /\ \A k \in Ids \ {id} : \/ rows'[k] = rows[k]
                                    \/ /\ rows'[k] = NoRow /\ rows[k].state \in Finished
                                       /\ ~Referred(k)
           /\ \/ rows'[id].job = rows[id].job /\ rows'[id] # NoRow
              \/ rows'[id] = NoRow /\ ~Referred(id)
           /\ rows'[id] = rows[id] \/ rows'[id] = NoRow \/ rows'[id].state = s
           /\ s = "queued" => Open(id)'
<1>1. rows[id] # NoRow /\ s \in JobState
  BY RowPresent DEF JobState
<1>2. DEFINE new == InState(id, s)
<1>3. /\ new \in [Ids -> Row] /\ new[id].job = rows[id].job /\ new[id].state = s
      /\ new[id] # NoRow /\ \A k \in Ids : k # id => new[k] = rows[k]
  BY <1>1, SetStateRows
<1>4. \/ rows' = rows
      \/ rows' = new
      \/ s # "queued" /\ rows' \in Pruned(new)
  BY DEF LastState
<1> HIDE DEF new
<1>5. CASE rows' = rows
  BY <1>1, <1>5 DEF TypeOK, Open
<1>6. CASE rows' = new
  BY <1>3, <1>6 DEF Open, Active
<1>7. CASE s # "queued" /\ rows' \in Pruned(new)
  <2>1. /\ rows' \in [Ids -> Row]
        /\ \A k \in Ids : \/ rows'[k] = new[k]
                          \/ rows'[k] = NoRow /\ new[k].state \in Finished /\ ~Referred(k)
    BY <1>3, <1>7, PrunedRows
  <2> QED BY <1>3, <1>7, <2>1
<1> QED BY <1>4, <1>5, <1>6, <1>7

\* A sent id is the last of its channel.
LEMMA SendChan ==
    ASSUME TypeOK, NEW id \in Ids, NEW l \in Lane, Send(id, l)
    PROVE  /\ chan' \in [Lane -> Seq(Ids)]
           /\ Len(chan'[l]) = Len(chan[l]) + 1
           /\ chan'[l][Len(chan[l]) + 1] = id
           /\ \A i \in 1..Len(chan[l]) : chan'[l][i] = chan[l][i]
           /\ \A m \in Lane : m # l => chan'[m] = chan[m]
           /\ cancels' \in [Ids -> {"none", "open", "set"}]
<1>1. chan[l] \in Seq(Ids)
  BY DEF TypeOK
<1>2. Append(chan[l], id) \in Seq(Ids)
  BY <1>1
<1>3. chan' = [chan EXCEPT ![l] = Append(chan[l], id)]
  BY DEF Send
<1>4. chan'[l] = Append(chan[l], id) /\ \A m \in Lane : m # l => chan'[m] = chan[m]
  BY <1>3 DEF TypeOK
<1>5. chan' \in [Lane -> Seq(Ids)]
  BY <1>2, <1>3 DEF TypeOK
<1>6. cancels' \in [Ids -> {"none", "open", "set"}]
  BY DEF Send, TypeOK
<1> QED BY <1>1, <1>4, <1>5, <1>6

\* A received id was the first of its channel.
LEMMA TailChan ==
    ASSUME TypeOK, NEW l \in Lane, chan[l] # <<>>, chan' = [chan EXCEPT ![l] = Tail(@)]
    PROVE  /\ chan' \in [Lane -> Seq(Ids)]
           /\ Len(chan[l]) \in Nat /\ Len(chan[l]) > 0
           /\ Len(chan'[l]) = Len(chan[l]) - 1
           /\ Head(chan[l]) = chan[l][1] /\ chan[l][1] \in Ids
           /\ \A i \in 1..Len(chan'[l]) : chan'[l][i] = chan[l][i + 1]
           /\ \A m \in Lane : m # l => chan'[m] = chan[m]
<1>1. chan[l] \in Seq(Ids)
  BY DEF TypeOK
<1>2. Tail(chan[l]) \in Seq(Ids) /\ Len(Tail(chan[l])) = Len(chan[l]) - 1 /\ Len(chan[l]) > 0
      /\ \A i \in 1..Len(Tail(chan[l])) : Tail(chan[l])[i] = chan[l][i + 1]
  BY <1>1
<1>3. chan'[l] = Tail(chan[l]) /\ \A m \in Lane : m # l => chan'[m] = chan[m]
  BY DEF TypeOK
<1>4. chan' \in [Lane -> Seq(Ids)]
  BY <1>2 DEF TypeOK
<1>5. Head(chan[l]) = chan[l][1] /\ chan[l][1] \in Ids /\ Len(chan[l]) \in Nat
  BY <1>1, <1>2
<1> QED BY <1>2, <1>3, <1>4, <1>5

\* Where a runner goes next is a place.
LEMMA OnwardPlace ==
    ASSUME NEW r PROVE Onward(r) \in {"after", "gone", "recv"}
BY DEF Onward

-----------------------------------------------------------------------------
(* The steps of the process *)

\* What the invariant is about.
inner == <<rows, phase, todo, calls, chan, pc, cur, cands, batch, taken>>

\* A step that leaves all of it alone.
LEMMA InnerStutter ==
    ASSUME IInv, UNCHANGED inner, TypeOK'
    PROVE  IInv'
BY DEF IInv, Phases, Routed, Worked, Once, Batched, inner, Open

\* A cancel flag is set: nothing the invariant is about.
LEMMA CancelStep == ASSUME IInv, NEW id \in Ids, Cancel(id) PROVE IInv'
<1>1. TypeOK'
  BY DEF IInv, Cancel, TypeOK, rowVars, bootVars, datVars, laneVars
<1> QED BY <1>1, InnerStutter DEF Cancel, inner, rowVars, bootVars, datVars, laneVars

\* The core changes: nothing the invariant is about.
LEMMA SetCorenameStep == ASSUME IInv, NEW c \in CoreNames, SetCorename(c) PROVE IInv'
<1>1. gate' \in [core : CoreNames, manual : {"none", "paused", "running"}]
  BY DEF SetCorename
<1>2. TypeOK'
  BY <1>1 DEF IInv, SetCorename, TypeOK, rowVars, bootVars, datVars, laneVars
<1> QED BY <1>2, InnerStutter DEF SetCorename, inner, rowVars, bootVars, datVars, laneVars

\* The user's pause or Run now: nothing the invariant is about.
LEMMA SetOverrideStep ==
    ASSUME IInv, NEW m \in {"paused", "running"}, SetOverride(m) PROVE IInv'
<1>1. gate' \in [core : CoreNames, manual : {"none", "paused", "running"}]
  BY DEF SetOverride, IInv, TypeOK
<1>2. TypeOK'
  BY <1>1 DEF IInv, SetOverride, TypeOK, rowVars, bootVars, datVars, laneVars
<1> QED BY <1>2, InnerStutter DEF SetOverride, inner, rowVars, bootVars, datVars, laneVars

\* A process starts with the open rows to reconcile and nothing sent.
LEMMA BootStep == ASSUME IInv, Boot PROVE IInv'
<1>1. gate' \in [core : CoreNames, manual : {"none", "paused", "running"}] /\ OpenIds \in SUBSET Ids
  BY DEF Boot, OpenIds
<1>2. TypeOK'
  BY <1>1 DEF IInv, Boot, TypeOK, rowVars, laneVars, datVars
<1>3. \A id \in todo' : Open(id)'
  BY DEF Boot, OpenIds, Open, rowVars
<1>4. \A l \in Lane : Len(chan'[l]) = 0
  BY DEF Boot, IInv, Phases, laneVars
<1>5. Phases'
  BY <1>3, <1>4 DEF IInv, Boot, Phases, rowVars, laneVars, datVars
<1>6. Routed' /\ Worked' /\ Once' /\ Batched'
  BY DEF IInv, Boot, Routed, Worked, Once, Batched, Open, rowVars, laneVars, datVars
<1> QED BY <1>2, <1>5, <1>6 DEF IInv

\* The end of reconciliation: the inline job is next.
LEMMA ReconciledStep == ASSUME IInv, Reconciled PROVE IInv'
<1> USE DEF Reconciled, rowVars, datVars
<1>1. TypeOK' /\ Phases'
  BY DEF IInv, TypeOK, Phases, Places, Lane, Runner
<1>2. Routed' /\ Once'
  BY DEF IInv, TypeOK, Routed, Once, Open
<1>3. Worked' /\ Batched'
  BY DEF IInv, TypeOK, Phases, Worked, Batched, Open, Busy, Lane, Runner
<1> QED BY <1>1, <1>2, <1>3 DEF IInv

\* The lanes open at a time when none of them holds anything.
LEMMA OpenLanesStep == ASSUME IInv, OpenLanes PROVE IInv'
<1> USE DEF OpenLanes, rowVars, datVars
<1>1. TypeOK' /\ Phases'
  BY DEF IInv, TypeOK, Phases, Places, Lane, Runner
<1>2. Routed' /\ Once'
  BY DEF IInv, TypeOK, Routed, Once, Open
<1>3. Worked'
  BY DEF IInv, TypeOK, Worked, Open, Busy, Runner
<1>4. batch = {}
  BY DEF IInv, Phases, Batched, Batching, Lane
<1>5. pc'["background"] # "claim"
  BY DEF Runner, Lane
<1>6. Batched'
  BY <1>4, <1>5 DEF IInv, Batched, Open
<1> QED BY <1>1, <1>2, <1>3, <1>6 DEF IInv

\* The shutdown signal moves nothing by itself.
LEMMA BeginShutdownStep == ASSUME IInv, BeginShutdown PROVE IInv'
<1> USE DEF BeginShutdown, rowVars, laneVars, datVars
<1>1. TypeOK' /\ Phases'
  BY DEF IInv, TypeOK, Phases
<1>2. Routed' /\ Worked' /\ Once' /\ Batched'
  BY DEF IInv, Routed, Worked, Once, Batched, Open
<1> QED BY <1>1, <1>2 DEF IInv

\* A process that is gone holds nothing: the parts of the invariant are about nothing.
LEMMA GoDownStep == ASSUME IInv, GoDown PROVE IInv'
<1> USE DEF GoDown, rowVars
<1>1. <<>> \in Seq(Ids) /\ Len(<<>>) = 0
  OBVIOUS
<1>2. chan' \in [Lane -> Seq(Ids)] /\ \A l \in Lane : chan'[l] = <<>> /\ Len(chan'[l]) = 0
  BY <1>1
<1>3. gate' \in [core : CoreNames, manual : {"none", "paused", "running"}]
  BY DEF IInv, TypeOK
<1>4. TypeOK'
  BY <1>2, <1>3 DEF IInv, TypeOK, Places
<1>5. Phases' /\ Routed' /\ Once'
  BY <1>2, IdsPositive DEF Phases, Routed, Once, Lane, Runner
<1>6. Worked' /\ Batched'
  BY DEF Worked, Batched, Busy, Lane, Runner
<1> QED BY <1>4, <1>5, <1>6 DEF IInv

\* A row a batch may take is in no worker's hands but the background lane's.
LEMMA BatchFree ==
    ASSUME IInv, NEW id \in Ids, Batches(rows[id].job), id # cur["background"], NEW r \in Runner
    PROVE  cur[r] # id
<1>1. LaneOf(rows[id].job) = "background" /\ rows[id].job # Inline
  BY BatchLane
<1> QED BY <1>1, IdsPositive DEF IInv, Worked

\* A runner takes a step that changes no row and drops nothing but its own job.
LEMMA PlaceStep ==
    ASSUME IInv, TypeOK', NEW r \in Runner, phase \in {"boot", "up", "stopping"},
           phase = "boot" => r = "inline",
           NEW p, pc' = [pc EXCEPT ![r] = p],
           cur' = cur \/ cur' = [cur EXCEPT ![r] = 0],
           p \in Busy => cur'[r] # 0,
           r = "background" => p # "claim" /\ (batch # {} => p \in Batching),
           UNCHANGED <<rows, phase, todo, calls, chan, cands, batch, taken>>
    PROVE  IInv'
<1>1. Phases'
  BY DEF IInv, Phases, Lane, Runner, TypeOK
<1>2. Routed'
  BY DEF IInv, Routed, Open
<1>3. Worked'
  <2>1. /\ pc'[r] = p /\ cur'[r] \in {cur[r], 0}
        /\ \A q \in Runner : q # r => pc'[q] = pc[q] /\ cur'[q] = cur[q]
    BY DEF IInv, TypeOK
  <2> SUFFICES ASSUME NEW q \in Runner
               PROVE  /\ pc'[q] \in Busy => cur'[q] # 0
                      /\ cur'[q] # 0 => /\ rows'[cur'[q]].state \in Active
                                        /\ cur'[q] \notin taken'
                                        /\ q = "inline" => rows'[cur'[q]].job = Inline
                                        /\ q # "inline" => LaneOf(rows'[cur'[q]].job) = q
    BY DEF Worked, Open
  <2> QED BY <2>1 DEF IInv, Worked, Open
<1>4. Once'
  <2>1. cur'[r] \in {cur[r], 0} /\ \A q \in Runner : q # r => cur'[q] = cur[q]
    BY DEF IInv, TypeOK
  <2>2. 0 \notin calls /\ \A l \in Lane : \A i \in 1..Len(chan[l]) : chan[l][i] # 0
    BY IdsPositive, ChanIds DEF IInv, TypeOK
  <2> QED BY <2>1, <2>2 DEF IInv, Once
<1>5. Batched'
  BY IdsPositive DEF IInv, Batched, Open, TypeOK, Lane, Runner
<1> QED BY <1>1, <1>2, <1>3, <1>4, <1>5 DEF IInv

\* A runner goes on with the job it holds, in another state and at another place.
LEMMA WorkStep ==
    ASSUME IInv, TypeOK', NEW r \in Runner, phase \in {"boot", "up", "stopping"},
           phase = "boot" => r = "inline", cur[r] # 0,
           NEW s \in {"running", "paused"}, rows' = InState(cur[r], s),
           NEW p \in Busy \ {"claim"}, pc' = [pc EXCEPT ![r] = p],
           r = "background" => batch = {},
           UNCHANGED <<phase, todo, calls, chan, cur, cands, batch, taken>>
    PROVE  IInv'
<1>1. cur[r] \in Ids /\ rows[cur[r]] # NoRow /\ s \in JobState /\ Open(cur[r])
  BY RowPresent DEF IInv, TypeOK, Worked, JobState
<1>2. /\ rows'[cur[r]].job = rows[cur[r]].job /\ rows'[cur[r]].state = s
      /\ rows'[cur[r]] # NoRow /\ \A k \in Ids : k # cur[r] => rows'[k] = rows[k]
  BY <1>1, SetStateRows DEF IInv
<1>3. \A k \in Ids : /\ rows'[k].job = rows[k].job
                     /\ rows[k] # NoRow => rows'[k] # NoRow
                     /\ Open(k) => rows'[k].state \in Active
  BY <1>1, <1>2 DEF Open, Active
<1>4. cur[r] \notin taken
  BY DEF IInv, Worked
<1>5. Phases'
  BY DEF IInv, Phases, Lane, Runner, TypeOK
<1>6. Routed'
  BY <1>3, ChanIds DEF IInv, TypeOK, Routed, Open
<1>7. Worked'
  BY <1>3 DEF IInv, TypeOK, Worked, Open
<1>8. Once'
  BY DEF IInv, Once
<1>9. Batched'
  <2>1. ASSUME pc["background"] = "claim", NEW k \in cands
        PROVE  k # cur[r]
    BY <2>1, BatchFree DEF IInv, TypeOK, Batched
  <2>2. pc'["background"] = "claim" => pc["background"] = "claim"
    BY DEF IInv, TypeOK
  <2>3. \A k \in cands : pc'["background"] = "claim" => rows'[k] = rows[k]
    BY <1>2, <2>1, <2>2 DEF IInv, TypeOK
  <2>4. batch # {} => pc'["background"] \in Batching
    BY DEF IInv, TypeOK, Batched
  <2>5. \A k \in taken : rows'[k] = rows[k]
    BY <1>2, <1>4 DEF IInv, TypeOK
  <2> QED BY <2>2, <2>3, <2>4, <2>5 DEF IInv, TypeOK, Batched, Open
<1> QED BY <1>5, <1>6, <1>7, <1>8, <1>9 DEF IInv

\* A runner ends with the job it holds: the row gets its last state, and the runner lets go.
LEMMA ConcludeStep ==
    ASSUME IInv, TypeOK', NEW r \in Runner, phase \in {"boot", "up", "stopping"},
           phase = "boot" => r = "inline", cur[r] # 0,
           NEW s \in {"queued", "done", "failed"}, Conclude(r, s),
           r = "background" => batch = {},
           UNCHANGED <<phase, todo, calls, chan, cands, batch, taken>>
    PROVE  IInv'
<1>1. cur[r] \in Ids /\ Open(cur[r]) /\ cur[r] \notin taken
  BY DEF IInv, TypeOK, Worked
<1>2. /\ \A k \in Ids \ {cur[r]} : \/ rows'[k] = rows[k]
                                   \/ /\ rows'[k] = NoRow /\ rows[k].state \in Finished
                                      /\ ~Referred(k)
  BY <1>1, LastStateRows DEF IInv, Conclude
<1>3. /\ cur' \in [Runner -> Ids \cup {0}] /\ pc' \in [Runner -> Places]
      /\ cur'[r] = 0 /\ pc'[r] \in {"after", "gone", "recv"}
      /\ \A q \in Runner : q # r => cur'[q] = cur[q] /\ pc'[q] = pc[q]
  BY OnwardPlace DEF IInv, TypeOK, Conclude, Leaves
<1>4. \A k \in Ids : k \in calls \cup taken => Referred(k)
  BY DEF Referred
<1>5. \A l \in Lane : \A i \in 1..Len(chan[l]) : chan[l][i] \in Ids /\ Referred(chan[l][i])
  BY ChanIds DEF IInv, Referred
<1>6. \A k \in Ids : k # cur[r] /\ (Open(k) \/ Referred(k)) => rows'[k] = rows[k]
  BY <1>2 DEF Open, Active, Finished
<1>7. Phases'
  BY <1>3 DEF IInv, Phases, Lane, Runner
<1>8. Routed'
  <2>1. cur[r] \notin calls
        /\ \A l \in Lane : \A i \in 1..Len(chan[l]) : chan[l][i] # cur[r]
    BY DEF IInv, Once
  <2> QED BY <1>4, <1>5, <1>6, <2>1 DEF IInv, TypeOK, Routed, Open
<1>9. Worked'
  <2> SUFFICES ASSUME NEW q \in Runner
               PROVE  /\ pc'[q] \in Busy => cur'[q] # 0
                      /\ cur'[q] # 0 => /\ rows'[cur'[q]].state \in Active
                                        /\ cur'[q] \notin taken'
                                        /\ q = "inline" => rows'[cur'[q]].job = Inline
                                        /\ q # "inline" => LaneOf(rows'[cur'[q]].job) = q
    BY DEF Worked, Open
  <2>1. CASE q = r
    BY <2>1, <1>3 DEF Busy
  <2>2. CASE q # r
    <3>1. cur[q] # 0 => cur[q] \in Ids /\ cur[q] # cur[r]
      BY <1>1, <2>2 DEF IInv, TypeOK, Once
    <3> QED BY <1>3, <1>6, <2>2, <3>1 DEF IInv, Worked, Open
  <2> QED BY <2>1, <2>2
<1>10. Once'
  <2>1. 0 \notin calls /\ \A l \in Lane : \A i \in 1..Len(chan[l]) : chan[l][i] # 0
    BY IdsPositive, ChanIds DEF IInv, TypeOK
  <2> QED BY <1>3, <2>1 DEF IInv, Once
<1>11. Batched'
  <2>1. ASSUME pc["background"] = "claim", NEW k \in cands
        PROVE  k # cur[r] \/ r = "background"
    BY <2>1, BatchFree DEF IInv, TypeOK, Batched
  <2>2. pc'["background"] = "claim" => pc["background"] = "claim" /\ r # "background"
    BY <1>3 DEF Lane, Runner
  <2>3. \A k \in cands : pc'["background"] = "claim" => rows'[k] = rows[k]
    BY <1>6, <2>1, <2>2 DEF IInv, TypeOK, Batched, Open, Active
  <2>4. \A k \in taken : rows'[k] = rows[k]
    BY <1>1, <1>4, <1>6 DEF IInv, TypeOK
  <2>5. batch # {} => pc'["background"] \in Batching
    BY <1>3 DEF IInv, Batched, Lane, Runner
  <2>6. cur'["background"] = cur["background"] \/ pc'["background"] # "claim"
    BY <1>3 DEF Lane, Runner
  <2> QED BY <2>2, <2>3, <2>4, <2>5, <2>6 DEF IInv, TypeOK, Batched, Open
<1> QED BY <1>7, <1>8, <1>9, <1>10, <1>11 DEF IInv

\* A follower of a batch gets its last state.
LEMMA FollowerStep ==
    ASSUME IInv, TypeOK', NEW id \in batch, NEW s \in Finished, LastState(id, s),
           pc["background"] # "claim", batch' = batch \ {id},
           UNCHANGED <<phase, todo, calls, chan, pc, cur, cands, taken>>
    PROVE  IInv'
<1>1. id \in Ids /\ Open(id) /\ id \in taken
  BY DEF IInv, TypeOK, Batched
<1>2. s \in {"queued", "done", "failed"} /\ s # "queued"
  BY DEF Finished
<1>3. /\ \A k \in Ids \ {id} : \/ rows'[k] = rows[k]
                               \/ /\ rows'[k] = NoRow /\ rows[k].state \in Finished
                                  /\ ~Referred(k)
      /\ \/ rows'[id].job = rows[id].job /\ rows'[id] # NoRow
         \/ rows'[id] = NoRow /\ ~Referred(id)
      /\ rows'[id] = rows[id] \/ rows'[id] = NoRow \/ rows'[id].state = s
  BY <1>1, <1>2, LastStateRows DEF IInv
<1>4. \A k \in Ids : k \in calls \cup taken => Referred(k)
  BY DEF Referred
<1>5. \A l \in Lane : \A i \in 1..Len(chan[l]) : chan[l][i] \in Ids /\ Referred(chan[l][i])
  BY ChanIds DEF IInv, Referred
<1>6. \A k \in Ids : k # id /\ (Open(k) \/ Referred(k)) => rows'[k] = rows[k]
  BY <1>3 DEF Open, Active, Finished
<1>7. rows'[id].job = rows[id].job /\ rows'[id] # NoRow /\ rows'[id].state # "queued"
  BY <1>1, <1>2, <1>3, <1>4 DEF IInv, Batched
<1>8. Phases'
  BY DEF IInv, Phases
<1>9. Routed'
  <2>1. ASSUME NEW k \in Ids, Referred(k), k # id PROVE rows'[k] = rows[k]
    BY <1>6, <2>1
  <2>2. \A k \in calls : /\ rows'[k] # NoRow
                         /\ k \notin taken' => rows'[k].state \in Active
    BY <1>1, <1>4, <1>7, <2>1 DEF IInv, TypeOK, Routed, Open
  <2>3. \A l \in Lane : \A i \in 1..Len(chan[l]) :
           /\ rows'[chan[l][i]] # NoRow
           /\ LaneOf(rows'[chan[l][i]].job) = l
           /\ chan[l][i] \notin taken => rows'[chan[l][i]].state \in Active
    BY <1>1, <1>5, <1>7, <2>1 DEF IInv, Routed, Open
  <2> QED BY <2>2, <2>3 DEF Routed, Open
<1>10. Worked'
  <2>1. \A r \in Runner : cur[r] # 0 => cur[r] \in Ids /\ cur[r] # id /\ Open(cur[r])
    BY <1>1 DEF IInv, TypeOK, Worked
  <2> QED BY <1>6, <2>1 DEF IInv, Worked, Open
<1>11. Once'
  BY DEF IInv, Once
<1>12. Batched'
  BY <1>4, <1>6, <1>7 DEF IInv, TypeOK, Batched, Open
<1> QED BY <1>8, <1>9, <1>10, <1>11, <1>12 DEF IInv

\* Rows of a batch and of the job that leads it change between running and paused.
LEMMA MarkStep ==
    ASSUME IInv, TypeOK', NEW S \in SUBSET Ids, Marking(S),
           NEW p \in Batching \cap Busy, p # "claim", pc["background"] # "claim",
           phase \in {"up", "stopping"}, cur["background"] # 0,
           pc' = [pc EXCEPT !["background"] = p],
           UNCHANGED <<phase, todo, calls, chan, cur, cands, batch, taken>>
    PROVE  IInv'
<1>3. \A k \in Ids : /\ rows'[k].job = rows[k].job
                     /\ rows[k] # NoRow => rows'[k] # NoRow
                     /\ Open(k) => rows'[k].state \in Active
                     /\ rows[k].state # "queued" => rows'[k].state # "queued"
  BY DEF Marking, Open, Active
<1>4. Phases'
  BY DEF IInv, Phases
<1>5. Routed'
  BY <1>3, ChanIds DEF IInv, TypeOK, Routed, Open
<1>6. Worked'
  BY <1>3 DEF IInv, TypeOK, Worked, Open
<1>7. Once'
  BY DEF IInv, Once
<1>8. Batched'
  <2>1. pc'["background"] = p
    BY DEF IInv, TypeOK, Lane, Runner
  <2> QED BY <1>3, <2>1 DEF IInv, TypeOK, Batched, Open
<1> QED BY <1>4, <1>5, <1>6, <1>7, <1>8 DEF IInv

-----------------------------------------------------------------------------
(* The steps of the lanes and of the scheduler *)

\* The worker of a lane stands at one place, and before the lanes open at none.
LEMMA LanesClosed ==
    ASSUME IInv, NEW r \in Runner, pc[r] # "off"
    PROVE  phase \in {"boot", "up", "stopping"} /\ (phase = "boot" => r = "inline")
BY DEF IInv, TypeOK, Phases, Runner

\* A worker passes the gate with the job it received.
LEMMA PassGateStep == ASSUME IInv, NEW l \in Lane, PassGate(l) PROVE IInv'
<1> USE DEF PassGate, rowVars, bootVars, datVars
<1>1. TypeOK'
  BY DEF IInv, TypeOK, Places, Lane, Runner
<1>2. l \in Runner /\ pc[l] = "gate" /\ cur[l] # 0
  BY DEF IInv, Worked, Busy, Runner
<1>3. l = "background" => batch = {}
  BY <1>2 DEF IInv, Batched, Batching
<1> QED BY <1>1, <1>2, <1>3, LanesClosed, PlaceStep

\* A worker that stops lets go of a job that has not started.
LEMMA LaneStopsStep == ASSUME IInv, NEW l \in Lane, LaneStops(l) PROVE IInv'
<1> USE DEF LaneStops, rowVars, bootVars, datVars
<1>1. TypeOK'
  BY DEF IInv, TypeOK, Places, Lane, Runner
<1>2. l \in Runner /\ pc[l] # "off" /\ "gone" \notin Busy /\ "gone" \in Batching
  BY DEF Runner, Busy, Batching
<1> QED BY <1>1, <1>2, LanesClosed, PlaceStep

\* A worker that is aborted lets go; a batch of its stays claimed.
LEMMA AbortStep == ASSUME IInv, NEW l \in Lane, Abort(l) PROVE IInv'
<1> USE DEF Abort, rowVars, bootVars, datVars
<1>1. TypeOK'
  BY DEF IInv, TypeOK, Places, Lane, Runner
<1>2. l \in Runner /\ phase = "stopping" /\ "gone" \notin Busy /\ "gone" \in Batching
  BY DEF Runner, Busy, Batching, Stopping
<1> QED BY <1>1, <1>2, PlaceStep

\* A worker whose row cannot be marked lets go of it and goes on.
LEMMA StartFailsStep == ASSUME IInv, NEW r \in Runner, StartFails(r) PROVE IInv'
<1> USE DEF StartFails, Leaves, rowVars, bootVars, datVars
<1>1. Onward(r) \in {"after", "gone", "recv"}
  BY OnwardPlace
<1>2. TypeOK'
  BY <1>1 DEF IInv, TypeOK, Places, Lane, Runner
<1>3. Onward(r) \notin Busy /\ Onward(r) # "claim"
  BY <1>1 DEF Busy
<1>4. r = "background" => batch = {}
  BY DEF IInv, Batched, Batching
<1> QED BY <1>2, <1>3, <1>4, LanesClosed, PlaceStep

\* The heavy worker looks at its queue between two jobs, holding none.
LEMMA HeavyStep == ASSUME IInv, ReadHeavyQueue \/ EndRunNow PROVE IInv'
<1> USE DEF ReadHeavyQueue, EndRunNow, rowVars, bootVars, datVars
<1>1. "heavy" \in Runner /\ pc["heavy"] # "off" /\ {"drain", "recv"} \cap Busy = {}
  BY DEF Lane, Runner, Busy
<1>2. TypeOK'
  BY <1>1 DEF IInv, TypeOK, Places
<1>3. \E p \in {"drain", "recv"} : pc' = [pc EXCEPT !["heavy"] = p]
  OBVIOUS
<1> QED BY <1>1, <1>2, <1>3, LanesClosed, PlaceStep

\* A job starts: its row runs, in the hands of its worker.
LEMMA StartStep == ASSUME IInv, NEW r \in Runner, Start(r) PROVE IInv'
<1> USE DEF Start, rowVars, bootVars, datVars
<1>1. cur[r] # 0 /\ cur[r] \in Ids /\ rows[cur[r]] # NoRow
  BY RowPresent DEF IInv, TypeOK, Worked, Busy
<1>2. rows' \in [Ids -> Row]
  BY <1>1, SetStateRows DEF IInv, JobState
<1>3. PICK p \in {"take", "run"} : pc' = [pc EXCEPT ![r] = p]
  OBVIOUS
<1>4. TypeOK'
  BY <1>2, <1>3 DEF IInv, TypeOK, Places
<1>5. p \in Busy \ {"claim"}
  BY DEF Busy
<1>6. r = "background" => batch = {}
  BY DEF IInv, Batched, Batching
<1> QED BY <1>1, <1>3, <1>4, <1>5, <1>6, LanesClosed, WorkStep

\* A job pauses at a checkpoint, or goes on, in the hands of its worker.
LEMMA PauseStep == ASSUME IInv, NEW r \in Runner, Pause(r) \/ Unpause(r) PROVE IInv'
<1> USE DEF Pause, Unpause, rowVars, bootVars, datVars
<1>1. cur[r] # 0 /\ cur[r] \in Ids /\ rows[cur[r]] # NoRow
  BY RowPresent DEF IInv, TypeOK, Worked, Busy
<1>2. PICK s \in {"running", "paused"} : rows' = InState(cur[r], s)
  OBVIOUS
<1>3. rows' \in [Ids -> Row]
  BY <1>1, <1>2, SetStateRows DEF IInv, JobState
<1>4. PICK p \in {"run", "held"} : pc' = [pc EXCEPT ![r] = p]
  OBVIOUS
<1>5. TypeOK'
  BY <1>3, <1>4 DEF IInv, TypeOK, Places
<1>6. p \in Busy \ {"claim"}
  BY DEF Busy
<1>7. r = "background" => batch = {}
  BY DEF IInv, Batched, Batching
<1> QED BY <1>1, <1>2, <1>4, <1>5, <1>6, <1>7, LanesClosed, WorkStep

\* What a last state leaves of the types.
LEMMA ConcludeTypes ==
    ASSUME IInv, NEW r \in Runner, cur[r] # 0, NEW s \in {"queued", "done", "failed"},
           Conclude(r, s)
    PROVE  /\ rows' \in [Ids -> Row] /\ cancels' \in [Ids -> {"none", "open", "set"}]
           /\ pc' \in [Runner -> Places] /\ cur' \in [Runner -> Ids \cup {0}]
<1>1. cur[r] \in Ids /\ Open(cur[r])
  BY DEF IInv, TypeOK, Worked
<1>2. rows' \in [Ids -> Row]
  BY <1>1, LastStateRows DEF IInv, Conclude
<1>3. cancels' \in [Ids -> {"none", "open", "set"}]
  BY DEF IInv, TypeOK, Conclude, LastState
<1>4. pc' \in [Runner -> Places] /\ cur' \in [Runner -> Ids \cup {0}]
  BY OnwardPlace DEF IInv, TypeOK, Conclude, Leaves, Places
<1> QED BY <1>2, <1>3, <1>4

\* A job stops, ends or cannot go on: its worker lets go of it.
LEMMA EndStep ==
    ASSUME IInv, NEW r \in Runner, StopJob(r) \/ Finish(r) \/ UnpauseFails(r) PROVE IInv'
<1> USE DEF StopJob, Finish, UnpauseFails, bootVars, datVars
<1>1. PICK s \in {"queued", "done", "failed"} : Conclude(r, s)
  BY DEF Finished
<1>2. cur[r] # 0 /\ pc[r] # "off" /\ (r = "background" => batch = {})
  BY DEF IInv, Worked, Batched, Busy, Batching
<1>3. TypeOK'
  <2>1. owed' \in SUBSET Jobs
    BY DEF IInv, TypeOK
  <2> QED BY <1>1, <1>2, <2>1, ConcludeTypes DEF IInv, TypeOK
<1> QED BY <1>1, <1>2, <1>3, LanesClosed, ConcludeStep

\* The first id of a channel goes to its worker, or is dropped where a batch took it.
LEMMA RecvStep == ASSUME IInv, NEW l \in Lane, Recv(l) PROVE IInv'
<1> USE DEF Recv, rowVars, bootVars
<1>1. /\ chan' \in [Lane -> Seq(Ids)]
      /\ Len(chan[l]) \in Nat /\ Len(chan[l]) > 0 /\ Len(chan'[l]) = Len(chan[l]) - 1
      /\ Head(chan[l]) = chan[l][1] /\ chan[l][1] \in Ids
      /\ \A i \in 1..Len(chan'[l]) : chan'[l][i] = chan[l][i + 1]
      /\ \A m \in Lane : m # l => chan'[m] = chan[m]
  BY TailChan DEF IInv
<1>2. DEFINE id == chan[l][1]
<1>3. /\ rows[id] # NoRow /\ LaneOf(rows[id].job) = l /\ id \notin calls
      /\ id \notin taken => Open(id)
      /\ \A r \in Runner : cur[r] # id
  BY <1>1 DEF IInv, Routed, Once
<1>4. \A m \in Lane : \A i \in 1..Len(chan'[m]) :
         /\ \E k \in 1..Len(chan[m]) : chan'[m][i] = chan[m][k]
         /\ chan'[m][i] # id
  <2> SUFFICES ASSUME NEW m \in Lane, NEW i \in 1..Len(chan'[m])
               PROVE  /\ \E k \in 1..Len(chan[m]) : chan'[m][i] = chan[m][k]
                      /\ chan'[m][i] # id
    OBVIOUS
  <2>1. CASE m = l
    <3>1. i + 1 \in 1..Len(chan[l]) /\ chan'[l][i] = chan[l][i + 1] /\ i + 1 # 1
      BY <1>1, <2>1
    <3>2. chan[l][i + 1] # id
      BY <1>1, <3>1 DEF IInv, Once
    <3> QED BY <2>1, <3>1, <3>2
  <2>2. CASE m # l
    BY <1>1, <2>2 DEF IInv, Once
  <2> QED BY <2>1, <2>2
<1>5. \A m, n \in Lane : \A i \in 1..Len(chan'[m]), k \in 1..Len(chan'[n]) :
         chan'[m][i] = chan'[n][k] => m = n /\ i = k
  <2> SUFFICES ASSUME NEW m \in Lane, NEW n \in Lane,
                      NEW i \in 1..Len(chan'[m]), NEW k \in 1..Len(chan'[n]),
                      chan'[m][i] = chan'[n][k]
               PROVE  m = n /\ i = k
    OBVIOUS
  <2> DEFINE At(x, y) == IF x = l THEN y + 1 ELSE y
  <2>1. /\ At(m, i) \in 1..Len(chan[m]) /\ chan'[m][i] = chan[m][At(m, i)]
        /\ At(n, k) \in 1..Len(chan[n]) /\ chan'[n][k] = chan[n][At(n, k)]
    BY <1>1
  <2>2. m = n /\ At(m, i) = At(n, k)
    BY <2>1 DEF IInv, Once
  <2>3. i = k
    BY <2>2
  <2> QED BY <2>2, <2>3
<1> HIDE DEF id
<1>6. CASE id \in taken /\ taken' = taken \ {id} /\ UNCHANGED <<pc, cur>>
  <2>1. TypeOK'
    BY <1>1, <1>6 DEF IInv, TypeOK
  <2>2. Phases'
    BY <1>4, <1>6 DEF IInv, Phases, Runner, Open
  <2>3. Routed'
    <3>1. \A k \in calls : k # id /\ (k \notin taken' => k \notin taken)
      BY <1>3, <1>6
    <3>2. \A m \in Lane : \A i \in 1..Len(chan'[m]) :
             /\ rows[chan'[m][i]] # NoRow
             /\ LaneOf(rows[chan'[m][i]].job) = m
             /\ chan'[m][i] \notin taken => Open(chan'[m][i])
             /\ chan'[m][i] \notin taken' => chan'[m][i] \notin taken
      <4> SUFFICES ASSUME NEW m \in Lane, NEW i \in 1..Len(chan'[m])
                   PROVE  /\ rows[chan'[m][i]] # NoRow
                          /\ LaneOf(rows[chan'[m][i]].job) = m
                          /\ chan'[m][i] \notin taken => Open(chan'[m][i])
                          /\ chan'[m][i] \notin taken' => chan'[m][i] \notin taken
        OBVIOUS
      <4> HIDE DEF Recv
      <4>1. PICK k \in 1..Len(chan[m]) : chan'[m][i] = chan[m][k]
        BY <1>4
      <4>2. chan'[m][i] # id
        BY <1>4
      <4> QED BY <4>1, <4>2, <1>6 DEF IInv, Routed
    <3>3. rows' = rows /\ calls' = calls
      OBVIOUS
    <3> QED BY <3>1, <3>2, <3>3 DEF IInv, Routed, Open
  <2>4. Worked'
    BY <1>6 DEF IInv, Worked, Open
  <2>5. Once'
    <3>1. \A m \in Lane : \A i \in 1..Len(chan'[m]) :
             chan'[m][i] \notin calls /\ \A r \in Runner : chan'[m][i] # cur[r]
      BY <1>4 DEF IInv, Once
    <3>2. calls' = calls /\ cur' = cur
      BY <1>6
    <3> QED BY <1>5, <3>1, <3>2 DEF IInv, Once
  <2>6. id \notin batch
    <3>1. id \in batch => l = "background"
      BY <1>3, BatchLane DEF IInv, Batched
    <3> QED BY <3>1 DEF IInv, Batched, Batching
  <2>7. Batched'
    BY <1>6, <2>6 DEF IInv, Batched, Open
  <2> QED BY <2>1, <2>2, <2>3, <2>4, <2>5, <2>7 DEF IInv
<1>7. CASE /\ id \notin taken /\ UNCHANGED taken
           /\ pc' = [pc EXCEPT ![l] = "gate"]
           /\ cur' = [cur EXCEPT ![l] = id]
  <2>1. /\ cur'[l] = id /\ pc'[l] = "gate"
        /\ \A r \in Runner : r # l => cur'[r] = cur[r] /\ pc'[r] = pc[r]
        /\ cur' \in [Runner -> Ids \cup {0}] /\ pc' \in [Runner -> Places]
        /\ id \in Ids /\ id # 0 /\ l \in Runner /\ l # "inline"
    BY <1>1, <1>7, IdsPositive DEF IInv, TypeOK, Places, Runner, Lane, id
  <2>2. TypeOK'
    BY <1>1, <1>7, <2>1 DEF IInv, TypeOK
  <2>3. Phases'
    BY <1>4, <1>7, <2>1 DEF IInv, Phases, Runner, Open
  <2>4. Routed'
    BY <1>4, <1>7 DEF IInv, Routed, Open
  <2>5. Worked'
    BY <1>3, <1>7, <2>1 DEF IInv, Worked, Open
  <2>6. Once'
    <3>1. \A m \in Lane : \A i \in 1..Len(chan'[m]) :
             chan'[m][i] \notin calls /\ \A r \in Runner : chan'[m][i] # cur'[r]
      BY <1>4, <2>1 DEF IInv, Once
    <3>2. \A r \in Runner : cur'[r] \notin calls
      BY <1>3, <2>1 DEF IInv, Once
    <3>3. \A r, s \in Runner : cur'[r] # 0 /\ cur'[r] = cur'[s] => r = s
      BY <1>3, <2>1 DEF IInv, Once
    <3>4. calls' = calls
      OBVIOUS
    <3> HIDE DEF Recv
    <3> QED BY <1>5, <3>1, <3>2, <3>3, <3>4 DEF Once
  <2>7. Batched'
    <3>1. "background" \in Runner
      BY DEF Runner, Lane
    <3>2. batch # {} => l # "background"
      BY DEF IInv, Batched, Batching
    <3> QED BY <1>7, <2>1, <3>1, <3>2 DEF IInv, Batched, Open
  <2> QED BY <2>2, <2>3, <2>4, <2>5, <2>6, <2>7 DEF IInv
<1> QED BY <1>1, <1>6, <1>7 DEF id

\* A request is given up: its row stays, in no lane.
LEMMA LeaveStep == ASSUME IInv, NEW id \in Ids, Leave(id) PROVE IInv'
<1> USE DEF Leave, rowVars, bootVars, laneVars, datVars
<1>1. TypeOK' /\ Phases'
  BY DEF IInv, TypeOK, Phases
<1>2. Routed' /\ Worked' /\ Once' /\ Batched'
  BY DEF IInv, Routed, Worked, Once, Batched, Open
<1> QED BY <1>1, <1>2 DEF IInv

\* A row in no place yet is sent to its lane.
LEMMA SendStep ==
    ASSUME IInv, TypeOK', NEW id \in Ids, NEW l \in Lane, Send(id, l),
           phase # "down", rows'[id] # NoRow, LaneOf(rows'[id].job) = l,
           id \notin taken => rows'[id].state \in Active,
           id \notin calls', calls' \subseteq calls,
           phase = "reconcile" => id \notin todo',
           todo' \subseteq todo,
           \A k \in Ids : k # id => rows'[k] = rows[k],
           id \in taken \/ (\E r \in Runner : cur[r] = id) => rows'[id] = rows[id],
           pc["background"] = "claim" => rows'[id] = rows[id],
           \A m \in Lane : \A i \in 1..Len(chan[m]) : chan[m][i] # id,
           \A r \in Runner : cur[r] # id,
           UNCHANGED <<phase, pc, cur, cands, batch, taken>>
    PROVE  IInv'
<1>1. /\ Len(chan'[l]) = Len(chan[l]) + 1
      /\ chan'[l][Len(chan[l]) + 1] = id
      /\ \A i \in 1..Len(chan[l]) : chan'[l][i] = chan[l][i]
      /\ \A m \in Lane : m # l => chan'[m] = chan[m]
  BY SendChan DEF IInv
<1>2. \A m \in Lane : Len(chan[m]) \in Nat /\ \A i \in 1..Len(chan[m]) : chan[m][i] \in Ids
  BY ChanIds DEF IInv
<1>3. ASSUME NEW m \in Lane, NEW i \in 1..Len(chan'[m])
      PROVE  \/ i \in 1..Len(chan[m]) /\ chan'[m][i] = chan[m][i] /\ chan[m][i] # id
             \/ m = l /\ i = Len(chan[l]) + 1 /\ chan'[m][i] = id
  <2>1. CASE m = l
    BY <1>1, <1>2, <2>1
  <2>2. CASE m # l
    BY <1>1, <2>2
  <2> QED BY <2>1, <2>2
<1>4. Phases'
  <2>1. phase = "reconcile" => \A k \in todo' : k # id /\ k \in todo /\ k \in Ids
    BY DEF IInv, TypeOK
  <2>2. phase = "reconcile" =>
          \A k \in todo' : /\ rows'[k].state \in Active
                           /\ \A m \in Lane : \A i \in 1..Len(chan'[m]) : chan'[m][i] # k
    BY <1>3, <2>1 DEF IInv, Phases, Open
  <2> QED BY <2>2 DEF IInv, Phases, Open
<1>5. Routed'
  <2>1. \A k \in calls' : k # id /\ k \in Ids /\ k \in calls
    BY DEF IInv, TypeOK
  <2>2. \A k \in calls' : rows'[k] # NoRow /\ (k \notin taken => rows'[k].state \in Active)
    BY <2>1 DEF IInv, Routed, Open
  <2>3. ASSUME NEW m \in Lane, NEW i \in 1..Len(chan'[m])
        PROVE  LET k == chan'[m][i] IN /\ rows'[k] # NoRow /\ LaneOf(rows'[k].job) = m
                                       /\ k \notin taken => rows'[k].state \in Active
    <3>1. CASE i \in 1..Len(chan[m]) /\ chan'[m][i] = chan[m][i] /\ chan[m][i] # id
      BY <1>2, <3>1 DEF IInv, Routed, Open
    <3>2. CASE m = l /\ chan'[m][i] = id
      BY <3>2
    <3> QED BY <1>3, <3>1, <3>2
  <2> QED BY <2>2, <2>3 DEF Routed, Open
<1>6. Worked'
  BY DEF IInv, TypeOK, Worked, Open
<1>7. Once'
  <2>1. \A m, n \in Lane : \A i \in 1..Len(chan'[m]), k \in 1..Len(chan'[n]) :
           chan'[m][i] = chan'[n][k] => m = n /\ i = k
    <3> SUFFICES ASSUME NEW m \in Lane, NEW n \in Lane,
                        NEW i \in 1..Len(chan'[m]), NEW k \in 1..Len(chan'[n]),
                        chan'[m][i] = chan'[n][k]
                 PROVE  m = n /\ i = k
      OBVIOUS
    <3> QED BY <1>3, SMTT(40) DEF IInv, Once
  <2>2. \A m \in Lane : \A i \in 1..Len(chan'[m]) :
           chan'[m][i] \notin calls' /\ \A r \in Runner : chan'[m][i] # cur[r]
    BY <1>3 DEF IInv, Once
  <2> QED BY <2>1, <2>2 DEF IInv, Once
<1>8. Batched'
  <2>1. \A k \in taken : k \in Ids /\ rows'[k] = rows[k]
    BY DEF IInv, TypeOK
  <2>2. pc["background"] = "claim" => \A k \in cands : rows'[k] = rows[k]
    BY DEF IInv, TypeOK
  <2> QED BY <2>1, <2>2 DEF IInv, Batched, Open
<1> QED BY <1>4, <1>5, <1>6, <1>7, <1>8 DEF IInv

\* The call that inserted a row sends it, or finds the lane ended.
LEMMA DispatchStep == ASSUME IInv, NEW id \in Ids, Dispatch(id) PROVE IInv'
<1> USE DEF Dispatch, rowVars, bootVars, datVars
<1>1. DEFINE l == LaneOf(rows[id].job)
<1>2. l \in Lane
  BY LaneOfType
<1>3. /\ phase # "down" /\ phase # "reconcile" /\ rows[id] # NoRow
      /\ id \notin taken => rows[id].state \in Active
      /\ \A m \in Lane : \A i \in 1..Len(chan[m]) : chan[m][i] # id
      /\ \A r \in Runner : cur[r] # id
  BY DEF IInv, Phases, Routed, Once, Open
<1>4. CASE pc[l] # "gone" /\ Send(id, l)
  <2>1. chan' \in [Lane -> Seq(Ids)] /\ cancels' \in [Ids -> {"none", "open", "set"}]
    BY <1>2, <1>4, SendChan DEF IInv
  <2>2. TypeOK'
    BY <2>1 DEF IInv, TypeOK
  <2> HIDE DEF l
  <2> QED BY <1>2, <1>3, <1>4, <2>2, SendStep DEF l
<1>5. CASE cancels' = [cancels EXCEPT ![id] = "none"] /\ UNCHANGED chan
  <2>1. TypeOK' /\ Phases'
    BY <1>5 DEF IInv, TypeOK, Phases, Open
  <2>2. Routed' /\ Worked' /\ Once' /\ Batched'
    BY <1>5 DEF IInv, Routed, Worked, Once, Batched, Open
  <2> QED BY <2>1, <2>2 DEF IInv
<1> QED BY <1>4, <1>5

\* Reconciliation deletes a row, sends it to its lane, or fails it; nothing else is at
\* work meanwhile.
LEMMA ReconcileStep == ASSUME IInv, NEW id \in Ids, Reconcile(id) PROVE IInv'
<1> USE DEF Reconcile, datVars
<1>1. /\ calls = {} /\ taken = {} /\ batch = {}
      /\ \A r \in Runner : cur[r] = 0 /\ pc[r] = "off"
      /\ Open(id) /\ rows[id] # NoRow /\ id # 0
      /\ \A l \in Lane : \A i \in 1..Len(chan[l]) : chan[l][i] # id
      /\ id \notin todo' /\ todo' \subseteq todo
  BY RowPresent, IdsPositive DEF IInv, Phases
<1>2. todo' \in SUBSET Ids /\ seen' \in SUBSET (Jobs \cup {Inline})
  <2>1. rows[id].job \in Jobs \cup {Inline}
    BY <1>1, RowPresent DEF IInv
  <2> QED BY <2>1 DEF IInv, TypeOK
<1>3. ASSUME rows' = [rows EXCEPT ![id] = NoRow] \/ rows' = InState(id, "failed"),
             UNCHANGED <<chan, cancels>>
      PROVE  IInv'
  <2>1. rows' \in [Ids -> Row] /\ \A k \in Ids : k # id => rows'[k] = rows[k]
    BY <1>1, <1>3, SetStateRows DEF IInv, TypeOK, Row, JobState
  <2>2. TypeOK'
    BY <1>2, <1>3, <2>1 DEF IInv, TypeOK
  <2>3. Phases'
    <3>1. \A k \in todo' : k \in Ids /\ k # id /\ k \in todo
      BY <1>1, <1>2
    <3> QED BY <1>3, <2>1, <3>1 DEF IInv, Phases, Open
  <2>4. Routed'
    BY <1>1, <1>3, <2>1, ChanIds DEF IInv, Routed, Open
  <2>5. Worked' /\ Once'
    BY <1>1, <1>3 DEF IInv, Worked, Once, Busy
  <2>6. Batched'
    BY <1>1, <1>3 DEF IInv, Batched, Lane, Runner
  <2> QED BY <2>2, <2>3, <2>4, <2>5, <2>6 DEF IInv
<1>4. ASSUME NEW l \in Lane, l = LaneOf(rows[id].job),
             rows' = [rows EXCEPT ![id] = [job |-> @.job, lane |-> l, state |-> "queued"]],
             Send(id, l)
      PROVE  IInv'
  <2>1. /\ rows' \in [Ids -> Row] /\ rows'[id].job = rows[id].job
        /\ rows'[id].state = "queued" /\ rows'[id] # NoRow
        /\ \A k \in Ids : k # id => rows'[k] = rows[k]
    <3>1. rows' = WithRow(id, rows[id].job, l)
      BY <1>4 DEF WithRow, IInv, TypeOK
    <3>2. rows[id].job \in Jobs \cup {Inline}
      BY <1>1, RowPresent DEF IInv
    <3>3. TypeOK
      BY DEF IInv
    <3> HIDE DEF Reconcile
    <3> QED BY <3>1, <3>2, <3>3, QueuedRow
  <2>2. chan' \in [Lane -> Seq(Ids)] /\ cancels' \in [Ids -> {"none", "open", "set"}]
    BY <1>4, SendChan DEF IInv
  <2>3. TypeOK'
    BY <1>2, <2>1, <2>2 DEF IInv, TypeOK
  <2>4. pc["background"] # "claim" /\ \A r \in Runner : cur[r] # id
    BY <1>1 DEF Lane, Runner
  <2> QED BY <1>1, <1>4, <2>1, <2>3, <2>4, SendStep DEF Active
<1>5. LaneOf(rows[id].job) \in Lane
  BY LaneOfType
<1> QED BY <1>3, <1>4, <1>5

\* A new row takes an id that is in no place.
LEMMA FreshId ==
    ASSUME IInv, NEW id \in Ids, IsNextId(id)
    PROVE  /\ rows[id] = NoRow /\ ~Open(id) /\ id # 0
           /\ id \notin calls /\ id \notin taken /\ id \notin batch
           /\ \A l \in Lane : \A i \in 1..Len(chan[l]) : chan[l][i] # id
           /\ \A r \in Runner : cur[r] # id
           /\ pc["background"] = "claim" => id \notin cands
<1>1. rows[id] = NoRow /\ id # 0
  BY IdsPositive DEF IsNextId
<1>2. NoRow.state = "absent"
  BY DEF NoRow
<1>3. ~Open(id)
  BY <1>1, <1>2 DEF Open, Active
<1>4. id \notin calls /\ id \notin taken /\ id \notin batch
      /\ \A l \in Lane : \A i \in 1..Len(chan[l]) : chan[l][i] # id
  BY <1>1 DEF IInv, Routed, Batched
<1>5. \A r \in Runner : cur[r] # id
  BY <1>1, <1>3 DEF IInv, Worked
<1>6. pc["background"] = "claim" => id \notin cands
  BY <1>1, <1>2 DEF IInv, Batched
<1> QED BY <1>1, <1>3, <1>4, <1>5, <1>6

\* A request joins a row, or adds one that only its call knows.
LEMMA RequestStep == ASSUME IInv, NEW j \in Jobs, Request(j) PROVE IInv'
<1> USE DEF Request, laneVars, bootVars, datVars
<1>1. owed' \in SUBSET Jobs
  BY DEF IInv, TypeOK
<1>2. CASE UNCHANGED <<rows, calls>>
  <2>1. TypeOK'
    BY <1>1, <1>2 DEF IInv, TypeOK
  <2> QED BY <1>2, <2>1, InnerStutter DEF inner
<1>3. ASSUME NEW id \in Ids, IsNextId(id),
             rows' = [rows EXCEPT ![id] = [job |-> j, lane |-> LaneOf(j), state |-> "queued"]],
             calls' = calls \cup {id}
      PROVE  IInv'
  <2> HIDE DEF Request
  <2>1. /\ rows' \in [Ids -> Row] /\ rows'[id].state = "queued" /\ rows'[id] # NoRow
        /\ \A k \in Ids : k # id => rows'[k] = rows[k]
    <3>1. rows' = WithRow(id, j, LaneOf(j)) /\ LaneOf(j) \in Lane
      BY <1>3, LaneOfType DEF WithRow
    <3>2. TypeOK
      BY DEF IInv
    <3> QED BY <3>1, <3>2, QueuedRow
  <2>2. UNCHANGED <<phase, todo, seen, chan, pc, cur, cands, batch, exit, taken, cancels, gate>>
    BY DEF Request
  <2>3. /\ id \notin taken /\ id \notin batch /\ ~Open(id)
        /\ \A l \in Lane : \A i \in 1..Len(chan[l]) : chan[l][i] # id
        /\ \A r \in Runner : cur[r] # id
        /\ pc["background"] = "claim" => id \notin cands
    BY <1>3, FreshId
  <2>4. TypeOK'
    BY <1>1, <1>3, <2>1, <2>2 DEF IInv, TypeOK
  <2>5. Phases'
    BY <1>3, <2>1, <2>2, <2>3 DEF IInv, TypeOK, Phases, Open, Request
  <2>6. Routed'
    BY <1>3, <2>1, <2>2, <2>3, ChanIds DEF IInv, TypeOK, Routed, Open, Active
  <2>7. Worked'
    BY <1>3, <2>1, <2>2, <2>3 DEF IInv, TypeOK, Worked, Open
  <2>8. Once'
    BY <1>3, <2>2, <2>3 DEF IInv, Once
  <2>9. Batched'
    BY <1>3, <2>1, <2>2, <2>3 DEF IInv, TypeOK, Batched, Open
  <2> QED BY <2>4, <2>5, <2>6, <2>7, <2>8, <2>9 DEF IInv
<1> QED BY <1>2, <1>3

\* The inline job gets a row and is held by its runner at once.
LEMMA RunInlineStep == ASSUME IInv, RunInline PROVE IInv'
<1>1. PICK id \in Ids :
         /\ IsNextId(id)
         /\ rows' = [rows EXCEPT ![id] = [job |-> Inline, lane |-> "light", state |-> "queued"]]
         /\ cur' = [cur EXCEPT !["inline"] = id]
         /\ cancels' = [cancels EXCEPT ![id] = "open"]
  BY DEF RunInline
<1>2. /\ pc["inline"] = "insert" /\ pc' = [pc EXCEPT !["inline"] = "start"]
      /\ UNCHANGED <<owed, phase, todo, seen, calls, chan, cands, batch, exit, taken, gate>>
  BY DEF RunInline, bootVars, datVars
<1>3. /\ rows' \in [Ids -> Row] /\ rows'[id].state = "queued" /\ rows'[id] # NoRow
      /\ rows'[id].job = Inline /\ \A k \in Ids : k # id => rows'[k] = rows[k]
  <2>1. "light" \in Lane /\ rows' = WithRow(id, Inline, "light")
    BY <1>1 DEF Lane, WithRow
  <2>2. TypeOK
    BY DEF IInv
  <2> QED BY <2>1, <2>2, QueuedRow
<1>4. /\ id \notin taken /\ id \notin batch /\ id \notin calls /\ ~Open(id) /\ id # 0
      /\ \A l \in Lane : \A i \in 1..Len(chan[l]) : chan[l][i] # id
      /\ \A r \in Runner : cur[r] # id
      /\ pc["background"] = "claim" => id \notin cands
  BY <1>1, FreshId
<1>5. /\ cur'["inline"] = id /\ pc'["inline"] = "start"
      /\ \A r \in Runner : r # "inline" => cur'[r] = cur[r] /\ pc'[r] = pc[r]
      /\ "background" \in Runner /\ "inline" \in Runner /\ Lane \subseteq Runner
      /\ "inline" \notin Lane
  BY <1>1, <1>2 DEF IInv, TypeOK, Runner, Lane
<1>6. TypeOK'
  BY <1>1, <1>2, <1>3 DEF IInv, TypeOK, Places
<1>7. Phases'
  <2>1. phase \notin {"down", "reconcile"}
    BY <1>2, <1>5 DEF IInv, Phases
  <2> QED BY <1>2, <1>5, <2>1 DEF IInv, Phases
<1>8. Routed'
  BY <1>2, <1>3, <1>4, ChanIds DEF IInv, TypeOK, Routed, Open
<1>9. Worked'
  <2> SUFFICES ASSUME NEW q \in Runner
               PROVE  /\ pc'[q] \in Busy => cur'[q] # 0
                      /\ cur'[q] # 0 => /\ rows'[cur'[q]].state \in Active
                                        /\ cur'[q] \notin taken'
                                        /\ q = "inline" => rows'[cur'[q]].job = Inline
                                        /\ q # "inline" => LaneOf(rows'[cur'[q]].job) = q
    BY DEF Worked, Open
  <2>1. CASE q = "inline"
    BY <1>2, <1>3, <1>4, <1>5, <2>1 DEF Active
  <2>2. CASE q # "inline"
    BY <1>2, <1>3, <1>4, <1>5, <2>2 DEF IInv, TypeOK, Worked, Open
  <2> QED BY <2>1, <2>2
<1>10. Once'
  BY <1>2, <1>4, <1>5 DEF IInv, Once
<1>11. Batched'
  <2>1. \A k \in taken : k \in Ids /\ rows'[k] = rows[k]
    BY <1>3, <1>4 DEF IInv, TypeOK
  <2>2. pc["background"] = "claim" => \A k \in cands : rows'[k] = rows[k]
    BY <1>3, <1>4 DEF IInv, TypeOK
  <2>3. pc'["background"] = pc["background"] /\ cur'["background"] = cur["background"]
    BY <1>5
  <2> QED BY <1>2, <2>1, <2>2, <2>3 DEF IInv, Batched, Open
<1> QED BY <1>6, <1>7, <1>8, <1>9, <1>10, <1>11 DEF IInv

-----------------------------------------------------------------------------
(* The steps of a batch *)

\* The lead of a batch at work, and its followers, have open rows.
LEMMA LeadOpen ==
    ASSUME IInv, pc["background"] \in Busy
    PROVE  /\ lead # 0 /\ lead \in Ids /\ Open(lead)
           /\ phase \in {"up", "stopping"}
           /\ \A k \in batch : k \in Ids /\ Open(k)
BY DEF IInv, TypeOK, Phases, Worked, Batched, lead, bg, Busy, Runner, Lane

\* The followers listed are queued imports other than the lead.
LEMMA ListBatchStep == ASSUME IInv, ListBatch PROVE IInv'
<1>1. PICK found \in SUBSET {id \in Ids \ {lead} : /\ rows[id].state = "queued"
                                                  /\ Batches(rows[id].job)
                                                  /\ cancels[id] # "set"} :
         /\ cands' = found
         /\ pc' = [pc EXCEPT ![bg] = IF found = {} THEN "run" ELSE "claim"]
  BY DEF ListBatch
<1>2. /\ pc["background"] = "take"
      /\ UNCHANGED <<rows, owed, phase, todo, seen, calls, chan, cur, batch, exit, taken,
                     cancels, gate>>
  BY DEF ListBatch, rowVars, bootVars, bg
<1>3. /\ pc' \in [Runner -> Places] /\ pc'["background"] \in {"run", "claim"}
      /\ \A r \in Runner : r # "background" => pc'[r] = pc[r]
      /\ "background" \in Runner
  BY <1>1 DEF IInv, TypeOK, bg, Places, Runner, Lane
<1>4. TypeOK'
  BY <1>1, <1>2, <1>3 DEF IInv, TypeOK
<1>5. phase \in {"up", "stopping"} /\ cur["background"] # 0
  BY <1>2, LeadOpen DEF Busy, lead, bg
<1>6. Phases' /\ Routed' /\ Once'
  BY <1>2, <1>5 DEF IInv, Phases, Routed, Once, Open
<1>7. Worked'
  BY <1>2, <1>3, <1>5 DEF IInv, Worked, Open
<1>8. Batched'
  <2>1. batch = {}
    BY <1>2 DEF IInv, Batched, Batching
  <2>2. \A k \in cands' : /\ rows[k].state = "queued" /\ Batches(rows[k].job)
                          /\ k # cur["background"]
    BY <1>1 DEF lead, bg
  <2> QED BY <1>2, <2>1, <2>2 DEF IInv, Batched, Open
<1> QED BY <1>4, <1>6, <1>7, <1>8 DEF IInv

\* A follower is claimed: it is taken, and in no worker's hands.
LEMMA ClaimStep == ASSUME IInv, NEW id \in Ids, Claim(id) PROVE IInv'
<1>1. /\ pc["background"] = "claim" /\ id \in cands /\ cands' = cands \ {id}
      /\ UNCHANGED <<phase, todo, seen, calls, chan, cur, exit, gate>>
  BY DEF Claim, bg, bootVars
<1>2. /\ rows[id].state = "queued" /\ Batches(rows[id].job) /\ id # cur["background"]
      /\ rows[id] # NoRow /\ id \notin taken
  BY <1>1, RowPresent DEF IInv, Batched
<1>3. /\ pc' \in [Runner -> Places]
      /\ pc'["background"] \in {"claim", "run", "batch"}
      /\ batch' # {} => pc'["background"] \in Batching
      /\ \A r \in Runner : r # "background" => pc'[r] = pc[r]
      /\ "background" \in Runner
  BY <1>1 DEF IInv, TypeOK, Claim, bg, Places, Runner, Lane, Batching
<1>4. phase \in {"up", "stopping"} /\ cur["background"] # 0
  BY <1>1, LeadOpen DEF Busy, lead, bg
<1>5. Phases'
  BY <1>1, <1>4 DEF IInv, Phases
<1>6. Once'
  BY <1>1 DEF IInv, Once
<1>7. CASE /\ rows' = InState(id, "running") /\ taken' = taken \cup {id}
           /\ batch' = batch \cup {id} /\ owed' = owed \ {rows[id].job}
           /\ cancels' = [cancels EXCEPT ![id] = IF @ = "none" THEN "open" ELSE @]
  <2>1. /\ rows' \in [Ids -> Row] /\ rows'[id].job = rows[id].job
        /\ rows'[id].state = "running" /\ rows'[id] # NoRow
        /\ \A k \in Ids : k # id => rows'[k] = rows[k]
    BY <1>2, <1>7, SetStateRows DEF IInv, JobState
  <2>2. TypeOK'
    BY <1>1, <1>3, <1>7, <2>1 DEF IInv, TypeOK
  <2>3. Routed'
    BY <1>1, <1>7, <2>1, ChanIds DEF IInv, TypeOK, Routed, Open, Active
  <2>4. Worked'
    <3>1. \A r \in Runner : cur[r] # id
      BY <1>2, BatchFree
    <3> QED BY <1>1, <1>3, <1>4, <1>7, <2>1, <3>1 DEF IInv, TypeOK, Worked, Open
  <2>5. Batched'
    BY <1>1, <1>2, <1>3, <1>7, <2>1 DEF IInv, TypeOK, Batched, Open, Active
  <2> QED BY <1>5, <1>6, <2>2, <2>3, <2>4, <2>5 DEF IInv
<1>8. CASE taken' = taken \ {id} /\ UNCHANGED <<rows, owed, batch, cancels>>
  <2>1. taken' = taken
    BY <1>2, <1>8
  <2>2. TypeOK'
    BY <1>1, <1>3, <1>8, <2>1 DEF IInv, TypeOK
  <2>3. Routed' /\ Worked'
    BY <1>1, <1>3, <1>4, <1>8, <2>1 DEF IInv, Routed, Worked, Open
  <2>4. Batched'
    BY <1>1, <1>3, <1>8, <2>1 DEF IInv, Batched, Open
  <2> QED BY <1>5, <1>6, <2>2, <2>3, <2>4 DEF IInv
<1> QED BY <1>7, <1>8 DEF Claim, rowVars

\* The steps of a batch that mark its rows.
MarkBatch == BatchPause \/ BatchResume \/ BatchStop \/ BatchMarkFails

\* A batch pauses, goes on or is given up: its rows are marked, or left where a write fails.
LEMMA BatchMarks ==
    ASSUME IInv, MarkBatch
    PROVE  /\ pc["background"] \in {"batch", "bheld"} /\ Marking(batch \cup {lead})
           /\ \E p \in {"batch", "bheld", "release"} :
                 /\ pc' = [pc EXCEPT !["background"] = p]
                 /\ p = "batch" => rows'[lead].state = "running"
                 /\ IF p = "release" THEN exit' \in {"stopped", "failed"} ELSE exit' = exit
           /\ UNCHANGED <<phase, todo, seen, calls, chan, cur, cands, batch, taken, cancels,
                          gate, owed>>
<1> USE DEF MarkBatch, BatchPause, BatchResume, BatchStop, BatchMarkFails, bootVars, datVars, bg
<1>1. pc["background"] \in {"batch", "bheld"}
  OBVIOUS
<1>2. UNCHANGED <<phase, todo, seen, calls, chan, cur, cands, batch, taken, cancels, gate, owed>>
  OBVIOUS
<1>3. batch \cup {lead} \in SUBSET Ids /\ \A k \in batch \cup {lead} : Open(k)
  BY <1>1, LeadOpen DEF Busy, IInv, TypeOK
<1>4. Written \subseteq SUBSET batch
  BY DEF Written
<1>5. Marking(batch \cup {lead})
  <2>1. TypeOK
    BY DEF IInv
  <2>2. \/ \E ids \in SUBSET (batch \cup {lead}), s \in {"running", "paused"} : rows' = Marked(ids, s)
        \/ \E left \in SUBSET batch :
              rows' = [k \in Ids |-> IF k \in left THEN Marked(batch, "paused")[k]
                                                  ELSE Marked(batch, "running")[k]]
    BY <1>4
  <2> HIDE DEF MarkBatch
  <2> QED BY <1>3, <2>1, <2>2, MarkingRows
<1>6. BatchResume => rows'[lead].state = "running"
  <2>1. ASSUME BatchResume PROVE rows'[lead].state = "running"
    <3>1. PICK ids \in SUBSET batch : rows' = Marked(ids \cup {lead}, "running")
      BY <1>4, <2>1
    <3>2. rows'[lead] = [job |-> rows[lead].job, lane |-> rows[lead].lane, state |-> "running"]
      BY <1>3, <3>1 DEF Marked
    <3> QED BY <3>2
  <2> QED BY <2>1
<1>7. \/ BatchPause \/ BatchStop \/ BatchMarkFails
      \/ BatchResume /\ rows'[lead].state = "running"
  BY <1>6
<1>8. \E p \in {"batch", "bheld", "release"} :
         /\ pc' = [pc EXCEPT !["background"] = p]
         /\ p = "batch" => rows'[lead].state = "running"
         /\ IF p = "release" THEN exit' \in {"stopped", "failed"} ELSE exit' = exit
  BY <1>7
<1> QED BY <1>1, <1>2, <1>5, <1>8

LEMMA BatchMarkStep == ASSUME IInv, MarkBatch PROVE IInv'
<1>1. PICK p \in {"batch", "bheld", "release"} :
         /\ pc' = [pc EXCEPT !["background"] = p]
         /\ IF p = "release" THEN exit' \in {"stopped", "failed"} ELSE exit' = exit
  BY BatchMarks
<1>2. /\ pc["background"] \in Busy \ {"claim"} /\ p \in Batching \cap Busy /\ p # "claim"
      /\ Marking(batch \cup {lead})
      /\ UNCHANGED <<phase, todo, seen, calls, chan, cur, cands, batch, taken, cancels, gate, owed>>
  BY BatchMarks DEF Busy, Batching
<1>3. /\ batch \cup {lead} \in SUBSET Ids
      /\ phase \in {"up", "stopping"} /\ cur["background"] # 0
  BY <1>2, LeadOpen DEF IInv, TypeOK, lead, bg
<1>4. pc' \in [Runner -> Places] /\ exit' \in {"run", "done", "failed", "stopped"}
  BY <1>1 DEF IInv, TypeOK, Places
<1>5. TypeOK'
  BY <1>2, <1>4 DEF IInv, TypeOK, Marking
<1> QED BY <1>1, <1>2, <1>3, <1>5, MarkStep

\* A batch that is given up or ends has its followers still to settle.
LEMMA BatchLeavesStep == ASSUME IInv, BatchGivesUp \/ BatchEnds PROVE IInv'
<1> USE DEF BatchGivesUp, BatchEnds, rowVars, bootVars, bg
<1>1. PICK p \in {"release", "settle"} : pc' = [pc EXCEPT !["background"] = p]
  OBVIOUS
<1>2. TypeOK'
  BY <1>1 DEF IInv, TypeOK, Places
<1>3. /\ phase \in {"up", "stopping"} /\ cur["background"] # 0
      /\ p \in Batching /\ p # "claim" /\ "background" \in Runner
  BY LeadOpen DEF Busy, Batching, lead, Runner, Lane
<1> QED BY <1>1, <1>2, <1>3, PlaceStep

\* A follower fails, or gets its own result.
LEMMA FollowerEndsStep ==
    ASSUME IInv, NEW id \in Ids, BatchDirty(id) \/ Settle(id) PROVE IInv'
<1> USE DEF BatchDirty, Settle, bootVars, laneVars, bg
<1>1. PICK s \in Finished : LastState(id, s)
  BY DEF Finished
<1>2. id \in batch /\ pc["background"] # "claim" /\ batch' = batch \ {id}
      /\ UNCHANGED <<phase, todo, calls, chan, pc, cur, cands, taken>>
  OBVIOUS
<1>3. rows' \in [Ids -> Row] /\ cancels' \in [Ids -> {"none", "open", "set"}]
  <2>1. Open(id) /\ s \in {"queued", "done", "failed"}
    BY <1>2 DEF IInv, Batched, Finished
  <2>2. rows' \in [Ids -> Row]
    BY <1>1, <2>1, LastStateRows DEF IInv
  <2> QED BY <1>1, <2>2 DEF LastState, IInv, TypeOK
<1>4. TypeOK'
  BY <1>2, <1>3 DEF IInv, TypeOK
<1> HIDE DEF BatchDirty, Settle
<1> QED BY <1>1, <1>2, <1>4, FollowerStep

\* A released follower is its lane's again.
LEMMA ReleaseStep == ASSUME IInv, NEW id \in Ids, Release(id) PROVE IInv'
<1>1. /\ pc["background"] = "release" /\ id \in batch /\ batch' = batch \ {id}
      /\ taken' = taken \ {id}
      /\ UNCHANGED <<owed, phase, todo, seen, calls, chan, pc, cur, cands, exit, cancels, gate>>
  BY DEF Release, bg, bootVars, laneVars
<1>2. Open(id) /\ rows[id] # NoRow /\ id \in taken /\ id \in Ids
  BY <1>1, RowPresent DEF IInv, Batched
<1>3. /\ rows' \in [Ids -> Row] /\ rows'[id].job = rows[id].job /\ rows'[id] # NoRow
      /\ rows'[id].state \in Active
      /\ \A k \in Ids : k # id => rows'[k] = rows[k]
  <2>1. CASE rows' = rows
    BY <1>2, <2>1 DEF IInv, TypeOK, Open
  <2>2. CASE rows' = WithRow(id, rows[id].job, "background")
    <3>1. "background" \in Lane /\ rows[id].job \in Jobs \cup {Inline}
      BY <1>2, RowPresent DEF IInv, Lane
    <3>2. TypeOK
      BY DEF IInv
    <3> QED BY <2>2, <3>1, <3>2, QueuedRow DEF Active
  <2>3. WithRow(id, rows[id].job, "background") =
           [rows EXCEPT ![id] = [job |-> @.job, lane |-> bg, state |-> "queued"]]
    BY DEF WithRow, bg, IInv, TypeOK
  <2> QED BY <2>1, <2>2, <2>3 DEF Release
<1>4. TypeOK'
  BY <1>1, <1>3 DEF IInv, TypeOK
<1>5. Phases'
  <2>1. phase \in {"up", "stopping"}
    BY <1>1, LeadOpen DEF Busy
  <2> QED BY <1>1, <2>1 DEF IInv, Phases
<1>6. Routed'
  BY <1>1, <1>3, ChanIds DEF IInv, TypeOK, Routed, Open
<1>7. Worked'
  <2>1. \A r \in Runner : cur[r] # id
    BY <1>2, IdsPositive DEF IInv, Worked
  <2> QED BY <1>1, <1>3, <2>1 DEF IInv, TypeOK, Worked, Open
<1>8. Once'
  BY <1>1 DEF IInv, Once
<1>9. Batched'
  BY <1>1, <1>3 DEF IInv, TypeOK, Batched, Open
<1> QED BY <1>4, <1>5, <1>6, <1>7, <1>8, <1>9 DEF IInv

\* Once no follower is left, the lead goes on alone or ends.
LEMMA BatchOverStep == ASSUME IInv, BatchOver PROVE IInv'
<1> USE DEF BatchOver, bootVars, bg
<1>1. /\ batch = {} /\ pc["background"] \in Busy /\ "background" \in Runner
      /\ phase \in {"up", "stopping"} /\ cur["background"] # 0
  BY LeadOpen DEF Busy, lead, Runner, Lane
<1>2. CASE pc' = [pc EXCEPT !["background"] = "run"] /\ UNCHANGED <<rows, cur, cancels>>
  <2>1. TypeOK'
    BY <1>2 DEF IInv, TypeOK, Places
  <2>2. "run" \in Busy
    BY DEF Busy
  <2> QED BY <1>1, <1>2, <2>1, <2>2, PlaceStep
<1>3. ASSUME NEW s \in {"queued", "done", "failed"}, Conclude("background", s)
      PROVE  IInv'
  <2>1. TypeOK'
    BY <1>1, <1>3, ConcludeTypes DEF IInv, TypeOK
  <2> QED BY <1>1, <1>3, <2>1, ConcludeStep
<1>4. exit \in {"run", "done", "failed", "stopped"}
  BY DEF IInv, TypeOK
<1> QED BY <1>2, <1>3, <1>4

-----------------------------------------------------------------------------
(* The theorems *)

\* The invariant holds of a first start: an empty table and no process.
LEMMA InitInv == ASSUME Init PROVE IInv
<1> USE DEF Init
<1>1. <<>> \in Seq(Ids) /\ Len(<<>>) = 0
  OBVIOUS
<1>2. TypeOK
  BY <1>1 DEF TypeOK, Row, Places
<1>3. \A l \in Lane : Len(chan[l]) = 0 /\ chan[l] = <<>>
  BY <1>1
<1>4. Phases /\ Routed /\ Once
  BY <1>3, IdsPositive DEF Phases, Routed, Once, Runner, Lane
<1>5. Worked /\ Batched
  BY DEF Worked, Batched, Busy, Runner, Lane
<1> QED BY <1>2, <1>4, <1>5 DEF IInv

\* Every step of the scheduler keeps the invariant.
LEMMA NextInv == ASSUME IInv, [Next]_vars PROVE IInv'
<1>1. CASE UNCHANGED vars
  <2>1. TypeOK'
    BY <1>1 DEF IInv, TypeOK, vars, rowVars, bootVars, laneVars, datVars
  <2> QED BY <1>1, <2>1, InnerStutter DEF inner, vars, rowVars, bootVars, laneVars, datVars
<1>2. CASE Boot \/ Reconciled \/ RunInline \/ OpenLanes \/ BeginShutdown
  BY <1>2, BootStep, ReconciledStep, RunInlineStep, OpenLanesStep, BeginShutdownStep
<1>3. CASE Stop \/ Crash
  BY <1>3, GoDownStep DEF Stop, Crash
<1>4. ASSUME NEW id \in Ids, \/ Reconcile(id) \/ Dispatch(id) \/ Leave(id) \/ Cancel(id)
                             \/ BatchDirty(id)
      PROVE  IInv'
  BY <1>4, ReconcileStep, DispatchStep, LeaveStep, CancelStep, FollowerEndsStep
<1>5. ASSUME NEW j \in Jobs, Request(j) PROVE IInv'
  BY <1>5, RequestStep
<1>6. ASSUME NEW c \in CoreNames, SetCorename(c) PROVE IInv'
  BY <1>6, SetCorenameStep
<1>7. ASSUME NEW m \in {"paused", "running"}, SetOverride(m) PROVE IInv'
  BY <1>7, SetOverrideStep
<1>8. ASSUME NEW l \in Lane, LaneStep(l) \/ Abort(l) PROVE IInv'
  BY <1>8, RecvStep, PassGateStep, LaneStopsStep, AbortStep DEF LaneStep
<1>9. ASSUME NEW r \in Runner, JobStep(r) \/ StartFails(r) \/ Pause(r) \/ UnpauseFails(r) \/ Finish(r)
      PROVE  IInv'
  BY <1>9, StartStep, StartFailsStep, PauseStep, EndStep DEF JobStep
<1>10. CASE ReadHeavyQueue \/ EndRunNow
  BY <1>10, HeavyStep
<1>11. CASE DatStep \/ BatchPause \/ BatchMarkFails
  BY <1>11, ListBatchStep, ClaimStep, BatchLeavesStep, BatchMarkStep, FollowerEndsStep,
     ReleaseStep, BatchOverStep DEF DatStep, MarkBatch
<1> QED BY <1>1, <1>2, <1>3, <1>4, <1>5, <1>6, <1>7, <1>8, <1>9, <1>10, <1>11 DEF Next

\* The invariant holds throughout.
THEOREM Invariant == Spec => []IInv
<1>1. Init => IInv
  BY InitInv
<1>2. IInv /\ [Next]_vars => IInv'
  BY NextInv
<1> QED BY <1>1, <1>2, PTL DEF Spec

\* Every variable of the scheduler keeps its type: rows, channels of ids, places, the
\* gate and the sets of a batch.
THEOREM TypeCorrect == Spec => []TypeOK
<1>1. IInv => TypeOK
  BY DEF IInv
<1> QED BY <1>1, Invariant, PTL

\* A job is never in two hands: what a worker or a batch works on is open, and in nobody
\* else's hands, whatever is requested, cancelled, batched, paused, stopped or killed.
THEOREM OneWorkerAlways == Spec => []OneWorker
<1>1. IInv => OneWorker
  BY DEF IInv, Worked, Once, Batched, OneWorker
<1> QED BY <1>1, Invariant, PTL

-----------------------------------------------------------------------------
(* A finished row stays *)

\* What FinishedStays says of one step.
Stays == \A id \in Ids : rows[id].state \in Finished => rows'[id] \in {rows[id], NoRow}

\* The state of an open row is set, in one of the ways the code sets it.
LEMMA OpenRowStays ==
    ASSUME TypeOK, NEW id \in Ids, Open(id),
           \/ \E s \in JobState : rows' = InState(id, s)
           \/ \E s \in {"queued", "done", "failed"} : LastState(id, s)
           \/ \E l \in Lane : rows' = WithRow(id, rows[id].job, l)
           \/ rows' = [rows EXCEPT ![id] = NoRow]
    PROVE  Stays
<1>1. rows[id] # NoRow /\ rows[id].job \in Jobs \cup {Inline} /\ rows[id].state \notin Finished
  BY RowPresent DEF Open, Active, Finished
<1>2. CASE \E s \in JobState : rows' = InState(id, s)
  <2>1. \A k \in Ids : k # id => rows'[k] = rows[k]
    BY <1>1, <1>2, SetStateRows
  <2> QED BY <1>1, <2>1 DEF Stays
<1>3. CASE \E s \in {"queued", "done", "failed"} : LastState(id, s)
  <2>1. \A k \in Ids : k # id => rows'[k] \in {rows[k], NoRow}
    BY <1>3, LastStateRows
  <2> QED BY <1>1, <2>1 DEF Stays
<1>4. CASE \E l \in Lane : rows' = WithRow(id, rows[id].job, l)
  <2>1. \A k \in Ids : k # id => rows'[k] = rows[k]
    BY <1>1, <1>4, QueuedRow
  <2> QED BY <1>1, <2>1 DEF Stays
<1>5. CASE rows' = [rows EXCEPT ![id] = NoRow]
  BY <1>1, <1>5 DEF Stays, TypeOK
<1> QED BY <1>2, <1>3, <1>4, <1>5

\* A request and the inline job add a row where there is none.
LEMMA NewRowStays ==
    ASSUME IInv, (\E j \in Jobs : Request(j)) \/ RunInline PROVE Stays
<1>1. ASSUME NEW id \in Ids, IsNextId(id), NEW j \in Jobs \cup {Inline}, NEW l \in Lane,
             rows' = WithRow(id, j, l)
      PROVE  Stays
  <2>1. TypeOK /\ rows[id] = NoRow /\ NoRow.state \notin Finished
    BY <1>1, FreshId DEF IInv, NoRow, Finished
  <2>2. \A k \in Ids : k # id => rows'[k] = rows[k]
    BY <1>1, <2>1, QueuedRow
  <2> QED BY <2>1, <2>2 DEF Stays
<1>2. ASSUME NEW j \in Jobs, Request(j) PROVE Stays
  <2>1. CASE UNCHANGED rows
    BY <2>1 DEF Stays
  <2>2. CASE \E id \in Ids : /\ IsNextId(id)
                             /\ rows' = [rows EXCEPT ![id] =
                                   [job |-> j, lane |-> LaneOf(j), state |-> "queued"]]
    BY <1>1, <2>2, LaneOfType DEF WithRow
  <2> QED BY <1>2, <2>1, <2>2 DEF Request
<1>3. CASE RunInline
  BY <1>1, <1>3 DEF RunInline, WithRow, Lane
<1> QED BY <1>2, <1>3

\* No step changes a finished row, except that it may be pruned.
LEMMA StepStays == ASSUME IInv, [Next]_vars PROVE Stays
<1>1. TypeOK
  BY DEF IInv
<1>2. CASE UNCHANGED rows
  BY <1>2 DEF Stays
<1>3. ASSUME NEW id \in Ids, Reconcile(id) PROVE Stays
  <2>1. Open(id)
    BY <1>3 DEF Reconcile, IInv, Phases
  <2>2. LaneOf(rows[id].job) \in Lane
    BY LaneOfType
  <2>3. WithRow(id, rows[id].job, LaneOf(rows[id].job)) =
           [rows EXCEPT ![id] = [job |-> @.job, lane |-> LaneOf(rows[id].job),
                                 state |-> "queued"]]
    BY <1>1 DEF WithRow, TypeOK
  <2> QED BY <1>1, <1>3, <2>1, <2>2, <2>3, OpenRowStays DEF Reconcile, JobState
<1>4. ASSUME NEW r \in Runner, JobStep(r) \/ Pause(r) \/ UnpauseFails(r) \/ Finish(r) PROVE Stays
  <2>1. cur[r] \in Ids /\ Open(cur[r])
    <3>1. pc[r] \in Busy
      BY <1>4 DEF JobStep, Start, StopJob, Unpause, UnpauseFails, Pause, Finish, Busy
    <3> QED BY <3>1 DEF IInv, TypeOK, Worked
  <2>2. \/ \E s \in JobState : rows' = InState(cur[r], s)
        \/ \E s \in {"queued", "done", "failed"} : LastState(cur[r], s)
    BY <1>4 DEF JobStep, Start, StopJob, Unpause, UnpauseFails, Pause, Finish, Conclude,
                JobState, Finished
  <2> QED BY <1>1, <2>1, <2>2, OpenRowStays
<1>5. ASSUME NEW id \in Ids, BatchDirty(id) \/ Settle(id) \/ Release(id) PROVE Stays
  <2>1. Open(id)
    BY <1>5 DEF BatchDirty, Settle, Release, IInv, Batched
  <2>2. WithRow(id, rows[id].job, bg) =
           [rows EXCEPT ![id] = [job |-> @.job, lane |-> bg, state |-> "queued"]]
    BY <1>1 DEF WithRow, TypeOK
  <2>3. bg \in Lane
    BY DEF bg, Lane
  <2>4. CASE Release(id)
    BY <1>1, <1>2, <2>1, <2>2, <2>3, <2>4, OpenRowStays DEF Release
  <2>5. CASE BatchDirty(id) \/ Settle(id)
    BY <1>1, <2>1, <2>5, OpenRowStays DEF BatchDirty, Settle, Finished
  <2> QED BY <1>5, <2>4, <2>5
<1>6. ASSUME NEW id \in Ids, Claim(id) PROVE Stays
  <2>1. Open(id)
    BY <1>6 DEF Claim, bg, IInv, Batched, Open, Active
  <2>2. CASE rows' = InState(id, "running")
    BY <1>1, <2>1, <2>2, OpenRowStays DEF JobState
  <2> QED BY <1>2, <1>6, <2>2 DEF Claim, rowVars
<1>7. CASE MarkBatch
  <2>1. pc["background"] \in Busy /\ Marking(batch \cup {lead})
    BY <1>7, BatchMarks DEF Busy
  <2>2. \A k \in batch \cup {lead} : k \in Ids /\ Open(k)
    BY <2>1, LeadOpen
  <2> QED BY <2>1, <2>2 DEF Marking, Stays, Open, Active, Finished
<1>8. CASE BatchOver
  <2>1. cur["background"] \in Ids /\ Open(cur["background"])
    BY <1>8, LeadOpen DEF BatchOver, bg, Busy, lead
  <2>2. UNCHANGED rows \/ \E s \in {"queued", "done", "failed"} : LastState(cur["background"], s)
    <3>1. exit \in {"run", "done", "failed", "stopped"}
      BY <1>1 DEF TypeOK
    <3> QED BY <1>8, <3>1 DEF BatchOver, Conclude, bg
  <2> QED BY <1>1, <1>2, <2>1, <2>2, OpenRowStays
<1>9. CASE (\E j \in Jobs : Request(j)) \/ RunInline
  BY <1>9, NewRowStays
<1>10. CASE UNCHANGED vars
  BY <1>2, <1>10 DEF vars, rowVars
<1>11. CASE Boot \/ Reconciled \/ OpenLanes \/ BeginShutdown \/ Stop \/ Crash
  BY <1>2, <1>11 DEF Boot, Reconciled, OpenLanes, BeginShutdown, Stop, Crash, GoDown, rowVars
<1>12. ASSUME NEW id \in Ids, Dispatch(id) \/ Leave(id) \/ Cancel(id) PROVE Stays
  BY <1>2, <1>12 DEF Dispatch, Leave, Cancel, rowVars
<1>13. ASSUME NEW c \in CoreNames, SetCorename(c) PROVE Stays
  BY <1>2, <1>13 DEF SetCorename, rowVars
<1>14. ASSUME NEW m \in {"paused", "running"}, SetOverride(m) PROVE Stays
  BY <1>2, <1>14 DEF SetOverride, rowVars
<1>15. ASSUME NEW l \in Lane, LaneStep(l) \/ Abort(l) PROVE Stays
  BY <1>2, <1>15 DEF LaneStep, Recv, PassGate, LaneStops, Abort, rowVars
<1>16. ASSUME NEW r \in Runner, StartFails(r) PROVE Stays
  BY <1>2, <1>16 DEF StartFails, rowVars
<1>17. CASE ReadHeavyQueue \/ EndRunNow
  BY <1>2, <1>17 DEF ReadHeavyQueue, EndRunNow, rowVars
<1>18. CASE ListBatch \/ BatchGivesUp \/ BatchEnds
  BY <1>2, <1>18 DEF ListBatch, BatchGivesUp, BatchEnds, rowVars
<1> QED BY <1>3, <1>4, <1>5, <1>6, <1>7, <1>8, <1>9, <1>10, <1>11, <1>12, <1>13, <1>14,
           <1>15, <1>16, <1>17, <1>18 DEF Next, DatStep, MarkBatch

\* A job that ended is not run again, and its result is not overwritten: no step of any
\* worker, batch, request, restart or fault changes a finished row but to delete it.
THEOREM FinishedRowStays == Spec => FinishedStays
<1>1. IInv /\ [Next]_vars => [Stays]_vars
  BY StepStays
<1>2. [][Stays]_vars => FinishedStays
  BY DEF Stays, FinishedStays
<1> QED BY <1>1, <1>2, Invariant, PTL DEF Spec

-----------------------------------------------------------------------------
(* What is owed *)

\* What is owed is of a kind that waits for a run yet to start.
Owing == owed \subseteq {j \in Jobs : Owes(j)}

\* What a worker works on has started, and runs unless it waits at the gate; only a DAT
\* import that may batch leads a batch.
AtWork ==
    /\ \A r \in Runner \ {"background"} : pc[r] \notin {"release", "settle"}
    /\ \A r \in Runner : cur[r] # 0 =>
           /\ pc[r] \in {"run", "take", "claim", "batch"} => rows[cur[r]].state = "running"
           /\ pc[r] \in {"release", "settle"} /\ exit = "run" => rows[cur[r]].state = "running"
           /\ pc[r] \in {"held", "bheld", "release", "settle"} => rows[cur[r]].state # "queued"
           /\ pc[r] \in {"take", "claim", "batch", "bheld", "release", "settle"} =>
                  Batches(rows[cur[r]].job)

\* Only an open URL fetch is cancelled.
Flags ==
    /\ \A id \in Ids : /\ cancels[id] = "set" => rows[id].job.kind = "url_fetch"
                       /\ cancels[id] # "none" /\ rows[id].job.kind = "url_fetch" => Open(id)
    /\ phase = "down" => \A id \in Ids : cancels[id] = "none"
    /\ phase = "reconcile" => \A id \in todo : cancels[id] = "none"

\* A job `reconcile` has met has a queued row, if a restart runs it again.
Met == phase = "reconcile" =>
           \A j \in seen : Revives(j) => \E id \in Ids \ todo : rows[id].job = j /\ rows[id].state = "queued"

\* Only DAT imports that batch are taken.
Followed == \A id \in taken : Batches(rows[id].job)

Covered == Owing /\ NoRequestLost /\ Followed
LInv == IInv /\ Covered /\ AtWork /\ Flags /\ Met

-----------------------------------------------------------------------------
(* What one step needs *)

\* A kind whose requests are owed joins rows that wait, and a batch's kind only queued ones.
LEMMA OwesWaits ==
    ASSUME NEW j, Owes(j)
    PROVE  /\ "queued" \in Dedupe(j) /\ Dedupe(j) \subseteq {"queued", "paused"}
           /\ Revives(j) /\ j.kind # "url_fetch"
           /\ Batches(j) => Dedupe(j) = {"queued"}
BY DEF Owes, Dedupe, Revives, Batches, Active

\* Row id no longer stands for something that is owed, and no other row did.
Loses(id) == \E j \in owed' : /\ rows[id].job = j /\ rows[id].state \in Dedupe(j)
                             /\ ~(rows'[id].job = j /\ rows'[id].state \in Dedupe(j))
                             /\ \A k \in Ids \ {id} : ~Covers(k, j)

\* Rows that had finished may be pruned, no other changes but id.
OthersStay(id) ==
    \A k \in Ids \ {id} : \/ rows'[k] = rows[k]
                          \/ rows'[k] = NoRow /\ rows[k].state \in Finished /\ ~Referred(k)

LEMMA CoveredStays ==
    ASSUME LInv, NEW id \in Ids, OthersStay(id), ~Loses(id), owed' \subseteq owed
    PROVE  Owing' /\ NoRequestLost'
<1>1. Owing'
  BY DEF LInv, Covered, Owing
<1>2. ASSUME NEW j \in owed' PROVE \E k \in Ids : rows'[k].job = j /\ rows'[k].state \in Dedupe(j)
  <2>1. PICK k \in Ids : rows[k].job = j /\ rows[k].state \in Dedupe(j)
    BY DEF LInv, Covered, NoRequestLost, Covers
  <2>2. Owes(j)
    BY <1>1 DEF Owing
  <2>3. ASSUME NEW i \in Ids \ {id}, Covers(i, j) PROVE rows'[i].job = j /\ rows'[i].state \in Dedupe(j)
    <3>1. rows[i].state \notin Finished
      BY <2>2, <2>3, OwesWaits DEF Covers, Finished
    <3> QED BY <2>3, <3>1 DEF OthersStay, Covers
  <2>4. CASE k = id
    BY <2>1, <2>3, <2>4 DEF Loses
  <2>5. CASE k # id
    BY <2>1, <2>3, <2>5 DEF Covers
  <2> QED BY <2>4, <2>5
<1> QED BY <1>1, <1>2 DEF NoRequestLost, Covers

LEMMA FollowedStays ==
    ASSUME LInv, NEW id \in Ids, OthersStay(id), taken' \subseteq taken,
           id \in taken => rows'[id].job = rows[id].job
    PROVE  Followed'
<1>1. ASSUME NEW k \in taken' PROVE Batches(rows'[k].job)
  <2>1. k \in Ids /\ k \in taken /\ Referred(k) /\ Batches(rows[k].job)
    BY DEF LInv, IInv, TypeOK, Covered, Followed, Referred
  <2> QED BY <2>1 DEF OthersStay
<1> QED BY <1>1 DEF Followed

\* A flag goes, or is that of a row that has one.
LEMMA FlagsStay ==
    ASSUME LInv, NEW id \in Ids, OthersStay(id), phase' \in {"boot", "up", "stopping"},
           \A k \in Ids \ {id} : cancels'[k] = cancels[k],
           cancels'[id] \in {"none", cancels[id]},
           cancels'[id] # "none" => rows'[id].job = rows[id].job /\ (Open(id) => Open(id)')
    PROVE  Flags'
<1>1. ASSUME NEW k \in Ids
      PROVE  /\ cancels'[k] = "set" => rows'[k].job.kind = "url_fetch"
             /\ cancels'[k] # "none" /\ rows'[k].job.kind = "url_fetch" => Open(k)'
  <2>1. CASE k = id
    BY <2>1 DEF LInv, Flags
  <2>2. CASE k # id /\ rows'[k] = rows[k]
    BY <2>2 DEF LInv, Flags, Open
  <2>3. CASE k # id /\ rows'[k] = NoRow /\ rows[k].state \in Finished
    <3>1. cancels[k] # "set"
      BY <2>3 DEF LInv, Flags, Open, Active, Finished
    <3> QED BY <2>3, <3>1 DEF NoRow, NoJob
  <2> QED BY <2>1, <2>2, <2>3 DEF OthersStay
<1> QED BY <1>1 DEF Flags

\* What workers do elsewhere is not disturbed.
LEMMA AtWorkStays ==
    ASSUME LInv, NEW id \in Ids, OthersStay(id), NEW r \in Runner,
           \A s \in Runner \ {r} : pc'[s] = pc[s] /\ cur'[s] = cur[s] /\ cur[s] # id,
           r # "background" => exit' = exit,
           cur'[r] # 0 =>
               /\ pc'[r] \in {"run", "take", "claim", "batch"} => rows'[cur'[r]].state = "running"
               /\ pc'[r] \in {"release", "settle"} /\ exit' = "run" => rows'[cur'[r]].state = "running"
               /\ pc'[r] \in {"held", "bheld", "release", "settle"} => rows'[cur'[r]].state # "queued"
               /\ pc'[r] \in {"take", "claim", "batch", "bheld", "release", "settle"} =>
                      Batches(rows'[cur'[r]].job),
           r # "background" => pc'[r] \notin {"release", "settle"}
    PROVE  AtWork'
<1>1. ASSUME NEW s \in Runner \ {r}, cur[s] # 0 PROVE rows'[cur[s]] = rows[cur[s]]
  <2>1. cur[s] \in Ids \ {id} /\ Open(cur[s])
    BY <1>1 DEF LInv, IInv, TypeOK, Worked
  <2> QED BY <2>1 DEF OthersStay, Open, Active, Finished
<1> QED BY <1>1 DEF LInv, AtWork

-----------------------------------------------------------------------------
(* Steps that leave the rows alone *)

LEMMA Rowless ==
    ASSUME LInv, UNCHANGED <<rows, owed, cancels>>, taken' \subseteq taken,
           \/ phase' \in {"boot", "up", "stopping"}
           \/ UNCHANGED <<phase, todo, seen>>
    PROVE  Covered' /\ Flags' /\ Met'
BY DEF LInv, Covered, Owing, NoRequestLost, Covers, Followed, Flags, Met, Open

LEMMA QuietStep ==
    ASSUME LInv, \/ UNCHANGED vars \/ BeginShutdown
                 \/ \E id \in Ids : Leave(id)
                 \/ \E c \in CoreNames : SetCorename(c)
                 \/ \E m \in {"paused", "running"} : SetOverride(m)
    PROVE  Covered' /\ Flags' /\ Met' /\ AtWork'
<1>1. /\ UNCHANGED <<rows, owed, cancels, taken, pc, cur, exit>>
      /\ phase' \in {"boot", "up", "stopping"} \/ UNCHANGED <<phase, todo, seen>>
  BY DEF vars, BeginShutdown, Leave, SetCorename, SetOverride, rowVars, bootVars, laneVars, datVars
<1>2. AtWork'
  BY <1>1 DEF LInv, AtWork
<1> QED BY <1>1, <1>2, Rowless

\* A worker receives, waits, stops or is aborted.
LEMMA LaneMoves ==
    ASSUME LInv, NEW l \in Lane, LaneStep(l) \/ Abort(l)
    PROVE  Covered' /\ Flags' /\ Met' /\ AtWork'
<1> USE DEF LaneStep, Recv, PassGate, LaneStops, Abort, rowVars, bootVars, datVars
<1>1. UNCHANGED <<rows, owed, cancels, phase, todo, seen, exit>> /\ taken' \subseteq taken
  OBVIOUS
<1>2. AtWork'
  <2>1. \/ UNCHANGED <<pc, cur>>
        \/ \E p \in {"gate", "start", "gone"}, c \in Ids \cup {0} :
              pc' = [pc EXCEPT ![l] = p] /\ (cur' = [cur EXCEPT ![l] = c] \/ cur' = cur)
    <3>1. chan[l] # <<>> => Head(chan[l]) \in Ids
      BY DEF LInv, IInv, TypeOK
    <3> QED BY <3>1
  <2>2. l \in Runner
    BY DEF Runner
  <2> HIDE DEF LaneStep, Recv, PassGate, LaneStops, Abort
  <2> QED BY <1>1, <2>1, <2>2 DEF LInv, IInv, TypeOK, AtWork
<1> QED BY <1>1, <1>2, Rowless

\* The heavy lane looks at its queue; a batch is listed, given up or ends; the lanes open.
LEMMA PlaceMoves ==
    ASSUME LInv, ReadHeavyQueue \/ EndRunNow \/ ListBatch \/ BatchGivesUp \/ BatchEnds
    PROVE  Covered' /\ Flags' /\ Met' /\ AtWork'
<1> USE DEF ReadHeavyQueue, EndRunNow, ListBatch, BatchGivesUp, BatchEnds, rowVars, bootVars, datVars, bg
<1>1. UNCHANGED <<rows, owed, cancels, phase, todo, seen, taken, cur>>
  OBVIOUS
<1>2. AtWork'
  <2>1. {"heavy", "background"} \subseteq Runner
    BY DEF Runner, Lane
  <2> QED BY <1>1, <2>1 DEF LInv, IInv, TypeOK, AtWork
<1> QED BY <1>1, <1>2, Rowless

\* The process starts, has reconciled, opens its lanes, or is gone.
LEMMA PhaseMoves ==
    ASSUME LInv, Boot \/ Reconciled \/ OpenLanes \/ Stop \/ Crash
    PROVE  Covered' /\ Flags' /\ Met' /\ AtWork'
<1>1. UNCHANGED <<rows, owed>> /\ taken' \subseteq taken
  BY DEF Boot, Reconciled, OpenLanes, Stop, Crash, GoDown, rowVars, datVars
<1>2. Covered'
  BY <1>1 DEF LInv, Covered, Owing, NoRequestLost, Covers, Followed
<1>3. Met'
  BY DEF Boot, Reconciled, OpenLanes, Stop, Crash, GoDown, Met
<1>4. Flags'
  <2>1. CASE Boot
    BY <1>1, <2>1 DEF Boot, LInv, Flags, Open, OpenIds
  <2>2. CASE Reconciled \/ OpenLanes
    BY <1>1, <2>2 DEF Reconciled, OpenLanes, LInv, Flags, Open
  <2>3. CASE Stop \/ Crash
    BY <1>1, <2>3 DEF Stop, Crash, GoDown, Flags, Open
  <2> QED BY <2>1, <2>2, <2>3
<1>5. AtWork'
  <2>1. CASE Boot
    BY <1>1, <2>1 DEF Boot, LInv, AtWork, laneVars, datVars
  <2>2. CASE Reconciled
    BY <1>1, <2>2 DEF Reconciled, LInv, IInv, TypeOK, AtWork, datVars, Runner, Lane
  <2>3. CASE OpenLanes
    BY <1>1, <2>3 DEF OpenLanes, AtWork, Runner
  <2>4. CASE Stop \/ Crash
    BY <2>4 DEF Stop, Crash, GoDown, AtWork, Runner
  <2> QED BY <2>1, <2>2, <2>3, <2>4
<1> QED BY <1>2, <1>3, <1>4, <1>5

\* A fetch is cancelled, which is open while it has a flag.
LEMMA CancelMoves ==
    ASSUME LInv, NEW id \in Ids, Cancel(id)
    PROVE  Covered' /\ Flags' /\ Met' /\ AtWork'
<1> USE DEF Cancel, rowVars, bootVars, laneVars, datVars
<1>1. Covered' /\ Met' /\ AtWork'
  BY DEF LInv, Covered, Owing, NoRequestLost, Covers, Followed, Met, AtWork
<1>2. Flags'
  BY DEF LInv, IInv, TypeOK, Flags, Open
<1> QED BY <1>1, <1>2

\* What is dispatched gets a flag while it is open or taken, and none when its lane is gone.
LEMMA DispatchMoves ==
    ASSUME LInv, NEW id \in Ids, Dispatch(id)
    PROVE  Covered' /\ Flags' /\ Met' /\ AtWork'
<1>1. UNCHANGED <<rows, owed, phase, todo, seen, pc, cur, taken, exit>> /\ id \in calls
  BY DEF Dispatch, rowVars, bootVars, datVars
<1>2. Covered' /\ Met' /\ AtWork'
  BY <1>1 DEF LInv, Covered, Owing, NoRequestLost, Covers, Followed, Met, AtWork
<1>3. phase \notin {"down", "reconcile"}
  BY <1>1 DEF LInv, IInv, Phases
<1>4. rows[id].job.kind = "url_fetch" => Open(id)
  <2>1. id \in taken => Batches(rows[id].job)
    BY DEF LInv, Covered, Followed
  <2>2. id \notin taken => Open(id)
    BY <1>1 DEF LInv, IInv, Routed
  <2> QED BY <2>1, <2>2 DEF Batches
<1>5. /\ \A k \in Ids \ {id} : cancels'[k] = cancels[k]
      /\ cancels'[id] = cancels[id] \/ cancels'[id] \in {"none", "open"}
  BY DEF Dispatch, Send, LInv, IInv, TypeOK
<1>6. Flags'
  BY <1>1, <1>3, <1>4, <1>5 DEF LInv, Flags, Open
<1> QED BY <1>2, <1>6

\* A worker that cannot mark its row goes on with the next.
LEMMA StartFailsMoves ==
    ASSUME LInv, NEW r \in Runner, StartFails(r)
    PROVE  Covered' /\ Flags' /\ Met' /\ AtWork'
<1> USE DEF StartFails, Leaves, rowVars, bootVars, datVars
<1>1. Covered' /\ Met'
  BY DEF LInv, Covered, Owing, NoRequestLost, Covers, Followed, Met
<1>2. Onward(r) \in {"after", "gone", "recv"}
  BY OnwardPlace
<1>3. AtWork'
  BY <1>2 DEF LInv, IInv, TypeOK, AtWork
<1>4. Flags'
  BY DEF LInv, IInv, TypeOK, Flags, Open
<1> QED BY <1>1, <1>3, <1>4

-----------------------------------------------------------------------------
(* Steps of a worker with its job *)

\* What a worker holds is in no other's hands.
LEMMA Held1 ==
    ASSUME LInv, NEW r \in Runner, cur[r] # 0
    PROVE  /\ cur[r] \in Ids /\ Open(cur[r]) /\ rows[cur[r]] # NoRow /\ cur[r] \notin taken
           /\ \A s \in Runner \ {r} : cur[s] # cur[r]
<1>1. cur[r] \in Ids /\ Open(cur[r]) /\ cur[r] \notin taken
  BY DEF LInv, IInv, TypeOK, Worked
<1> QED BY <1>1, RowPresent DEF LInv, IInv, Once

\* The row of a job is given another state while it is worked on.
LEMMA StateMoves ==
    ASSUME LInv, NEW r \in Runner, cur[r] # 0, NEW s \in {"running", "paused"},
           rows' = InState(cur[r], s), owed' \subseteq owed, ~Loses(cur[r]),
           NEW p, pc' = [pc EXCEPT ![r] = p],
           (p \in {"run", "take"} /\ s = "running") \/ (p = "held" /\ s = "paused"),
           p = "take" => Batches(rows[cur[r]].job),
           phase \in {"boot", "up", "stopping"},
           UNCHANGED <<phase, todo, seen, cur, taken, exit, cancels>>
    PROVE  Covered' /\ Flags' /\ Met' /\ AtWork'
<1>0. PICK id \in Ids : id = cur[r]
  BY Held1
<1>1. id \in Ids /\ Open(id) /\ rows[id] # NoRow /\ id \notin taken /\ \A q \in Runner \ {r} : cur[q] # id
  BY <1>0, Held1
<1>2. /\ rows'[id].job = rows[id].job /\ rows'[id].state = s
      /\ \A k \in Ids : k # id => rows'[k] = rows[k]
  BY <1>0, <1>1, SetStateRows DEF LInv, IInv, JobState
<1>3. OthersStay(id)
  BY <1>2 DEF OthersStay
<1>4. Open(id)'
  BY <1>2 DEF Open, Active
<1>5. Covered'
  BY <1>0, <1>1, <1>2, <1>3, CoveredStays, FollowedStays DEF Covered
<1>6. Flags'
  BY <1>1, <1>2, <1>3, <1>4, FlagsStay, cancels' = cancels, phase' = phase
<1>7. AtWork'
  <2>1. /\ pc'[r] = p /\ cur'[r] = cur[r] /\ \A q \in Runner \ {r} : pc'[q] = pc[q] /\ cur'[q] = cur[q]
    BY DEF LInv, IInv, TypeOK
  <2> QED BY <1>0, <1>1, <1>2, <1>3, <2>1, AtWorkStays
<1> QED BY <1>5, <1>6, <1>7 DEF Met

\* A run starts, which is what was owed, or waits at a checkpoint.
LEMMA WorkMoves ==
    ASSUME LInv, NEW r \in Runner, Start(r) \/ Pause(r) \/ Unpause(r)
    PROVE  Covered' /\ Flags' /\ Met' /\ AtWork'
<1>1. pc[r] \in {"start", "run", "held"} /\ cur[r] # 0
  BY DEF Start, Pause, Unpause, LInv, IInv, Worked, Busy
<1>2. phase \in {"boot", "up", "stopping"}
  BY <1>1, LanesClosed DEF LInv
<1>3. cur[r] \in Ids /\ rows[cur[r]] # NoRow
  BY <1>1, Held1
<1>4. CASE Start(r) \/ Unpause(r)
  <2>1. /\ rows' = InState(cur[r], "running")
        /\ UNCHANGED <<phase, todo, seen, cur, taken, exit, cancels>>
    BY <1>4 DEF Start, Unpause, bootVars, datVars
  <2>2. owed' = owed \ {rows[cur[r]].job}
    BY <1>4 DEF Start, Unpause
  <2>3. owed' \subseteq owed /\ ~Loses(cur[r])
    BY <2>2 DEF Loses
  <2>4. PICK p \in {"run", "take"} : /\ pc' = [pc EXCEPT ![r] = p]
                                     /\ p = "take" => Batches(rows[cur[r]].job)
    BY <1>4 DEF Start, Unpause
  <2> QED BY <1>1, <1>2, <2>1, <2>3, <2>4, StateMoves
<1>5. CASE Pause(r)
  <2>1. /\ rows' = InState(cur[r], "paused") /\ pc' = [pc EXCEPT ![r] = "held"] /\ pc[r] = "run"
        /\ UNCHANGED <<owed, phase, todo, seen, cur, taken, exit, cancels>>
    BY <1>5 DEF Pause, bootVars, datVars
  <2>2. rows[cur[r]].state = "running"
    BY <1>1, <2>1 DEF LInv, AtWork
  <2>3. ~Loses(cur[r])
    BY <2>1, <2>2, OwesWaits DEF Loses, LInv, Covered, Owing
  <2> QED BY <1>1, <1>2, <2>1, <2>3, StateMoves
<1> QED BY <1>4, <1>5

\* A job's last state loses nothing when it is queued again, or has run, or is not owed,
\* or another row stands for what is.
LEMMA EndMoves ==
    ASSUME LInv, NEW r \in Runner, cur[r] # 0, NEW s \in {"queued", "done", "failed"}, Conclude(r, s),
           owed' \subseteq owed,
           s # "queued" => \A j \in owed' : rows[cur[r]].job = j =>
               \/ rows[cur[r]].state \notin Dedupe(j) \/ rows' = rows
               \/ \E k \in Ids \ {cur[r]} : Covers(k, j),
           phase \in {"boot", "up", "stopping"}, exit' = exit \/ r = "background",
           UNCHANGED <<phase, todo, seen, taken>>
    PROVE  Covered' /\ Flags' /\ Met' /\ AtWork'
<1>0. PICK id \in Ids : id = cur[r]
  BY Held1
<1>1. id \in Ids /\ Open(id) /\ rows[id] # NoRow /\ id \notin taken /\ \A q \in Runner \ {r} : cur[q] # id
  BY <1>0, Held1
<1>2. LastState(id, s) /\ Leaves(r)
  BY <1>0 DEF Conclude
<1>3. /\ \A k \in Ids \ {id} : \/ rows'[k] = rows[k]
                               \/ rows'[k] = NoRow /\ rows[k].state \in Finished /\ ~Referred(k)
      /\ \/ rows'[id].job = rows[id].job /\ rows'[id] # NoRow
         \/ rows'[id] = NoRow /\ ~Referred(id)
      /\ rows'[id] = rows[id] \/ rows'[id] = NoRow \/ rows'[id].state = s
      /\ s = "queued" => Open(id)'
  BY <1>1, <1>2, LastStateRows DEF LInv, IInv
<1>4. OthersStay(id)
  BY <1>3 DEF OthersStay
<1>5. ~Loses(id)
  <2>1. CASE s # "queued"
    BY <1>0, <2>1 DEF Loses
  <2>2. CASE s = "queued"
    <3>1. Open(id)' /\ NoRow.state \notin Active
      BY <1>3, <2>2 DEF NoRow, Active
    <3>2. rows'[id].job = rows[id].job /\ rows'[id].state \in {"queued", rows[id].state}
      BY <1>3, <2>2, <3>1 DEF Open
    <3> QED BY <3>2, OwesWaits DEF Loses, LInv, Covered, Owing
  <2> QED BY <2>1, <2>2
<1>6. cancels' = [cancels EXCEPT ![id] = "none"]
  BY <1>2 DEF LastState
<1>7. /\ cur'[r] = 0 /\ pc'[r] \in {"after", "gone", "recv"}
      /\ \A q \in Runner \ {r} : pc'[q] = pc[q] /\ cur'[q] = cur[q]
  BY <1>2, OnwardPlace DEF Leaves, LInv, IInv, TypeOK
<1>8. Covered'
  BY <1>1, <1>4, <1>5, CoveredStays, FollowedStays DEF Covered
<1>9. Flags'
  BY <1>1, <1>4, <1>6, FlagsStay DEF LInv, IInv, TypeOK
<1>10. AtWork'
  BY <1>1, <1>4, <1>7, AtWorkStays
<1> QED BY <1>8, <1>9, <1>10 DEF Met

\* A job is stopped, or its body returns.
LEMMA StopMoves ==
    ASSUME LInv, NEW r \in Runner, StopJob(r) \/ Finish(r)
    PROVE  Covered' /\ Flags' /\ Met' /\ AtWork'
<1>1. pc[r] \in {"start", "run", "held", "take"} /\ cur[r] # 0
      /\ UNCHANGED <<owed, phase, todo, seen, taken, exit>>
  BY DEF StopJob, Finish, LInv, IInv, Worked, Busy, bootVars, datVars
<1>2. phase \in {"boot", "up", "stopping"} /\ cur[r] \in Ids
  BY <1>1, LanesClosed, Held1 DEF LInv
<1>3. CASE StopJob(r)
  <2>1. \/ Conclude(r, "queued")
        \/ Conclude(r, "failed") /\ cancels[cur[r]] = "set"
    BY <1>3 DEF StopJob, Stopped
  <2>2. ASSUME cancels[cur[r]] = "set", NEW j \in owed PROVE rows[cur[r]].job # j
    BY <1>2, <2>2, OwesWaits DEF LInv, Flags, Covered, Owing
  <2> QED BY <1>1, <1>2, <2>1, <2>2, EndMoves
<1>4. CASE Finish(r)
  <2>1. PICK s \in {"done", "failed"} : Conclude(r, s)
    BY <1>4 DEF Finish, Finished
  <2>2. rows[cur[r]].state = "running"
    BY <1>1, <1>4 DEF Finish, LInv, AtWork
  <2>3. \A j \in owed : rows[cur[r]].state \notin Dedupe(j)
    BY <2>2, OwesWaits DEF LInv, Covered, Owing
  <2> QED BY <1>1, <1>2, <2>1, <2>3, EndMoves
<1> QED BY <1>3, <1>4

\* A paused job fails because it cannot be marked running: what it takes with it is no
\* longer owed.
LEMMA UnpauseFailsMoves ==
    ASSUME LInv, NEW r \in Runner, UnpauseFails(r)
    PROVE  Covered' /\ Flags' /\ Met' /\ AtWork'
<1>1. /\ pc[r] = "held" /\ cur[r] # 0 /\ Conclude(r, "failed")
      /\ UNCHANGED <<phase, todo, seen, taken, exit>>
  BY DEF UnpauseFails, LInv, IInv, Worked, Busy, bootVars, datVars
<1>2. phase \in {"boot", "up", "stopping"}
  BY <1>1, LanesClosed DEF LInv
<1>3. owed' \subseteq owed
  BY DEF UnpauseFails
<1>4. ASSUME NEW j \in owed', rows[cur[r]].job = j
      PROVE  rows' = rows \/ \E k \in Ids \ {cur[r]} : Covers(k, j)
  BY <1>4 DEF UnpauseFails
<1> QED BY <1>1, <1>2, <1>3, <1>4, EndMoves

\* A batch is over: its lead goes on, is queued again, or has run.
LEMMA OverMoves ==
    ASSUME LInv, BatchOver
    PROVE  Covered' /\ Flags' /\ Met' /\ AtWork'
<1> USE DEF bg
<1>1. /\ pc[bg] \in {"settle", "release"} /\ bg \in Runner /\ cur[bg] # 0
      /\ UNCHANGED <<owed, phase, todo, seen, taken>>
  BY DEF BatchOver, bootVars, LInv, IInv, Worked, Busy, Runner, Lane
<1>2. phase \in {"boot", "up", "stopping"} /\ cur[bg] \in Ids
  BY <1>1, LanesClosed, Held1 DEF LInv
<1>3. /\ exit = "run" => rows[cur[bg]].state = "running"
      /\ rows[cur[bg]].state # "queued" /\ Batches(rows[cur[bg]].job)
  BY <1>1 DEF LInv, AtWork
<1>4. CASE exit = "run"
  <2>1. pc' = [pc EXCEPT ![bg] = "run"] /\ UNCHANGED <<rows, cur, cancels>>
    BY <1>4 DEF BatchOver
  <2>2. AtWork'
    BY <1>1, <1>3, <1>4, <2>1 DEF LInv, IInv, TypeOK, AtWork
  <2> QED BY <1>1, <2>1, <2>2, Rowless
<1>5. CASE exit = "stopped"
  BY <1>1, <1>2, <1>5, EndMoves DEF BatchOver
<1>6. CASE exit \in {"done", "failed"}
  <2>1. \A j \in owed : rows[cur[bg]].job = j => rows[cur[bg]].state \notin Dedupe(j)
    BY <1>3, OwesWaits DEF LInv, Covered, Owing
  <2> QED BY <1>1, <1>2, <1>6, <2>1, EndMoves DEF BatchOver
<1> QED BY <1>4, <1>5, <1>6 DEF LInv, IInv, TypeOK

-----------------------------------------------------------------------------
(* Steps of a batch *)

\* What a batch holds has started, and is not its lead or another worker's.
LEMMA Follower ==
    ASSUME LInv, NEW id \in batch
    PROVE  /\ id \in Ids /\ id \in taken /\ Open(id) /\ rows[id] # NoRow /\ rows[id].state # "queued"
           /\ Batches(rows[id].job) /\ \A s \in Runner : cur[s] # id
           /\ \A j \in owed : rows[id].job = j => rows[id].state \notin Dedupe(j)
<1>1. id \in Ids /\ id \in taken /\ Open(id) /\ rows[id].state # "queued" /\ Batches(rows[id].job)
  BY DEF LInv, IInv, TypeOK, Batched
<1>2. rows[id] # NoRow
  BY <1>1, RowPresent DEF LInv, IInv
<1>3. \A s \in Runner : cur[s] # id
  BY <1>1, IdsPositive DEF LInv, IInv, Worked
<1>4. \A j \in owed : rows[id].job = j => rows[id].state \notin Dedupe(j)
  BY <1>1, OwesWaits DEF LInv, Covered, Owing
<1> QED BY <1>1, <1>2, <1>3, <1>4

\* A follower changes: no worker is disturbed.
LEMMA FollowerAtWork ==
    ASSUME LInv, NEW id \in batch, OthersStay(id), UNCHANGED <<pc, cur, exit>>
    PROVE  AtWork'
<1>1. ASSUME NEW s \in Runner, cur[s] # 0 PROVE rows'[cur[s]] = rows[cur[s]]
  <2>1. cur[s] \in Ids \ {id} /\ Open(cur[s])
    BY <1>1, Follower, Held1
  <2> QED BY <2>1 DEF OthersStay, Open, Active, Finished
<1> QED BY <1>1 DEF LInv, AtWork

\* A follower fails, or gets its own result, or is its lane's again.
LEMMA SettleMoves ==
    ASSUME LInv, NEW id \in Ids, BatchDirty(id) \/ Settle(id) \/ Release(id)
    PROVE  Covered' /\ Flags' /\ Met' /\ AtWork'
<1>1. id \in batch /\ pc[bg] \in Busy
      /\ UNCHANGED <<phase, todo, seen, owed, pc, cur, exit>> /\ taken' \subseteq taken
  BY DEF BatchDirty, Settle, Release, Busy, bootVars, laneVars
<1>2. phase \in {"up", "stopping"}
  BY <1>1, LeadOpen DEF LInv, bg
<1>3. Open(id) /\ rows[id] # NoRow /\ \A j \in owed : rows[id].job = j => rows[id].state \notin Dedupe(j)
  BY <1>1, Follower
<1>4. ~Loses(id)
  BY <1>1, <1>3 DEF Loses
<1>5. CASE BatchDirty(id) \/ Settle(id)
  <2>1. PICK s \in {"done", "failed"} : LastState(id, s)
    BY <1>5 DEF BatchDirty, Settle, Finished
  <2>2. /\ \A k \in Ids \ {id} : \/ rows'[k] = rows[k]
                                 \/ /\ rows'[k] = NoRow /\ rows[k].state \in Finished
                                    /\ ~Referred(k)
        /\ \/ rows'[id].job = rows[id].job /\ rows'[id] # NoRow
           \/ rows'[id] = NoRow /\ ~Referred(id)
    BY <1>3, <2>1, LastStateRows DEF LInv, IInv
  <2>3. OthersStay(id)
    BY <2>2 DEF OthersStay
  <2>4. cancels' = [cancels EXCEPT ![id] = "none"]
    BY <2>1 DEF LastState
  <2>6. /\ \A k \in Ids \ {id} : cancels'[k] = cancels[k]
        /\ cancels'[id] = "none"
    BY <2>4 DEF LInv, IInv, TypeOK
  <2>7. rows'[id].job = rows[id].job
    BY <1>1, <2>2, Follower DEF Referred
  <2>8. Covered'
    BY <1>1, <1>4, <2>3, <2>7, CoveredStays, FollowedStays DEF Covered
  <2>9. Flags'
    BY <1>1, <1>2, <2>3, <2>6, FlagsStay
  <2>10. AtWork'
    BY <1>1, <2>3, FollowerAtWork
  <2> QED BY <1>1, <1>2, <2>8, <2>9, <2>10 DEF Met
<1>6. CASE Release(id)
  <2>1. \/ rows' = rows
        \/ rows' = [rows EXCEPT ![id] = [job |-> rows[id].job, lane |-> bg, state |-> "queued"]]
    BY <1>6 DEF Release, LInv, IInv, TypeOK
  <2>2. OthersStay(id) /\ rows'[id].job = rows[id].job /\ Open(id)' /\ cancels' = cancels
    BY <1>3, <1>6, <2>1 DEF Release, LInv, IInv, TypeOK, OthersStay, Open, Active
  <2>3. Covered'
    BY <1>1, <1>4, <2>2, CoveredStays, FollowedStays DEF Covered
  <2>4. Flags'
    BY <1>1, <1>2, <2>2, FlagsStay
  <2>5. AtWork'
    BY <1>1, <2>2, FollowerAtWork
  <2> QED BY <1>1, <1>2, <2>3, <2>4, <2>5 DEF Met
<1> QED BY <1>5, <1>6

\* A follower is claimed, which starts its run, or is left to its lane.
LEMMA ClaimMoves ==
    ASSUME LInv, NEW id \in Ids, Claim(id)
    PROVE  Covered' /\ Flags' /\ Met' /\ AtWork'
<1>1. /\ pc[bg] = "claim" /\ bg \in Runner /\ cur[bg] # 0 /\ id \in cands
      /\ UNCHANGED <<phase, todo, seen, cur, exit>>
  BY DEF Claim, bg, bootVars, Runner, Lane, LInv, IInv, Worked, Busy
<1>2. rows[id].state = "queued" /\ Batches(rows[id].job) /\ rows[id] # NoRow /\ id \notin taken
  BY <1>1, RowPresent DEF LInv, IInv, Batched, bg
<1>3. \A r \in Runner : cur[r] # id
  <2>1. id # cur["background"]
    BY <1>1 DEF LInv, IInv, Batched, bg
  <2> QED BY <1>2, <2>1, BatchFree DEF LInv
<1>4. phase \in {"up", "stopping"}
  BY <1>1, LeadOpen DEF Busy, bg, LInv
<1>5. /\ pc'[bg] \in {"claim", "run", "batch"}
      /\ \A s \in Runner \ {bg} : pc'[s] = pc[s] /\ cur'[s] = cur[s]
  BY <1>1 DEF Claim, LInv, IInv, TypeOK
<1>6. rows[cur[bg]].state = "running" /\ Batches(rows[cur[bg]].job) /\ cur[bg] \in Ids /\ cur[bg] # id
  BY <1>1, <1>3 DEF LInv, IInv, TypeOK, AtWork
<1>7. CASE UNCHANGED <<rows, owed, batch, cancels>> /\ taken' = taken \ {id}
  <2>1. OthersStay(id)
    BY <1>7 DEF OthersStay
  <2>2. AtWork'
    BY <1>1, <1>3, <1>5, <1>6, <1>7, <2>1, AtWorkStays DEF bg
  <2> QED BY <1>1, <1>7, <2>2, Rowless
<1>8. CASE /\ rows' = InState(id, "running") /\ owed' = owed \ {rows[id].job}
           /\ taken' = taken \cup {id}
           /\ cancels' = [cancels EXCEPT ![id] = IF @ = "none" THEN "open" ELSE @]
  <2>1. /\ rows'[id].job = rows[id].job /\ rows'[id].state = "running"
        /\ \A k \in Ids : k # id => rows'[k] = rows[k]
    BY <1>2, <1>8, SetStateRows DEF LInv, IInv, JobState
  <2>2. OthersStay(id)
    BY <2>1 DEF OthersStay
  <2>3. ~Loses(id) /\ owed' \subseteq owed
    BY <1>8 DEF Loses
  <2>4. Owing' /\ NoRequestLost'
    BY <2>2, <2>3, CoveredStays
  <2>5. Followed'
    <3>1. \A k \in taken : k \in Ids
      BY DEF LInv, IInv, TypeOK
    <3> QED BY <1>2, <1>8, <2>1, <3>1 DEF LInv, Covered, Followed
  <2>6. Flags'
    <3>1. rows[id].job.kind # "url_fetch"
      BY <1>2 DEF Batches
    <3>2. cancels[id] # "set"
      BY <3>1 DEF LInv, Flags
    <3>3. cancels'[id] = "open" /\ \A k \in Ids : k # id => cancels'[k] = cancels[k]
      BY <1>8, <3>2 DEF LInv, IInv, TypeOK
    <3> QED BY <1>1, <1>4, <2>1, <3>1, <3>3 DEF LInv, Flags, Open
  <2>7. AtWork'
    BY <1>1, <1>3, <1>5, <1>6, <2>1, <2>2, AtWorkStays DEF bg
  <2> QED BY <1>1, <1>4, <2>4, <2>5, <2>6, <2>7 DEF Covered, Met
<1> QED BY <1>7, <1>8 DEF Claim, rowVars

\* The imports of a batch pause, go on, or stop, together.
LEMMA MarkMoves ==
    ASSUME LInv, MarkBatch
    PROVE  Covered' /\ Flags' /\ Met' /\ AtWork'
<1>1. /\ pc[bg] \in {"batch", "bheld"} /\ bg \in Runner /\ cur[bg] = lead
      /\ Marking(batch \cup {lead})
      /\ UNCHANGED <<phase, todo, seen, owed, cur, taken, cancels>>
  BY BatchMarks DEF LInv, bg, Runner, Lane, lead
<1>2. lead # 0 /\ lead \in Ids /\ Open(lead) /\ rows[lead] # NoRow /\ lead \notin batch
      /\ rows[lead].state # "queued" /\ \A r \in Runner \ {bg} : cur[r] # lead
  <2>1. lead # 0
    BY <1>1, LeadOpen DEF Busy, bg, LInv
  <2>2. rows[lead].state # "queued"
    BY <1>1, <2>1 DEF LInv, AtWork
  <2> QED BY <1>1, <2>1, <2>2, Held1, Follower
<1>3. phase \in {"up", "stopping"}
  BY <1>1, LeadOpen DEF Busy, bg, LInv
<1>4. PICK p \in {"batch", "bheld", "release"} :
         /\ pc' = [pc EXCEPT ![bg] = p]
         /\ p = "batch" => rows'[lead].state = "running"
         /\ IF p = "release" THEN exit' \in {"stopped", "failed"} ELSE exit' = exit
  BY BatchMarks DEF LInv, bg
<1>5. DEFINE ids == batch \cup {lead}
<1>6. ids \in SUBSET Ids /\ \A k \in ids : /\ Open(k) /\ rows[k].state # "queued"
                                          /\ \A r \in Runner \ {bg} : cur[r] # k
  BY <1>2, Follower DEF LInv, IInv, TypeOK
<1>7. /\ \A k \in ids : /\ rows'[k].job = rows[k].job
                        /\ rows'[k].state \in {"running", "paused", rows[k].state}
      /\ \A k \in Ids \ ids : rows'[k] = rows[k]
  BY <1>1 DEF Marking
<1> HIDE DEF ids
<1>8. \A k \in Ids : rows'[k].job = rows[k].job /\ (Open(k) => Open(k)')
  BY <1>6, <1>7 DEF Open, Active
<1>9. \A k \in Ids, j \in owed : rows[k].job = j /\ rows[k].state \in Dedupe(j) => rows'[k] = rows[k]
  <2>1. ASSUME NEW k \in ids, NEW j \in owed, rows[k].job = j PROVE rows[k].state \notin Dedupe(j)
    <3>1. Batches(rows[k].job)
      BY <1>1, <1>2, <2>1, Follower DEF LInv, AtWork, ids
    <3> QED BY <1>6, <2>1, <3>1, OwesWaits DEF LInv, Covered, Owing
  <2> QED BY <1>7, <2>1
<1>10. Covered'
  <2>1. Owing' /\ NoRequestLost'
    BY <1>1, <1>9 DEF LInv, Covered, Owing, NoRequestLost, Covers
  <2>2. Followed'
    BY <1>1, <1>8 DEF LInv, IInv, TypeOK, Covered, Followed
  <2> QED BY <2>1, <2>2 DEF Covered
<1>11. Flags'
  BY <1>1, <1>3, <1>8 DEF LInv, Flags
<1>12. AtWork'
  <2>1. pc'[bg] = p /\ cur'[bg] = lead /\ \A r \in Runner \ {bg} : pc'[r] = pc[r] /\ cur'[r] = cur[r]
    BY <1>1, <1>4 DEF LInv, IInv, TypeOK
  <2>2. Batches(rows[lead].job)
    BY <1>1, <1>2 DEF LInv, AtWork
  <2>3. rows'[lead].state # "queued" /\ rows'[lead].job = rows[lead].job
    BY <1>2, <1>7 DEF ids
  <2>4. ASSUME NEW r \in Runner \ {bg}, cur[r] # 0 PROVE rows'[cur[r]] = rows[cur[r]]
    BY <1>6, <1>7, <2>4, Held1
  <2>5. \A r \in Runner \ {bg} : r # "background" /\ pc[r] \notin {"release", "settle"}
    BY DEF LInv, AtWork, bg
  <2> QED BY <1>4, <2>1, <2>2, <2>3, <2>4, <2>5 DEF LInv, AtWork, bg
<1> QED BY <1>1, <1>3, <1>10, <1>11, <1>12 DEF Met

-----------------------------------------------------------------------------
(* New rows, and rows at a start *)

\* A new row takes no other's place, and nothing that waits.
LEMMA NewRowMoves ==
    ASSUME LInv, NEW id \in Ids, IsNextId(id), NEW j \in Jobs \cup {Inline}, NEW l \in Lane,
           rows' = WithRow(id, j, l), phase \in {"boot", "up", "stopping"},
           cancels' = cancels \/ cancels' = [cancels EXCEPT ![id] = "open"],
           UNCHANGED <<phase, todo, seen, taken>>,
           owed' = owed \/ (owed' = owed \cup {j} /\ Owes(j) /\ j \in Jobs)
    PROVE  Covered' /\ Flags' /\ Met' /\ OthersStay(id)
<1>1. TypeOK
  BY DEF LInv, IInv
<1>2. /\ rows'[id].job = j /\ rows'[id].state = "queued"
      /\ \A k \in Ids : k # id => rows'[k] = rows[k]
  BY <1>1, QueuedRow
<1>3. rows[id] = NoRow /\ id \notin taken
  BY FreshId DEF LInv
<1>4. NoRow.state = "absent" /\ NoRow.job.kind = "none"
  BY DEF NoRow, NoJob
<1>5. Owing'
  BY DEF LInv, Covered, Owing
<1>6. NoRequestLost'
  <2>1. ASSUME NEW i \in owed' PROVE \E k \in Ids : rows'[k].job = i /\ rows'[k].state \in Dedupe(i)
    <3>1. "queued" \in Dedupe(i) /\ Dedupe(i) \subseteq {"queued", "paused"}
      BY <1>5, OwesWaits DEF Owing
    <3>2. CASE i = j
      BY <1>2, <3>1, <3>2
    <3>3. CASE i # j
      <4>1. PICK k \in Ids : rows[k].job = i /\ rows[k].state \in Dedupe(i)
        BY <3>3 DEF LInv, Covered, NoRequestLost, Covers
      <4> QED BY <1>2, <1>3, <1>4, <3>1, <4>1
    <3> QED BY <3>2, <3>3
  <2> QED BY <2>1 DEF NoRequestLost, Covers
<1>7. Followed'
  <2>1. \A k \in taken : k \in Ids
    BY <1>1 DEF TypeOK
  <2> QED BY <1>2, <1>3, <2>1 DEF LInv, Covered, Followed
<1>8. Flags'
  <2>1. cancels[id] # "set"
    BY <1>3, <1>4 DEF LInv, Flags
  <2>2. cancels'[id] # "set" /\ \A k \in Ids : k # id => cancels'[k] = cancels[k]
    BY <1>1, <2>1 DEF TypeOK
  <2>3. Open(id)' /\ \A k \in Ids : k # id => Open(k)' = Open(k)
    BY <1>2 DEF Open, Active
  <2> QED BY <1>2, <2>2, <2>3 DEF LInv, Flags
<1> QED BY <1>2, <1>5, <1>6, <1>7, <1>8 DEF Covered, Met, OthersStay

\* A request joins a row that waits, or adds one.
LEMMA RequestMoves ==
    ASSUME LInv, NEW j \in Jobs, Request(j)
    PROVE  Covered' /\ Flags' /\ Met' /\ AtWork'
<1>1. /\ phase \in {"boot", "up", "stopping"}
      /\ owed' = owed \/ (owed' = owed \cup {j} /\ Owes(j))
      /\ UNCHANGED <<phase, todo, seen, pc, cur, exit, taken, cancels>>
  BY DEF Request, bootVars, laneVars, datVars
<1>2. CASE /\ \E id \in Ids : rows[id].job = j /\ rows[id].state \in Dedupe(j)
           /\ UNCHANGED rows
  BY <1>1, <1>2 DEF LInv, Covered, Owing, NoRequestLost, Covers, Followed, Flags, Met, AtWork, Open
<1>3. ASSUME NEW id \in Ids, IsNextId(id),
             rows' = [rows EXCEPT ![id] = [job |-> j, lane |-> LaneOf(j), state |-> "queued"]]
      PROVE  Covered' /\ Flags' /\ Met' /\ AtWork'
  <2>1. rows' = WithRow(id, j, LaneOf(j)) /\ LaneOf(j) \in Lane
    BY <1>3, LaneOfType DEF WithRow
  <2>2. Covered' /\ Flags' /\ Met' /\ OthersStay(id)
    BY <1>1, <1>3, <2>1, NewRowMoves
  <2>3. \A r \in Runner : cur[r] # id
    BY <1>3, FreshId DEF LInv
  <2>4. ASSUME NEW r \in Runner, cur[r] # 0 PROVE rows'[cur[r]] = rows[cur[r]]
    <3>1. cur[r] \in Ids \ {id} /\ Open(cur[r])
      BY <2>3, <2>4, Held1
    <3> QED BY <2>2, <3>1 DEF OthersStay, Open, Active, Finished
  <2> QED BY <1>1, <2>2, <2>4 DEF LInv, AtWork
<1> QED BY <1>2, <1>3 DEF Request

\* The inline job's row is one like any other.
LEMMA InlineMoves == ASSUME LInv, RunInline PROVE Covered' /\ Flags' /\ Met' /\ AtWork'
<1>1. PICK id \in Ids :
         /\ IsNextId(id)
         /\ rows' = [rows EXCEPT ![id] = [job |-> Inline, lane |-> "light", state |-> "queued"]]
         /\ cur' = [cur EXCEPT !["inline"] = id]
         /\ cancels' = [cancels EXCEPT ![id] = "open"]
  BY DEF RunInline
<1>2. /\ pc["inline"] = "insert" /\ pc' = [pc EXCEPT !["inline"] = "start"]
      /\ UNCHANGED <<owed, phase, todo, seen, exit, taken>>
  BY DEF RunInline, bootVars, datVars
<1>3. "inline" \in Runner /\ "light" \in Lane
  BY DEF Runner, Lane
<1>4. phase \in {"boot", "up", "stopping"}
  BY <1>2, <1>3, LanesClosed DEF LInv
<1>5. Covered' /\ Flags' /\ Met' /\ OthersStay(id)
  BY <1>1, <1>2, <1>3, <1>4, NewRowMoves DEF WithRow
<1>6. \A r \in Runner : cur[r] # id
  BY <1>1, FreshId DEF LInv
<1>7. /\ cur'["inline"] = id /\ pc'["inline"] = "start"
      /\ \A r \in Runner \ {"inline"} : cur'[r] = cur[r] /\ pc'[r] = pc[r]
  BY <1>1, <1>2, <1>3 DEF LInv, IInv, TypeOK
<1>8. AtWork'
  BY <1>2, <1>3, <1>5, <1>6, <1>7, AtWorkStays
<1> QED BY <1>5, <1>8

\* A row `reconcile` deletes has a queued one before it, and one it fails is not owed.
LEMMA ReconcileMoves ==
    ASSUME LInv, NEW id \in Ids, Reconcile(id)
    PROVE  Covered' /\ Flags' /\ Met' /\ AtWork'
<1>1. /\ phase = "reconcile" /\ id \in todo /\ todo' = todo \ {id}
      /\ seen' = seen \cup {rows[id].job}
      /\ UNCHANGED <<phase, owed, pc, cur, taken, exit>>
  BY DEF Reconcile, datVars
<1>2. taken = {} /\ Open(id) /\ rows[id] # NoRow /\ \A r \in Runner : cur[r] = 0 /\ pc[r] = "off"
  BY <1>1, RowPresent DEF LInv, IInv, Phases
<1>3. AtWork'
  BY <1>1, <1>2 DEF AtWork
<1>4. Followed'
  BY <1>1, <1>2 DEF Followed
<1>5. cancels[id] = "none"
  BY <1>1 DEF LInv, Flags
<1>6. \A k \in Ids : k # id => rows'[k] = rows[k]
  BY DEF Reconcile, InState, LInv, IInv, TypeOK
<1>7. NoRow.state = "absent" /\ NoRow.job.kind = "none"
  BY DEF NoRow, NoJob
<1>8. CASE rows[id].job \in seen /\ rows' = [rows EXCEPT ![id] = NoRow] /\ UNCHANGED cancels
  <2>1. rows'[id] = NoRow
    BY <1>8 DEF LInv, IInv, TypeOK
  <2>2. Revives(rows[id].job) =>
           \E k \in Ids \ todo : rows[k].job = rows[id].job /\ rows[k].state = "queued"
    BY <1>1, <1>8 DEF LInv, Met
  <2>3. Met'
    BY <1>1, <1>6, <1>8 DEF LInv, Met
  <2>4. NoRequestLost'
    <3>1. ASSUME NEW j \in owed, rows[id].job = j
          PROVE  \E k \in Ids : rows'[k].job = j /\ rows'[k].state \in Dedupe(j)
      <4>1. Revives(j) /\ "queued" \in Dedupe(j)
        BY OwesWaits DEF LInv, Covered, Owing
      <4> QED BY <1>1, <1>6, <2>2, <3>1, <4>1
    <3> QED BY <1>1, <1>6, <3>1 DEF LInv, Covered, NoRequestLost, Covers
  <2>5. Flags'
    BY <1>1, <1>5, <1>6, <1>8, <2>1 DEF LInv, Flags, Open
  <2> QED BY <1>1, <1>3, <1>4, <2>3, <2>4, <2>5 DEF LInv, Covered, Owing
<1>9. ASSUME NEW l \in Lane, Revives(rows[id].job), Send(id, l),
             rows' = [rows EXCEPT ![id] = [job |-> @.job, lane |-> l, state |-> "queued"]]
      PROVE  Covered' /\ Flags' /\ Met' /\ AtWork'
  <2>1. rows'[id].job = rows[id].job /\ rows'[id].state = "queued"
    BY <1>9 DEF LInv, IInv, TypeOK
  <2>2. Met'
    BY <1>1, <1>6, <2>1 DEF LInv, Met
  <2>3. NoRequestLost'
    BY <1>1, <1>6, <2>1, OwesWaits DEF LInv, Covered, Owing, NoRequestLost, Covers
  <2>4. cancels'[id] = "open" /\ \A k \in Ids : k # id => cancels'[k] = cancels[k]
    BY <1>5, <1>9 DEF Send, LInv, IInv, TypeOK
  <2>5. Open(id)'
    BY <2>1 DEF Open, Active
  <2>6. Flags'
    BY <1>1, <1>6, <2>1, <2>4, <2>5 DEF LInv, IInv, TypeOK, Flags, Open
  <2> QED BY <1>1, <1>3, <1>4, <2>2, <2>3, <2>6 DEF LInv, Covered, Owing
<1>10. CASE ~Revives(rows[id].job) /\ rows' = InState(id, "failed") /\ UNCHANGED cancels
  <2>1. rows'[id].job = rows[id].job
    BY <1>2, <1>10, SetStateRows DEF LInv, IInv, JobState
  <2>2. Met'
    BY <1>1, <1>6, <1>10 DEF LInv, Met
  <2>3. NoRequestLost'
    <3>1. rows[id].job \notin owed
      BY <1>10, OwesWaits DEF LInv, Covered, Owing
    <3> QED BY <1>1, <1>6, <3>1 DEF LInv, Covered, NoRequestLost, Covers
  <2>4. Flags'
    BY <1>1, <1>5, <1>6, <1>10 DEF LInv, Flags, Open
  <2> QED BY <1>1, <1>3, <1>4, <2>2, <2>3, <2>4 DEF LInv, Covered, Owing
<1>11. LaneOf(rows[id].job) \in Lane
  BY LaneOfType
<1> QED BY <1>8, <1>9, <1>10, <1>11 DEF Reconcile

-----------------------------------------------------------------------------
\* At first nothing is owed.
LEMMA InitL == ASSUME Init PROVE LInv
<1> USE DEF Init
<1>1. Covered /\ Met /\ AtWork
  BY DEF Covered, Owing, NoRequestLost, Covers, Followed, Met, AtWork, Runner
<1>2. Flags
  BY DEF Flags
<1> QED BY <1>1, <1>2, InitInv DEF LInv

\* Every step keeps what is owed before a row that waits.
LEMMA NextL == ASSUME LInv, [Next]_vars PROVE LInv'
<1>1. IInv'
  BY NextInv DEF LInv
<1> SUFFICES Covered' /\ Flags' /\ Met' /\ AtWork'
  BY <1>1 DEF LInv
<1>2. CASE UNCHANGED vars
  BY <1>2, QuietStep
<1>3. CASE Boot \/ Reconciled \/ RunInline \/ OpenLanes \/ BeginShutdown \/ Stop \/ Crash
  BY <1>3, PhaseMoves, InlineMoves, QuietStep
<1>4. ASSUME NEW id \in Ids, \/ Reconcile(id) \/ Dispatch(id) \/ Leave(id) \/ Cancel(id)
                             \/ BatchDirty(id)
      PROVE  Covered' /\ Flags' /\ Met' /\ AtWork'
  BY <1>4, ReconcileMoves, DispatchMoves, QuietStep, CancelMoves, SettleMoves
<1>5. ASSUME NEW j \in Jobs, Request(j) PROVE Covered' /\ Flags' /\ Met' /\ AtWork'
  BY <1>5, RequestMoves
<1>6. ASSUME NEW c \in CoreNames, SetCorename(c) PROVE Covered' /\ Flags' /\ Met' /\ AtWork'
  BY <1>6, QuietStep
<1>7. ASSUME NEW m \in {"paused", "running"}, SetOverride(m) PROVE Covered' /\ Flags' /\ Met' /\ AtWork'
  BY <1>7, QuietStep
<1>8. ASSUME NEW l \in Lane, LaneStep(l) \/ Abort(l) PROVE Covered' /\ Flags' /\ Met' /\ AtWork'
  BY <1>8, LaneMoves
<1>9. ASSUME NEW r \in Runner, JobStep(r) \/ StartFails(r) \/ Pause(r) \/ UnpauseFails(r) \/ Finish(r)
      PROVE  Covered' /\ Flags' /\ Met' /\ AtWork'
  BY <1>9, WorkMoves, StopMoves, UnpauseFailsMoves, StartFailsMoves DEF JobStep
<1>10. CASE ReadHeavyQueue \/ EndRunNow
  BY <1>10, PlaceMoves
<1>11. CASE DatStep \/ BatchPause \/ BatchMarkFails
  BY <1>11, PlaceMoves, ClaimMoves, MarkMoves, SettleMoves, OverMoves DEF DatStep, MarkBatch
<1> QED BY <1>2, <1>3, <1>4, <1>5, <1>6, <1>7, <1>8, <1>9, <1>10, <1>11 DEF Next

\* A request that was accepted and that a restart keeps stays before a row that waits
\* for its run, through joins, batches, pauses, failed writes, lanes that are aborted,
\* a shutdown, a crash and the reconciliation after it, whatever the jobs and the bounds.
\* Set aside (by `owed`) is the request that joined a paused job whose row cannot be
\* marked running again, which the code loses.
THEOREM NoRequestIsLost == Spec => []NoRequestLost
<1>1. Init => LInv
  BY InitL
<1>2. LInv /\ [Next]_vars => LInv'
  BY NextL
<1>3. LInv => NoRequestLost
  BY DEF LInv, Covered
<1> QED BY <1>1, <1>2, <1>3, PTL DEF Spec

-----------------------------------------------------------------------------
(* No row is stranded. *)

\* The faults that strand a row do not occur.
NoStrays == Faults \cap {"leave", "write"} = {}

\* The job of a row is where the row says.
Placed(id) == /\ rows[id].state = "queued" => Waits(id)
              /\ rows[id].state \in {"running", "paused"} => Works(id)

\* A worker between two jobs holds none.
Idle == phase \in {"boot", "up"} => \A r \in Runner : cur[r] # 0 => pc[r] \in Busy

\* Lanes that are open stay so, a follower is still on its way to its lane, and what is
\* not dispatched yet will find its lane.
Ready ==
    /\ exit = "stopped" => phase = "stopping"
    /\ phase = "up" => /\ \A l \in Lanes : pc[l] # "gone"
                       /\ \A id \in batch : id \in calls \/ Sent(id)
    /\ phase \in {"boot", "up"} => \A id \in calls : LaneOf(rows[id].job) \in Lanes

\* An open row is still to be reconciled, or is queued and sent.
Sending ==
    phase = "reconcile" =>
        \A id \in Ids : Open(id) => id \in todo \/ (rows[id].state = "queued" /\ Sent(id))

Housed == Idle /\ Ready /\ Sending /\ NothingStranded
NInv == LInv /\ Housed

-----------------------------------------------------------------------------
(* What one step needs *)

\* A process that ends has nothing to keep.
LEMMA Away ==
    ASSUME phase' = "stopping" \/ (phase' = "down" /\ exit' # "stopped")
    PROVE  Housed'
BY DEF Housed, Idle, Ready, Sending, NothingStranded

\* A job that no step touches stays where it is.
LEMMA Elsewhere ==
    ASSUME NEW k \in Ids, NEW r \in Runner,
           \/ cur[r] # k
           \/ cur'[r] = cur[r] /\ (pc[r] \in {"gate", "start"} <=> pc'[r] \in {"gate", "start"}),
           \A s \in Runner \ {r} : pc'[s] = pc[s] /\ cur'[s] = cur[s],
           k \in taken' => k \in taken, k \in batch => k \in batch',
           k \in calls \/ Sent(k) => k \in calls' \/ Sent(k)'
    PROVE  (Waits(k) => Waits(k)') /\ (Works(k) => Works(k)')
<1>1. Waits(k) => Waits(k)'
  BY DEF Waits
<1>2. Works(k) => Works(k)'
  BY DEF Works
<1> QED BY <1>1, <1>2

\* Rows other than those of S stay or had finished, and so do their jobs.
Beside(S) ==
    \A k \in Ids \ S : /\ \/ rows'[k] = rows[k]
                          \/ rows'[k] = NoRow /\ rows[k].state \in Finished /\ ~Referred(k)
                       /\ k \in taken' => k \in taken
                       /\ k \in batch' <=> k \in batch
                       /\ k \in calls' <=> k \in calls
                       /\ Sent(k) => Sent(k)'

\* Those of S are where they belong.
Within(S) ==
    \A k \in Ids \cap S : /\ Placed(k)'
                          /\ k \in batch' => k \in calls' \/ Sent(k)'
                          /\ k \in calls' => LaneOf(rows'[k].job) \in Lanes

\* One worker moves, and leaves no job but one of S.
Moves(r, S) ==
    /\ \A s \in Runner \ {r} : pc'[s] = pc[s] /\ cur'[s] = cur[s]
    /\ cur'[r] # 0 => pc'[r] \in Busy
    /\ pc'[r] # "gone" \/ r \notin Lanes \/ phase = "boot"
    /\ \/ cur[r] \in S \cup {0}
       \/ cur'[r] = cur[r] /\ (pc[r] \in {"gate", "start"} <=> pc'[r] \in {"gate", "start"})

\* Such a step leaves every row with its job.
LEMMA Placing ==
    ASSUME NInv, LInv', NEW S, NEW r \in Runner, phase \in {"boot", "up"}, phase' = phase,
           exit' # "stopped", Beside(S), Within(S), Moves(r, S)
    PROVE  Housed'
<1> USE DEF Beside, Within, Moves
<1>1. Idle'
  BY DEF NInv, Housed, Idle
<1>2. Ready'
  <2>1. ASSUME phase = "up", NEW l \in Lanes PROVE pc'[l] # "gone"
    <3>1. l \in Runner
      BY LanesAssumption DEF Runner
    <3> QED BY <2>1, <3>1 DEF NInv, Housed, Ready
  <2>2. ASSUME phase = "up", NEW k \in batch' PROVE k \in calls' \/ Sent(k)'
    <3>1. k \in Ids
      BY DEF LInv, IInv, TypeOK
    <3> QED BY <2>2, <3>1 DEF NInv, Housed, Ready
  <2>3. ASSUME NEW k \in calls' PROVE LaneOf(rows'[k].job) \in Lanes
    <3>1. k \in Ids
      BY DEF LInv, IInv, TypeOK
    <3>2. CASE k \notin S
      BY <3>1, <3>2 DEF NInv, Housed, Ready, Referred
    <3> QED BY <3>1, <3>2
  <2> QED BY <2>1, <2>2, <2>3 DEF Ready
<1>3. ASSUME NEW k \in Ids \ S PROVE Placed(k)'
  <2>1. (Waits(k) => Waits(k)') /\ (Works(k) => Works(k)')
    <3>1. cur[r] # k \/ (cur'[r] = cur[r] /\ (pc[r] \in {"gate", "start"} <=> pc'[r] \in {"gate", "start"}))
      BY IdsPositive
    <3> QED BY <3>1, Elsewhere
  <2>2. Placed(k)
    BY DEF NInv, Housed, NothingStranded, Placed
  <2>3. CASE rows'[k] = rows[k]
    BY <2>1, <2>2, <2>3 DEF Placed
  <2>4. CASE rows'[k] = NoRow
    BY <2>4 DEF Placed, NoRow
  <2> QED BY <2>3, <2>4
<1>4. NothingStranded'
  BY <1>3 DEF NothingStranded, Placed
<1> QED BY <1>1, <1>2, <1>4 DEF Housed, Sending

\* A worker moves on with what it holds, and no row changes.
LEMMA Steady ==
    ASSUME NInv, LInv', NEW r \in Runner, phase \in {"boot", "up"},
           UNCHANGED <<rows, phase, calls, chan, cur, batch, taken>>,
           NEW p, pc' = [pc EXCEPT ![r] = p], p # "gone",
           pc[r] \in {"gate", "start"} <=> p \in {"gate", "start"},
           cur[r] # 0 => p \in Busy, exit' # "stopped"
    PROVE  Housed'
<1>1. pc'[r] = p /\ \A s \in Runner \ {r} : pc'[s] = pc[s] /\ cur'[s] = cur[s]
  BY DEF NInv, LInv, IInv, TypeOK
<1>2. Beside({}) /\ Within({})
  BY DEF Beside, Within, Sent
<1>3. Moves(r, {})
  BY <1>1 DEF Moves
<1> QED BY <1>2, <1>3, Placing

\* Neither rows nor jobs move.
LEMMA Still ==
    ASSUME NInv, UNCHANGED <<rows, phase, todo, calls, chan, pc, cur, batch, exit, taken>>
    PROVE  Housed'
BY DEF NInv, Housed, Idle, Ready, Sending, NothingStranded, Open, Waits, Works, Sent

\* A job ends: its row is finished, or pruned.
LEMMA EndHoused ==
    ASSUME NInv, LInv', NoStrays, NEW id \in Ids, Open(id), NEW s \in {"done", "failed"},
           LastState(id, s), NEW r \in Runner, phase \in {"boot", "up"},
           UNCHANGED <<phase, calls, chan, taken>>, batch' = batch \ {id}, exit' # "stopped",
           \A q \in Runner \ {r} : pc'[q] = pc[q] /\ cur'[q] = cur[q],
           \/ cur[r] = id /\ cur'[r] = 0 /\ (pc'[r] # "gone" \/ r \notin Lanes)
           \/ cur'[r] = cur[r] /\ pc'[r] = pc[r]
    PROVE  Housed'
<1>1. TypeOK /\ rows[id] # NoRow
  BY RowPresent DEF NInv, LInv, IInv
<1>2. /\ \A k \in Ids \ {id} : \/ rows'[k] = rows[k]
                               \/ rows'[k] = NoRow /\ rows[k].state \in Finished /\ ~Referred(k)
      /\ \/ rows'[id].job = rows[id].job
         \/ ~Referred(id)
  BY <1>1, LastStateRows
<1>3. rows'[id].state \in {"done", "failed", "absent"}
  <2>1. rows' \in Pruned(InState(id, s))
    BY DEF LastState, NoStrays
  <2>2. InState(id, s) \in [Ids -> Row] /\ InState(id, s)[id].state = s
    BY <1>1, SetStateRows DEF JobState
  <2>3. rows'[id] = InState(id, s)[id] \/ rows'[id] = NoRow
    BY <2>1, <2>2, PrunedRows
  <2> QED BY <2>2, <2>3 DEF NoRow
<1>4. Placed(id)'
  BY <1>3 DEF Placed
<1>5. id \in calls' => LaneOf(rows'[id].job) \in Lanes
  BY <1>2 DEF NInv, Housed, Ready, Referred
<1>6. Beside({id})
  BY <1>2 DEF Beside, Sent
<1>7. Within({id})
  BY <1>4, <1>5 DEF Within
<1>8. Moves(r, {id})
  BY DEF Moves, NInv, Housed, Idle, Ready
<1> QED BY <1>6, <1>7, <1>8, Placing

-----------------------------------------------------------------------------
(* The steps of the process *)

LEMMA QuietHoused ==
    ASSUME NInv, \/ UNCHANGED vars \/ BeginShutdown
                 \/ \E id \in Ids : Cancel(id)
                 \/ \E c \in CoreNames : SetCorename(c)
                 \/ \E m \in {"paused", "running"} : SetOverride(m)
    PROVE  Housed'
<1>1. CASE BeginShutdown
  BY <1>1, Away DEF BeginShutdown
<1>2. CASE \/ UNCHANGED vars
           \/ \E id \in Ids : Cancel(id)
           \/ \E c \in CoreNames : SetCorename(c)
           \/ \E m \in {"paused", "running"} : SetOverride(m)
  BY <1>2, Still DEF vars, Cancel, SetCorename, SetOverride, rowVars, bootVars, laneVars, datVars
<1> QED BY <1>1, <1>2

\* A process starts, reconciles, opens its lanes, and is gone.
LEMMA PhaseHoused ==
    ASSUME NInv, Boot \/ Reconciled \/ OpenLanes \/ Stop \/ Crash
    PROVE  Housed'
<1> USE DEF NInv, Housed
<1>1. CASE Boot
  BY <1>1 DEF Boot, OpenIds, Open, rowVars, datVars, Idle, Ready, Sending, NothingStranded
<1>2. CASE Reconciled
  <2>1. /\ phase = "reconcile" /\ todo = {} /\ phase' = "boot"
        /\ UNCHANGED <<rows, calls, chan, cur, batch, exit, taken>>
    BY <1>2 DEF Reconciled, rowVars, datVars
  <2>2. calls = {} /\ taken = {} /\ batch = {} /\ \A r \in Runner : cur[r] = 0
    BY <2>1 DEF LInv, IInv, Phases
  <2>3. NothingStranded'
    <3>1. ASSUME NEW id \in Ids PROVE Placed(id)'
      <4>1. Open(id) => rows[id].state = "queued" /\ Sent(id)
        BY <2>1 DEF Sending
      <4>2. Sent(id) => Waits(id)'
        BY <2>1, <2>2 DEF Waits, Sent
      <4> QED BY <2>1, <4>1, <4>2 DEF Placed, Open, Active
    <3> QED BY <3>1 DEF NothingStranded, Placed
  <2> QED BY <2>1, <2>2, <2>3 DEF Idle, Ready, Sending
<1>3. CASE OpenLanes
  <2>1. /\ phase = "boot" /\ phase' = "up" /\ pc["inline"] = "gone"
        /\ UNCHANGED <<rows, calls, chan, cur, batch, exit, taken>>
        /\ \A r \in Runner : r \in Lanes => pc'[r] = "recv"
    BY <1>3 DEF OpenLanes, rowVars, datVars
  <2>2. \A r \in Runner : cur[r] = 0
    BY <2>1 DEF Idle, LInv, IInv, Phases, Runner, Busy
  <2>3. batch = {}
    <3>1. pc["background"] = "off"
      BY <2>1 DEF LInv, IInv, Phases, Lane
    <3> QED BY <3>1 DEF LInv, IInv, Batched, Batching
  <2>4. Ready'
    BY <2>1, <2>3, LanesAssumption DEF Ready, Runner
  <2>5. NothingStranded'
    <3>1. ASSUME NEW id \in Ids PROVE Placed(id)'
      <4>1. Placed(id)
        BY <2>1 DEF NothingStranded, Placed
      <4>2. (Waits(id) => Waits(id)') /\ ~Works(id)
        BY <2>1, <2>2, <2>3, IdsPositive DEF Waits, Works, Sent
      <4> QED BY <2>1, <4>1, <4>2 DEF Placed
    <3> QED BY <3>1 DEF NothingStranded, Placed
  <2> QED BY <2>1, <2>2, <2>4, <2>5 DEF Idle, Sending
<1>4. CASE Stop \/ Crash
  BY <1>4, Away DEF Stop, Crash, GoDown
<1> QED BY <1>1, <1>2, <1>3, <1>4

\* What is sent is in a channel, and so is what was.
LEMMA SentStays ==
    ASSUME TypeOK, NEW id \in Ids, NEW l \in Lane, Send(id, l)
    PROVE  Sent(id)' /\ \A k \in Ids : Sent(k) => Sent(k)'
<1>1. /\ Len(chan'[l]) = Len(chan[l]) + 1
      /\ chan'[l][Len(chan[l]) + 1] = id
      /\ \A i \in 1..Len(chan[l]) : chan'[l][i] = chan[l][i]
      /\ \A m \in Lane : m # l => chan'[m] = chan[m]
  BY SendChan
<1>2. Len(chan[l]) \in Nat
  BY ChanIds
<1>3. Len(chan[l]) + 1 \in 1..Len(chan'[l]) /\ 1..Len(chan[l]) \subseteq 1..Len(chan'[l])
  BY <1>1, <1>2
<1>4. Sent(id)'
  BY <1>1, <1>3 DEF Sent
<1>5. ASSUME NEW k \in Ids, Sent(k) PROVE Sent(k)'
  <2>1. PICK m \in Lane : \E i \in 1..Len(chan[m]) : chan[m][i] = k
    BY <1>5 DEF Sent
  <2> QED BY <1>1, <1>3, <2>1 DEF Sent
<1> QED BY <1>4, <1>5

\* A row is deleted, sent or failed, and the others stay as they are.
LEMMA ReconcileHoused ==
    ASSUME NInv, NEW id \in Ids, Reconcile(id)
    PROVE  Housed'
<1>1. /\ phase = "reconcile" /\ phase' = phase /\ todo' = todo \ {id} /\ exit' = exit
      /\ \A k \in Ids : k # id => rows'[k] = rows[k]
  BY DEF Reconcile, InState, datVars, NInv, LInv, IInv, TypeOK
<1>2. /\ \A k \in Ids : Sent(k) => Sent(k)'
      /\ Open(id)' => rows'[id].state = "queued" /\ Sent(id)'
  <2>1. TypeOK /\ rows[id] # NoRow
    BY RowPresent DEF NInv, LInv, IInv, Phases, Reconcile
  <2>2. CASE rows' = [rows EXCEPT ![id] = NoRow] /\ UNCHANGED chan
    <3>1. rows'[id] = NoRow
      BY <2>1, <2>2 DEF TypeOK
    <3> QED BY <2>2, <3>1 DEF Sent, Open, Active, NoRow
  <2>3. CASE rows' = InState(id, "failed") /\ UNCHANGED chan
    <3>1. rows'[id].state = "failed"
      BY <2>1, <2>3, SetStateRows DEF JobState
    <3> QED BY <2>3, <3>1 DEF Sent, Open, Active
  <2>4. ASSUME NEW l \in Lane, Send(id, l),
               rows' = [rows EXCEPT ![id] = [job |-> @.job, lane |-> l, state |-> "queued"]]
        PROVE  (\A k \in Ids : Sent(k) => Sent(k)') /\ rows'[id].state = "queued" /\ Sent(id)'
    BY <2>1, <2>4, SentStays DEF TypeOK
  <2>5. LaneOf(rows[id].job) \in Lane
    BY LaneOfType
  <2> QED BY <2>2, <2>3, <2>4, <2>5 DEF Reconcile
<1>3. Sending'
  <2>1. ASSUME NEW k \in Ids, Open(k)', k # id
        PROVE  k \in todo' \/ (rows'[k].state = "queued" /\ Sent(k)')
    <3>1. Open(k)
      BY <1>1, <2>1 DEF Open
    <3> QED BY <1>1, <1>2, <2>1, <3>1 DEF NInv, Housed, Sending
  <2> QED BY <1>2, <2>1 DEF Sending
<1> QED BY <1>1, <1>3 DEF NInv, Housed, Idle, Ready, NothingStranded

-----------------------------------------------------------------------------
(* Requests *)

\* The runner of the inline job, which does not take part.
LEMMA InlineIdle ==
    ASSUME NInv, UNCHANGED <<pc, cur, phase>>, phase \in {"boot", "up"}, NEW S
    PROVE  Moves("inline", S) /\ "inline" \in Runner
BY LanesAssumption DEF Moves, NInv, Housed, Idle, Runner, Lane

\* A request joins a row, or adds one its call has yet to dispatch.
LEMMA RequestHoused ==
    ASSUME NInv, LInv', NEW j \in Jobs, Request(j)
    PROVE  Housed'
<1>1. /\ phase \in {"boot", "up", "stopping"}
      /\ UNCHANGED <<phase, todo, chan, pc, cur, batch, exit, taken>>
  BY DEF Request, bootVars, laneVars, datVars
<1>2. CASE phase = "stopping"
  BY <1>1, <1>2, Away
<1>3. CASE UNCHANGED <<rows, calls>>
  BY <1>1, <1>3, Still
<1>4. ASSUME phase # "stopping", NEW id \in Ids, IsNextId(id), calls' = calls \cup {id},
             rows' = [rows EXCEPT ![id] = [job |-> j, lane |-> LaneOf(j), state |-> "queued"]]
      PROVE  Housed'
  <2>1. rows'[id].job = j /\ rows'[id].state = "queued" /\ \A k \in Ids : k # id => rows'[k] = rows[k]
    <3>1. TypeOK /\ LaneOf(j) \in Lane /\ rows' = WithRow(id, j, LaneOf(j))
      BY <1>4, LaneOfType DEF WithRow, NInv, LInv, IInv
    <3> QED BY <3>1, QueuedRow
  <2>2. id \notin taken /\ id \notin batch
    BY <1>4, FreshId DEF NInv, LInv
  <2>3. Beside({id})
    BY <1>1, <1>4, <2>1 DEF Beside, Sent
  <2>4. Within({id})
    BY <1>1, <1>4, <2>1, <2>2, LanesAssumption DEF Within, Placed, Waits
  <2>5. exit' # "stopped"
    BY <1>1, <1>4 DEF NInv, Housed, Ready
  <2> QED BY <1>1, <1>4, <2>3, <2>4, <2>5, InlineIdle, Placing
<1> QED BY <1>1, <1>2, <1>3, <1>4 DEF Request

\* The lane of what is dispatched is there.
LEMMA DispatchHoused ==
    ASSUME NInv, LInv', NEW id \in Ids, Dispatch(id)
    PROVE  Housed'
<1>1. /\ id \in calls /\ calls' = calls \ {id}
      /\ UNCHANGED <<rows, phase, todo, pc, cur, batch, exit, taken>>
  BY DEF Dispatch, rowVars, bootVars, datVars
<1>2. phase \in {"boot", "up", "stopping"}
  BY <1>1 DEF NInv, LInv, IInv, TypeOK, Phases
<1>3. CASE phase = "stopping"
  BY <1>1, <1>3, Away
<1>4. CASE phase \in {"boot", "up"}
  <2>1. LaneOf(rows[id].job) \in Lanes /\ LaneOf(rows[id].job) \in Lane
    BY <1>1, <1>4, LaneOfType DEF NInv, Housed, Ready
  <2>2. pc[LaneOf(rows[id].job)] # "gone"
    BY <1>4, <2>1 DEF NInv, Housed, Ready, LInv, IInv, Phases
  <2>3. Send(id, LaneOf(rows[id].job))
    BY <2>2 DEF Dispatch
  <2>4. Sent(id)' /\ \A k \in Ids : Sent(k) => Sent(k)'
    BY <2>1, <2>3, SentStays DEF NInv, LInv, IInv
  <2>5. Placed(id)'
    <3>1. Placed(id)
      BY <1>4 DEF NInv, Housed, NothingStranded, Placed
    <3>2. (Waits(id) => Waits(id)') /\ (Works(id) => Works(id)')
      BY <1>1, <2>4 DEF Waits, Works
    <3> QED BY <1>1, <3>1, <3>2 DEF Placed
  <2>6. Beside({id})
    BY <1>1, <2>4 DEF Beside
  <2>7. Within({id})
    BY <1>1, <2>4, <2>5 DEF Within
  <2>8. exit' # "stopped"
    BY <1>1, <1>4 DEF NInv, Housed, Ready
  <2> QED BY <1>1, <1>4, <2>6, <2>7, <2>8, InlineIdle, Placing
<1> QED BY <1>2, <1>3, <1>4

\* The inline job is held by its runner at once.
LEMMA InlineHoused ==
    ASSUME NInv, LInv', RunInline
    PROVE  Housed'
<1>1. PICK id \in Ids :
         /\ IsNextId(id)
         /\ rows' = [rows EXCEPT ![id] = [job |-> Inline, lane |-> "light", state |-> "queued"]]
         /\ cur' = [cur EXCEPT !["inline"] = id]
  BY DEF RunInline
<1>2. /\ pc["inline"] = "insert" /\ pc' = [pc EXCEPT !["inline"] = "start"]
      /\ UNCHANGED <<phase, todo, calls, chan, batch, exit, taken>>
  BY DEF RunInline, bootVars, datVars
<1>3. "inline" \in Runner /\ "inline" \notin Lanes
  BY LanesAssumption DEF Runner, Lane
<1>4. phase \in {"boot", "up", "stopping"}
  BY <1>2, <1>3, LanesClosed DEF NInv, LInv
<1>5. CASE phase = "stopping"
  BY <1>2, <1>5, Away
<1>6. CASE phase \in {"boot", "up"}
  <2>1. rows'[id].state = "queued" /\ \A k \in Ids : k # id => rows'[k] = rows[k]
    <3>1. TypeOK /\ "light" \in Lane /\ rows' = WithRow(id, Inline, "light")
      BY <1>1 DEF WithRow, NInv, LInv, IInv, Lane
    <3> QED BY <3>1, QueuedRow
  <2>2. id \notin taken /\ id \notin batch /\ id \notin calls
    BY <1>1, FreshId DEF NInv, LInv
  <2>3. cur["inline"] = 0
    BY <1>2, <1>3, <1>6 DEF NInv, Housed, Idle, Busy
  <2>4. /\ cur'["inline"] = id /\ pc'["inline"] = "start"
        /\ \A r \in Runner \ {"inline"} : cur'[r] = cur[r] /\ pc'[r] = pc[r]
    BY <1>1, <1>2, <1>3 DEF NInv, LInv, IInv, TypeOK
  <2>5. Beside({id})
    BY <1>2, <2>1 DEF Beside, Sent
  <2>6. Within({id})
    BY <1>2, <1>3, <2>1, <2>2, <2>4 DEF Within, Placed, Waits
  <2>7. Moves("inline", {id})
    BY <1>3, <2>3, <2>4 DEF Moves, Busy
  <2>8. exit' # "stopped"
    BY <1>2, <1>6 DEF NInv, Housed, Ready
  <2> QED BY <1>2, <1>3, <1>6, <2>5, <2>6, <2>7, <2>8, Placing
<1> QED BY <1>4, <1>5, <1>6

-----------------------------------------------------------------------------
(* The steps of a lane *)

\* What is left in a channel was there before.
LEMMA TailSent ==
    ASSUME TypeOK, NEW l \in Lane, chan[l] # <<>>, chan' = [chan EXCEPT ![l] = Tail(@)]
    PROVE  \A k \in Ids : k # Head(chan[l]) /\ Sent(k) => Sent(k)'
<1>1. /\ Len(chan[l]) \in Nat /\ Len(chan[l]) > 0
      /\ Len(chan'[l]) = Len(chan[l]) - 1
      /\ Head(chan[l]) = chan[l][1]
      /\ \A i \in 1..Len(chan'[l]) : chan'[l][i] = chan[l][i + 1]
      /\ \A m \in Lane : m # l => chan'[m] = chan[m]
  BY TailChan
<1>2. ASSUME NEW k \in Ids, k # Head(chan[l]), Sent(k) PROVE Sent(k)'
  <2>0. PICK m \in Lane : \E i \in 1..Len(chan[m]) : chan[m][i] = k
    BY <1>2 DEF Sent
  <2>1. PICK i \in 1..Len(chan[m]) : chan[m][i] = k
    BY <2>0
  <2>2. CASE m # l
    BY <1>1, <2>1, <2>2 DEF Sent
  <2>3. CASE m = l
    <3>1. i # 1 /\ i \in Int /\ i > 0
      BY <1>1, <1>2, <2>1, <2>3
    <3>2. i - 1 \in 1..Len(chan'[l]) /\ (i - 1) + 1 = i
      BY <1>1, <2>1, <2>3, <3>1
    <3>3. chan'[l][i - 1] = k
      BY <1>1, <2>1, <2>3, <3>2
    <3> QED BY <3>2, <3>3 DEF Sent
  <2> QED BY <2>2, <2>3
<1> QED BY <1>2

\* A lane takes a job in hand, or drops one that a batch took, which is the batch's.
LEMMA RecvHoused ==
    ASSUME NInv, LInv', NEW l \in Lane, Recv(l)
    PROVE  Housed'
<1>1. /\ pc[l] = "recv" /\ chan[l] # <<>> /\ l \in Runner
      /\ chan' = [chan EXCEPT ![l] = Tail(@)]
      /\ UNCHANGED <<rows, phase, todo, calls, batch, exit>>
  BY DEF Recv, rowVars, bootVars, Runner
<1>2. phase \in {"boot", "up", "stopping"} /\ TypeOK
  BY <1>1, LanesClosed DEF NInv, LInv, IInv
<1>3. CASE phase = "stopping"
  BY <1>1, <1>3, Away
<1>4. CASE phase \in {"boot", "up"}
  <2>1. PICK id \in Ids : id = Head(chan[l])
    BY <1>1, <1>2, TailChan
  <2>2. id = chan[l][1] /\ 1 \in 1..Len(chan[l])
    BY <1>1, <1>2, <2>1, TailChan
  <2>3. /\ id \notin calls /\ \A r \in Runner : cur[r] # id
        /\ LaneOf(rows[id].job) = l
    BY <2>2 DEF NInv, LInv, IInv, Once, Routed
  <2>4. id \notin batch
    <3>1. ASSUME id \in batch PROVE FALSE
      <4>1. Batches(rows[id].job) /\ pc["background"] \in Batching
        BY <3>1 DEF NInv, LInv, IInv, Batched
      <4>2. l = "background"
        BY <2>3, <4>1, BatchLane
      <4> QED BY <1>1, <4>1, <4>2 DEF Batching
    <3> QED BY <3>1
  <2>5. Placed(id) /\ ~Works(id)
    BY <1>4, <2>3, <2>4 DEF NInv, Housed, NothingStranded, Placed, Works
  <2>6. exit' # "stopped"
    BY <1>1, <1>4 DEF NInv, Housed, Ready
  <2>7. \A k \in Ids : k # id /\ Sent(k) => Sent(k)'
    BY <1>1, <1>2, <2>1, TailSent
  <2>8. CASE id \in taken /\ taken' = taken \ {id} /\ UNCHANGED <<pc, cur>>
    <3>1. rows[id].state # "queued"
      BY <2>8 DEF NInv, LInv, IInv, Batched
    <3>2. Beside({id})
      BY <1>1, <2>7, <2>8 DEF Beside
    <3>3. Within({id})
      BY <1>1, <2>3, <2>4, <2>5, <3>1 DEF Within, Placed
    <3> QED BY <1>1, <1>4, <2>6, <2>8, <3>2, <3>3, InlineIdle, Placing
  <2>9. CASE /\ id \notin taken /\ taken' = taken
             /\ pc' = [pc EXCEPT ![l] = "gate"] /\ cur' = [cur EXCEPT ![l] = id]
    <3>1. /\ pc'[l] = "gate" /\ cur'[l] = id
          /\ \A s \in Runner \ {l} : pc'[s] = pc[s] /\ cur'[s] = cur[s]
      BY <1>1, <1>2, <2>9 DEF TypeOK
    <3>2. Beside({id})
      BY <1>1, <2>7, <2>9 DEF Beside
    <3>3. Within({id})
      BY <1>1, <2>3, <2>4, <2>5, <2>9, <3>1 DEF Within, Placed, Waits
    <3>4. cur[l] = 0
      BY <1>1, <1>4 DEF NInv, Housed, Idle, Busy
    <3>5. Moves(l, {id})
      BY <3>1, <3>4 DEF Moves, Busy
    <3> QED BY <1>1, <1>4, <2>6, <3>2, <3>3, <3>5, Placing
  <2> QED BY <2>1, <2>8, <2>9 DEF Recv
<1> QED BY <1>2, <1>3, <1>4

\* A lane receives, passes the gate, stops, or is aborted.
LEMMA LaneHoused ==
    ASSUME NInv, LInv', NEW l \in Lane, LaneStep(l) \/ Abort(l)
    PROVE  Housed'
<1>1. CASE LaneStops(l) \/ Abort(l)
  BY <1>1, Away DEF LaneStops, Abort, Stopping, bootVars
<1>2. CASE PassGate(l)
  <2>1. /\ pc[l] = "gate" /\ l \in Runner /\ pc' = [pc EXCEPT ![l] = "start"]
        /\ UNCHANGED <<rows, phase, calls, chan, cur, batch, exit, taken>>
    BY <1>2 DEF PassGate, rowVars, bootVars, datVars, Runner
  <2>2. phase \in {"boot", "up", "stopping"}
    BY <2>1, LanesClosed DEF NInv, LInv
  <2>3. CASE phase = "stopping"
    BY <2>1, <2>3, Away
  <2>4. CASE phase \in {"boot", "up"}
    <3>1. exit' # "stopped" /\ "start" \in Busy
      BY <2>1, <2>4 DEF NInv, Housed, Ready, Busy
    <3> QED BY <2>1, <2>4, <3>1, Steady
  <2> QED BY <2>2, <2>3, <2>4
<1> QED BY <1>1, <1>2, RecvHoused DEF LaneStep

-----------------------------------------------------------------------------
(* The steps of a worker with its job, and of a batch *)

\* What a worker holds is in no call and in no batch.
LEMMA Held2 ==
    ASSUME NInv, NEW r \in Runner, cur[r] # 0
    PROVE  cur[r] \notin calls /\ cur[r] \notin batch
<1>1. cur[r] \notin calls /\ cur[r] \notin taken
  BY DEF NInv, LInv, IInv, Once, Worked
<1> QED BY <1>1 DEF NInv, LInv, IInv, Batched

\* A worker starts its job, or pauses it or goes on with it at a checkpoint.
LEMMA WorkHoused ==
    ASSUME NInv, LInv', NEW r \in Runner, Start(r) \/ Pause(r) \/ Unpause(r)
    PROVE  Housed'
<1>1. /\ pc[r] \in {"start", "run", "held"} /\ cur[r] # 0
      /\ UNCHANGED <<phase, calls, chan, cur, batch, exit, taken>>
  BY DEF Start, Pause, Unpause, NInv, LInv, IInv, Worked, Busy, bootVars, datVars
<1>2. phase \in {"boot", "up", "stopping"}
  BY <1>1, LanesClosed DEF NInv, LInv
<1>3. CASE phase = "stopping"
  BY <1>1, <1>3, Away
<1>4. CASE phase \in {"boot", "up"}
  <2>1. PICK id \in Ids : id = cur[r]
    BY <1>1, Held1 DEF NInv
  <2>2. PICK s \in {"running", "paused"} : rows' = InState(id, s)
    BY <2>1 DEF Start, Pause, Unpause
  <2>3. PICK p \in {"run", "take", "held"} : pc' = [pc EXCEPT ![r] = p]
    BY DEF Start, Pause, Unpause
  <2>4. rows[id] # NoRow /\ id \notin calls /\ id \notin batch /\ TypeOK
    BY <1>1, <2>1, Held1, Held2 DEF NInv, LInv, IInv
  <2>5. rows'[id].state = s /\ \A k \in Ids : k # id => rows'[k] = rows[k]
    BY <2>2, <2>4, SetStateRows DEF JobState
  <2>6. cur'[r] = id /\ pc'[r] = p /\ \A q \in Runner \ {r} : pc'[q] = pc[q] /\ cur'[q] = cur[q]
    BY <1>1, <2>1, <2>3, <2>4 DEF TypeOK
  <2>7. Beside({id})
    BY <1>1, <2>5 DEF Beside, Sent
  <2>8. Within({id})
    BY <1>1, <2>4, <2>5, <2>6 DEF Within, Placed, Works
  <2>9. Moves(r, {id})
    BY <2>1, <2>6 DEF Moves, Busy
  <2>10. exit' # "stopped"
    BY <1>1, <1>4 DEF NInv, Housed, Ready
  <2> QED BY <1>1, <1>4, <2>7, <2>8, <2>9, <2>10, Placing
<1> QED BY <1>2, <1>3, <1>4

\* A job ends before the shutdown signal: its row is finished.
LEMMA FinishHoused ==
    ASSUME NInv, LInv', NoStrays, NEW r \in Runner, StopJob(r) \/ Finish(r)
    PROVE  Housed'
<1>1. /\ pc[r] \in {"start", "run", "held", "take"} /\ cur[r] # 0
      /\ UNCHANGED <<phase, calls, chan, batch, exit, taken>>
  BY DEF StopJob, Finish, NInv, LInv, IInv, Worked, Busy, bootVars, datVars
<1>2. phase \in {"boot", "up", "stopping"}
  BY <1>1, LanesClosed DEF NInv, LInv
<1>3. CASE phase = "stopping"
  BY <1>1, <1>3, Away
<1>4. CASE phase \in {"boot", "up"}
  <2>1. PICK id \in Ids : id = cur[r]
    BY <1>1, Held1 DEF NInv
  <2>2. PICK s \in {"done", "failed"} : Conclude(r, s)
    BY <1>4 DEF StopJob, Finish, Stopping, Finished
  <2>3. LastState(id, s) /\ Open(id) /\ id \notin batch
    BY <1>1, <2>1, <2>2, Held1, Held2 DEF Conclude, NInv
  <2>4. /\ cur'[r] = 0 /\ (pc'[r] # "gone" \/ r \notin Lanes)
        /\ \A q \in Runner \ {r} : pc'[q] = pc[q] /\ cur'[q] = cur[q]
    <3>1. Onward(r) # "gone" \/ r \notin Lanes
      BY LanesAssumption DEF Onward, Lane
    <3> QED BY <2>2, <3>1 DEF Conclude, Leaves, NInv, LInv, IInv, TypeOK
  <2>5. exit' # "stopped" /\ batch' = batch \ {id}
    BY <1>1, <1>4, <2>3 DEF NInv, Housed, Ready
  <2> QED BY <1>1, <1>4, <2>1, <2>3, <2>4, <2>5, EndHoused
<1> QED BY <1>2, <1>3, <1>4

\* The heavy lane between two jobs, and a batch that is listed, given up or ends.
LEMMA PlaceHoused ==
    ASSUME NInv, LInv', ReadHeavyQueue \/ EndRunNow \/ ListBatch \/ BatchGivesUp \/ BatchEnds
    PROVE  Housed'
<1> USE DEF ReadHeavyQueue, EndRunNow, ListBatch, BatchGivesUp, BatchEnds, bg
<1>1. UNCHANGED <<rows, phase, calls, chan, cur, batch, taken>>
  BY DEF rowVars, bootVars, datVars
<1>2. PICK r \in {"heavy", "background"}, p \in {"drain", "recv", "run", "claim", "release", "settle"} :
         /\ pc' = [pc EXCEPT ![r] = p]
         /\ \/ pc[r] \in {"after", "drain"} /\ exit' = exit
            \/ pc[r] = "take" /\ p \in {"run", "claim"} /\ exit' = exit
            \/ pc[r] = "batch" /\ p \in {"release", "settle"} /\ exit' \in {"run", "done", "failed"}
  BY DEF datVars
<1>3. r \in Runner
  BY DEF Runner, Lane
<1> HIDE DEF ReadHeavyQueue, EndRunNow, ListBatch, BatchGivesUp, BatchEnds
<1>4. phase \in {"boot", "up", "stopping"}
  BY <1>2, <1>3, LanesClosed DEF NInv, LInv
<1>5. CASE phase = "stopping"
  BY <1>1, <1>5, Away
<1>6. CASE phase \in {"boot", "up"}
  <2>1. exit' # "stopped"
    BY <1>2, <1>6 DEF NInv, Housed, Ready
  <2>2. cur[r] # 0 => p \in Busy
    <3>1. pc[r] \in {"after", "drain"} => cur[r] = 0
      BY <1>3, <1>6 DEF NInv, Housed, Idle, Busy
    <3> QED BY <1>2, <3>1 DEF Busy
  <2>3. p # "gone" /\ (pc[r] \in {"gate", "start"} <=> p \in {"gate", "start"})
    BY <1>2
  <2> QED BY <1>1, <1>2, <1>3, <1>6, <2>1, <2>2, <2>3, Steady
<1> QED BY <1>4, <1>5, <1>6

\* A follower that is claimed is on its way to its lane, where it waited.
LEMMA ClaimHoused ==
    ASSUME NInv, LInv', NoStrays, NEW id \in Ids, Claim(id)
    PROVE  Housed'
<1>1. /\ pc["background"] = "claim" /\ id \in cands /\ "background" \in Runner
      /\ UNCHANGED <<phase, calls, chan, cur, exit>>
  BY DEF Claim, bg, bootVars, Runner, Lane
<1>2. /\ rows[id].state = "queued" /\ Batches(rows[id].job) /\ id # cur["background"] /\ TypeOK
      /\ rows[id] # NoRow
  BY <1>1, RowPresent DEF NInv, LInv, IInv, Batched
<1>3. rows' = InState(id, "running") /\ taken' = taken \cup {id} /\ batch' = batch \cup {id}
  BY <1>2 DEF Claim, NoStrays
<1>4. phase \in {"up", "stopping"}
  BY <1>1, LeadOpen DEF Busy, NInv, LInv
<1>5. CASE phase = "stopping"
  BY <1>1, <1>5, Away
<1>6. CASE phase = "up"
  <2>1. /\ rows'[id].job = rows[id].job /\ rows'[id].state = "running"
        /\ \A k \in Ids : k # id => rows'[k] = rows[k]
    BY <1>2, <1>3, SetStateRows DEF JobState
  <2>2. id \in calls \/ Sent(id)
    <3>1. Waits(id)
      BY <1>2, <1>6 DEF NInv, Housed, NothingStranded
    <3>2. \A r \in Runner : cur[r] # id
      BY <1>2, BatchFree DEF NInv, LInv
    <3> QED BY <3>1, <3>2 DEF Waits
  <2>3. /\ pc'["background"] \in {"claim", "run", "batch"} /\ cur["background"] # 0
        /\ \A s \in Runner \ {"background"} : pc'[s] = pc[s] /\ cur'[s] = cur[s]
    BY <1>1, <1>2 DEF Claim, bg, TypeOK, NInv, LInv, IInv, Worked, Busy
  <2>4. Beside({id})
    BY <1>1, <1>3, <2>1 DEF Beside, Sent
  <2>5. Within({id})
    <3>1. id \in calls => LaneOf(rows[id].job) \in Lanes
      BY <1>6 DEF NInv, Housed, Ready
    <3> QED BY <1>1, <1>3, <2>1, <2>2, <3>1 DEF Within, Placed, Works, Sent
  <2>6. Moves("background", {id})
    BY <1>1, <2>3 DEF Moves, Busy
  <2>7. exit' # "stopped"
    BY <1>1, <1>6 DEF NInv, Housed, Ready
  <2> QED BY <1>1, <1>6, <2>4, <2>5, <2>6, <2>7, Placing
<1> QED BY <1>4, <1>5, <1>6

\* The imports of a batch stay its lead's and the batch's.
LEMMA MarkHoused ==
    ASSUME NInv, LInv', NoStrays, BatchPause \/ BatchResume \/ BatchStop
    PROVE  Housed'
<1>1. CASE BatchStop
  BY <1>1, Away DEF BatchStop, Stopping, bootVars
<1>2. CASE BatchPause \/ BatchResume
  <2>1. /\ pc["background"] \in {"batch", "bheld"} /\ "background" \in Runner /\ cur["background"] = lead
        /\ UNCHANGED <<phase, calls, chan, cur, batch, exit, taken>>
    BY <1>2 DEF BatchPause, BatchResume, bg, lead, bootVars, datVars, Runner, Lane
  <2>2. lead \in Ids /\ lead # 0 /\ Open(lead) /\ lead \notin calls /\ lead \notin batch
        /\ \A k \in batch : k \in Ids /\ Open(k)
    <3>1. lead # 0 /\ lead \in Ids /\ Open(lead) /\ \A k \in batch : k \in Ids /\ Open(k)
      BY <2>1, LeadOpen DEF Busy, NInv, LInv
    <3> QED BY <2>1, <3>1, Held2
  <2>3. phase \in {"up", "stopping"}
    BY <2>1, LeadOpen DEF Busy, NInv, LInv
  <2>4. CASE phase = "stopping"
    BY <2>1, <2>4, Away
  <2>5. CASE phase = "up"
    <3>1. PICK S \in SUBSET Ids : S = batch \cup {lead}
      BY <2>2
    <3>2. PICK s \in {"running", "paused"}, p \in {"batch", "bheld"} :
             rows' = Marked(S, s) /\ pc' = [pc EXCEPT !["background"] = p]
      BY <1>2, <3>1 DEF BatchPause, BatchResume, bg, Written, NoStrays
    <3>3. TypeOK
      BY DEF NInv, LInv, IInv
    <3>4. \A k \in S : rows[k] # NoRow
      BY <2>2, <3>1, <3>3, RowPresent
    <3>5. s \in JobState
      BY DEF JobState
    <3>6. /\ \A k \in S : rows'[k].job = rows[k].job /\ rows'[k].state = s
          /\ \A k \in Ids \ S : rows'[k] = rows[k]
      BY <3>2, <3>3, <3>4, <3>5, MarkedRows
    <3>7. /\ pc'["background"] = p /\ cur'["background"] = lead
          /\ \A q \in Runner \ {"background"} : pc'[q] = pc[q] /\ cur'[q] = cur[q]
      BY <2>1, <3>2, <3>3 DEF TypeOK
    <3>8. Beside(S)
      BY <2>1, <3>6 DEF Beside, Sent
    <3>9. Within(S)
      <4>1. ASSUME NEW k \in S
            PROVE  /\ Placed(k)'
                   /\ k \in batch' => k \in calls' \/ Sent(k)'
                   /\ k \in calls' => LaneOf(rows'[k].job) \in Lanes
        <5>1. k \in batch \/ k = lead
          BY <3>1
        <5>2. Placed(k)'
          BY <2>1, <3>6, <3>7, <5>1 DEF Placed, Works
        <5>3. k \in batch' => k \in calls' \/ Sent(k)'
          BY <2>1, <2>5 DEF NInv, Housed, Ready, Sent
        <5>4. k \in calls' => LaneOf(rows'[k].job) \in Lanes
          BY <2>1, <2>5, <3>6 DEF NInv, Housed, Ready
        <5> QED BY <5>2, <5>3, <5>4
      <4> QED BY <4>1 DEF Within
    <3>10. Moves("background", S)
      BY <2>1, <3>7 DEF Moves, Busy
    <3>11. exit' # "stopped"
      BY <2>1, <2>5 DEF NInv, Housed, Ready
    <3> QED BY <2>1, <2>5, <3>8, <3>9, <3>10, <3>11, Placing
  <2> QED BY <2>3, <2>4, <2>5
<1> QED BY <1>1, <1>2

\* A follower fails, gets its own result, or is its lane's again, to which it is on its way.
LEMMA SettleHoused ==
    ASSUME NInv, LInv', NoStrays, NEW id \in Ids, BatchDirty(id) \/ Settle(id) \/ Release(id)
    PROVE  Housed'
<1>1. /\ pc["background"] \in Busy /\ "background" \in Runner /\ id \in batch /\ batch' = batch \ {id}
      /\ UNCHANGED <<phase, calls, chan, pc, cur, exit>>
  BY DEF BatchDirty, Settle, Release, bg, Busy, bootVars, laneVars, Runner, Lane
<1>2. phase \in {"up", "stopping"} /\ Open(id) /\ TypeOK
  BY <1>1, LeadOpen DEF NInv, LInv, IInv
<1>3. CASE phase = "stopping"
  BY <1>1, <1>3, Away
<1>4. CASE phase = "up"
  <2>1. exit' # "stopped"
    BY <1>1, <1>4 DEF NInv, Housed, Ready
  <2>2. CASE BatchDirty(id) \/ Settle(id)
    <3>1. (\E s \in {"done", "failed"} : LastState(id, s)) /\ taken' = taken
      BY <2>2 DEF BatchDirty, Settle, Finished
    <3> QED BY <1>1, <1>2, <1>4, <2>1, <3>1, EndHoused
  <2>3. CASE Release(id)
    <3>1. /\ rows' = [rows EXCEPT ![id] = [job |-> @.job, lane |-> bg, state |-> "queued"]]
          /\ taken' = taken \ {id}
      BY <2>3 DEF Release, NoStrays
    <3>2. /\ rows'[id].job = rows[id].job /\ rows'[id].state = "queued"
          /\ \A k \in Ids : k # id => rows'[k] = rows[k]
      BY <1>2, <3>1 DEF TypeOK
    <3>3. /\ id \in calls \/ Sent(id)
          /\ id \in calls => LaneOf(rows[id].job) \in Lanes
      BY <1>1, <1>4 DEF NInv, Housed, Ready
    <3>4. Beside({id})
      BY <1>1, <3>1, <3>2 DEF Beside, Sent
    <3>5. Within({id})
      BY <1>1, <3>1, <3>2, <3>3 DEF Within, Placed, Waits, Sent
    <3> QED BY <1>1, <1>4, <2>1, <3>4, <3>5, InlineIdle, Placing
  <2> QED BY <2>2, <2>3
<1> QED BY <1>2, <1>3, <1>4

\* A batch is over: its lead goes on alone, or has run.
LEMMA OverHoused ==
    ASSUME NInv, LInv', NoStrays, BatchOver
    PROVE  Housed'
<1>1. /\ pc["background"] \in {"settle", "release"} /\ "background" \in Runner /\ batch = {}
      /\ exit' = "run" /\ UNCHANGED <<phase, calls, chan, batch, taken>>
  BY DEF BatchOver, bg, bootVars, Runner, Lane
<1>2. phase \in {"up", "stopping"} /\ TypeOK /\ lead = cur["background"]
  BY <1>1, LeadOpen DEF Busy, NInv, LInv, IInv, lead, bg
<1>3. CASE phase = "stopping"
  BY <1>1, <1>3, Away
<1>4. CASE phase = "up"
  <2>1. CASE exit = "run"
    <3>1. pc' = [pc EXCEPT !["background"] = "run"] /\ UNCHANGED <<rows, cur>>
      BY <2>1 DEF BatchOver, bg
    <3>2. "run" \in Busy
      BY DEF Busy
    <3> QED BY <1>1, <1>4, <3>1, <3>2, Steady
  <2>2. CASE exit # "run"
    <3>1. exit \in {"done", "failed"}
      BY <1>2, <1>4, <2>2 DEF NInv, Housed, Ready, TypeOK
    <3>2. PICK s \in {"done", "failed"} : Conclude("background", s)
      BY <3>1 DEF BatchOver, bg
    <3>3. PICK id \in Ids : id = cur["background"] /\ Open(id)
      BY <1>1, LeadOpen DEF Busy, NInv, LInv, lead, bg
    <3>4. LastState(id, s) /\ Open(id)
      BY <3>2, <3>3 DEF Conclude
    <3>5. /\ cur'["background"] = 0 /\ pc'["background"] # "gone"
          /\ \A q \in Runner \ {"background"} : pc'[q] = pc[q] /\ cur'[q] = cur[q]
      BY <1>1, <1>2, <3>2 DEF Conclude, Leaves, Onward, TypeOK
    <3>6. batch' = batch \ {id}
      BY <1>1
    <3> QED BY <1>1, <1>4, <3>3, <3>4, <3>5, <3>6, EndHoused
  <2> QED BY <2>1, <2>2
<1> QED BY <1>2, <1>3, <1>4

-----------------------------------------------------------------------------
\* At first there are no rows.
LEMMA InitN == ASSUME Init PROVE NInv
BY InitL DEF Init, NInv, Housed, Idle, Ready, Sending, NothingStranded

\* Every step leaves a row where its job is.
LEMMA NextN == ASSUME NInv, NoStrays, [Next]_vars PROVE NInv'
<1>1. LInv'
  BY NextL DEF NInv
<1> SUFFICES Housed'
  BY <1>1 DEF NInv
<1>2. CASE UNCHANGED vars
  BY <1>2, QuietHoused
<1>3. CASE Boot \/ Reconciled \/ RunInline \/ OpenLanes \/ BeginShutdown \/ Stop \/ Crash
  BY <1>1, <1>3, PhaseHoused, InlineHoused, QuietHoused
<1>4. ASSUME NEW id \in Ids, \/ Reconcile(id) \/ Dispatch(id) \/ Leave(id) \/ Cancel(id)
                             \/ BatchDirty(id)
      PROVE  Housed'
  <2>1. ~Leave(id)
    BY DEF Leave, NoStrays
  <2> QED BY <1>1, <1>4, <2>1, ReconcileHoused, DispatchHoused, QuietHoused, SettleHoused
<1>5. ASSUME NEW j \in Jobs, Request(j) PROVE Housed'
  BY <1>1, <1>5, RequestHoused
<1>6. ASSUME NEW c \in CoreNames, SetCorename(c) PROVE Housed'
  BY <1>6, QuietHoused
<1>7. ASSUME NEW m \in {"paused", "running"}, SetOverride(m) PROVE Housed'
  BY <1>7, QuietHoused
<1>8. ASSUME NEW l \in Lane, LaneStep(l) \/ Abort(l) PROVE Housed'
  BY <1>1, <1>8, LaneHoused
<1>9. ASSUME NEW r \in Runner, JobStep(r) \/ StartFails(r) \/ Pause(r) \/ UnpauseFails(r) \/ Finish(r)
      PROVE  Housed'
  <2>1. ~StartFails(r) /\ ~UnpauseFails(r)
    BY DEF StartFails, UnpauseFails, NoStrays
  <2> QED BY <1>1, <1>9, <2>1, WorkHoused, FinishHoused DEF JobStep
<1>10. CASE ReadHeavyQueue \/ EndRunNow
  BY <1>1, <1>10, PlaceHoused
<1>11. CASE DatStep \/ BatchPause \/ BatchMarkFails
  <2>1. ~BatchMarkFails
    BY DEF BatchMarkFails, NoStrays
  <2> QED BY <1>1, <1>11, <2>1, PlaceHoused, ClaimHoused, MarkHoused, SettleHoused, OverHoused
          DEF DatStep
<1> QED BY <1>2, <1>3, <1>4, <1>5, <1>6, <1>7, <1>8, <1>9, <1>10, <1>11 DEF Next

\* While the process runs no row is stranded, as long as no caller of `enqueue` is dropped
\* between its insert and its dispatch and no write of a row fails: batches that claim and
\* give back, cancels, pauses, aborts, crashes and starts leave each queued row on its way
\* and each running one in hand, whatever the jobs and the bounds.
THEOREM NothingIsStranded == NoStrays /\ Spec => []NothingStranded
<1>1. Init => NInv
  BY InitN
<1>2. NoStrays /\ NInv /\ [Next]_vars => NInv'
  BY NextN
<1>3. NInv => NothingStranded
  BY DEF NInv, Housed
<1>4. NoStrays => []NoStrays
  OBVIOUS
<1> QED BY <1>1, <1>2, <1>3, <1>4, PTL DEF Spec
=============================================================================
