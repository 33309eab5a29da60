----------------------------- MODULE CoreLimits -----------------------------
(***************************************************************************)
(* How the download client is held while a core runs:                      *)
(* jobs/watch/core_limits.rs, freeze.rs, client.rs, jobs/detect_client.rs.  *)
(*                                                                         *)
(* One task follows the gate.  Each of its passes moves the client towards  *)
(* what the gate wants: a client on the board is stopped with a signal, one *)
(* elsewhere has its limits lowered and its uploads held.  The client's own *)
(* limits are stored before they are changed and put back later, through    *)
(* the same handle or, for a client no longer in use, through its address.  *)
(*                                                                         *)
(* A step is one call to the client, one write to the database, one file    *)
(* operation or signal, so the gate, the settings, detection, a restart of  *)
(* the client and a kill of mistarr fall between any two of them.  A        *)
(* signal is sent by a thread that goes on when the task is dropped.        *)
(*                                                                         *)
(* A rate is a number, 0 a held direction and NoRate a limit that is off.   *)
(* Waits are not modelled: a retry, a check of a held client and a try at   *)
(* a previous client may come at any time.                                  *)
(***************************************************************************)
EXTENDS Naturals, Sequences, FiniteSets

CONSTANTS
    Addresses,  \* where a client may be detected
    Clients,    \* the daemons behind them
    NoRate,     \* above every rate: the limit is off
    None,       \* no rate, address, record or process
    Cases       \* the settings, clients and disturbances to look at

Held  == 0
Rates == 0..NoRate
Dirs  == {"down", "up"}
Slots == Dirs \cup {"alt"}
Order == <<"down", "up", "alt">>

OwnLimits == [Slots -> Rates \cup {None}]
Procs     == [client : Clients, gen : Nat]
Records   == [at : Addresses, own : OwnLimits]

\* What may come in between, and is bounded by the budget: a call that fails, a write to the
\* database or a signal that fails, a client that cannot be stopped, ...
Events == {"core", "pause", "detect", "fail", "db", "signal", "refuse", "restart", "resume",
           "day", "crash", "stop"}

ASSUME LimitsAssumption ==
    /\ NoRate \in Nat \ {0}
    /\ None \notin Rates /\ None \notin Addresses /\ None \notin Procs /\ None \notin Records
    /\ None \notin OwnLimits
    /\ Cases \subseteq [client : [Addresses -> Clients], local : SUBSET Addresses,
                        first : Addresses, own : [Clients -> OwnLimits],
                        core : [Dirs -> Rates \cup {None}], menu : [Dirs -> Rates \cup {None}],
                        pausing : BOOLEAN, budget : [Events -> Nat]]

VARIABLES
    given,     \* the case
    budget,    \* what may still come in between
    core,      \* whether a core runs
    pause,     \* the setting transfer.pause_client_while_playing
    wake,      \* what wakes the task: "gate" changed since its last look, "notify"
    turned,    \* whether the gate changed since the tries at previous clients began
    entry,     \* the address of the handle in use
    probe,     \* the address a running detection has found
    hold,      \* app.client.hold: "none", "uploads" or "frozen"
    rate,      \* the limits in force in each client
    proc,      \* its process: [gen, stopped]
    record,    \* the file client.frozen
    saved,     \* client.saved_limits
    previous,  \* client.previous_limits, by address
    kept,      \* whether a detection is kept in client.deferred
    due,       \* addresses whose previous limits are due for a try
    late,      \* addresses set aside a day ago
    dropped,   \* history: addresses whose limits were given up
    mem,       \* Applied: what the task believes it has done
    pass,      \* where the pass is, and its locals
    stopper,   \* the thread that sends a stop
    up         \* "up", "stopping", "joined", "stopped" or "dead"

settings == <<given, core, pause>>
handle   == <<entry, probe>>
client   == <<rate, proc>>
store    == <<saved, previous, kept>>
times    == <<due, late, dropped>>
server   == <<wake, turned, hold, mem, pass, stopper, up>>
vars     == <<settings, budget, handle, client, record, store, times, server>>

-----------------------------------------------------------------------------
(* Limits. *)

NoLimits == [s \in Slots |-> None]

\* The limits for the menu, or a running core with or without held uploads.
Target(playing, holding) ==
    [s \in Slots |->
        IF playing /\ holding /\ s # "down" THEN Held
        ELSE IF s = "alt" THEN None
        ELSE IF playing THEN given.core[s] ELSE given.menu[s]]

\* [limits] only lowers an own limit that is in force.
Lowered(want, own) ==
    IF want = Held \/ own \in {Held, NoRate} THEN want
    ELSE IF want < own THEN want ELSE own

\* The limits the gate leaves a client with: its own, lowered to what is wanted.
Applied(want, own) ==
    [s \in Slots |-> IF want[s] = None \/ own[s] = None THEN own[s] ELSE Lowered(want[s], own[s])]

ClientAt(a) == given.client[a]
Current(c)  == [client |-> c, gen |-> proc[c].gen]
Alive(p)    == p.gen = proc[p.client].gen

\* The first slot, in the order the task goes through them, that Needs.
First(Needs(_)) == Order[CHOOSE i \in 1..3 : Needs(Order[i]) /\ \A j \in 1..(i - 1) : ~Needs(Order[j])]
Any(Needs(_))   == \E s \in Slots : Needs(s)

-----------------------------------------------------------------------------
(* The task and its passes. *)

NotLoaded ==
    [loaded |-> FALSE, client |-> None, have |-> NoLimits, altRead |-> FALSE, saved |-> None,
     previous |-> [a \in Addresses |-> None], frozen |-> None, refused |-> None]

Idle ==
    [at |-> "wait", ok |-> TRUE, playing |-> FALSE, holding |-> FALSE, id |-> None,
     goal |-> "none", want |-> NoLimits, own |-> NoLimits, read |-> FALSE,
     todo |-> {}, gone |-> {}, then |-> "none", before |-> "none"]

NoStopper == [st |-> "idle", kind |-> "none", proc |-> None, res |-> "none"]

Running  == up \in {"up", "stopping"}
Gate(at) == Running /\ pass.at = at

\* A pass that is through, well or with a step to retry; the tries that are due come next.
Through(ok) == pass' = [Idle EXCEPT !.at = "rest", !.ok = ok]
Goto(at)    == pass' = [pass EXCEPT !.at = at]

Forgetting(m) == [m EXCEPT !.have = NoLimits, !.altRead = FALSE]
Holding       == mem.frozen # None \/ mem.have["up"] = Held

Spend(e) == budget[e] > 0 /\ budget' = [budget EXCEPT ![e] = @ - 1]

\* A write to the database that fails ends the pass and leaves the rest as it is.
WriteFails(at) ==
    /\ Gate(at) /\ Spend("db") /\ Through(FALSE)
    /\ UNCHANGED <<settings, handle, client, record, store, times, wake, turned, hold, mem, stopper, up>>

\* What a write of the task leaves alone.
Writes == UNCHANGED <<settings, budget, handle, client, record, kept, wake, turned, hold, stopper, up>>

Entries(prev) == {a \in Addresses : prev[a] # None}

\* Mutant: nothing wakes the task for limits that were set aside.
WakeNotDue ==
    /\ Gate("wait") /\ (wake # {} \/ ~pass.ok)
    /\ wake' = {} \/ ("gate" \in wake /\ wake' = wake \ {"gate"})
    /\ pass' = [Idle EXCEPT !.at = IF mem.loaded THEN "hold" ELSE "load"]
    /\ UNCHANGED <<settings, budget, handle, client, record, store, times, turned, hold, mem, stopper, up>>

Wake ==
    /\ Gate("wait")
    /\ wake # {} \/ ~pass.ok \/ (hold # "frozen" /\ due \cap Entries(mem.previous) # {})
    /\ wake' = {} \/ ("gate" \in wake /\ wake' = wake \ {"gate"})
    /\ pass' = [Idle EXCEPT !.at = IF mem.loaded THEN "hold" ELSE "load"]
    /\ UNCHANGED <<settings, budget, handle, client, record, store, times, turned, hold, mem, stopper, up>>

Recheck ==
    /\ Gate("wait") /\ Holding
    /\ wake' = wake \ {"gate"}
    /\ pass' = [Idle EXCEPT !.at = "recheck"]
    /\ UNCHANGED <<settings, budget, handle, client, record, store, times, turned, hold, mem, stopper, up>>

Load ==
    /\ Gate("load")
    /\ \/ /\ mem' = [NotLoaded EXCEPT !.loaded = TRUE, !.saved = saved, !.previous = previous,
                                      !.frozen = record]
          /\ Goto("hold") /\ UNCHANGED budget
       \/ Spend("db") /\ pass' = [Idle EXCEPT !.ok = FALSE] /\ UNCHANGED mem
    /\ UNCHANGED <<settings, handle, client, record, store, times, wake, turned, hold, stopper, up>>

\* Reads the gate and the setting; a frozen client stays or is thawed first.
Hold ==
    /\ Gate("hold")
    /\ LET holding == core /\ pause IN
       /\ mem' = [mem EXCEPT !.refused = IF core THEN @ ELSE None]
       /\ IF mem.frozen # None /\ holding THEN Through(TRUE)
          ELSE pass' = [pass EXCEPT !.at = IF mem.frozen # None THEN "thaw" ELSE "choose",
                                    !.playing = core, !.holding = holding]
    /\ UNCHANGED <<settings, budget, handle, client, record, store, times, wake, turned, hold, stopper, up>>

\* Looks at the handle in use: no client, one to stop, or one to limit.
Choose ==
    /\ Gate("choose")
    /\ IF entry = None
       THEN /\ IF mem.saved = None THEN Through(TRUE)
               ELSE pass' = [pass EXCEPT !.at = "aside", !.then = "rest"]
            /\ UNCHANGED mem
       ELSE LET stops == pass.holding /\ entry \in given.local /\ mem.refused # entry IN
            /\ mem' = IF mem.client = entry THEN mem ELSE [Forgetting(mem) EXCEPT !.client = entry]
            /\ pass' = [pass EXCEPT !.at = "apply", !.id = entry,
                                    !.goal = IF stops THEN "freeze" ELSE "limits",
                                    !.want = IF stops THEN Target(FALSE, FALSE)
                                             ELSE Target(pass.playing, pass.holding)]
    /\ UNCHANGED <<settings, budget, handle, client, record, store, times, wake, turned, hold, stopper, up>>

-----------------------------------------------------------------------------
(* Records of own limits. *)

\* set_aside: the record of another client goes to the list, then leaves its place.
SetAside ==
    /\ Gate("aside")
    /\ LET old == mem.saved IN
       /\ previous' = [mem.previous EXCEPT ![old.at] = old.own]
       /\ mem' = [mem EXCEPT !.previous = previous']
       /\ due' = due \cup {old.at} /\ late' = late \ {old.at}
    /\ Goto("clear") /\ UNCHANGED <<saved, dropped>> /\ Writes

ClearSaved ==
    /\ Gate("clear")
    /\ saved' = None /\ mem' = [mem EXCEPT !.saved = None]
    /\ IF pass.then = "rest" THEN Through(TRUE) ELSE Goto("apply")
    /\ UNCHANGED <<previous, times>> /\ Writes

\* take_back: the limits set aside for this client become its record again.
TakeBack ==
    /\ Gate("takeback")
    /\ saved' = [at |-> pass.id, own |-> mem.previous[pass.id]]
    /\ mem' = [mem EXCEPT !.saved = saved']
    /\ Goto("unlist") /\ UNCHANGED <<previous, times>> /\ Writes

Unlist ==
    /\ Gate("unlist")
    /\ previous' = [mem.previous EXCEPT ![pass.id] = None]
    /\ mem' = [mem EXCEPT !.previous = previous']
    /\ Goto("apply") /\ UNCHANGED <<saved, times>> /\ Writes

\* The tries begin: they watch the gate from here.
Trying(todo, then) ==
    /\ pass' = [pass EXCEPT !.at = "restore", !.todo = todo, !.then = then]
    /\ turned' = FALSE

\* restore_saved, one address after the other: sets each limit in the client behind it.
PutBack(c, own, slots) == [rate EXCEPT ![c] = [s \in Slots |-> IF s \in slots THEN own[s] ELSE @[s]]]
Stored(own) == {s \in Slots : own[s] # None}
Begun(own) == {slots \in SUBSET Stored(own) :
                 \A i, j \in 1..3 : i < j /\ Order[j] \in slots /\ Order[i] \in Stored(own) => Order[i] \in slots}

RestoreOne(a) ==
    /\ Gate("restore") /\ a \in pass.todo
    /\ LET own == mem.previous[a]
           c   == ClientAt(a)
       IN  \/ /\ rate' = PutBack(c, own, Stored(own))
              /\ pass' = [pass EXCEPT !.todo = @ \ {a}, !.gone = @ \cup {a}]
              /\ UNCHANGED <<budget, due, dropped>>
           \/ /\ Spend("fail") /\ \E slots \in Begun(own) : rate' = PutBack(c, own, slots)
              /\ pass' = [pass EXCEPT !.todo = @ \ {a}, !.gone = IF a \in late THEN @ \cup {a} ELSE @]
              /\ due' = due \ {a}
              /\ dropped' = IF a \in late THEN dropped \cup {a} ELSE dropped
           \/ /\ turned /\ \E slots \in Begun(own) : rate' = PutBack(c, own, slots)
              /\ pass' = [pass EXCEPT !.todo = {}]
              /\ UNCHANGED <<budget, due, dropped>>
    /\ UNCHANGED <<settings, handle, proc, record, store, late, wake, turned, hold, mem, stopper, up>>

\* The list is written without what came back; a write that fails is only logged.
RestoreEnd ==
    /\ Gate("restore") /\ pass.todo = {}
    /\ LET left == [a \in Addresses |-> IF a \in pass.gone THEN None ELSE mem.previous[a]] IN
       /\ mem' = [mem EXCEPT !.previous = left]
       /\ \/ previous' = left /\ UNCHANGED budget
          \/ Spend("db") /\ UNCHANGED previous
    /\ pass' = [pass EXCEPT !.at = pass.then, !.gone = {}, !.then = "none"]
    /\ UNCHANGED <<settings, handle, client, record, saved, kept, times, wake, turned, hold, stopper, up>>

-----------------------------------------------------------------------------
(* Limits in the client. *)

\* Which record the limits go with: another client's is set aside, one set aside for this
\* client is taken back, and before anything is read the same daemon gets its own back.
Apply ==
    /\ Gate("apply")
    /\ LET own    == IF mem.saved = None THEN NoLimits ELSE mem.saved.own
           reads  == \E d \in Dirs : pass.want[d] # None /\ own[d] = None
           next   == [pass EXCEPT !.own = own, !.read = FALSE]
       IN  IF mem.saved # None /\ mem.saved.at # pass.id
           THEN pass' = [pass EXCEPT !.at = "aside", !.then = "apply"] /\ UNCHANGED turned
           ELSE IF mem.saved = None /\ mem.previous[pass.id] # None
           THEN Goto("takeback") /\ UNCHANGED turned
           ELSE IF reads /\ Entries(mem.previous) # {}
           THEN /\ pass' = [next EXCEPT !.at = "restore", !.then = "read", !.todo = Entries(mem.previous)]
                /\ turned' = FALSE
           ELSE pass' = [next EXCEPT !.at = "read"] /\ UNCHANGED turned
    /\ UNCHANGED <<settings, budget, handle, client, record, store, times, wake, hold, mem, stopper, up>>

\* A call to the client in use fails: no answer to it comes.
CallFails == Spend("fail") /\ Through(FALSE)

Unread(s) == /\ pass.want[s] # None /\ pass.own[s] = None
             /\ s = "alt" => ~mem.altRead

ReadOwn ==
    /\ Gate("read") /\ Any(Unread)
    /\ LET s == First(Unread)
           c == ClientAt(pass.id)
       IN  \/ /\ pass' = [pass EXCEPT !.own[s] = rate[c][s], !.read = @ \/ rate[c][s] # None]
              /\ mem' = [mem EXCEPT !.altRead = @ \/ s = "alt"]
              /\ UNCHANGED budget
           \/ /\ s # "alt" /\ CallFails /\ UNCHANGED mem
           \/ /\ s = "alt" /\ Spend("fail")
              /\ mem' = [mem EXCEPT !.altRead = TRUE] /\ UNCHANGED pass
    /\ UNCHANGED <<settings, handle, client, record, store, times, wake, turned, hold, stopper, up>>

\* Mutant: own limits are kept in memory and stored with the next change.
PersistLate ==
    /\ Gate("read") /\ ~Any(Unread)
    /\ mem' = IF pass.read THEN [mem EXCEPT !.saved = [at |-> pass.id, own |-> pass.own]] ELSE mem
    /\ Goto("set") /\ UNCHANGED <<saved, previous, times>> /\ Writes

\* Own limits are stored before the first of them is changed.
Persist ==
    /\ Gate("read") /\ ~Any(Unread)
    /\ IF pass.read
       THEN /\ saved' = [at |-> pass.id, own |-> pass.own]
            /\ mem' = [mem EXCEPT !.saved = saved']
       ELSE UNCHANGED <<saved, mem>>
    /\ Goto("set") /\ UNCHANGED <<previous, times>> /\ Writes

PersistFails == pass.read /\ ~Any(Unread) /\ WriteFails("read")

Wanted(s) == IF pass.want[s] = None \/ pass.own[s] = None THEN None ELSE Lowered(pass.want[s], pass.own[s])
Unset(s)  == Wanted(s) # mem.have[s] /\ Wanted(s) # None
Unrestored(s) == pass.want[s] = None /\ pass.own[s] # None
Unsettled(s) == Unset(s) \/ Unrestored(s)

SetLimit ==
    /\ Gate("set") /\ Any(Unsettled)
    /\ LET s    == First(Unsettled)
           c    == ClientAt(pass.id)
           sets == [rate EXCEPT ![c][s] = IF Unset(s) THEN Wanted(s) ELSE pass.own[s]]
       IN  \/ /\ rate' = sets
              /\ mem' = [mem EXCEPT !.have[s] = Wanted(s),
                                    !.altRead = @ /\ ~(s = "alt" /\ Unrestored(s))]
              /\ pass' = IF Unset(s) THEN pass ELSE [pass EXCEPT !.own[s] = None, !.at = "keep"]
              /\ UNCHANGED budget
           \/ /\ CallFails /\ rate' \in {rate, sets} /\ UNCHANGED mem
    /\ UNCHANGED <<settings, handle, proc, record, store, times, wake, turned, hold, stopper, up>>

\* keep: what is still saved is stored, or the record dropped.
KeepSaved ==
    /\ Gate("keep")
    /\ saved' = IF Stored(pass.own) = {} THEN None ELSE [at |-> pass.id, own |-> pass.own]
    /\ mem' = [mem EXCEPT !.saved = saved']
    /\ Goto("set") /\ UNCHANGED <<previous, times>> /\ Writes

LimitsSet ==
    /\ Gate("set") /\ ~Any(Unsettled)
    /\ IF pass.goal = "freeze" THEN Goto("freeze") ELSE Through(TRUE)
    /\ UNCHANGED <<settings, budget, handle, client, record, store, times, wake, turned, hold, mem, stopper, up>>

-----------------------------------------------------------------------------
(* Stopping and resuming the process. *)

\* A client that cannot be stopped has its uploads held until the menu.
Refuse ==
    /\ mem' = [mem EXCEPT !.refused = pass.id]
    /\ pass' = [pass EXCEPT !.at = "apply", !.goal = "limits", !.want = Target(TRUE, TRUE), !.before = "none"]

\* The pid is found; the hold is published first, so nothing new is sent to the client.
FindProcess ==
    /\ Gate("freeze")
    /\ LET p == Current(ClientAt(pass.id)) IN
       \/ /\ stopper' = [st |-> "queued", kind |-> "freeze", proc |-> p, res |-> "none"]
          /\ hold' = "frozen"
          /\ pass' = [pass EXCEPT !.at = "freezing", !.before = hold]
          /\ UNCHANGED <<budget, mem>>
       \/ Spend("refuse") /\ Refuse /\ UNCHANGED <<stopper, hold>>
       \/ CallFails /\ UNCHANGED <<stopper, hold, mem>>
    /\ UNCHANGED <<settings, handle, client, record, store, times, wake, turned, up>>

Done(res) == stopper' = [stopper EXCEPT !.st = "done", !.res = res]
Signal(p, stop) == proc' = [proc EXCEPT ![p.client].stopped = stop]

\* Mutant: a thread that got the lock does not look whether mistarr stops.
StartUnasked ==
    /\ stopper.st = "queued"
    /\ LET p == stopper.proc IN
       IF ~Alive(p) THEN Done("gone") /\ UNCHANGED <<proc, record>>
       ELSE IF stopper.kind = "freeze"
       THEN record' = p /\ stopper' = [stopper EXCEPT !.st = "recorded"] /\ UNCHANGED proc
       ELSE Signal(p, TRUE) /\ Done("ok") /\ UNCHANGED record
    /\ UNCHANGED <<settings, budget, handle, rate, store, times, wake, turned, hold, mem, pass, up>>

\* Under the lock of signals: none starts once mistarr shuts down.
StopperStart ==
    /\ stopper.st = "queued"
    /\ LET p == stopper.proc IN
       IF up \in {"stopping", "joined", "stopped"} THEN Done("shutdown") /\ UNCHANGED <<proc, record, budget>>
       ELSE IF ~Alive(p) THEN Done("gone") /\ UNCHANGED <<proc, record, budget>>
       ELSE IF stopper.kind = "freeze"
       THEN \/ record' = p /\ stopper' = [stopper EXCEPT !.st = "recorded"] /\ UNCHANGED <<proc, budget>>
            \/ Spend("refuse") /\ Done("gone") /\ UNCHANGED <<proc, record>>
       ELSE \/ Signal(p, TRUE) /\ Done("ok") /\ UNCHANGED <<record, budget>>
            \/ Spend("signal") /\ Done("kill") /\ UNCHANGED <<proc, record>>
    /\ UNCHANGED <<settings, handle, rate, store, times, wake, turned, hold, mem, pass, up>>

\* freeze: the record comes first; a signal that fails takes it away again.
StopperSignal ==
    /\ stopper.st = "recorded"
    /\ \/ /\ Alive(stopper.proc) /\ Signal(stopper.proc, TRUE)
          /\ Done("ok") /\ UNCHANGED <<record, budget>>
       \/ /\ IF Alive(stopper.proc) THEN Spend("signal") ELSE UNCHANGED budget
          /\ record' = None /\ Done("kill") /\ UNCHANGED proc
    /\ UNCHANGED <<settings, handle, rate, store, times, wake, turned, hold, mem, pass, up>>

\* Mutant: any end of the thread brings back the hold of before.
FreezingForgets ==
    /\ Gate("freezing") /\ stopper.st = "done"
    /\ stopper' = NoStopper /\ hold' = pass.before
    /\ IF stopper.res = "ok" THEN mem' = [mem EXCEPT !.frozen = stopper.proc] /\ Through(TRUE)
       ELSE Through(FALSE) /\ UNCHANGED mem
    /\ UNCHANGED <<settings, budget, handle, client, record, store, times, wake, turned, up>>

Freezing ==
    /\ Gate("freezing") /\ stopper.st = "done"
    /\ stopper' = NoStopper
    /\ CASE stopper.res = "ok" -> /\ mem' = [mem EXCEPT !.frozen = stopper.proc]
                                  /\ Through(TRUE) /\ UNCHANGED hold
         [] stopper.res = "gone" -> Refuse /\ hold' = pass.before
         [] OTHER -> Through(FALSE) /\ hold' = pass.before /\ UNCHANGED mem
    /\ UNCHANGED <<settings, budget, handle, client, record, store, times, wake, turned, up>>

\* Detection is kept for later, unless that write fails, and wakes the task.
Defer ==
    \/ kept' = TRUE /\ wake' = (IF kept THEN wake ELSE wake \cup {"notify"}) /\ UNCHANGED budget
    \/ Spend("db") /\ UNCHANGED <<kept, wake>>

Thaw ==
    /\ Gate("thaw")
    /\ \/ Alive(mem.frozen) /\ Signal(mem.frozen, FALSE) /\ Goto("thawed") /\ UNCHANGED <<kept, wake, budget>>
       \/ Alive(mem.frozen) /\ Spend("signal") /\ Through(FALSE) /\ UNCHANGED <<proc, kept, wake>>
       \/ ~Alive(mem.frozen) /\ Defer /\ Goto("thawed") /\ UNCHANGED proc
    /\ UNCHANGED <<settings, handle, rate, record, saved, previous, times, turned, hold, mem, stopper, up>>

Thawed ==
    /\ Gate("thawed")
    /\ record' = None /\ mem' = [mem EXCEPT !.frozen = None] /\ hold' = "none"
    /\ Goto("choose")
    /\ UNCHANGED <<settings, budget, handle, client, store, times, wake, turned, stopper, up>>

LetGo ==
    /\ Defer
    /\ record' = None /\ mem' = [Forgetting(mem) EXCEPT !.frozen = None] /\ hold' = "none"

\* recheck_hold: a stopped client may be running again or gone, held uploads may have left.
RecheckFrozen ==
    /\ Gate("recheck") /\ mem.frozen # None
    /\ IF ~Alive(mem.frozen) THEN LetGo /\ Goto("hold") /\ UNCHANGED stopper
       ELSE /\ IF proc[mem.frozen.client].stopped THEN Goto("hold") /\ UNCHANGED stopper
               ELSE /\ stopper' = [st |-> "queued", kind |-> "again", proc |-> mem.frozen, res |-> "none"]
                    /\ Goto("again")
            /\ UNCHANGED <<budget, kept, wake, record, mem, hold>>
    /\ UNCHANGED <<settings, handle, client, saved, previous, times, turned, up>>

StoppedAgain ==
    /\ Gate("again") /\ stopper.st = "done"
    /\ stopper' = NoStopper /\ Goto("hold")
    /\ UNCHANGED <<settings, budget, handle, client, record, store, times, wake, turned, hold, mem, up>>

RecheckUploads ==
    /\ Gate("recheck") /\ mem.frozen = None
    /\ LET c == ClientAt(mem.client) IN
       \/ /\ entry = mem.client
          /\ mem' = IF rate[c]["up"] = Held THEN mem ELSE Forgetting(mem)
          /\ UNCHANGED budget
       \/ entry # mem.client /\ UNCHANGED <<mem, budget>>
       \/ entry = mem.client /\ Spend("fail") /\ UNCHANGED mem
    /\ Goto("hold")
    /\ UNCHANGED <<settings, handle, client, record, store, times, wake, turned, hold, stopper, up>>

-----------------------------------------------------------------------------
(* The end of a pass. *)

Rest ==
    /\ Gate("rest")
    /\ LET todo == due \cap Entries(mem.previous) IN
       IF hold # "frozen" /\ todo # {} THEN Trying(todo, "publish")
       ELSE Goto("publish") /\ UNCHANGED turned
    /\ UNCHANGED <<settings, budget, handle, client, record, store, times, wake, hold, mem, stopper, up>>

CurrentHold ==
    IF mem.frozen # None THEN "frozen"
    ELSE IF core /\ pause /\ mem.have["up"] = Held /\ mem.client = entry THEN "uploads"
    ELSE "none"

Publish ==
    /\ Gate("publish")
    /\ hold' = CurrentHold
    /\ pass' = [Idle EXCEPT !.ok = pass.ok, !.at = IF kept /\ hold' # "frozen" THEN "detect" ELSE "wait"]
    /\ UNCHANGED <<settings, budget, handle, client, record, store, times, wake, turned, mem, stopper, up>>

\* replay_deferred runs a kept detection, which finds the client in use or another.
ReplayDetect ==
    /\ Gate("detect") /\ probe = None
    /\ \/ UNCHANGED <<entry, wake, budget>>
       \/ Spend("detect") /\ entry' \in Addresses \ {entry} /\ wake' = wake \cup {"notify"}
    /\ kept' = FALSE
    /\ Goto("wait")
    /\ UNCHANGED <<settings, probe, client, record, saved, previous, times, turned, hold, mem, stopper, up>>

-----------------------------------------------------------------------------
(* What goes on around the task. *)

SetCore ==
    /\ Spend("core") /\ core' = ~core
    /\ wake' = wake \cup {"gate"} /\ turned' = TRUE
    /\ UNCHANGED <<given, pause, handle, client, record, store, times, hold, mem, pass, stopper, up>>

SetPause ==
    /\ up = "up" /\ Spend("pause") /\ pause' = ~pause /\ wake' = wake \cup {"notify"}
    /\ UNCHANGED <<given, core, handle, client, record, store, times, turned, hold, mem, pass, stopper, up>>

\* A detection looks at the hold before it probes; with a stopped client it is kept.
Detect ==
    /\ up = "up" /\ probe = None /\ Spend("detect")
    /\ IF hold = "frozen"
       THEN kept' = TRUE /\ wake' = wake \cup {"notify"} /\ UNCHANGED probe
       ELSE probe' \in Addresses \ {entry} /\ UNCHANGED <<kept, wake>>
    /\ UNCHANGED <<settings, entry, client, record, saved, previous, times, turned, hold, mem, pass, stopper, up>>

Detected ==
    /\ Running /\ probe # None
    /\ entry' = probe /\ probe' = None /\ wake' = wake \cup {"notify"}
    /\ UNCHANGED <<settings, budget, client, record, store, times, turned, hold, mem, pass, stopper, up>>

\* A client that restarts keeps the limits it was given or has its own again.
RestartClient(c) ==
    /\ Spend("restart")
    /\ proc' = [proc EXCEPT ![c] = [gen |-> @.gen + 1, stopped |-> FALSE]]
    /\ \E r \in {rate[c], given.own[c]} : rate' = [rate EXCEPT ![c] = r]
    /\ UNCHANGED <<settings, handle, record, store, times, server>>

ResumeElsewhere(c) ==
    /\ proc[c].stopped /\ Spend("resume")
    /\ proc' = [proc EXCEPT ![c].stopped = FALSE]
    /\ UNCHANGED <<settings, handle, rate, record, store, times, server>>

Tick ==
    /\ Entries(previous) \ due # {}
    /\ due' = due \cup Entries(previous)
    /\ UNCHANGED <<settings, budget, handle, client, record, store, late, dropped, server>>

Day ==
    /\ Entries(previous) # {} /\ Spend("day")
    /\ late' = Entries(previous)
    /\ UNCHANGED <<settings, handle, client, record, store, due, dropped, server>>

-----------------------------------------------------------------------------
(* Start and stop. *)

Volatile == /\ pass' = Idle /\ mem' = NotLoaded /\ probe' = None /\ turned' = FALSE /\ wake' = {}

Crash ==
    /\ Running /\ Spend("crash") /\ up' = "dead"
    /\ Volatile /\ stopper' = NoStopper /\ hold' = "none"
    /\ UNCHANGED <<settings, entry, client, record, store, times>>

Shutdown ==
    /\ up = "up" /\ Spend("stop") /\ up' = "stopping"
    /\ UNCHANGED <<settings, handle, client, record, store, times, wake, turned, hold, mem, pass, stopper>>

\* The task is dropped where it waits; a thread it started goes on.
Join ==
    /\ up = "stopping" /\ up' = "joined" /\ Volatile
    /\ UNCHANGED <<settings, budget, entry, client, record, store, times, hold, stopper>>

\* Resuming a recorded client: one that is gone only loses its record.
Resumed(p) ==
    \/ Alive(p) /\ Signal(p, FALSE) /\ record' = None
    \/ ~Alive(p) /\ record' = None /\ UNCHANGED proc
ResumeFails(p) == Alive(p) /\ Spend("signal") /\ UNCHANGED <<proc, record>>

\* thaw_for_shutdown waits for a stop in flight; one still queued comes after it.
ThawForShutdown ==
    /\ up = "joined" /\ stopper.st # "recorded"
    /\ IF record = None THEN UNCHANGED <<proc, record, budget>> ELSE (Resumed(record) /\ UNCHANGED budget) \/ ResumeFails(record)
    /\ up' = "stopped" /\ hold' = "none"
    /\ UNCHANGED <<settings, handle, rate, store, times, wake, turned, mem, pass, stopper>>

\* The first detection; one that finds nothing leaves no client.
FirstDetection ==
    \/ entry' = (IF entry = None THEN given.first ELSE entry) /\ UNCHANGED budget
    \/ Spend("detect") /\ entry' \in (Addresses \cup {None}) \ {entry}

\* recover_frozen, then detection, which keeps to the stored result while the client is stopped.
Start ==
    /\ up \in {"stopped", "dead"} /\ up' = "up" /\ wake' = {"notify"} /\ stopper' = NoStopper
    /\ IF record = None THEN hold' = "none" /\ FirstDetection /\ UNCHANGED <<proc, record>>
       ELSE IF core /\ pause THEN hold' = "frozen" /\ UNCHANGED <<entry, proc, record, budget>>
       ELSE \/ Resumed(record) /\ hold' = "none" /\ FirstDetection
            \/ ResumeFails(record) /\ hold' = "frozen" /\ UNCHANGED entry
    /\ UNCHANGED <<settings, probe, rate, store, times, turned, mem, pass>>

-----------------------------------------------------------------------------
Init ==
    /\ given \in Cases /\ budget = given.budget
    /\ core \in BOOLEAN /\ pause = given.pausing
    /\ rate = given.own /\ proc = [c \in Clients |-> [gen |-> 0, stopped |-> FALSE]]
    /\ record = None /\ saved = None /\ previous = [a \in Addresses |-> None] /\ kept = FALSE
    /\ due = {} /\ late = {} /\ dropped = {}
    /\ entry = None /\ probe = None /\ hold = "none" /\ wake = {} /\ turned = FALSE
    /\ mem = NotLoaded /\ pass = Idle /\ stopper = NoStopper /\ up = "stopped"

FreezeSteps == FindProcess \/ Freezing \/ Thaw \/ Thawed \/ RecheckFrozen \/ StoppedAgain \/ RecheckUploads
RecordSteps == SetAside \/ ClearSaved \/ TakeBack \/ Unlist \/ RestoreEnd \/ \E a \in Addresses : RestoreOne(a)
LimitSteps  == Apply \/ ReadOwn \/ Persist \/ SetLimit \/ KeepSaved \/ LimitsSet
FailedWrite == PersistFails \/ \E at \in {"aside", "clear", "takeback", "unlist", "keep"} : WriteFails(at)
PassSteps   == Load \/ Hold \/ Choose \/ Rest \/ Publish \/ ReplayDetect
Stopper     == StopperStart \/ StopperSignal
Task        == Wake \/ PassSteps \/ RecordSteps \/ LimitSteps \/ FreezeSteps
Server      == Detected \/ Join \/ ThawForShutdown \/ Start
World ==
    \/ SetCore \/ SetPause \/ Detect \/ Day \/ Crash \/ Shutdown
    \/ \E c \in Clients : RestartClient(c) \/ ResumeElsewhere(c)

Next == Task \/ FailedWrite \/ Recheck \/ Stopper \/ Server \/ Tick \/ World

Spec == Init /\ [][Next]_vars

\* The task runs on, its timers fire, threads end, and a server that is down is started again.
Fairness == WF_vars(Task) /\ WF_vars(Recheck) /\ WF_vars(Stopper) /\ WF_vars(Server) /\ WF_vars(Tick)

FairSpec == Spec /\ Fairness

-----------------------------------------------------------------------------
(* Properties. *)

TypeOK ==
    /\ given \in Cases /\ budget \in [Events -> Nat] /\ core \in BOOLEAN /\ pause \in BOOLEAN
    /\ wake \subseteq {"gate", "notify"} /\ turned \in BOOLEAN
    /\ entry \in Addresses \cup {None} /\ probe \in Addresses \cup {None}
    /\ hold \in {"none", "uploads", "frozen"}
    /\ rate \in [Clients -> OwnLimits] /\ proc \in [Clients -> [gen : Nat, stopped : BOOLEAN]]
    /\ record \in Procs \cup {None} /\ saved \in Records \cup {None} /\ kept \in BOOLEAN
    /\ previous \in [Addresses -> OwnLimits \cup {None}]
    /\ due \subseteq Addresses /\ late \subseteq Addresses /\ dropped \subseteq Addresses
    /\ mem.have \in OwnLimits /\ mem.saved \in Records \cup {None} /\ mem.frozen \in Procs \cup {None}
    /\ pass.own \in OwnLimits /\ pass.todo \subseteq Addresses
    /\ stopper.st \in {"idle", "queued", "recorded", "done"}
    /\ up \in {"up", "stopping", "joined", "stopped", "dead"}

\* A client whose limits differ from its own has them in the database, whatever fails and
\* whenever mistarr is killed, and the database never takes a limit the gate set for its own:
\* neither holds of a client whose limits a day of failed tries gave up.
OwnIn(own, c) == \A s \in Slots : own[s] \in {None, given.own[c][s]}

OwnIsKept ==
    /\ saved # None /\ saved.at \notin dropped => OwnIn(saved.own, ClientAt(saved.at))
    /\ \A a \in Entries(previous) \ dropped : OwnIn(previous[a], ClientAt(a))
    /\ \A c \in Clients, s \in Slots : rate[c][s] # given.own[c][s] =>
         \/ saved # None /\ ClientAt(saved.at) = c /\ saved.own[s] # None
         \/ \E a \in Entries(previous) : ClientAt(a) = c /\ previous[a][s] # None
         \/ \E a \in dropped : ClientAt(a) = c

\* A stopped client has the record that resumes it, also after a kill; the rest of mistarr knows
\* of it and does not call it, and neither does the task.  A clean stop leaves no client
\* stopped, unless a signal to it failed.
Calling == pass.at \in {"read", "set", "restore", "freeze"}

StoppedIsKnown ==
    /\ \A c \in Clients : proc[c].stopped => record = Current(c) /\ (Running => hold = "frozen" /\ ~Calling)
    /\ up = "stopped" /\ given.budget["signal"] = 0 =>
          record = None /\ \A c \in Clients : ~proc[c].stopped

\* While a core stays loaded with the setting on, the client comes to be stopped or to have
\* its uploads held, whatever it refused and however often it was restarted.
Playing    == up = "up" /\ core /\ pause /\ entry # None
Quiet      == hold = "frozen" \/ (entry # None /\ rate[ClientAt(entry)]["up"] = Held)

\* At the menu every client comes to run with its own limits, and the one in use with those
\* lowered to the menu's, unless a day of failed tries gave them up.
AtMenu == up = "up" /\ ~core
Freed ==
    \A c \in Clients :
        /\ ~proc[c].stopped
        /\ \/ \E a \in dropped : ClientAt(a) = c
           \/ rate[c] = IF entry # None /\ ClientAt(entry) = c
                        THEN Applied(Target(FALSE, FALSE), given.own[c]) ELSE given.own[c]
GateIsFollowed == (<>[]Playing => <>[]Quiet) /\ (<>[]AtMenu => <>[]Freed)

\* The limits of the gate never raise a client's own.
NeverRaised == \A c \in Clients, s \in Slots : rate[c][s] # None => rate[c][s] <= given.own[c][s]
=============================================================================
