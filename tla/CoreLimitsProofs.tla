-------------------------- MODULE CoreLimitsProofs --------------------------
(***************************************************************************)
(* What is proved of CoreLimits for every set of addresses, clients and     *)
(* cases: that a stopped client is on record and left alone                 *)
(* (StoppedIsKnown), and, where every address has a client of its own, that *)
(* own limits are kept (OwnIsKept).                                         *)
(*                                                                         *)
(* Frozen says who stopped whom: the record, what the task believes and     *)
(* what a thread still does agree, so that every step that forgets a record *)
(* has a running client.  Covered says where the own limits of a client are *)
(* that has others in force; when its record is the one in use, that record *)
(* has all of them.  Reading and Writing relate it to the locals of a pass. *)
(***************************************************************************)
EXTENDS CoreLimits, TLAPS

Places == {"wait", "load", "hold", "thaw", "thawed", "choose", "apply", "aside", "clear", "takeback",
           "unlist", "restore", "read", "set", "keep", "freeze", "freezing", "recheck", "again",
           "rest", "publish", "detect"}

Applieds == [loaded : BOOLEAN, client : Addresses \cup {None}, have : OwnLimits, altRead : BOOLEAN,
             saved : Records \cup {None}, previous : [Addresses -> OwnLimits \cup {None}],
             frozen : Procs \cup {None}, refused : Addresses \cup {None}]

Passes == [at : Places, ok : BOOLEAN, playing : BOOLEAN, holding : BOOLEAN, id : Addresses \cup {None},
           goal : {"none", "freeze", "limits"}, want : OwnLimits, own : OwnLimits, read : BOOLEAN,
           todo : SUBSET Addresses, gone : SUBSET Addresses,
           then : {"none", "rest", "apply", "read", "publish"}, before : {"none", "uploads", "frozen"}]

Stoppers == [st : {"idle", "queued", "recorded", "done"}, kind : {"none", "freeze", "again"},
             proc : Procs \cup {None}, res : {"none", "ok", "gone", "kill", "shutdown"}]

\* Every variable has its type.
Scalars ==
    /\ given \in Cases /\ budget \in [Events -> Nat] /\ core \in BOOLEAN /\ pause \in BOOLEAN
    /\ wake \subseteq {"gate", "notify"} /\ turned \in BOOLEAN
    /\ entry \in Addresses \cup {None} /\ probe \in Addresses \cup {None}
    /\ hold \in {"none", "uploads", "frozen"}
    /\ rate \in [Clients -> OwnLimits] /\ proc \in [Clients -> [gen : Nat, stopped : BOOLEAN]]
    /\ record \in Procs \cup {None} /\ saved \in Records \cup {None} /\ kept \in BOOLEAN
    /\ previous \in [Addresses -> OwnLimits \cup {None}]
    /\ due \subseteq Addresses /\ late \subseteq Addresses /\ dropped \subseteq Addresses
    /\ up \in {"up", "stopping", "joined", "stopped", "dead"}

Shape == Scalars /\ mem \in Applieds /\ pass \in Passes /\ stopper \in Stoppers

\* Where a pass works on the client in use.
AtClient == {"apply", "takeback", "unlist", "read", "set", "keep", "freeze", "freezing"}

\* What the locals of a pass are where it uses them.
Local ==
    /\ ~Running => pass = Idle /\ mem = NotLoaded
    /\ ~mem.loaded => mem = NotLoaded /\ pass.at \in {"wait", "load"}
    /\ pass.at = "load" => ~mem.loaded
    /\ pass.at \in AtClient => pass.id \in Addresses
    /\ pass.at \in {"aside", "clear"} => /\ mem.saved # None
                                         /\ pass.then = "rest" \/ pass.id \in Addresses
    /\ pass.at = "clear" => mem.previous[mem.saved.at] = mem.saved.own
    /\ pass.at = "takeback" => mem.previous[pass.id] # None
    /\ pass.at = "restore" => /\ pass.todo \subseteq Entries(mem.previous)
                              /\ \/ pass.then = "read" /\ pass.id \in Addresses
                                 \/ pass.then = "publish"

\* Where a pass is not once it has found a client stopped.
Moving == {"choose", "apply", "aside", "clear", "takeback", "unlist", "restore", "read", "set",
           "keep", "freeze", "freezing"}

\* The thread that stops a client belongs to the place the pass waits at.
Threads ==
    /\ Running => (stopper.st # "idle" <=> pass.at \in {"freezing", "again"})
    /\ up = "dead" => stopper.st = "idle"
    /\ stopper.st # "idle" => stopper.proc # None /\ stopper.kind # "none"
    /\ pass.at = "freezing" => stopper.kind = "freeze" /\ hold = "frozen"
    /\ pass.at = "again" => stopper.kind = "again" /\ stopper.proc = mem.frozen
    /\ stopper.st = "recorded" =>
          stopper.kind = "freeze" /\ record = stopper.proc /\ up \in {"up", "stopping", "joined"}

\* The record, the processes and what the task believes.
Frozen ==
    /\ record # None => record.gen <= proc[record.client].gen
    /\ stopper.proc # None => stopper.proc.gen <= proc[stopper.proc.client].gen
    /\ \A c \in Clients : proc[c].stopped => record = Current(c)
    /\ Running /\ record # None =>
          hold = "frozen" /\ (mem.loaded => mem.frozen = record \/ pass.at = "freezing")
    /\ mem.frozen # None => record = mem.frozen
    /\ pass.at \in Moving => mem.frozen = None
    /\ pass.at \in {"thaw", "thawed"} => mem.frozen # None
    /\ pass.at = "thawed" \/ stopper.st = "recorded" => \A c \in Clients : ~proc[c].stopped
    /\ pass.at = "freezing" =>
          record = IF stopper.st = "recorded" \/ (stopper.st = "done" /\ stopper.res = "ok")
                   THEN stopper.proc ELSE None

\* A record outlives a clean stop only if a signal failed.
Stopped ==
    /\ budget["signal"] <= given.budget["signal"]
    /\ up = "stopped" /\ record # None => given.budget["signal"] > 0

SInv == Shape /\ Local /\ Threads /\ Frozen /\ Stopped

-----------------------------------------------------------------------------

\* Every address has a client of its own.
OwnClients == \A g \in Cases : \A a, b \in Addresses : g.client[a] = g.client[b] => a = b

\* What the task holds of the database is what is there; a list that was not written keeps more.
Memory ==
    mem.loaded => /\ mem.saved = saved
                  /\ \A a \in Entries(mem.previous) : previous[a] = mem.previous[a]

\* The limits set aside that count: those of the task, or of the database until it has them.
Aside == IF mem.loaded THEN mem.previous ELSE previous

Changed(c) == {s \in Slots : rate[c][s] # given.own[c][s]}

\* Own limits of the client at a that are not in force are in its record, or set aside.
Has(a) ==
    \A s \in Changed(ClientAt(a)) :
        IF saved # None /\ saved.at = a THEN saved.own[s] # None
        ELSE Aside[a] # None /\ Aside[a][s] # None

Covered ==
    /\ \A c \in Clients : Changed(c) # {} => \E a \in Addresses : ClientAt(a) = c
    /\ \A a \in Addresses \ dropped : Has(a)
    /\ saved # None /\ saved.at \notin dropped => OwnIn(saved.own, ClientAt(saved.at))
    /\ \A a \in Entries(previous) \ dropped : OwnIn(previous[a], ClientAt(a))

\* What a pass at the client in use has as its record.
Mine == saved # None => saved.at = pass.id

Reading ==
    pass.at = "read" \/ (pass.at = "restore" /\ pass.then = "read") =>
        /\ Mine /\ (saved = None => mem.previous[pass.id] = None)
        /\ pass.id \notin dropped => OwnIn(pass.own, ClientAt(pass.id))
        /\ saved # None => \A s \in Stored(saved.own) : pass.own[s] = saved.own[s]
        /\ pass.at = "restore" => pass.own = (IF saved = None THEN NoLimits ELSE saved.own)
        /\ ~pass.read => pass.own = (IF saved = None THEN NoLimits ELSE saved.own)

Writing ==
    /\ pass.at = "set" => Mine /\ pass.own = (IF saved = None THEN NoLimits ELSE saved.own)
    /\ pass.at = "keep" =>
          /\ saved # None /\ Mine
          /\ \A s \in Stored(pass.own) : saved.own[s] = pass.own[s]
          /\ pass.id \notin dropped =>
                \A s \in Slots \ Stored(pass.own) : s \notin Changed(ClientAt(pass.id))
    /\ pass.at = "takeback" => saved = None
    /\ pass.at = "unlist" => saved # None /\ Mine

\* What the tries put back is in force.
Returned ==
    /\ pass.at # "restore" => pass.gone = {}
    /\ \A a \in pass.gone \ dropped : Changed(ClientAt(a)) \cap Stored(mem.previous[a]) = {}

OInv == Memory /\ Covered /\ Reading /\ Writing /\ Returned

-----------------------------------------------------------------------------
(* Types. *)

\* A case has its parts.
LEMMA CaseType ==
    ASSUME given \in Cases
    PROVE  /\ given.client \in [Addresses -> Clients] /\ given.local \subseteq Addresses
           /\ given.own \in [Clients -> OwnLimits] /\ given.first \in Addresses
           /\ given.core \in [Dirs -> Rates \cup {None}] /\ given.menu \in [Dirs -> Rates \cup {None}]
           /\ given.pausing \in BOOLEAN /\ given.budget \in [Events -> Nat]
BY LimitsAssumption

LEMMA SpendType ==
    ASSUME budget \in [Events -> Nat], NEW e \in Events, Spend(e)
    PROVE  budget' \in [Events -> Nat] /\ \A x \in Events : budget'[x] <= budget[x]
<1> DEFINE less == [budget EXCEPT ![e] = budget[e] - 1]
<1>1. budget[e] - 1 \in Nat /\ budget[e] - 1 <= budget[e]
  BY DEF Spend
<1>2. \A x \in Events : less[x] = IF x = e THEN budget[e] - 1 ELSE budget[x]
  OBVIOUS
<1>3. less \in [Events -> Nat]
  BY <1>1
<1>4. budget' = less
  BY DEF Spend
<1> HIDE DEF less
<1> QED
  BY <1>1, <1>2, <1>3, <1>4

LEMMA EventsAre ==
    {"core", "pause", "detect", "fail", "db", "signal", "refuse", "restart", "resume", "day", "crash",
     "stop"} \subseteq Events
BY DEF Events

LEMMA NoLimitsType == NoLimits \in OwnLimits
BY DEF NoLimits, OwnLimits

\* What a pass, the task and the thread begin with.
LEMMA IdleType ==
    /\ Idle \in Passes /\ Idle.at = "wait" /\ Idle.then = "none" /\ Idle.todo = {} /\ Idle.gone = {}
BY NoLimitsType DEF Idle, Passes, Places

LEMMA NotLoadedType ==
    /\ NotLoaded \in Applieds /\ ~NotLoaded.loaded /\ NotLoaded.saved = None
    /\ NotLoaded.previous = [a \in Addresses |-> None] /\ NotLoaded.frozen = None
    /\ NotLoaded.have = NoLimits
BY NoLimitsType DEF NotLoaded, Applieds

LEMMA ThroughType ==
    ASSUME NEW ok \in BOOLEAN, Through(ok)
    PROVE  pass' \in Passes /\ pass'.at = "rest" /\ pass'.gone = {}
BY IdleType DEF Through, Passes, Places

LEMMA GotoType ==
    ASSUME pass \in Passes, NEW at \in Places, Goto(at)
    PROVE  /\ pass' \in Passes /\ pass'.at = at
           /\ \A f \in {"ok", "playing", "holding", "id", "goal", "want", "own", "read", "todo", "gone",
                         "then", "before"} : pass'[f] = pass[f]
BY DEF Goto, Passes

LEMMA NoStopperType ==
    /\ NoStopper \in Stoppers /\ NoStopper.st = "idle" /\ NoStopper.kind = "none" /\ NoStopper.proc = None
BY DEF NoStopper, Stoppers

LEMMA ForgettingType ==
    ASSUME mem \in Applieds
    PROVE  LET m == Forgetting(mem) IN
           /\ m \in Applieds /\ m.loaded = mem.loaded /\ m.saved = mem.saved
           /\ m.previous = mem.previous /\ m.frozen = mem.frozen
BY NoLimitsType DEF Forgetting, Applieds

LEMMA TargetType ==
    ASSUME given \in Cases, NEW p \in BOOLEAN, NEW h \in BOOLEAN
    PROVE  Target(p, h) \in OwnLimits
<1>1. \A d \in Dirs : given.core[d] \in Rates \cup {None} /\ given.menu[d] \in Rates \cup {None}
  BY CaseType
<1>2. Held \in Rates
  BY LimitsAssumption DEF Held, Rates
<1>3. \A s \in Slots : s = "alt" \/ s \in Dirs
  BY DEF Slots, Dirs
<1> QED
  BY <1>1, <1>2, <1>3 DEF Target, OwnLimits

Processes == [Clients -> [gen : Nat, stopped : BOOLEAN]]

LEMMA SignalType ==
    ASSUME proc \in Processes, NEW p \in Procs, NEW b \in BOOLEAN, Signal(p, b)
    PROVE  /\ proc' \in Processes
           /\ \A c \in Clients : /\ proc'[c].gen = proc[c].gen
                                 /\ proc'[c].stopped <=> IF c = p.client THEN b ELSE proc[c].stopped
<1>1. p.client \in Clients
  BY DEF Procs
<1> QED
  BY <1>1 DEF Signal, Processes

LEMMA DoneType ==
    ASSUME stopper \in Stoppers, NEW res \in {"ok", "gone", "kill", "shutdown"}, Done(res)
    PROVE  /\ stopper' \in Stoppers /\ stopper'.st = "done" /\ stopper'.res = res
           /\ stopper'.kind = stopper.kind /\ stopper'.proc = stopper.proc
BY DEF Done, Stoppers

LEMMA RefuseType == ASSUME given \in Cases, mem \in Applieds, pass \in Passes, pass.id \in Addresses, Refuse
   PROVE mem' \in Applieds /\ pass' \in Passes
<1>1. Target(TRUE, TRUE) \in OwnLimits
  BY TargetType
<1> QED
  BY <1>1 DEF Refuse, Applieds, Passes, Places

LEMMA WakeShape ==
    ASSUME Shape, Wake
    PROVE  Shape'
<1>1. Scalars'
  BY DEF Wake, Gate, Entries, Shape, Scalars, Applieds, settings, handle, client, store, times,
     server
<1>2. mem' \in Applieds
  BY DEF Wake, Gate, Entries, Shape, Scalars, Applieds, settings, handle, client, store, times,
     server
<1>3. pass' \in Passes
  BY IdleType DEF Wake, Gate, Entries, Shape, Scalars, Passes, Places, settings, handle, client,
     store, times, server
<1>4. stopper' \in Stoppers
  BY DEF Wake, Gate, Entries, Shape, Scalars, settings, handle, client, store, times, server
<1> QED
  BY <1>1, <1>2, <1>3, <1>4 DEF Shape

LEMMA RecheckShape ==
    ASSUME Shape, Recheck
    PROVE  Shape'
<1>1. Scalars'
  BY NotLoadedType DEF Recheck, Gate, Shape, Scalars, Applieds, settings, handle, client, store,
     times, server
<1>2. mem' \in Applieds
  BY NotLoadedType DEF Recheck, Gate, Shape, Scalars, Applieds, settings, handle, client, store,
     times, server
<1>3. pass' \in Passes
  BY NotLoadedType, IdleType DEF Recheck, Gate, Shape, Scalars, Passes, Places, settings, handle,
     client, store, times, server
<1>4. stopper' \in Stoppers
  BY DEF Recheck, Gate, Shape, Scalars, settings, handle, client, store, times, server
<1> QED
  BY <1>1, <1>2, <1>3, <1>4 DEF Shape

LEMMA LoadShape ==
    ASSUME Shape, Load
    PROVE  Shape'
<1>1. Scalars'
  BY NotLoadedType, SpendType, EventsAre DEF Load, Gate, Shape, Scalars, Applieds, settings,
     handle, client, store, times, server
<1>2. mem' \in Applieds
  <2>1. CASE UNCHANGED mem
    BY <2>1 DEF Shape
  <2>2. CASE mem' = [NotLoaded EXCEPT !.loaded = TRUE, !.saved = saved, !.previous = previous, !.frozen = record]
    BY <2>2, NotLoadedType DEF Shape, Scalars, Applieds
  <2> QED
    BY <2>1, <2>2 DEF Load
<1>3. pass' \in Passes
  <2>1. CASE Goto("hold")
    BY <2>1, GotoType DEF Shape, Places
  <2>2. CASE pass' = [Idle EXCEPT !.ok = FALSE]
    BY <2>2, IdleType DEF Passes, Places
  <2> QED
    BY <2>1, <2>2 DEF Load
<1>4. stopper' \in Stoppers
  BY DEF Load, Gate, Shape, Scalars, settings, handle, client, store, times, server
<1> QED
  BY <1>1, <1>2, <1>3, <1>4 DEF Shape

LEMMA HoldShape ==
    ASSUME Shape, Hold
    PROVE  Shape'
<1>1. Scalars'
  BY DEF Hold, Gate, Shape, Scalars, Applieds, settings, handle, client, store, times, server
<1>2. mem' \in Applieds
  BY DEF Hold, Gate, Shape, Scalars, Applieds, settings, handle, client, store, times, server
<1>3. pass' \in Passes
  <2>1. CASE Through(TRUE)
    BY <2>1, ThroughType
  <2>2. ASSUME NEW at \in {"thaw", "choose"}, NEW h \in BOOLEAN, pass' = [pass EXCEPT !.at = at, !.playing = core, !.holding = h]
        PROVE  pass' \in Passes
    BY <2>2 DEF Shape, Scalars, Passes, Places
  <2> QED
   BY <2>1, <2>2 DEF Hold, Shape, Scalars
<1>4. stopper' \in Stoppers
  BY DEF Hold, Gate, Shape, Scalars, settings, handle, client, store, times, server
<1> QED
  BY <1>1, <1>2, <1>3, <1>4 DEF Shape

LEMMA ChooseShape == ASSUME Shape, Choose PROVE Shape'
<1>1. \A p, h \in BOOLEAN : Target(p, h) \in OwnLimits
  BY TargetType DEF Shape, Scalars
<1>2. mem' \in Applieds
  <2>1. CASE mem' = [Forgetting(mem) EXCEPT !.client = entry]
    BY <2>1, ForgettingType DEF Shape, Scalars, Applieds
  <2> QED
    BY <2>1 DEF Choose, Shape
<1>3. pass' \in Passes
  <2>1. CASE pass' = [pass EXCEPT !.at = "aside", !.then = "rest"]
    BY <2>1 DEF Shape, Passes, Places
  <2>2. ASSUME entry # None
        PROVE  \E w \in OwnLimits, g \in {"freeze", "limits"} :
                   pass' = [pass EXCEPT !.at = "apply", !.id = entry, !.goal = g, !.want = w]
    BY <1>1, <2>2 DEF Choose, Shape, Passes
  <2>3. ASSUME NEW w \in OwnLimits, NEW g \in {"freeze", "limits"}, entry # None,
               pass' = [pass EXCEPT !.at = "apply", !.id = entry, !.goal = g, !.want = w]
        PROVE  pass' \in Passes
    BY <2>3 DEF Shape, Scalars, Passes, Places
  <2> QED
    BY <2>1, <2>2, <2>3, ThroughType DEF Choose
<1> QED
  BY <1>2, <1>3 DEF Choose, Shape, Scalars, settings, handle, client, store, times

LEMMA SetAsideShape ==
    ASSUME Shape, Local, SetAside
    PROVE  Shape'
<1>1. Scalars'
  BY DEF SetAside, Gate, Writes, Running, Local, AtClient, Shape, Scalars, Applieds, Passes,
     Records, Stoppers, settings, handle, client, store, times, server
<1>2. mem' \in Applieds
  BY DEF SetAside, Gate, Writes, Running, Local, AtClient, Shape, Scalars, Applieds, Records,
     Passes, Stoppers, settings, handle, client, store, times, server
<1>3. pass' \in Passes
  BY GotoType DEF SetAside, Gate, Writes, Running, Local, AtClient, Shape, Scalars, Passes, Places,
     Applieds, settings, handle, client, store, times, server
<1>4. stopper' \in Stoppers
  BY DEF SetAside, Gate, Writes, Shape, Scalars, settings, handle, client, store, times, server
<1> QED
  BY <1>1, <1>2, <1>3, <1>4 DEF Shape

LEMMA ClearSavedShape ==
    ASSUME Shape, Local, ClearSaved
    PROVE  Shape'
<1>1. Scalars'
  BY DEF ClearSaved, Gate, Writes, Running, Local, AtClient, Shape, Scalars, Applieds, Passes,
     Records, Stoppers, settings, handle, client, store, times, server
<1>2. mem' \in Applieds
  BY DEF ClearSaved, Gate, Writes, Running, Local, AtClient, Shape, Scalars, Applieds, Records,
     Passes, Stoppers, settings, handle, client, store, times, server
<1>3. pass' \in Passes
  BY GotoType, ThroughType, IdleType DEF ClearSaved, Gate, Writes, Running, Local, AtClient, Shape,
     Scalars, Passes, Places, Applieds, settings, handle, client, store, times, server
<1>4. stopper' \in Stoppers
  BY DEF ClearSaved, Gate, Writes, Shape, Scalars, settings, handle, client, store, times, server
<1> QED
  BY <1>1, <1>2, <1>3, <1>4 DEF Shape

LEMMA TakeBackShape ==
    ASSUME Shape, Local, TakeBack
    PROVE  Shape'
<1>1. Scalars'
  BY DEF TakeBack, Gate, Writes, Running, Local, AtClient, Shape, Scalars, Applieds, Passes,
     Records, Stoppers, settings, handle, client, store, times, server
<1>2. mem' \in Applieds
  BY DEF TakeBack, Gate, Writes, Running, Local, AtClient, Shape, Scalars, Applieds, Records,
     Passes, Stoppers, settings, handle, client, store, times, server
<1>3. pass' \in Passes
  BY GotoType DEF TakeBack, Gate, Writes, Running, Local, AtClient, Shape, Scalars, Passes, Places,
     Applieds, settings, handle, client, store, times, server
<1>4. stopper' \in Stoppers
  BY DEF TakeBack, Gate, Writes, Shape, Scalars, settings, handle, client, store, times, server
<1> QED
  BY <1>1, <1>2, <1>3, <1>4 DEF Shape

LEMMA UnlistShape ==
    ASSUME Shape, Local, Unlist
    PROVE  Shape'
<1>1. Scalars'
  BY DEF Unlist, Gate, Writes, Running, Local, AtClient, Shape, Scalars, Applieds, Passes, Records,
     Stoppers, settings, handle, client, store, times, server
<1>2. mem' \in Applieds
  BY DEF Unlist, Gate, Writes, Running, Local, AtClient, Shape, Scalars, Applieds, Records, Passes,
     Stoppers, settings, handle, client, store, times, server
<1>3. pass' \in Passes
  BY GotoType DEF Unlist, Gate, Writes, Running, Local, AtClient, Shape, Scalars, Passes, Places,
     Applieds, settings, handle, client, store, times, server
<1>4. stopper' \in Stoppers
  BY DEF Unlist, Gate, Writes, Shape, Scalars, settings, handle, client, store, times, server
<1> QED
  BY <1>1, <1>2, <1>3, <1>4 DEF Shape

LEMMA RestoreEndShape ==
    ASSUME Shape, Local, RestoreEnd
    PROVE  Shape'
<1>1. Scalars'
  BY SpendType, EventsAre DEF RestoreEnd, Gate, Entries, Running, Local, AtClient, Shape, Scalars,
     Applieds, Passes, Records, Stoppers, settings, handle, client, store, times, server
<1>2. mem' \in Applieds
  BY DEF RestoreEnd, Gate, Entries, Running, Local, AtClient, Shape, Scalars, Applieds, Records,
     Passes, Stoppers, settings, handle, client, store, times, server
<1>3. pass' \in Passes
  BY DEF RestoreEnd, Gate, Entries, Running, Local, AtClient, Shape, Scalars, Passes, Places,
     Applieds, settings, handle, client, store, times, server
<1>4. stopper' \in Stoppers
  BY DEF RestoreEnd, Gate, Entries, Shape, Scalars, settings, handle, client, store, times, server
<1> QED
  BY <1>1, <1>2, <1>3, <1>4 DEF Shape

LEMMA ApplyShape == ASSUME Shape, Local, Apply PROVE Shape'
<1>0. pass.at = "apply" /\ pass.id \in Addresses
  BY DEF Apply, Gate, Local, AtClient
<1> DEFINE own == IF mem.saved = None THEN NoLimits ELSE mem.saved.own
<1>1. own \in OwnLimits
  BY NoLimitsType DEF Shape, Applieds, Records
<1>2. Entries(mem.previous) \subseteq Addresses
  BY DEF Entries
<1>3. pass' \in Passes
  <2>1. CASE pass' = [pass EXCEPT !.at = "aside", !.then = "apply"]
    BY <2>1 DEF Shape, Passes, Places
  <2>2. CASE Goto("takeback")
    BY <2>2, GotoType DEF Shape, Places
  <2>3. CASE pass' = [[pass EXCEPT !.own = own, !.read = FALSE] EXCEPT
                        !.at = "restore", !.then = "read", !.todo = Entries(mem.previous)]
    BY <1>1, <1>2, <2>3 DEF Shape, Passes, Places
  <2>4. CASE pass' = [[pass EXCEPT !.own = own, !.read = FALSE] EXCEPT !.at = "read"]
    BY <1>1, <2>4 DEF Shape, Passes, Places
  <2> QED
    BY <2>1, <2>2, <2>3, <2>4 DEF Apply
<1>4. turned' \in BOOLEAN
  BY DEF Apply, Shape, Scalars
<1> QED
  BY <1>3, <1>4 DEF Apply, Shape, Scalars, settings, handle, client, store, times

LEMMA PersistShape ==
    ASSUME Shape, Local, Persist
    PROVE  Shape'
<1>1. Scalars'
  BY DEF Persist, Gate, Writes, Running, Local, AtClient, Shape, Scalars, Applieds, Passes,
     Records, Stoppers, settings, handle, client, store, times, server
<1>2. mem' \in Applieds
  BY DEF Persist, Gate, Writes, Running, Local, AtClient, Shape, Scalars, Applieds, Records,
     Passes, Stoppers, settings, handle, client, store, times, server
<1>3. pass' \in Passes
  BY GotoType DEF Persist, Gate, Writes, Running, Local, AtClient, Shape, Scalars, Passes, Places,
     Applieds, settings, handle, client, store, times, server
<1>4. stopper' \in Stoppers
  BY DEF Persist, Gate, Writes, Shape, Scalars, settings, handle, client, store, times, server
<1> QED
  BY <1>1, <1>2, <1>3, <1>4 DEF Shape

LEMMA KeepSavedShape ==
    ASSUME Shape, Local, KeepSaved
    PROVE  Shape'
<1>1. Scalars'
  BY DEF KeepSaved, Gate, Writes, Running, Local, AtClient, Shape, Scalars, Applieds, Passes,
     Records, Stoppers, settings, handle, client, store, times, server
<1>2. mem' \in Applieds
  BY DEF KeepSaved, Gate, Writes, Running, Local, AtClient, Shape, Scalars, Applieds, Records,
     Passes, Stoppers, settings, handle, client, store, times, server
<1>3. pass' \in Passes
  BY GotoType DEF KeepSaved, Gate, Writes, Running, Local, AtClient, Shape, Scalars, Passes,
     Places, Applieds, settings, handle, client, store, times, server
<1>4. stopper' \in Stoppers
  BY DEF KeepSaved, Gate, Writes, Shape, Scalars, settings, handle, client, store, times, server
<1> QED
  BY <1>1, <1>2, <1>3, <1>4 DEF Shape

LEMMA LimitsSetShape ==
    ASSUME Shape, LimitsSet
    PROVE  Shape'
<1>1. Scalars'
  BY DEF LimitsSet, Gate, Shape, Scalars, Applieds, settings, handle, client, store, times, server
<1>2. mem' \in Applieds
  BY DEF LimitsSet, Gate, Shape, Scalars, Applieds, settings, handle, client, store, times, server
<1>3. pass' \in Passes
  BY GotoType, ThroughType, IdleType DEF LimitsSet, Gate, Shape, Scalars, Passes, Places, settings,
     handle, client, store, times, server
<1>4. stopper' \in Stoppers
  BY DEF LimitsSet, Gate, Shape, Scalars, settings, handle, client, store, times, server
<1> QED
  BY <1>1, <1>2, <1>3, <1>4 DEF Shape

LEMMA FindProcessShape == ASSUME Shape, Local, FindProcess PROVE Shape'
<1>0. pass.at = "freeze" /\ pass.id \in Addresses
  BY DEF FindProcess, Gate, Local, AtClient
<1>1. mem' \in Applieds
  BY <1>0, RefuseType DEF FindProcess, Shape, Scalars
<1>2. pass' \in Passes
  <2>1. CASE pass' = [pass EXCEPT !.at = "freezing", !.before = hold]
    BY <2>1 DEF Shape, Scalars, Passes, Places
  <2> QED
    BY <1>0, <2>1, RefuseType, ThroughType DEF FindProcess, CallFails, Shape, Scalars
<1>3. hold' \in {"none", "uploads", "frozen"}
  BY DEF FindProcess, Shape, Scalars, Passes
<1>4. Current(ClientAt(pass.id)) \in Procs
  BY <1>0, CaseType DEF Current, ClientAt, Procs, Shape, Scalars
<1>5. stopper' \in Stoppers
  BY <1>4 DEF FindProcess, Stoppers, Shape
<1>6. budget' \in [Events -> Nat]
  BY SpendType, EventsAre DEF FindProcess, CallFails, Shape, Scalars
<1> QED
  BY <1>1, <1>2, <1>3, <1>5, <1>6 DEF FindProcess, Shape, Scalars, settings, handle, client, store,
     times

LEMMA FreezingShape == ASSUME Shape, Local, Freezing PROVE Shape'
<1>0. pass.at = "freezing" /\ pass.id \in Addresses
  BY DEF Freezing, Gate, Local, AtClient
<1>1. mem' \in Applieds
  <2>1. CASE mem' = [mem EXCEPT !.frozen = stopper.proc]
    BY <2>1 DEF Shape, Applieds, Stoppers
  <2> QED
    BY <1>0, <2>1, RefuseType DEF Freezing, Shape, Scalars
<1>2. pass' \in Passes
  BY <1>0, RefuseType, ThroughType DEF Freezing, Shape, Scalars
<1>3. hold' \in {"none", "uploads", "frozen"}
  BY DEF Freezing, Shape, Scalars, Passes
<1> QED
  BY <1>1, <1>2, <1>3, NoStopperType DEF Freezing, Shape, Scalars, settings, handle, client, store,
     times

LEMMA ThawShape ==
    ASSUME Shape, Frozen, Thaw
    PROVE  Shape'
<1>1. Scalars'
  <2>1. budget' \in [Events -> Nat]
    BY SpendType, EventsAre DEF Thaw, Defer, Shape, Scalars
  <2>2. proc' \in Processes
    BY SignalType DEF Thaw, Gate, Local, Frozen, Shape, Scalars, Processes, Applieds
  <2>3. wake' \subseteq {"gate", "notify"} /\ kept' \in BOOLEAN
    BY DEF Thaw, Defer, Shape, Scalars
  <2> QED
    BY <2>1, <2>2, <2>3 DEF Thaw, Shape, Scalars, Processes, settings, handle, store, times
<1>2. mem' \in Applieds
  BY DEF Thaw, Gate, Alive, Signal, Defer, Shape, Scalars, Applieds, Records, Passes, Stoppers,
     settings, handle, client, store, times, server
<1>3. pass' \in Passes
  BY GotoType, ThroughType, IdleType DEF Thaw, Gate, Alive, Signal, Defer, Shape, Scalars, Passes,
     Places, Applieds, settings, handle, client, store, times, server
<1>4. stopper' \in Stoppers
  BY DEF Thaw, Gate, Alive, Signal, Defer, Shape, Scalars, settings, handle, client, store, times,
     server
<1> QED
  BY <1>1, <1>2, <1>3, <1>4 DEF Shape

LEMMA ThawedShape ==
    ASSUME Shape, Thawed
    PROVE  Shape'
<1>1. Scalars'
  BY DEF Thawed, Gate, Shape, Scalars, Applieds, settings, handle, client, store, times, server
<1>2. mem' \in Applieds
  BY DEF Thawed, Gate, Shape, Scalars, Applieds, settings, handle, client, store, times, server
<1>3. pass' \in Passes
  BY GotoType DEF Thawed, Gate, Shape, Scalars, Passes, Places, settings, handle, client, store,
     times, server
<1>4. stopper' \in Stoppers
  BY DEF Thawed, Gate, Shape, Scalars, settings, handle, client, store, times, server
<1> QED
  BY <1>1, <1>2, <1>3, <1>4 DEF Shape

LEMMA RecheckFrozenShape ==
    ASSUME Shape, Local, RecheckFrozen
    PROVE  Shape'
<1>1. Scalars'
  <2>1. budget' \in [Events -> Nat]
    BY SpendType, EventsAre DEF RecheckFrozen, LetGo, Defer, Shape, Scalars
  <2>3. wake' \subseteq {"gate", "notify"} /\ kept' \in BOOLEAN
    BY DEF RecheckFrozen, LetGo, Defer, Shape, Scalars
  <2>2. record' \in Procs \cup {None} /\ hold' \in {"none", "uploads", "frozen"}
    BY DEF RecheckFrozen, LetGo, Shape, Scalars
  <2> QED
    BY <2>1, <2>2, <2>3 DEF RecheckFrozen, Shape, Scalars, Processes, settings, handle, client,
       times
<1>2. mem' \in Applieds
  BY ForgettingType DEF RecheckFrozen, Gate, Alive, LetGo, Defer, Running, Local, AtClient, Shape,
     Scalars, Applieds, Records, Passes, Stoppers, settings, handle, client, store, times, server
<1>3. pass' \in Passes
  BY ForgettingType, GotoType DEF RecheckFrozen, Gate, Alive, LetGo, Defer, Running, Local,
     AtClient, Shape, Scalars, Passes, Places, Applieds, settings, handle, client, store, times,
     server
<1>4. stopper' \in Stoppers
  BY DEF RecheckFrozen, Gate, Alive, LetGo, Defer, Shape, Scalars, Stoppers, Procs, Local,
     AtClient, Running, ClientAt, Applieds, settings, handle, client, store, times, server
<1> QED
  BY <1>1, <1>2, <1>3, <1>4 DEF Shape

LEMMA StoppedAgainShape ==
    ASSUME Shape, StoppedAgain
    PROVE  Shape'
<1>1. Scalars'
  BY NoStopperType DEF StoppedAgain, Gate, Shape, Scalars, Applieds, Passes, Records, Stoppers,
     Procs, settings, handle, client, store, times, server
<1>2. mem' \in Applieds
  BY NoStopperType DEF StoppedAgain, Gate, Shape, Scalars, Applieds, settings, handle, client,
     store, times, server
<1>3. pass' \in Passes
  BY NoStopperType, GotoType DEF StoppedAgain, Gate, Shape, Scalars, Passes, Places, settings,
     handle, client, store, times, server
<1>4. stopper' \in Stoppers
  BY NoStopperType DEF StoppedAgain, Gate, Shape, Scalars, Stoppers, Procs, settings, handle,
     client, store, times, server
<1> QED
  BY <1>1, <1>2, <1>3, <1>4 DEF Shape

LEMMA RecheckUploadsShape ==
    ASSUME Shape, RecheckUploads
    PROVE  Shape'
<1>1. Scalars'
  BY ForgettingType, SpendType, EventsAre DEF RecheckUploads, Gate, Shape, Scalars, Applieds,
     settings, handle, client, store, times, server
<1>2. mem' \in Applieds
  BY ForgettingType DEF RecheckUploads, Gate, Shape, Scalars, Applieds, settings, handle, client,
     store, times, server
<1>3. pass' \in Passes
  BY ForgettingType, GotoType DEF RecheckUploads, Gate, Shape, Scalars, Passes, Places, settings,
     handle, client, store, times, server
<1>4. stopper' \in Stoppers
  BY DEF RecheckUploads, Gate, Shape, Scalars, settings, handle, client, store, times, server
<1> QED
  BY <1>1, <1>2, <1>3, <1>4 DEF Shape

LEMMA RestShape ==
    ASSUME Shape, Rest
    PROVE  Shape'
<1>1. Scalars'
  <2>1. turned' \in BOOLEAN
    BY DEF Rest, Trying, Shape, Scalars
  <2> QED
    BY <2>1 DEF Rest, Shape, Scalars, settings, handle, client, store, times
<1>2. mem' \in Applieds
  BY DEF Rest, Gate, Trying, Entries, Shape, Scalars, Applieds, settings, handle, client, store,
     times, server
<1>3. pass' \in Passes
  <2>1. CASE Goto("publish")
    BY <2>1, GotoType DEF Shape, Places
  <2>2. ASSUME NEW todo \in SUBSET Addresses, Trying(todo, "publish") PROVE pass' \in Passes
    BY <2>2 DEF Trying, Shape, Passes, Places
  <2>3. due \cap Entries(mem.previous) \subseteq Addresses
    BY DEF Shape, Scalars
  <2> QED
    BY <2>1, <2>2, <2>3 DEF Rest
<1>4. stopper' \in Stoppers
  BY DEF Rest, Gate, Trying, Entries, Shape, Scalars, settings, handle, client, store, times, server
<1> QED
  BY <1>1, <1>2, <1>3, <1>4 DEF Shape

LEMMA PublishShape ==
    ASSUME Shape, Publish
    PROVE  Shape'
<1>1. Scalars'
  BY DEF Publish, Gate, CurrentHold, Shape, Scalars, Applieds, settings, handle, client, store,
     times, server
<1>2. mem' \in Applieds
  BY DEF Publish, Gate, CurrentHold, Shape, Scalars, Applieds, settings, handle, client, store,
     times, server
<1>3. pass' \in Passes
  BY IdleType DEF Publish, Gate, CurrentHold, Shape, Scalars, Passes, Places, settings, handle,
     client, store, times, server
<1>4. stopper' \in Stoppers
  BY DEF Publish, Gate, CurrentHold, Shape, Scalars, settings, handle, client, store, times, server
<1> QED
  BY <1>1, <1>2, <1>3, <1>4 DEF Shape

LEMMA ReplayDetectShape ==
    ASSUME Shape, ReplayDetect
    PROVE  Shape'
<1>1. Scalars'
  BY SpendType, EventsAre DEF ReplayDetect, Gate, Shape, Scalars, Applieds, settings, handle,
     client, store, times, server
<1>2. mem' \in Applieds
  BY DEF ReplayDetect, Gate, Shape, Scalars, Applieds, settings, handle, client, store, times,
     server
<1>3. pass' \in Passes
  BY GotoType DEF ReplayDetect, Gate, Shape, Scalars, Passes, Places, settings, handle, client,
     store, times, server
<1>4. stopper' \in Stoppers
  BY DEF ReplayDetect, Gate, Shape, Scalars, settings, handle, client, store, times, server
<1> QED
  BY <1>1, <1>2, <1>3, <1>4 DEF Shape

LEMMA StopperStartShape ==
    ASSUME Shape, Threads, StopperStart
    PROVE  Shape'
<1>0. stopper.proc # None
  BY DEF Threads, StopperStart
<1>1. Scalars'
  <2>1. budget' \in [Events -> Nat]
    BY SpendType, EventsAre DEF StopperStart, Shape, Scalars
  <2>2. proc' \in Processes
    BY <1>0, SignalType DEF StopperStart, Shape, Scalars, Processes, Stoppers
  <2>3. record' \in Procs \cup {None}
    BY <1>0 DEF StopperStart, Shape, Scalars, Stoppers
  <2> QED
    BY <2>1, <2>2, <2>3 DEF StopperStart, Shape, Scalars, Processes, settings, handle, store, times
<1>2. mem' \in Applieds
  BY DEF StopperStart, Alive, Done, Signal, Shape, Scalars, Applieds, settings, handle, client,
     store, times, server
<1>3. pass' \in Passes
  BY DEF StopperStart, Alive, Done, Signal, Shape, Scalars, Passes, Places, settings, handle,
     client, store, times, server
<1>4. stopper' \in Stoppers
  <2>1. CASE stopper' = [stopper EXCEPT !.st = "recorded"]
    BY <2>1 DEF Shape, Stoppers
  <2>2. CASE \E res \in {"ok", "gone", "kill", "shutdown"} : Done(res)
    BY <2>2, DoneType DEF Shape
  <2> QED
    BY <2>1, <2>2 DEF StopperStart
<1> QED
  BY <1>1, <1>2, <1>3, <1>4 DEF Shape

LEMMA StopperSignalShape ==
    ASSUME Shape, Threads, StopperSignal
    PROVE  Shape'
<1>0. stopper.proc # None
  BY DEF Threads, StopperSignal
<1>1. Scalars'
  <2>1. budget' \in [Events -> Nat]
    BY SpendType, EventsAre DEF StopperSignal, Shape, Scalars
  <2>2. proc' \in Processes
    BY <1>0, SignalType DEF StopperSignal, Shape, Scalars, Processes, Stoppers
  <2>3. record' \in Procs \cup {None}
    BY DEF StopperSignal, Shape, Scalars
  <2> QED
    BY <2>1, <2>2, <2>3 DEF StopperSignal, Shape, Scalars, Processes, settings, handle, store, times
<1>2. mem' \in Applieds
  BY DEF StopperSignal, Alive, Done, Signal, Shape, Scalars, Applieds, settings, handle, client,
     store, times, server
<1>3. pass' \in Passes
  BY DEF StopperSignal, Alive, Done, Signal, Shape, Scalars, Passes, Places, settings, handle,
     client, store, times, server
<1>4. stopper' \in Stoppers
  BY DEF StopperSignal, Alive, Done, Signal, Shape, Scalars, Stoppers, Procs, settings, handle,
     client, store, times, server
<1> QED
  BY <1>1, <1>2, <1>3, <1>4 DEF Shape

LEMMA SetCoreShape ==
    ASSUME Shape, SetCore
    PROVE  Shape'
<1>1. Scalars'
  BY SpendType, EventsAre DEF SetCore, Shape, Scalars, Applieds, settings, handle, client, store,
     times, server
<1>2. mem' \in Applieds
  BY DEF SetCore, Shape, Scalars, Applieds, settings, handle, client, store, times, server
<1>3. pass' \in Passes
  BY DEF SetCore, Shape, Scalars, Passes, Places, settings, handle, client, store, times, server
<1>4. stopper' \in Stoppers
  BY DEF SetCore, Shape, Scalars, settings, handle, client, store, times, server
<1> QED
  BY <1>1, <1>2, <1>3, <1>4 DEF Shape

LEMMA SetPauseShape ==
    ASSUME Shape, SetPause
    PROVE  Shape'
<1>1. Scalars'
  BY SpendType, EventsAre DEF SetPause, Shape, Scalars, Applieds, settings, handle, client, store,
     times, server
<1>2. mem' \in Applieds
  BY DEF SetPause, Shape, Scalars, Applieds, settings, handle, client, store, times, server
<1>3. pass' \in Passes
  BY DEF SetPause, Shape, Scalars, Passes, Places, settings, handle, client, store, times, server
<1>4. stopper' \in Stoppers
  BY DEF SetPause, Shape, Scalars, settings, handle, client, store, times, server
<1> QED
  BY <1>1, <1>2, <1>3, <1>4 DEF Shape

LEMMA DetectShape ==
    ASSUME Shape, Detect
    PROVE  Shape'
<1>1. Scalars'
  BY SpendType, EventsAre DEF Detect, Shape, Scalars, Applieds, settings, handle, client, store,
     times, server
<1>2. mem' \in Applieds
  BY DEF Detect, Shape, Scalars, Applieds, settings, handle, client, store, times, server
<1>3. pass' \in Passes
  BY DEF Detect, Shape, Scalars, Passes, Places, settings, handle, client, store, times, server
<1>4. stopper' \in Stoppers
  BY DEF Detect, Shape, Scalars, settings, handle, client, store, times, server
<1> QED
  BY <1>1, <1>2, <1>3, <1>4 DEF Shape

LEMMA DetectedShape ==
    ASSUME Shape, Detected
    PROVE  Shape'
<1>1. Scalars'
  BY DEF Detected, Shape, Scalars, Applieds, settings, handle, client, store, times, server
<1>2. mem' \in Applieds
  BY DEF Detected, Shape, Scalars, Applieds, settings, handle, client, store, times, server
<1>3. pass' \in Passes
  BY DEF Detected, Shape, Scalars, Passes, Places, settings, handle, client, store, times, server
<1>4. stopper' \in Stoppers
  BY DEF Detected, Shape, Scalars, settings, handle, client, store, times, server
<1> QED
  BY <1>1, <1>2, <1>3, <1>4 DEF Shape

LEMMA TickShape ==
    ASSUME Shape, Tick
    PROVE  Shape'
<1>1. Scalars'
  <2> QED
    BY DEF Tick, Shape, Scalars, Entries, settings, handle, client, store, times, server
<1>2. mem' \in Applieds
  BY DEF Tick, Shape, Scalars, Applieds, settings, handle, client, store, times, server
<1>3. pass' \in Passes
  BY DEF Tick, Shape, Scalars, Passes, Places, settings, handle, client, store, times, server
<1>4. stopper' \in Stoppers
  BY DEF Tick, Shape, Scalars, settings, handle, client, store, times, server
<1> QED
  BY <1>1, <1>2, <1>3, <1>4 DEF Shape

LEMMA DayShape ==
    ASSUME Shape, Day
    PROVE  Shape'
<1>1. Scalars'
  BY SpendType, EventsAre DEF Day, Entries, Shape, Scalars, Applieds, settings, handle, client,
     store, times, server
<1>2. mem' \in Applieds
  BY DEF Day, Entries, Shape, Scalars, Applieds, settings, handle, client, store, times, server
<1>3. pass' \in Passes
  BY DEF Day, Entries, Shape, Scalars, Passes, Places, settings, handle, client, store, times,
     server
<1>4. stopper' \in Stoppers
  BY DEF Day, Entries, Shape, Scalars, settings, handle, client, store, times, server
<1> QED
  BY <1>1, <1>2, <1>3, <1>4 DEF Shape

LEMMA CrashShape ==
    ASSUME Shape, Crash
    PROVE  Shape'
<1>1. Scalars'
  BY SpendType, EventsAre, NoStopperType, NotLoadedType DEF Crash, Volatile, Shape, Scalars,
     Applieds, Passes, Records, Stoppers, Procs, settings, handle, client, store, times, server
<1>2. mem' \in Applieds
  BY NoStopperType, NotLoadedType DEF Crash, Volatile, Shape, Scalars, Applieds, settings, handle,
     client, store, times, server
<1>3. pass' \in Passes
  BY NoStopperType, NotLoadedType, IdleType DEF Crash, Volatile, Shape, Scalars, Passes, Places,
     settings, handle, client, store, times, server
<1>4. stopper' \in Stoppers
  BY NoStopperType DEF Crash, Volatile, Shape, Scalars, Stoppers, Procs, settings, handle, client,
     store, times, server
<1> QED
  BY <1>1, <1>2, <1>3, <1>4 DEF Shape

LEMMA ShutdownShape ==
    ASSUME Shape, Shutdown
    PROVE  Shape'
<1>1. Scalars'
  BY SpendType, EventsAre DEF Shutdown, Shape, Scalars, Applieds, settings, handle, client, store,
     times, server
<1>2. mem' \in Applieds
  BY DEF Shutdown, Shape, Scalars, Applieds, settings, handle, client, store, times, server
<1>3. pass' \in Passes
  BY DEF Shutdown, Shape, Scalars, Passes, Places, settings, handle, client, store, times, server
<1>4. stopper' \in Stoppers
  BY DEF Shutdown, Shape, Scalars, settings, handle, client, store, times, server
<1> QED
  BY <1>1, <1>2, <1>3, <1>4 DEF Shape

LEMMA JoinShape ==
    ASSUME Shape, Join
    PROVE  Shape'
<1>1. Scalars'
  BY NotLoadedType DEF Join, Volatile, Shape, Scalars, Applieds, settings, handle, client, store,
     times, server
<1>2. mem' \in Applieds
  BY NotLoadedType DEF Join, Volatile, Shape, Scalars, Applieds, settings, handle, client, store,
     times, server
<1>3. pass' \in Passes
  BY NotLoadedType, IdleType DEF Join, Volatile, Shape, Scalars, Passes, Places, settings, handle,
     client, store, times, server
<1>4. stopper' \in Stoppers
  BY DEF Join, Volatile, Shape, Scalars, settings, handle, client, store, times, server
<1> QED
  BY <1>1, <1>2, <1>3, <1>4 DEF Shape

LEMMA ThawForShutdownShape ==
    ASSUME Shape, ThawForShutdown
    PROVE  Shape'
<1>1. Scalars'
  <2>1. budget' \in [Events -> Nat]
    BY SpendType, EventsAre DEF ThawForShutdown, ResumeFails, Shape, Scalars
  <2>2. proc' \in Processes
    BY SignalType DEF ThawForShutdown, Resumed, ResumeFails, Shape, Scalars, Processes
  <2>3. record' \in Procs \cup {None}
    BY DEF ThawForShutdown, Resumed, ResumeFails, Shape, Scalars
  <2> QED
    BY <2>1, <2>2, <2>3 DEF ThawForShutdown, Shape, Scalars, Processes, settings, handle, store,
       times
<1>2. mem' \in Applieds
  BY DEF ThawForShutdown, Resumed, ResumeFails, Alive, Signal, Shape, Scalars, Applieds, settings,
     handle, client, store, times, server
<1>3. pass' \in Passes
  BY DEF ThawForShutdown, Resumed, ResumeFails, Alive, Signal, Shape, Scalars, Passes, Places,
     settings, handle, client, store, times, server
<1>4. stopper' \in Stoppers
  BY DEF ThawForShutdown, Resumed, ResumeFails, Alive, Signal, Shape, Scalars, settings, handle,
     client, store, times, server
<1> QED
  BY <1>1, <1>2, <1>3, <1>4 DEF Shape

LEMMA StartShape ==
    ASSUME Shape, Start
    PROVE  Shape'
<1>1. Scalars'
  <2>1. budget' \in [Events -> Nat]
    BY SpendType, EventsAre DEF Start, FirstDetection, ResumeFails, Shape, Scalars
  <2>2. proc' \in Processes
    BY SignalType DEF Start, Resumed, ResumeFails, Shape, Scalars, Processes
  <2>3. entry' \in Addresses \cup {None}
    BY CaseType DEF Start, FirstDetection, Shape, Scalars
  <2>4. record' \in Procs \cup {None} /\ hold' \in {"none", "uploads", "frozen"}
    BY DEF Start, Resumed, ResumeFails, Shape, Scalars
  <2> QED
    BY <2>1, <2>2, <2>3, <2>4 DEF Start, Shape, Scalars, Processes, settings, store, times
<1>2. mem' \in Applieds
  BY NoStopperType DEF Start, FirstDetection, Resumed, ResumeFails, Alive, Signal, Shape, Scalars,
     Applieds, settings, handle, client, store, times, server
<1>3. pass' \in Passes
  BY NoStopperType DEF Start, FirstDetection, Resumed, ResumeFails, Alive, Signal, Shape, Scalars,
     Passes, Places, settings, handle, client, store, times, server
<1>4. stopper' \in Stoppers
  BY NoStopperType DEF Start, FirstDetection, Resumed, ResumeFails, Alive, Signal, Shape, Scalars,
     Stoppers, Procs, settings, handle, client, store, times, server
<1> QED
  BY <1>1, <1>2, <1>3, <1>4 DEF Shape

LEMMA OrderIs == /\ Order[1] = "down" /\ Order[2] = "up" /\ Order[3] = "alt"
                 /\ \A s \in Slots : \E i \in 1..3 : s = Order[i]
                 /\ \A i \in 1..3 : Order[i] \in Slots
BY DEF Order, Slots, Dirs

LEMMA FirstUnread ==
    ASSUME Any(Unread)
    PROVE  First(Unread) \in Slots /\ Unread(First(Unread))
<1>1. \E i \in 1..3 : Unread(Order[i])
  BY OrderIs DEF Any
<1>2. \E i \in 1..3 : Unread(Order[i]) /\ \A j \in 1..(i - 1) : ~Unread(Order[j])
  <2>1. CASE Unread(Order[1])
    BY <2>1
  <2>2. CASE ~Unread(Order[1]) /\ Unread(Order[2])
    BY <2>2
  <2>3. CASE ~Unread(Order[1]) /\ ~Unread(Order[2]) /\ Unread(Order[3])
    BY <2>3
  <2> QED
    BY <1>1, <2>1, <2>2, <2>3
<1> QED
  BY <1>2, OrderIs DEF First

LEMMA FirstUnsettled ==
    ASSUME Any(Unsettled)
    PROVE  First(Unsettled) \in Slots /\ Unsettled(First(Unsettled))
<1>1. \E i \in 1..3 : Unsettled(Order[i])
  BY OrderIs DEF Any
<1>2. \E i \in 1..3 : Unsettled(Order[i]) /\ \A j \in 1..(i - 1) : ~Unsettled(Order[j])
  <2>1. CASE Unsettled(Order[1])
    BY <2>1
  <2>2. CASE ~Unsettled(Order[1]) /\ Unsettled(Order[2])
    BY <2>2
  <2>3. CASE ~Unsettled(Order[1]) /\ ~Unsettled(Order[2]) /\ Unsettled(Order[3])
    BY <2>3
  <2> QED
    BY <1>1, <2>1, <2>2, <2>3
<1> QED
  BY <1>2, OrderIs DEF First

LEMMA ReadOwnShape ==
    ASSUME Shape, Local, ReadOwn
    PROVE  Shape'
<1> DEFINE s == First(Unread)
           c == ClientAt(pass.id)
<1>1. s \in Slots
  BY FirstUnread DEF ReadOwn
<1>2. c \in Clients
  BY CaseType DEF ReadOwn, Gate, Local, AtClient, ClientAt, Shape, Scalars
<1>3. rate[c][s] \in Rates \cup {None}
  BY <1>1, <1>2 DEF Shape, Scalars, OwnLimits
<1>4. mem' \in Applieds
  <2>1. mem' = mem \/ \E b \in BOOLEAN : mem' = [mem EXCEPT !.altRead = b]
    BY DEF ReadOwn, CallFails, Shape, Applieds
  <2> QED
    BY <2>1 DEF Shape, Applieds
<1>5. pass' \in Passes
  <2>1. CASE pass' = [pass EXCEPT !.own[s] = rate[c][s], !.read = @ \/ rate[c][s] # None]
    <3>1. [pass.own EXCEPT ![s] = rate[c][s]] \in OwnLimits
      BY <1>3 DEF Shape, Passes, OwnLimits
    <3> QED
      BY <2>1, <3>1 DEF Shape, Passes
  <2> QED
    BY <2>1, ThroughType DEF ReadOwn, CallFails, Shape
<1>6. budget' \in [Events -> Nat]
  BY SpendType, EventsAre DEF ReadOwn, CallFails, Shape, Scalars
<1> QED
  BY <1>4, <1>5, <1>6 DEF ReadOwn, Shape, Scalars, settings, handle, client, store, times

LEMMA LoweredType ==
    ASSUME NEW want \in Rates, NEW own \in Rates
    PROVE  Lowered(want, own) \in Rates
BY DEF Lowered

LEMMA WantedType ==
    ASSUME Shape, NEW s \in Slots
    PROVE  /\ Wanted(s) \in Rates \cup {None}
           /\ Wanted(s) # None => pass.own[s] # None
<1>1. pass.want[s] \in Rates \cup {None} /\ pass.own[s] \in Rates \cup {None}
  BY DEF Shape, Passes, OwnLimits
<1> QED
  BY <1>1, LoweredType DEF Wanted

LEMMA SetLimitShape ==
    ASSUME Shape, Local, SetLimit
    PROVE  Shape'
<1> DEFINE s == First(Unsettled)
           c == ClientAt(pass.id)
           v == IF Unset(s) THEN Wanted(s) ELSE pass.own[s]
           sets == [rate EXCEPT ![c][s] = v]
<1>1. s \in Slots
  BY FirstUnsettled DEF SetLimit
<1>2. c \in Clients
  BY CaseType DEF SetLimit, Gate, Local, AtClient, ClientAt, Shape, Scalars
<1>3. Wanted(s) \in Rates \cup {None} /\ pass.own[s] \in Rates \cup {None}
  BY <1>1, WantedType DEF Shape, Passes, OwnLimits
<1>4. sets \in [Clients -> OwnLimits]
  <2>1. rate[c] \in OwnLimits /\ rate \in [Clients -> OwnLimits]
    BY <1>2 DEF Shape, Scalars
  <2>2. [rate[c] EXCEPT ![s] = v] \in OwnLimits
    BY <1>3, <2>1 DEF OwnLimits
  <2> QED
    BY <2>1, <2>2
<1>5. rate' \in [Clients -> OwnLimits]
  BY <1>4 DEF SetLimit, Shape, Scalars
<1>6. mem' \in Applieds
  <2>1. [mem.have EXCEPT ![s] = Wanted(s)] \in OwnLimits
    BY <1>3 DEF Shape, Applieds, OwnLimits
  <2>2. ASSUME NEW b \in BOOLEAN, NEW h \in OwnLimits, mem' = [mem EXCEPT !.have = h, !.altRead = b]
        PROVE  mem' \in Applieds
    BY <2>2 DEF Shape, Applieds
  <2>3. mem' = mem \/ \E b \in BOOLEAN, h \in OwnLimits : mem' = [mem EXCEPT !.have = h, !.altRead = b]
    BY <2>1 DEF SetLimit, Shape, Applieds
  <2> QED
    BY <2>2, <2>3 DEF Shape
<1>7. pass' \in Passes
  <2>1. [pass.own EXCEPT ![s] = None] \in OwnLimits
    BY DEF Shape, Passes, OwnLimits
  <2>2. CASE pass' = [pass EXCEPT !.own[s] = None, !.at = "keep"]
    BY <2>1, <2>2 DEF Shape, Passes, Places
  <2> QED
    BY <2>2, ThroughType DEF SetLimit, CallFails, Shape
<1>8. budget' \in [Events -> Nat]
  BY SpendType, EventsAre DEF SetLimit, CallFails, Shape, Scalars
<1> QED
  BY <1>5, <1>6, <1>7, <1>8 DEF SetLimit, Shape, Scalars, settings, handle, store, times

LEMMA PutBackType ==
    ASSUME rate \in [Clients -> OwnLimits], NEW c \in Clients, NEW own \in OwnLimits, NEW slots \in SUBSET Slots
    PROVE  PutBack(c, own, slots) \in [Clients -> OwnLimits]
<1> DEFINE r == [s \in Slots |-> IF s \in slots THEN own[s] ELSE rate[c][s]]
<1>1. r \in OwnLimits
  BY DEF OwnLimits
<1>2. PutBack(c, own, slots) = [rate EXCEPT ![c] = r]
  BY DEF PutBack
<1> QED
  BY <1>1, <1>2

LEMMA RestoreOneShape ==
    ASSUME Shape, Local, NEW a \in Addresses, RestoreOne(a)
    PROVE  Shape'
<1> DEFINE own == mem.previous[a]
           c   == ClientAt(a)
<1>1. c \in Clients
  BY CaseType DEF ClientAt, Shape, Scalars
<1>2. own \in OwnLimits
  BY DEF RestoreOne, Gate, Local, Entries, Shape, Applieds
<1>3. Stored(own) \subseteq Slots /\ \A slots \in Begun(own) : slots \subseteq Slots
  BY DEF Stored, Begun
<1>4. rate' \in [Clients -> OwnLimits]
  BY <1>1, <1>2, <1>3, PutBackType DEF RestoreOne, Shape, Scalars
<1>5. pass' \in Passes
  <2>1. \/ pass' = [pass EXCEPT !.todo = @ \ {a}, !.gone = @ \cup {a}]
        \/ pass' = [pass EXCEPT !.todo = @ \ {a}, !.gone = IF a \in late THEN @ \cup {a} ELSE @]
        \/ pass' = [pass EXCEPT !.todo = {}]
    BY DEF RestoreOne
  <2>2. CASE pass' = [pass EXCEPT !.todo = @ \ {a}, !.gone = @ \cup {a}]
    BY <2>2 DEF Shape, Passes
  <2>3. CASE pass' = [pass EXCEPT !.todo = @ \ {a}, !.gone = IF a \in late THEN @ \cup {a} ELSE @]
    BY <2>3 DEF Shape, Passes
  <2>4. CASE pass' = [pass EXCEPT !.todo = {}]
    BY <2>4 DEF Shape, Passes
  <2> QED
    BY <2>1, <2>2, <2>3, <2>4
<1>6. budget' \in [Events -> Nat]
  BY SpendType, EventsAre DEF RestoreOne, Shape, Scalars
<1>7. due' \subseteq Addresses /\ dropped' \subseteq Addresses
  BY DEF RestoreOne, Shape, Scalars
<1> QED
  BY <1>4, <1>5, <1>6, <1>7 DEF RestoreOne, Shape, Scalars, settings, handle, store

LEMMA WriteFailsShape ==
    ASSUME Shape, NEW at \in Places, WriteFails(at)
    PROVE  Shape'
<1>1. pass' \in Passes
  BY ThroughType DEF WriteFails
<1>2. budget' \in [Events -> Nat]
  BY SpendType, EventsAre DEF WriteFails, Shape, Scalars
<1> QED
  BY <1>1, <1>2 DEF WriteFails, Shape, Scalars, settings, handle, client, store, times

LEMMA RestartClientShape ==
    ASSUME Shape, NEW c \in Clients, RestartClient(c)
    PROVE  Shape'
<1>1. budget' \in [Events -> Nat]
  BY SpendType, EventsAre DEF RestartClient, Shape, Scalars
<1>2. proc' \in Processes
  BY DEF RestartClient, Shape, Scalars, Processes
<1>3. rate' \in [Clients -> OwnLimits]
  BY CaseType DEF RestartClient, Shape, Scalars
<1> QED
  BY <1>1, <1>2, <1>3 DEF RestartClient, Shape, Scalars, Processes, settings, handle, store, times,
     server

LEMMA ResumeElsewhereShape ==
    ASSUME Shape, NEW c \in Clients, ResumeElsewhere(c)
    PROVE  Shape'
<1>1. budget' \in [Events -> Nat]
  BY SpendType, EventsAre DEF ResumeElsewhere, Shape, Scalars
<1>2. proc' \in Processes
  BY DEF ResumeElsewhere, Shape, Scalars, Processes
<1> QED
  BY <1>1, <1>2 DEF ResumeElsewhere, Shape, Scalars, Processes, settings, handle, store, times,
     server

-----------------------------------------------------------------------------
(* Where a pass is, and what it knows of a stopped client. *)

Knows == Local /\ Threads /\ Frozen /\ Stopped

LEMMA Signals ==
    ASSUME Shape
    PROVE  budget["signal"] \in Nat /\ given.budget["signal"] \in Nat
BY CaseType, EventsAre DEF Shape, Scalars

\* What comes in around the task leaves all of it alone.
LEMMA Around ==
    ASSUME Shape, Knows, UNCHANGED <<given, proc, record, stopper, hold, mem, pass, up>>, Shape',
           budget'["signal"] <= budget["signal"]
    PROVE  Knows'
<1>0. /\ budget["signal"] \in Nat /\ given.budget["signal"] \in Nat /\ budget'["signal"] \in Nat
  BY Signals, EventsAre DEF Shape, Scalars
<1>1. Local' /\ Threads'
  BY DEF Knows, Local, Threads, Running, AtClient, Entries
<1>2. Frozen'
  BY DEF Knows, Frozen, Running, Moving, Current
<1>3. Stopped'
  BY <1>0 DEF Knows, Stopped
<1> QED
  BY <1>1, <1>2, <1>3 DEF Knows

\* A step from place to place keeps what is known of a stopped client.
LEMMA Moves ==
    ASSUME Shape, Shape', Threads, Frozen, Stopped, UNCHANGED <<given, proc, record, stopper, hold, up>>,
           mem'.frozen = mem.frozen, mem'.loaded = mem.loaded, budget'["signal"] <= budget["signal"],
           pass.at \notin {"freezing", "again"}, pass'.at \notin {"freezing", "again", "thaw", "thawed"},
           pass'.at \in Moving => mem.frozen = None
    PROVE  Threads' /\ Frozen' /\ Stopped'
<1>0. /\ budget["signal"] \in Nat /\ given.budget["signal"] \in Nat /\ budget'["signal"] \in Nat
  BY Signals, EventsAre DEF Shape, Scalars
<1>1. Threads'
  BY DEF Threads, Running
<1>2. Frozen'
  BY DEF Frozen, Running, Current
<1>3. Stopped'
  BY <1>0 DEF Stopped
<1> QED
  BY <1>1, <1>2, <1>3

LEMMA SetCoreKnows ==
    ASSUME SInv, SetCore
    PROVE  Knows'
<1>1. Shape'
  BY SetCoreShape DEF SInv
<1>2. budget'["signal"] <= budget["signal"]
  BY SpendType, EventsAre DEF SetCore, SInv, Shape, Scalars
<1> QED
  BY <1>1, <1>2, Around DEF SetCore, SInv, Knows, client, handle, settings, server

LEMMA SetPauseKnows ==
    ASSUME SInv, SetPause
    PROVE  Knows'
<1>1. Shape'
  BY SetPauseShape DEF SInv
<1>2. budget'["signal"] <= budget["signal"]
  BY SpendType, EventsAre DEF SetPause, SInv, Shape, Scalars
<1> QED
  BY <1>1, <1>2, Around DEF SetPause, SInv, Knows, client, handle, settings, server

LEMMA DetectKnows ==
    ASSUME SInv, Detect
    PROVE  Knows'
<1>1. Shape'
  BY DetectShape DEF SInv
<1>2. budget'["signal"] <= budget["signal"]
  BY SpendType, EventsAre DEF Detect, SInv, Shape, Scalars
<1> QED
  BY <1>1, <1>2, Around DEF Detect, SInv, Knows, client, handle, settings, server

LEMMA DetectedKnows ==
    ASSUME SInv, Detected
    PROVE  Knows'
<1>1. Shape'
  BY DetectedShape DEF SInv
<1>2. budget'["signal"] <= budget["signal"]
  BY DEF Detected, SInv, Shape, Scalars, Events
<1> QED
  BY <1>1, <1>2, Around DEF Detected, SInv, Knows, client, handle, settings, server

LEMMA TickKnows ==
    ASSUME SInv, Tick
    PROVE  Knows'
<1>1. Shape'
  BY TickShape DEF SInv
<1>2. budget'["signal"] <= budget["signal"]
  BY DEF Tick, SInv, Shape, Scalars, Events
<1> QED
  BY <1>1, <1>2, Around DEF Tick, SInv, Knows, client, handle, settings, server

LEMMA DayKnows ==
    ASSUME SInv, Day
    PROVE  Knows'
<1>1. Shape'
  BY DayShape DEF SInv
<1>2. budget'["signal"] <= budget["signal"]
  BY SpendType, EventsAre DEF Day, SInv, Shape, Scalars
<1> QED
  BY <1>1, <1>2, Around DEF Day, SInv, Knows, client, handle, settings, server

LEMMA WakeKnows ==
    ASSUME SInv, Wake
    PROVE  Knows'
<1>1. Shape'
  BY WakeShape DEF SInv
<1>2. budget'["signal"] <= budget["signal"]
  BY DEF Wake, SInv, Shape, Scalars, Events
<1>3. Local'
  BY <1>1, IdleType DEF Wake, Gate, Running, Entries, SInv, Local, AtClient, Shape, Applieds,
     Passes, Places, server
<1>4. Threads' /\ Frozen' /\ Stopped'
  BY <1>1, IdleType, <1>2, Moves DEF Wake, Gate, Running, Entries, SInv, Local, Frozen, Moving,
     Shape, Applieds, Passes, Places, server, settings, client
<1> QED
  BY <1>3, <1>4 DEF Knows

LEMMA RecheckKnows ==
    ASSUME SInv, Recheck
    PROVE  Knows'
<1>1. Shape'
  BY RecheckShape DEF SInv
<1>2. budget'["signal"] <= budget["signal"]
  BY DEF Recheck, SInv, Shape, Scalars, Events
<1>0. mem.loaded
  BY NotLoadedType, LimitsAssumption DEF Recheck, Holding, SInv, Local, NoLimits, Slots, Dirs,
     Held, Rates
<1>3. Local'
  BY <1>0, <1>1, IdleType, NotLoadedType DEF Recheck, Gate, Running, Holding, SInv, Local,
     AtClient, Shape, Applieds, Passes, Places, server
<1>4. Threads' /\ Frozen' /\ Stopped'
  BY <1>1, IdleType, NotLoadedType, <1>2, Moves DEF Recheck, Gate, Running, Holding, SInv, Local,
     Frozen, Moving, Shape, Applieds, Passes, Places, server, settings, client
<1> QED
  BY <1>3, <1>4 DEF Knows

LEMMA ChooseKnows ==
    ASSUME SInv, Choose
    PROVE  Knows'
<1>1. Shape'
  BY ChooseShape DEF SInv
<1>2. budget'["signal"] <= budget["signal"]
  BY DEF Choose, SInv, Shape, Scalars, Events
<1>3. mem.loaded /\ mem.frozen = None /\ Running /\ pass.at = "choose"
  BY DEF Choose, Gate, SInv, Local, Frozen, Moving
<1>4. /\ mem'.loaded = mem.loaded /\ mem'.frozen = mem.frozen
      /\ mem'.saved = mem.saved /\ mem'.previous = mem.previous
  <2>1. CASE mem' = [Forgetting(mem) EXCEPT !.client = entry]
    BY <2>1, ForgettingType DEF SInv, Shape, Applieds
  <2> QED
    BY <2>1 DEF Choose
<1>5. \/ pass'.at = "rest"
      \/ pass'.at = "aside" /\ pass'.then = "rest" /\ mem.saved # None
      \/ pass'.at = "apply" /\ pass'.id \in Addresses
  <2>1. CASE entry = None
    BY <2>1, ThroughType DEF Choose, SInv, Shape, Passes
  <2>2. CASE entry # None
    <3>1. \E w, g : pass' = [pass EXCEPT !.at = "apply", !.id = entry, !.goal = g, !.want = w]
      BY <2>2 DEF Choose
    <3> QED
      BY <2>2, <3>1 DEF SInv, Shape, Scalars, Passes
  <2> QED
    BY <2>1, <2>2
<1>6. UNCHANGED <<given, proc, record, stopper, hold, up>>
  BY DEF Choose, settings, client
<1>7. Local'
  BY <1>1, <1>3, <1>4, <1>5, <1>6 DEF SInv, Running, Local, AtClient
<1>8. Threads' /\ Frozen' /\ Stopped'
  BY <1>1, <1>2, <1>3, <1>4, <1>5, <1>6, Moves DEF SInv
<1> QED
  BY <1>7, <1>8 DEF Knows

LEMMA SetAsideKnows ==
    ASSUME SInv, SetAside
    PROVE  Knows'
<1>1. Shape'
  BY SetAsideShape DEF SInv
<1>2. budget'["signal"] <= budget["signal"]
  BY DEF SetAside, Writes, SInv, Shape, Scalars, Events
<1>3. Local'
  <2>1. mem.saved.at \in Addresses /\ mem.saved # None
    BY DEF SetAside, Gate, SInv, Local, Shape, Applieds, Records
  <2>2. previous'[mem.saved.at] = mem.saved.own /\ mem'.previous = previous' /\ mem'.saved = mem.saved
    BY <2>1 DEF SetAside, SInv, Shape, Applieds
  <2> QED
    BY <1>1, <2>1, <2>2, GotoType
    DEF SetAside, Gate, Running, Writes, SInv, Local, AtClient, Shape, Applieds, Places
<1>4. Threads' /\ Frozen' /\ Stopped'
  BY <1>1, GotoType, <1>2, Moves DEF SetAside, Gate, Running, Writes, SInv, Local, Frozen, Moving,
     Shape, Applieds, Passes, Places, server, settings, client
<1> QED
  BY <1>3, <1>4 DEF Knows

LEMMA ClearSavedKnows ==
    ASSUME SInv, ClearSaved
    PROVE  Knows'
<1>1. Shape'
  BY ClearSavedShape DEF SInv
<1>2. budget'["signal"] <= budget["signal"]
  BY DEF ClearSaved, Writes, SInv, Shape, Scalars, Events
<1>3. Local'
  BY <1>1, GotoType, ThroughType, IdleType DEF ClearSaved, Gate, Running, Writes, SInv, Local,
     AtClient, Shape, Applieds, Passes, Places, server
<1>4. Threads' /\ Frozen' /\ Stopped'
  BY <1>1, GotoType, ThroughType, IdleType, <1>2, Moves DEF ClearSaved, Gate, Running, Writes,
     SInv, Local, Frozen, Moving, Shape, Applieds, Passes, Places, server, settings, client
<1> QED
  BY <1>3, <1>4 DEF Knows

LEMMA TakeBackKnows ==
    ASSUME SInv, TakeBack
    PROVE  Knows'
<1>1. Shape'
  BY TakeBackShape DEF SInv
<1>2. budget'["signal"] <= budget["signal"]
  BY DEF TakeBack, Writes, SInv, Shape, Scalars, Events
<1>3. Local'
  BY <1>1, GotoType DEF TakeBack, Gate, Running, Writes, SInv, Local, AtClient, Shape, Applieds,
     Passes, Places, server
<1>4. Threads' /\ Frozen' /\ Stopped'
  BY <1>1, GotoType, <1>2, Moves DEF TakeBack, Gate, Running, Writes, SInv, Local, Frozen, Moving,
     Shape, Applieds, Passes, Places, server, settings, client
<1> QED
  BY <1>3, <1>4 DEF Knows

LEMMA UnlistKnows ==
    ASSUME SInv, Unlist
    PROVE  Knows'
<1>1. Shape'
  BY UnlistShape DEF SInv
<1>2. budget'["signal"] <= budget["signal"]
  BY DEF Unlist, Writes, SInv, Shape, Scalars, Events
<1>3. Local'
  BY <1>1, GotoType DEF Unlist, Gate, Running, Writes, SInv, Local, AtClient, Shape, Applieds,
     Passes, Places, server
<1>4. Threads' /\ Frozen' /\ Stopped'
  BY <1>1, GotoType, <1>2, Moves DEF Unlist, Gate, Running, Writes, SInv, Local, Frozen, Moving,
     Shape, Applieds, Passes, Places, server, settings, client
<1> QED
  BY <1>3, <1>4 DEF Knows

LEMMA RestoreEndKnows ==
    ASSUME SInv, RestoreEnd
    PROVE  Knows'
<1>1. Shape'
  BY RestoreEndShape DEF SInv
<1>2. budget'["signal"] <= budget["signal"]
  BY SpendType, EventsAre DEF RestoreEnd, SInv, Shape, Scalars
<1>3. Local'
  BY <1>1 DEF RestoreEnd, Gate, Running, Entries, SInv, Local, AtClient, Shape, Applieds, Passes,
     Places, server
<1>4. Threads' /\ Frozen' /\ Stopped'
  BY <1>1, <1>2, Moves DEF RestoreEnd, Gate, Running, Entries, SInv, Local, Frozen, Moving, Shape,
     Applieds, Passes, Places, server, settings, client
<1> QED
  BY <1>3, <1>4 DEF Knows

LEMMA ApplyKnows ==
    ASSUME SInv, Apply
    PROVE  Knows'
<1>1. Shape'
  BY ApplyShape DEF SInv
<1>2. budget'["signal"] <= budget["signal"]
  BY DEF Apply, SInv, Shape, Scalars, Events
<1>3. mem.loaded /\ mem.frozen = None /\ Running /\ pass.at = "apply" /\ pass.id \in Addresses
  BY DEF Apply, Gate, SInv, Local, Frozen, Moving, AtClient
<1>4. \/ pass'.at = "aside" /\ mem.saved # None /\ pass'.id = pass.id
      \/ pass'.at = "takeback" /\ mem.previous[pass.id] # None /\ pass'.id = pass.id
      \/ /\ pass'.at = "restore" /\ pass'.then = "read" /\ pass'.id = pass.id
         /\ pass'.todo = Entries(mem.previous)
      \/ pass'.at = "read" /\ pass'.id = pass.id
  <2> DEFINE next == [pass EXCEPT !.own = (IF mem.saved = None THEN NoLimits ELSE mem.saved.own), !.read = FALSE]
  <2>1. CASE mem.saved # None /\ pass' = [pass EXCEPT !.at = "aside", !.then = "apply"]
    BY <2>1 DEF SInv, Shape, Passes
  <2>2. CASE mem.previous[pass.id] # None /\ Goto("takeback")
    BY <2>2, GotoType DEF SInv, Shape, Places
  <2>3. CASE pass' = [next EXCEPT !.at = "restore", !.then = "read", !.todo = Entries(mem.previous)]
    BY <2>3 DEF SInv, Shape, Passes
  <2>4. CASE pass' = [next EXCEPT !.at = "read"]
    BY <2>4 DEF SInv, Shape, Passes
  <2> QED
    BY <2>1, <2>2, <2>3, <2>4 DEF Apply
<1>5. UNCHANGED <<given, proc, record, stopper, hold, up, mem>>
  BY DEF Apply, settings, client
<1>6. Local'
  BY <1>1, <1>3, <1>4, <1>5 DEF SInv, Running, Local, AtClient, Entries
<1>7. Threads' /\ Frozen' /\ Stopped'
  BY <1>1, <1>2, <1>3, <1>4, <1>5, Moves DEF SInv
<1> QED
  BY <1>6, <1>7 DEF Knows

LEMMA PersistKnows ==
    ASSUME SInv, Persist
    PROVE  Knows'
<1>1. Shape'
  BY PersistShape DEF SInv
<1>2. budget'["signal"] <= budget["signal"]
  BY DEF Persist, Writes, SInv, Shape, Scalars, Events
<1>3. Local'
  BY <1>1, GotoType DEF Persist, Gate, Running, Writes, SInv, Local, AtClient, Shape, Applieds,
     Passes, Places, server
<1>4. Threads' /\ Frozen' /\ Stopped'
  BY <1>1, GotoType, <1>2, Moves DEF Persist, Gate, Running, Writes, SInv, Local, Frozen, Moving,
     Shape, Applieds, Passes, Places, server, settings, client
<1> QED
  BY <1>3, <1>4 DEF Knows

LEMMA KeepSavedKnows ==
    ASSUME SInv, KeepSaved
    PROVE  Knows'
<1>1. Shape'
  BY KeepSavedShape DEF SInv
<1>2. budget'["signal"] <= budget["signal"]
  BY DEF KeepSaved, Writes, SInv, Shape, Scalars, Events
<1>3. Local'
  BY <1>1, GotoType DEF KeepSaved, Gate, Running, Writes, SInv, Local, AtClient, Shape, Applieds,
     Passes, Places, server
<1>4. Threads' /\ Frozen' /\ Stopped'
  BY <1>1, GotoType, <1>2, Moves DEF KeepSaved, Gate, Running, Writes, SInv, Local, Frozen, Moving,
     Shape, Applieds, Passes, Places, server, settings, client
<1> QED
  BY <1>3, <1>4 DEF Knows

LEMMA LimitsSetKnows ==
    ASSUME SInv, LimitsSet
    PROVE  Knows'
<1>1. Shape'
  BY LimitsSetShape DEF SInv
<1>2. budget'["signal"] <= budget["signal"]
  BY DEF LimitsSet, SInv, Shape, Scalars, Events
<1>3. Local'
  BY <1>1, GotoType, ThroughType, IdleType DEF LimitsSet, Gate, Running, SInv, Local, AtClient,
     Shape, Applieds, Passes, Places, server
<1>4. Threads' /\ Frozen' /\ Stopped'
  BY <1>1, GotoType, ThroughType, IdleType, <1>2, Moves DEF LimitsSet, Gate, Running, SInv, Local,
     Frozen, Moving, Shape, Applieds, Passes, Places, server, settings, client
<1> QED
  BY <1>3, <1>4 DEF Knows

LEMMA RecheckUploadsKnows ==
    ASSUME SInv, RecheckUploads
    PROVE  Knows'
<1>1. Shape'
  BY RecheckUploadsShape DEF SInv
<1>2. budget'["signal"] <= budget["signal"]
  BY SpendType, EventsAre DEF RecheckUploads, SInv, Shape, Scalars
<1>3. Local'
  BY <1>1, GotoType, ForgettingType DEF RecheckUploads, Gate, Running, SInv, Local, AtClient,
     Shape, Applieds, Passes, Places, server
<1>4. Threads' /\ Frozen' /\ Stopped'
  BY <1>1, GotoType, ForgettingType, <1>2, Moves DEF RecheckUploads, Gate, Running, SInv, Local,
     Frozen, Moving, Shape, Applieds, Passes, Places, server, settings, client
<1> QED
  BY <1>3, <1>4 DEF Knows

LEMMA RestKnows ==
    ASSUME SInv, Rest
    PROVE  Knows'
<1>1. Shape'
  BY RestShape DEF SInv
<1>2. budget'["signal"] <= budget["signal"]
  BY DEF Rest, SInv, Shape, Scalars, Events
<1>3. /\ mem.loaded /\ pass.at = "rest"
      /\ \/ pass'.at = "publish"
         \/ /\ pass'.at = "restore" /\ pass'.then = "publish" /\ pass'.todo \subseteq Entries(mem.previous)
            /\ hold # "frozen"
  <2>1. CASE Goto("publish")
    BY <2>1, GotoType DEF Rest, Gate, SInv, Local, Shape, Places
  <2>2. ASSUME NEW todo \in SUBSET Entries(mem.previous), hold # "frozen", Trying(todo, "publish")
        PROVE  /\ pass'.at = "restore" /\ pass'.then = "publish" /\ pass'.todo \subseteq Entries(mem.previous)
               /\ hold # "frozen"
    BY <2>2 DEF Trying, SInv, Shape, Passes
  <2>3. mem.loaded /\ pass.at = "rest"
    BY DEF Rest, Gate, SInv, Local
  <2> QED
    BY <2>1, <2>2, <2>3, GotoType DEF Rest, SInv, Shape, Places
<1>4. UNCHANGED <<given, proc, record, stopper, hold, up, mem>>
  BY DEF Rest, settings, client
<1>5. Local'
  BY <1>1, <1>3, <1>4 DEF Rest, Gate, Running, SInv, Local, AtClient, Entries
<1>6. pass'.at \in Moving => mem.frozen = None
  BY <1>3 DEF Rest, Gate, SInv, Frozen, Moving
<1>7. Threads' /\ Frozen' /\ Stopped'
  BY <1>1, <1>2, <1>3, <1>4, <1>6, Moves DEF SInv
<1> QED
  BY <1>5, <1>7 DEF Knows

LEMMA ReplayDetectKnows ==
    ASSUME SInv, ReplayDetect
    PROVE  Knows'
<1>1. Shape'
  BY ReplayDetectShape DEF SInv
<1>2. budget'["signal"] <= budget["signal"]
  BY SpendType, EventsAre DEF ReplayDetect, SInv, Shape, Scalars
<1>3. Local'
  BY <1>1, GotoType DEF ReplayDetect, Gate, Running, SInv, Local, AtClient, Shape, Applieds,
     Passes, Places, server
<1>4. Threads' /\ Frozen' /\ Stopped'
  BY <1>1, GotoType, <1>2, Moves DEF ReplayDetect, Gate, Running, SInv, Local, Frozen, Moving,
     Shape, Applieds, Passes, Places, server, settings, client
<1> QED
  BY <1>3, <1>4 DEF Knows

LEMMA WriteFailsKnows ==
    ASSUME SInv, NEW at \in {"aside", "clear", "takeback", "unlist", "read", "keep"}, WriteFails(at)
    PROVE  Knows'
<1>1. Shape'
  BY WriteFailsShape DEF SInv, Places
<1>2. budget'["signal"] <= budget["signal"]
  BY SpendType, EventsAre DEF WriteFails, SInv, Shape, Scalars
<1>3. /\ pass.at = at /\ Running /\ pass'.at = "rest"
      /\ UNCHANGED <<given, proc, record, stopper, hold, up, mem>>
  BY ThroughType DEF WriteFails, Gate, settings, client
<1>4. mem.loaded
  BY <1>3 DEF SInv, Local
<1>5. Local'
  BY <1>1, <1>3, <1>4 DEF SInv, Local, Running, AtClient
<1>6. Threads' /\ Frozen' /\ Stopped'
  BY <1>1, <1>2, <1>3, Moves DEF SInv, Moving
<1> QED
  BY <1>5, <1>6 DEF Knows

LEMMA RestoreOneKnows ==
    ASSUME SInv, NEW a \in Addresses, RestoreOne(a)
    PROVE  Knows'
<1>1. Shape'
  BY RestoreOneShape DEF SInv
<1>2. budget'["signal"] <= budget["signal"]
  BY SpendType, EventsAre DEF RestoreOne, SInv, Shape, Scalars
<1>3. /\ pass.at = "restore" /\ Running
      /\ UNCHANGED <<given, proc, record, stopper, hold, up, mem>>
  BY DEF RestoreOne, Gate, settings, client
<1>4. /\ pass'.at = pass.at /\ pass'.then = pass.then /\ pass'.id = pass.id
      /\ pass'.todo \subseteq pass.todo
  BY DEF RestoreOne, SInv, Shape, Passes
<1>5. Local'
  BY <1>1, <1>3, <1>4 DEF SInv, Local, Running, AtClient, Entries
<1>6. Threads' /\ Frozen' /\ Stopped'
  BY <1>1, <1>2, <1>3, <1>4, Moves DEF SInv, Frozen, Moving
<1> QED
  BY <1>5, <1>6 DEF Knows

LEMMA ReadOwnKnows ==
    ASSUME SInv, ReadOwn
    PROVE  Knows'
<1>1. Shape'
  BY ReadOwnShape DEF SInv
<1>2. budget'["signal"] <= budget["signal"]
  <2>1. UNCHANGED budget \/ Spend("fail")
    BY DEF ReadOwn, CallFails
  <2>2. CASE UNCHANGED budget
    BY <2>2, Signals DEF SInv
  <2> QED
    BY <2>1, <2>2, SpendType, EventsAre DEF SInv, Shape, Scalars
<1>3. /\ pass.at = "read" /\ Running /\ mem.loaded /\ pass.id \in Addresses
      /\ UNCHANGED <<given, proc, record, stopper, hold, up>>
  BY DEF ReadOwn, Gate, settings, client, SInv, Local, AtClient
<1>4. /\ mem'.loaded = mem.loaded /\ mem'.frozen = mem.frozen
      /\ mem'.saved = mem.saved /\ mem'.previous = mem.previous
  BY DEF ReadOwn, CallFails, SInv, Shape, Applieds
<1>5. pass'.at = "rest" \/ (pass'.at = "read" /\ pass'.id = pass.id)
  BY <1>3, ThroughType DEF ReadOwn, CallFails, SInv, Shape, Passes
<1>6. Local'
  BY <1>1, <1>3, <1>4, <1>5 DEF SInv, Local, Running, AtClient
<1>7. Threads' /\ Frozen' /\ Stopped'
  BY <1>1, <1>2, <1>3, <1>4, <1>5, Moves DEF SInv, Frozen, Moving
<1> QED
  BY <1>6, <1>7 DEF Knows

LEMMA SetLimitKnows ==
    ASSUME SInv, SetLimit
    PROVE  Knows'
<1>1. Shape'
  BY SetLimitShape DEF SInv
<1>2. budget'["signal"] <= budget["signal"]
  <2>1. UNCHANGED budget \/ Spend("fail")
    BY DEF SetLimit, CallFails
  <2>2. CASE UNCHANGED budget
    BY <2>2, Signals DEF SInv
  <2> QED
    BY <2>1, <2>2, SpendType, EventsAre DEF SInv, Shape, Scalars
<1>3. /\ pass.at = "set" /\ Running /\ mem.loaded /\ pass.id \in Addresses
      /\ UNCHANGED <<given, proc, record, stopper, hold, up>>
  BY DEF SetLimit, Gate, settings, SInv, Local, AtClient
<1>4. /\ mem'.loaded = mem.loaded /\ mem'.frozen = mem.frozen
      /\ mem'.saved = mem.saved /\ mem'.previous = mem.previous
  BY DEF SetLimit, CallFails, SInv, Shape, Applieds
<1>5. pass'.at = "rest" \/ (pass'.at \in {"set", "keep"} /\ pass'.id = pass.id)
  BY <1>3, ThroughType DEF SetLimit, CallFails, SInv, Shape, Passes
<1>6. Local'
  BY <1>1, <1>3, <1>4, <1>5 DEF SInv, Local, Running, AtClient
<1>7. Threads' /\ Frozen' /\ Stopped'
  BY <1>1, <1>2, <1>3, <1>4, <1>5, Moves DEF SInv, Frozen, Moving
<1> QED
  BY <1>6, <1>7 DEF Knows

\* The signals left never grow.
LEMMA LessSignals ==
    ASSUME Shape, Shape', Stopped, UNCHANGED given, budget'["signal"] <= budget["signal"]
    PROVE  budget'["signal"] <= given'.budget["signal"]
<1>1. /\ budget["signal"] \in Nat /\ given.budget["signal"] \in Nat /\ budget'["signal"] \in Nat
  BY Signals, EventsAre DEF Shape, Scalars
<1> QED
  BY <1>1 DEF Stopped

LEMMA LoadKnows ==
    ASSUME SInv, Load
    PROVE  Knows'
<1>1. Shape'
  BY LoadShape DEF SInv
<1>2. budget'["signal"] <= budget["signal"]
  BY SpendType, EventsAre DEF Load, SInv, Shape, Scalars
<1>3. /\ pass.at = "load" /\ Running /\ stopper.st = "idle"
      /\ UNCHANGED <<given, proc, record, stopper, hold, up>>
  BY DEF Load, Gate, settings, client, SInv, Threads
<1>4. \/ mem' = mem /\ pass'.at = "wait"
      \/ /\ mem'.loaded /\ mem'.frozen = record /\ mem'.saved = saved /\ mem'.previous = previous
         /\ pass'.at = "hold"
  <2>1. CASE mem' = mem /\ pass' = [Idle EXCEPT !.ok = FALSE]
    BY <2>1, IdleType DEF Passes
  <2>2. CASE mem' = [NotLoaded EXCEPT !.loaded = TRUE, !.saved = saved, !.previous = previous, !.frozen = record]
             /\ Goto("hold")
    BY <2>2, NotLoadedType, GotoType DEF SInv, Shape, Places, Applieds
  <2> QED
    BY <2>1, <2>2 DEF Load
<1>5. Local'
  BY <1>3, <1>4 DEF SInv, Local, Running, AtClient
<1>6. Threads'
  BY <1>3, <1>4 DEF SInv, Threads, Running
<1>7. Frozen'
  BY <1>3, <1>4 DEF SInv, Frozen, Running, Current, Moving
<1>8. Stopped'
  BY <1>1, <1>2, <1>3, LessSignals DEF SInv, Stopped
<1> QED
  BY <1>5, <1>6, <1>7, <1>8 DEF Knows

LEMMA HoldKnows ==
    ASSUME SInv, Hold
    PROVE  Knows'
<1>1. Shape'
  BY HoldShape DEF SInv
<1>2. UNCHANGED <<budget, given, proc, record, stopper, hold, up>>
  BY DEF Hold, settings, client
<1>3. pass.at = "hold" /\ Running /\ mem.loaded /\ stopper.st = "idle"
  BY DEF Hold, Gate, SInv, Local, Threads
<1>4. /\ mem'.loaded = mem.loaded /\ mem'.frozen = mem.frozen
      /\ mem'.saved = mem.saved /\ mem'.previous = mem.previous
  BY DEF Hold, SInv, Shape, Applieds
<1>5. \/ pass'.at = "rest"
      \/ pass'.at = IF mem.frozen # None THEN "thaw" ELSE "choose"
  BY ThroughType DEF Hold, SInv, Shape, Passes
<1>6. Local'
  BY <1>2, <1>3, <1>4, <1>5 DEF SInv, Local, Running, AtClient
<1>7. Threads'
  BY <1>2, <1>3, <1>4, <1>5 DEF SInv, Threads, Running
<1>8. Frozen'
  BY <1>2, <1>3, <1>4, <1>5 DEF SInv, Frozen, Running, Current, Moving
<1>9. Stopped'
  BY <1>2 DEF SInv, Stopped
<1> QED
  BY <1>6, <1>7, <1>8, <1>9 DEF Knows

LEMMA FindProcessKnows ==
    ASSUME SInv, FindProcess
    PROVE  Knows'
<1>1. Shape'
  BY FindProcessShape DEF SInv
<1>2. budget'["signal"] <= budget["signal"]
  <2>1. UNCHANGED budget \/ Spend("fail") \/ Spend("refuse")
    BY DEF FindProcess, CallFails
  <2>2. CASE UNCHANGED budget
    BY <2>2, Signals DEF SInv
  <2> QED
    BY <2>1, <2>2, SpendType, EventsAre DEF SInv, Shape, Scalars
<1>3. /\ pass.at = "freeze" /\ Running /\ mem.loaded /\ mem.frozen = None /\ record = None
      /\ pass.id \in Addresses /\ stopper.st = "idle" /\ up # "dead"
      /\ UNCHANGED <<given, proc, record, up>>
  BY DEF FindProcess, Gate, settings, client, SInv, Local, AtClient, Threads, Frozen, Moving,
     Running
<1>4. /\ mem'.loaded = mem.loaded /\ mem'.frozen = mem.frozen
      /\ mem'.saved = mem.saved /\ mem'.previous = mem.previous
  BY DEF FindProcess, Refuse, CallFails, SInv, Shape, Applieds
<1> DEFINE p == Current(ClientAt(pass.id))
<1>5. p # None /\ p.gen = proc[p.client].gen /\ p \in Procs
  BY <1>3, CaseType, LimitsAssumption DEF Current, ClientAt, Procs, SInv, Shape, Scalars
<1>6. \/ /\ pass'.at = "freezing" /\ pass'.id = pass.id /\ hold' = "frozen"
         /\ stopper'.st = "queued" /\ stopper'.kind = "freeze" /\ stopper'.proc = p
      \/ /\ pass'.at \in {"apply", "rest"} /\ (pass'.at = "apply" => pass'.id = pass.id)
         /\ UNCHANGED <<stopper, hold>>
  <2>1. CASE /\ stopper' = [st |-> "queued", kind |-> "freeze", proc |-> p, res |-> "none"]
             /\ hold' = "frozen" /\ pass' = [pass EXCEPT !.at = "freezing", !.before = hold]
    BY <2>1 DEF SInv, Shape, Passes
  <2>2. CASE Refuse /\ UNCHANGED <<stopper, hold>>
    BY <2>2 DEF Refuse, SInv, Shape, Passes
  <2>3. CASE Through(FALSE) /\ UNCHANGED <<stopper, hold>>
    BY <2>3, ThroughType
  <2> QED
    BY <2>1, <2>2, <2>3 DEF FindProcess, CallFails
<1>7. Local'
  BY <1>3, <1>4, <1>6 DEF SInv, Local, Running, AtClient
<1>8. Threads'
  BY <1>3, <1>4, <1>5, <1>6 DEF SInv, Threads, Running
<1>9. Frozen'
  BY <1>3, <1>4, <1>5, <1>6 DEF SInv, Frozen, Running, Current, Moving, Shape, Scalars, Procs
<1>10. Stopped'
  BY <1>1, <1>2, <1>3, LessSignals DEF SInv, Stopped
<1> QED
  BY <1>7, <1>8, <1>9, <1>10 DEF Knows

LEMMA FreezingKnows ==
    ASSUME SInv, Freezing
    PROVE  Knows'
<1>1. Shape'
  BY FreezingShape DEF SInv
<1>2. /\ pass.at = "freezing" /\ Running /\ mem.loaded /\ mem.frozen = None /\ stopper.st = "done"
      /\ pass.id \in Addresses /\ up # "dead" /\ stopper.proc # None /\ stopper' = NoStopper
      /\ UNCHANGED <<given, budget, proc, record, up>>
  BY DEF Freezing, Gate, settings, client, SInv, Local, AtClient, Threads, Frozen, Moving, Running
<1>3. /\ mem'.loaded = mem.loaded /\ mem'.saved = mem.saved /\ mem'.previous = mem.previous
      /\ mem'.frozen = IF stopper.res = "ok" THEN stopper.proc ELSE None
  BY <1>2 DEF Freezing, Refuse, SInv, Shape, Applieds
<1>4. /\ pass'.at \in {"apply", "rest"} /\ (pass'.at = "apply" => pass'.id = pass.id /\ stopper.res # "ok")
      /\ stopper.res = "ok" => hold' = hold
  BY ThroughType DEF Freezing, Refuse, SInv, Shape, Passes
<1>5. Local'
  BY <1>2, <1>3, <1>4 DEF SInv, Local, Running, AtClient
<1>6. Threads'
  BY <1>2, <1>3, <1>4, NoStopperType DEF SInv, Threads, Running
<1>7. Frozen'
  BY <1>2, <1>3, <1>4, NoStopperType DEF SInv, Threads, Frozen, Running, Current, Moving
<1>8. Stopped'
  BY <1>2 DEF SInv, Stopped, Running
<1> QED
  BY <1>5, <1>6, <1>7, <1>8 DEF Knows

LEMMA ThawKnows ==
    ASSUME SInv, Thaw
    PROVE  Knows'
<1>1. Shape'
  BY ThawShape DEF SInv
<1>2. budget'["signal"] <= budget["signal"]
  <2>1. UNCHANGED budget \/ Spend("signal") \/ Spend("db")
    BY DEF Thaw, Defer
  <2>2. CASE UNCHANGED budget
    BY <2>2, Signals DEF SInv
  <2> QED
    BY <2>1, <2>2, SpendType, EventsAre DEF SInv, Shape, Scalars
<1>3. /\ pass.at = "thaw" /\ Running /\ mem.loaded /\ mem.frozen # None /\ record = mem.frozen
      /\ mem.frozen \in Procs /\ stopper.st = "idle"
      /\ UNCHANGED <<given, record, stopper, hold, up, mem>>
  BY DEF Thaw, Gate, settings, SInv, Local, Threads, Frozen, Shape, Applieds
<1>4. \/ /\ pass'.at = "thawed" /\ Alive(record) /\ Signal(record, FALSE)
      \/ /\ pass'.at = "thawed" /\ ~Alive(record) /\ UNCHANGED proc
      \/ /\ pass'.at = "rest" /\ UNCHANGED proc
  BY <1>3, GotoType, ThroughType DEF Thaw, SInv, Shape, Places
<1>5. \A c \in Clients : /\ proc'[c].gen = proc[c].gen
                         /\ proc'[c].stopped => proc[c].stopped
                         /\ pass'.at = "thawed" => ~proc'[c].stopped
  <2>1. proc \in Processes
    BY DEF SInv, Shape, Scalars, Processes
  <2>2. \A c \in Clients : proc[c].stopped => record = Current(c)
    BY DEF SInv, Frozen
  <2>3. CASE pass'.at = "thawed" /\ Signal(record, FALSE)
    <3>1. \A c \in Clients : c # record.client => ~proc[c].stopped
      BY <2>2 DEF Current
    <3>2. \A c \in Clients : /\ proc'[c].gen = proc[c].gen
                             /\ proc'[c].stopped <=> IF c = record.client THEN FALSE ELSE proc[c].stopped
      BY <1>3, <2>1, <2>3, SignalType
    <3> QED
      BY <3>1, <3>2
  <2>4. CASE pass'.at = "thawed" /\ ~Alive(record) /\ UNCHANGED proc
    BY <2>2, <2>4 DEF Current, Alive
  <2>5. CASE pass'.at = "rest" /\ UNCHANGED proc
    BY <2>5
  <2> QED
    BY <1>4, <2>3, <2>4, <2>5
<1>6. Local'
  BY <1>3, <1>4 DEF SInv, Local, Running, AtClient
<1>7. Threads'
  BY <1>3, <1>4 DEF SInv, Threads, Running
<1>8. Frozen'
  <2>1. /\ record' # None => record'.gen <= proc'[record'.client].gen
        /\ stopper'.proc # None => stopper'.proc.gen <= proc'[stopper'.proc.client].gen
    BY <1>3, <1>5 DEF SInv, Frozen, Shape, Scalars, Stoppers, Procs
  <2>2. \A c \in Clients : proc'[c].stopped => record' = Current(c)'
    BY <1>3, <1>5 DEF SInv, Frozen, Current
  <2> QED
    BY <1>3, <1>4, <1>5, <2>1, <2>2 DEF SInv, Frozen, Running, Moving
<1>9. Stopped'
  BY <1>1, <1>2, <1>3, LessSignals DEF SInv, Stopped
<1> QED
  BY <1>6, <1>7, <1>8, <1>9 DEF Knows

LEMMA ThawedKnows ==
    ASSUME SInv, Thawed
    PROVE  Knows'
<1>1. Shape'
  BY ThawedShape DEF SInv
<1>2. /\ pass.at = "thawed" /\ Running /\ mem.loaded /\ stopper.st = "idle" /\ record' = None
      /\ UNCHANGED <<given, budget, proc, stopper, up>>
  BY DEF Thawed, Gate, settings, client, SInv, Local, Threads
<1>3. /\ mem'.loaded = mem.loaded /\ mem'.frozen = None
      /\ mem'.saved = mem.saved /\ mem'.previous = mem.previous
  BY DEF Thawed, SInv, Shape, Applieds
<1>4. pass'.at = "choose"
  BY GotoType DEF Thawed, SInv, Shape, Places
<1>5. Local'
  BY <1>2, <1>3, <1>4 DEF SInv, Local, Running, AtClient
<1>6. Threads'
  BY <1>2, <1>3, <1>4 DEF SInv, Threads, Running
<1>7. Frozen'
  BY <1>2, <1>3, <1>4 DEF SInv, Frozen, Running, Moving
<1>8. Stopped'
  BY <1>2 DEF SInv, Stopped, Running
<1> QED
  BY <1>5, <1>6, <1>7, <1>8 DEF Knows

LEMMA RecheckFrozenKnows ==
    ASSUME SInv, RecheckFrozen
    PROVE  Knows'
<1>1. Shape'
  BY RecheckFrozenShape DEF SInv
<1>2. budget'["signal"] <= budget["signal"]
  <2>1. UNCHANGED budget \/ Spend("db")
    BY DEF RecheckFrozen, LetGo, Defer
  <2>2. CASE UNCHANGED budget
    BY <2>2, Signals DEF SInv
  <2> QED
    BY <2>1, <2>2, SpendType, EventsAre DEF SInv, Shape, Scalars
<1>3. /\ pass.at = "recheck" /\ Running /\ mem.loaded /\ mem.frozen # None /\ record = mem.frozen
      /\ stopper.st = "idle" /\ hold = "frozen" /\ up # "dead"
      /\ UNCHANGED <<given, proc, up>>
  BY DEF RecheckFrozen, Gate, settings, client, SInv, Local, Threads, Frozen, Running
<1>4. /\ mem'.loaded = mem.loaded /\ mem'.saved = mem.saved /\ mem'.previous = mem.previous
      /\ \/ /\ pass'.at = "hold" /\ record' = None /\ mem'.frozen = None /\ UNCHANGED stopper /\ ~Alive(record)
         \/ pass'.at = "hold" /\ UNCHANGED <<record, mem, hold, stopper>>
         \/ /\ pass'.at = "again" /\ UNCHANGED <<record, mem, hold>>
            /\ stopper'.st = "queued" /\ stopper'.kind = "again" /\ stopper'.proc = mem.frozen
  <2>1. CASE LetGo /\ Goto("hold") /\ UNCHANGED stopper /\ ~Alive(record)
    <3>1. /\ mem'.loaded = mem.loaded /\ mem'.saved = mem.saved /\ mem'.previous = mem.previous
          /\ mem'.frozen = None
      BY <2>1, ForgettingType DEF LetGo, SInv, Shape, Applieds
    <3> QED
      BY <2>1, <3>1, GotoType DEF LetGo, SInv, Shape, Places
  <2>2. CASE Goto("hold") /\ UNCHANGED <<record, mem, hold, stopper>>
    BY <2>2, GotoType DEF SInv, Shape, Places
  <2>3. CASE /\ stopper' = [st |-> "queued", kind |-> "again", proc |-> mem.frozen, res |-> "none"]
             /\ Goto("again") /\ UNCHANGED <<record, mem, hold>>
    BY <2>3, GotoType DEF SInv, Shape, Places
  <2> QED
    BY <1>3, <2>1, <2>2, <2>3 DEF RecheckFrozen
<1>5. Local'
  BY <1>3, <1>4 DEF SInv, Local, Running, AtClient
<1>6. Threads'
  BY <1>3, <1>4 DEF SInv, Threads, Running
<1>7. Frozen'
  <2>1. CASE ~Alive(record) /\ record' = None
    <3>1. \A c \in Clients : ~proc[c].stopped
      BY <2>1 DEF SInv, Frozen, Current, Alive
    <3> QED
      BY <1>3, <1>4, <2>1, <3>1 DEF SInv, Frozen, Running, Moving
  <2>2. CASE UNCHANGED <<record, mem, hold>>
    BY <1>3, <1>4, <2>2 DEF SInv, Frozen, Running, Moving, Current
  <2> QED
    BY <1>4, <2>1, <2>2
<1>8. Stopped'
  BY <1>1, <1>2, <1>3, LessSignals DEF SInv, Stopped, Running
<1> QED
  BY <1>5, <1>6, <1>7, <1>8 DEF Knows

LEMMA StoppedAgainKnows ==
    ASSUME SInv, StoppedAgain
    PROVE  Knows'
<1>1. Shape'
  BY StoppedAgainShape DEF SInv
<1>2. /\ pass.at = "again" /\ Running /\ mem.loaded /\ stopper' = NoStopper /\ up # "dead"
      /\ UNCHANGED <<given, budget, proc, record, hold, mem, up>>
  BY DEF StoppedAgain, Gate, settings, client, SInv, Local, Threads, Running
<1>3. pass'.at = "hold"
  BY GotoType DEF StoppedAgain, SInv, Shape, Places
<1>4. Local'
  BY <1>2, <1>3 DEF SInv, Local, Running, AtClient
<1>5. Threads'
  BY <1>2, <1>3, NoStopperType DEF SInv, Threads, Running
<1>6. Frozen'
  BY <1>2, <1>3, NoStopperType DEF SInv, Frozen, Running, Moving, Current
<1>7. Stopped'
  BY <1>2 DEF SInv, Stopped
<1> QED
  BY <1>4, <1>5, <1>6, <1>7 DEF Knows

LEMMA PublishKnows ==
    ASSUME SInv, Publish
    PROVE  Knows'
<1>1. Shape'
  BY PublishShape DEF SInv
<1>2. /\ pass.at = "publish" /\ Running /\ mem.loaded /\ stopper.st = "idle"
      /\ UNCHANGED <<given, budget, proc, record, stopper, mem, up>>
      /\ mem.frozen # None => hold' = "frozen"
  BY DEF Publish, CurrentHold, Gate, settings, client, SInv, Local, Threads
<1>3. pass'.at \in {"detect", "wait"}
  BY IdleType DEF Publish, Passes
<1>4. Local'
  BY <1>2, <1>3 DEF SInv, Local, Running, AtClient
<1>5. Threads'
  BY <1>2, <1>3 DEF SInv, Threads, Running
<1>6. Frozen'
  BY <1>2, <1>3 DEF SInv, Frozen, Running, Moving, Current
<1>7. Stopped'
  BY <1>2 DEF SInv, Stopped
<1> QED
  BY <1>4, <1>5, <1>6, <1>7 DEF Knows

\* Without a record no client is stopped.
LEMMA NoneStopped ==
    ASSUME SInv, record = None
    PROVE  \A c \in Clients : ~proc[c].stopped
<1>1. \A c \in Clients : Current(c) # None
  BY LimitsAssumption DEF Current, Procs, SInv, Shape, Scalars
<1> QED
  BY <1>1 DEF SInv, Frozen

LEMMA StopperStartKnows ==
    ASSUME SInv, StopperStart
    PROVE  Knows'
<1>1. Shape'
  BY StopperStartShape DEF SInv
<1>2. budget'["signal"] <= budget["signal"]
  <2>1. UNCHANGED budget \/ Spend("refuse") \/ Spend("signal")
    BY DEF StopperStart
  <2>2. CASE UNCHANGED budget
    BY <2>2, Signals DEF SInv
  <2> QED
    BY <2>1, <2>2, SpendType, EventsAre DEF SInv, Shape, Scalars
<1> DEFINE p == stopper.proc
<1>3. /\ stopper.st = "queued" /\ p # None /\ p \in Procs /\ up # "dead"
      /\ UNCHANGED <<given, hold, mem, pass, up>>
      /\ Running => pass.at \in {"freezing", "again"}
  BY DEF StopperStart, settings, SInv, Threads, Shape, Stoppers
<1>4. /\ stopper'.proc = p /\ stopper'.kind = stopper.kind
      /\ \/ /\ stopper'.st = "done" /\ stopper'.res # "ok" /\ UNCHANGED <<proc, record>>
         \/ /\ stopper'.st = "recorded" /\ record' = p /\ up = "up" /\ Alive(p)
            /\ stopper.kind = "freeze" /\ UNCHANGED proc
         \/ /\ stopper'.st = "done" /\ up = "up" /\ stopper.kind = "again" /\ Alive(p) /\ Signal(p, TRUE)
            /\ UNCHANGED record
  <2>1. ASSUME NEW res \in {"gone", "kill", "shutdown"}, Done(res), UNCHANGED <<proc, record>>
        PROVE  /\ stopper'.proc = p /\ stopper'.kind = stopper.kind
               /\ stopper'.st = "done" /\ stopper'.res # "ok" /\ UNCHANGED <<proc, record>>
    BY <2>1, DoneType DEF SInv, Shape
  <2>2. stopper' = [stopper EXCEPT !.st = "recorded"] =>
            stopper'.proc = p /\ stopper'.kind = stopper.kind /\ stopper'.st = "recorded"
    BY DEF SInv, Shape, Stoppers
  <2>3. Done("ok") => stopper'.proc = p /\ stopper'.kind = stopper.kind /\ stopper'.st = "done"
    BY DoneType DEF SInv, Shape
  <2>4. up \in {"up", "stopping", "joined", "stopped"} /\ stopper.kind \in {"freeze", "again"}
    BY <1>3 DEF SInv, Threads, Shape, Scalars, Stoppers
  <2>5. \/ \E res \in {"gone", "kill", "shutdown"} : Done(res) /\ UNCHANGED <<proc, record>>
        \/ /\ record' = p /\ stopper' = [stopper EXCEPT !.st = "recorded"] /\ UNCHANGED proc
           /\ up = "up" /\ Alive(p) /\ stopper.kind = "freeze"
        \/ /\ Done("ok") /\ Signal(p, TRUE) /\ UNCHANGED record
           /\ up = "up" /\ Alive(p) /\ stopper.kind = "again"
    BY <2>4 DEF StopperStart
  <2> QED
    BY <2>1, <2>2, <2>3, <2>5
<1>5. up = "up" => /\ stopper.kind = "freeze" => pass.at = "freezing" /\ record = None /\ hold = "frozen"
                   /\ stopper.kind = "again" => pass.at = "again" /\ record = p /\ mem.frozen = p
  BY <1>3, LimitsAssumption DEF Running, SInv, Threads, Frozen
<1>6. Local'
  BY <1>3 DEF SInv, Local, Running, AtClient, Entries
<1>7. Threads'
  BY <1>3, <1>4, <1>5 DEF SInv, Threads, Running
<1>8. Frozen'
  <2>1. CASE stopper'.st = "done" /\ stopper'.res # "ok" /\ UNCHANGED <<proc, record>>
    BY <1>3, <1>4, <2>1 DEF SInv, Frozen, Running, Current
  <2>2. CASE /\ stopper'.st = "recorded" /\ record' = p /\ up = "up" /\ Alive(p)
             /\ stopper.kind = "freeze" /\ UNCHANGED proc
    <3>1. proc[p.client].gen \in Nat /\ p.gen <= proc[p.client].gen
      BY <1>3 DEF SInv, Frozen, Shape, Scalars, Procs
    <3> QED
      BY <1>3, <1>4, <1>5, <2>2, <3>1, NoneStopped DEF SInv, Frozen, Running, Moving
  <2>3. CASE /\ stopper'.st = "done" /\ up = "up" /\ stopper.kind = "again" /\ Alive(p) /\ Signal(p, TRUE)
             /\ UNCHANGED record
    <3>1. \A c \in Clients : /\ proc'[c].gen = proc[c].gen
                             /\ proc'[c].stopped <=> IF c = p.client THEN TRUE ELSE proc[c].stopped
      BY <1>3, <2>3, SignalType DEF SInv, Shape, Scalars, Processes
    <3>2. p.client \in Clients /\ p = Current(p.client) /\ record = p
      BY <1>3, <1>5, <2>3 DEF Alive, Current, Procs
    <3>3. \A c \in Clients : proc'[c].stopped => record' = Current(c)'
      BY <2>3, <3>1, <3>2 DEF SInv, Frozen, Current
    <3>4. /\ record' # None => record'.gen <= proc'[record'.client].gen
          /\ stopper'.proc # None => stopper'.proc.gen <= proc'[stopper'.proc.client].gen
      BY <1>4, <2>3, <3>1, <3>2 DEF SInv, Frozen
    <3>5. pass.at = "again"
      BY <1>5, <2>3
    <3> QED
      BY <1>3, <2>3, <3>3, <3>4, <3>5 DEF SInv, Frozen, Running, Moving
  <2> QED
    BY <1>4, <2>1, <2>2, <2>3
<1>9. Stopped'
  BY <1>1, <1>2, <1>3, <1>4, LessSignals DEF SInv, Stopped
<1> QED
  BY <1>6, <1>7, <1>8, <1>9 DEF Knows

LEMMA StopperSignalKnows ==
    ASSUME SInv, StopperSignal
    PROVE  Knows'
<1>1. Shape'
  BY StopperSignalShape DEF SInv
<1>2. budget'["signal"] <= budget["signal"]
  <2>1. UNCHANGED budget \/ Spend("signal")
    BY DEF StopperSignal
  <2>2. CASE UNCHANGED budget
    BY <2>2, Signals DEF SInv
  <2> QED
    BY <2>1, <2>2, SpendType, EventsAre DEF SInv, Shape, Scalars
<1> DEFINE p == stopper.proc
<1>3. /\ stopper.st = "recorded" /\ p # None /\ p \in Procs /\ up \in {"up", "stopping", "joined"}
      /\ stopper.kind = "freeze" /\ record = p /\ (Running => pass.at = "freezing" /\ hold = "frozen")
      /\ UNCHANGED <<given, hold, mem, pass, up>>
  BY DEF StopperSignal, settings, SInv, Threads, Shape, Stoppers
<1>4. mem.frozen = None
  <2>1. CASE Running
    BY <1>3, <2>1 DEF SInv, Frozen, Moving
  <2>2. CASE ~Running
    BY <2>2, NotLoadedType DEF SInv, Local
  <2> QED
    BY <2>1, <2>2
<1>5. /\ stopper'.proc = p /\ stopper'.kind = stopper.kind /\ stopper'.st = "done"
      /\ \/ stopper'.res = "ok" /\ Alive(p) /\ Signal(p, TRUE) /\ UNCHANGED record
         \/ stopper'.res = "kill" /\ record' = None /\ UNCHANGED proc
  BY DoneType DEF StopperSignal, SInv, Shape
<1>6. Local'
  BY <1>3 DEF SInv, Local, Running, AtClient, Entries
<1>7. Threads'
  BY <1>3, <1>5 DEF SInv, Threads, Running
<1>8. Frozen'
  <2>1. CASE stopper'.res = "ok" /\ Alive(p) /\ Signal(p, TRUE) /\ UNCHANGED record
    <3>1. \A c \in Clients : /\ proc'[c].gen = proc[c].gen
                             /\ proc'[c].stopped <=> IF c = p.client THEN TRUE ELSE proc[c].stopped
      BY <1>3, <2>1, SignalType DEF SInv, Shape, Scalars, Processes
    <3>2. p.client \in Clients /\ p = Current(p.client)
      BY <1>3, <2>1 DEF Alive, Current, Procs
    <3>3. \A c \in Clients : proc'[c].stopped => record' = Current(c)'
      BY <1>3, <2>1, <3>1, <3>2 DEF SInv, Frozen, Current
    <3>4. /\ record' # None => record'.gen <= proc'[record'.client].gen
          /\ stopper'.proc # None => stopper'.proc.gen <= proc'[stopper'.proc.client].gen
      BY <1>3, <1>5, <2>1, <3>1, <3>2 DEF SInv, Frozen
    <3>5. Running => pass.at = "freezing"
      BY <1>3
    <3>6. ~Running => pass.at = "wait"
      BY IdleType DEF SInv, Local
    <3> QED
      BY <1>3, <1>4, <1>5, <2>1, <3>3, <3>4, <3>5, <3>6 DEF SInv, Frozen, Running, Moving
  <2>2. CASE stopper'.res = "kill" /\ record' = None /\ UNCHANGED proc
    <3>1. \A c \in Clients : ~proc[c].stopped
      BY <1>3 DEF SInv, Frozen
    <3> QED
      BY <1>3, <1>4, <1>5, <2>2, <3>1 DEF SInv, Frozen, Running, Moving
  <2> QED
    BY <1>5, <2>1, <2>2
<1>9. Stopped'
  BY <1>1, <1>2, <1>3, LessSignals DEF SInv, Stopped
<1> QED
  BY <1>6, <1>7, <1>8, <1>9 DEF Knows

LEMMA RestartClientKnows ==
    ASSUME SInv, NEW k \in Clients, RestartClient(k)
    PROVE  Knows'
<1>1. Shape'
  BY RestartClientShape DEF SInv
<1>2. budget'["signal"] <= budget["signal"]
  BY SpendType, EventsAre DEF RestartClient, SInv, Shape, Scalars
<1>3. UNCHANGED <<given, record, stopper, hold, mem, pass, up>>
  BY DEF RestartClient, settings, server
<1>4. \A c \in Clients : /\ proc[c].gen \in Nat
                         /\ proc'[c].gen = IF c = k THEN proc[c].gen + 1 ELSE proc[c].gen
                         /\ proc'[c].stopped => c # k /\ proc[c].stopped
  BY DEF RestartClient, SInv, Shape, Scalars
<1>5. Local' /\ Threads'
  BY <1>3 DEF SInv, Local, Threads, Running, AtClient, Entries
<1>6. Frozen'
  <2>1. record # None => record \in Procs
    BY DEF SInv, Shape, Scalars
  <2>2. stopper.proc # None => stopper.proc \in Procs
    BY DEF SInv, Shape, Stoppers
  <2>3. \A q \in Procs : q.gen <= proc[q.client].gen => q.gen <= proc'[q.client].gen
    BY <1>4 DEF Procs
  <2>4. /\ record' # None => record'.gen <= proc'[record'.client].gen
        /\ stopper'.proc # None => stopper'.proc.gen <= proc'[stopper'.proc.client].gen
    BY <1>3, <2>1, <2>2, <2>3 DEF SInv, Frozen
  <2>5. \A c \in Clients : proc'[c].stopped => record' = Current(c)'
    BY <1>3, <1>4 DEF SInv, Frozen, Current
  <2> QED
    BY <1>3, <1>4, <2>4, <2>5 DEF SInv, Frozen, Running
<1>7. Stopped'
  BY <1>1, <1>2, <1>3, LessSignals DEF SInv, Stopped
<1> QED
  BY <1>5, <1>6, <1>7 DEF Knows

LEMMA ResumeElsewhereKnows ==
    ASSUME SInv, NEW k \in Clients, ResumeElsewhere(k)
    PROVE  Knows'
<1>1. Shape'
  BY ResumeElsewhereShape DEF SInv
<1>2. budget'["signal"] <= budget["signal"]
  BY SpendType, EventsAre DEF ResumeElsewhere, SInv, Shape, Scalars
<1>3. UNCHANGED <<given, record, stopper, hold, mem, pass, up>>
  BY DEF ResumeElsewhere, settings, server
<1>4. \A c \in Clients : /\ proc'[c].gen = proc[c].gen
                         /\ proc'[c].stopped => proc[c].stopped
  BY DEF ResumeElsewhere, SInv, Shape, Scalars
<1>5. Local' /\ Threads'
  BY <1>3 DEF SInv, Local, Threads, Running, AtClient, Entries
<1>6. Frozen'
  <2>1. /\ record' # None => record'.gen <= proc'[record'.client].gen
        /\ stopper'.proc # None => stopper'.proc.gen <= proc'[stopper'.proc.client].gen
    BY <1>3, <1>4 DEF SInv, Frozen, Shape, Scalars, Stoppers, Procs
  <2>2. \A c \in Clients : proc'[c].stopped => record' = Current(c)'
    BY <1>3, <1>4 DEF SInv, Frozen, Current
  <2> QED
    BY <1>3, <1>4, <2>1, <2>2 DEF SInv, Frozen, Running
<1>7. Stopped'
  BY <1>1, <1>2, <1>3, LessSignals DEF SInv, Stopped
<1> QED
  BY <1>5, <1>6, <1>7 DEF Knows

\* A process without its task knows nothing of it.
LEMMA NoTask ==
    ASSUME SInv, ~Running', pass' = Idle, mem' = NotLoaded
    PROVE  Local' /\ pass'.at = "wait" /\ mem'.frozen = None
BY IdleType, NotLoadedType DEF Local, AtClient

LEMMA CrashKnows ==
    ASSUME SInv, Crash
    PROVE  Knows'
<1>1. Shape'
  BY CrashShape DEF SInv
<1>2. budget'["signal"] <= budget["signal"]
  BY SpendType, EventsAre DEF Crash, SInv, Shape, Scalars
<1>3. /\ up' = "dead" /\ pass' = Idle /\ mem' = NotLoaded /\ stopper' = NoStopper
      /\ UNCHANGED <<given, proc, record>>
  BY DEF Crash, Volatile, settings, client
<1>4. Local' /\ pass'.at = "wait" /\ mem'.frozen = None
  BY <1>3, NoTask DEF Running
<1>5. Threads'
  BY <1>3, <1>4, NoStopperType DEF Threads, Running
<1>6. Frozen'
  BY <1>3, <1>4, NoStopperType DEF SInv, Frozen, Running, Moving, Current
<1>7. Stopped'
  BY <1>1, <1>2, <1>3, LessSignals DEF SInv, Stopped
<1> QED
  BY <1>4, <1>5, <1>6, <1>7 DEF Knows

LEMMA ShutdownKnows ==
    ASSUME SInv, Shutdown
    PROVE  Knows'
<1>1. Shape'
  BY ShutdownShape DEF SInv
<1>2. budget'["signal"] <= budget["signal"]
  BY SpendType, EventsAre DEF Shutdown, SInv, Shape, Scalars
<1>3. up = "up" /\ up' = "stopping" /\ UNCHANGED <<given, proc, record, hold, mem, pass, stopper>>
  BY DEF Shutdown, settings, client
<1>4. Local' /\ Threads'
  BY <1>3 DEF SInv, Local, Threads, Running, AtClient, Entries
<1>5. Frozen'
  BY <1>3 DEF SInv, Frozen, Running, Current
<1>6. Stopped'
  BY <1>1, <1>2, <1>3, LessSignals DEF SInv, Stopped
<1> QED
  BY <1>4, <1>5, <1>6 DEF Knows

LEMMA JoinKnows ==
    ASSUME SInv, Join
    PROVE  Knows'
<1>1. /\ up = "stopping" /\ up' = "joined" /\ pass' = Idle /\ mem' = NotLoaded
      /\ UNCHANGED <<given, budget, proc, record, hold, stopper>>
  BY DEF Join, Volatile, settings, client
<1>2. Local' /\ pass'.at = "wait" /\ mem'.frozen = None
  BY <1>1, NoTask DEF Running
<1>3. Threads'
  BY <1>1, <1>2 DEF SInv, Threads, Running
<1>4. Frozen'
  BY <1>1, <1>2 DEF SInv, Frozen, Running, Moving, Current
<1>5. Stopped'
  BY <1>1 DEF SInv, Stopped
<1> QED
  BY <1>2, <1>3, <1>4, <1>5 DEF Knows

\* Resuming the client on record leaves no client stopped.
LEMMA ResumedLeavesNone ==
    ASSUME SInv, record # None, Resumed(record)
    PROVE  /\ record' = None
           /\ \A c \in Clients : proc'[c].gen = proc[c].gen /\ ~proc'[c].stopped
<1>1. record \in Procs /\ proc \in Processes
  BY DEF SInv, Shape, Scalars, Processes
<1>2. \A c \in Clients : proc[c].stopped => record = Current(c)
  BY DEF SInv, Frozen
<1>3. CASE Signal(record, FALSE) /\ record' = None
  <2>1. \A c \in Clients : c # record.client => ~proc[c].stopped
    BY <1>2 DEF Current
  <2>2. \A c \in Clients : /\ proc'[c].gen = proc[c].gen
                           /\ proc'[c].stopped <=> IF c = record.client THEN FALSE ELSE proc[c].stopped
    BY <1>1, <1>3, SignalType
  <2> QED
    BY <1>3, <2>1, <2>2
<1>4. CASE ~Alive(record) /\ record' = None /\ UNCHANGED proc
  BY <1>2, <1>4 DEF Current, Alive
<1> QED
  BY <1>3, <1>4 DEF Resumed

LEMMA ThawForShutdownKnows ==
    ASSUME SInv, ThawForShutdown
    PROVE  Knows'
<1>1. Shape'
  BY ThawForShutdownShape DEF SInv
<1>2. /\ up = "joined" /\ up' = "stopped" /\ stopper.st # "recorded"
      /\ UNCHANGED <<given, stopper, mem, pass>>
  BY DEF ThawForShutdown, settings
<1>3. \/ record' = None /\ (\A c \in Clients : proc'[c].gen = proc[c].gen /\ ~proc'[c].stopped) /\ UNCHANGED budget
      \/ Spend("signal") /\ UNCHANGED <<proc, record>>
  <2>1. CASE record = None /\ UNCHANGED <<proc, record, budget>>
    BY <2>1, NoneStopped
  <2>2. CASE record # None /\ Resumed(record) /\ UNCHANGED budget
    BY <2>2, ResumedLeavesNone
  <2> QED
    BY <2>1, <2>2 DEF ThawForShutdown, ResumeFails
<1>4. pass = Idle /\ mem = NotLoaded /\ pass'.at = "wait" /\ mem'.frozen = None
  BY <1>2, IdleType, NotLoadedType DEF SInv, Local, Running
<1>5. Local'
  BY <1>2, <1>4, NoTask DEF Running
<1>6. Threads'
  BY <1>2, <1>4 DEF SInv, Threads, Running
<1>7. Frozen'
  <2>1. stopper.proc # None => stopper.proc \in Procs
    BY DEF SInv, Shape, Stoppers
  <2>2. stopper'.proc # None => stopper'.proc.gen <= proc'[stopper'.proc.client].gen
    BY <1>2, <1>3, <2>1 DEF SInv, Frozen, Procs
  <2> QED
    BY <1>2, <1>3, <1>4, <2>2 DEF SInv, Frozen, Running, Moving, Current
<1>8. Stopped'
  <2>1. CASE record' = None /\ UNCHANGED budget
    BY <1>2, <2>1 DEF SInv, Stopped
  <2>2. CASE Spend("signal")
    <3>1. budget["signal"] \in Nat /\ budget["signal"] > 0 /\ budget'["signal"] <= budget["signal"]
      BY <2>2, Signals, SpendType, EventsAre DEF Spend, SInv, Shape, Scalars
    <3>2. given.budget["signal"] \in Nat /\ budget'["signal"] \in Nat
      BY <1>1, Signals, EventsAre DEF SInv, Shape, Scalars
    <3> QED
      BY <1>2, <3>1, <3>2 DEF SInv, Stopped
  <2> QED
    BY <1>3, <2>1, <2>2
<1> QED
  BY <1>5, <1>6, <1>7, <1>8 DEF Knows

LEMMA StartKnows ==
    ASSUME SInv, Start
    PROVE  Knows'
<1>1. Shape'
  BY StartShape DEF SInv
<1>2. /\ up \in {"stopped", "dead"} /\ up' = "up" /\ stopper' = NoStopper
      /\ UNCHANGED <<given, mem, pass>>
  BY DEF Start, settings
<1>3. budget'["signal"] <= budget["signal"]
  <2>1. UNCHANGED budget \/ Spend("signal") \/ Spend("detect")
    BY DEF Start, FirstDetection, ResumeFails
  <2>2. CASE UNCHANGED budget
    BY <2>2, Signals DEF SInv
  <2> QED
    BY <2>1, <2>2, SpendType, EventsAre DEF SInv, Shape, Scalars
<1>4. \/ record' = None /\ (\A c \in Clients : proc'[c].gen = proc[c].gen /\ ~proc'[c].stopped)
      \/ hold' = "frozen" /\ UNCHANGED <<proc, record>>
  <2>1. CASE record = None /\ UNCHANGED <<proc, record>>
    BY <2>1, NoneStopped
  <2>2. CASE record # None /\ Resumed(record)
    BY <2>2, ResumedLeavesNone
  <2> QED
    BY <2>1, <2>2 DEF Start, ResumeFails
<1>5. pass = Idle /\ mem = NotLoaded /\ pass'.at = "wait" /\ mem'.frozen = None /\ ~mem'.loaded
  BY <1>2, IdleType, NotLoadedType DEF SInv, Local, Running
<1>6. Local'
  BY <1>2, <1>5 DEF Local, Running, AtClient
<1>7. Threads'
  BY <1>2, <1>5, NoStopperType DEF Threads, Running
<1>8. Frozen'
  BY <1>2, <1>4, <1>5, NoStopperType DEF SInv, Frozen, Running, Moving, Current
<1>9. Stopped'
  BY <1>1, <1>2, <1>3, LessSignals DEF SInv, Stopped
<1> QED
  BY <1>6, <1>7, <1>8, <1>9 DEF Knows

-----------------------------------------------------------------------------

LEMMA SInvInit == Init => SInv
<1> SUFFICES ASSUME Init
             PROVE  SInv
  OBVIOUS
<1>1. Shape
  <2>1. given \in Cases /\ budget \in [Events -> Nat] /\ rate \in [Clients -> OwnLimits] /\ pause \in BOOLEAN
    BY CaseType DEF Init
  <2>2. /\ proc \in [Clients -> [gen : Nat, stopped : BOOLEAN]]
        /\ previous \in [Addresses -> OwnLimits \cup {None}]
    BY DEF Init
  <2> QED
    BY <2>1, <2>2, IdleType, NotLoadedType, NoStopperType DEF Init, Shape, Scalars
<1>2. Local /\ Threads
  BY IdleType, NotLoadedType, NoStopperType DEF Init, Local, Threads, Running, AtClient
<1>3. Frozen
  BY IdleType, NotLoadedType, NoStopperType DEF Init, Frozen, Running, Moving
<1>4. Stopped
  BY <1>1, Signals DEF Init, Stopped
<1> QED
  BY <1>1, <1>2, <1>3, <1>4 DEF SInv

LEMMA TaskStep ==
    ASSUME SInv, Task
    PROVE  SInv'
<1>1. CASE Wake \/ PassSteps
  BY <1>1, WakeShape, WakeKnows, LoadShape, LoadKnows, HoldShape, HoldKnows, ChooseShape,
     ChooseKnows,
     RestShape, RestKnows, PublishShape, PublishKnows, ReplayDetectShape, ReplayDetectKnows
     DEF PassSteps, SInv, Knows
<1>2. CASE RecordSteps
  BY <1>2, SetAsideShape, SetAsideKnows, ClearSavedShape, ClearSavedKnows, TakeBackShape,
     TakeBackKnows,
     UnlistShape, UnlistKnows, RestoreEndShape, RestoreEndKnows, RestoreOneShape, RestoreOneKnows
     DEF RecordSteps, SInv, Knows
<1>3. CASE LimitSteps
  BY <1>3, ApplyShape, ApplyKnows, ReadOwnShape, ReadOwnKnows, PersistShape, PersistKnows,
     SetLimitShape, SetLimitKnows, KeepSavedShape, KeepSavedKnows, LimitsSetShape, LimitsSetKnows
     DEF LimitSteps, SInv, Knows
<1>4. CASE FreezeSteps
  BY <1>4, FindProcessShape, FindProcessKnows, FreezingShape, FreezingKnows, ThawShape, ThawKnows,
     ThawedShape, ThawedKnows, RecheckFrozenShape, RecheckFrozenKnows, StoppedAgainShape,
     StoppedAgainKnows, RecheckUploadsShape, RecheckUploadsKnows
     DEF FreezeSteps, SInv, Knows
<1> QED
  BY <1>1, <1>2, <1>3, <1>4 DEF Task

LEMMA SInvStep ==
    ASSUME SInv, [Next]_vars
    PROVE  SInv'
<1>1. CASE FailedWrite
  <2>1. FailedWrite => \E at \in {"aside", "clear", "takeback", "unlist", "read", "keep"} : WriteFails(at)
    BY DEF FailedWrite, PersistFails
  <2> QED
    BY <1>1, <2>1, WriteFailsShape, WriteFailsKnows DEF SInv, Knows, Places
<1>2. CASE Recheck \/ Stopper
  BY <1>2, RecheckShape, RecheckKnows, StopperStartShape, StopperStartKnows, StopperSignalShape,
     StopperSignalKnows
     DEF Stopper, SInv, Knows
<1>3. CASE Server \/ Tick
  BY <1>3, DetectedShape, DetectedKnows, JoinShape, JoinKnows, ThawForShutdownShape,
     ThawForShutdownKnows, StartShape, StartKnows, TickShape, TickKnows
     DEF Server, SInv, Knows
<1>4. CASE World
  BY <1>4, SetCoreShape, SetCoreKnows, SetPauseShape, SetPauseKnows, DetectShape, DetectKnows,
     DayShape,
     DayKnows, CrashShape, CrashKnows, ShutdownShape, ShutdownKnows, RestartClientShape,
     RestartClientKnows, ResumeElsewhereShape, ResumeElsewhereKnows
     DEF World, SInv, Knows
<1>5. CASE UNCHANGED vars
  <2>1. Shape' /\ UNCHANGED <<given, proc, record, stopper, hold, mem, pass, up, budget>>
    BY <1>5 DEF SInv, Shape, Scalars, vars, settings, handle, client, store, times, server
  <2>2. budget["signal"] \in Nat
    BY Signals DEF SInv
  <2> QED
    BY <2>1, <2>2, Around DEF SInv, Knows
<1> QED
  BY <1>1, <1>2, <1>3, <1>4, <1>5, TaskStep DEF Next

LEMMA SInvHolds == Spec => []SInv
BY SInvInit, SInvStep, PTL DEF Spec

\* Every variable keeps its type, whatever the cases.
THEOREM TypeCorrect == Spec => []TypeOK
<1>1. SInv => TypeOK
  BY DEF SInv, Shape, Scalars, Applieds, Passes, Stoppers, TypeOK
<1> QED
  BY <1>1, SInvHolds, PTL

\* A stopped client has the record that resumes it, whenever mistarr is killed; the rest of
\* mistarr knows of it, nothing calls it, and a clean stop leaves none stopped: `hold_client`,
\* `freeze`, `thaw`, `recheck_hold` and `thaw_for_shutdown`.
THEOREM StoppedIsAlwaysKnown == Spec => []StoppedIsKnown
<1>1. ASSUME SInv
      PROVE  StoppedIsKnown
  <2>1. ASSUME NEW c \in Clients, proc[c].stopped
        PROVE  record = Current(c) /\ (Running => hold = "frozen" /\ ~Calling)
    <3>1. record = Current(c) /\ record # None
      BY <1>1, <2>1, NoneStopped DEF SInv, Frozen
    <3>2. ASSUME Running
          PROVE  hold = "frozen" /\ ~Calling
      <4>1. hold = "frozen"
        BY <1>1, <3>1, <3>2 DEF SInv, Frozen
      <4>2. ASSUME Calling
            PROVE  FALSE
        <5>1. pass.at \in Moving /\ pass.at \notin {"freezing", "wait", "load"}
          BY <4>2 DEF Calling, Moving
        <5>2. mem.frozen = None /\ mem.loaded
          BY <1>1, <5>1 DEF SInv, Local, Frozen
        <5> QED
          BY <1>1, <3>1, <3>2, <5>1, <5>2 DEF SInv, Frozen
      <4> QED
        BY <4>1, <4>2
    <3> QED
      BY <3>1, <3>2
  <2>2. ASSUME up = "stopped", given.budget["signal"] = 0
        PROVE  record = None /\ \A c \in Clients : ~proc[c].stopped
    BY <1>1, <2>2, NoneStopped DEF SInv, Stopped
  <2> QED
    BY <2>1, <2>2 DEF StoppedIsKnown
<1> QED
  BY <1>1, SInvHolds, PTL

-----------------------------------------------------------------------------
(* Own limits. *)

LEMMA Apart ==
    ASSUME SInv, OwnClients, NEW a \in Addresses, NEW b \in Addresses, ClientAt(a) = ClientAt(b)
    PROVE  a = b
BY DEF OwnClients, ClientAt, SInv, Shape, Scalars

LEMMA ChangedType ==
    ASSUME NEW c
    PROVE  Changed(c) \subseteq Slots
BY DEF Changed

\* A step that neither reads nor writes limits.
LEMMA Keeps ==
    ASSUME OInv, UNCHANGED <<given, rate, saved, previous, dropped>>,
           mem'.loaded = mem.loaded, mem'.saved = mem.saved, mem'.previous = mem.previous,
           \/ UNCHANGED pass
           \/ /\ pass'.at \notin {"read", "restore", "set", "keep", "takeback", "unlist"}
              /\ pass'.gone = {}
    PROVE  OInv'
<1>1. Memory'
  BY DEF OInv, Memory, Entries
<1>2. Covered'
  BY DEF OInv, Covered, Has, Changed, Aside, ClientAt, Entries, OwnIn
<1>3. Reading' /\ Writing'
  BY DEF OInv, Reading, Writing, Mine, OwnIn, ClientAt, Stored, NoLimits, Changed
<1>4. Returned'
  BY DEF OInv, Returned, Changed, ClientAt, Stored
<1> QED
  BY <1>1, <1>2, <1>3, <1>4 DEF OInv

\* Fewer limits differ from the client's own, except where they were given up.
LEMMA Shrinks ==
    ASSUME SInv, SInv', OwnClients, Covered, UNCHANGED <<given, saved, previous>>,
           UNCHANGED <<mem>>, dropped \subseteq dropped',
           \A c \in Clients : \/ Changed(c)' \subseteq Changed(c)
                              \/ \E b \in dropped' : ClientAt(b) = c
    PROVE  Covered'
<1>1. \A a \in Addresses : ClientAt(a)' = ClientAt(a) /\ ClientAt(a) \in Clients
  BY CaseType DEF ClientAt, SInv, Shape, Scalars
<1>2. dropped' \subseteq Addresses
  BY DEF SInv, Shape, Scalars
<1>3. \A c \in Clients : Changed(c)' # {} => \E a \in Addresses : ClientAt(a)' = c
  BY <1>1, <1>2 DEF Covered
<1>4. \A a \in Addresses \ dropped' : Changed(ClientAt(a))' \subseteq Changed(ClientAt(a))
  BY <1>1, <1>2, Apart
<1>5. \A a \in Addresses \ dropped' : Has(a)'
  BY <1>4, ChangedType DEF Covered, Has, Aside
<1>6. /\ (saved # None /\ saved.at \notin dropped => OwnIn(saved.own, ClientAt(saved.at)))'
      /\ (\A a \in Entries(previous) \ dropped : OwnIn(previous[a], ClientAt(a)))'
  BY DEF Covered, OwnIn, ClientAt, Entries
<1> QED
  BY <1>3, <1>5, <1>6 DEF Covered

\* What was put back stays back.
LEMMA StaysBack ==
    ASSUME Returned, UNCHANGED given, dropped \subseteq dropped', UNCHANGED mem,
           pass'.gone = pass.gone, pass'.at = pass.at, pass.gone \subseteq Addresses,
           \A a \in pass.gone \ dropped' : Changed(ClientAt(a))' \subseteq Changed(ClientAt(a))
    PROVE  Returned'
BY DEF Returned, ClientAt, Stored

LEMMA RestartClientOwn ==
    ASSUME SInv, SInv', OwnClients, OInv, NEW k \in Clients, RestartClient(k)
    PROVE  OInv'
<1>1. UNCHANGED <<given, saved, previous, kept, dropped, mem, pass>>
  BY DEF RestartClient, settings, store, times, server
<1>2. \A c \in Clients : Changed(c)' \subseteq Changed(c)
  <2>1. \A c \in Clients : rate'[c] = rate[c] \/ rate'[c] = given.own[c]
    BY DEF RestartClient, SInv, Shape, Scalars
  <2> QED
    BY <1>1, <2>1 DEF Changed
<1>3. \A a \in Addresses : Changed(ClientAt(a))' \subseteq Changed(ClientAt(a))
  <2>1. \A a \in Addresses : ClientAt(a) \in Clients /\ ClientAt(a)' = ClientAt(a)
    BY <1>1, CaseType DEF ClientAt, SInv, Shape, Scalars
  <2> QED
    BY <1>2, <2>1
<1>4. Memory'
  BY <1>1 DEF OInv, Memory, Entries
<1>5. Covered'
  BY <1>1, <1>2, Shrinks DEF OInv
<1>6. Reading'
  BY <1>1 DEF OInv, Reading, Mine, OwnIn, ClientAt, Stored, NoLimits
<1>7. Writing'
  <2>1. pass.at = "keep" => Changed(ClientAt(pass.id))' \subseteq Changed(ClientAt(pass.id))
    BY <1>1, <1>3 DEF SInv, Local, AtClient
  <2> QED
    BY <1>1, <2>1 DEF OInv, Writing, Mine, ClientAt, Stored, NoLimits
<1>8. Returned'
  <2>1. pass.gone \subseteq Addresses
    BY DEF SInv, Shape, Passes
  <2> QED
    BY <1>1, <1>3, <2>1, StaysBack DEF OInv
<1> QED
  BY <1>4, <1>5, <1>6, <1>7, <1>8 DEF OInv

\* The task starts anew, or from the database.
LEMMA Forgets ==
    ASSUME SInv, OInv, UNCHANGED <<given, rate, saved, previous, dropped>>, mem' = NotLoaded, pass' = Idle
    PROVE  OInv'
<1>1. Memory'
  BY NotLoadedType DEF Memory
<1>2. \A a \in Addresses \ dropped : Has(a)'
  <2> SUFFICES ASSUME NEW a \in Addresses \ dropped, NEW s \in Changed(ClientAt(a)),
                      ~(saved # None /\ saved.at = a)
               PROVE  previous[a] # None /\ previous[a][s] # None
    BY NotLoadedType DEF Has, Aside, Changed, ClientAt, OInv, Covered
  <2>1. Aside[a] # None /\ Aside[a][s] # None
    BY DEF OInv, Covered, Has
  <2> QED
    BY <2>1 DEF OInv, Memory, Aside, Entries
<1>3. Covered'
  BY <1>2 DEF OInv, Covered, Changed, ClientAt, Entries, OwnIn
<1>4. Reading' /\ Writing' /\ Returned'
  BY IdleType DEF Reading, Writing, Returned
<1> QED
  BY <1>1, <1>3, <1>4 DEF OInv

LEMMA LoadOwn ==
    ASSUME SInv, OInv, Load
    PROVE  OInv'
<1>1. /\ UNCHANGED <<given, rate, saved, previous, dropped>> /\ pass.at = "load"
      /\ pass.gone = {}
  BY DEF Load, Gate, settings, client, store, times, OInv, Returned
<1>2. CASE UNCHANGED mem /\ pass' = [Idle EXCEPT !.ok = FALSE]
  BY <1>1, <1>2, IdleType, Keeps DEF Passes
<1>3. CASE /\ mem' = [NotLoaded EXCEPT !.loaded = TRUE, !.saved = saved, !.previous = previous, !.frozen = record]
           /\ Goto("hold")
  <2>1. mem'.loaded /\ mem'.saved = saved /\ mem'.previous = previous
    BY <1>3, NotLoadedType DEF Applieds
  <2>2. pass'.at = "hold" /\ pass'.gone = {}
    BY <1>1, <1>3, GotoType DEF SInv, Shape, Places
  <2>3. ~mem.loaded
    BY <1>1 DEF SInv, Local
  <2>4. Memory'
    BY <1>1, <2>1 DEF Memory, Entries
  <2>5. Covered'
    BY <1>1, <2>1, <2>3 DEF OInv, Covered, Has, Aside, Changed, ClientAt, Entries, OwnIn
  <2> QED
    BY <2>2, <2>4, <2>5 DEF OInv, Reading, Writing, Returned
<1> QED
  BY <1>2, <1>3 DEF Load

LEMMA SetCoreOwn ==
    ASSUME OInv, SetCore
    PROVE  OInv'
BY Keeps DEF SetCore, settings, handle, client, store, times, server

LEMMA SetPauseOwn ==
    ASSUME OInv, SetPause
    PROVE  OInv'
BY Keeps DEF SetPause, settings, handle, client, store, times, server

LEMMA DetectOwn ==
    ASSUME OInv, Detect
    PROVE  OInv'
BY Keeps DEF Detect, settings, handle, client, store, times, server

LEMMA DetectedOwn ==
    ASSUME OInv, Detected
    PROVE  OInv'
BY Keeps DEF Detected, settings, handle, client, store, times, server

LEMMA TickOwn ==
    ASSUME OInv, Tick
    PROVE  OInv'
BY Keeps DEF Tick, settings, handle, client, store, times, server

LEMMA DayOwn ==
    ASSUME OInv, Day
    PROVE  OInv'
BY Keeps DEF Day, settings, handle, client, store, times, server

LEMMA ShutdownOwn ==
    ASSUME OInv, Shutdown
    PROVE  OInv'
BY Keeps DEF Shutdown, settings, handle, client, store, times, server

LEMMA ThawForShutdownOwn ==
    ASSUME OInv, ThawForShutdown
    PROVE  OInv'
BY Keeps DEF ThawForShutdown, settings, handle, client, store, times, server

LEMMA StartOwn ==
    ASSUME OInv, Start
    PROVE  OInv'
BY Keeps DEF Start, settings, handle, client, store, times, server

LEMMA StopperStartOwn ==
    ASSUME OInv, StopperStart
    PROVE  OInv'
BY Keeps DEF StopperStart, settings, handle, client, store, times, server

LEMMA StopperSignalOwn ==
    ASSUME OInv, StopperSignal
    PROVE  OInv'
BY Keeps DEF StopperSignal, settings, handle, client, store, times, server

LEMMA ResumeElsewhereOwn ==
    ASSUME OInv, NEW c \in Clients, ResumeElsewhere(c)
    PROVE  OInv'
BY Keeps DEF ResumeElsewhere, settings, handle, client, store, times, server

LEMMA CrashOwn ==
    ASSUME SInv, OInv, Crash
    PROVE  OInv'
BY Forgets DEF Crash, Volatile, settings, handle, client, store, times, server

LEMMA JoinOwn ==
    ASSUME SInv, OInv, Join
    PROVE  OInv'
BY Forgets DEF Join, Volatile, settings, handle, client, store, times, server

LEMMA WakeOwn ==
    ASSUME SInv, OInv, Wake
    PROVE  OInv'
<1>1. UNCHANGED <<given, rate, saved, previous, dropped>> /\ pass.gone = {}
  BY DEF Wake, Gate, OInv, Returned, settings, client, store, times
<1>2. mem'.loaded = mem.loaded /\ mem'.saved = mem.saved /\ mem'.previous = mem.previous
  BY DEF Wake, SInv, Shape, Applieds, server
<1>3. pass'.at \notin {"read", "restore", "set", "keep", "takeback", "unlist"} /\ pass'.gone = {}
  BY <1>1, IdleType DEF Wake, Gate, SInv, Shape, Passes, Places
<1> QED
  BY <1>1, <1>2, <1>3, Keeps

LEMMA RecheckOwn ==
    ASSUME SInv, OInv, Recheck
    PROVE  OInv'
<1>1. UNCHANGED <<given, rate, saved, previous, dropped>> /\ pass.gone = {}
  BY DEF Recheck, Gate, OInv, Returned, settings, client, store, times
<1>2. mem'.loaded = mem.loaded /\ mem'.saved = mem.saved /\ mem'.previous = mem.previous
  BY DEF Recheck, SInv, Shape, Applieds, server
<1>3. pass'.at \notin {"read", "restore", "set", "keep", "takeback", "unlist"} /\ pass'.gone = {}
  BY <1>1, IdleType DEF Recheck, Gate, SInv, Shape, Passes, Places
<1> QED
  BY <1>1, <1>2, <1>3, Keeps

LEMMA HoldOwn ==
    ASSUME SInv, OInv, Hold
    PROVE  OInv'
<1>1. UNCHANGED <<given, rate, saved, previous, dropped>> /\ pass.gone = {}
  BY DEF Hold, Gate, OInv, Returned, settings, client, store, times
<1>2. mem'.loaded = mem.loaded /\ mem'.saved = mem.saved /\ mem'.previous = mem.previous
  BY DEF Hold, SInv, Shape, Applieds, server
<1>3. pass'.at \notin {"read", "restore", "set", "keep", "takeback", "unlist"} /\ pass'.gone = {}
  BY <1>1, ThroughType, IdleType DEF Hold, Gate, SInv, Shape, Passes, Places
<1> QED
  BY <1>1, <1>2, <1>3, Keeps

LEMMA ChooseOwn ==
    ASSUME SInv, OInv, Choose
    PROVE  OInv'
<1>1. UNCHANGED <<given, rate, saved, previous, dropped>> /\ pass.gone = {}
  BY DEF Choose, Gate, OInv, Returned, settings, client, store, times
<1>2. mem'.loaded = mem.loaded /\ mem'.saved = mem.saved /\ mem'.previous = mem.previous
  BY ForgettingType DEF Choose, SInv, Shape, Applieds, server
<1>3. pass'.at \notin {"read", "restore", "set", "keep", "takeback", "unlist"} /\ pass'.gone = {}
  <2>1. CASE entry = None
    BY <1>1, <2>1, ThroughType DEF Choose, SInv, Shape, Passes
  <2>2. CASE entry # None
    <3>1. \E w, g : pass' = [pass EXCEPT !.at = "apply", !.id = entry, !.goal = g, !.want = w]
      BY <2>2 DEF Choose
    <3> QED
      BY <1>1, <3>1 DEF SInv, Shape, Passes
  <2> QED
    BY <2>1, <2>2
<1> QED
  BY <1>1, <1>2, <1>3, Keeps

LEMMA LimitsSetOwn ==
    ASSUME SInv, OInv, LimitsSet
    PROVE  OInv'
<1>1. UNCHANGED <<given, rate, saved, previous, dropped>> /\ pass.gone = {}
  BY DEF LimitsSet, Gate, OInv, Returned, settings, client, store, times
<1>2. mem'.loaded = mem.loaded /\ mem'.saved = mem.saved /\ mem'.previous = mem.previous
  BY DEF LimitsSet, SInv, Shape, Applieds, server
<1>3. pass'.at \notin {"read", "restore", "set", "keep", "takeback", "unlist"} /\ pass'.gone = {}
  BY <1>1, GotoType, ThroughType, IdleType DEF LimitsSet, Gate, SInv, Shape, Passes, Places
<1> QED
  BY <1>1, <1>2, <1>3, Keeps

LEMMA FindProcessOwn ==
    ASSUME SInv, OInv, FindProcess
    PROVE  OInv'
<1>1. UNCHANGED <<given, rate, saved, previous, dropped>> /\ pass.gone = {}
  BY DEF FindProcess, Gate, OInv, Returned, settings, client, store, times
<1>2. mem'.loaded = mem.loaded /\ mem'.saved = mem.saved /\ mem'.previous = mem.previous
  BY DEF FindProcess, Refuse, CallFails, SInv, Shape, Applieds, server
<1>3. pass'.at \notin {"read", "restore", "set", "keep", "takeback", "unlist"} /\ pass'.gone = {}
  <2>1. CASE Refuse
    BY <1>1, <2>1 DEF Refuse, SInv, Shape, Passes
  <2>2. CASE pass' = [pass EXCEPT !.at = "freezing", !.before = hold]
    BY <1>1, <2>2 DEF SInv, Shape, Passes
  <2> QED
    BY <2>1, <2>2, ThroughType DEF FindProcess, CallFails
<1> QED
  BY <1>1, <1>2, <1>3, Keeps

LEMMA FreezingOwn ==
    ASSUME SInv, OInv, Freezing
    PROVE  OInv'
<1>1. UNCHANGED <<given, rate, saved, previous, dropped>> /\ pass.gone = {}
  BY DEF Freezing, Gate, OInv, Returned, settings, client, store, times
<1>2. mem'.loaded = mem.loaded /\ mem'.saved = mem.saved /\ mem'.previous = mem.previous
  BY DEF Freezing, Refuse, SInv, Shape, Applieds, server
<1>3. pass'.at \notin {"read", "restore", "set", "keep", "takeback", "unlist"} /\ pass'.gone = {}
  <2>1. CASE Refuse
    BY <1>1, <2>1 DEF Refuse, SInv, Shape, Passes
  <2> QED
    BY <2>1, ThroughType DEF Freezing
<1> QED
  BY <1>1, <1>2, <1>3, Keeps

LEMMA ThawOwn ==
    ASSUME SInv, OInv, Thaw
    PROVE  OInv'
<1>1. UNCHANGED <<given, rate, saved, previous, dropped>> /\ pass.gone = {}
  BY DEF Thaw, Gate, OInv, Returned, settings, client, store, times
<1>2. mem'.loaded = mem.loaded /\ mem'.saved = mem.saved /\ mem'.previous = mem.previous
  BY DEF Thaw, SInv, Shape, Applieds, server
<1>3. pass'.at \notin {"read", "restore", "set", "keep", "takeback", "unlist"} /\ pass'.gone = {}
  BY <1>1, GotoType, ThroughType, IdleType DEF Thaw, Gate, SInv, Shape, Passes, Places
<1> QED
  BY <1>1, <1>2, <1>3, Keeps

LEMMA ThawedOwn ==
    ASSUME SInv, OInv, Thawed
    PROVE  OInv'
<1>1. UNCHANGED <<given, rate, saved, previous, dropped>> /\ pass.gone = {}
  BY DEF Thawed, Gate, OInv, Returned, settings, client, store, times
<1>2. mem'.loaded = mem.loaded /\ mem'.saved = mem.saved /\ mem'.previous = mem.previous
  BY DEF Thawed, SInv, Shape, Applieds, server
<1>3. pass'.at \notin {"read", "restore", "set", "keep", "takeback", "unlist"} /\ pass'.gone = {}
  BY <1>1, GotoType DEF Thawed, Gate, SInv, Shape, Passes, Places
<1> QED
  BY <1>1, <1>2, <1>3, Keeps

LEMMA RecheckFrozenOwn ==
    ASSUME SInv, OInv, RecheckFrozen
    PROVE  OInv'
<1>1. UNCHANGED <<given, rate, saved, previous, dropped>> /\ pass.gone = {}
  BY DEF RecheckFrozen, Gate, OInv, Returned, settings, client, store, times
<1>2. mem'.loaded = mem.loaded /\ mem'.saved = mem.saved /\ mem'.previous = mem.previous
  BY ForgettingType DEF RecheckFrozen, LetGo, SInv, Shape, Applieds, server
<1>3. pass'.at \notin {"read", "restore", "set", "keep", "takeback", "unlist"} /\ pass'.gone = {}
  BY <1>1, GotoType DEF RecheckFrozen, Gate, LetGo, SInv, Shape, Passes, Places
<1> QED
  BY <1>1, <1>2, <1>3, Keeps

LEMMA StoppedAgainOwn ==
    ASSUME SInv, OInv, StoppedAgain
    PROVE  OInv'
<1>1. UNCHANGED <<given, rate, saved, previous, dropped>> /\ pass.gone = {}
  BY DEF StoppedAgain, Gate, OInv, Returned, settings, client, store, times
<1>2. mem'.loaded = mem.loaded /\ mem'.saved = mem.saved /\ mem'.previous = mem.previous
  BY DEF StoppedAgain, SInv, Shape, Applieds, server
<1>3. pass'.at \notin {"read", "restore", "set", "keep", "takeback", "unlist"} /\ pass'.gone = {}
  BY <1>1, GotoType DEF StoppedAgain, Gate, SInv, Shape, Passes, Places
<1> QED
  BY <1>1, <1>2, <1>3, Keeps

LEMMA RecheckUploadsOwn ==
    ASSUME SInv, OInv, RecheckUploads
    PROVE  OInv'
<1>1. UNCHANGED <<given, rate, saved, previous, dropped>> /\ pass.gone = {}
  BY DEF RecheckUploads, Gate, OInv, Returned, settings, client, store, times
<1>2. mem'.loaded = mem.loaded /\ mem'.saved = mem.saved /\ mem'.previous = mem.previous
  BY ForgettingType DEF RecheckUploads, SInv, Shape, Applieds, server
<1>3. pass'.at \notin {"read", "restore", "set", "keep", "takeback", "unlist"} /\ pass'.gone = {}
  BY <1>1, GotoType DEF RecheckUploads, Gate, SInv, Shape, Passes, Places
<1> QED
  BY <1>1, <1>2, <1>3, Keeps

LEMMA PublishOwn ==
    ASSUME SInv, OInv, Publish
    PROVE  OInv'
<1>1. UNCHANGED <<given, rate, saved, previous, dropped>> /\ pass.gone = {}
  BY DEF Publish, Gate, OInv, Returned, settings, client, store, times
<1>2. mem'.loaded = mem.loaded /\ mem'.saved = mem.saved /\ mem'.previous = mem.previous
  BY DEF Publish, SInv, Shape, Applieds, server
<1>3. pass'.at \notin {"read", "restore", "set", "keep", "takeback", "unlist"} /\ pass'.gone = {}
  BY <1>1, IdleType DEF Publish, Gate, SInv, Shape, Passes, Places
<1> QED
  BY <1>1, <1>2, <1>3, Keeps

LEMMA ReplayDetectOwn ==
    ASSUME SInv, OInv, ReplayDetect
    PROVE  OInv'
<1>1. UNCHANGED <<given, rate, saved, previous, dropped>> /\ pass.gone = {}
  BY DEF ReplayDetect, Gate, OInv, Returned, settings, client, store, times
<1>2. mem'.loaded = mem.loaded /\ mem'.saved = mem.saved /\ mem'.previous = mem.previous
  BY DEF ReplayDetect, SInv, Shape, Applieds, server
<1>3. pass'.at \notin {"read", "restore", "set", "keep", "takeback", "unlist"} /\ pass'.gone = {}
  BY <1>1, GotoType DEF ReplayDetect, Gate, SInv, Shape, Passes, Places
<1> QED
  BY <1>1, <1>2, <1>3, Keeps

LEMMA WriteFailsOwn ==
    ASSUME SInv, OInv, NEW at \in {"aside", "clear", "takeback", "unlist", "read", "keep"}, WriteFails(at)
    PROVE  OInv'
BY Keeps, ThroughType DEF WriteFails, settings, client, store, times

LEMMA RestOwn ==
    ASSUME SInv, OInv, Rest
    PROVE  OInv'
<1>1. UNCHANGED <<given, rate, saved, previous, dropped, mem>> /\ pass.gone = {}
  BY DEF Rest, Gate, OInv, Returned, settings, client, store, times
<1>2. CASE Goto("publish")
  <2>1. pass'.at = "publish" /\ pass'.gone = {}
    BY <1>1, <1>2, GotoType DEF SInv, Shape, Places
  <2> QED
    BY <1>1, <2>1, Keeps
<1>3. ASSUME NEW todo, Trying(todo, "publish")
      PROVE  OInv'
  <2>1. pass'.at = "restore" /\ pass'.then = "publish" /\ pass'.gone = {}
    BY <1>1, <1>3 DEF Trying, SInv, Shape, Passes
  <2>2. Memory' /\ Covered'
    BY <1>1 DEF OInv, Memory, Covered, Has, Changed, Aside, ClientAt, Entries, OwnIn
  <2> QED
    BY <2>1, <2>2 DEF OInv, Reading, Writing, Returned
<1> QED
  BY <1>2, <1>3 DEF Rest

LEMMA SetAsideOwn ==
    ASSUME SInv, SInv', OInv, SetAside
    PROVE  OInv'
<1>1. /\ UNCHANGED <<given, rate, saved, dropped>> /\ pass.at = "aside" /\ mem.loaded
      /\ mem.saved = saved /\ saved # None /\ saved.at \in Addresses
  BY DEF SetAside, Gate, Writes, settings, client, SInv, Local, OInv, Memory, Shape, Scalars,
     Records
<1>2. previous' = [mem.previous EXCEPT ![saved.at] = saved.own] /\ mem.previous \in [Addresses -> OwnLimits \cup {None}]
  BY <1>1 DEF SetAside, SInv, Shape, Applieds
<1>3. mem'.loaded /\ mem'.saved = saved /\ mem'.previous = previous'
  BY <1>1 DEF SetAside, SInv, Shape, Applieds
<1>4. pass'.at = "clear" /\ pass'.gone = {}
  BY <1>1, GotoType DEF SetAside, SInv, Shape, Places, OInv, Returned
<1>5. \A a \in Addresses : previous'[a] = IF a = saved.at THEN saved.own ELSE mem.previous[a]
  BY <1>1, <1>2
<1>6. Memory'
  BY <1>1, <1>3 DEF Memory, Entries
<1>7. Covered'
  <2>1. \A a \in Addresses \ dropped : Has(a)'
    BY <1>1, <1>3, <1>5 DEF OInv, Covered, Has, Aside, Changed, ClientAt
  <2>2. (\A a \in Entries(previous) \ dropped : OwnIn(previous[a], ClientAt(a)))'
    <3> SUFFICES ASSUME NEW a \in Addresses \ dropped, previous'[a] # None
                 PROVE  OwnIn(previous'[a], ClientAt(a))
      BY <1>1 DEF Entries, OwnIn, ClientAt
    <3>1. CASE a = saved.at
      BY <1>1, <1>5, <3>1 DEF OInv, Covered
    <3>2. CASE a # saved.at
      BY <1>1, <1>5, <3>2 DEF OInv, Covered, Memory, Entries
    <3> QED
      BY <3>1, <3>2
  <2> QED
    BY <1>1, <2>1, <2>2 DEF OInv, Covered, Changed, ClientAt, OwnIn
<1> QED
  BY <1>4, <1>6, <1>7 DEF OInv, Reading, Writing, Returned

LEMMA ClearSavedOwn ==
    ASSUME SInv, SInv', OInv, ClearSaved
    PROVE  OInv'
<1>1. /\ UNCHANGED <<given, rate, previous, dropped>> /\ pass.at = "clear" /\ mem.loaded
      /\ mem.saved = saved /\ saved # None /\ saved.at \in Addresses /\ saved.own \in OwnLimits
      /\ mem.previous[saved.at] = saved.own /\ saved' = None
  BY DEF ClearSaved, Gate, Writes, settings, client, times, SInv, Local, OInv, Memory, Shape,
     Scalars, Records
<1>2. mem'.loaded /\ mem'.saved = None /\ mem'.previous = mem.previous
  BY <1>1 DEF ClearSaved, SInv, Shape, Applieds
<1>3. pass'.at \in {"rest", "apply"} /\ pass'.gone = {}
  BY <1>1, GotoType, ThroughType DEF ClearSaved, SInv, Shape, Places, OInv, Returned
<1>4. Memory'
  BY <1>1, <1>2 DEF OInv, Memory, Entries
<1>5. Covered'
  <2>1. mem.previous[saved.at] # None
    BY <1>1, LimitsAssumption
  <2>2. \A a \in Addresses \ dropped : Has(a)'
    BY <1>1, <1>2, <2>1 DEF OInv, Covered, Has, Aside, Changed, ClientAt
  <2> QED
    BY <1>1, <2>2 DEF OInv, Covered, Changed, ClientAt, OwnIn, Entries
<1> QED
  BY <1>3, <1>4, <1>5 DEF OInv, Reading, Writing, Returned

LEMMA TakeBackOwn ==
    ASSUME SInv, SInv', OInv, TakeBack
    PROVE  OInv'
<1>1. /\ UNCHANGED <<given, rate, previous, dropped>> /\ pass.at = "takeback" /\ mem.loaded
      /\ saved = None /\ pass.id \in Addresses /\ mem.previous[pass.id] # None
      /\ saved' = [at |-> pass.id, own |-> mem.previous[pass.id]] /\ saved' # None
  BY LimitsAssumption
     DEF TakeBack, Gate, Writes, settings, client, times, SInv, Local, AtClient, OInv, Writing, Shape, Applieds, Records
<1>2. mem'.loaded /\ mem'.saved = saved' /\ mem'.previous = mem.previous
  BY <1>1 DEF TakeBack, SInv, Shape, Applieds
<1>3. pass'.at = "unlist" /\ pass'.id = pass.id /\ pass'.gone = {}
  BY <1>1, GotoType DEF TakeBack, SInv, Shape, Places, OInv, Returned
<1>4. Memory'
  BY <1>1, <1>2 DEF OInv, Memory, Entries
<1>5. Covered'
  <2>1. \A a \in Addresses \ dropped : Has(a)'
    BY <1>1, <1>2 DEF OInv, Covered, Has, Aside, Changed, ClientAt
  <2>2. pass.id \notin dropped => OwnIn(mem.previous[pass.id], ClientAt(pass.id))
    BY <1>1 DEF OInv, Memory, Covered, Entries
  <2> QED
    BY <1>1, <2>1, <2>2 DEF OInv, Covered, Changed, ClientAt, OwnIn, Entries
<1> QED
  BY <1>1, <1>3, <1>4, <1>5 DEF OInv, Reading, Writing, Returned, Mine

LEMMA UnlistOwn ==
    ASSUME SInv, SInv', OInv, Unlist
    PROVE  OInv'
<1>1. /\ UNCHANGED <<given, rate, saved, dropped>> /\ pass.at = "unlist" /\ mem.loaded
      /\ saved # None /\ saved.at = pass.id /\ pass.id \in Addresses /\ mem.saved = saved
  BY DEF Unlist, Gate, Writes, settings, client, times, SInv, Local, AtClient, OInv, Writing, Mine,
     Memory
<1>2. previous' = [mem.previous EXCEPT ![pass.id] = None] /\ mem.previous \in [Addresses -> OwnLimits \cup {None}]
  BY DEF Unlist, SInv, Shape, Applieds
<1>3. mem'.loaded /\ mem'.saved = saved /\ mem'.previous = previous'
  BY <1>1 DEF Unlist, SInv, Shape, Applieds
<1>4. pass'.at = "apply" /\ pass'.gone = {}
  BY <1>1, GotoType DEF Unlist, SInv, Shape, Places, OInv, Returned
<1>5. \A a \in Addresses : previous'[a] = IF a = pass.id THEN None ELSE mem.previous[a]
  BY <1>1, <1>2
<1>6. Memory'
  BY <1>1, <1>3 DEF Memory, Entries
<1>7. Covered'
  <2>1. \A a \in Addresses \ dropped : Has(a)'
    BY <1>1, <1>3, <1>5 DEF OInv, Covered, Has, Aside, Changed, ClientAt
  <2>2. \A a \in Addresses \ dropped : previous'[a] # None => OwnIn(previous'[a], ClientAt(a))
    BY <1>1, <1>5 DEF OInv, Covered, Memory, Entries
  <2> QED
    BY <1>1, <2>1, <2>2 DEF OInv, Covered, Changed, ClientAt, OwnIn, Entries
<1> QED
  BY <1>4, <1>6, <1>7 DEF OInv, Reading, Writing, Returned

LEMMA RestoreEndOwn ==
    ASSUME SInv, SInv', OInv, RestoreEnd
    PROVE  OInv'
<1>1. /\ UNCHANGED <<given, rate, saved, dropped>> /\ pass.at = "restore" /\ mem.loaded
      /\ mem.saved = saved
  BY DEF RestoreEnd, Gate, settings, client, times, SInv, Local, OInv, Memory
<1> DEFINE left == [a \in Addresses |-> IF a \in pass.gone THEN None ELSE mem.previous[a]]
<1>2. mem'.loaded /\ mem'.saved = saved /\ mem'.previous = left
  BY <1>1 DEF RestoreEnd, SInv, Shape, Applieds
<1>3. previous' \in {left, previous}
  BY DEF RestoreEnd
<1>4. /\ pass'.at = pass.then /\ pass'.gone = {} /\ pass'.id = pass.id /\ pass'.own = pass.own
      /\ pass'.read = pass.read /\ pass.then \in {"read", "publish"}
  BY <1>1 DEF RestoreEnd, SInv, Local, Shape, Passes
<1>5. Memory'
  BY <1>1, <1>2, <1>3 DEF OInv, Memory, Entries
<1>6. Covered'
  <2>1. ASSUME NEW a \in Addresses \ dropped
        PROVE  Has(a)'
    <3>1. CASE saved # None /\ saved.at = a
      BY <1>1, <2>1, <3>1 DEF OInv, Covered, Has, Changed, ClientAt
    <3>2. CASE ~(saved # None /\ saved.at = a) /\ a \notin pass.gone
      BY <1>1, <1>2, <2>1, <3>2 DEF OInv, Covered, Has, Aside, Changed, ClientAt
    <3>3. CASE ~(saved # None /\ saved.at = a) /\ a \in pass.gone
      <4>1. Changed(ClientAt(a)) \subseteq Stored(mem.previous[a])
        BY <1>1, <2>1, <3>3, ChangedType DEF OInv, Covered, Has, Aside, Stored
      <4>2. Changed(ClientAt(a)) = {}
        BY <2>1, <3>3, <4>1 DEF OInv, Returned
      <4> QED
        BY <1>1, <4>2 DEF Has, Changed, ClientAt
    <3> QED
      BY <3>1, <3>2, <3>3
  <2>2. \A a \in Addresses \ dropped : previous'[a] # None => OwnIn(previous'[a], ClientAt(a))
    BY <1>1, <1>3 DEF OInv, Covered, Memory, Entries
  <2> QED
    BY <1>1, <2>1, <2>2 DEF OInv, Covered, Changed, ClientAt, OwnIn, Entries
<1>7. Reading'
  <2>1. CASE pass.then = "publish"
    BY <1>4, <2>1 DEF Reading
  <2>2. CASE pass.then = "read"
    <3>1. saved = None => left[pass.id] = None
      <4>1. pass.id \in Addresses
        BY <1>1, <2>2 DEF SInv, Local
      <4> QED
        BY <1>1, <2>2, <4>1 DEF OInv, Reading
    <3> QED
      BY <1>1, <1>2, <1>4, <2>2, <3>1 DEF OInv, Reading, Mine, OwnIn, ClientAt, Stored, NoLimits
  <2> QED
    BY <1>4, <2>1, <2>2
<1> QED
  BY <1>4, <1>5, <1>6, <1>7 DEF OInv, Writing, Returned

LEMMA RestoreOneOwn ==
    ASSUME SInv, SInv', OwnClients, OInv, NEW a \in Addresses, RestoreOne(a)
    PROVE  OInv'
<1> DEFINE own == mem.previous[a]
           k   == ClientAt(a)
<1>1. /\ UNCHANGED <<given, saved, previous, mem>> /\ pass.at = "restore" /\ mem.loaded
      /\ own # None /\ own \in OwnLimits /\ k \in Clients /\ dropped \subseteq dropped'
  <2>1. a \in pass.todo /\ pass.at = "restore" /\ UNCHANGED <<given, saved, previous, mem>>
    BY DEF RestoreOne, Gate, settings, store
  <2>2. mem.loaded /\ own # None /\ own \in OwnLimits
    BY <2>1 DEF SInv, Local, Entries, Shape, Applieds
  <2>3. dropped \subseteq dropped'
    BY DEF RestoreOne
  <2> QED
    BY <2>1, <2>2, <2>3, CaseType DEF ClientAt, SInv, Shape, Scalars
<1>2. \E slots \in SUBSET Stored(own) : rate' = PutBack(k, own, slots)
  BY DEF RestoreOne, Begun
<1>3. \A c \in Clients \ {k} : rate'[c] = rate[c]
  BY <1>2 DEF PutBack, SInv, Shape, Scalars
<1>4. a \notin dropped => OwnIn(own, k)
  BY <1>1 DEF OInv, Covered, Memory, Entries
<1>5. a \notin dropped => Changed(k)' \subseteq Changed(k)
  <2>1. \A s \in Slots : rate'[k][s] = rate[k][s] \/ (own[s] # None /\ rate'[k][s] = own[s])
    BY <1>1, <1>2 DEF PutBack, Stored, SInv, Shape, Scalars
  <2> QED
    BY <1>1, <1>4, <2>1 DEF Changed, OwnIn, ClientAt
<1>6. \A c \in Clients : Changed(c)' \subseteq Changed(c) \/ \E b \in dropped' : ClientAt(b) = c
  <2>1. ClientAt(a)' = ClientAt(a)
    BY <1>1 DEF ClientAt
  <2>2. ASSUME NEW c \in Clients \ {k}
        PROVE  Changed(c)' \subseteq Changed(c)
    BY <1>1, <1>3 DEF Changed
  <2>3. a \in dropped => \E b \in dropped' : ClientAt(b) = k
    BY <1>1
  <2> QED
    BY <1>5, <2>1, <2>2, <2>3
<1>7. Memory'
  BY <1>1 DEF OInv, Memory, Entries
<1>8. Covered'
  BY <1>1, <1>6, Shrinks DEF OInv
<1>9. /\ pass'.at = pass.at /\ pass'.then = pass.then /\ pass'.id = pass.id /\ pass'.own = pass.own
      /\ pass'.read = pass.read
      /\ \/ pass'.gone = pass.gone
         \/ pass'.gone = pass.gone \cup {a} /\ a \in dropped'
         \/ pass'.gone = pass.gone \cup {a} /\ rate' = PutBack(k, own, Stored(own))
  BY DEF RestoreOne, SInv, Shape, Passes
<1>10. Reading'
  BY <1>1, <1>9 DEF OInv, Reading, Mine, OwnIn, ClientAt, Stored, NoLimits
<1>11. Returned'
  <2> SUFFICES ASSUME NEW b \in pass'.gone \ dropped'
               PROVE  Changed(ClientAt(b))' \cap Stored(mem.previous[b]) = {}
    BY <1>1, <1>9 DEF Returned, Stored
  <2>1. b \in Addresses /\ ClientAt(b)' = ClientAt(b) /\ ClientAt(b) \in Clients
    BY <1>1, CaseType DEF SInv, Shape, Scalars, Passes, ClientAt
  <2>2. CASE b \in pass.gone
    <3>1. Changed(ClientAt(b)) \cap Stored(mem.previous[b]) = {}
      BY <1>1, <2>2 DEF OInv, Returned
    <3>2. Changed(ClientAt(b))' \subseteq Changed(ClientAt(b))
      <4>1. dropped' \subseteq Addresses
        BY DEF SInv, Shape, Scalars
      <4> QED
        BY <1>6, <2>1, <4>1, Apart
    <3> QED
      BY <3>1, <3>2
  <2>3. CASE b = a /\ rate' = PutBack(k, own, Stored(own))
    <3>1. \A s \in Stored(own) : rate'[k][s] = own[s] /\ own[s] # None
      BY <1>1, <2>3 DEF PutBack, Stored, SInv, Shape, Scalars
    <3>2. OwnIn(own, k)
      BY <1>1, <1>4, <2>3
    <3> QED
      BY <1>1, <2>1, <2>3, <3>1, <3>2 DEF Changed, OwnIn, Stored
  <2> QED
    BY <1>9, <2>2, <2>3
<1> QED
  BY <1>1, <1>7, <1>8, <1>9, <1>10, <1>11 DEF OInv, Writing

LEMMA ApplyOwn ==
    ASSUME SInv, SInv', OInv, Apply
    PROVE  OInv'
<1> DEFINE own  == IF mem.saved = None THEN NoLimits ELSE mem.saved.own
           next == [pass EXCEPT !.own = own, !.read = FALSE]
<1>1. /\ UNCHANGED <<given, rate, saved, previous, dropped, mem>> /\ pass.at = "apply" /\ mem.loaded
      /\ pass.id \in Addresses /\ mem.saved = saved /\ pass.gone = {}
  BY DEF Apply, Gate, settings, client, store, times, SInv, Local, AtClient, OInv, Memory, Returned
<1>2. CASE pass' = [pass EXCEPT !.at = "aside", !.then = "apply"]
  <2>1. pass'.at = "aside" /\ pass'.gone = {}
    BY <1>1, <1>2 DEF SInv, Shape, Passes
  <2> QED
    BY <1>1, <2>1, Keeps
<1>3. Memory' /\ Covered'
  BY <1>1 DEF OInv, Memory, Covered, Has, Changed, Aside, ClientAt, Entries, OwnIn
<1>4. CASE Goto("takeback") /\ saved = None
  <2>1. pass'.at = "takeback" /\ pass'.gone = {}
    BY <1>1, <1>4, GotoType DEF SInv, Shape, Places
  <2> QED
    BY <1>1, <1>3, <1>4, <2>1 DEF OInv, Reading, Writing, Returned
<1>5. CASE /\ \/ pass' = [next EXCEPT !.at = "restore", !.then = "read", !.todo = Entries(mem.previous)]
              \/ pass' = [next EXCEPT !.at = "read"]
           /\ saved # None => saved.at = pass.id
           /\ saved = None => mem.previous[pass.id] = None
  <2>1. /\ pass'.at \in {"restore", "read"} /\ pass'.id = pass.id /\ pass'.own = own /\ pass'.gone = {}
    BY <1>1, <1>5 DEF SInv, Shape, Passes
  <2>2. pass.id \notin dropped => OwnIn(own, ClientAt(pass.id))
    BY <1>1, <1>5 DEF OInv, Covered, OwnIn, NoLimits
  <2>3. Reading'
    BY <1>1, <1>5, <2>1, <2>2 DEF Reading, Mine, OwnIn, ClientAt, Stored, NoLimits
  <2> QED
    BY <1>3, <2>1, <2>3 DEF OInv, Writing, Returned
<1> QED
  BY <1>1, <1>2, <1>4, <1>5 DEF Apply

LEMMA ReadOwnOwn ==
    ASSUME SInv, SInv', OInv, ReadOwn
    PROVE  OInv'
<1> DEFINE s == First(Unread)
           c == ClientAt(pass.id)
<1>1. /\ UNCHANGED <<given, rate, saved, previous, dropped>> /\ pass.at = "read" /\ mem.loaded
      /\ pass.id \in Addresses /\ mem.saved = saved /\ pass.gone = {} /\ pass.own \in OwnLimits
      /\ s \in Slots /\ pass.own[s] = None /\ rate[c] \in OwnLimits
  <2>1. s \in Slots /\ pass.own[s] = None
    BY FirstUnread DEF ReadOwn, Unread
  <2>2. pass.id \in Addresses /\ pass.own \in OwnLimits
    BY DEF ReadOwn, Gate, SInv, Local, AtClient, Shape, Passes
  <2>3. rate[c] \in OwnLimits
    BY <2>2, CaseType DEF ClientAt, SInv, Shape, Scalars
  <2> QED
    BY <2>1, <2>2, <2>3 DEF ReadOwn, Gate, settings, client, store, times, SInv, Local, OInv,
       Memory, Returned
<1>2. mem'.loaded = mem.loaded /\ mem'.saved = mem.saved /\ mem'.previous = mem.previous
  BY DEF ReadOwn, CallFails, SInv, Shape, Applieds
<1>3. CASE pass' = [pass EXCEPT !.own[s] = rate[c][s], !.read = @ \/ rate[c][s] # None]
  <2>1. /\ pass'.at = "read" /\ pass'.id = pass.id /\ pass'.gone = {}
        /\ pass'.own = [pass.own EXCEPT ![s] = rate[c][s]]
        /\ pass'.read <=> (pass.read \/ rate[c][s] # None)
    BY <1>1, <1>3 DEF SInv, Shape, Passes
  <2>2. pass.id \notin dropped => s \notin Changed(c)
    BY <1>1 DEF OInv, Covered, Has, Reading, Mine, Aside, Stored, Memory
  <2>3. pass.id \notin dropped => rate[c][s] = given.own[c][s]
    BY <1>1, <2>2 DEF Changed
  <2>4. \A x \in Slots : pass'.own[x] = IF x = s THEN rate[c][s] ELSE pass.own[x]
    BY <1>1, <2>1 DEF OwnLimits
  <2>5. Memory' /\ Covered'
    BY <1>1, <1>2 DEF OInv, Memory, Covered, Has, Changed, Aside, ClientAt, Entries, OwnIn
  <2>6. pass.id \notin dropped => OwnIn(pass'.own, c)
    BY <1>1, <2>3, <2>4 DEF OInv, Reading, OwnIn
  <2>7. saved # None => \A x \in Stored(saved.own) : pass'.own[x] = saved.own[x]
    BY <1>1, <2>4 DEF OInv, Reading, Stored
  <2>8. ~pass'.read => pass'.own = pass.own
    BY <1>1, <2>1 DEF OwnLimits
  <2>9. Reading'
    BY <1>1, <1>2, <2>1, <2>6, <2>7, <2>8 DEF OInv, Reading, Mine, OwnIn, ClientAt, Stored, NoLimits
  <2> QED
    BY <2>1, <2>5, <2>9 DEF OInv, Writing, Returned
<1>4. CASE Through(FALSE)
  BY <1>1, <1>2, <1>4, ThroughType, Keeps
<1>5. CASE UNCHANGED pass
  BY <1>1, <1>2, <1>5, Keeps
<1> QED
  BY <1>3, <1>4, <1>5 DEF ReadOwn, CallFails

LEMMA PersistOwn ==
    ASSUME SInv, SInv', OInv, Persist
    PROVE  OInv'
<1>1. /\ UNCHANGED <<given, rate, previous, dropped>> /\ pass.at = "read" /\ mem.loaded
      /\ pass.id \in Addresses /\ mem.saved = saved /\ pass.gone = {} /\ pass.own \in OwnLimits
  BY DEF Persist, Gate, Writes, settings, client, times, SInv, Local, AtClient, OInv, Memory,
     Returned, Shape, Passes
<1>2. pass'.at = "set" /\ pass'.id = pass.id /\ pass'.own = pass.own /\ pass'.gone = {}
  BY <1>1, GotoType DEF Persist, SInv, Shape, Places
<1>3. mem'.loaded = mem.loaded /\ mem'.previous = mem.previous /\ mem'.saved = saved'
  BY <1>1 DEF Persist, SInv, Shape, Applieds
<1>4. Memory'
  BY <1>1, <1>3 DEF OInv, Memory, Entries
<1>5. CASE pass.read /\ saved' = [at |-> pass.id, own |-> pass.own]
  <2>1. saved' # None /\ saved'.at = pass.id /\ saved'.own = pass.own
    BY <1>1, <1>5, LimitsAssumption DEF Records
  <2>2. \A a \in Addresses \ dropped : Has(a)'
    <3> SUFFICES ASSUME NEW a \in Addresses \ dropped, NEW s \in Changed(ClientAt(a)),
                        a # pass.id => Aside[a] # None /\ Aside[a][s] # None
                 PROVE  a = pass.id => pass.own[s] # None
      BY <1>1, <1>3, <2>1 DEF OInv, Covered, Has, Aside, Changed, ClientAt, Reading, Mine
    <3>1. s \in Slots
      BY ChangedType
    <3> QED
      BY <1>1, <3>1 DEF OInv, Covered, Has, Reading, Mine, Aside, Stored
  <2>3. Covered'
    BY <1>1, <2>1, <2>2 DEF OInv, Covered, Changed, ClientAt, OwnIn, Entries, Reading
  <2> QED
    BY <1>2, <1>4, <2>1, <2>3 DEF OInv, Reading, Writing, Returned, Mine
<1>6. CASE ~pass.read /\ saved' = saved
  <2>1. Covered'
    BY <1>1, <1>3, <1>6 DEF OInv, Covered, Has, Aside, Changed, ClientAt, OwnIn, Entries
  <2>2. Writing'
    BY <1>1, <1>2, <1>6 DEF OInv, Reading, Writing, Mine, NoLimits
  <2> QED
    BY <1>2, <1>4, <2>1, <2>2 DEF OInv, Reading, Returned
<1> QED
  BY <1>5, <1>6 DEF Persist

LEMMA SetLimitOwn ==
    ASSUME SInv, SInv', OwnClients, OInv, SetLimit
    PROVE  OInv'
<1>0. pass.at = "set" /\ pass.id \in Addresses /\ ClientAt(pass.id) \in Clients
  BY CaseType DEF SetLimit, Gate, ClientAt, SInv, Local, AtClient, Shape, Scalars
<1> PICK c \in Clients : c = ClientAt(pass.id)
  BY <1>0
<1> PICK i \in Addresses : i = pass.id
  BY <1>0
<1> DEFINE s == First(Unsettled)
           v == IF Unset(s) THEN Wanted(s) ELSE pass.own[s]
<1>1. /\ UNCHANGED <<given, saved, previous, dropped>> /\ pass.at = "set" /\ mem.loaded
      /\ pass.id \in Addresses /\ mem.saved = saved /\ pass.gone = {} /\ pass.own \in OwnLimits
      /\ s \in Slots /\ pass.own[s] # None
  <2>1. s \in Slots /\ Unsettled(s)
    BY FirstUnsettled DEF SetLimit
  <2>2. pass.own[s] # None
    BY <2>1, WantedType DEF Unsettled, Unset, Unrestored, SInv
  <2>3. pass.id \in Addresses /\ pass.own \in OwnLimits
    BY DEF SetLimit, Gate, SInv, Local, AtClient, Shape, Passes
  <2> QED
    BY <1>0, <2>1, <2>2, <2>3 DEF SetLimit, Gate, settings, store, times, SInv, Local, OInv,
       Memory, Returned
<1>2. mem'.loaded = mem.loaded /\ mem'.saved = mem.saved /\ mem'.previous = mem.previous
  BY DEF SetLimit, CallFails, SInv, Shape, Applieds
<1>3. saved # None /\ saved.at = pass.id /\ saved.own = pass.own
  BY <1>1 DEF OInv, Writing, Mine, NoLimits
<1>4. rate' \in {rate, [rate EXCEPT ![c][s] = v]}
  BY DEF SetLimit
<1>5. \A x \in Clients : x # c => Changed(x)' = Changed(x)
  BY <1>1, <1>4 DEF Changed, SInv, Shape, Scalars
<1>6. Changed(c)' \subseteq Changed(c) \cup {s}
  BY <1>1, <1>4 DEF Changed, SInv, Shape, Scalars, OwnLimits
<1>7. Memory'
  BY <1>1, <1>2 DEF OInv, Memory, Entries
<1>8. \A a \in Addresses : ClientAt(a)' = ClientAt(a) /\ ClientAt(a) \in Clients
  BY <1>1, CaseType DEF ClientAt, SInv, Shape, Scalars
<1>9. \A a \in Addresses \ dropped : Has(a)'
  <2> SUFFICES ASSUME NEW a \in Addresses \ dropped
               PROVE  Has(a)'
    BY <1>1
  <2>1. CASE a = i
    BY <1>1, <1>3, <1>6, <1>8, <2>1 DEF OInv, Covered, Has
  <2>2. CASE a # i
    <3>1. ClientAt(a) # c
      BY <1>1, <2>2, Apart
    <3>2. Changed(ClientAt(a))' = Changed(ClientAt(a))
      BY <1>5, <1>8, <3>1
    <3> QED
      BY <1>1, <1>2, <3>2 DEF OInv, Covered, Has, Aside
  <2> QED
    BY <2>1, <2>2
<1>10. Covered'
  <2>1. \A x \in Clients : Changed(x)' # {} => \E a \in Addresses : ClientAt(a)' = x
    BY <1>1, <1>5, <1>8 DEF OInv, Covered
  <2> QED
    BY <1>1, <1>9, <2>1 DEF OInv, Covered, OwnIn, ClientAt, Entries
<1>11. CASE UNCHANGED pass
  BY <1>1, <1>7, <1>10, <1>11 DEF OInv, Reading, Writing, Returned, Mine, NoLimits
<1>12. CASE Through(FALSE)
  BY <1>7, <1>10, <1>12, ThroughType DEF OInv, Reading, Writing, Returned
<1>13. CASE /\ pass' = [pass EXCEPT !.own[s] = None, !.at = "keep"]
            /\ rate' = [rate EXCEPT ![c][s] = pass.own[s]]
  <2>1. /\ pass'.at = "keep" /\ pass'.id = pass.id /\ pass'.gone = {}
        /\ pass'.own = [pass.own EXCEPT ![s] = None]
    BY <1>1, <1>13 DEF SInv, Shape, Passes
  <2>2. \A x \in Slots : pass'.own[x] = IF x = s THEN None ELSE pass.own[x]
    BY <1>1, <2>1 DEF OwnLimits
  <2>3. i \notin dropped => s \notin Changed(c)'
    <3>1. i \notin dropped => pass.own[s] = given.own[c][s]
      BY <1>1, <1>3 DEF OInv, Covered, OwnIn
    <3>2. rate'[c][s] = pass.own[s]
      BY <1>1, <1>13 DEF SInv, Shape, Scalars, OwnLimits
    <3> QED
      BY <1>1, <1>8, <3>1, <3>2 DEF Changed
  <2>4. i \notin dropped => \A x \in Slots \ Stored(pass'.own) : x \notin Changed(c)'
    BY <1>1, <1>3, <1>6, <2>2, <2>3 DEF OInv, Covered, Has, Stored
  <2>5. \A x \in Stored(pass'.own) : saved.own[x] = pass'.own[x]
    BY <1>3, <2>2 DEF Stored
  <2>6. Writing'
    BY <1>1, <1>3, <1>8, <2>1, <2>4, <2>5 DEF Writing, Mine, Stored
  <2> QED
    BY <1>7, <1>10, <2>1, <2>6 DEF OInv, Reading, Returned
<1> QED
  BY <1>11, <1>12, <1>13 DEF SetLimit, CallFails

LEMMA KeepSavedOwn ==
    ASSUME SInv, SInv', OInv, KeepSaved
    PROVE  OInv'
<1>1. /\ UNCHANGED <<given, rate, previous, dropped>> /\ pass.at = "keep" /\ mem.loaded
      /\ pass.id \in Addresses /\ mem.saved = saved /\ pass.gone = {} /\ pass.own \in OwnLimits
      /\ saved # None /\ saved.at = pass.id
      /\ saved' = IF Stored(pass.own) = {} THEN None ELSE [at |-> pass.id, own |-> pass.own]
  BY DEF KeepSaved, Gate, Writes, settings, client, times, SInv, Local, AtClient, OInv, Memory,
     Returned, Shape,
         Passes, Writing, Mine
<1>2. pass'.at = "set" /\ pass'.id = pass.id /\ pass'.own = pass.own /\ pass'.gone = {}
  BY <1>1, GotoType DEF KeepSaved, SInv, Shape, Places
<1>3. mem'.loaded = mem.loaded /\ mem'.previous = mem.previous /\ mem'.saved = saved'
  BY <1>1 DEF KeepSaved, SInv, Shape, Applieds
<1>4. Memory'
  BY <1>1, <1>3 DEF OInv, Memory, Entries
<1>5. pass.id \notin dropped => Changed(ClientAt(pass.id)) \subseteq Stored(pass.own)
  BY <1>1, ChangedType DEF OInv, Writing
<1>6. \A a \in Addresses \ dropped : a # pass.id => Has(a)'
  BY <1>1, <1>3 DEF OInv, Covered, Has, Aside, Changed, ClientAt
<1>7. pass.id \notin dropped => OwnIn(pass.own, ClientAt(pass.id))
  BY <1>1 DEF OInv, Covered, Writing, OwnIn, Stored
<1>8. CASE Stored(pass.own) = {}
  <2>1. pass.own = NoLimits
    BY <1>1, <1>8 DEF Stored, NoLimits, OwnLimits
  <2>2. pass.id \notin dropped => Has(pass.id)'
    BY <1>1, <1>2, <1>5, <1>8 DEF Has, Changed, ClientAt
  <2>3. Covered'
    BY <1>1, <1>2, <1>6, <1>8, <2>2 DEF OInv, Covered, Changed, ClientAt, OwnIn, Entries
  <2> QED
    BY <1>1, <1>2, <1>4, <1>8, <2>1, <2>3 DEF OInv, Reading, Writing, Returned, Mine
<1>9. CASE saved' = [at |-> pass.id, own |-> pass.own]
  <2>1. saved' # None /\ saved'.at = pass.id /\ saved'.own = pass.own
    BY <1>1, <1>9, LimitsAssumption DEF Records
  <2>2. pass.id \notin dropped => Has(pass.id)'
    BY <1>1, <1>2, <1>5, <2>1 DEF Has, Changed, ClientAt, Stored
  <2>3. Covered'
    BY <1>1, <1>2, <1>6, <1>7, <2>1, <2>2 DEF OInv, Covered, Changed, ClientAt, OwnIn, Entries
  <2> QED
    BY <1>2, <1>4, <2>1, <2>3 DEF OInv, Reading, Writing, Returned, Mine
<1> QED
  BY <1>1, <1>8, <1>9

LEMMA OInvInit == Init => OInv
<1> SUFFICES ASSUME Init
             PROVE  OInv
  OBVIOUS
<1>1. Memory /\ Reading /\ Writing /\ Returned
  BY IdleType, NotLoadedType DEF Init, Memory, Reading, Writing, Returned
<1>2. \A c : Changed(c) = {}
  BY DEF Init, Changed
<1>3. Entries(previous) = {}
  BY DEF Init, Entries
<1>4. Covered
  BY <1>2, <1>3 DEF Init, Covered, Has
<1> QED
  BY <1>1, <1>4 DEF OInv

LEMMA TaskOwn ==
    ASSUME SInv, SInv', OwnClients, OInv, Task
    PROVE  OInv'
<1>1. CASE Wake \/ PassSteps
  BY <1>1, WakeOwn, LoadOwn, HoldOwn, ChooseOwn, RestOwn, PublishOwn, ReplayDetectOwn DEF PassSteps
<1>2. CASE RecordSteps
  BY <1>2, SetAsideOwn, ClearSavedOwn, TakeBackOwn, UnlistOwn, RestoreEndOwn,
     RestoreOneOwn DEF RecordSteps
<1>3. CASE LimitSteps
  BY <1>3, ApplyOwn, ReadOwnOwn, PersistOwn, SetLimitOwn, KeepSavedOwn, LimitsSetOwn DEF LimitSteps
<1>4. CASE FreezeSteps
  BY <1>4, FindProcessOwn, FreezingOwn, ThawOwn, ThawedOwn, RecheckFrozenOwn, StoppedAgainOwn,
     RecheckUploadsOwn
     DEF FreezeSteps
<1> QED
  BY <1>1, <1>2, <1>3, <1>4 DEF Task

LEMMA OInvStep ==
    ASSUME SInv, SInv', OwnClients, OInv, [Next]_vars
    PROVE  OInv'
<1>1. CASE FailedWrite
  <2>1. FailedWrite => \E at \in {"aside", "clear", "takeback", "unlist", "read", "keep"} : WriteFails(at)
    BY DEF FailedWrite, PersistFails
  <2> QED
    BY <1>1, <2>1, WriteFailsOwn
<1>2. CASE Recheck \/ Stopper
  BY <1>2, RecheckOwn, StopperStartOwn, StopperSignalOwn DEF Stopper
<1>3. CASE Server \/ Tick
  BY <1>3, DetectedOwn, JoinOwn, ThawForShutdownOwn, StartOwn, TickOwn DEF Server
<1>4. CASE World
  BY <1>4, SetCoreOwn, SetPauseOwn, DetectOwn, DayOwn, CrashOwn, ShutdownOwn, RestartClientOwn,
     ResumeElsewhereOwn
     DEF World
<1>5. CASE UNCHANGED vars
  BY <1>5, Keeps DEF vars, settings, handle, client, store, times, server
<1> QED
  BY <1>1, <1>2, <1>3, <1>4, <1>5, TaskOwn DEF Next

\* Where every address has a client of its own, each limit of a client that is not its own has
\* that one in the database, whatever fails and whenever mistarr is killed, and what is stored
\* is the client's own, unless a day of failed tries gave the limits up: `apply_limits`,
\* `restore_previous`, `set_aside`, `take_back` and `persist_saved`.
THEOREM OwnIsAlwaysKept == OwnClients => (Spec => []OwnIsKept)
<1>1. ASSUME SInv, OInv
      PROVE  OwnIsKept
  <2>1. ASSUME NEW c \in Clients, NEW s \in Slots, rate[c][s] # given.own[c][s]
        PROVE  \/ saved # None /\ ClientAt(saved.at) = c /\ saved.own[s] # None
               \/ \E a \in Entries(previous) : ClientAt(a) = c /\ previous[a][s] # None
               \/ \E a \in dropped : ClientAt(a) = c
    <3>1. s \in Changed(c)
      BY <2>1 DEF Changed
    <3>2. PICK a \in Addresses : ClientAt(a) = c
      BY <1>1, <3>1 DEF OInv, Covered
    <3>3. CASE a \in dropped
      BY <3>2, <3>3
    <3>4. CASE a \notin dropped
      <4>1. \/ saved # None /\ saved.at = a /\ saved.own[s] # None
            \/ Aside[a] # None /\ Aside[a][s] # None
        BY <1>1, <3>1, <3>2, <3>4 DEF OInv, Covered, Has
      <4>2. Aside[a] # None => previous[a] = Aside[a]
        BY <1>1 DEF OInv, Memory, Aside, Entries
      <4> QED
        BY <3>2, <4>1, <4>2 DEF Entries
    <3> QED
      BY <3>3, <3>4
  <2> QED
    BY <1>1, <2>1 DEF OInv, Covered, OwnIsKept
<1>2. ASSUME OwnClients
      PROVE  Spec => []OwnIsKept
  <2>1. SInv /\ OInv /\ [Next]_vars => (SInv /\ OInv)'
    BY <1>2, SInvStep, OInvStep
  <2>2. Init => SInv /\ OInv
    BY SInvInit, OInvInit
  <2> QED
    BY <1>1, <2>1, <2>2, PTL DEF Spec
<1> QED
  BY <1>2
=============================================================================
