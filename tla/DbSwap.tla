-------------------------------- MODULE DbSwap --------------------------------
(***************************************************************************)
(* How mistarr-server replaces its database file with one written in RAM,  *)
(* and how a start finishes or undoes a swap that was cut short.           *)
(*                                                                         *)
(* The card's directory maps the names that exist to files.  A step is one *)
(* file operation, so a kill or a power cut may come between any two, and  *)
(* a power cut inside a rename may leave neither of its names readable.    *)
(***************************************************************************)
EXTENDS Integers, Sequences, FiniteSets, Functions

CONSTANTS
    Writes,      \* ordinary write transactions
    Imports,     \* DAT imports; each commits one item
    Migrated,    \* whether the database the model begins with has the schema
    Limits       \* the bounds a behaviour may have: on kills and power cuts, on
                 \* power cuts inside a rename, and on failing file operations

Schema == "schema"  \* what a pending migration brings
Base   == "base"    \* what the database the model begins with holds
Items  == Writes \cup Imports \cup {Schema, Base}

ASSUME ItemsAssumption ==
    /\ Writes \cap Imports = {}
    /\ {Schema, Base} \cap (Writes \cup Imports) = {}
ASSUME BoundsAssumption ==
    /\ Migrated \in BOOLEAN
    /\ Limits \subseteq [crashes : Nat, torn : Nat, errors : Nat]

VARIABLES
    dir,       \* the card's directory: name -> file, as the process sees it
    synced,    \* the directory as of its last sync
    up,        \* the process: "down", "start", "open", "broken", "refused"
    at,        \* the next step of the start or of the import
    swapping,  \* the start saw files of a swap
    copy,      \* the items of the copy in RAM
    job,       \* the import at work, or "none"
    round,     \* 1: the copy is swapped in; 2: its compacted twin
    failed,    \* the swap ended in an error
    reading,   \* a read holds the reader connection
    view,      \* what the last read saw
    acked,     \* history: items the program has reported as stored
    firm,      \* history: those of them a power cut must not take
    budget     \* crashes, torn renames and failures so far

cardVars == <<dir, synced>>
swapVars == <<copy, job, round, failed>>
readVars == <<reading, view>>
history  == <<acked, firm>>
vars == <<cardVars, up, at, swapping, swapVars, readVars, history, budget>>

Name == {"db", "wal", "new", "old", "marker"}

\* A file: which generation of the database it belongs to, the items its
\* pages hold, the transactions its frames hold, and whether all is there.
File == [gen : Nat, data : SUBSET Items, log : Seq(Items), whole : BOOLEAN]

Marker     == [gen |-> 0, data |-> {}, log |-> <<>>, whole |-> TRUE]
Pages(g, d) == [gen |-> g, data |-> d, log |-> <<>>, whole |-> TRUE]
Frames(g, l) == [gen |-> g, data |-> {}, log |-> l, whole |-> TRUE]

Exists(n) == n \in DOMAIN dir
With(d, n, f)  == [m \in DOMAIN d \cup {n} |-> IF m = n THEN f ELSE d[m]]
Without(d, S)  == Restrict(d, DOMAIN d \ S)
Moved(d, a, b) == With(Without(d, {a}), b, d[a])

\* What a connection reads: the pages and the committed frames beside them.
Log(d)  == IF "wal" \in DOMAIN d THEN d["wal"].log ELSE <<>>
Seen(d) == d["db"].data \cup Range(Log(d))

SwapFiles == \E n \in {"old", "new", "marker"} : Exists(n)

\* Frames of another generation, replayed over the pages, ruin them.
Mixed == Exists("wal") /\ Log(dir) # <<>> /\ dir["wal"].gen # dir["db"].gen

\* The write turn: free, unless an import holds the writer.
TurnFree == at \in {"idle", "card"}

\* The steps that hold the reader while both connections are closed.
Swapped == {"rmwal", "mark", "marksync", "ren1", "ren1sync", "ren2", "ren2sync",
            "backsync", "backmark", "rmold", "oldsync", "rmmark", "donesync", "reopen"}

\* Each directory sync, and the step after it.
SyncThen == [ marksync |-> "ren1",  ren1sync |-> "ren2", ren2sync |-> "rmold",
              backsync |-> "backmark", oldsync |-> "rmmark", donesync |-> "reopen",
              newsync  |-> "finish", fsync |-> "unmark", unmarksync |-> "rmnew" ]

Steps == Swapped \cup DOMAIN SyncThen \cup
         {"off", "look", "finish", "unmark", "rmnew", "migrate", "opening", "idle",
          "card", "empty", "copy", "work", "twin", "write", "writing", "wait",
          "close", "drop"}

TypeOK ==
    /\ DOMAIN dir \subseteq Name /\ \A n \in DOMAIN dir : dir[n] \in File
    /\ DOMAIN synced \subseteq Name /\ \A n \in DOMAIN synced : synced[n] \in File
    /\ up \in {"down", "start", "open", "broken", "refused"}
    /\ at \in Steps
    /\ swapping \in BOOLEAN /\ failed \in BOOLEAN /\ reading \in BOOLEAN
    /\ copy \in SUBSET Items
    /\ job \in Imports \cup {"none"}
    /\ at \in {"empty", "copy", "work", "card"} => job \in Imports
    /\ round \in {1, 2}
    /\ view \in SUBSET Items /\ acked \in SUBSET Items /\ firm \in SUBSET Items
    /\ budget.of \in Limits
    /\ \A k \in {"crashes", "torn", "errors"} : budget[k] \in 0..budget.of[k]

\* The card begins with a database or with none; or its user has deleted the
\* database, and a copy that a kill left unfinished stands alone.
Init ==
    /\ \/ dir = [n \in {} |-> Marker]
       \/ dir = [n \in {"db"} |-> Pages(0, IF Migrated THEN {Base, Schema} ELSE {Base})]
       \/ dir = [n \in {"new"} |-> [Pages(1, {Base}) EXCEPT !.whole = FALSE]]
    /\ synced = dir
    /\ up = "down" /\ at = "off" /\ swapping = FALSE
    /\ copy = {} /\ job = "none" /\ round = 1 /\ failed = FALSE
    /\ reading = FALSE /\ view = {}
    /\ acked = IF Exists("db") THEN dir["db"].data ELSE {}
    /\ firm = acked
    /\ \E l \in Limits :
          budget = [crashes |-> l.crashes, torn |-> l.torn, errors |-> l.errors, of |-> l]

-----------------------------------------------------------------------------
(* Steps *)

Go(a, b) == at = a /\ at' = b

\* A file operation that fails.
Errs == /\ budget.errors > 0
        /\ budget' = [budget EXCEPT !.errors = @ - 1]
Works == UNCHANGED budget

\* Changes the file under a name in place, wherever the name is synced.
InPlace(n, f) ==
    /\ dir' = With(dir, n, f)
    /\ synced' = IF n \in DOMAIN synced THEN With(synced, n, f) ELSE synced

\* Mutant: the frames go, and the pages stay as they were.
EmptiedLost(d) == With(d, "db", Pages(d["db"].gen, d["db"].data))

\* The pages once the WAL's frames are in them, and the WAL once it is truncated.
Emptied(d)   == With(d, "db", Pages(d["db"].gen, Seen(d)))
Truncated(d) == IF "wal" \in DOMAIN d THEN With(d, "wal", Frames(d["db"].gen, <<>>)) ELSE d

\* The pages reach the card at once, the WAL's own end later.
Checkpoint(drop) ==
    /\ dir' = LET d == Emptied(dir) IN IF drop THEN Without(d, {"wal"}) ELSE Truncated(d)
    /\ synced' = IF "db" \in DOMAIN synced THEN With(synced, "db", dir'["db"]) ELSE synced
    /\ firm' = acked
    /\ UNCHANGED acked

SyncDir ==
    /\ at \in DOMAIN SyncThen
    /\ at' = SyncThen[at]
    /\ synced' = dir
    /\ UNCHANGED <<dir, up, swapping, swapVars, readVars, history, budget>>

-----------------------------------------------------------------------------
(* The start: what it finds of a swap cut short *)

startKeeps == <<copy, job, round, readVars, history>>

Start ==
    /\ up \in {"down", "refused"}
    /\ up' = "start"
    /\ at' = "look"
    /\ failed' = FALSE
    /\ UNCHANGED <<cardVars, swapping, startKeeps, budget>>

Look ==
    /\ Go("look", "finish")
    /\ swapping' = SwapFiles
    /\ UNCHANGED <<cardVars, up, failed, startKeeps, budget>>

Refuse ==
    /\ up' = "refused"
    /\ at' = "off"
    /\ UNCHANGED <<cardVars, swapping, failed, startKeeps>>

\* Mutant: the copy is taken beside both the old file and the marker.
TakesBoth == Exists("new") /\ Exists("old") /\ Exists("marker") /\ dir["new"].whole

\* A `.new` is taken only beside `.old` or the marker, and once it is whole.
TakesNew ==
    /\ Exists("new")
    /\ Exists("old") \/ Exists("marker")
    /\ dir["new"].whole

\* Beside the database, `.old` goes.
FinishDone ==
    /\ at = "finish" /\ Exists("db")
    /\ dir' = Without(dir, {"old"})
    /\ at' = "fsync"
    /\ Works
    /\ UNCHANGED <<synced, up, swapping, failed, startKeeps>>

\* Without it, the whole copy is renamed in.
FinishNew ==
    /\ at = "finish" /\ ~Exists("db") /\ TakesNew
    /\ dir' = Moved(dir, "new", "db")
    /\ at' = "newsync"
    /\ Works
    /\ UNCHANGED <<synced, up, swapping, failed, startKeeps>>

\* A copy that stands alone, or is not whole, stops the start.
FinishStops ==
    /\ at = "finish" /\ ~Exists("db") /\ Exists("new") /\ ~TakesNew
    /\ Works
    /\ Refuse

\* Else the old file is put back.
FinishOld ==
    /\ at = "finish" /\ ~Exists("db") /\ ~Exists("new")
    /\ dir' = IF Exists("old") THEN Moved(dir, "old", "db") ELSE dir
    /\ at' = "fsync"
    /\ Works
    /\ UNCHANGED <<synced, up, swapping, failed, startKeeps>>

\* The marker goes once the database is back, and not before.
Unmark ==
    /\ at = "unmark"
    /\ \/ /\ Exists("db") /\ Exists("marker")
          /\ dir' = Without(dir, {"marker"})
          /\ at' = "unmarksync"
       \/ /\ ~(Exists("db") /\ Exists("marker"))
          /\ at' = "rmnew"
          /\ UNCHANGED dir
    /\ Works
    /\ UNCHANGED <<synced, up, swapping, failed, startKeeps>>

\* A step of the recovery that fails ends the start.
FinishFails ==
    /\ at \in {"finish", "unmark"}
    /\ Errs
    /\ Refuse

\* An unfinished copy beside the database goes, if it can.
RemoveStale ==
    /\ Go("rmnew", "migrate")
    /\ \/ /\ dir' = IF Exists("db") THEN Without(dir, {"new"}) ELSE dir
          /\ Works
       \/ /\ Exists("db")
          /\ Errs
          /\ UNCHANGED dir
    /\ UNCHANGED <<synced, up, swapping, failed, startKeeps>>

-----------------------------------------------------------------------------
(* The start: pending migrations, and opening *)

Pending == Exists("db") /\ Schema \notin Seen(dir)

\* Opening a database whose WAL is another's would damage it.
Opened(d) == IF Mixed THEN With(d, "db", [d["db"] EXCEPT !.whole = FALSE]) ELSE d

\* Nothing is pending, or a reader, another process or the card's room is in
\* the way, and the open migrates the card file itself.
MigrateLeft ==
    /\ Go("migrate", "opening")
    /\ UNCHANGED <<cardVars, up, swapping, failed, startKeeps, budget>>

\* On a copy in RAM, which is then written back and swapped in.
MigrateInRam ==
    /\ Go("migrate", "write") /\ Pending /\ ~Mixed
    /\ copy' = Seen(dir) \cup {Schema}
    /\ round' = 1
    /\ Checkpoint(TRUE)
    /\ UNCHANGED <<up, swapping, job, failed, readVars, budget>>

\* On the card file, for want of memory, and then compacted if it pays.
MigrateOnCard ==
    /\ at = "migrate" /\ Pending /\ ~Mixed
    /\ at' \in {"opening", "twin"}
    /\ LET d == Without(With(dir, "db", Pages(dir["db"].gen, Seen(dir) \cup {Schema})), {"wal"})
       IN  /\ dir' = d
           /\ synced' = IF "db" \in DOMAIN synced THEN With(synced, "db", d["db"]) ELSE synced
    /\ firm' = acked
    /\ UNCHANGED <<up, swapping, swapVars, readVars, acked, budget>>

\* Mutant: only the files present now are looked at.
CreatesBlind == ~Exists("db")
\* A database is created only where there never was one.
Creates == ~Exists("db") /\ ~swapping /\ ~SwapFiles

Open ==
    /\ Go("opening", "idle")
    /\ up' = "open"
    /\ \/ /\ Exists("db")
          /\ LET d == Opened(dir)
                 w == IF Schema \in Seen(d) THEN d
                      ELSE With(d, "wal", Frames(d["db"].gen, Append(Log(d), Schema)))
             IN  dir' = w
          /\ synced' = IF "db" \in DOMAIN synced THEN With(synced, "db", dir'["db"]) ELSE synced
       \/ /\ Creates
          /\ dir' = With(dir, "db", Pages(0, {Schema}))
          /\ synced' = dir'
    /\ acked' = acked \cup Seen(dir')
    /\ firm' = firm \cup (acked' \cap dir'["db"].data)
    /\ UNCHANGED <<swapping, swapVars, readVars, budget>>

OpenRefuses ==
    /\ at = "opening" /\ ~Exists("db") /\ ~Creates
    /\ Works
    /\ Refuse

-----------------------------------------------------------------------------
(* Reads and writes of the server *)

\* Mutant: a write needs no turn.
WritesAnyTime == up = "open" /\ at \notin Swapped
MayWrite == up = "open" /\ TurnFree

\* A transaction reaches the WAL and is reported as stored.
Commit(i) ==
    /\ MayWrite
    /\ i \notin acked
    /\ InPlace("wal", Frames(dir["db"].gen, Append(Log(dir), i)))
    /\ acked' = acked \cup {i}
    /\ UNCHANGED <<up, swapping, copy, round, failed, readVars, firm, budget>>

Write ==
    /\ \E w \in Writes : Commit(w)
    /\ UNCHANGED <<at, job>>

\* SQLite moves the WAL's frames into the pages now and then.
AutoCheckpoint ==
    /\ MayWrite
    /\ Log(dir) # <<>>
    /\ Checkpoint(FALSE)
    /\ UNCHANGED <<up, at, swapping, swapVars, readVars, budget>>

\* Mutant: the swap does not hold the reader.
ReadsAnyTime == up = "open"
ReaderFree == up = "open" /\ at \notin Swapped

BeginRead ==
    /\ ReaderFree /\ ~reading
    /\ reading' = TRUE
    /\ view' = IF Exists("db") THEN Seen(dir) ELSE {}
    /\ UNCHANGED <<cardVars, up, at, swapping, swapVars, history, budget>>

EndRead ==
    /\ reading
    /\ reading' = FALSE
    /\ UNCHANGED <<cardVars, up, at, swapping, swapVars, view, history, budget>>

-----------------------------------------------------------------------------
(* An import on a copy in RAM *)

importKeeps == <<up, swapping, readVars>>

TakeTurn ==
    /\ up = "open" /\ Go("idle", "empty")
    /\ \E i \in Imports \ acked : job' = i
    /\ round' = 1 /\ failed' = FALSE
    /\ UNCHANGED <<cardVars, importKeeps, copy, history, budget>>

\* The WAL is emptied, unless a read is under way.
Empty ==
    /\ Go("empty", "copy")
    /\ ~reading
    /\ Checkpoint(FALSE)
    /\ UNCHANGED <<importKeeps, swapVars, budget>>

CopyIn ==
    /\ Go("copy", "work")
    /\ copy' = Seen(dir)
    /\ UNCHANGED <<cardVars, importKeeps, job, round, failed, history, budget>>

Work ==
    /\ Go("work", "write")
    /\ copy' = copy \cup {job}
    /\ UNCHANGED <<cardVars, importKeeps, job, round, failed, history, budget>>

\* Before the write-back: a reader, another process, memory or the card's room
\* sends the import to the card, the job's own failure or a stop ends it.
GiveUp ==
    /\ at \in {"empty", "copy", "work"} \/ (at = "write" /\ up = "open" /\ round = 1)
    /\ at' \in {"card", "idle"}
    /\ copy' = {}
    /\ job' = IF at' = "card" THEN job ELSE "none"
    /\ UNCHANGED <<cardVars, importKeeps, round, failed, history, budget>>

\* On the card: an ordinary transaction, after whatever else took the turn.
ImportOnCard ==
    /\ Go("card", "idle")
    /\ job' = "none"
    /\ IF job \in acked
         THEN UNCHANGED <<cardVars, up, swapping, copy, round, failed, readVars, history, budget>>
         ELSE Commit(job)

\* The compacted twin of the file just swapped in or migrated in place.
MakeTwin ==
    /\ Go("twin", "write")
    /\ copy' = Seen(dir)
    /\ round' = 2
    /\ UNCHANGED <<cardVars, importKeeps, job, failed, history, budget>>

\* No twin is made: too little memory, too few free pages, or a failure.
SkipTwin ==
    /\ at = "twin" \/ (at = "write" /\ (up = "start" \/ round = 2))
    /\ at' = IF up = "open" THEN "idle" ELSE "opening"
    /\ job' = "none"
    /\ UNCHANGED <<cardVars, importKeeps, copy, round, failed, history, budget>>

-----------------------------------------------------------------------------
(* The write-back and the swap *)

swapKeeps == <<up, swapping, copy, job, round, readVars>>

\* The copy is written beside the database in MiB steps ...
WriteNew ==
    /\ Go("write", "writing")
    /\ InPlace("new", [Pages(dir["db"].gen + 1, copy) EXCEPT !.whole = FALSE])
    /\ failed' = FALSE
    /\ UNCHANGED <<swapKeeps, history, budget>>

\* Mutant: the copy is not synced before the swap.
SyncLess(f) == f
\* ... and synced before the swap begins.
SyncNew(f) == [f EXCEPT !.whole = TRUE]

WroteNew ==
    /\ Go("writing", "wait")
    /\ InPlace("new", SyncNew(dir["new"]))
    /\ UNCHANGED <<swapKeeps, failed, history, budget>>

\* A stop, a short memory or a failing write ends the write-back, and another
\* process that keeps the database open its wait.
StopBack ==
    /\ at \in {"writing", "wait"}
    /\ at' = "drop"
    /\ failed' = TRUE
    /\ UNCHANGED <<cardVars, swapKeeps, history, budget>>

Unshared ==
    /\ at = "wait"
    /\ at' = IF up = "open" THEN "close" ELSE "rmwal"
    /\ UNCHANGED <<cardVars, swapKeeps, failed, history, budget>>

\* With the reader held, the WAL is emptied again and both connections close.
Close ==
    /\ Go("close", "rmwal")
    /\ ~reading
    /\ Checkpoint(TRUE)
    /\ UNCHANGED <<swapKeeps, failed, budget>>

\* A step that fails before the old file is renamed leaves it in place.
SwapFails(next) ==
    /\ Errs
    /\ failed' = TRUE
    /\ at' = next
    /\ UNCHANGED <<synced, swapKeeps, history>>

CloseFails ==
    /\ at = "close" /\ ~reading
    /\ UNCHANGED dir
    /\ SwapFails("drop") \/ SwapFails("reopen")

RemoveWal ==
    \/ /\ Go("rmwal", "mark")
       /\ dir' = Without(dir, {"wal", "old"})
       /\ UNCHANGED <<synced, swapKeeps, failed, history, budget>>
    \/ /\ at = "rmwal"
       /\ UNCHANGED dir
       /\ SwapFails("reopen")

Mark ==
    \/ /\ Go("mark", "marksync")
       /\ dir' = With(dir, "marker", Marker)
       /\ UNCHANGED <<synced, swapKeeps, failed, history, budget>>
    \/ /\ at = "mark"
       /\ dir' \in {dir, With(dir, "marker", Marker)}
       /\ SwapFails("reopen")

RenameOld ==
    \/ /\ Go("ren1", "ren1sync")
       /\ dir' = Moved(dir, "db", "old")
       /\ UNCHANGED <<synced, swapKeeps, failed, history, budget>>
    \/ /\ at = "ren1"
       /\ dir' \in {dir, Without(dir, {"marker"})}
       /\ SwapFails("reopen")

\* The second rename; where it fails the old file is renamed back, or stays.
RenameNew ==
    \/ /\ Go("ren2", "ren2sync")
       /\ dir' = Moved(dir, "new", "db")
       /\ UNCHANGED <<synced, swapKeeps, failed, history, budget>>
    \/ /\ at = "ren2"
       /\ dir' \in {dir, Moved(dir, "old", "db")}
       /\ SwapFails("backsync")

RemoveBackMark ==
    /\ Go("backmark", "reopen")
    /\ dir' \in IF Exists("db") THEN {dir, Without(dir, {"marker"})} ELSE {dir}
    /\ UNCHANGED <<synced, swapKeeps, failed, history, budget>>

\* `.old`, then the marker; the next start removes what stays.
RemoveLeftover(a, b, n) ==
    /\ Go(a, b)
    /\ \/ /\ dir' = Without(dir, {n})
          /\ Works
       \/ /\ UNCHANGED dir
          /\ Errs
    /\ UNCHANGED <<synced, swapKeeps, failed, history>>

RemoveOld  == RemoveLeftover("rmold", "oldsync", "old")
RemoveMark == RemoveLeftover("rmmark", "donesync", "marker")

\* Both connections open on whichever file has the name, and never make one.
Reopen ==
    /\ at = "reopen" /\ up = "open" /\ Exists("db")
    /\ at' \in IF failed THEN {"drop"} ELSE IF round = 1 THEN {"idle", "twin"} ELSE {"idle"}
    /\ acked' = IF failed THEN acked ELSE acked \cup copy
    /\ firm'  = IF failed THEN firm ELSE acked'
    /\ job' = IF at' = "idle" THEN "none" ELSE job
    /\ copy' = {}
    /\ dir' = Opened(dir)
    /\ UNCHANGED <<synced, up, swapping, round, failed, readVars, budget>>

\* No file has the name, or it cannot be opened: every statement fails.
ReopenFails ==
    /\ at = "reopen" /\ up = "open"
    /\ \/ ~Exists("db") /\ Works
       \/ Exists("db") /\ Errs
    /\ up' = "broken"
    /\ at' = "drop"
    /\ failed' = TRUE
    /\ UNCHANGED <<cardVars, swapping, copy, job, round, readVars, history>>

\* At the start no connection is open: the swap goes on to the twin or the open.
SwappedAtStart ==
    /\ at = "reopen" /\ up = "start"
    /\ at' \in IF failed THEN {"drop"} ELSE IF round = 1 THEN {"opening", "twin"} ELSE {"opening"}
    /\ copy' = {}
    /\ UNCHANGED <<cardVars, up, swapping, job, round, failed, readVars, history, budget>>

\* A swap that did not happen removes its copy, if it can.
Drop ==
    /\ at = "drop"
    /\ \/ /\ dir' = Without(dir, {"new"})
          /\ Works
       \/ /\ UNCHANGED dir
          /\ Errs
    /\ at' \in IF up = "start" THEN {"opening"}
               ELSE IF up = "open" /\ round = 1 THEN {"card", "idle"} ELSE {"idle"}
    /\ job' = IF at' = "card" THEN job ELSE "none"
    /\ UNCHANGED <<synced, up, swapping, copy, round, failed, readVars, history>>

-----------------------------------------------------------------------------
(* Crashes *)

Dies ==
    /\ up \in {"start", "open", "broken"}
    /\ up' = "down" /\ at' = "off" /\ swapping' = FALSE
    /\ copy' = {} /\ job' = "none" /\ round' = 1 /\ failed' = FALSE
    /\ reading' = FALSE /\ view' = {}

\* The process is killed: the files stay as they are.
Kill ==
    /\ budget.crashes > 0
    /\ Dies
    /\ budget' = [budget EXCEPT !.crashes = @ - 1]
    /\ UNCHANGED <<cardVars, history>>

\* A power cut: the directory as it is or as it was synced, and of the WAL
\* as many transactions as had reached the card.
PowerCut ==
    /\ budget.crashes > 0
    /\ Dies
    /\ budget' = [budget EXCEPT !.crashes = @ - 1]
    /\ \E d \in {dir, synced} : \E k \in 0..Len(Log(d)) :
          LET l == SubSeq(Log(d), 1, k)
          IN  /\ dir' = IF "wal" \in DOMAIN d
                          THEN With(d, "wal", Frames(d["wal"].gen, l)) ELSE d
              /\ acked' = firm \cup (acked \cap Range(l))
    /\ synced' = dir'
    /\ UNCHANGED firm

\* The rename the process is about to make, if it is about to make one.
Renaming ==
    CASE at = "ren1" -> {<<"db", "old">>}
      [] at = "ren2" -> {<<"new", "db">>} \cup
                        IF budget.errors > 0 THEN {<<"old", "db">>} ELSE {}
      [] at = "finish" /\ ~Exists("db") /\ TakesNew -> {<<"new", "db">>}
      [] at = "finish" /\ ~Exists("db") /\ ~Exists("new") /\ Exists("old") -> {<<"old", "db">>}
      [] OTHER -> {}

\* A power cut inside a rename leaves neither of its names.
TornRename ==
    /\ budget.torn > 0
    /\ \E r \in Renaming : dir' = Without(dir, {r[1], r[2]})
    /\ Dies
    /\ budget' = [budget EXCEPT !.torn = @ - 1]
    /\ synced' = dir'
    /\ UNCHANGED history

-----------------------------------------------------------------------------

Recovering == Look \/ FinishDone \/ FinishNew \/ FinishStops \/ FinishOld \/ Unmark
              \/ FinishFails \/ RemoveStale \/ MigrateLeft \/ MigrateInRam
              \/ MigrateOnCard \/ Open \/ OpenRefuses

Importing == Empty \/ CopyIn \/ Work \/ GiveUp \/ ImportOnCard \/ MakeTwin \/ SkipTwin

Swap == WriteNew \/ WroteNew \/ StopBack \/ Unshared \/ Close \/ CloseFails \/ RemoveWal
        \/ Mark \/ RenameOld \/ RenameNew \/ RemoveBackMark \/ RemoveOld \/ RemoveMark
        \/ Reopen \/ ReopenFails \/ SwappedAtStart \/ Drop

Crash == Kill \/ PowerCut \/ TornRename

Next == Start \/ Recovering \/ SyncDir \/ Write \/ AutoCheckpoint \/ BeginRead \/ EndRead
        \/ TakeTurn \/ Importing \/ Swap \/ Crash

Spec == Init /\ [][Next]_vars

\* The launcher starts a process that is down; a started one takes its steps;
\* a read ends, and a swap that waits for the reader's lock gets it in the end.
FairSpec ==
    /\ Spec
    /\ WF_vars(Start)
    /\ WF_vars(Recovering \/ SyncDir \/ Importing \/ Swap)
    /\ WF_vars(EndRead)
    /\ SF_vars(Close)

-----------------------------------------------------------------------------
(* Properties *)

\* What no start needs to withstand: a failing file operation, a second power
\* cut inside a rename.
Calm == budget.errors = budget.of.errors /\ budget.torn + 1 >= budget.of.torn

\* While the database is served it is one whole file with nothing of another
\* one beside it, and it holds exactly what was reported as stored (swap.rs,
\* finish_swap, open_pair).
OneDatabase ==
    up = "open" /\ at \notin Swapped =>
        /\ Exists("db") /\ dir["db"].whole /\ ~Mixed
        /\ Seen(dir) = acked

\* The file a start would take from a directory: the database; else the copy,
\* beside the old file or the marker; else the old file.
Taken(d) ==
    CASE "db" \in DOMAIN d -> {"db"}
      [] "db" \notin DOMAIN d /\ "new" \in DOMAIN d /\ {"old", "marker"} \cap DOMAIN d # {} -> {"new"}
      [] "db" \notin DOMAIN d /\ "new" \notin DOMAIN d /\ "old" \in DOMAIN d -> {"old"}
      [] OTHER -> {}

\* Whatever crash comes next, short of a failure or a second torn rename, the start finds
\* a whole file with everything that is firm, from the directory as it is and
\* as it was synced (the crash points of install_file and of finish_swap).
AlwaysRecoverable ==
    \A d \in {dir, synced} :
        acked # {} /\ Calm => \E n \in Taken(d) : d[n].whole /\ firm \subseteq d[n].data

\* While the process is up, a later read sees all an earlier one saw: the
\* swap shows the old file, then the new one, and never goes back.
ReadsNeverGoBack == [][up = "open" /\ up' = "open" => view \subseteq view']_vars

\* Crashes being finite, the database is served again and the write turn comes
\* free, again and again.
ServesAgain == [](acked # {} => <>((up = "open" /\ TurnFree) \/ ~Calm))

\* The files keep the promise of one whole store.
Store == INSTANCE WholeStore WITH
    up    <- IF up \in {"open", "broken"} THEN up ELSE "down",
    acked <- IF up = "open" /\ at \notin Swapped THEN Seen(dir) ELSE acked

KeepsStore == Store!Spec
=============================================================================
