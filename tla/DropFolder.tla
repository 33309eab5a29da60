----------------------------- MODULE DropFolder -----------------------------
(***************************************************************************)
(* A watched folder: jobs/drop_watch.rs, mistarr-sources/src/intake.rs,     *)
(* incoming/place.rs, the upload and retry requests of http/dats.rs, and    *)
(* what a DAT import does to its file (jobs/dat_import/mod.rs).  The same   *)
(* watcher and the same placement serve sources/, whose imports Sources has.*)
(*                                                                         *)
(* A file gets into dats/ by hand, from an upload, from a fetch or back     *)
(* from rejected/.  The watcher polls the folder and queues an import of    *)
(* every file that has stopped changing; whoever places a file queues one   *)
(* too.  An import moves its file to loaded/ or rejected/, or fails and     *)
(* leaves it, and then the watcher must report it again.                    *)
(*                                                                         *)
(* The watcher, the background lane and each request that places a file     *)
(* are concurrent; a step is one file operation or one transaction.  A      *)
(* content stands for size and time of change as well: no two files have    *)
(* the same.  A name a live request claimed is filled before two polls, ten *)
(* seconds apart, see it empty.                                             *)
(***************************************************************************)
EXTENDS Naturals, Sequences, FiniteSets

CONSTANTS
    Names,      \* 1 .. n: a file's name, then its numbered variants
    Contents,   \* what a file may hold
    Owners,     \* requests that may place a file
    Nothing,    \* no file
    Empty,      \* a claimed name that holds nothing yet
    FolderCases \* which contents load, and how often each event may come in between

FolderEvents == {"drop", "replace", "remove", "upload", "leave", "retry", "refuse", "fail", "io", "crash",
                 "post", "cancel", "server", "memory", "full"}
Held == Contents \cup {Empty}

ASSUME FolderAssumption ==
    /\ Names = 1..Cardinality(Names) /\ Names # {}
    /\ Nothing \notin Held /\ Empty \notin Contents
    /\ FolderCases \subseteq [loads : SUBSET Contents, budget : [FolderEvents -> Nat]]

VARIABLES
    chosen,    \* the case
    spare,     \* what may still come in between
    folder,    \* what dats/ has under each name
    loaded,    \* the contents in loaded/
    rejected,  \* the contents in rejected/
    parts,     \* requests whose hidden ".upload-" file is in dats/
    up,        \* whether mistarr runs
    watch,     \* what the watcher remembers
    rows,      \* the import jobs, by id
    import,    \* the import that runs
    owner,     \* each request that places a file
    fate,      \* history: contents not yet seen, on their way, in mistarr's hands, or given up
    putback,   \* history: names a retry filled with what the watcher still had as reported
    robbed     \* history: names a request had claimed, and an import took the claim for an empty file

files      == <<folder, loaded, rejected, parts>>
folderVars == <<chosen, spare, files, up, watch, rows, import, owner, fate, putback, robbed>>

Happens(e) == spare[e] > 0 /\ spare' = [spare EXCEPT ![e] = @ - 1]

First(x, S) == x \in S /\ \A y \in S : x <= y

-----------------------------------------------------------------------------
(* Import jobs: a row names a file; they run one by one. *)

ImportRow(n, state) == [name |-> n, state |-> state]
InState(state)      == {id \in DOMAIN rows : rows[id].state = state}
QueuedFor(n)        == {id \in InState("queued") : rows[id].name = n}
Finished(id)        == rows[id].state \in {"done", "failed"}
SetRow(id, s)       == rows' = [rows EXCEPT ![id].state = s]

\* A queued import of that name is shared, a running one is not.
Shared(n)  == QueuedFor(n) # {}
RowFor(n)  == IF Shared(n) THEN CHOOSE id \in QueuedFor(n) : First(id, QueuedFor(n)) ELSE Len(rows) + 1
Enqueue(n) == rows' = IF Shared(n) THEN rows ELSE Append(rows, ImportRow(n, "queued"))

-----------------------------------------------------------------------------
(* The watcher. *)

Unseen == [sizes |-> [n \in Names |-> Nothing], reported |-> [n \in Names |-> Nothing],
           pending |-> [n \in Names |-> 0], found |-> {}]

ImportEnded(n) == watch.pending[n] # 0 /\ Finished(watch.pending[n])
Failed(n)      == ImportEnded(n) /\ rows[watch.pending[n]].state = "failed"

\* What is reported of the folder, given what was reported before: a file seen with that size
\* at the last poll, and not reported as it is now.
Stable(reported) == {n \in Names : /\ folder[n] # Nothing /\ watch.sizes[n] = folder[n]
                                   /\ reported[n] # folder[n]}
Reported(reported) == [n \in Names |-> IF folder[n] = Nothing THEN Nothing
                                       ELSE IF n \in Stable(reported) THEN folder[n] ELSE reported[n]]

Claims == {owner[o].name : o \in {p \in Owners : owner[p].at = "fill"}}

\* One poll: first the rows of the imports it queued, then the folder.
Poll(reported) ==
    /\ up /\ watch.found = {} /\ Stable(reported) \cap Claims = {}
    /\ watch' = [sizes |-> folder, reported |-> Reported(reported), found |-> Stable(reported),
                 pending |-> [n \in Names |-> IF ImportEnded(n) THEN 0 ELSE watch.pending[n]]]
    /\ UNCHANGED <<chosen, spare, files, up, rows, import, owner, fate, putback, robbed>>

\* Mutant: a file whose import failed is not reported again.
PollTrusts == Poll(watch.reported)

\* A file whose import failed is reported again.
WatchPolls == Poll([n \in Names |-> IF Failed(n) THEN Nothing ELSE watch.reported[n]])

\* One import after the other; a file that could not be queued is reported again.
WatchQueues ==
    /\ up
    /\ \E n \in Names :
       /\ First(n, watch.found)
       /\ \/ /\ Enqueue(n) /\ UNCHANGED spare
             /\ watch' = [watch EXCEPT !.found = @ \ {n}, !.pending[n] = RowFor(n)]
          \/ /\ Happens("refuse") /\ UNCHANGED rows
             /\ watch' = [watch EXCEPT !.found = @ \ {n}, !.reported[n] = Nothing]
    /\ UNCHANGED <<chosen, files, up, import, owner, fate, putback, robbed>>

-----------------------------------------------------------------------------
(* The import of one file: listed, loaded, and moved where it belongs. *)

NoImport == [at |-> "none", id |-> 0]
File     == rows[import.id].name
Running(at) == up /\ import.at = at
Ends(state) == SetRow(import.id, state) /\ import' = NoImport

ImportStart ==
    /\ Running("none")
    /\ \E id \in DOMAIN rows :
       First(id, InState("queued")) /\ SetRow(id, "running") /\ import' = [at |-> "list", id |-> id]
    /\ UNCHANGED <<chosen, spare, files, up, watch, owner, fate, putback, robbed>>

\* A file that is gone needs nothing; an empty one is refused unread.
ImportLists ==
    /\ Running("list")
    /\ CASE folder[File] = Nothing -> Ends("done")
         [] folder[File] = Empty   -> import' = [import EXCEPT !.at = "reject"] /\ UNCHANGED rows
         [] OTHER                  -> import' = [import EXCEPT !.at = "load"] /\ UNCHANGED rows
    /\ UNCHANGED <<chosen, spare, files, up, watch, owner, fate, putback, robbed>>

\* Its transaction; whatever fails on the way fails the job and leaves the file.
ImportLoads ==
    /\ Running("load")
    /\ \/ /\ folder[File] # Nothing /\ UNCHANGED <<spare, rows>>
          /\ import' = [import EXCEPT !.at = IF folder[File] \in chosen.loads THEN "move" ELSE "reject"]
       \/ (folder[File] = Nothing /\ Ends("failed") /\ UNCHANGED spare)
       \/ (Happens("fail") /\ Ends("failed"))
    /\ UNCHANGED <<chosen, files, up, watch, owner, fate, putback, robbed>>

\* The file that is there now goes under a free name; nothing is ever replaced.
Moves(to) ==
    /\ folder[File] # Nothing
    /\ to' = to \cup {folder[File]} /\ folder' = [folder EXCEPT ![File] = Nothing]
    /\ putback' = putback \ {File}
    /\ robbed' = IF folder[File] = Empty /\ File \in Claims THEN robbed \cup {File} ELSE robbed
    /\ Ends("done") /\ UNCHANGED spare
MoveFails ==
    /\ (folder[File] = Nothing /\ UNCHANGED spare) \/ Happens("io")
    /\ Ends("failed") /\ UNCHANGED <<folder, putback, robbed>>

ImportMoves ==
    /\ Running("move") /\ (Moves(loaded) \/ (MoveFails /\ UNCHANGED loaded))
    /\ UNCHANGED <<chosen, rejected, parts, up, watch, owner, fate>>

ImportRejects ==
    /\ Running("reject") /\ (Moves(rejected) \/ (MoveFails /\ UNCHANGED rejected))
    /\ UNCHANGED <<chosen, loaded, parts, up, watch, owner, fate>>

Import == ImportStart \/ ImportLists \/ ImportLoads \/ ImportMoves \/ ImportRejects

-----------------------------------------------------------------------------
(* Requests that place a file: a hidden part, a name claimed with create_new, the part renamed *)
(* over it, an import queued.                                                                 *)

Idle == [at |-> "idle", what |-> Nothing, name |-> 0, from |-> "part"]
Doing(o, at) == up /\ owner[o].at = at
Step(o, at)  == owner' = [owner EXCEPT ![o].at = at]
Leaves(o)    == owner' = [owner EXCEPT ![o] = Idle]

\* An upload streams into its part; one broken off may leave it.
UploadStart(o, c) ==
    /\ Doing(o, "idle") /\ fate[c] = "new" /\ Happens("upload")
    /\ fate' = [fate EXCEPT ![c] = "sent"] /\ parts' = parts \cup {o}
    /\ owner' = [owner EXCEPT ![o] = [Idle EXCEPT !.at = "write", !.what = c]]
    /\ UNCHANGED <<chosen, folder, loaded, rejected, up, watch, rows, import, putback, robbed>>

UploadWritten(o) ==
    /\ Doing(o, "write")
    /\ \/ Step(o, "claim") /\ UNCHANGED <<spare, parts>>
       \/ Happens("io") /\ Leaves(o) /\ parts' = parts \ {o}
       \/ Happens("leave") /\ Step(o, "left") /\ UNCHANGED parts
    /\ UNCHANGED <<chosen, folder, loaded, rejected, up, watch, rows, import, fate, putback, robbed>>

\* A rejected file taken back.
RetryStart(o, c) ==
    /\ Doing(o, "idle") /\ c \in rejected \cap Contents /\ Happens("retry")
    /\ owner' = [owner EXCEPT ![o] = [at |-> "claim", what |-> c, name |-> 0, from |-> "rejected"]]
    /\ UNCHANGED <<chosen, files, up, watch, rows, import, fate, putback, robbed>>

Free == {n \in Names : folder[n] = Nothing}

\* The first name of those that count as free is claimed; with none the part goes.
ClaimOf(o, free) ==
    /\ Doing(o, "claim")
    /\ \/ \E n \in Names :
             /\ First(n, free) /\ folder' = [folder EXCEPT ![n] = Empty] /\ UNCHANGED parts
             /\ owner' = [owner EXCEPT ![o].at = "fill", ![o].name = n]
       \/ free = {} /\ parts' = parts \ {o} /\ Leaves(o) /\ UNCHANGED folder
    /\ UNCHANGED <<chosen, spare, loaded, rejected, up, watch, rows, import, fate, putback, robbed>>

\* Mutant: a name another request claimed counts as free.
ClaimUnfilled(o) == ClaimOf(o, {n \in Names : folder[n] \notin Contents})

Claim(o) == ClaimOf(o, IF owner[o].from = "rejected" /\ owner[o].what \notin rejected THEN {} ELSE Free)

Source(o) == IF owner[o].from = "part" THEN o \in parts ELSE owner[o].what \in rejected

\* Renamed over the claim; a failure takes claim and part away.
Fill(o) ==
    /\ Doing(o, "fill")
    /\ LET c == owner[o].what
           n == owner[o].name
       IN  \/ /\ Source(o) /\ UNCHANGED spare
              /\ folder' = [folder EXCEPT ![n] = c] /\ rejected' = rejected \ {c}
              /\ fate' = [fate EXCEPT ![c] = "held"] /\ Step(o, "queue")
              /\ putback' = IF watch.reported[n] = c THEN putback \cup {n} ELSE putback
           \/ /\ (~Source(o) /\ UNCHANGED spare) \/ Happens("io")
              /\ folder' = [folder EXCEPT ![n] = Nothing] /\ Leaves(o)
              /\ UNCHANGED <<rejected, fate, putback>>
    /\ parts' = parts \ {o}
    /\ UNCHANGED <<chosen, loaded, up, watch, rows, import, robbed>>

\* The import is recorded, late when the writer is busy; or not, and the watcher finds the file.
Queue(o) ==
    /\ Doing(o, "queue") /\ Leaves(o)
    /\ \/ Enqueue(owner[o].name) /\ UNCHANGED spare
       \/ Happens("refuse") /\ UNCHANGED rows
    /\ UNCHANGED <<chosen, files, up, watch, import, fate, putback, robbed>>

Placing(o) == UploadWritten(o) \/ Claim(o) \/ Fill(o) \/ Queue(o)

-----------------------------------------------------------------------------
(* The user's own changes to the folder, and kills. *)

DropFile(n, c) ==
    /\ n \in Free /\ fate[c] = "new" /\ Happens("drop")
    /\ folder' = [folder EXCEPT ![n] = c] /\ fate' = [fate EXCEPT ![c] = "held"]
    /\ UNCHANGED <<chosen, loaded, rejected, parts, up, watch, rows, import, owner, putback, robbed>>

Replace(n, c) ==
    /\ folder[n] \in Contents /\ fate[c] = "new" /\ Happens("replace")
    /\ folder' = [folder EXCEPT ![n] = c]
    /\ fate' = [fate EXCEPT ![c] = "held", ![folder[n]] = "gone"] /\ putback' = putback \ {n}
    /\ UNCHANGED <<chosen, loaded, rejected, parts, up, watch, rows, import, owner, robbed>>

Discard(n) ==
    /\ folder[n] \in Contents /\ Happens("remove")
    /\ folder' = [folder EXCEPT ![n] = Nothing]
    /\ fate' = [fate EXCEPT ![folder[n]] = "gone"] /\ putback' = putback \ {n}
    /\ UNCHANGED <<chosen, loaded, rejected, parts, up, watch, rows, import, owner, robbed>>

\* DELETE of a rejected file.
Delete(c) ==
    /\ up /\ c \in rejected /\ Happens("remove") /\ rejected' = rejected \ {c}
    /\ fate' = IF c \in Contents THEN [fate EXCEPT ![c] = "gone"] ELSE fate
    /\ UNCHANGED <<chosen, folder, loaded, parts, up, watch, rows, import, owner, putback, robbed>>

User == \/ \E n \in Names, c \in Contents : DropFile(n, c) \/ Replace(n, c)
        \/ \E n \in Names : Discard(n)
        \/ \E c \in Held : Delete(c)

Requests(Uploads) ==
    \E o \in Uploads, c \in Contents : UploadStart(o, c) \/ RetryStart(o, c)

\* A kill: claims, parts and rows stay.
KillFolder ==
    /\ up' = FALSE /\ watch' = Unseen /\ import' = NoImport /\ putback' = {} /\ robbed' = robbed
    /\ owner' = [o \in Owners |-> Idle]

\* The next start sweeps the parts and queues what was queued or running, once per file.
StartFolder ==
    /\ up' = TRUE /\ parts' = {}
    /\ rows' = [id \in DOMAIN rows |->
                    IF Finished(id) \/ rows[id].state = "gone" THEN rows[id]
                    ELSE IF \E other \in InState("queued") \cup InState("running") :
                                other < id /\ rows[other].name = rows[id].name
                    THEN ImportRow(rows[id].name, "gone") ELSE ImportRow(rows[id].name, "queued")]

\* Nobody drops or uploads what is to be fetched.
InitFolder(fetched) ==
    /\ chosen \in FolderCases /\ spare = chosen.budget
    /\ folder = [n \in Names |-> Nothing] /\ loaded = {} /\ rejected = {} /\ parts = {}
    /\ up = TRUE /\ watch = Unseen /\ rows = <<>> /\ import = NoImport
    /\ owner = [o \in Owners |-> Idle]
    /\ fate = [c \in Contents |-> IF c \in fetched THEN "sent" ELSE "new"] /\ putback = {} /\ robbed = {}

FolderSteps == WatchPolls \/ WatchQueues \/ Import \/ (\E o \in Owners : Placing(o)) \/ User

-----------------------------------------------------------------------------
(* Properties. *)

FolderTypeOK ==
    /\ chosen \in FolderCases /\ spare \in [FolderEvents -> Nat]
    /\ folder \in [Names -> Held \cup {Nothing}] /\ loaded \subseteq Held /\ rejected \subseteq Held
    /\ parts \subseteq Owners /\ up \in BOOLEAN
    /\ watch.sizes \in [Names -> Held \cup {Nothing}] /\ watch.reported \in [Names -> Held \cup {Nothing}]
    /\ watch.pending \in [Names -> 0..Len(rows)] /\ watch.found \subseteq Names
    /\ rows \in Seq([name : Names, state : {"queued", "running", "done", "failed", "gone"}])
    /\ import \in [at : {"none", "list", "load", "move", "reject"}, id : 0..Len(rows)]
    /\ owner \in [Owners -> [at : {"idle", "write", "claim", "fill", "queue", "left"},
                             what : Contents \cup {Nothing}, name : Names \cup {0},
                             from : {"part", "rejected"}]]
    /\ fate \in [Contents -> {"new", "sent", "held", "gone"}] /\ putback \subseteq Names /\ robbed \subseteq Names

\* A file mistarr took in is in dats/, loaded/ or rejected/ until the user removes or replaces
\* it there: placing, importing, retrying and kills never write one file over another.  Left out
\* is what follows when an import, queued for an earlier file of the name, takes a claim away.
KeepsFiles ==
    robbed = {} => \A c \in Contents : fate[c] = "held" =>
        c \in loaded \cup rejected \/ \E n \in Names : folder[n] = c

\* No file stays in dats/: every one is imported, in the end, into loaded/ or rejected/, however
\* often its import fails, cannot be queued or is cut short, and whatever name it was given.
\* A retried file the watcher never missed is left out: only the retry queues its import.
EachSettles == \A n \in Names : folder[n] # Nothing ~> (folder[n] = Nothing \/ n \in putback)
=============================================================================
