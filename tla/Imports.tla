------------------------------- MODULE Imports -------------------------------
(***************************************************************************)
(* The import of one catalog entry: jobs/import.rs, jobs/import/place.rs.   *)
(*                                                                         *)
(* A download reaches `importing` when the client has its file.  The        *)
(* importer's watch hears of it and submits an import job; the heavy lane   *)
(* runs one job at a time.  A job of a disc looks for every track of the    *)
(* entry and places them together; any other job has its own file.  What it *)
(* places is built in a scratch directory of the download, renamed into     *)
(* games/ and then recorded in one transaction.                             *)
(*                                                                         *)
(* A step of the job is one transaction or one operation on a file, so a    *)
(* kill of the process (Crash) falls between any two of them.  The content  *)
(* of a file is abstract: "raw" is what the torrent should have, "made" is  *)
(* what the staging step of the plan makes of it for the core, "spoilt" is  *)
(* what that step makes of its own output, "bad" is anything else.          *)
(***************************************************************************)
EXTENDS Naturals, Sequences, FiniteSets

CONSTANTS
    Tracks,   \* how many tracks a disc has
    MaxRows,  \* bound on the rows of downloads
    Cases     \* the entries and disturbances to look at: [kind, dumps, budget]

\* How the plan of the entry's adapter builds what it places: a disc and a plain file are
\* renamed as they are, a file gains or loses a header or is swapped, a member is unzipped.
Kinds == {"disc", "file", "rewrite", "zip"}

\* What may come in between, and is bounded by the budget.
Events == {"want", "crash", "fail", "error", "cancel", "drop", "retry", "lag"}

ASSUME ImportAssumption ==
    /\ Tracks \in Nat \ {0} /\ MaxRows \in Nat
    /\ Cases \subseteq [kind : Kinds, dumps : SUBSET (1 .. Tracks), budget : [Events -> Nat]]

VARIABLES
    kind,      \* the entry's kind
    dumps,     \* the roms that the DAT calls bad dumps
    torrent,   \* what the torrent has for each rom
    budget,    \* what may still come in between
    row,       \* downloads: a sequence of [rom, st], the id of a row its place
    file,      \* files.state of the rom's path
    retired,   \* whether the entry's DAT version was removed
    staged,    \* the file of each rom in staging/<infohash>/
    scratch,   \* the file in staging/.import/<download id>/
    lib,       \* the file of each rom in games/
    queue,     \* the import jobs that wait in the heavy lane
    job,       \* the import job at work
    bus,       \* download.changed events the watch has not heard
    list,      \* the downloads the watch has still to submit
    missed     \* history: a wake was lost, with a job that had read the rows or that ended in error

given == <<kind, dumps, torrent>>
db    == <<row, file, retired>>
disk  == <<staged, scratch, lib>>
watch == <<bus, list, missed>>
vars  == <<given, budget, db, disk, queue, job, watch>>

-----------------------------------------------------------------------------
(* The entry and its downloads. *)

AllRoms  == 1 .. Tracks
Contents == {"none", "raw", "made", "spoilt", "bad"}
Roms     == IF kind = "disc" THEN AllRoms ELSE {1}

\* title_entry: the roms of a retired version are not the entry's any more.
Live     == IF retired THEN {} ELSE Roms

Open     == {"wanted", "queued", "transferring", "importing"}
InFlight == {"wanted", "queued", "transferring"}
States   == Open \union {"done", "bad", "failed", "cancelled"}

Ids        == DOMAIN row
In(states) == {i \in Ids : row[i].st \in states}
RomsOf(ids) == {row[i].rom : i \in ids}
Importing  == In({"importing"})
Moved(ids, from, to) ==
    [i \in Ids |-> IF i \in ids /\ row[i].st \in from THEN [row[i] EXCEPT !.st = to] ELSE row[i]]

\* What the core needs in games/.
Right    == IF kind \in {"disc", "file"} THEN "raw" ELSE "made"

\* file_state: what a rom's own file is recorded as, which for a bad dump is never verified.
FileState(r) == IF r \in dumps THEN "bad" ELSE "verified"
FileStates   == {"none", "unverified", "verified", "bad"}

\* The one sequence of ids, or roms, in ascending order.
Ascending(ids) ==
    {s \in [1 .. Cardinality(ids) -> ids] : \A a, b \in DOMAIN s : a < b => s[a] < s[b]}

Spend(e) == budget[e] > 0 /\ budget' = [budget EXCEPT ![e] = @ - 1]

\* publish_ids: one event per download.
Publish(ids, st) ==
    \E s \in Ascending(ids) : bus' = bus \o [k \in DOMAIN s |-> [id |-> s[k], st |-> st]]

Stages == {"idle", "open", "survey", "hash", "quarantined", "plan", "prepare", "move",
           "undo", "discard", "record", "finish", "fail", "end"}
Idle == [at |-> "idle", id |-> 0, roms |-> {}, ids |-> {}, left |-> {}, found |-> {}, moves |-> {},
         landed |-> {}, next |-> "fail"]

TypeOK ==
    /\ kind \in Kinds /\ dumps \subseteq AllRoms /\ torrent \in [AllRoms -> {"raw", "bad"}]
    /\ budget \in [Events -> Nat]
    /\ row \in Seq([rom : AllRoms, st : States]) /\ Len(row) <= MaxRows
    /\ file \in [AllRoms -> FileStates] /\ retired \in BOOLEAN
    /\ staged \in [AllRoms -> Contents] /\ lib \in [AllRoms -> Contents]
    /\ scratch \in [1 .. MaxRows -> Contents]
    /\ queue \in Seq(Ids)
    /\ job \in [at : Stages, id : Ids \union {0}, roms : SUBSET AllRoms, ids : SUBSET Ids,
                left : SUBSET Ids, found : SUBSET AllRoms, moves : SUBSET AllRoms, landed : SUBSET AllRoms,
                next : {"fail", "record", "discard"}]
    /\ bus \in Seq([id : Ids, st : {"importing", "failed", "cancelled"}])
    /\ list \in Seq(Ids) /\ missed \in BOOLEAN

\* A rom's place in games/ is empty, holds a file nobody verified, or the rom itself.
Init ==
    /\ \E c \in Cases : kind = c.kind /\ dumps = c.dumps /\ budget = c.budget
    /\ torrent \in [AllRoms -> {"raw", "bad"}]
    /\ file \in [AllRoms -> FileStates]
    /\ \A r \in AllRoms : file[r] \in {"none", "unverified", FileState(r)}
    /\ \A r \in AllRoms \ Roms : torrent[r] = "raw" /\ file[r] = "none"
    /\ lib = [r \in AllRoms |-> CASE file[r] = "none" -> "none"
                                  [] file[r] = "unverified" -> "bad"
                                  [] OTHER -> Right]
    /\ row = <<>> /\ retired = FALSE
    /\ staged = [r \in AllRoms |-> "none"] /\ scratch = [i \in 1 .. MaxRows |-> "none"]
    /\ queue = <<>> /\ job = Idle /\ bus = <<>> /\ list = <<>> /\ missed = FALSE

-----------------------------------------------------------------------------
(* The user and the client. *)

\* best_file: the torrent's file, unless it already gave this rom a bad download.
NewRow(r) == [rom |-> r, st |-> IF \E i \in In({"bad"}) : row[i].rom = r
                                THEN "wanted" ELSE "queued"]

\* want_title: a download for each live rom without a verified file or an open one.
Missing == {r \in Live : file[r] # "verified" /\ r \notin RomsOf(In(Open))}
Want ==
    /\ Missing # {} /\ Len(row) + Cardinality(Missing) <= MaxRows /\ Spend("want")
    /\ \E s \in Ascending(Missing) : row' = row \o [k \in DOMAIN s |-> NewRow(s[k])]
    /\ UNCHANGED <<given, file, retired, disk, queue, job, watch>>

Cancel(i) ==
    /\ i \in In(InFlight) /\ Spend("cancel")
    /\ row' = Moved({i}, InFlight, "cancelled") /\ Publish({i}, "cancelled")
    /\ UNCHANGED <<given, file, retired, disk, queue, job, list, missed>>

\* A rom with another open download refuses the retry.
Retry(i) ==
    /\ i \in In({"failed"}) /\ row[i].rom \notin RomsOf(In(Open)) /\ Spend("retry")
    /\ row' = Moved({i}, {"failed"}, "queued")
    /\ UNCHANGED <<given, file, retired, disk, queue, job, watch>>

\* dats::retire cancels what has not started, and announces nothing.
DropDat ==
    /\ ~retired /\ Spend("drop")
    /\ retired' = TRUE
    /\ row' = Moved(Ids, {"wanted", "queued"}, "cancelled")
    /\ UNCHANGED <<given, file, disk, queue, job, watch>>

Start(i) ==
    /\ i \in In({"queued"})
    /\ row' = Moved({i}, {"queued"}, "transferring")
    /\ UNCHANGED <<given, budget, file, retired, disk, queue, job, watch>>

\* A client that was given the file before may not notice that it was moved since.
Deliver(i) ==
    /\ i \in In({"transferring"})
    /\ row' = Moved({i}, {"transferring"}, "importing") /\ Publish({i}, "importing")
    /\ \/ staged' = [staged EXCEPT ![row[i].rom] = torrent[row[i].rom]]
       \/ /\ staged[row[i].rom] = "none" /\ lib[row[i].rom] \notin {"none", "bad"}
          /\ UNCHANGED staged
    /\ UNCHANGED <<given, budget, file, retired, scratch, lib, queue, job, list, missed>>

FailTransfer(i) ==
    /\ i \in In({"transferring"}) /\ Spend("fail")
    /\ row' = Moved({i}, {"transferring"}, "failed") /\ Publish({i}, "failed")
    /\ UNCHANGED <<given, file, retired, disk, queue, job, list, missed>>

-----------------------------------------------------------------------------
(* The watch. *)

\* An import is enqueued for the download; for one that failed or was cancelled, for the
\* downloads of its entry that are importing.
Hear ==
    /\ list = <<>> /\ bus # <<>>
    /\ bus' = Tail(bus)
    /\ IF Head(bus).st = "importing" THEN list' = <<Head(bus).id>>
                                    ELSE list' \in Ascending(Importing)
    /\ UNCHANGED <<given, budget, db, disk, queue, job, missed>>

\* Missed events trigger a full sweep.
Lag ==
    /\ list = <<>> /\ bus # <<>> /\ Spend("lag")
    /\ \E k \in 1 .. Len(bus) : bus' = SubSeq(bus, k + 1, Len(bus))
    /\ list' \in Ascending(Importing)
    /\ UNCHANGED <<given, db, disk, queue, job, missed>>

\* A job that is queued or running absorbs the request (Dedupe::Open).
OpenJob(i) == job.id = i \/ \E k \in DOMAIN queue : queue[k] = i

Submit ==
    /\ list # <<>> /\ list' = Tail(list)
    /\ queue' = IF OpenJob(Head(list)) THEN queue ELSE Append(queue, Head(list))
    /\ missed' = (missed \/ (job.id = Head(list) /\ job.at \notin {"open", "survey"}))
    /\ UNCHANGED <<given, budget, db, disk, job, bus>>

-----------------------------------------------------------------------------
(* The job. *)

To(at) == job' = [job EXCEPT !.at = at]
Return == job' = [Idle EXCEPT !.at = "end", !.id = job.id]

Take ==
    /\ job.at = "idle" /\ queue # <<>>
    /\ queue' = Tail(queue)
    /\ job' = [Idle EXCEPT !.at = "open", !.id = Head(queue)]
    /\ UNCHANGED <<given, budget, db, disk, watch>>

\* A job whose row has left `importing` does nothing; any other reads the entry once.
OpenRow ==
    /\ job.at = "open"
    /\ \/ job.id \notin Importing /\ Return
       \/ /\ job.id \in Importing /\ kind = "disc"
          /\ job' = [job EXCEPT !.at = "survey", !.roms = Live]
       \/ /\ job.id \in Importing /\ kind # "disc"
          /\ job' = [job EXCEPT !.at = "hash", !.roms = Live, !.ids = {job.id}, !.left = {job.id}]
    /\ UNCHANGED <<given, budget, db, disk, queue, watch>>

\* Mutant: one importing track is enough.
CoveredSome == job.roms \intersect RomsOf(Importing) # {}

\* Every rom of the entry has a download that is importing.
Covered == job.roms # {} /\ job.roms \subseteq RomsOf(Importing)

\* Mutant: a disc waits for tracks that cannot come.
SurveyWaits ==
    /\ job.at = "survey"
    /\ \/ /\ Covered
          /\ job' = [job EXCEPT !.at = "hash", !.ids = Importing, !.left = Importing]
       \/ ~Covered /\ Return
    /\ UNCHANGED <<given, budget, db, disk, queue, watch>>

\* A disc waits while another track may still come, and fails if none can.
Survey ==
    /\ job.at = "survey"
    /\ \/ /\ Covered
          /\ job' = [job EXCEPT !.at = "hash", !.ids = Importing, !.left = Importing]
       \/ ~Covered /\ In(InFlight) # {} /\ Return
       \/ /\ ~Covered /\ In(InFlight) = {}
          /\ job' = [job EXCEPT !.at = "fail", !.ids = Importing]
    /\ UNCHANGED <<given, budget, db, disk, queue, watch>>

\* The oldest download whose file was not looked at yet.
Turn(i) == job.at = "hash" /\ i \in job.left /\ \A j \in job.left : i <= j

\* Mutant: a staged file that is gone counts as placed.
PlacedGone(r) == staged[r] = "none"

\* already_placed: the staged file is gone and its rom has a verified file.
Placed(r) == staged[r] = "none" /\ file[r] = "verified"

SkipPlaced ==
    /\ \E i \in job.left : /\ Turn(i) /\ Placed(row[i].rom)
                           /\ job' = [job EXCEPT !.left = @ \ {i}]
    /\ UNCHANGED <<given, budget, db, disk, queue, watch>>

Hash ==
    /\ \E i \in job.left :
          /\ Turn(i) /\ row[i].rom \in job.roms /\ staged[row[i].rom] = "raw"
          /\ job' = [job EXCEPT !.left = @ \ {i}, !.found = @ \union {row[i].rom}]
    /\ UNCHANGED <<given, budget, db, disk, queue, watch>>

\* The staged file is not there, or cannot be read.
HashError ==
    /\ \E i \in job.left :
          /\ Turn(i)
          /\ \/ staged[row[i].rom] = "none" /\ ~Placed(row[i].rom) /\ UNCHANGED budget
             \/ staged[row[i].rom] # "none" /\ Spend("fail")
    /\ To("fail")
    /\ UNCHANGED <<given, db, disk, queue, watch>>

\* A file that matches no rom of the entry moves to quarantine, or stays if it cannot.
Quarantine ==
    /\ \E i \in job.left :
          LET r == row[i].rom IN
          /\ Turn(i) /\ staged[r] # "none" /\ (r \notin job.roms \/ staged[r] # "raw")
          /\ \/ staged' = [staged EXCEPT ![r] = "none"] /\ UNCHANGED budget
             \/ Spend("fail") /\ UNCHANGED staged
          /\ job' = [job EXCEPT !.at = "quarantined", !.left = {i}]
    /\ UNCHANGED <<given, db, scratch, lib, queue, watch>>

\* Quarantined::record: the download ends bad; a guessed rom is wanted again.
RecordBad ==
    /\ job.at = "quarantined"
    /\ \E i \in job.left :
          LET r == row[i].rom
              bad == Moved({i}, {"importing"}, "bad")
          IN \/ row' = bad
             \/ /\ r \in Live /\ file[r] # "verified" /\ Len(row) < MaxRows
                /\ row' = Append(bad, [rom |-> r, st |-> "wanted"])
    /\ To("fail")
    /\ UNCHANGED <<given, budget, file, retired, disk, queue, watch>>

\* Nothing left to place: all were placed before.
Nothing ==
    /\ job.at = "hash" /\ job.left = {} /\ job.found = {}
    /\ To("finish")
    /\ UNCHANGED <<given, budget, db, disk, queue, watch>>

\* Decision::Skip: a verified file that is there is kept, all others are placed over.
Keeps(r) == lib[r] # "none" /\ file[r] = "verified"

Plan ==
    /\ job.at = "hash" /\ job.left = {} /\ job.found # {}
    /\ job' = [job EXCEPT !.at = IF kind \in {"rewrite", "zip"} THEN "prepare" ELSE "move",
                          !.moves = {r \in job.roms : ~Keeps(r)}]
    /\ UNCHANGED <<given, budget, db, disk, queue, watch>>

\* What the staging step makes of the file it reads.
Built(c) == IF c = "raw" THEN "made" ELSE "spoilt"

\* Roots::read: a step reads the scratch file if there is one, else the staged file.
Read(r) == IF scratch[job.id] # "none" THEN scratch[job.id] ELSE staged[r]

\* Unzipping refuses a target that is there; rewriting replaces it.
Prepare ==
    /\ job.at = "prepare"
    /\ \/ /\ kind = "rewrite" \/ scratch[job.id] = "none"
          /\ scratch' = [scratch EXCEPT ![job.id] = Built(Read(1))]
          /\ To("move") /\ UNCHANGED budget
       \/ /\ kind = "zip" /\ scratch[job.id] # "none"
          /\ job' = [job EXCEPT !.at = "undo", !.next = "fail"]
          /\ UNCHANGED <<scratch, budget>>
       \/ /\ Spend("fail")
          /\ job' = [job EXCEPT !.at = "undo", !.next = "fail"]
          /\ UNCHANGED scratch
    /\ UNCHANGED <<given, db, staged, lib, queue, watch>>

\* The renames into games/, in the order of the roms.
Move(r) ==
    /\ job.at = "move" /\ r \in job.moves /\ \A q \in job.moves : r <= q
    /\ Read(r) # "none"
    /\ lib' = [lib EXCEPT ![r] = Read(r)]
    /\ IF scratch[job.id] # "none"
       THEN scratch' = [scratch EXCEPT ![job.id] = "none"] /\ UNCHANGED staged
       ELSE staged' = [staged EXCEPT ![r] = "none"] /\ UNCHANGED scratch
    /\ job' = [job EXCEPT !.moves = @ \ {r}, !.landed = @ \union {r}]
    /\ UNCHANGED <<given, budget, db, queue, watch>>

\* Mutant: the originals are discarded though a rename failed.
MoveFailsDiscards ==
    /\ job.at = "move"
    /\ \/ \E r \in job.moves : (\A q \in job.moves : r <= q) /\ Read(r) = "none" /\ UNCHANGED budget
       \/ job.moves # {} /\ Spend("fail")
    /\ job' = [job EXCEPT !.at = "undo", !.next = "discard"]
    /\ UNCHANGED <<given, db, disk, queue, watch>>

\* A rename that fails stops the placement; what landed is recorded.
MoveFails ==
    /\ job.at = "move"
    /\ \/ \E r \in job.moves : (\A q \in job.moves : r <= q) /\ Read(r) = "none" /\ UNCHANGED budget
       \/ job.moves # {} /\ Spend("fail")
    /\ job' = [job EXCEPT !.at = "undo", !.next = "record"]
    /\ UNCHANGED <<given, db, disk, queue, watch>>

Landed ==
    /\ job.at = "move" /\ job.moves = {}
    /\ job' = [job EXCEPT !.at = "undo", !.next = "discard"]
    /\ UNCHANGED <<given, budget, db, disk, queue, watch>>

\* Roots::rollback: the scratch directory goes, whatever came of the plan.  A file that
\* landed and cannot be looked at fails the job.
Rollback ==
    /\ job.at = "undo"
    /\ scratch' = [scratch EXCEPT ![job.id] = "none"]
    /\ \/ To(job.next) /\ UNCHANGED budget
       \/ job.landed # {} /\ Spend("fail") /\ To("fail")
    /\ UNCHANGED <<given, db, staged, lib, queue, watch>>

\* The consumed originals are removed once every file landed; a failure is only logged.
Discard ==
    /\ job.at = "discard"
    /\ \/ /\ staged' = [r \in AllRoms |-> IF r \in job.found THEN "none" ELSE staged[r]]
          /\ UNCHANGED budget
       \/ Spend("fail") /\ UNCHANGED staged
    /\ To("record")
    /\ UNCHANGED <<given, db, scratch, lib, queue, watch>>

\* Mutant: every file that was hashed is recorded, landed or not.
RecordFound ==
    /\ job.at = "record"
    /\ file' = [r \in AllRoms |-> IF r \in job.found THEN FileState(r) ELSE file[r]]
    /\ \/ job.moves = {} /\ row' = Moved(job.ids, {"importing"}, "done") /\ Return
       \/ job.moves # {} /\ row' = row /\ To("fail")
    /\ UNCHANGED <<given, budget, retired, disk, queue, watch>>

\* record: what landed takes its state, and if all did the downloads are done.
Record ==
    /\ job.at = "record"
    /\ file' = [r \in AllRoms |-> IF r \in job.landed THEN FileState(r) ELSE file[r]]
    /\ \/ job.moves = {} /\ row' = Moved(job.ids, {"importing"}, "done") /\ Return
       \/ job.moves # {} /\ row' = row /\ To("fail")
    /\ UNCHANGED <<given, budget, retired, disk, queue, watch>>

Finish ==
    /\ job.at = "finish"
    /\ row' = Moved(job.ids, {"importing"}, "done")
    /\ Return
    /\ UNCHANGED <<given, budget, file, retired, disk, queue, watch>>

Fail ==
    /\ job.at = "fail"
    /\ row' = Moved(job.ids, {"importing"}, "failed")
    /\ Publish(job.ids \intersect Importing, "failed")
    /\ Return
    /\ UNCHANGED <<given, budget, file, retired, disk, queue, list, missed>>

\* The database refuses a read or a write, or the job is cancelled at a checkpoint: the
\* body returns an error and its downloads stay as they are.
Err ==
    /\ job.at \in {"open", "survey", "hash", "quarantined", "record", "finish", "fail"}
    /\ Spend("error") /\ Return
    /\ missed' = TRUE
    /\ UNCHANGED <<given, db, disk, queue, bus, list>>

\* The row of the job is ended after its body has returned.
End ==
    /\ job.at = "end" /\ job' = Idle
    /\ UNCHANGED <<given, budget, db, disk, queue, watch>>

-----------------------------------------------------------------------------
(* The library scan, a job of the same lane, and a restart of the server. *)

\* classify_disc_tracks: a track is verified only where all tracks of the disc are there
\* and none is a bad dump.
Whole == kind = "disc" => dumps \intersect Roms = {} /\ \A r \in Roms : lib[r] = Right

Scanned(r) == IF r \in Live /\ lib[r] = Right /\ (Whole \/ r \in dumps) THEN FileState(r)
                                                                     ELSE "unverified"

\* All files of a disc are looked at together and each time, which may take `verified` from
\* one; any other file is looked at by itself, and not again once it is verified.
Scan ==
    /\ job.at = "idle"
    /\ \E seen \in SUBSET {r \in Roms : lib[r] # "none"} :
          /\ IF kind = "disc" THEN \A r \in Roms : lib[r] # "none" => r \in seen
                              ELSE \A r \in seen : file[r] # "verified"
          /\ file' = [r \in AllRoms |-> IF r \in seen THEN Scanned(r) ELSE file[r]]
    /\ UNCHANGED <<given, budget, row, retired, disk, queue, job, watch>>

\* The open jobs are queued again, and the watch begins with a sweep.
Crash ==
    /\ Spend("crash")
    /\ queue' = IF job.at = "idle" THEN queue ELSE <<job.id>> \o queue
    /\ job' = Idle /\ bus' = <<>> /\ list' \in Ascending(Importing) /\ missed' = FALSE
    /\ UNCHANGED <<given, db, disk>>

Worker ==
    \/ Take \/ OpenRow \/ Survey \/ SkipPlaced \/ Hash \/ HashError \/ Quarantine
    \/ RecordBad \/ Nothing \/ Plan \/ Prepare \/ (\E r \in AllRoms : Move(r)) \/ MoveFails
    \/ Landed \/ Rollback \/ Discard \/ Record \/ Finish \/ Fail \/ End \/ Err

Watch == Hear \/ Submit

Next ==
    \/ Worker \/ Watch \/ Lag \/ Scan \/ Crash \/ Want \/ DropDat
    \/ \E i \in Ids : Cancel(i) \/ Retry(i) \/ Start(i) \/ Deliver(i) \/ FailTransfer(i)

Fairness == WF_vars(Worker) /\ WF_vars(Watch)

Spec == Init /\ [][Next]_vars /\ Fairness

-----------------------------------------------------------------------------
(* Properties. *)

\* A rom whose file is recorded as verified, or as the bad dump it is, has what the core
\* needs in games/.
VerifiedIsRight ==
    \A r \in Roms : file[r] \in {"verified", "bad"} => file[r] = FileState(r) /\ lib[r] = Right

\* A download that is done has its rom in games/, whichever attempt placed it, and recorded
\* for what it is: verified, or bad for a bad dump.  The file of a disc with a bad dump may
\* have been scanned since; after the DAT version went, what is recorded is not claimed.
DoneIsPlaced ==
    \A i \in In({"done"}) :
        LET r == row[i].rom
        IN  /\ lib[r] = Right
            /\ \/ retired \/ file[r] = FileState(r)
               \/ kind = "disc" /\ dumps # {} /\ file[r] = "unverified"

\* Once there, a good copy of a rom is never lost: no rollback, discard, replacement or
\* crash takes the last one, and the client's or the user's acts do not either.
Kept(r) == staged[r] = "raw" \/ lib[r] = Right
GoodStays == [][~retired' => \A r \in Roms : Kept(r) => Kept(r)']_vars

\* A disc is placed together: no track lands while another is neither staged nor placed.
DiscTogether ==
    [][kind = "disc" /\ lib' # lib => \A r \in Roms : Kept(r)]_vars

\* An importing track does not stay so once no other track can come, where no wake was lost
\* with a job that had read the rows or ended in error, and the DAT version was not removed.
ImportEnds ==
    \A i \in 1 .. MaxRows :
        [](~missed /\ ~retired) =>
            [](i \in Importing /\ [](In(InFlight) = {}) => <>(i \notin Importing))
=============================================================================
