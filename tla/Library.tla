------------------------------ MODULE Library ------------------------------
(***************************************************************************)
(* What the library holds: jobs/scan.rs, jobs/matching.rs, db/files.rs,     *)
(* db/scan_progress.rs, jobs/dat_import/recompute.rs, jobs/follow_up.rs and *)
(* jobs/import/rename.rs, for one platform.                                 *)
(*                                                                         *)
(* A scan walks the platform's directories and keeps a row for every file:  *)
(* its size and mtime, its hashes and the rom it matches.  A file whose row *)
(* is unchanged is not hashed again.  Rows are written in batches, with the *)
(* directories that are done every two seconds, so a scan that was killed   *)
(* goes on where it stopped; rows the walk did not see are deleted at its   *)
(* end.  Meanwhile the background lane loads DATs and matches rows again    *)
(* from their stored hashes, the user copies, deletes and renames files,    *)
(* and directories cannot be read for a while.                              *)
(*                                                                         *)
(* A step is one transaction or one file operation.  A file has one hash:   *)
(* the two forms of a headered file are one, and a hash stands for the      *)
(* SHA1, MD5 and CRC32 it is made of.                                       *)
(***************************************************************************)
EXTENDS Integers, Sequences, FiniteSets, SequencesExt

CONSTANTS
    PathOrder,  \* the files that may be in the library, in the order of their names
    DirOrder,   \* the platform's directories, in the order of theirs
    DirOf,      \* the directory of each file
    Zipped,     \* the files that are members of a zip
    Contents,   \* what a file may hold, by its hash
    SizeOf,     \* the size of each
    Roms, TitleOf,
    Home,       \* the path at which a file has the name of a rom
    FlushRows,  \* rows written at a time (256)
    Chunk,      \* rows matched again at a time (256)
    None,       \* no file, row, rom, hash or job
    Cases       \* what there is at first, and what may come in between

Paths  == ToSet(PathOrder)
Dirs   == ToSet(DirOrder)
Events == {"copy", "delete", "shut", "unread", "load", "remove", "rename", "hold", "cancel", "kill",
           "put", "toggle"}
\* A catalogue: the hash listed for each rom, or None.
Lists  == [Roms -> Contents \cup {None}]
Listed == [sum : Contents, live : BOOLEAN]
File   == [sum : Contents, mtime : Nat]
States == {"verified", "misnamed", "unverified"}
\* How much of a file is known: "full" hashes, a zip member's "crc" alone, that hashing
\* it "failed", or nothing.
Levels == {"full", "crc", "failed", "none"}
Row    == [id : Nat, size : Nat, mtime : Nat, sum : Contents \cup {None}, level : Levels,
           rom : Roms \cup {None}, state : States]
Stamp  == [size : Nat, mtime : Nat]
\* A row of a batch, which has no id yet.
Fresh  == [size : Nat, mtime : Nat, sum : Contents \cup {None}, level : Levels,
           rom : Roms \cup {None}, state : States]
Entry  == [path : Paths, row : Fresh]
Track  == [path : Paths, sum : Contents \cup {None}, match : Roms \cup {None}]
\* A running scan: where it is; the directories to come, done and not readable; the files whose
\* rows it keeps; of the directory at hand the files left, what it listed of them and the tracks
\* it read; and the batch.
ScanState == [at : {"unit", "file", "flush", "clear"}, held : BOOLEAN,
              units : SUBSET Dirs, done : SUBSET Dirs, unread : SUBSET Dirs, keep : SUBSET Paths,
              unit : Dirs \cup {None}, left : SUBSET Paths,
              stat : UNION {[P -> Stamp] : P \in SUBSET Paths}, tracks : Seq(Track), sink : Seq(Entry)]

ASSUME LibraryAssumption ==
    /\ PathOrder \in Seq(Paths) /\ DirOrder \in Seq(Dirs)
    /\ DirOf \in [Paths -> Dirs] /\ Zipped \subseteq Paths
    /\ SizeOf \in [Contents -> Nat] /\ TitleOf \in [Roms -> STRING] /\ Home \in [Roms -> Paths]
    /\ FlushRows \in Nat \ {0} /\ Chunk \in Nat \ {0}
    /\ None \notin Contents /\ None \notin Roms /\ None \notin File /\ None \notin Listed /\ None \notin Row
    /\ None \notin ScanState
    /\ Cases \subseteq [disc : BOOLEAN, within : [Dirs -> SUBSET Dirs], disk : [Paths -> Contents \cup {None}], known : BOOLEAN,
                        list : Lists, loads : SUBSET Lists, copies : SUBSET (Paths \X Contents),
                        budget : [Events -> Nat]]
    \* A directory lies in itself and, on a disc platform, in one of its own directories.
    /\ \A k \in Cases, d \in Dirs :
          /\ d \in k.within[d] /\ (~k.disc => k.within[d] = {d})
          /\ \A t \in k.within[d] \ {d} : k.within[t] = {t}

VARIABLES
    given,    \* the case
    budget,   \* what may still come in between
    disk,     \* the files
    shut,     \* the directories that cannot be read
    rows,     \* the files table
    roms,     \* the roms table
    saved,    \* scan_progress: the directories an unfinished scan has done
    wanted,   \* a scan is queued
    scan,     \* the running scan
    bg,       \* the background lane's job
    again,    \* a recompute is queued
    told,     \* the removal of a DAT still has to queue its follow-up
    moving,   \* the rename under way
    touched,  \* history: files changed or out of reach, and rows renamed, since the scan, or the
              \* one it resumes, began
    closed    \* history: the directories that could not be read since this scan began, and no row
              \* was renamed into

world == <<disk, shut>>
table == <<rows, roms, saved>>
lanes == <<wanted, scan, bg, again, told, moving>>
past  == <<touched, closed>>
vars  == <<given, budget, world, table, lanes, past>>

-----------------------------------------------------------------------------
\* The member of S that comes first in the given order.
Earliest(order, S) ==
    order[CHOOSE i \in DOMAIN order : order[i] \in S /\ \A j \in DOMAIN order : order[j] \in S => i <= j]

(* Matching. *)

\* The directories whose path the path of d begins with, d among them.
Within(d) == given.within[d]

Known     == {r \in Roms : roms[r] # None}
Live      == {r \in Known : roms[r].live}
ListOf(c) == {r \in Known : roms[r].sum = c}

\* One of a set of roms, or None; the same one every time.
One(S) == IF S = {} THEN None ELSE CHOOSE r \in S : TRUE

\* The live rom a hash matches, and the best one, live or retired.
LiveMatch(c) == One(ListOf(c) \cap Live)
BestMatch(c) == IF LiveMatch(c) # None THEN LiveMatch(c) ELSE One(ListOf(c))

StateOf(p, r) == IF r = None THEN "unverified" ELSE IF Home[r] = p THEN "verified" ELSE "misnamed"

Retired(rs) == {p \in Paths : rs[p] # None /\ rs[p].rom \notin Live \cup {None}}
Unmatched(rs) ==
    {p \in Paths : /\ rs[p] # None /\ rs[p].rom = None
                   /\ rs[p].state = "unverified" /\ rs[p].level = "full"}

StoredMatch(row) == IF row.level = "full" THEN LiveMatch(row.sum) ELSE None

\* All or nothing: the state of disc track p when each track of its directory matches m[p].
DiscState(m, p) ==
    LET t == TitleOf[m[p]]
        tracks == {q \in DOMAIN m : m[q] # None /\ TitleOf[m[q]] = t}
    IN  IF m[p] = None \/ Cardinality(tracks) # Cardinality({r \in Known : TitleOf[r] = t})
        THEN "unverified" ELSE StateOf(p, m[p])

\* What the tracks of directory d match, from their stored hashes.
Tracks(rs, d) == [q \in {q \in Paths : rs[q] # None /\ DirOf[q] = d} |-> StoredMatch(rs[q])]

\* The rows rs with those of paths P matched again from their stored hashes, a disc track
\* with the others of its directory.
Rematch(rs, P) ==
    IF given.disc
    THEN [p \in Paths |->
             IF rs[p] # None /\ \E q \in P : DirOf[q] = DirOf[p]
             THEN [rs[p] EXCEPT !.rom = StoredMatch(rs[p]), !.state = DiscState(Tracks(rs, DirOf[p]), p)]
             ELSE rs[p]]
    ELSE [p \in Paths |->
             IF p \in P
             THEN [rs[p] EXCEPT !.rom = StoredMatch(rs[p]), !.state = StateOf(p, StoredMatch(rs[p]))]
             ELSE rs[p]]

-----------------------------------------------------------------------------
(* Rows. *)

Stat(p)      == [size |-> SizeOf[disk[p].sum], mtime |-> disk[p].mtime]
Same(row, s) == row # None /\ row.size = s.size /\ row.mtime = s.mtime

\* A row without its id.
NewRow(s, c, level, r, state) ==
    [size |-> s.size, mtime |-> s.mtime, sum |-> c, level |-> level, rom |-> r, state |-> state]

\* The id a row of the batch has, or is given: one above all others.
IdIn(batch, i) ==
    IF rows[batch[i].path] # None THEN rows[batch[i].path].id
    ELSE Max({0} \cup {rows[p].id : p \in {q \in Paths : rows[q] # None}})
            + Cardinality({j \in 1..i : rows[batch[j].path] = None})

Upsert(rs, e) == [rs EXCEPT ![e.path] =
    [id |-> e.id, size |-> e.row.size, mtime |-> e.row.mtime, sum |-> e.row.sum,
     level |-> e.row.level, rom |-> e.row.rom, state |-> e.row.state]]

\* Mutant: stored as it was read.
CommitAsRead(rs, e) == Upsert(rs, e)

\* A row is stored, and matched again when its rom was retired since it was read.
CommitRow(rs, e) ==
    IF e.row.rom \in Live \cup {None} THEN Upsert(rs, e) ELSE Rematch(Upsert(rs, e), {e.path})

CommitUnit(batch) ==
    LET entry(i) == [path |-> batch[i].path, row |-> batch[i].row, id |-> IdIn(batch, i)]
        after[n \in 0..Len(batch)] == IF n = 0 THEN rows ELSE CommitRow(after[n - 1], entry(n))
    IN  after[Len(batch)]

\* Path p lies in one of the directories D, or under one.
Lies(p, D) == Within(DirOf[p]) \cap D # {}

-----------------------------------------------------------------------------
Scan0 == [at |-> "unit", held |-> FALSE, units |-> {}, done |-> {}, keep |-> {}, unread |-> {},
          unit |-> None, left |-> {}, stat |-> <<>>, tracks |-> <<>>, sink |-> <<>>]

Runs(at) == scan # None /\ scan.at = at /\ ~scan.held

\* The rows a scan of the case's files and list leaves.
Scanned(k, rs) ==
    LET match(p) == One({r \in Roms : k.list[r] = k.disk[p]})
        n(p) == CHOOSE i \in DOMAIN PathOrder : PathOrder[i] = p
    IN  [p \in Paths |-> IF k.disk[p] = None THEN None ELSE
            [id |-> n(p), size |-> SizeOf[k.disk[p]], mtime |-> 0, sum |-> k.disk[p], level |-> "full",
             rom |-> match(p), state |-> StateOf(p, match(p))]]

NoRows == [p \in Paths |-> None]

Init ==
    /\ given \in Cases
    /\ budget = given.budget
    /\ disk = [p \in Paths |-> IF given.disk[p] = None THEN None ELSE [sum |-> given.disk[p], mtime |-> 0]]
    /\ shut = {} /\ saved = {} /\ wanted = FALSE /\ again = FALSE /\ told = FALSE
    /\ scan = None /\ bg = None /\ moving = None
    /\ rows = IF given.known THEN Scanned(given, NoRows) ELSE NoRows
    /\ roms = [r \in Roms |-> IF given.list[r] = None THEN None
                              ELSE [sum |-> given.list[r], live |-> TRUE]]
    /\ touched = {} /\ closed = {}

\* One of the events e that come in between.
Spend(e) == budget[e] > 0 /\ budget' = [budget EXCEPT ![e] = @ - 1]

-----------------------------------------------------------------------------
(* The user and the card. *)

Now == 1 + given.budget["copy"] - budget["copy"]

Reach(p) == Within(DirOf[p]) \cap shut = {}

\* Files P change, or go out of reach, under a scan that runs or is to be resumed.
Touch(P) == touched' = IF scan # None \/ saved # {} THEN touched \cup P ELSE touched
Ended    == touched' = (IF saved = {} THEN {} ELSE touched) /\ closed' = {}

Copy(p, c) ==
    /\ Spend("copy") /\ <<p, c>> \in given.copies /\ Reach(p)
    /\ disk' = [disk EXCEPT ![p] = [sum |-> c, mtime |-> Now]]
    /\ Touch({p})
    /\ UNCHANGED <<given, shut, table, lanes, closed>>

Delete(p) ==
    /\ Spend("delete") /\ disk[p] # None /\ Reach(p)
    /\ disk' = [disk EXCEPT ![p] = None]
    /\ Touch({p})
    /\ UNCHANGED <<given, shut, table, lanes, closed>>

Shut(d) ==
    /\ Spend("shut") /\ d \notin shut
    /\ shut' = shut \cup {d}
    /\ Touch({p \in Paths : Lies(p, {d})})
    /\ UNCHANGED <<given, disk, table, lanes, closed>>

Reopen(d) ==
    /\ d \in shut
    /\ shut' = shut \ {d}
    /\ closed' = closed \ {d}
    /\ UNCHANGED <<given, budget, disk, table, lanes, touched>>

\* A rename request: the file of a misnamed row takes its rom's name, ...
RenameFile(p) ==
    LET row == rows[p] to == Home[row.rom] IN
    /\ Spend("rename") /\ moving = None
    /\ row # None /\ row.state = "misnamed" /\ p \notin Zipped /\ row.rom \in Live
    /\ disk[p] # None /\ disk[to] = None /\ Reach(p) /\ Reach(to)
    /\ disk' = [disk EXCEPT ![p] = None, ![to] = disk[p]]
    /\ moving' = [id |-> row.id, to |-> to, mtime |-> disk[p].mtime,
                  stale |-> IF rows[to] = None THEN None ELSE rows[to].id]
    /\ Touch({p, to})
    /\ UNCHANGED <<given, shut, table, wanted, scan, bg, again, told, closed>>

\* ... then its row.  Another row at the new path, unless it was there before, refuses it, and
\* the log one that is gone, and one it still names may not be deleted.
RenameRow ==
    /\ moving # None
    /\ LET kept == [p \in Paths |-> IF rows[p] # None /\ rows[p].id = moving.stale THEN None ELSE rows[p]]
           from == {p \in Paths : kept[p] # None /\ kept[p].id = moving.id}
       IN  \/ /\ from # {} /\ (kept[moving.to] = None \/ moving.to \in from)
              /\ rows' = [p \in Paths |->
                             IF p = moving.to
                             THEN [kept[CHOOSE q \in from : TRUE] EXCEPT !.state = "verified", !.mtime = moving.mtime]
                             ELSE IF p \in from THEN None ELSE kept[p]]
           \/ /\ from = {} \/ (kept[moving.to] # None /\ moving.to \notin from) \/ kept # rows
              /\ UNCHANGED rows
    /\ moving' = None
    /\ Touch({p \in Paths : rows'[p] # rows[p]})
    /\ closed' = IF rows' = rows THEN closed ELSE closed \ Within(DirOf[moving.to])
    /\ UNCHANGED <<given, budget, world, roms, saved, wanted, scan, bg, again, told>>

\* A scan is asked for, by the timer or a user; it joins one that is queued or paused.
Joined == wanted \/ (scan # None /\ scan.held)

RequestScan ==
    /\ ~Joined
    /\ wanted' = TRUE
    /\ UNCHANGED <<given, budget, world, table, scan, bg, again, told, moving, past>>

-----------------------------------------------------------------------------
(* The scan, on the heavy lane. *)

\* discover_units: the directories to walk, and the tops that cannot be read.  On a disc
\* platform a directory in a readable top, which is there when it holds files or cannot be
\* read, else the platform's own directories.
Units ==
    LET there(d) == d \in shut \/ \E p \in Paths : disk[p] # None /\ DirOf[p] = d
        tops(d)  == IF Within(d) = {d} THEN {d} ELSE Within(d) \ {d}
    IN  {d \in Dirs : given.disc => there(d) /\ tops(d) \cap shut = {}}

Tops == {d \in Dirs : Within(d) = {d}}

\* The walk begins, or goes on after the directories done by the one before; it keeps
\* the rows of those.
ScanBegin ==
    /\ wanted /\ scan = None
    /\ LET done == saved \cap Units
       IN  scan' = [Scan0 EXCEPT !.units = Units \ done, !.done = done,
                                 !.keep = {p \in Paths : rows[p] # None /\ Lies(p, done)},
                                 !.unread = IF given.disc THEN Tops \cap shut ELSE {}]
    /\ wanted' = FALSE
    /\ touched' = IF saved = {} THEN {p \in Paths : ~Reach(p)} ELSE touched
    /\ closed' = shut
    /\ UNCHANGED <<given, budget, world, table, bg, again, told, moving>>

\* A directory is listed with its files' sizes and mtimes, or cannot be.
ScanUnit ==
    /\ Runs("unit") /\ scan.units # {}
    /\ LET d == Earliest(DirOrder, scan.units)
           here == {p \in Paths : DirOf[p] = d /\ disk[p] # None}
       IN  scan' = IF d \in shut
                   THEN [scan EXCEPT !.at = "flush", !.unit = d, !.units = @ \ {d},
                                     !.unread = @ \cup {d}, !.done = @ \cup {d}]
                   ELSE [scan EXCEPT !.at = "file", !.unit = d, !.units = @ \ {d}, !.done = @ \cup {d},
                                     !.left = here, !.keep = @ \cup here, !.tracks = <<>>,
                                     !.stat = [p \in here |-> Stat(p)]]
    /\ UNCHANGED <<given, budget, world, table, wanted, bg, again, told, moving, past>>

\* What a read of file p gives: its hash, or None when it is gone or cannot be read.
Reads(p) == IF disk[p] = None \/ ~Reach(p) THEN {None} ELSE {disk[p].sum, None}

Unread(p, c) == c = None /\ disk[p] # None /\ Reach(p)

\* Whether a zip member's CRC32 is that of a rom, live or retired.
Candidate(c) == ListOf(c) # {}

\* Whether a file of stat s is hashed, given its row.
MustHash(row, s) ==
    \/ ~Same(row, s)
    \/ row.rom = None /\ row.state = "unverified" /\ row.level = "crc" /\ Candidate(row.sum)

\* The rows a file of a flat directory adds to the batch: one that is hashed, a zip
\* member no rom can match, one whose stored hashes match now, or none.
FlatRow(p, s, c) ==
    LET row == rows[p]
        new(r) == IF c # None
                  THEN NewRow(s, c, "full", BestMatch(c), StateOf(p, BestMatch(c)))
                  ELSE NewRow(s, None, IF p \in Zipped THEN "failed" ELSE "none", None, "unverified")
    IN  IF MustHash(row, s)
        THEN IF p \in Zipped /\ c # None /\ ~Candidate(c)
             THEN <<NewRow(s, c, "crc", None, "unverified")>>
             ELSE <<new(row)>>
        ELSE IF row.rom # None \/ row.state # "unverified" \/ StoredMatch(row) = None THEN <<>>
        ELSE LET r == StoredMatch(row)
             IN  <<NewRow(s, row.sum, row.level, r, StateOf(p, r))>>

AsEntry(p, ns) == IF ns = <<>> THEN <<>> ELSE <<[path |-> p, row |-> ns[1]]>>

\* The next file of a flat directory, and a batch that is full.
ScanFile ==
    /\ Runs("file") /\ ~given.disc /\ scan.left # {} /\ Len(scan.sink) < FlushRows
    /\ LET p == Earliest(PathOrder, scan.left) s == scan.stat[p] IN
       \E c \in IF MustHash(rows[p], s) THEN Reads(p) ELSE {None} :
          /\ IF MustHash(rows[p], s) /\ Unread(p, c) THEN Spend("unread") ELSE UNCHANGED budget
          /\ scan' = [scan EXCEPT !.left = @ \ {p}, !.sink = @ \o AsEntry(p, FlatRow(p, s, c))]
    /\ UNCHANGED <<given, world, table, wanted, bg, again, told, moving, past>>

ScanFlush ==
    /\ Runs("file") /\ Len(scan.sink) >= FlushRows
    /\ rows' = CommitUnit(scan.sink)
    /\ scan' = [scan EXCEPT !.sink = <<>>]
    /\ UNCHANGED <<given, budget, world, roms, saved, wanted, bg, again, told, moving, past>>

\* The next track of a disc directory: its stored hashes if it is unchanged, else it is read.
ScanTrack ==
    /\ Runs("file") /\ given.disc /\ scan.left # {}
    /\ LET p == Earliest(PathOrder, scan.left) s == scan.stat[p]
           kept == Same(rows[p], s) /\ rows[p].level = "full" IN
       \E c \in IF kept THEN {rows[p].sum} ELSE Reads(p) :
          /\ IF ~kept /\ Unread(p, c) THEN Spend("unread") ELSE UNCHANGED budget
          /\ scan' = [scan EXCEPT !.left = @ \ {p}, !.tracks = Append(@,
                         [path |-> p, sum |-> c, match |-> IF c = None THEN None ELSE BestMatch(c)])]
    /\ UNCHANGED <<given, world, table, wanted, bg, again, told, moving, past>>

\* Mutant: the directory is saved as done ahead of its last rows.
JudgeAndSave ==
    /\ Runs("file") /\ scan.left = {} /\ Len(scan.sink) < FlushRows
    /\ LET m == [p \in {t.path : t \in ToSet(scan.tracks)} |->
                    (CHOOSE t \in ToSet(scan.tracks) : t.path = p).match]
           judged(t) == [path |-> t.path, row |->
               NewRow(scan.stat[t.path], t.sum, IF t.sum = None THEN "none" ELSE "full",
                      m[t.path], DiscState(m, t.path))]
       IN  scan' = [scan EXCEPT !.at = "flush", !.left = {}, !.stat = <<>>, !.tracks = <<>>,
                                !.sink = @ \o [i \in DOMAIN scan.tracks |-> judged(scan.tracks[i])]]
    /\ saved' = scan.done
    /\ UNCHANGED <<given, budget, world, rows, roms, wanted, bg, again, told, moving, past>>

\* The files of a directory are through; disc tracks are judged together.
ScanJudge ==
    /\ Runs("file") /\ scan.left = {} /\ Len(scan.sink) < FlushRows
    /\ LET m == [p \in {t.path : t \in ToSet(scan.tracks)} |->
                    (CHOOSE t \in ToSet(scan.tracks) : t.path = p).match]
           judged(t) == [path |-> t.path, row |->
               NewRow(scan.stat[t.path], t.sum, IF t.sum = None THEN "none" ELSE "full",
                      m[t.path], DiscState(m, t.path))]
       IN  scan' = [scan EXCEPT !.at = "flush", !.left = {}, !.stat = <<>>, !.tracks = <<>>,
                                !.sink = @ \o [i \in DOMAIN scan.tracks |-> judged(scan.tracks[i])]]
    /\ UNCHANGED <<given, budget, world, table, wanted, bg, again, told, moving, past>>

\* The end of a directory: its last rows, with the directories done when two seconds passed.
ScanUnitEnd ==
    /\ Runs("flush")
    /\ rows' = CommitUnit(scan.sink)
    /\ saved' \in {saved, scan.done}
    /\ scan' = [scan EXCEPT !.at = "unit", !.unit = None, !.sink = <<>>]
    /\ UNCHANGED <<given, budget, world, roms, wanted, bg, again, told, moving, past>>

\* Mutant: also where nothing could be listed.
PruneUnread ==
    /\ Runs("unit") /\ scan.units = {}
    /\ rows' = [p \in Paths |-> IF p \in scan.keep THEN rows[p] ELSE None]
    /\ scan' = [scan EXCEPT !.at = "clear"]
    /\ UNCHANGED <<given, budget, world, roms, saved, wanted, bg, again, told, moving, past>>

\* Rows the walk did not see are deleted, but not under what it could not read.
ScanPrune ==
    /\ Runs("unit") /\ scan.units = {}
    /\ rows' = [p \in Paths |-> IF p \in scan.keep \/ Lies(p, scan.unread) THEN rows[p] ELSE None]
    /\ scan' = [scan EXCEPT !.at = "clear"]
    /\ UNCHANGED <<given, budget, world, roms, saved, wanted, bg, again, told, moving, past>>

ScanClear ==
    /\ Runs("clear")
    /\ saved' = {}
    /\ scan' = None
    /\ touched' = {} /\ closed' = {}
    /\ UNCHANGED <<given, budget, world, rows, roms, wanted, bg, again, told, moving>>

\* A checkpoint: before a directory, a file and the deletion.  A core holds the scan
\* there, and a cancel ends it.
AtCheckpoint == scan # None /\ scan.at \in {"unit", "file"}

Hold ==
    /\ Spend("hold") /\ AtCheckpoint /\ ~scan.held
    /\ scan' = [scan EXCEPT !.held = TRUE]
    /\ UNCHANGED <<given, world, table, wanted, bg, again, told, moving, past>>

Free ==
    /\ scan # None /\ scan.held
    /\ scan' = [scan EXCEPT !.held = FALSE]
    /\ UNCHANGED <<given, budget, world, table, wanted, bg, again, told, moving, past>>

Cancel ==
    /\ Spend("cancel") /\ AtCheckpoint
    /\ scan' = None
    /\ Ended
    /\ UNCHANGED <<given, world, table, wanted, bg, again, told, moving>>

-----------------------------------------------------------------------------
(* The catalogue, on the background lane. *)

\* unmatch_changed_rom: rows of roms that list v gives other hashes.
Unmatch(rs, v) ==
    [p \in Paths |->
        IF rs[p] # None /\ rs[p].rom # None /\ v[rs[p].rom] \notin {None, roms[rs[p].rom].sum}
        THEN [rs[p] EXCEPT !.rom = None, !.state = "unverified"] ELSE rs[p]]

\* A DAT is stored in one transaction; what it no longer lists is retired.
Store(v) ==
    /\ roms' = [r \in Roms |-> IF v[r] # None THEN [sum |-> v[r], live |-> TRUE]
                               ELSE IF roms[r] = None THEN None ELSE [roms[r] EXCEPT !.live = FALSE]]
    /\ rows' = Unmatch(rows, v)

Load(v) ==
    /\ Spend("load") /\ bg = None
    /\ Store(v)
    /\ bg' = [job |-> "load", after |-> 0]
    /\ UNCHANGED <<given, world, saved, wanted, scan, again, told, moving, past>>

\* Then it queues a recompute and a scan.
FollowLoad ==
    /\ bg # None /\ bg.job = "load"
    /\ IF ~again
       THEN /\ again' = TRUE
            /\ UNCHANGED <<wanted, bg>>
       ELSE /\ wanted' = (wanted \/ ~Joined)
            /\ bg' = None
            /\ UNCHANGED again
    /\ UNCHANGED <<given, budget, world, table, scan, told, moving, past>>

\* DELETE /dats/{id} retires every rom; a task of its own queues what follows.
RemoveDat ==
    /\ Spend("remove") /\ ~told
    /\ roms' = [r \in Roms |-> IF roms[r] = None THEN None ELSE [roms[r] EXCEPT !.live = FALSE]]
    /\ told' = TRUE
    /\ UNCHANGED <<given, world, rows, saved, wanted, scan, bg, again, moving, past>>

FollowRemove ==
    /\ told
    /\ told' = FALSE /\ again' = TRUE
    /\ wanted' = (wanted \/ ~Joined)
    /\ UNCHANGED <<given, budget, world, table, scan, bg, moving, past>>

RecomputeBegin ==
    /\ bg = None /\ again
    /\ again' = FALSE
    /\ bg' = [job |-> "retired", after |-> 0]
    /\ UNCHANGED <<given, budget, world, table, wanted, scan, told, moving, past>>

\* The first Chunk of the rows of paths P above id n, in the order of their ids.
Page(P, n) ==
    LET above == {p \in P : rows[p].id > n}
    IN  {p \in above : Cardinality({q \in above : rows[q].id < rows[p].id}) < Chunk}

\* rematch_chunk: rows of retired roms, until a chunk is not full.
RecomputeRetired ==
    /\ bg # None /\ bg.job = "retired"
    /\ \E page \in {Page(Retired(rows), 0)} :
       /\ rows' = Rematch(rows, page)
       /\ bg' = IF Cardinality(page) < Chunk THEN [job |-> "unmatched", after |-> 0] ELSE bg
    /\ UNCHANGED <<given, budget, world, roms, saved, wanted, scan, again, told, moving, past>>

\* match_unmatched_chunk: rows without a rom, by id; the picks that follow change no row.
RecomputeUnmatched ==
    /\ bg # None /\ bg.job = "unmatched"
    /\ \E page \in {Page(Unmatched(rows), bg.after)} :
       /\ rows' = Rematch(rows, page)
       /\ bg' = IF Cardinality(page) = Chunk THEN [bg EXCEPT !.after = Max({rows[p].id : p \in page})]
                ELSE IF given.disc THEN [job |-> "recomputed", after |-> 0] ELSE None
    /\ UNCHANGED <<given, budget, world, roms, saved, wanted, scan, again, told, moving, past>>

\* What follows on a disc platform changes no row here: Images has its two steps.
RecomputeEnd ==
    /\ bg # None /\ bg.job = "recomputed"
    /\ bg' = None
    /\ UNCHANGED <<given, budget, world, table, wanted, scan, again, told, moving, past>>

-----------------------------------------------------------------------------
\* The server is killed and starts again: jobs that were queued or ran are queued again, a
\* DAT's import too, and a scan whose progress was saved.
Kill ==
    /\ Spend("kill")
    /\ wanted' = (wanted \/ scan # None \/ saved # {})
    /\ again' = (again \/ (bg # None /\ bg.job # "load"))
    /\ bg' = IF bg # None /\ bg.job = "load" THEN bg ELSE None
    /\ scan' = None /\ told' = FALSE /\ moving' = None
    /\ Ended
    /\ UNCHANGED <<given, world, table>>

Scans == ScanBegin \/ ScanUnit \/ ScanFile \/ ScanFlush \/ ScanTrack \/ ScanJudge \/ ScanUnitEnd
            \/ ScanPrune \/ ScanClear
Matches == RecomputeBegin \/ RecomputeRetired \/ RecomputeUnmatched \/ RecomputeEnd

\* The steps that images of discs have no part in.
Apart ==
    \/ \E p \in Paths : Delete(p) \/ RenameFile(p) \/ \E c \in Contents : Copy(p, c)
    \/ \E d \in Dirs : Shut(d) \/ Reopen(d)
    \/ RenameRow \/ RequestScan
    \/ ScanUnit \/ ScanFile \/ ScanFlush \/ ScanTrack \/ ScanJudge \/ ScanUnitEnd \/ Free
    \/ FollowLoad \/ RemoveDat \/ FollowRemove \/ RecomputeBegin

Next ==
    \/ Apart
    \/ ScanBegin \/ ScanPrune \/ ScanClear \/ Hold \/ Cancel
    \/ \E v \in given.loads : Load(v)
    \/ RecomputeRetired \/ RecomputeUnmatched \/ RecomputeEnd
    \/ Kill

Spec == Init /\ [][Next]_vars

\* Each lane goes on, the gate opens, a request and a follow-up end, and the timer asks
\* for a scan again and again.
FairSpec ==
    /\ Spec
    /\ WF_vars(Scans) /\ WF_vars(Free) /\ WF_vars(Matches)
    /\ WF_vars(FollowLoad) /\ WF_vars(FollowRemove) /\ WF_vars(RenameRow) /\ WF_vars(RequestScan)

-----------------------------------------------------------------------------
(* Properties. *)

\* Types, and at most one row for an id.
TypeOK ==
    /\ given \in Cases /\ budget \in [Events -> Nat]
    /\ disk \in [Paths -> File \cup {None}] /\ shut \subseteq Dirs
    /\ rows \in [Paths -> Row \cup {None}] /\ roms \in [Roms -> Listed \cup {None}]
    /\ saved \subseteq Dirs /\ {wanted, again, told} \subseteq BOOLEAN
    /\ touched \subseteq Paths /\ closed \subseteq shut
    /\ bg = None \/ bg \in [job : {"load", "retired", "unmatched", "recomputed", "recheck"}, after : Nat]
    /\ scan = None \/ /\ scan \in ScanState /\ scan.unread \subseteq scan.done \cup Tops
                      /\ Len(scan.sink) <= IF given.disc THEN Len(PathOrder) ELSE FlushRows
    /\ \A p, q \in Paths : (rows[p] # None /\ rows[q] # None /\ rows[p].id = rows[q].id) => p = q

\* The end of a scan (delete_missing) takes away the row of no file that lay on the card,
\* in reach, all the while, and no row under a directory it could never read, however often
\* the scan was killed and resumed (docs/ARCHITECTURE.md "Library scan" 4).
LosesNoRow ==
    [][\A p \in Paths : (scan # None /\ scan.at = "unit" /\ rows[p] # None /\ rows'[p] = None /\ moving' = moving)
          => /\ disk[p] = None \/ p \in touched
             /\ ~Lies(p, closed)]_vars

\* A scan that ends has a row, of its size and mtime, for every file that lay untouched
\* since it began, also in directories it skips as done before a kill: a directory is
\* never saved as done ahead of its rows (docs/ARCHITECTURE.md "Library scan" 6).
DoneIsStored ==
    [][(scan # None /\ scan.at = "clear" /\ scan' = None /\ saved' = {})
          => \A p \in Paths : (disk[p] # None /\ p \notin touched) => Same(rows[p], Stat(p))]_vars

\* A row says what its file is: nothing is left of files that are gone, a file that was
\* hashed has the live rom of its hash or none, and is verified under its own name only;
\* a disc track with all the tracks of its title.  A file that could not be read once is
\* known by its size and mtime alone.
RowIsRight(p) ==
    LET row == rows[p]
    IN  /\ Same(row, Stat(p))
        /\ row.level \in {"full", "crc"} => row.sum = disk[p].sum
        /\ row.rom = StoredMatch(row)
        /\ row.level = "crc" => ~Candidate(row.sum)
        /\ row.state = IF given.disc THEN DiscState(Tracks(rows, DirOf[p]), p) ELSE StateOf(p, row.rom)

LibraryIsRight ==
    \A p \in Paths : Reach(p) => IF disk[p] = None THEN rows[p] = None ELSE rows[p] # None /\ RowIsRight(p)

\* Whatever files, DATs, renames, cores, cancels and kills came in between, once they cease
\* the rows are right, and stay right through every further scan and recompute.
Settles == <>[]LibraryIsRight
=============================================================================
