------------------------------ MODULE Sources ------------------------------
(***************************************************************************)
(* Where downloads come from: jobs/source_import.rs, jobs/bind_source.rs,   *)
(* jobs/remap.rs, jobs/follow_up.rs, jobs/drop_watch.rs, db/sources.rs,     *)
(* db/candidates.rs, http/sources.rs and the matching of mistarr-sources.   *)
(*                                                                         *)
(* A dropped .torrent becomes a source, bound to the platform whose roms    *)
(* its file names fit best; a .magnet waits for the client to find its file *)
(* list first.  A source's files are mapped to roms: by name, with further  *)
(* candidates, and for good once an import hashed a file.  The user may     *)
(* choose the platform, and catalogue changes map sources again.            *)
(*                                                                         *)
(* The background lane runs one job at a time; the light lane resolves a    *)
(* magnet, imports judge files, and requests and catalogue changes come in  *)
(* between.  A step is one transaction, one call to the client or one file  *)
(* operation.  A source's id is the lowest above all others, as SQLite      *)
(* gives it, so the id of the newest source comes again once it is deleted. *)
(***************************************************************************)
EXTENDS Naturals, Sequences, FiniteSets

CONSTANTS
    Drops,      \* files that may be dropped into sources/
    Torrents,   \* what they name: a torrent, by its infohash
    Platforms,  \* 1 .. n, in the order of their names
    Roms,       \* 1 .. n, in the order of their ids
    MaxId,      \* the highest source id
    Ignore, Automatic,   \* choices other than a platform
    None,       \* no torrent, platform, rom or source
    Cases       \* what is dropped, how it matches, and what may come in between

Ids    == 1..MaxId
Files  == {1, 2}
Kinds  == {"torrent", "magnet", "junk"}
Choices == Platforms \cup {Ignore, Automatic}
Events == {"drop", "load", "bind", "toggle", "delete", "judge", "call", "stop", "move", "read", "crash"}

ASSUME SourcesAssumption ==
    /\ MaxId \in Nat \ {0} /\ Platforms \subseteq Nat /\ Roms \subseteq Nat
    /\ None \notin Nat /\ None \notin Torrents /\ None \notin Choices
    /\ Ignore # Automatic /\ {Ignore, Automatic} \cap Platforms = {}
    /\ Cases \subseteq [drops : SUBSET Drops, kind : [Drops -> Kinds], of : [Drops -> Torrents],
                        on : [Roms -> Platforms],
                        named : [Torrents -> [Files -> SUBSET Roms]],   \* fits by name
                        like : [Torrents -> [Files -> SUBSET Roms]],    \* or only nearly
                        content : [Torrents -> [Files -> Roms]],        \* and what it is
                        hint : [Torrents -> Platforms \cup {None}],
                        live : SUBSET Roms, loads : SUBSET SUBSET Roms,
                        asks : SUBSET Choices, budget : [Events -> Nat]]

VARIABLES
    given,   \* the case
    budget,  \* what may still come in between
    dir,     \* where each dropped file is
    seen,    \* the files the watcher reported
    rows,    \* the sources, by id
    live,    \* the live roms of the catalogue
    follow,  \* what a catalogue change still has to start, of "remap" and "rebind"
    queue,   \* queued jobs of the background lane
    job,     \* its running job, with its locals
    light,   \* the running ResolveMagnet, with its locals
    api,     \* the DELETE request under way
    tor,     \* the torrents in the client
    asked    \* history: the user's last choice for a source

files == <<dir, seen>>
lanes == <<queue, job, light>>
vars  == <<given, budget, files, rows, live, follow, lanes, api, tor, asked>>

-----------------------------------------------------------------------------
(* Matching. *)

Least(S) == CHOOSE x \in S : \A y \in S : x <= y

\* The roms of platform p that file i of torrent t fits by name, and the one taken.
Fits(t, i, p)  == {r \in given.named[t][i] \cap live : given.on[r] = p}
Match(t, i, p) == IF Fits(t, i, p) = {} THEN None ELSE Least(Fits(t, i, p))
Hits(t, p)     == Cardinality({i \in Files : Fits(t, i, p) # {}})

\* Further candidates: other roms of that name, and roms like it for a file with no match.
Guesses(t, p) ==
    {c \in Files \X Roms :
        LET fits == Fits(t, c[1], p)
        IN  IF fits = {} THEN c[2] \in given.like[t][c[1]] \cap live /\ given.on[c[2]] = p
            ELSE c[2] \in fits \ {Least(fits)}}

\* The threshold: a platform's roms fit at least half of the files.
Enough(t, p) == 2 * Hits(t, p) >= Cardinality(Files)

\* The platform with the most hits, the first of them by name.
Best(t) ==
    LET most == {p \in Platforms : Enough(t, p) /\ \A q \in Platforms : Hits(t, q) <= Hits(t, p)}
    IN  IF most = {} THEN None ELSE Least(most)

Stamp(p) == {r \in live : given.on[r] = p}

-----------------------------------------------------------------------------
(* The row of a source. *)

Unmatched == [i \in Files |-> None]

NewRow(t, f, state) ==
    [torrent |-> t, origin |-> f, state |-> state, platform |-> None, user |-> FALSE,
     pending |-> None, client |-> None, list |-> None, match |-> Unmatched, proof |-> {},
     cand |-> {}, bad |-> {}, stamp |-> None]

Exists(id) == rows[id] # None
NextId     == Cardinality({id \in Ids : \E above \in Ids : above >= id /\ Exists(above)}) + 1
RowOf(t)   == CHOOSE id \in Ids \cup {None} :
                IF id = None THEN ~\E i \in Ids : Exists(i) /\ rows[i].torrent = t
                ELSE Exists(id) /\ rows[id].torrent = t

\* Proofs of roms that are gone or of another platform are forgotten.
Forget(row, p) ==
    LET kept == {i \in row.proof : row.match[i] \in Stamp(p)}
    IN  [row EXCEPT !.proof = kept, !.match = [i \in Files |-> IF i \in row.proof \ kept THEN None ELSE @[i]]]

\* The file list written again: matches go, proofs stay with a file that stays.
Relist(row, t) ==
    LET kept == IF row.list = t THEN row.proof ELSE {}
    IN  [row EXCEPT !.list = t, !.proof = kept, !.cand = {},
                    !.match = [i \in Files |-> IF i \in kept THEN @[i] ELSE None]]

\* What a mapping to p changes in a row.
Change(row, p) ==
    [matches |-> {m \in Files \X (Roms \cup {None}) :
                    m[1] \notin row.proof /\ m[2] = Match(row.list, m[1], p) /\ m[2] # row.match[m[1]]},
     wanted  |-> {c \in Guesses(row.list, p) : c[1] \notin row.proof /\ c \notin row.bad}]

\* Mutant: a piece of a mapping is written whatever was stored since it was planned.
WriteOverProof(row, matches, remove, add) ==
    [row EXCEPT !.match = [i \in Files |-> IF \E m \in matches : m[1] = i
                                           THEN (CHOOSE m \in matches : m[1] = i)[2] ELSE @[i]],
                !.proof = {i \in @ : ~\E m \in matches : m[1] = i},
                !.cand = (@ \ remove) \cup {c \in add : c \notin row.bad}]

\* A file proved since keeps its rom, and takes no candidate; nor does a pair ruled out since.
Write(row, matches, remove, add) ==
    [row EXCEPT !.match = [i \in Files |-> IF i \notin row.proof /\ \E m \in matches : m[1] = i
                                           THEN (CHOOSE m \in matches : m[1] = i)[2] ELSE @[i]],
                !.cand = (@ \ remove) \cup {c \in add : c[1] \notin row.proof /\ c \notin row.bad}]

\* A disabled source stays disabled when it is bound.
Then(state, next) == IF state = "disabled" THEN state ELSE next

\* The whole mapping in one transaction: proofs of p's roms stay, the rest is written anew.
Mapped(row, p) ==
    LET kept == {i \in row.proof : row.match[i] \in Stamp(p)}
    IN  [row EXCEPT !.platform = p, !.stamp = Stamp(p), !.proof = kept, !.state = Then(@, "bound"),
                    !.match = [i \in Files |-> IF i \in kept THEN @[i] ELSE Match(row.list, i, p)],
                    !.cand = {c \in Guesses(row.list, p) : c[1] \notin kept /\ c \notin row.bad}]

\* No platform: the candidates go, and with the user's choice the matches and proofs too.
Unmapped(row) == [row EXCEPT !.platform = None, !.cand = {}, !.state = Then(@, "unbound")]
Cleared(row)  == [Unmapped(row) EXCEPT !.match = Unmatched, !.proof = {}]

\* bind_best: to the best platform, or unbound with a reason.
BoundBest(row) ==
    LET best == Best(row.list) IN IF best # None THEN Mapped(row, best) ELSE Unmapped(row)

\* rebind_one: the suggested platform comes first unless another fits better.
Suggested(t) ==
    LET hint == given.hint[t]
        best == Best(t)
    IN  IF hint # None /\ Enough(t, hint) /\ (best = None \/ Hits(t, best) <= Hits(t, hint))
        THEN hint ELSE best
Rebound(row) ==
    LET p == Suggested(row.list) IN IF p # None THEN Mapped(row, p) ELSE Unmapped(row)

\* The user's choice applied: a platform, none, or what is found.
Applied(row, choice) ==
    LET p == IF choice = Automatic THEN Suggested(row.list) ELSE IF choice = Ignore THEN None ELSE choice
    IN  [IF p # None THEN Mapped(row, p) ELSE Cleared(row)
            EXCEPT !.user = choice # Automatic, !.pending = None]

-----------------------------------------------------------------------------
(* Files dropped into sources/. *)

Spend(e) == budget[e] > 0 /\ budget' = [budget EXCEPT ![e] = @ - 1]

NoJob   == [kind |-> "none", at |-> "none", arg |-> None, id |-> None, plan |-> None, todo |-> {}]
NoLight == [at |-> "none", id |-> None, torrent |-> None]
NoApi   == [at |-> "none", id |-> None, torrent |-> None]

Task(kind, arg) == <<kind, arg>>
Start(task) == /\ job.kind = "none" /\ task \in queue /\ queue' = queue \ {task}
At(kind, at) == job.kind = kind /\ job.at = at

\* A file copied in or uploaded; an upload queues its import at once.
Drop(f) ==
    /\ f \in given.drops /\ dir[f] = "absent" /\ Spend("drop")
    /\ dir' = [dir EXCEPT ![f] = "inbox"]
    /\ queue' \in {queue, queue \cup {Task("import", f)}}
    /\ UNCHANGED <<given, seen, rows, live, follow, job, light, api, tor, asked>>

Watch(f) ==
    /\ dir[f] = "inbox" /\ f \notin seen
    /\ seen' = seen \cup {f} /\ queue' = queue \cup {Task("import", f)}
    /\ UNCHANGED <<given, budget, dir, rows, live, follow, job, light, api, tor, asked>>

\* A file that is gone needs nothing; one that cannot be read is reported again.
ImportStart(f) ==
    /\ Start(Task("import", f))
    /\ \/ /\ job' = IF dir[f] = "inbox" THEN [NoJob EXCEPT !.kind = "import", !.at = "read", !.arg = f] ELSE NoJob
          /\ UNCHANGED <<seen, budget>>
       \/ dir[f] = "inbox" /\ Spend("read") /\ seen' = seen \ {f} /\ UNCHANGED job
    /\ UNCHANGED <<given, dir, rows, live, follow, light, api, tor, asked>>

ImportTorrent ==
    /\ At("import", "read") /\ given.kind[job.arg] = "torrent"
    /\ LET t  == given.of[job.arg]
           id == RowOf(t)
       IN  /\ id # None => rows[id].state = "resolving"
           /\ LET at  == IF id = None THEN NextId ELSE id
                  row == IF id = None THEN NewRow(t, job.arg, "unbound") ELSE rows[id]
              IN  /\ at \in Ids
                  /\ rows' = [rows EXCEPT ![at] = BoundBest(Relist(row, t))]
                  /\ asked' = IF id = None THEN [asked EXCEPT ![at] = None] ELSE asked
    /\ job' = [job EXCEPT !.at = "place"]
    /\ UNCHANGED <<given, budget, files, live, follow, queue, light, api, tor>>

ImportMagnet ==
    /\ At("import", "read") /\ given.kind[job.arg] = "magnet" /\ RowOf(given.of[job.arg]) = None
    /\ NextId \in Ids
    /\ rows' = [rows EXCEPT ![NextId] = NewRow(given.of[job.arg], job.arg, "resolving")]
    /\ asked' = [asked EXCEPT ![NextId] = None]
    /\ job' = [job EXCEPT !.at = "place"]
    /\ UNCHANGED <<given, budget, files, live, follow, queue, light, api, tor>>

\* Not a source, or one that is loaded.
ImportReject ==
    /\ At("import", "read")
    /\ LET id == RowOf(given.of[job.arg]) IN
       \/ given.kind[job.arg] = "junk"
       \/ id # None /\ (given.kind[job.arg] = "magnet" \/ rows[id].state # "resolving")
    /\ dir' = [dir EXCEPT ![job.arg] = "rejected"] /\ job' = NoJob
    /\ UNCHANGED <<given, budget, seen, rows, live, follow, queue, light, api, tor, asked>>

\* A file that cannot be moved stays where it is.
Place ==
    /\ At("import", "place")
    /\ \/ dir' = [dir EXCEPT ![job.arg] = "loaded"] /\ UNCHANGED budget
       \/ Spend("move") /\ UNCHANGED dir
    /\ job' = NoJob
    /\ UNCHANGED <<given, seen, rows, live, follow, queue, light, api, tor, asked>>

-----------------------------------------------------------------------------
(* The user's choice of a platform. *)

\* PATCH stores the choice; its job is queued once that is committed.
Ask(id, choice) ==
    /\ api.at = "none" /\ Exists(id) /\ rows[id].list # None /\ Spend("bind")
    /\ rows' = [rows EXCEPT ![id].pending = choice, ![id].user = choice # Automatic]
    /\ asked' = [asked EXCEPT ![id] = choice]
    /\ api' = [NoApi EXCEPT !.at = "ask", !.id = id]
    /\ UNCHANGED <<given, files, live, follow, lanes, tor>>

\* A queued job of the source is shared, a running one is not.
AskQueued ==
    /\ api.at = "ask"
    /\ queue' = queue \cup {Task("bind", api.id)} /\ api' = NoApi
    /\ UNCHANGED <<given, budget, files, rows, live, follow, job, light, tor, asked>>

BindStart(id) ==
    /\ Start(Task("bind", id)) /\ job' = [NoJob EXCEPT !.kind = "bind", !.at = "bind", !.id = id]
    /\ UNCHANGED <<given, budget, files, rows, live, follow, light, api, tor, asked>>

\* Whatever choice is the last when the job comes to it.
Bind ==
    /\ At("bind", "bind")
    /\ LET id == job.id IN
       rows' = IF Exists(id) /\ rows[id].pending # None
               THEN [rows EXCEPT ![id] = Applied(@, @.pending)] ELSE rows
    /\ job' = [job EXCEPT !.at = "end"]
    /\ UNCHANGED <<given, budget, files, live, follow, queue, light, api, tor, asked>>

BindEnd ==
    /\ At("bind", "end") /\ job' = NoJob
    /\ UNCHANGED <<given, budget, files, rows, live, follow, queue, light, api, tor, asked>>

\* A source switched off, or back to what its files and platform say.
Toggle(id) ==
    /\ Exists(id) /\ Spend("toggle")
    /\ rows' = [rows EXCEPT ![id].state =
                    IF @ # "disabled" THEN "disabled"
                    ELSE IF rows[id].platform # None THEN "bound"
                    ELSE IF rows[id].list = None THEN "resolving" ELSE "unbound"]
    /\ UNCHANGED <<given, files, live, follow, lanes, api, tor, asked>>

-----------------------------------------------------------------------------
(* Catalogue changes. *)

\* The platforms whose live roms differ.
Changed(new) == {p \in Platforms : {r \in new : given.on[r] = p} # Stamp(p)}

Load(new) ==
    /\ new # live /\ Spend("load") /\ live' = new
    /\ follow' = [remap |-> follow.remap \cup Changed(new), rebind |-> TRUE]
    /\ UNCHANGED <<given, files, rows, lanes, api, tor, asked>>

\* Each platform's re-map is queued once its groups are settled.
RemapQueued(p) ==
    /\ p \in follow.remap
    /\ queue' = queue \cup {Task("remap", {p})} /\ follow' = [follow EXCEPT !.remap = @ \ {p}]
    /\ UNCHANGED <<given, budget, files, rows, live, job, light, api, tor, asked>>

\* Mutant: every unbound source is bound again, also one the user left so.
RebindAll ==
    /\ follow.rebind /\ follow' = [follow EXCEPT !.rebind = FALSE]
    /\ rows' = [id \in Ids |-> IF Exists(id) /\ rows[id].state = "unbound" THEN Rebound(rows[id]) ELSE rows[id]]
    /\ UNCHANGED <<given, budget, files, live, lanes, api, tor, asked>>

\* rebind_waiting: the unbound sources whose binding the user did not choose.
Rebind ==
    /\ follow.rebind /\ follow' = [follow EXCEPT !.rebind = FALSE]
    /\ rows' = [id \in Ids |-> IF Exists(id) /\ rows[id].state = "unbound" /\ ~rows[id].user
                               THEN Rebound(rows[id]) ELSE rows[id]]
    /\ UNCHANGED <<given, budget, files, live, lanes, api, tor, asked>>

-----------------------------------------------------------------------------
(* Mapping bound sources again: one after the other, in pieces. *)

Stale(id) == /\ Exists(id) /\ rows[id].platform # None /\ rows[id].state # "resolving"
             /\ rows[id].stamp # Stamp(rows[id].platform)

RemapStart(platforms) ==
    /\ Start(Task("remap", platforms))
    /\ job' = [NoJob EXCEPT !.kind = "remap", !.at = "next",
                            !.todo = {id \in Ids : Stale(id) /\ rows[id].platform \in platforms}]
    /\ UNCHANGED <<given, budget, files, rows, live, follow, light, api, tor, asked>>

NextSource == job' = [job EXCEPT !.at = "next", !.id = None, !.arg = None, !.plan = None]

\* remap_one looks again: the source may be fresh, unbound or gone by now.
RemapLook ==
    /\ At("remap", "next") /\ job.todo # {}
    /\ LET id == Least(job.todo) IN
       job' = IF Exists(id) /\ rows[id].platform # None /\ rows[id].stamp # Stamp(rows[id].platform)
              THEN [job EXCEPT !.todo = @ \ {id}, !.at = "forget", !.id = id, !.arg = rows[id].platform]
              ELSE [job EXCEPT !.todo = @ \ {id}]
    /\ UNCHANGED <<given, budget, files, rows, live, follow, queue, light, api, tor, asked>>

RemapForget ==
    /\ At("remap", "forget")
    /\ rows' = IF Exists(job.id) THEN [rows EXCEPT ![job.id] = Forget(@, job.arg)] ELSE rows
    /\ job' = [job EXCEPT !.at = "plan"]
    /\ UNCHANGED <<given, budget, files, live, follow, queue, light, api, tor, asked>>

\* What is to change, read once; matches are written first, then candidates go, then come.
Piece(matches, remove, add) ==
    IF matches \cup remove \cup add = {} THEN <<>>
    ELSE << [matches |-> matches, remove |-> remove, add |-> add] >>

Pieces(row, p) ==
    LET c == Change(row, p)
    IN  Piece(c.matches, {}, {}) \o Piece({}, row.cand \ c.wanted, {}) \o Piece({}, {}, c.wanted \ row.cand)

RemapPlan ==
    /\ At("remap", "plan")
    /\ IF Exists(job.id)
       THEN job' = [job EXCEPT !.at = "write",
                        !.plan = [pieces |-> Pieces(rows[job.id], job.arg), stamp |-> Stamp(job.arg)]]
       ELSE NextSource
    /\ UNCHANGED <<given, budget, files, rows, live, follow, queue, light, api, tor, asked>>

StillOn == Exists(job.id) /\ rows[job.id].platform = job.arg

RemapWrite ==
    /\ At("remap", "write") /\ job.plan.pieces # <<>>
    /\ LET piece == Head(job.plan.pieces) IN
       IF StillOn
       THEN /\ rows' = [rows EXCEPT ![job.id] = Write(@, piece.matches, piece.remove, piece.add)]
            /\ job' = [job EXCEPT !.plan.pieces = Tail(@)]
       ELSE NextSource /\ UNCHANGED rows
    /\ UNCHANGED <<given, budget, files, live, follow, queue, light, api, tor, asked>>

\* Mutant: the stamp is that of the roms of now, not of those the plan was made from.
RemapStampNow ==
    /\ At("remap", "write") /\ job.plan.pieces = <<>>
    /\ rows' = IF StillOn THEN [rows EXCEPT ![job.id].stamp = Stamp(job.arg)] ELSE rows
    /\ NextSource
    /\ UNCHANGED <<given, budget, files, live, follow, queue, light, api, tor, asked>>

RemapStamp ==
    /\ At("remap", "write") /\ job.plan.pieces = <<>>
    /\ rows' = IF StillOn THEN [rows EXCEPT ![job.id].stamp = job.plan.stamp] ELSE rows
    /\ NextSource
    /\ UNCHANGED <<given, budget, files, live, follow, queue, light, api, tor, asked>>

RemapEnd ==
    /\ At("remap", "next") /\ job.todo = {} /\ job' = NoJob
    /\ UNCHANGED <<given, budget, files, rows, live, follow, queue, light, api, tor, asked>>

\* An import hashed file i, downloaded for a rom r it fitted at the time: it is that rom for
\* good, or it is not, and then it may be proved to be another.
Prove(row, i, r) ==
    [row EXCEPT !.match[i] = r, !.proof = @ \cup {i}, !.cand = {c \in @ : c[1] # i}]

DropPair(row, i, r) ==
    [row EXCEPT !.cand = @ \ {<<i, r>>}, !.match[i] = IF @ = r THEN None ELSE @,
                !.proof = IF row.match[i] = r THEN @ \ {i} ELSE @, !.bad = @ \cup {<<i, r>>}]

Judge(id, i) ==
    /\ Exists(id) /\ rows[id].state = "bound" /\ Spend("judge")
    /\ LET row  == rows[id]
           real == given.content[row.torrent][i]
       IN  \E r \in Roms :
              /\ r \in given.named[row.torrent][i] \cup given.like[row.torrent][i]
              /\ \/ r = real /\ rows' = [rows EXCEPT ![id] = Prove(row, i, r)]
                 \/ /\ r # real
                    /\ rows' = [rows EXCEPT ![id] =
                                  DropPair(IF real \in live THEN Prove(row, i, real) ELSE row, i, r)]
    /\ UNCHANGED <<given, files, live, follow, lanes, api, tor, asked>>

-----------------------------------------------------------------------------
(* Resolving a magnet: the light lane. *)

Gone    == [in |-> FALSE, running |-> FALSE, listed |-> FALSE, wanted |-> FALSE]
Light(at) == light.at = at
To(at)  == light' = [light EXCEPT !.at = at]
Ends    == light' = NoLight
Fails   == Spend("call") /\ Ends

ResolveStart(id) ==
    /\ Light("none") /\ Exists(id) /\ rows[id].state = "resolving"
    /\ light' = [at |-> IF rows[id].client = None THEN "add" ELSE "files", id |-> id,
                 torrent |-> IF rows[id].client = None THEN rows[id].torrent ELSE rows[id].client]
    /\ UNCHANGED <<given, budget, files, rows, live, follow, queue, job, api, tor, asked>>

\* Added stopped with nothing wanted; a torrent the client has keeps running if it was.
ResolveAdd ==
    /\ Light("add")
    /\ \/ /\ tor' = [tor EXCEPT ![light.torrent].in = TRUE, ![light.torrent].wanted = FALSE]
          /\ To("start") /\ UNCHANGED budget
       \/ Fails /\ UNCHANGED tor
    /\ UNCHANGED <<given, files, rows, live, follow, queue, job, api, asked>>

ResolveRun ==
    /\ Light("start")
    /\ \/ /\ tor' = [tor EXCEPT ![light.torrent].running = tor[light.torrent].in]
          /\ To("record") /\ UNCHANGED budget
       \/ Fails /\ UNCHANGED tor
    /\ UNCHANGED <<given, files, rows, live, follow, queue, job, api, asked>>

SetClient(t) == rows' = IF Exists(light.id) THEN [rows EXCEPT ![light.id].client = t] ELSE rows

ResolveRecord ==
    /\ Light("record") /\ SetClient(light.torrent) /\ To("files")
    /\ UNCHANGED <<given, budget, files, live, follow, queue, job, api, tor, asked>>

\* A torrent the client lost is added again; one without its list is asked again later.
ResolveFiles ==
    /\ Light("files")
    /\ \/ ~tor[light.torrent].in /\ SetClient(None) /\ Ends /\ UNCHANGED budget
       \/ /\ tor[light.torrent].in /\ IF tor[light.torrent].listed THEN To("stop") ELSE Ends
          /\ UNCHANGED <<rows, budget>>
       \/ Fails /\ UNCHANGED rows
    /\ UNCHANGED <<given, files, live, follow, queue, job, api, tor, asked>>

\* Mutant: the resolved torrent is left with what the client made of it.
ResolveKeep ==
    /\ Light("stop") /\ To("unwant")
    /\ UNCHANGED <<given, budget, files, rows, live, follow, queue, job, api, tor, asked>>

\* Stop and selection are asked for once; a call that fails is only logged.
ResolveStop ==
    /\ Light("stop") /\ To("unwant")
    /\ \/ tor' = [tor EXCEPT ![light.torrent].running = FALSE] /\ UNCHANGED budget
       \/ Spend("stop") /\ UNCHANGED tor
    /\ UNCHANGED <<given, files, rows, live, follow, queue, job, api, asked>>

ResolveUnwant ==
    /\ Light("unwant") /\ To("store")
    /\ \/ tor' = [tor EXCEPT ![light.torrent].wanted = FALSE] /\ UNCHANGED budget
       \/ Spend("stop") /\ UNCHANGED tor
    /\ UNCHANGED <<given, files, rows, live, follow, queue, job, api, asked>>

ResolveStore ==
    /\ Light("store") /\ Ends
    /\ rows' = IF Exists(light.id) /\ rows[light.id].state = "resolving"
               THEN [rows EXCEPT ![light.id] = BoundBest(Relist(@, light.torrent))] ELSE rows
    /\ UNCHANGED <<given, budget, files, live, follow, queue, job, api, tor, asked>>

\* The client finds the file list and wants every file of it.
Metadata(t) ==
    /\ tor[t].running /\ ~tor[t].listed
    /\ tor' = [tor EXCEPT ![t].listed = TRUE, ![t].wanted = TRUE]
    /\ UNCHANGED <<given, budget, files, rows, live, follow, lanes, api, asked>>

-----------------------------------------------------------------------------
(* Removing a source, and a kill. *)

\* DELETE looks at the row, has the client drop the torrent, then deletes the row.
Remove(id) ==
    /\ api.at = "none" /\ Exists(id) /\ Spend("delete")
    /\ api' = [at |-> IF rows[id].client = None THEN "delete" ELSE "remove", id |-> id,
               torrent |-> rows[id].client]
    /\ UNCHANGED <<given, files, rows, live, follow, lanes, tor, asked>>

RemoveTorrent ==
    /\ api.at = "remove"
    /\ \/ tor' = [tor EXCEPT ![api.torrent] = Gone] /\ api' = [api EXCEPT !.at = "delete"] /\ UNCHANGED budget
       \/ Spend("call") /\ api' = NoApi /\ UNCHANGED tor
    /\ UNCHANGED <<given, files, rows, live, follow, lanes, asked>>

RemoveRow ==
    /\ api.at = "delete"
    /\ rows' = [rows EXCEPT ![api.id] = None] /\ asked' = [asked EXCEPT ![api.id] = None]
    /\ api' = NoApi
    /\ UNCHANGED <<given, budget, files, live, follow, lanes, tor>>

\* mistarr is killed and starts again: jobs of the background lane run again, and every source
\* is mapped again.  A choice whose job was not queued yet stays as it is stored.
TaskOf(j) == IF j.kind = "import" THEN Task("import", j.arg)
             ELSE IF j.kind = "bind" THEN Task("bind", j.id) ELSE Task("remap", Platforms)

Crash ==
    /\ Spend("crash")
    /\ queue' = queue \cup {Task("remap", Platforms)} \cup (IF job.kind = "none" THEN {} ELSE {TaskOf(job)})
    /\ job' = NoJob /\ light' = NoLight /\ api' = NoApi /\ seen' = {}
    /\ follow' = [remap |-> {}, rebind |-> FALSE]
    /\ asked' = [id \in Ids |-> IF api.at = "ask" /\ api.id = id THEN None ELSE asked[id]]
    /\ UNCHANGED <<given, dir, rows, live, tor>>

-----------------------------------------------------------------------------
Init ==
    /\ given \in Cases /\ budget = given.budget
    /\ dir = [f \in Drops |-> "absent"] /\ seen = {}
    /\ rows = [id \in Ids |-> None] /\ live = given.live
    /\ follow = [remap |-> {}, rebind |-> FALSE]
    /\ queue = {} /\ job = NoJob /\ light = NoLight /\ api = NoApi
    /\ tor = [t \in Torrents |-> Gone]
    /\ asked = [id \in Ids |-> None]

ImportSteps == \E f \in Drops : Watch(f) \/ ImportStart(f)
Background  == \/ ImportTorrent \/ ImportMagnet \/ ImportReject \/ Place
               \/ Bind \/ BindEnd \/ \E id \in Ids : BindStart(id)
               \/ RemapLook \/ RemapForget \/ RemapPlan \/ RemapWrite \/ RemapStamp \/ RemapEnd
               \/ \E platforms \in SUBSET Platforms : RemapStart(platforms)
Resolving   == ResolveAdd \/ ResolveRun \/ ResolveRecord \/ ResolveFiles \/ ResolveStop \/ ResolveUnwant \/ ResolveStore
Requests    == AskQueued \/ RemoveTorrent \/ RemoveRow
FollowUp    == Rebind \/ \E p \in Platforms : RemapQueued(p)
World ==
    \/ \E f \in Drops : Drop(f)
    \/ \E id \in Ids : Toggle(id) \/ Remove(id) \/ (\E c \in given.asks : Ask(id, c)) \/ \E i \in Files : Judge(id, i)
    \/ \E new \in given.loads : Load(new)
    \/ \E t \in Torrents : Metadata(t)
    \/ Crash

Next == ImportSteps \/ Background \/ Resolving \/ (\E id \in Ids : ResolveStart(id)) \/ Requests \/ FollowUp \/ World

Spec == Init /\ [][Next]_vars

\* Lanes run, the watcher polls, every resolving source gets its turn, requests and follow-ups end.
Fairness ==
    /\ WF_vars(ImportSteps) /\ WF_vars(Background) /\ WF_vars(Resolving) /\ WF_vars(Requests) /\ WF_vars(FollowUp)
    /\ \A id \in Ids : SF_vars(ResolveStart(id))

FairSpec == Spec /\ Fairness

-----------------------------------------------------------------------------
(* Properties. *)

RowOK(row) ==
    /\ row.torrent \in Torrents /\ row.origin \in Drops
    /\ row.state \in {"resolving", "unbound", "bound", "disabled"}
    /\ row.platform \in Platforms \cup {None} /\ row.user \in BOOLEAN /\ row.pending \in Choices \cup {None}
    /\ row.list \in Torrents \cup {None} /\ row.client \in Torrents \cup {None}
    /\ row.match \in [Files -> Roms \cup {None}] /\ row.proof \subseteq Files
    /\ row.cand \subseteq Files \X Roms /\ row.bad \subseteq Files \X Roms
    /\ row.stamp = None \/ row.stamp \subseteq Roms
    /\ (row.state = "bound" => row.platform # None) /\ (row.platform # None => row.list # None)

TypeOK ==
    /\ given \in Cases /\ budget \in [Events -> Nat]
    /\ dir \in [Drops -> {"absent", "inbox", "loaded", "rejected"}] /\ seen \subseteq Drops
    /\ \A id \in Ids : Exists(id) => RowOK(rows[id])
    /\ live \subseteq Roms
    /\ job.kind \in {"none", "import", "bind", "remap"} /\ light.id \in Ids \cup {None}
    /\ asked \in [Ids -> Choices \cup {None}]

\* What a file was proved to be by its hash outlives every mapping made or planned meanwhile:
\* it goes only with its rom, its platform or its source.
ProofStands ==
    [][\A id \in Ids : Exists(id) /\ rows'[id] # None /\ rows'[id].torrent = rows[id].torrent =>
          \A i \in rows[id].proof :
             \/ i \in rows'[id].proof /\ rows'[id].match[i] = rows[id].match[i]
             \/ rows'[id].platform = None
             \/ rows[id].match[i] \notin live \/ given.on[rows[id].match[i]] # rows'[id].platform]_vars

\* Nothing automatic undoes the user's choice of a platform or of none, and a newer choice is
\* never lost to an older one: what is stored is the last choice or waits to become it.
ChoiceStands ==
    \A id \in Ids : asked[id] # None =>
        IF rows[id].pending # None THEN rows[id].pending = asked[id]
        ELSE /\ asked[id] \in Platforms => rows[id].platform = asked[id]
             /\ asked[id] = Ignore => rows[id].platform = None

\* Once users and catalogue rest, every choice is applied, every source that has a platform is
\* mapped against its live roms, and no file stays in sources/ but one that cannot be moved.  A
\* torrent that was started for its file list is stopped once the list is there and none of its
\* files stays wanted, unless the client refused to stop it or to change its selection.
Fetching(t) == tor[t].listed /\ (tor[t].running \/ tor[t].wanted)
Fresh(row) ==
    /\ row.stamp = Stamp(row.platform)
    /\ \A i \in Files \ row.proof : LET r == Match(row.list, i, row.platform) IN
            row.match[i] = r \/ (row.match[i] = None /\ <<i, r>> \in row.bad)
    /\ row.cand = {c \in Guesses(row.list, row.platform) : c[1] \notin row.proof /\ c \notin row.bad}
SourcesSettle ==
    <>[](/\ \A id \in Ids : asked[id] # None => rows[id].pending = None
         /\ \A id \in Ids : Exists(id) /\ rows[id].platform # None => Fresh(rows[id])
         /\ \A f \in Drops : dir[f] = "inbox" => budget["move"] < given.budget["move"]
         /\ budget["stop"] = given.budget["stop"] =>
                \A id \in Ids : Exists(id) /\ rows[id].client # None => ~Fetching(rows[id].client))
=============================================================================
