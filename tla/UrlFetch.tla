------------------------------ MODULE UrlFetch ------------------------------
(***************************************************************************)
(* Fetching a URL into dats/ or sources/: http/fetch.rs, jobs/url_fetch.rs, *)
(* url_fetch/spool.rs, url_fetch/content.rs and app.rs clean_leftovers,     *)
(* with the folder its files end in.                                       *)
(*                                                                         *)
(* POST answers with a token, which DELETE cancels.  The token is open      *)
(* before the job has an id, and is tied to the job by the request when the *)
(* job is recorded in time and by the job itself when it runs.  A fetch     *)
(* spools the body into RAM or onto the card, checks it by rewriting it     *)
(* into a second file, looks once more whether it was cancelled, and places *)
(* the result as an upload would.  Fetches run one by one, and a restart    *)
(* does not run them again.                                                *)
(***************************************************************************)
EXTENDS DropFolder

CONSTANTS
    Tokens,    \* fetches, in the order of their tokens
    Body,      \* what each fetch brings: a content
    Kind       \* whether that is a DAT or a torrent

ASSUME FetchAssumption ==
    /\ Tokens \subseteq Owners /\ Body \in [Tokens -> Contents]
    /\ \A t, u \in Tokens : Body[t] = Body[u] => t = u
    /\ Nothing \notin {"body", "out"} \X {"ram", "card"}
    /\ Kind \in [Tokens -> {"dat", "torrent"}]

VARIABLES
    slot,    \* what the token stands for: a job still to come, cancelled or not, or its job
    asks,    \* requests that have not tied the token to its job yet
    fetch,   \* where each fetch is
    stop,    \* fetches whose job was told to stop
    fetchLane,    \* recorded fetches, first come first
    path,    \* the file a fetch owns: the body or its rewrite, in RAM or on the card
    temps,   \* the temporary files there are
    heard,   \* history: fetches cancelled, with the answer 204, before their last look
    stray    \* history: fetches whose file moved to the card under a failing write

fetchVars == <<slot, asks, fetch, stop, fetchLane, path, temps, heard, stray>>
allVars == <<folderVars, fetchVars>>

At(t, at) == up /\ fetch[t] = at
To(t, at) == fetch' = [fetch EXCEPT ![t] = at]
FolderStays == UNCHANGED folderVars
BudgetOnly  == UNCHANGED <<chosen, files, up, watch, rows, import, owner, fate, putback, robbed>>

\* The steps after which a fetch looks at its cancel once more.
Early == {"queued", "bound", "connect", "create", "receive", "check", "rewrite", "look", "copy"}

-----------------------------------------------------------------------------
(* The token. *)

Post(t) ==
    /\ up /\ slot[t] = "none" /\ Happens("post")
    /\ slot' = [slot EXCEPT ![t] = "waiting"] /\ asks' = asks \cup {t} /\ To(t, "issued")
    /\ BudgetOnly /\ UNCHANGED <<stop, fetchLane, path, temps, heard, stray>>

\* The row is written and the job handed to its lane; or not, and the token is closed.
Record(t) ==
    /\ At(t, "issued")
    /\ \/ /\ To(t, "queued") /\ fetchLane' = Append(fetchLane, t) /\ UNCHANGED <<spare, slot, asks>>
       \/ /\ Happens("refuse") /\ To(t, "over") /\ slot' = [slot EXCEPT ![t] = "closed"]
          /\ asks' = asks \ {t} /\ UNCHANGED fetchLane
    /\ BudgetOnly /\ UNCHANGED <<stop, path, temps, heard, stray>>

\* Mutant: a cancel asked for before the job was known is forgotten.
TieOnly(t) ==
    /\ slot' = IF slot[t] = "closed" THEN slot ELSE [slot EXCEPT ![t] = "job"]
    /\ UNCHANGED stop

\* Fetches::bind: an open token is its job's from now on, and an earlier cancel is passed on.
Tie(t) ==
    /\ slot' = IF slot[t] = "closed" THEN slot ELSE [slot EXCEPT ![t] = "job"]
    /\ stop' = IF slot[t] = "cancelled" THEN stop \cup {t} ELSE stop

\* The request ties the token, or has answered already without the job's id.
RequestEnds(t) ==
    /\ up /\ t \in asks /\ asks' = asks \ {t}
    /\ (fetch[t] # "issued" /\ Tie(t)) \/ UNCHANGED <<slot, stop>>
    /\ FolderStays /\ UNCHANGED <<fetch, fetchLane, path, temps, heard, stray>>

\* DELETE answers 204 when the token is open; the job is told, now or once it is known.
Cancel(t) ==
    /\ up /\ slot[t] \notin {"none", "closed"} /\ Happens("cancel")
    /\ IF slot[t] = "job" THEN stop' = stop \cup {t} /\ UNCHANGED slot
                          ELSE slot' = [slot EXCEPT ![t] = "cancelled"] /\ UNCHANGED stop
    /\ heard' = IF fetch[t] \in Early \cup {"issued"} THEN heard \cup {t} ELSE heard
    /\ BudgetOnly /\ UNCHANGED <<asks, fetch, fetchLane, path, temps, stray>>

-----------------------------------------------------------------------------
(* A fetch's run, from its start to its last look. *)

Of(t)     == {f \in temps : f[1] = t}
Own(t)    == IF path[t] = Nothing THEN {} ELSE {<<t, path[t][1], path[t][2]>>}
Rewrite(t) == {f \in Of(t) : f[2] = "out"} \ Own(t)

\* It ends: its file goes, its cancel and its token are closed.
Over(t, left) ==
    /\ To(t, "over") /\ temps' = left \ Own(t) /\ path' = [path EXCEPT ![t] = Nothing]
    /\ slot' = [slot EXCEPT ![t] = "closed"] /\ stop' = stop \ {t} /\ fetchLane' = Tail(fetchLane)
    /\ UNCHANGED <<asks, heard>>
OverNow(t) == Over(t, temps \ Rewrite(t))

Goes(t, at) == To(t, at) /\ UNCHANGED <<slot, asks, stop, fetchLane, path, temps, heard>>

\* One told to stop while it waited never starts; one that starts ties its token.
FetchStart(t) ==
    /\ At(t, "queued") /\ Head(fetchLane) = t
    /\ IF t \in stop THEN OverNow(t) ELSE Goes(t, "bound")
    /\ FolderStays /\ UNCHANGED stray
FetchBinds(t) ==
    /\ At(t, "bound") /\ Tie(t) /\ To(t, "connect")
    /\ FolderStays /\ UNCHANGED <<asks, fetchLane, path, temps, heard, stray>>

\* It looks while it waits for the server and as the rewrite reads on; whatever it waited for
\* may be there first.
Stops(t) ==
    /\ fetch[t] \in {"connect", "receive", "rewrite"} /\ up /\ t \in stop
    /\ OverNow(t) /\ FolderStays /\ UNCHANGED stray
\* The server fails or refuses, or what comes is too large or nothing it accepts.
Refused(t) ==
    /\ fetch[t] \in {"connect", "receive", "check", "rewrite"} /\ up
    /\ Happens("server")
    /\ OverNow(t) /\ BudgetOnly /\ UNCHANGED stray
Connects(t) == At(t, "connect") /\ Goes(t, "create") /\ FolderStays /\ UNCHANGED stray

\* In RAM when memory allows, else on the card when it has room.
Create(t) ==
    /\ At(t, "create")
    /\ \/ \E place \in {"ram", "card"} :
            /\ temps' = temps \cup {<<t, "body", place>>} /\ path' = [path EXCEPT ![t] = <<"body", place>>]
            /\ To(t, "receive") /\ UNCHANGED <<spare, slot, asks, stop, fetchLane, heard>>
       \/ Happens("full") /\ OverNow(t)
    /\ BudgetOnly /\ UNCHANGED stray

\* A file in RAM moves to the card when memory runs short.  Its copy may not fit or fail: the
\* copy goes then, and the fetch fails.
ToCard(f) == <<f[1], f[2], "card">>
Moved(f)  == (temps \ {f}) \cup {ToCard(f)}

\* Mutant: what was copied stays on the card.
MigrateLeaves(t, f) == Happens("full") /\ Over(t, (temps \ Rewrite(t)) \cup {ToCard(f)})

MigrateFails(t, f) == Happens("full") /\ OverNow(t)

ReceiveMigrates(t) ==
    /\ At(t, "receive") /\ path[t] = <<"body", "ram">> /\ BudgetOnly
    /\ \E f \in Own(t) :
       \/ /\ Happens("memory") /\ temps' = Moved(f) /\ path' = [path EXCEPT ![t] = <<"body", "card">>]
          /\ UNCHANGED <<slot, asks, fetch, stop, fetchLane, heard, stray>>
       \/ MigrateFails(t, f) /\ UNCHANGED stray
       \* Moved, but the write after it fails: the fetch still names the file in RAM.
       \/ Happens("full") /\ Over(t, Moved(f)) /\ stray' = stray \cup {t}

\* On the card the room is looked at as often.
CardFull(t) ==
    /\ up /\ fetch[t] \in {"receive", "rewrite"} /\ path[t][2] = "card" /\ Happens("full")
    /\ OverNow(t) /\ BudgetOnly /\ UNCHANGED stray

Received(t) == At(t, "receive") /\ Goes(t, "check") /\ FolderStays /\ UNCHANGED stray

\* A torrent is parsed whole; a DAT is rewritten, in RAM only while its body is there.
Check(t) ==
    /\ At(t, "check")
    /\ \/ Kind[t] = "torrent" /\ Goes(t, "look")
       \/ /\ Kind[t] = "dat" /\ To(t, "rewrite")
          /\ \E place \in {"ram", "card"} :
                /\ path[t][2] = "card" => place = "card"
                /\ temps' = temps \cup {<<t, "out", place>>}
          /\ UNCHANGED <<slot, asks, stop, fetchLane, path, heard>>
    /\ FolderStays /\ UNCHANGED stray

RewriteMigrates(t) ==
    /\ At(t, "rewrite") /\ BudgetOnly
    /\ \E f \in Rewrite(t) :
       /\ f[3] = "ram"
       /\ \/ /\ Happens("memory") /\ temps' = Moved(f)
             /\ UNCHANGED <<slot, asks, fetch, stop, fetchLane, path, heard>>
          \/ MigrateFails(t, f)
    /\ UNCHANGED stray

\* The rewrite alone is kept.
Rewritten(t) ==
    /\ At(t, "rewrite") /\ To(t, "look")
    /\ \E f \in Rewrite(t) : path' = [path EXCEPT ![t] = <<"out", f[3]>>]
    /\ temps' = temps \ Own(t)
    /\ FolderStays /\ UNCHANGED <<slot, asks, stop, fetchLane, heard, stray>>

-----------------------------------------------------------------------------
(* Placing. *)

\* The file is the part now, and is placed as an upload's is.
PartDone(t) ==
    /\ To(t, "placing") /\ temps' = temps \ Own(t) /\ path' = [path EXCEPT ![t] = Nothing]
    /\ parts' = parts \cup {t}
    /\ owner' = [owner EXCEPT ![t] = [Idle EXCEPT !.at = "claim", !.what = Body[t]]]
    /\ UNCHANGED <<slot, asks, stop, fetchLane, heard>>

\* The last look.  Then a torrent goes to sources/; a DAT becomes the part of its placing, by a
\* rename on the card or by a copy.
Looks(t) ==
    /\ At(t, "look")
    /\ \/ t \in stop /\ OverNow(t) /\ UNCHANGED <<parts, owner>>
       \/ /\ t \notin stop /\ Kind[t] = "torrent" /\ To(t, "source")
          /\ temps' = temps \ Own(t) /\ path' = [path EXCEPT ![t] = Nothing]
          /\ UNCHANGED <<parts, owner, slot, asks, stop, fetchLane, heard>>
       \/ t \notin stop /\ Kind[t] = "dat" /\ path[t][2] = "card" /\ PartDone(t)
       \/ /\ t \notin stop /\ Kind[t] = "dat" /\ Goes(t, "copy")
          /\ parts' = parts \cup {t} /\ UNCHANGED owner
    /\ UNCHANGED <<chosen, spare, folder, loaded, rejected, up, watch, rows, import, fate, putback, robbed, stray>>

\* The copy looks before each write; stopped or failed, neither file is left.
Copies(t) ==
    /\ At(t, "copy")
    /\ \/ t \notin stop /\ PartDone(t) /\ UNCHANGED spare
       \/ /\ (t \in stop /\ UNCHANGED spare) \/ Happens("full")
          /\ OverNow(t) /\ parts' = parts \ {t} /\ UNCHANGED owner
    /\ UNCHANGED <<chosen, folder, loaded, rejected, up, watch, rows, import, fate, putback, robbed, stray>>

\* The fetch ends with its placing.
FetchEnds(t) ==
    /\ At(t, "placing") /\ owner[t].at = "idle"
    /\ OverNow(t) /\ FolderStays /\ UNCHANGED stray

\* In sources/, or refused there as a repeat.
PlacesSource(t) ==
    /\ At(t, "source") /\ OverNow(t)
    /\ \/ fate' = [fate EXCEPT ![Body[t]] = "gone"] /\ UNCHANGED spare
       \/ Happens("io") /\ UNCHANGED fate
    /\ UNCHANGED <<chosen, files, up, watch, rows, import, owner, putback, robbed, stray>>

-----------------------------------------------------------------------------
(* Kills and starts. *)

\* Temporary files stay, those in RAM unless the power went; no fetch is run again.
Kill ==
    /\ up /\ Happens("crash") /\ KillFolder
    /\ slot' = [t \in Tokens |-> IF slot[t] = "none" THEN "none" ELSE "closed"]
    /\ fetch' = [t \in Tokens |-> IF fetch[t] = "idle" THEN "idle" ELSE "over"]
    /\ asks' = {} /\ stop' = {} /\ fetchLane' = <<>> /\ path' = [t \in Tokens |-> Nothing]
    /\ temps' \in {temps, {f \in temps : f[3] = "card"}}
    /\ UNCHANGED <<chosen, files, rows, fate, heard, stray>>

\* A start sweeps what fetches and uploads left before anything runs.
Start ==
    /\ ~up /\ StartFolder /\ temps' = {} /\ stray' = {}
    /\ UNCHANGED <<chosen, spare, folder, loaded, rejected, watch, import, owner, fate, putback, robbed,
                   slot, asks, fetch, stop, fetchLane, path, heard>>

FetchInit ==
    /\ InitFolder({Body[t] : t \in Tokens})
    /\ slot = [t \in Tokens |-> "none"] /\ asks = {} /\ fetch = [t \in Tokens |-> "idle"]
    /\ stop = {} /\ fetchLane = <<>> /\ path = [t \in Tokens |-> Nothing] /\ temps = {}
    /\ heard = {} /\ stray = {}

Fetches(t) ==
    \/ Record(t) \/ FetchStart(t) \/ FetchBinds(t) \/ Connects(t) \/ Create(t) \/ Received(t)
    \/ Check(t) \/ Rewritten(t) \/ Looks(t) \/ Copies(t) \/ FetchEnds(t) \/ PlacesSource(t)

FetchNext ==
    \/ (FolderSteps \/ Requests(Owners \ Tokens)) /\ UNCHANGED fetchVars
    \/ \E t \in Tokens : \/ Post(t) \/ RequestEnds(t) \/ Cancel(t) \/ Fetches(t) \/ Stops(t) \/ Refused(t)
                         \/ ReceiveMigrates(t) \/ RewriteMigrates(t) \/ CardFull(t)
    \/ Kill \/ Start

FetchSpec == FetchInit /\ [][FetchNext]_allVars

\* The watcher polls, the lanes run, a request goes on once it has begun, and mistarr is started
\* again after a kill.
Fairness ==
    /\ WF_allVars((WatchPolls \/ WatchQueues) /\ UNCHANGED fetchVars)
    /\ WF_allVars(Import /\ UNCHANGED fetchVars)
    /\ \A o \in Owners : WF_allVars(Placing(o) /\ UNCHANGED fetchVars)
    /\ \A t \in Tokens : WF_allVars(Fetches(t)) /\ WF_allVars(RequestEnds(t))
    /\ WF_allVars(Start)

FetchFairSpec == FetchSpec /\ Fairness

-----------------------------------------------------------------------------
(* Properties. *)

FetchTypeOK ==
    /\ FolderTypeOK
    /\ slot \in [Tokens -> {"none", "waiting", "cancelled", "job", "closed"}] /\ asks \subseteq Tokens
    /\ fetch \in [Tokens -> Early \cup {"idle", "issued", "placing", "source", "over"}]
    /\ stop \subseteq Tokens /\ fetchLane \in Seq(Tokens)
    /\ path \in [Tokens -> ({"body", "out"} \X {"ram", "card"}) \cup {Nothing}]
    /\ temps \subseteq Tokens \X {"body", "out"} \X {"ram", "card"}
    /\ heard \subseteq Tokens /\ stray \subseteq Tokens

\* A cancel answered 204 before the fetch's last look holds: nothing of that fetch is placed,
\* whether it was asked for before the job had an id, while it waited or while it ran.
CancelHeeded == \A t \in heard : Body[t] \notin loaded \cup rejected /\ fate[Body[t]] \in {"new", "sent"}

\* While mistarr runs no temporary file outlives what it was for: a fetch has its own file, with
\* the rewrite beside it only while it is made, and a part in dats/ is of a placing under way,
\* whatever failed, moved or was killed before.  Left out are uploads whose client went and the
\* fetches that failed in the write after a move.
NothingLeft ==
    up => /\ \A t \in Tokens \ stray : Of(t) = Own(t) \cup (IF fetch[t] = "rewrite" THEN Rewrite(t) ELSE {})
          /\ \A o \in parts : owner[o].at \in {"write", "claim", "fill", "left"} \/ (o \in Tokens /\ fetch[o] = "copy")
=============================================================================
