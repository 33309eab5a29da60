------------------------------ MODULE Catalog ------------------------------
(***************************************************************************)
(* What the catalogue lists: db/dats.rs, db/dat_stage.rs, db/titles/mod.rs, *)
(* db/titles/recompute.rs, jobs/dat_import/{mod,stream,recompute}.rs and    *)
(* the handlers that remove a DAT, bind one, want a title and change the    *)
(* preferences, for one platform.                                          *)
(*                                                                         *)
(* A DAT is a version of a family of DATs; the newest version of a family   *)
(* is current, and its games are the live titles.  A title keeps its row,   *)
(* and so its id and whether it is wanted, from version to version.  Titles *)
(* form groups - a game and its clones, or the titles with one group key -  *)
(* and a title that two DATs list with the same roms joins the group of the *)
(* larger DAT.  Each group has one pick, by preferences the user may change *)
(* at any time.                                                            *)
(*                                                                         *)
(* Imports, binds and recomputes run one at a time, on the background lane. *)
(* An import on the card decides what the DAT is to be, parses, decides     *)
(* again and stores; one in RAM holds the writer from before it decides.    *)
(* The handlers write in between.  A step is one transaction.              *)
(***************************************************************************)
EXTENDS Selection, SequencesExt

CONSTANTS
    Dats,       \* DATs, each a name and a version
    Family,     \* the family of each, under each rule for family keys
    Order,      \* the numbers of its version, or 0 without digits
    Tabled,     \* the DATs whose name the platform table knows
    Files,      \* files that hold one
    DatOf,      \* the DAT in each
    Games,      \* the games in each, in order
    Game,       \* what a game is: its name, group key, cloneof, roms and variant
    Preferences, Default,
    None,       \* no DAT, job, title or roms without a hash
    Cases       \* the files at hand, and what may come in between

Events == {"drop", "remove", "bind", "want", "unwant", "prefer", "leave", "pause", "kill", "upgrade", "reject"}
Rules  == DOMAIN Family

ASSUME CatalogAssumption ==
    /\ 1 \in Rules /\ Rules \subseteq Nat
    /\ \A r \in Rules : Family[r] \in [Dats -> STRING]
    /\ Order \in [Dats -> Nat] /\ Tabled \subseteq Dats
    /\ DatOf \in [Files -> Dats] /\ Games \in [Files -> Seq(DOMAIN Game)]
    \* A file's games are those it stores: put_title stores a repeated name over the earlier.
    /\ \A f \in Files : \A i, k \in DOMAIN Games[f] :
          Game[Games[f][i]].name = Game[Games[f][k]].name => i = k
    /\ \A g \in DOMAIN Game : Game[g].place \in Int /\ Game[g].revision \in Int
    /\ \A p \in Preferences : p.regions \in Seq(STRING)
    /\ Default \in Preferences
    /\ None \notin Dats /\ None \notin Preferences /\ None \notin Files
    /\ Cases \subseteq [files : SUBSET Files, budget : [Events -> Nat]]

VARIABLES
    given,   \* the case
    budget,  \* what may still come in between
    rule,    \* the rule for family keys
    dats,    \* the dat_versions table
    loads,   \* its order by loaded_at: pairs of which the first was loaded no later
    titles,  \* the titles table, by id
    queue,   \* the background lane
    job,     \* its running job
    saved,   \* the preferences in the database
    prefs,   \* those in effect
    change,  \* the settings request: what it still has to do
    removal, \* the removal of a DAT still has to queue its follow-up
    missed,  \* history: a follow-up was lost or joined a recompute that cannot see it
    listed   \* history: the file whose games a DAT's last load stored, or None

tables   == <<rule, dats, loads, titles>>
lane     == <<queue, job>>
settings == <<saved, prefs, change>>
past     == <<missed, listed>>
vars     == <<given, budget, tables, lane, settings, removal, past>>

\* A row of dat_versions: `number` is its id.
Version == [number : Nat, file : Files, bound : BOOLEAN, super : Dats \cup {None},
            retired : BOOLEAN, count : Nat]
Title   == [dat : Dats, game : DOMAIN Game, live : BOOLEAN, parent : Nat, root : Nat,
            pick : BOOLEAN, wanted : BOOLEAN, inferred : BOOLEAN]
Task    == [kind : {"import", "bind"}, file : Files] \cup {[kind |-> "recompute"]}
\* Where an import is: it has decided, or stored; where a recompute is: it runs, or waits
\* at a checkpoint.
Work    == [task : Task, prefs : Preferences, ram : BOOLEAN, staged : BOOLEAN,
            at : {"decided", "stored", "running", "paused"}]

ASSUME NoneAssumption == None \notin Version /\ None \notin Work

Recompute == [kind |-> "recompute"]

Spend(e) == budget[e] > 0 /\ budget' = [budget EXCEPT ![e] = @ - 1]

-----------------------------------------------------------------------------
(* Versions. *)

Known      == {d \in Dats : dats[d] # None}
Fam(d)     == Family[rule][d]
Latest(S)  == CHOOSE d \in S : \A e \in S : <<e, d>> \in loads
IsLive(vs, d) == vs[d] # None /\ ~vs[d].retired /\ vs[d].super = None

\* A version without digits cannot be compared; the one loaded later is newer.
NotOlder(d, e) == Order[d] = 0 \/ Order[e] = 0 \/ Order[d] >= Order[e]

\* The platform a DAT is loaded for: bound by request or by the table, else that of its
\* family, else the one it has.
Inherits(d, bind) ==
    bind \/ d \in Tabled \/ \E e \in Known : Fam(e) = Fam(d) /\ dats[e].bound /\ ~dats[e].retired
Bound(d, bind) == Inherits(d, bind) \/ (dats[d] # None /\ dats[d].bound)

Rivals(d, bound) ==
    {e \in Known \ {d} : Fam(e) = Fam(d) /\ dats[e].bound = bound /\ IsLive(dats, e)}

IsCurrent(d, bind) ==
    LET rivals == Rivals(d, Bound(d, bind))
    IN  rivals = {} \/ NotOlder(d, Latest(rivals))

\* The table with DAT d loaded: the row it leaves, and those it supersedes.
Upserted(d, bind, f) ==
    LET bound   == Bound(d, bind)
        rivals  == Rivals(d, bound)
        current == IsCurrent(d, bind)
        number  == IF dats[d] # None THEN dats[d].number ELSE Cardinality(Known) + 1
    IN  [e \in Dats |->
            IF e = d
            THEN [number |-> number, file |-> f, bound |-> bound, retired |-> FALSE, count |-> Len(Games[f]),
                  super |-> IF current THEN None ELSE Latest(rivals)]
            ELSE IF current /\ e \in Known /\ Fam(e) = Fam(d) /\ dats[e].bound = bound /\ dats[e].super = None
                 THEN [dats[e] EXCEPT !.super = d]
                 ELSE dats[e]]

-----------------------------------------------------------------------------
(* Titles. *)

NameOf(t) == Game[t.game].name
Row(d, g, id) ==
    [dat |-> d, game |-> g, live |-> TRUE, parent |-> id, root |-> id,
     pick |-> FALSE, wanted |-> FALSE, inferred |-> FALSE]

\* Mutant: a game takes only a row of its own version.
RowOfVersion(ts, d, name) ==
    LET own == {i \in DOMAIN ts : ts[i].dat = d /\ NameOf(ts[i]) = name}
    IN  IF own # {} THEN CHOOSE i \in own : TRUE ELSE 0

\* The row a game of DAT d is stored in: one of its family with its name, d's own first,
\* then that of the version loaded last; 0 without one.
RowOf(ts, d, name) ==
    LET own == {i \in DOMAIN ts : ts[i].dat = d /\ NameOf(ts[i]) = name}
        kin == {i \in DOMAIN ts : Fam(ts[i].dat) = Fam(d) /\ NameOf(ts[i]) = name}
    IN  IF own # {} THEN CHOOSE i \in own : TRUE
        ELSE IF kin # {} THEN CHOOSE i \in kin : ts[i].dat = Latest({ts[k].dat : k \in kin})
        ELSE 0

\* The games of file f that have no row yet, and the id of the row that is new for the k-th game.
New(ts, d, f)      == {k \in DOMAIN Games[f] : RowOf(ts, d, Game[Games[f][k]].name) = 0}
NewId(ts, d, f, k) == Len(ts) + Cardinality({j \in New(ts, d, f) : j <= k})

\* begin_load and dat_stage::apply: the live titles of d retire, and each game of file f
\* takes its row or a new one.
Applied(ts, d, f) ==
    LET taken(i) == {g \in ToSet(Games[f]) : RowOf(ts, d, Game[g].name) = i}
        fresh(i) == CHOOSE k \in New(ts, d, f) : NewId(ts, d, f, k) = i
    IN  [i \in 1..(Len(ts) + Cardinality(New(ts, d, f))) |->
            IF i \notin DOMAIN ts THEN Row(d, Games[f][fresh(i)], i)
            ELSE IF taken(i) # {}
            THEN [ts[i] EXCEPT !.dat = d, !.game = CHOOSE g \in taken(i) : TRUE, !.live = TRUE]
            ELSE IF ts[i].dat = d THEN [ts[i] EXCEPT !.live = FALSE] ELSE ts[i]]

\* link_parents: with cloneof a title's parent is the game it names, else itself; a DAT
\* without leaves the parents to the recompute.  The group follows the parent.
Linked(ts, d, f) ==
    LET named(i) == {k \in DOMAIN ts : ts[k].dat = d /\ NameOf(ts[k]) = Game[ts[i].game].cloneof}
        parent(i) == IF named(i) = {} THEN i ELSE CHOOSE k \in named(i) : TRUE
    IN  [i \in DOMAIN ts |->
            IF ts[i].dat # d THEN ts[i]
            ELSE IF \E g \in ToSet(Games[f]) : Game[g].cloneof # None
                 THEN [ts[i] EXCEPT !.inferred = FALSE, !.parent = parent(i), !.root = parent(i)]
                 ELSE [ts[i] EXCEPT !.inferred = TRUE]]

\* Mutant: only what the version itself no longer lists is retired.
AbsentOwn(ts, vs, d) ==
    [i \in DOMAIN ts |->
        IF ts[i].dat = d /\ ~ts[i].live THEN [ts[i] EXCEPT !.pick = FALSE] ELSE ts[i]]

\* retire_absent: titles on other versions of the family retire, and what retired is no pick.
Absent(ts, vs, d) ==
    [i \in DOMAIN ts |->
        IF ts[i].dat # d /\ ts[i].live /\ Fam(ts[i].dat) = Fam(d) /\ vs[ts[i].dat].bound
        THEN [ts[i] EXCEPT !.live = FALSE, !.pick = FALSE]
        ELSE IF ts[i].dat = d /\ ~ts[i].live THEN [ts[i] EXCEPT !.pick = FALSE] ELSE ts[i]]

-----------------------------------------------------------------------------
(* Groups and picks: recompute_platform. *)

Variants(ts, S) ==
    {[id |-> i, name |-> Game[ts[i].game].place, regions |-> Game[ts[i].game].regions,
      languages |-> Game[ts[i].game].languages, revision |-> Game[ts[i].game].revision,
      flags |-> Game[ts[i].game].flags, bad |-> Game[ts[i].game].bad] : i \in S}

Live(ts) == {i \in DOMAIN ts : ts[i].live}

\* Parents that no DAT names are elected again by group key, under the default preferences.
Parents(ts) ==
    LET free == {i \in Live(ts) : ts[i].inferred}
        kin(i) == {k \in free : Game[ts[k].game].key = Game[ts[i].game].key}
    IN  [i \in DOMAIN ts |->
            IF i \in free THEN Elected(Variants(ts, kin(i)), Default) ELSE ts[i].parent]

\* The current versions bound to the platform, and the largest, the first by id among equals.
Current(vs)  == {d \in Dats : IsLive(vs, d) /\ vs[d].bound}
Largest(vs)  ==
    CHOOSE d \in Current(vs) : \A e \in Current(vs) :
        vs[d].count > vs[e].count \/ (vs[d].count = vs[e].count /\ vs[d].number <= vs[e].number)
Earliest(vs, S) == CHOOSE d \in S : \A e \in S : vs[d].number <= vs[e].number
Least(S)     == CHOOSE i \in S : \A k \in S : i <= k

\* The live titles of DATs ds whose roms are those of title i.
Twins(ts, ds, i) ==
    {k \in Live(ts) : /\ ts[k].dat \in ds /\ Game[ts[i].game].sum # None
                      /\ Game[ts[k].game].sum = Game[ts[i].game].sum}

\* shared_links: where each title is to go, its DAT's own group or that of a twin in the
\* largest version, else in the earliest of the others.
Targets(ts, vs, parents) ==
    LET main  == Largest(vs)
        rest  == Current(vs) \ {main}
        among(i)  == {ts[k].dat : k \in Twins(ts, rest, i)}
        anchor(i) == IF Twins(ts, {main}, i) # {} THEN Twins(ts, {main}, i)
                     ELSE Twins(ts, {Earliest(vs, among(i))}, i)
        links(i)  == /\ ts[i].live /\ ts[i].dat \in rest /\ Game[ts[i].game].sum # None
                     /\ (Twins(ts, {main}, i) # {} \/ ts[i].dat # Earliest(vs, among(i)))
    IN  [i \in DOMAIN ts |-> IF links(i) THEN parents[Least(anchor(i))] ELSE parents[i]]

\* Mutant: a group keeps a root that left it.
RerootedNot(ts, target) == target

\* reroot: a group whose root went to another takes its lowest live member, else its lowest.
Rerooted(ts, target) ==
    LET stranded(r) == target[r] # r
        left(r) == {i \in DOMAIN ts : i # r /\ target[i] = r}
        heir(r) == IF left(r) \cap Live(ts) # {} THEN Least(left(r) \cap Live(ts)) ELSE Least(left(r))
    IN  [i \in DOMAIN ts |->
            IF target[i] # i /\ stranded(target[i]) THEN heir(target[i]) ELSE target[i]]

Roots(ts, vs, parents) ==
    IF Cardinality(Current(vs)) <= 1 THEN parents ELSE Rerooted(ts, Targets(ts, vs, parents))

\* Every title with its parent, its group and whether it is the pick of it under p.
Recomputed(ts, vs, p) ==
    LET parents == Parents(ts)
        roots   == Roots(ts, vs, parents)
        picks   == UNION {{v.id : v \in Select(Variants(ts, {k \in Live(ts) : roots[k] = r}), p)} :
                             r \in {roots[i] : i \in Live(ts)}}
    IN  [i \in DOMAIN ts |->
            [ts[i] EXCEPT !.parent = parents[i], !.root = roots[i], !.pick = i \in picks]]

\* The titles once DAT d is loaded from file f.
Loaded(ts, vs, d, f, p) ==
    Recomputed(Absent(Linked(Applied(ts, d, f), d, f), vs, d), vs, p)

-----------------------------------------------------------------------------
(* The background lane. *)

\* Queue a recompute: one that is queued, or that waits at a checkpoint, stands for it.
Joins == Recompute \in queue \/ (job # None /\ job.task = Recompute /\ job.at = "paused")
Submit ==
    /\ queue' = IF Joins THEN queue ELSE queue \cup {Recompute}
    /\ missed' = (missed \/ (Recompute \notin queue /\ Joins /\ job.prefs # prefs))

\* A file comes into dats/; the watcher queues its import.
Drop(f) ==
    /\ f \in given.files /\ [kind |-> "import", file |-> f] \notin queue
    /\ Spend("drop")
    /\ queue' = queue \cup {[kind |-> "import", file |-> f]}
    /\ UNCHANGED <<given, tables, job, settings, removal, past>>

\* An import is taken: it keeps the preferences of now, and on the card decides whether
\* the titles are to be staged.  A bind of what is not current ends here.
StartImport(t, ram) ==
    /\ job = None /\ t \in queue /\ t.kind \in {"import", "bind"}
    /\ queue' = queue \ {t}
    /\ LET d == DatOf[t.file]
           bind == t.kind = "bind"
           work == [task |-> t, prefs |-> prefs, ram |-> ram, at |-> "decided",
                    staged |-> Bound(d, bind) /\ IsCurrent(d, bind)]
       IN  job' = IF bind /\ ~ram /\ ~IsCurrent(d, bind) THEN None ELSE work
    /\ UNCHANGED <<given, budget, tables, settings, removal, past>>

\* A file that does not parse, or a stop, leaves the catalogue alone.
Reject ==
    /\ job # None /\ job.at = "decided" /\ Spend("reject")
    /\ job' = None
    /\ UNCHANGED <<given, tables, queue, settings, removal, past>>

\* The one transaction that stores the version and, when it is current and was staged, its
\* titles.  In RAM the writer is held, so the decision to stage is made here.
Store ==
    /\ job # None /\ job.at = "decided"
    /\ LET f == job.task.file
           d == DatOf[f]
           bind == job.task.kind = "bind"
           current == IsCurrent(d, bind)
           bound == Bound(d, bind)
           vs == Upserted(d, bind, f)
           fills == current /\ bound /\ (job.ram \/ job.staged)
       IN  IF bind /\ ~current
           THEN job' = None /\ UNCHANGED <<tables, past>>
           ELSE /\ dats' = vs
                /\ loads' = {l \in loads : d \notin {l[1], l[2]}} \cup ((Known \cup {d}) \X {d})
                /\ titles' = IF fills THEN Loaded(titles, vs, d, f, job.prefs)
                             ELSE IF job.ram /\ bound THEN Recomputed(titles, vs, job.prefs) ELSE titles
                /\ listed' = [listed EXCEPT ![d] = IF fills THEN f ELSE None]
                /\ missed' = (missed /\ ~((fills \/ (job.ram /\ bound)) /\ job.prefs = prefs))
                /\ job' = [job EXCEPT !.at = "stored"]
                /\ UNCHANGED rule
    /\ UNCHANGED <<given, budget, queue, settings, removal>>

\* An import that stored ends: one on the card queues the recompute of its platform.
FinishImport ==
    /\ job # None /\ job.at = "stored"
    /\ job' = None
    /\ IF ~job.ram /\ dats[DatOf[job.task.file]].bound
       THEN queue' = queue \cup {Recompute}
       ELSE queue' = queue
    /\ UNCHANGED <<given, budget, tables, settings, removal, past>>

StartRecompute ==
    /\ job = None /\ Recompute \in queue
    /\ queue' = queue \ {Recompute}
    /\ job' = [task |-> Recompute, prefs |-> prefs, ram |-> FALSE, staged |-> FALSE, at |-> "running"]
    /\ UNCHANGED <<given, budget, tables, settings, removal, past>>

\* Held before a transaction, a recompute waits with its row paused.
Pause ==
    /\ job # None /\ job.at = "running" /\ Spend("pause")
    /\ job' = [job EXCEPT !.at = "paused"]
    /\ UNCHANGED <<given, tables, queue, settings, removal, past>>
Resume ==
    /\ job # None /\ job.at = "paused"
    /\ job' = [job EXCEPT !.at = "running"]
    /\ UNCHANGED <<given, budget, tables, queue, settings, removal, past>>

\* The recompute's last transaction; the passes before it match files.
Pick ==
    /\ job # None /\ job.at = "running"
    /\ titles' = Recomputed(titles, dats, job.prefs)
    /\ missed' = (missed /\ job.prefs # prefs)
    /\ job' = None
    /\ UNCHANGED <<given, budget, rule, dats, loads, queue, settings, removal, listed>>

-----------------------------------------------------------------------------
(* The handlers. *)

\* Mutant: a removal is not followed up.
RemoveDatAlone(d) ==
    /\ dats[d] # None /\ ~dats[d].retired /\ Spend("remove")
    /\ dats' = [dats EXCEPT ![d].retired = TRUE]
    /\ titles' = [i \in DOMAIN titles |->
                    IF titles[i].dat = d
                    THEN [titles[i] EXCEPT !.live = FALSE, !.pick = FALSE, !.wanted = FALSE]
                    ELSE titles[i]]
    /\ UNCHANGED <<given, rule, loads, lane, settings, removal, past>>

\* DELETE /dats/{id}; a task of its own queues the recompute.
RemoveDat(d) ==
    /\ dats[d] # None /\ ~dats[d].retired /\ Spend("remove")
    /\ dats' = [dats EXCEPT ![d].retired = TRUE]
    /\ titles' = [i \in DOMAIN titles |->
                    IF titles[i].dat = d
                    THEN [titles[i] EXCEPT !.live = FALSE, !.pick = FALSE, !.wanted = FALSE]
                    ELSE titles[i]]
    /\ removal' = (removal \/ dats[d].bound)
    /\ UNCHANGED <<given, rule, loads, lane, settings, past>>

QueueRemoval ==
    /\ removal /\ removal' = FALSE
    /\ Submit
    /\ UNCHANGED <<given, budget, tables, job, settings, listed>>

\* POST /platforms/{id}/dat: the version is checked, then its job is queued with the file
\* the row names.
BindDat(d) ==
    /\ dats[d] # None /\ ~dats[d].bound /\ ~dats[d].retired
    /\ [kind |-> "bind", file |-> dats[d].file] \notin queue /\ Spend("bind")
    /\ queue' = queue \cup {[kind |-> "bind", file |-> dats[d].file]}
    /\ UNCHANGED <<given, tables, job, settings, removal, past>>

Want(i) ==
    /\ titles[i].live /\ "bios" \notin Game[titles[i].game].flags
    /\ ~titles[i].wanted /\ Spend("want")
    /\ titles' = [titles EXCEPT ![i].wanted = TRUE]
    /\ UNCHANGED <<given, rule, dats, loads, lane, settings, removal, past>>

\* DELETE of a want: every variant of the group.
Unwant(r) ==
    /\ \E i \in DOMAIN titles : titles[i].root = r /\ titles[i].wanted
    /\ Spend("unwant")
    /\ titles' = [i \in DOMAIN titles |->
                    IF titles[i].root = r THEN [titles[i] EXCEPT !.wanted = FALSE] ELSE titles[i]]
    /\ UNCHANGED <<given, rule, dats, loads, lane, settings, removal, past>>

\* PUT /system/settings: stored, then made effective, then the recompute is queued.
SavePrefs(p) ==
    /\ change = "none" /\ Spend("prefer")
    /\ saved' = p /\ change' = "stored"
    /\ UNCHANGED <<given, tables, lane, prefs, removal, past>>
ApplyPrefs ==
    /\ change = "stored"
    /\ change' = IF saved # prefs THEN "effective" ELSE "none"
    /\ prefs' = saved
    /\ UNCHANGED <<given, budget, tables, lane, saved, removal, past>>
QueuePrefs ==
    /\ change = "effective" /\ change' = "none"
    /\ UNCHANGED <<prefs, saved>>
    /\ Submit
    /\ UNCHANGED <<given, budget, tables, job, removal, listed>>

\* The caller hangs up, and the request ends where it is.
Leave ==
    /\ change # "none" /\ Spend("leave")
    /\ change' = "none" /\ missed' = TRUE
    /\ UNCHANGED <<given, tables, lane, saved, prefs, removal, listed>>

-----------------------------------------------------------------------------
(* Restarts. *)

\* Mutant: the version loaded last stays, whatever its number.
WinnerLatest(vs, S) == Latest(S)

\* resolve_families: of several current versions of a family, one stays: the last loaded
\* that is not older than any other, else the last loaded.
Winner(vs, S) ==
    LET newest == {d \in S : \A e \in S : NotOlder(d, e)}
    IN  IF newest # {} THEN Latest(newest) ELSE Latest(S)
Equals(r, d) ==
    {e \in Known : Family[r][e] = Family[r][d] /\ dats[e].bound = dats[d].bound /\ IsLive(dats, e)}
Losers(r) == {d \in Known : IsLive(dats, d) /\ d # Winner(dats, Equals(r, d))}

\* mistarr stops at any point and starts again, perhaps a newer one with another rule for
\* family keys.  An import runs again while its file is there; a bind is not revived.
Restart(r) ==
    /\ r = rule \/ r = rule + 1
    /\ IF r = rule THEN Spend("kill") ELSE r \in Rules /\ Spend("upgrade")
    /\ rule' = r
    /\ LET lost == Losers(r)
           platform == \E d \in lost : dats[d].bound
           again == IF job = None THEN {{}}
                    ELSE IF job.task.kind = "bind" THEN {{}}
                    ELSE IF job.at = "stored" THEN {{}, {job.task}} ELSE {{job.task}}
       IN  /\ dats' = [d \in Dats |->
                         IF d \in lost THEN [dats[d] EXCEPT !.super = Winner(dats, Equals(r, d))] ELSE dats[d]]
           /\ titles' = [i \in DOMAIN titles |->
                           IF titles[i].dat \in lost
                           THEN [titles[i] EXCEPT !.live = FALSE, !.pick = FALSE] ELSE titles[i]]
           /\ \E tasks \in again :
                queue' = {t \in queue : t.kind # "bind"} \cup tasks
                         \cup (IF platform THEN {Recompute} ELSE {})
    /\ job' = None
    /\ prefs' = saved /\ change' = "none" /\ removal' = FALSE
    /\ missed' = (missed \/ change # "none" \/ removal \/ saved # prefs)
    /\ UNCHANGED <<given, loads, saved, listed>>

-----------------------------------------------------------------------------
Init ==
    /\ given \in Cases /\ budget = given.budget /\ rule = 1
    /\ dats = [d \in Dats |-> None] /\ loads = {} /\ titles = <<>>
    /\ queue = {} /\ job = None
    /\ saved = Default /\ prefs = Default /\ change = "none"
    /\ removal = FALSE /\ missed = FALSE /\ listed = [d \in Dats |-> None]

Next ==
    \/ \E f \in Files : Drop(f)
    \/ \E t \in queue, ram \in BOOLEAN : StartImport(t, ram)
    \/ Reject \/ Store \/ FinishImport
    \/ StartRecompute \/ Pause \/ Resume \/ Pick
    \/ \E d \in Dats : RemoveDat(d) \/ BindDat(d)
    \/ QueueRemoval
    \/ \E i \in DOMAIN titles : Want(i) \/ Unwant(i)
    \/ \E p \in Preferences : SavePrefs(p)
    \/ ApplyPrefs \/ QueuePrefs \/ Leave
    \/ \E r \in Rules : Restart(r)

Spec == Init /\ [][Next]_vars

-----------------------------------------------------------------------------
(* Properties. *)

TypeOK ==
    /\ given \in Cases /\ budget \in [Events -> Nat] /\ rule \in Rules
    /\ dats \in [Dats -> Version \cup {None}] /\ loads \subseteq Known \X Known /\ titles \in Seq(Title)
    /\ queue \subseteq Task /\ job \in Work \cup {None}
    /\ saved \in Preferences /\ prefs \in Preferences /\ change \in {"none", "stored", "effective"}
    /\ removal \in BOOLEAN /\ missed \in BOOLEAN /\ listed \in [Dats -> Files \cup {None}]

\* What is listed is what the current DATs list.  A family has one current version on the
\* platform; every live title is a game of a current version's file, and the file a current
\* version was last filled from has each of its games live, once.  (decide, upsert_version,
\* begin_load, retire_absent, retire, resolve_families; dats.rs:157-620)
ListIsCurrent ==
    /\ \A d, e \in Current(dats) : Fam(d) = Fam(e) => d = e
    /\ \A i \in Live(titles) :
         LET d == titles[i].dat
         IN  d \in Current(dats) /\ listed[d] # None /\ titles[i].game \in ToSet(Games[listed[d]])
    /\ \A d \in Current(dats) : listed[d] # None =>
         \A g \in ToSet(Games[listed[d]]) :
             Cardinality({i \in Live(titles) : titles[i].dat = d /\ titles[i].game = g}) = 1

\* Nothing is left to do that picks again.
Quiet   == job = None /\ Recompute \notin queue /\ change = "none" /\ ~removal
Group(i) == {k \in Live(titles) : titles[k].root = titles[i].root}
\* Group G has one pick, the best title the preferences show, unless they hide them all.
PickedBest(G) ==
    LET shown == {v \in Variants(titles, G) : ~Hidden(v, prefs)}
        picks == {v \in Variants(titles, G) : titles[v.id].pick}
    IN  /\ picks \subseteq shown /\ Cardinality(picks) = (IF shown = {} THEN 0 ELSE 1)
        /\ \A v \in picks, w \in shown : ~Better(w, v, prefs)
PicksRight ==
    /\ \A i \in DOMAIN titles : titles[i].pick => titles[i].live
    /\ \A i \in Live(titles) : PickedBest(Group(i))

\* Once nothing is left to do, every group has the pick the preferences in effect call for,
\* whatever loads, removals and changes came in what order, unless a follow-up was lost with
\* its request or with the process, or joined a held recompute.  (recompute_platform,
\* update_settings, catalogue_changed; recompute.rs:146, app.rs:355, follow_up.rs:19)
PicksFollow == Quiet /\ ~missed => PicksRight

\* Once nothing is left to do, the root of a live title is in its own group, unless its DAT
\* has it a clone of a clone; titles of one DAT that no other DAT lists share a group exactly
\* when they share a parent, so two groups of one DAT never merge; and what the largest DAT
\* lists too is grouped with it there.
\* (link_shared_titles, reroot; recompute.rs:237-390)
GroupsHold ==
    Quiet /\ ~missed =>
        LET twins(i) == Twins(titles, Current(dats) \ {titles[i].dat}, i)
            main(i)  == {k \in twins(i) : titles[k].dat = Largest(dats)}
        IN  \A i \in Live(titles) :
              /\ titles[titles[i].parent].parent = titles[i].parent =>
                    titles[titles[i].root].root = titles[i].root
              /\ \A k \in Live(titles) :
                    (titles[k].dat = titles[i].dat /\ twins(i) = {} /\ twins(k) = {}) =>
                        (titles[k].root = titles[i].root <=> titles[k].parent = titles[i].parent)
              /\ main(i) # {} => \E k \in main(i) : titles[k].root = titles[i].root

\* A version stops being current only for one that is not older, or because it is removed.
\* (not_older, upsert_version, resolve_families; dats.rs:213, 273, 570)
NewestWins ==
    [][\A d \in Current(dats) \ Current(dats') :
           dats'[d].retired \/ \E e \in Current(dats') : NotOlder(e, d) /\ Fam(e)' = Fam(d)']_vars

\* A title keeps its row while its family lists its name: a live title is not replaced by
\* another row of the same name, before families are joined, and stays wanted until the user
\* says otherwise or removes its DAT.  (put_title, upsert_title; titles/mod.rs:251, 361)
KeepsWants ==
    [][\A i \in Live(titles) :
        /\ rule' = 1 /\ ~titles'[i].live =>
             \A k \in Live(titles') : NameOf(titles'[k]) # NameOf(titles[i]) \/ Fam(titles'[k].dat) # Fam(titles[i].dat)
        /\ titles[i].wanted /\ ~titles'[i].wanted =>
             dats'[titles[i].dat].retired \/ (UNCHANGED dats /\ \A k \in Group(i) : ~titles'[k].wanted)]_vars
=============================================================================
