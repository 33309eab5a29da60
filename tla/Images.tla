------------------------------- MODULE Images -------------------------------
(***************************************************************************)
(* CHD disc images: jobs/chd.rs and db/chd.rs beside the scan, the DATs and *)
(* the recompute of Library, with the setting [scan] chd_tracks.            *)
(*                                                                         *)
(* A scan reads an image's header only.  Its rows are its tracks, when they *)
(* are cached, or one row that says why they are not known: "pending" waits *)
(* for the chd_tracks job, which shares the heavy lane with the scan.  The  *)
(* job decodes an image when a DAT has its layout, for minutes, while the   *)
(* file, the DATs and the setting change.                                   *)
(*                                                                         *)
(* Each image has a directory and one track, as long as its file, and is    *)
(* known by its header and its size; a copy under way has both before its   *)
(* data.  Rows are in the order of the images, and the job reads one at a   *)
(* time.  A scan that was killed walks all the images again.                *)
(***************************************************************************)
EXTENDS Library

CONSTANTS
    Images,     \* 1 .. n
    Broken,     \* what cannot be decoded: the checksums do not match
    Headless,   \* what is no CHD at all
    HeadOf,     \* whose header each content has, that of another in an unfinished copy
    Shelf       \* the images of each case

ASSUME ImagesAssumption ==
    /\ Images \subseteq Nat \ {0} /\ Broken \subseteq Contents /\ Headless \subseteq Contents
    /\ HeadOf \in [Contents -> Contents] /\ \A c \in Contents \ Broken : HeadOf[c] = c
    /\ Shelf \in [Cases -> [img : [Images -> Contents \cup {None}], on : BOOLEAN,
                            puts : SUBSET (Images \X Contents)]]

VARIABLES
    img,      \* the image files
    box,      \* the row of an image that is not identified
    tracks,   \* the row of the track of one that is
    cached,   \* chd_tracks: the images whose tracks are known
    failed,   \* chd_failures: the images that could not be identified, by mtime too
    on,       \* the setting
    apply,    \* a change of the setting still has to be applied
    walk,     \* what the running scan has left to walk, what it read and what it saw
    chd,      \* the running chd_tracks job
    queued,   \* another is queued
    late      \* history: the images given "no_layout" when a DAT had their layout

stored == <<box, tracks, cached, failed>>
images == <<img, stored, on, apply, walk, chd, queued, late>>
all    == <<vars, images>>

-----------------------------------------------------------------------------
Whys    == {"off", "pending", "no_layout", "unreadable", "failed"}

\* An image's identity, whatever else the file holds.
Id(c, n) == [head |-> HeadOf[c], size |-> n]

Box(s, why) == [size |-> s.size, mtime |-> s.mtime, why |-> why]

\* layout_known: a live title has one rom, of size n.
Alone(r)       == {q \in Live : TitleOf[q] = TitleOf[r]} = {r}
LayoutKnown(n) == \E r \in Live : Alone(r) /\ SizeOf[roms[r].sum] = n

\* classify_chd: the track of content c.
Member(c, mtime) ==
    LET r == LiveMatch(c)
    IN  [sum |-> c, mtime |-> mtime, rom |-> r,
         state |-> IF r # None /\ Alone(r) THEN "verified" ELSE "unverified"]

Waits(bs) == {i \in Images : bs[i] # None /\ bs[i].why = "pending"}
Lowest(S)  == CHOOSE i \in S : \A j \in S : i <= j

\* settle: "pending" and "off" follow the setting o, and nothing waits while it is off.
Settle(why, o) ==
    IF why \in {"pending", "off"} /\ o THEN "pending"
    ELSE IF why \in {"pending", "off", "no_layout"} /\ ~o THEN "off" ELSE why

SettleAll == [i \in Images |-> IF box[i] = None THEN None ELSE [box[i] EXCEPT !.why = Settle(@, on)]]

\* A request joins a run that is queued or held.
Queue(asked) == queued' = (queued \/ (asked /\ ~(chd # None /\ chd.held)))

\* The images P are matched again from the hashes of their tracks; that takes their other row.
RematchTracks(P) ==
    /\ tracks' = [i \in Images |-> IF i \in P THEN Member(tracks[i].sum, tracks[i].mtime) ELSE tracks[i]]
    /\ box' = [i \in Images |-> IF i \in P THEN None ELSE box[i]]

With(rs) == {i \in Images : rs[i] # None}

-----------------------------------------------------------------------------
ImagesInit ==
    /\ Init
    /\ LET s == Shelf[given]
       IN  /\ img = [i \in Images |-> IF s.img[i] = None THEN None ELSE [sum |-> s.img[i], mtime |-> 0]]
           /\ on = s.on
    /\ box = [i \in Images |-> None] /\ tracks = box /\ cached = {} /\ failed = {}
    /\ apply = FALSE /\ walk = None /\ chd = None /\ queued = FALSE /\ late = {}

\* The user puts an image of content c on the card, or over another, and takes it away.
Put(i, c) ==
    /\ Spend("put") /\ <<i, c>> \in Shelf[given].puts
    /\ img' = [img EXCEPT ![i] = [sum |-> c, mtime |-> 1 + given.budget["put"] - budget["put"]]]
    /\ UNCHANGED <<given, world, table, lanes, past, stored, on, apply, walk, chd, queued, late>>

Take(i) ==
    /\ Spend("delete") /\ img[i] # None
    /\ img' = [img EXCEPT ![i] = None]
    /\ UNCHANGED <<given, world, table, lanes, past, stored, on, apply, walk, chd, queued, late>>

\* update_settings: the setting is changed, ...
Toggle ==
    /\ Spend("toggle")
    /\ on' = ~on /\ apply' = TRUE
    /\ UNCHANGED <<given, world, table, lanes, past, img, stored, walk, chd, queued, late>>

\* ... and then applied.
Apply ==
    /\ apply
    /\ apply' = FALSE
    /\ box' = SettleAll
    /\ Queue(on /\ Waits(box') # {})
    /\ UNCHANGED <<vars, img, tracks, cached, failed, on, walk, chd, late>>

-----------------------------------------------------------------------------
(* The scan. *)

Walk0 == [left |-> With(img), now |-> None, stat |-> None, row |-> None, boxes |-> {}, members |-> {}]

WalkBegin ==
    /\ ScanBegin /\ chd = None
    /\ walk' = Walk0
    /\ UNCHANGED <<img, stored, on, apply, chd, queued, late>>

\* The next directory is listed.
WalkList ==
    /\ Runs("unit") /\ walk.now = None /\ walk.left # {}
    /\ LET i == Lowest(walk.left)
       IN  walk' = [walk EXCEPT !.left = @ \ {i}, !.now = IF img[i] = None THEN None ELSE i,
                                !.stat = IF img[i] = None THEN None
                                         ELSE [size |-> SizeOf[img[i].sum], mtime |-> img[i].mtime]]
    /\ UNCHANGED <<vars, img, stored, on, apply, chd, queued, late>>

\* Mutant: whatever was written to the file since.
FailedEver(id, mtime) == \E f \in failed : f[1] = id

\* failure: the file of identity id could not be identified as it is.
FailedBefore(id, mtime) == <<id, mtime>> \in failed

\* known_rows: what the row of image i, of stat s and content c, is to be.
NoLayoutStays(i, s) == Same(box[i], s) /\ box[i].why = "no_layout"

KnownRow(i, s, c) ==
    IF Id(c, s.size) \in cached THEN Member(HeadOf[c], s.mtime)
    ELSE Box(s, IF FailedBefore(Id(c, s.size), s.mtime) THEN "failed"
                ELSE IF NoLayoutStays(i, s) THEN "no_layout" ELSE "pending")

\* Its header is read.
WalkRead ==
    /\ Runs("unit") /\ walk.now # None /\ walk.row = None
    /\ LET i == walk.now IN
       \E c \in (IF img[i] = None THEN {} ELSE {img[i].sum}) \cup {None} :
          /\ IF c = None /\ img[i] # None THEN Spend("unread") ELSE UNCHANGED budget
          /\ walk' = [walk EXCEPT !.row = IF c = None THEN Box(walk.stat, "unreadable")
                                          ELSE IF c \in Headless THEN Box(walk.stat, "failed")
                                          ELSE KnownRow(i, walk.stat, c)]
    /\ UNCHANGED <<given, world, table, lanes, past, img, stored, on, apply, chd, queued, late>>

\* Mutant: the reason as it was read.
AsRead(why) == why

\* The reason a row is written with, by the setting as it is now.
Written(why) == Settle(why, on)

\* Image i, of size n, is given a reason: "no_layout" anew though a DAT has its layout by now?
Noted(i, why, n) ==
    IF why # "no_layout" THEN late \ {i}
    ELSE IF box[i] # None /\ box[i].why = why THEN late
    ELSE IF LayoutKnown(n) THEN late \cup {i} ELSE late \ {i}

\* The batch is written; a track whose rom was retired since it was read is matched again.
WalkStore ==
    /\ walk # None /\ walk.row # None
    /\ LET i == walk.now row == walk.row stays == row.rom \in Live \cup {None} IN
       \/ /\ "why" \in DOMAIN row
          /\ box' = [box EXCEPT ![i] = [row EXCEPT !.why = Written(@)]]
          /\ late' = Noted(i, Written(row.why), row.size)
          /\ walk' = [walk EXCEPT !.now = None, !.stat = None, !.row = None, !.boxes = @ \cup {i}]
          /\ UNCHANGED tracks
       \/ /\ "rom" \in DOMAIN row
          /\ tracks' = [tracks EXCEPT ![i] = IF stays THEN row ELSE Member(row.sum, row.mtime)]
          /\ box' = [box EXCEPT ![i] = IF stays THEN @ ELSE None]
          /\ walk' = [walk EXCEPT !.now = None, !.stat = None, !.row = None, !.members = @ \cup {i}]
          /\ UNCHANGED late
    /\ UNCHANGED <<vars, img, cached, failed, on, apply, chd, queued>>

\* The rows the walk did not see go.
WalkPrune ==
    /\ ScanPrune /\ walk.left = {} /\ walk.now = None
    /\ box' = [i \in Images |-> IF i \in walk.boxes THEN box[i] ELSE None]
    /\ tracks' = [i \in Images |-> IF i \in walk.members THEN tracks[i] ELSE None]
    /\ UNCHANGED <<img, cached, failed, on, apply, walk, chd, queued, late>>

\* The scan's end queues the job when an image waits.
WalkClear ==
    /\ ScanClear
    /\ walk' = None
    /\ Queue(given.disc /\ on /\ Waits(box) # {})
    /\ UNCHANGED <<img, stored, on, apply, chd, late>>

\* The checkpoints lie before a directory and before an image.
WalkHold   == Hold /\ walk.row = None /\ UNCHANGED images
WalkCancel == Cancel /\ walk.row = None /\ walk' = None
                 /\ UNCHANGED <<img, stored, on, apply, chd, queued, late>>

-----------------------------------------------------------------------------
(* The chd_tracks job. *)

Chd0 == [at |-> "page", held |-> FALSE, after |-> 0, skipped |-> {}, progressed |-> FALSE,
         row |-> None, image |-> None, why |-> None]

Works(at) == chd # None /\ chd.at = at /\ ~chd.held

ChdBegin ==
    /\ queued /\ chd = None /\ scan = None
    /\ queued' = FALSE /\ chd' = Chd0
    /\ UNCHANGED <<vars, img, stored, on, apply, walk, late>>

\* The next row that waits; when there is none, again from the first if an image was identified.
ChdPage ==
    /\ Works("page")
    /\ LET next == {i \in Waits(box) : i > chd.after} IN
       chd' = IF next = {}
              THEN IF chd.progressed THEN [chd EXCEPT !.after = 0, !.progressed = FALSE] ELSE None
              ELSE IF Lowest(next) \in chd.skipped THEN [chd EXCEPT !.after = Lowest(next)]
              ELSE [chd EXCEPT !.at = "row", !.row = Lowest(next), !.after = Lowest(next)]
    /\ UNCHANGED <<vars, img, stored, on, apply, walk, queued, late>>

Skipped    == [chd EXCEPT !.at = "yield", !.skipped = @ \cup {chd.row}]
Reason(w)  == [chd EXCEPT !.at = "reason", !.why = w]

\* identify: the image is opened; its tracks are cached, or no DAT has its layout, or it is
\* to be decoded.  One that cannot be read is skipped.
Opened(file) ==
    IF file = None THEN Skipped
    ELSE IF file.sum \in Headless THEN Reason("failed")
    ELSE IF Id(file.sum, SizeOf[file.sum]) \in cached THEN [chd EXCEPT !.at = "record", !.image = file]
    ELSE IF LayoutKnown(SizeOf[file.sum]) THEN [chd EXCEPT !.at = "decode", !.image = file]
    ELSE [Reason("no_layout") EXCEPT !.image = file]

ChdOpen ==
    /\ Works("row")
    /\ IF ~on THEN chd' = None /\ UNCHANGED budget
       ELSE \E file \in {img[chd.row], None} :
               /\ IF file = None /\ img[chd.row] # None THEN Spend("unread") ELSE UNCHANGED budget
               /\ chd' = Opened(file)
    /\ UNCHANGED <<given, world, table, lanes, past, img, stored, on, apply, walk, queued, late>>

\* The decode, with a checkpoint between slices.  A file that changed since it was opened
\* may still be read as it was, or as neither, or not at all.
ImageId == Id(chd.image.sum, SizeOf[chd.image.sum])

ChdDecode ==
    /\ Works("decode")
    /\ IF ~on THEN chd' = None /\ UNCHANGED <<budget, failed>>
       ELSE \/ /\ chd.image.sum \notin Broken
               /\ chd' = [chd EXCEPT !.at = "record"]
               /\ UNCHANGED <<budget, failed>>
            \/ /\ chd.image.sum \in Broken \/ img[chd.row] # chd.image
               /\ failed' = failed \cup {<<ImageId, chd.image.mtime>>}
               /\ chd' = Reason("failed")
               /\ UNCHANGED budget
            \/ /\ IF img[chd.row] = chd.image THEN Spend("unread") ELSE UNCHANGED budget
               /\ chd' = Skipped
               /\ UNCHANGED failed
    /\ UNCHANGED <<given, world, table, lanes, past, img, box, tracks, cached, on, apply, walk, queued, late>>

\* set_reason: only of a row that still waits, while the setting is on.
ChdReason ==
    /\ Works("reason")
    /\ LET i == chd.row IN
       IF on /\ i \in Waits(box)
       THEN /\ box' = [box EXCEPT ![i].why = chd.why]
            /\ late' = Noted(i, chd.why, IF chd.image = None THEN 0 ELSE SizeOf[chd.image.sum])
       ELSE UNCHANGED <<box, late>>
    /\ chd' = [chd EXCEPT !.at = "yield", !.progressed = TRUE, !.why = None, !.image = None]
    /\ UNCHANGED <<vars, img, tracks, cached, failed, on, apply, walk, queued>>

\* record: the tracks are cached and replace the row.
ChdRecord ==
    /\ Works("record")
    /\ cached' = cached \cup {ImageId}
    /\ box' = [box EXCEPT ![chd.row] = None]
    /\ tracks' = [tracks EXCEPT ![chd.row] = Member(ImageId.head, chd.image.mtime)]
    /\ chd' = [chd EXCEPT !.at = "yield", !.progressed = TRUE, !.image = None]
    /\ UNCHANGED <<vars, img, failed, on, apply, walk, queued, late>>

\* yield_lane: a scan that is queued goes first, and another run behind it.
ChdYield ==
    /\ Works("yield")
    /\ IF wanted THEN chd' = None /\ queued' = (queued \/ Waits(box) # {})
       ELSE chd' = [chd EXCEPT !.at = "page", !.row = None] /\ UNCHANGED queued
    /\ UNCHANGED <<vars, img, stored, on, apply, walk, late>>

ChdHold ==
    /\ Spend("hold") /\ chd # None /\ chd.at \in {"row", "decode"} /\ ~chd.held
    /\ chd' = [chd EXCEPT !.held = TRUE]
    /\ UNCHANGED <<given, world, table, lanes, past, img, stored, on, apply, walk, queued, late>>

ChdFree ==
    /\ chd # None /\ chd.held
    /\ chd' = [chd EXCEPT !.held = FALSE]
    /\ UNCHANGED <<vars, img, stored, on, apply, walk, queued, late>>

ChdCancel ==
    /\ Spend("cancel") /\ chd # None /\ chd.at \in {"row", "decode"}
    /\ chd' = None
    /\ UNCHANGED <<given, world, table, lanes, past, img, stored, on, apply, walk, queued, late>>

-----------------------------------------------------------------------------
(* The DATs. *)

\* Tracks of a rom that list v gives other hashes lose it.
LoadImages(v) ==
    /\ Load(v)
    /\ tracks' = [i \in Images |->
           IF tracks[i] # None /\ tracks[i].rom # None /\ v[tracks[i].rom] \notin {None, roms[tracks[i].rom].sum}
           THEN [tracks[i] EXCEPT !.rom = None, !.state = "unverified"] ELSE tracks[i]]
    /\ UNCHANGED <<img, box, cached, failed, on, apply, walk, chd, queued, late>>

RematchRetired ==
    /\ RecomputeRetired
    /\ RematchTracks({i \in With(tracks) : tracks[i].rom \notin Live \cup {None}})
    /\ UNCHANGED <<img, cached, failed, on, apply, walk, chd, queued, late>>

RematchUnmatched ==
    /\ RecomputeUnmatched
    /\ RematchTracks({i \in With(tracks) : tracks[i].rom = None})
    /\ UNCHANGED <<img, cached, failed, on, apply, walk, chd, queued, late>>

\* queue_for, after a recompute: nothing while the setting is off, ...
RecheckBegin ==
    /\ bg # None /\ bg.job = "recomputed"
    /\ bg' = IF on THEN [bg EXCEPT !.job = "recheck"] ELSE None
    /\ late' = IF on THEN late ELSE late \cup {i \in With(box) : box[i].why = "no_layout"}
    /\ UNCHANGED <<given, budget, world, table, wanted, scan, again, told, moving, past>>
    /\ UNCHANGED <<img, stored, on, apply, walk, chd, queued>>

\* Mutant: what a DAT had no layout for is not looked at again.
LeftAlone(bs) == bs

\* recheck_layouts: what no DAT had the layout of waits again.
Rechecked(bs) ==
    [i \in Images |-> IF bs[i] # None /\ bs[i].why = "no_layout" THEN [bs[i] EXCEPT !.why = "pending"] ELSE bs[i]]

\* ... else the images are looked at again.
Recheck ==
    /\ bg # None /\ bg.job = "recheck"
    /\ bg' = None
    /\ box' = Rechecked(box)
    /\ late' = {}
    /\ Queue(Waits(box') # {})
    /\ UNCHANGED <<given, budget, world, table, wanted, scan, again, told, moving, past>>
    /\ UNCHANGED <<img, tracks, cached, failed, on, apply, walk, chd>>

\* A start applies the setting before the lanes open.
KillImages ==
    /\ Kill
    /\ UNCHANGED on
    /\ box' = SettleAll
    /\ queued' = (queued \/ chd # None \/ (on /\ Waits(box') # {}))
    /\ apply' = FALSE /\ walk' = None /\ chd' = None
    /\ UNCHANGED <<img, tracks, cached, failed, late>>

-----------------------------------------------------------------------------
Walks  == WalkBegin \/ WalkList \/ WalkRead \/ WalkStore \/ WalkPrune \/ WalkClear
Decodes == ChdPage \/ ChdOpen \/ ChdDecode \/ ChdReason \/ ChdRecord \/ ChdYield

ImagesNext ==
    \/ Apart /\ UNCHANGED images
    \/ \E i \in Images : Take(i) \/ \E c \in Contents : Put(i, c)
    \/ Toggle \/ Apply
    \/ WalkBegin \/ WalkList \/ WalkRead \/ WalkStore \/ WalkPrune \/ WalkClear \/ WalkHold \/ WalkCancel
    \/ ChdBegin \/ ChdPage \/ ChdOpen \/ ChdDecode \/ ChdReason \/ ChdRecord \/ ChdYield
    \/ ChdHold \/ ChdFree \/ ChdCancel
    \/ \E v \in given.loads : LoadImages(v)
    \/ RematchRetired \/ RematchUnmatched \/ RecheckBegin \/ Recheck
    \/ KillImages

ImagesSpec == ImagesInit /\ [][ImagesNext]_all

\* As in Library; the heavy lane takes its jobs in the order they were queued, so that
\* neither the scan nor the decoding is passed over for ever.
ScanSteps  == ScanUnit \/ ScanFile \/ ScanFlush \/ ScanTrack \/ ScanJudge \/ ScanUnitEnd
MatchSteps == RematchRetired \/ RematchUnmatched \/ RecheckBegin \/ Recheck
ImagesFair ==
    /\ ImagesSpec
    /\ WF_all(Walks \/ (ScanSteps /\ UNCHANGED images)) /\ SF_all(WalkBegin) /\ SF_all(ChdBegin)
    /\ WF_all(Decodes) /\ WF_all(ChdFree) /\ WF_all(Free /\ UNCHANGED images) /\ WF_all(Apply)
    /\ WF_all(MatchSteps \/ (RecomputeBegin /\ UNCHANGED images))
    /\ WF_all((FollowLoad \/ RenameRow) /\ UNCHANGED images)
    /\ WF_all(FollowRemove /\ UNCHANGED images) /\ WF_all(RequestScan /\ UNCHANGED images)

-----------------------------------------------------------------------------
(* Properties. *)

BoxOK(b)   == b.size \in Nat /\ b.mtime \in Nat /\ b.why \in Whys
TrackOK(t) == t.sum \in Contents /\ t.mtime \in Nat /\ t.rom \in Roms \cup {None} /\ t.state \in States

ImagesTypeOK ==
    /\ TypeOK
    /\ \A i \in Images : /\ img[i] = None \/ img[i] \in File
                         /\ box[i] = None \/ BoxOK(box[i])
                         /\ tracks[i] = None \/ TrackOK(tracks[i])
    /\ cached \subseteq [head : Contents, size : Nat] /\ failed \subseteq [head : Contents, size : Nat] \X Nat
    /\ {on, apply, queued} \subseteq BOOLEAN /\ late \subseteq Images
    /\ (walk = None) = (scan = None)
    /\ chd = None \/ /\ scan = None
                     /\ chd.at \in {"page", "row", "decode", "reason", "record", "yield"}
                     /\ chd.held \in BOOLEAN /\ chd.skipped \subseteq Images

\* A change of the setting never leaves an image waiting while it is off, nor "off" while it is
\* on, whatever scan, decode, recompute or start was under way (docs/ARCHITECTURE.md "CHD
\* identification").
WaitsAsSet ==
    ~apply => \A i \in With(box) :
        IF on THEN box[i].why # "off" ELSE box[i].why \notin {"pending", "no_layout"}

\* Whatever files, DATs, changes of the setting, cores, cancels and kills came in between, once
\* they cease every image that was decoded, or is the same as one, has its tracks with the live
\* rom, every other one the reason that is true now, none waits, and nothing is left of those
\* that are gone; a copy that failed half way is decoded when it is complete.  Left out are
\* those given "no_layout" when a DAT had it.
ImageIsRight(i) ==
    LET s == [size |-> SizeOf[img[i].sum], mtime |-> img[i].mtime]
        id == Id(img[i].sum, s.size)
        why == IF img[i].sum \in Headless \/ <<id, s.mtime>> \in failed THEN "failed"
               ELSE IF on THEN "no_layout" ELSE "off"
    IN  IF id \in cached THEN box[i] = None /\ tracks[i] = Member(id.head, s.mtime)
        ELSE /\ tracks[i] = None /\ box[i] = Box(s, why)
             /\ why = "no_layout" => i \in late \/ ~LayoutKnown(s.size)

ImagesSettle ==
    <>[]\A i \in Images : IF img[i] = None THEN box[i] = None /\ tracks[i] = None ELSE ImageIsRight(i)
=============================================================================
