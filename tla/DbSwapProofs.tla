----------------------------- MODULE DbSwapProofs -----------------------------
(***************************************************************************)
(* What is proved of DbSwap, for every set of writes and imports and every *)
(* bound on kills, power cuts, torn renames and failures: the types, that  *)
(* the database is served as one whole file with exactly what was stored   *)
(* (OneDatabase), that a start can recover from the card at every moment   *)
(* (AlwaysRecoverable), that reads never go back (ReadsNeverGoBack), and   *)
(* that the files implement one whole store (KeepsStore).                  *)
(*                                                                         *)
(* The invariant says what a directory may look like whatever comes (Sound,*)
(* of the card as it is and as it was synced), what the card as it is      *)
(* holds (Stored), where both agree (SameDb), and what the swap knows at   *)
(* each of its steps (Serving, Backed, Copied, Renamed).                   *)
(***************************************************************************)
EXTENDS DbSwap, SequenceTheorems, TLAPS

Live  == acked # {}

\* A file failed to be written, renamed or removed.
Erred(b) == b.errors < b.of.errors
Easy(b)  == b.errors = b.of.errors /\ b.torn + 1 >= b.of.torn

Holds(f, F) == f.whole /\ F \subseteq f.data

\* The steps of a start and of the server; the write-back and the swap are both's.
StartAt == {"look", "finish", "newsync", "fsync", "unmark", "unmarksync", "rmnew",
            "migrate", "opening"}
OpenAt  == {"idle", "card", "empty", "copy", "work", "close"}
BothAt  == {"rmwal", "mark", "marksync", "ren1", "ren1sync", "ren2", "ren2sync", "backsync",
            "backmark", "rmold", "oldsync", "rmmark", "donesync", "reopen",
            "twin", "write", "writing", "wait", "drop"}

Places ==
    /\ up \in {"down", "start", "open", "broken", "refused"}
    /\ up \in {"down", "refused"} => at = "off"
    /\ up = "start"  => at \in StartAt \cup BothAt
    /\ up = "open"   => at \in OpenAt \cup BothAt
    /\ up = "broken" => at \in {"drop", "idle"}

\* Until a database was opened, there is nothing on the card but a copy nobody takes.
Fresh ==
    ~Live =>
        /\ firm = {} /\ up \in {"down", "refused", "start"} /\ synced = dir
        /\ at \in {"off", "look", "finish", "fsync", "unmark", "rmnew", "migrate", "opening"}
        /\ DOMAIN dir \subseteq IF at \in {"off", "look", "finish"} THEN {"new"} ELSE {}
        /\ Exists("new") => ~dir["new"].whole

Firm == firm \subseteq acked /\ (Live => firm # {})

\* A directory from which no crash loses what is firm: the database is whole and the frames
\* beside it are its own; without it the marker is there, and the copy and the old file, as
\* far as they are there, are whole.  Both are there but for a rename that was torn, one is
\* but for a second or a failure.
Sound(d, A, F, b) ==
    /\ "wal" \in DOMAIN d => "db" \in DOMAIN d /\ d["wal"].gen = d["db"].gen
    /\ "db" \in DOMAIN d => Holds(d["db"], F)
    /\ A # {} /\ "db" \notin DOMAIN d =>
          /\ "marker" \in DOMAIN d
          /\ "new" \in DOMAIN d => Holds(d["new"], F)
          /\ "old" \in DOMAIN d => Holds(d["old"], F)
          /\ Easy(b) => /\ "new" \in DOMAIN d \/ "old" \in DOMAIN d
                        /\ b.torn = b.of.torn => "new" \in DOMAIN d /\ "old" \in DOMAIN d

\* What was reported as stored is in whatever file a start may take.
Stored ==
    /\ Exists("db") => acked \subseteq Seen(dir)
    /\ Live /\ ~Exists("db") => /\ Exists("new") => acked \subseteq dir["new"].data
                                /\ Exists("old") => acked \subseteq dir["old"].data

\* The steps at which the database's name may not have been synced.
Unsynced == {"off", "look", "finish", "newsync", "fsync", "ren1sync", "ren2sync", "backsync"}
SameDb ==
    at \notin Unsynced =>
        /\ "db" \in DOMAIN dir <=> "db" \in DOMAIN synced
        /\ "db" \in DOMAIN dir => synced["db"] = dir["db"]

\* The swap before its first rename, between the two, after them, and on the way back.
Before  == {"rmwal", "mark", "marksync", "ren1"}
Between == {"ren1sync", "ren2"}
After   == {"ren2sync", "rmold", "oldsync", "rmmark", "donesync"}
Back    == {"backsync", "backmark", "reopen"}
Writing == {"writing", "wait", "close"}
Done    == at \in After \/ (at = "reopen" /\ ~failed)
Undone  == at \in Back /\ failed

\* The file that is served, or was until the swap began, holds exactly what was stored.
Serving ==
    /\ up = "open" /\ at \in OpenAt \cup {"twin", "write", "writing", "wait", "drop"} \cup Before =>
          Exists("db") /\ Seen(dir) = acked
    /\ up = "open" /\ Undone /\ Exists("db") => Seen(dir) = acked
    /\ up = "open" /\ at \in Between => dir["old"].data = acked

\* On the way back a file operation has failed, if the database did not come back.
Backed ==
    /\ at \in {"backsync", "backmark"} => failed
    /\ at \in Back \cup {"drop"} /\ ~Exists("db") => Erred(budget)

\* The copy has what was stored, and the file beside the database is the copy.
Copied ==
    /\ at \in {"work", "write"} \cup Writing \cup Before \cup Between \/ Done => acked \subseteq copy
    /\ at \in Writing \cup Before \cup Between \cup After => ~failed
    /\ at \in Writing \cup Before \cup Between => Exists("new") /\ dir["new"].data = copy
    /\ at \in {"wait", "close"} \cup Before \cup Between => dir["new"].whole

\* Which names there are at each step, and that the new file is the copy.
Renamed ==
    /\ at \in {"twin", "write", "writing", "wait"} \cup Before \/ Done => Exists("db")
    /\ at \in Before \cup Between \/ Done => ~Exists("wal")
    /\ up = "start" /\ at \in {"twin", "write", "writing", "wait"} => ~Exists("wal")
    /\ at \in {"mark", "marksync", "ren1"} => ~Exists("old")
    /\ at \in {"marksync", "ren1"} \cup Between => Exists("marker")
    /\ at \in Between => ~Exists("db") /\ Exists("old")
    /\ Done => dir["db"].data = copy

\* A read saw what was stored, and a start has no reader.
Viewed ==
    /\ up = "open" => view \subseteq acked
    /\ up \in {"down", "refused", "start"} => view = {}

\* An import that may yet be sent to the card is one.
Tasked ==
    /\ at \in {"empty", "copy", "work", "card"} => job \in Imports
    /\ up = "open" /\ round = 1 /\ at \in BothAt \cup {"close"} => job \in Imports

DirOK(d) == DOMAIN d \subseteq Name /\ \A n \in DOMAIN d : d[n] \in File

BudgetOK ==
    /\ budget \in [crashes : Nat, torn : Nat, errors : Nat, of : [crashes : Nat, torn : Nat, errors : Nat]]
    /\ budget.of \in Limits
    /\ budget.crashes <= budget.of.crashes /\ budget.torn <= budget.of.torn
    /\ budget.errors <= budget.of.errors

Local ==
    /\ swapping \in BOOLEAN /\ failed \in BOOLEAN /\ reading \in BOOLEAN
    /\ copy \in SUBSET Items /\ round \in {1, 2} /\ job \in Imports \cup {"none"}
    /\ view \in SUBSET Items /\ acked \in SUBSET Items

Typed == DirOK(dir) /\ DirOK(synced) /\ BudgetOK /\ Local
Card  == Firm /\ Sound(dir, acked, firm, budget) /\ Sound(synced, acked, firm, budget) /\ Stored
Shape == Places /\ Serving /\ Backed /\ Copied /\ Renamed /\ Viewed /\ Tasked
IInv  == Typed /\ Card /\ Shape /\ Fresh /\ SameDb

-----------------------------------------------------------------------------
(* Directories *)

LEMMA WithIs ==
    ASSUME NEW d, NEW n, NEW f
    PROVE  /\ DOMAIN With(d, n, f) = DOMAIN d \cup {n} /\ With(d, n, f)[n] = f
           /\ \A m \in DOMAIN d : m # n => With(d, n, f)[m] = d[m]
BY DEF With

LEMMA WithoutIs ==
    ASSUME NEW d, NEW S
    PROVE  /\ DOMAIN Without(d, S) = DOMAIN d \ S
           /\ \A m \in DOMAIN d \ S : Without(d, S)[m] = d[m]
BY DEF Without, Restrict

LEMMA MovedIs ==
    ASSUME NEW d, NEW a, NEW b, a # b
    PROVE  /\ DOMAIN Moved(d, a, b) = (DOMAIN d \ {a}) \cup {b} /\ Moved(d, a, b)[b] = d[a]
           /\ \A m \in DOMAIN d : m # a /\ m # b => Moved(d, a, b)[m] = d[m]
BY DEF Moved, With, Without, Restrict

LEMMA WithOK ==
    ASSUME NEW d, DirOK(d), NEW n \in Name, NEW f \in File
    PROVE  DirOK(With(d, n, f))
<1>1. DOMAIN With(d, n, f) = DOMAIN d \cup {n} /\ With(d, n, f)[n] = f
  BY DEF With
<1>2. \A m \in DOMAIN d : m # n => With(d, n, f)[m] = d[m]
  BY DEF With
<1> QED BY <1>1, <1>2 DEF DirOK

LEMMA WithoutOK ==
    ASSUME NEW d, DirOK(d), NEW S
    PROVE  DirOK(Without(d, S))
<1>1. DOMAIN Without(d, S) = DOMAIN d \ S
  BY WithoutIs
<1>2. \A m \in DOMAIN d \ S : Without(d, S)[m] = d[m]
  BY WithoutIs
<1> QED BY <1>1, <1>2 DEF DirOK

LEMMA MovedOK ==
    ASSUME NEW d, DirOK(d), NEW a, NEW b \in Name, a # b, a \in DOMAIN d
    PROVE  DirOK(Moved(d, a, b))
<1>1. DOMAIN Moved(d, a, b) = (DOMAIN d \ {a}) \cup {b} /\ Moved(d, a, b)[b] = d[a]
  BY DEF Moved, With, Without, Restrict
<1>2. \A m \in DOMAIN d : m # a /\ m # b => Moved(d, a, b)[m] = d[m]
  BY DEF Moved, With, Without, Restrict
<1> QED BY <1>1, <1>2 DEF DirOK

LEMMA FilesOK ==
    /\ Marker \in File
    /\ \A g \in Nat, D \in SUBSET Items :
          /\ Pages(g, D) \in File
          /\ [Pages(g, D) EXCEPT !.whole = FALSE] \in File
    /\ \A g \in Nat, l \in Seq(Items) : Frames(g, l) \in File
    /\ \A f \in File : [f EXCEPT !.whole = TRUE] \in File
<1>0. <<>> \in Seq(Items) /\ {} \in SUBSET Items
  OBVIOUS
<1>1. Marker \in File
  BY <1>0 DEF Marker, File
<1>2. ASSUME NEW g \in Nat, NEW D \in SUBSET Items
      PROVE  Pages(g, D) \in File /\ [Pages(g, D) EXCEPT !.whole = FALSE] \in File
  <2>1. Pages(g, D) \in File
    BY <1>0 DEF Pages, File
  <2> QED BY <2>1 DEF File
<1>3. \A g \in Nat, l \in Seq(Items) : Frames(g, l) \in File
  BY <1>0 DEF Frames, File
<1>4. \A f \in File : [f EXCEPT !.whole = TRUE] \in File
  BY DEF File
<1> QED BY <1>1, <1>2, <1>3, <1>4

LEMMA LogOK ==
    ASSUME NEW d, DirOK(d)
    PROVE  Log(d) \in Seq(Items) /\ Range(Log(d)) \subseteq Items
<1>1. Log(d) \in Seq(Items)
  BY DEF Log, DirOK, File
<1> QED BY <1>1, RangeOfSeq

LEMMA SeenOK ==
    ASSUME NEW d, DirOK(d), "db" \in DOMAIN d
    PROVE  Seen(d) \subseteq Items /\ d["db"].data \subseteq Seen(d) /\ d["db"].gen \in Nat
BY LogOK DEF Seen, DirOK, File

\* Without frames, a database shows its pages.
LEMMA SeenPages ==
    ASSUME NEW d, "wal" \notin DOMAIN d \/ d["wal"].log = <<>>
    PROVE  Log(d) = <<>> /\ Seen(d) = d["db"].data
<1>1. Log(d) = <<>>
  BY DEF Log
<1>2. Range(<<>>) = {}
  BY DEF Range
<1> QED BY <1>1, <1>2 DEF Seen

LEMMA RangeAppend ==
    ASSUME NEW l \in Seq(Items), NEW i \in Items
    PROVE  Append(l, i) \in Seq(Items) /\ Range(Append(l, i)) = Range(l) \cup {i}
<1>1. /\ Append(l, i) \in Seq(Items) /\ Len(Append(l, i)) = Len(l) + 1
      /\ \A k \in 1 .. Len(l) : Append(l, i)[k] = l[k]
      /\ Append(l, i)[Len(l) + 1] = i
  BY AppendProperties
<1>2. Len(l) \in Nat /\ DOMAIN l = 1 .. Len(l) /\ DOMAIN Append(l, i) = 1 .. Len(l) + 1
  BY <1>1, LenProperties
<1> QED BY <1>1, <1>2 DEF Range

\* What a directory's Seen depends on.
LEMMA SeenSame ==
    ASSUME NEW d, NEW e, e["db"] = d["db"], "wal" \in DOMAIN d <=> "wal" \in DOMAIN e,
           "wal" \in DOMAIN d => e["wal"] = d["wal"]
    PROVE  Log(e) = Log(d) /\ Seen(e) = Seen(d)
BY DEF Log, Seen

LEMMA NotMixed ==
    ASSUME Sound(dir, acked, firm, budget)
    PROVE  ~Mixed /\ Opened(dir) = dir
BY DEF Sound, Mixed, Opened, Exists

-----------------------------------------------------------------------------
(* Sound directories *)

\* One with the database.
LEMMA SoundWith ==
    ASSUME NEW d, NEW A, NEW F, NEW b, "db" \in DOMAIN d, Holds(d["db"], F),
           "wal" \in DOMAIN d => d["wal"].gen = d["db"].gen
    PROVE  Sound(d, A, F, b)
BY DEF Sound

\* One stays sound when nothing is spent that counts.
LEMMA SoundStays ==
    ASSUME NEW d, NEW A, NEW F, NEW b, NEW B, NEW c, Sound(d, A, F, b), B # {} => A # {},
           Easy(c) => Easy(b) /\ (c.torn = c.of.torn => b.torn = b.of.torn)
    PROVE  Sound(d, B, F, c)
BY DEF Sound

-----------------------------------------------------------------------------
(* Steps that leave the card as it is *)

\* What a step may do to the budget: nothing, or spend of it.
Spends ==
    /\ BudgetOK'
    /\ Easy(budget') => Easy(budget) /\ (budget'.torn = budget'.of.torn => budget.torn = budget.of.torn)
    /\ Erred(budget) => Erred(budget')

LEMMA Spending ==
    ASSUME BudgetOK,
           \/ Works
           \/ Errs
           \/ budget.crashes > 0 /\ budget' = [budget EXCEPT !.crashes = @ - 1]
    PROVE  Spends /\ (Errs => Erred(budget'))
<1>1. CASE Works
  BY <1>1 DEF Works, Spends, BudgetOK, Easy, Erred, Errs
<1>2. CASE Errs
  BY <1>2 DEF Errs, Spends, BudgetOK, Easy, Erred
<1>3. CASE budget.crashes > 0 /\ budget' = [budget EXCEPT !.crashes = @ - 1]
  BY <1>3 DEF Spends, BudgetOK, Easy, Erred, Errs
<1> QED BY <1>1, <1>2, <1>3

\* Only before the first opening nothing was ever stored.
LEMMA LiveOnce ==
    ASSUME IInv,
           \/ Exists("db")
           \/ up \in {"open", "broken"}
           \/ at \notin {"off", "look", "finish", "fsync", "unmark", "rmnew", "migrate", "opening"}
    PROVE  Live
BY DEF IInv, Fresh, Exists

LEMMA CardStays ==
    ASSUME IInv, Spends, UNCHANGED cardVars, UNCHANGED history
    PROVE  Card' /\ DirOK(dir)' /\ DirOK(synced)' /\ BudgetOK'
<1>1. dir' = dir /\ synced' = synced /\ acked' = acked /\ firm' = firm
  BY DEF cardVars, history
<1>2. Sound(dir, acked, firm, budget') /\ Sound(synced, acked, firm, budget')
  BY SoundStays DEF IInv, Card, Spends
<1> QED BY <1>1, <1>2 DEF IInv, Typed, Card, Firm, Stored, Live, Exists, Spends

\* The vocabulary of the steps, and the parts of the invariant that are about them.
USE DEF Live, Exists, Go, StartAt, OpenAt, BothAt, Before, Between, After, Back, Writing, Done,
        Undone, Unsynced,
        Shape, Places, Serving, Backed, Copied, Renamed, Viewed, Tasked, Fresh, SameDb

LEMMA StartStep ==
    ASSUME IInv, Start
    PROVE  IInv'
<1>1. Spends /\ (Errs => Erred(budget'))
  BY Spending DEF Start, Works, IInv, Typed
<1>2. Card' /\ DirOK(dir)' /\ DirOK(synced)' /\ BudgetOK'
  BY <1>1, CardStays DEF Start, startKeeps, readVars, cardVars, history
<1>3. Shape' /\ Local' /\ Fresh' /\ SameDb'
  BY <1>1, LiveOnce DEF Start, startKeeps, readVars, cardVars, history, Works, Errs, Spends,
     IInv, Typed, Local
<1> QED BY <1>2, <1>3 DEF IInv, Typed

LEMMA LookStep ==
    ASSUME IInv, Look
    PROVE  IInv'
<1>1. Spends /\ (Errs => Erred(budget'))
  BY Spending DEF Look, Works, IInv, Typed
<1>2. Card' /\ DirOK(dir)' /\ DirOK(synced)' /\ BudgetOK'
  BY <1>1, CardStays DEF Look, startKeeps, readVars, cardVars, history
<1>3. Local'
  BY DEF Look, SwapFiles, startKeeps, readVars, history, IInv, Typed, Local
<1>4. Shape' /\ Fresh' /\ SameDb'
  BY <1>1, LiveOnce DEF Look, startKeeps, readVars, cardVars, history, Works, Errs, Spends,
     IInv, Typed
<1> QED BY <1>2, <1>3, <1>4 DEF IInv, Typed

LEMMA FinishStopsStep ==
    ASSUME IInv, FinishStops
    PROVE  IInv'
<1>1. Spends /\ (Errs => Erred(budget'))
  BY Spending DEF FinishStops, Works, IInv, Typed
<1>2. Card' /\ DirOK(dir)' /\ DirOK(synced)' /\ BudgetOK'
  BY <1>1, CardStays DEF FinishStops, Refuse, startKeeps, readVars, cardVars, history
<1>3. Shape' /\ Local' /\ Fresh' /\ SameDb'
  BY <1>1, LiveOnce DEF FinishStops, Refuse, startKeeps, readVars, cardVars, history, Works,
     Errs, Spends, IInv, Typed, Local
<1> QED BY <1>2, <1>3 DEF IInv, Typed

LEMMA FinishFailsStep ==
    ASSUME IInv, FinishFails
    PROVE  IInv'
<1>1. Spends /\ (Errs => Erred(budget'))
  BY Spending DEF FinishFails, Works, IInv, Typed
<1>2. Card' /\ DirOK(dir)' /\ DirOK(synced)' /\ BudgetOK'
  BY <1>1, CardStays DEF FinishFails, Refuse, startKeeps, readVars, cardVars, history
<1>3. Shape' /\ Local' /\ Fresh' /\ SameDb'
  BY <1>1, LiveOnce DEF FinishFails, Refuse, startKeeps, readVars, cardVars, history, Works,
     Errs, Spends, IInv, Typed, Local
<1> QED BY <1>2, <1>3 DEF IInv, Typed

LEMMA MigrateLeftStep ==
    ASSUME IInv, MigrateLeft
    PROVE  IInv'
<1>1. Spends /\ (Errs => Erred(budget'))
  BY Spending DEF MigrateLeft, Works, IInv, Typed
<1>2. Card' /\ DirOK(dir)' /\ DirOK(synced)' /\ BudgetOK'
  BY <1>1, CardStays DEF MigrateLeft, startKeeps, readVars, cardVars, history
<1>3. Shape' /\ Local' /\ Fresh' /\ SameDb'
  BY <1>1, LiveOnce DEF MigrateLeft, startKeeps, readVars, cardVars, history, Works, Errs,
     Spends, IInv, Typed, Local
<1> QED BY <1>2, <1>3 DEF IInv, Typed

LEMMA OpenRefusesStep ==
    ASSUME IInv, OpenRefuses
    PROVE  IInv'
<1>1. Spends /\ (Errs => Erred(budget'))
  BY Spending DEF OpenRefuses, Works, IInv, Typed
<1>2. Card' /\ DirOK(dir)' /\ DirOK(synced)' /\ BudgetOK'
  BY <1>1, CardStays DEF OpenRefuses, Refuse, startKeeps, readVars, cardVars, history
<1>3. Shape' /\ Local' /\ Fresh' /\ SameDb'
  BY <1>1, LiveOnce DEF OpenRefuses, Refuse, startKeeps, readVars, cardVars, history, Works,
     Errs, Spends, IInv, Typed, Local
<1> QED BY <1>2, <1>3 DEF IInv, Typed

LEMMA BeginReadStep ==
    ASSUME IInv, BeginRead
    PROVE  IInv'
<1>1. Spends /\ (Errs => Erred(budget'))
  BY Spending DEF BeginRead, Works, IInv, Typed
<1>2. Card' /\ DirOK(dir)' /\ DirOK(synced)' /\ BudgetOK'
  BY <1>1, CardStays DEF BeginRead, ReaderFree, Swapped, swapVars, cardVars, history
<1>3. Shape' /\ Local' /\ Fresh' /\ SameDb'
  BY <1>1, LiveOnce DEF BeginRead, ReaderFree, Swapped, swapVars, cardVars, history, Works,
     Errs, Spends, IInv, Typed, Local
<1> QED BY <1>2, <1>3 DEF IInv, Typed

LEMMA EndReadStep ==
    ASSUME IInv, EndRead
    PROVE  IInv'
<1>1. Spends /\ (Errs => Erred(budget'))
  BY Spending DEF EndRead, Works, IInv, Typed
<1>2. Card' /\ DirOK(dir)' /\ DirOK(synced)' /\ BudgetOK'
  BY <1>1, CardStays DEF EndRead, swapVars, cardVars, history
<1>3. Local'
  BY DEF EndRead, swapVars, history, IInv, Typed, Local
<1>4. Shape' /\ Fresh' /\ SameDb'
  BY <1>1, LiveOnce DEF EndRead, swapVars, cardVars, history, Works, Errs, Spends, IInv, Typed
<1> QED BY <1>2, <1>3, <1>4 DEF IInv, Typed

LEMMA TakeTurnStep ==
    ASSUME IInv, TakeTurn
    PROVE  IInv'
<1>1. Spends /\ (Errs => Erred(budget'))
  BY Spending DEF TakeTurn, Works, IInv, Typed
<1>2. Card' /\ DirOK(dir)' /\ DirOK(synced)' /\ BudgetOK'
  BY <1>1, CardStays DEF TakeTurn, importKeeps, readVars, cardVars, history
<1>3. Shape' /\ Local' /\ Fresh' /\ SameDb'
  BY <1>1, LiveOnce DEF TakeTurn, importKeeps, readVars, cardVars, history, Works, Errs, Spends,
     IInv, Typed, Local
<1> QED BY <1>2, <1>3 DEF IInv, Typed

LEMMA CopyInStep ==
    ASSUME IInv, CopyIn
    PROVE  IInv'
<1>1. Spends /\ (Errs => Erred(budget'))
  BY Spending DEF CopyIn, Works, IInv, Typed
<1>2. Card' /\ DirOK(dir)' /\ DirOK(synced)' /\ BudgetOK'
  BY <1>1, CardStays DEF CopyIn, importKeeps, readVars, cardVars, history
<1>3. Shape' /\ Local' /\ Fresh' /\ SameDb'
  BY <1>1, SeenOK, LiveOnce DEF CopyIn, importKeeps, readVars, cardVars, history, Works, Errs,
     Spends, IInv, Typed, Local
<1> QED BY <1>2, <1>3 DEF IInv, Typed

LEMMA WorkStep ==
    ASSUME IInv, Work
    PROVE  IInv'
<1>1. Spends /\ (Errs => Erred(budget'))
  BY Spending DEF Work, Works, IInv, Typed
<1>2. Card' /\ DirOK(dir)' /\ DirOK(synced)' /\ BudgetOK'
  BY <1>1, CardStays DEF Work, importKeeps, readVars, cardVars, history
<1>3. Local'
  BY DEF Work, importKeeps, readVars, history, Items, IInv, Typed, Local
<1>4. Shape' /\ Fresh' /\ SameDb'
  BY <1>1, LiveOnce DEF Work, importKeeps, readVars, cardVars, history, Works, Errs, Spends,
     IInv, Typed
<1> QED BY <1>2, <1>3, <1>4 DEF IInv, Typed

LEMMA GiveUpStep ==
    ASSUME IInv, GiveUp
    PROVE  IInv'
<1>1. Spends /\ (Errs => Erred(budget'))
  BY Spending DEF GiveUp, Works, IInv, Typed
<1>2. Card' /\ DirOK(dir)' /\ DirOK(synced)' /\ BudgetOK'
  BY <1>1, CardStays DEF GiveUp, importKeeps, readVars, cardVars, history
<1>3. Shape' /\ Local' /\ Fresh' /\ SameDb'
  BY <1>1, LiveOnce DEF GiveUp, importKeeps, readVars, cardVars, history, Works, Errs, Spends,
     IInv, Typed, Local
<1> QED BY <1>2, <1>3 DEF IInv, Typed

LEMMA MakeTwinStep ==
    ASSUME IInv, MakeTwin
    PROVE  IInv'
<1>1. Spends /\ (Errs => Erred(budget'))
  BY Spending DEF MakeTwin, Works, IInv, Typed
<1>2. Card' /\ DirOK(dir)' /\ DirOK(synced)' /\ BudgetOK'
  BY <1>1, CardStays DEF MakeTwin, importKeeps, readVars, cardVars, history
<1>3. Shape' /\ Local' /\ Fresh' /\ SameDb'
  BY <1>1, SeenOK, LiveOnce DEF MakeTwin, importKeeps, readVars, cardVars, history, Works, Errs,
     Spends, IInv, Typed, Local, Card, Stored
<1> QED BY <1>2, <1>3 DEF IInv, Typed

LEMMA SkipTwinStep ==
    ASSUME IInv, SkipTwin
    PROVE  IInv'
<1>1. Spends /\ (Errs => Erred(budget'))
  BY Spending DEF SkipTwin, Works, IInv, Typed
<1>2. Card' /\ DirOK(dir)' /\ DirOK(synced)' /\ BudgetOK'
  BY <1>1, CardStays DEF SkipTwin, importKeeps, readVars, cardVars, history
<1>3. Shape' /\ Local' /\ Fresh' /\ SameDb'
  BY <1>1, LiveOnce DEF SkipTwin, importKeeps, readVars, cardVars, history, Works, Errs, Spends,
     IInv, Typed, Local
<1> QED BY <1>2, <1>3 DEF IInv, Typed

LEMMA StopBackStep ==
    ASSUME IInv, StopBack
    PROVE  IInv'
<1>1. Spends /\ (Errs => Erred(budget'))
  BY Spending DEF StopBack, Works, IInv, Typed
<1>2. Card' /\ DirOK(dir)' /\ DirOK(synced)' /\ BudgetOK'
  BY <1>1, CardStays DEF StopBack, swapKeeps, readVars, cardVars, history
<1>3. Shape' /\ Local' /\ Fresh' /\ SameDb'
  BY <1>1, LiveOnce DEF StopBack, swapKeeps, readVars, cardVars, history, Works, Errs, Spends,
     IInv, Typed, Local
<1> QED BY <1>2, <1>3 DEF IInv, Typed

LEMMA UnsharedStep ==
    ASSUME IInv, Unshared
    PROVE  IInv'
<1>1. Spends /\ (Errs => Erred(budget'))
  BY Spending DEF Unshared, Works, IInv, Typed
<1>2. Card' /\ DirOK(dir)' /\ DirOK(synced)' /\ BudgetOK'
  BY <1>1, CardStays DEF Unshared, swapKeeps, readVars, cardVars, history
<1>3. Shape' /\ Local' /\ Fresh' /\ SameDb'
  BY <1>1, LiveOnce DEF Unshared, swapKeeps, readVars, cardVars, history, Works, Errs, Spends,
     IInv, Typed, Local
<1> QED BY <1>2, <1>3 DEF IInv, Typed

LEMMA CloseFailsStep ==
    ASSUME IInv, CloseFails
    PROVE  IInv'
<1>1. at = "close" /\ at' \in {"drop", "reopen"} /\ failed' = TRUE /\ Errs
  BY DEF CloseFails, SwapFails
<1>2. UNCHANGED <<dir, synced, up, swapping, copy, job, round, reading, view, acked, firm>>
  BY DEF CloseFails, SwapFails, swapKeeps, readVars, history
<1>3. Card' /\ DirOK(dir)' /\ DirOK(synced)' /\ BudgetOK'
  BY <1>1, <1>2, Spending, CardStays DEF cardVars, history, IInv, Typed
<1>4. Local'
  BY <1>1, <1>2 DEF IInv, Typed, Local
<1>5. Shape' /\ Fresh' /\ SameDb'
  BY <1>1, <1>2, LiveOnce DEF IInv
<1> QED BY <1>3, <1>4, <1>5 DEF IInv, Typed

LEMMA ReopenFailsStep ==
    ASSUME IInv, ReopenFails
    PROVE  IInv'
<1>1. Spends /\ (Errs => Erred(budget'))
  BY Spending DEF ReopenFails, Works, IInv, Typed
<1>2. Card' /\ DirOK(dir)' /\ DirOK(synced)' /\ BudgetOK'
  BY <1>1, CardStays DEF ReopenFails, readVars, cardVars, history
<1>3. Shape' /\ Local' /\ Fresh' /\ SameDb'
  BY <1>1, LiveOnce DEF ReopenFails, readVars, cardVars, history, Works, Errs, Spends, IInv,
     Typed, Local
<1> QED BY <1>2, <1>3 DEF IInv, Typed

LEMMA SwappedAtStartStep ==
    ASSUME IInv, SwappedAtStart
    PROVE  IInv'
<1>1. Spends /\ (Errs => Erred(budget'))
  BY Spending DEF SwappedAtStart, Works, IInv, Typed
<1>2. Card' /\ DirOK(dir)' /\ DirOK(synced)' /\ BudgetOK'
  BY <1>1, CardStays DEF SwappedAtStart, readVars, cardVars, history
<1>3. Shape' /\ Local' /\ Fresh' /\ SameDb'
  BY <1>1, LiveOnce DEF SwappedAtStart, readVars, cardVars, history, Works, Errs, Spends, IInv,
     Typed, Local
<1> QED BY <1>2, <1>3 DEF IInv, Typed

LEMMA KillStep ==
    ASSUME IInv, Kill
    PROVE  IInv'
<1>1. Spends /\ (Errs => Erred(budget'))
  BY Spending DEF Kill, Works, IInv, Typed
<1>2. Card' /\ DirOK(dir)' /\ DirOK(synced)' /\ BudgetOK'
  BY <1>1, CardStays DEF Kill, Dies, cardVars, history
<1>3. Shape' /\ Local' /\ Fresh' /\ SameDb'
  BY <1>1, LiveOnce DEF Kill, Dies, cardVars, history, Works, Errs, Spends, IInv, Typed, Local
<1> QED BY <1>2, <1>3 DEF IInv, Typed

-----------------------------------------------------------------------------
(* Steps on the files beside the database *)

\* The database and its frames are the same in both directories.
Beside(d, e) ==
    /\ "db" \in DOMAIN d /\ "db" \in DOMAIN e /\ e["db"] = d["db"]
    /\ "wal" \in DOMAIN d <=> "wal" \in DOMAIN e
    /\ "wal" \in DOMAIN d => e["wal"] = d["wal"]

LEMMA BesideWith ==
    ASSUME NEW d, NEW n, NEW f, n \notin {"db", "wal"}, "db" \in DOMAIN d
    PROVE  Beside(d, With(d, n, f))
BY DEF Beside, With

LEMMA BesideWithout ==
    ASSUME NEW d, NEW S, "db" \notin S, "wal" \notin S \/ "wal" \notin DOMAIN d, "db" \in DOMAIN d
    PROVE  Beside(d, Without(d, S))
BY DEF Beside, Without, Restrict

LEMMA CardBeside ==
    ASSUME IInv, Spends, UNCHANGED history, DirOK(dir'), DirOK(synced'), Beside(dir, dir'),
           synced' = synced \/ Beside(synced, synced')
    PROVE  Card' /\ DirOK(dir)' /\ DirOK(synced)' /\ BudgetOK' /\ Seen(dir') = Seen(dir)
<1>1. acked' = acked /\ firm' = firm
  BY DEF history
<1>2. Seen(dir') = Seen(dir)
  BY SeenSame DEF Beside
<1>3. Sound(dir', acked, firm, budget')
  BY DEF Beside, Sound, IInv, Card
<1>4. Sound(synced', acked, firm, budget')
  <2>1. CASE synced' = synced
    BY <2>1, SoundStays DEF IInv, Card, Spends
  <2>2. CASE Beside(synced, synced')
    BY <2>2 DEF Beside, Sound, IInv, Card
  <2> QED BY <2>1, <2>2
<1>5. Stored'
  BY <1>1, <1>2 DEF Stored, Beside, IInv, Card
<1> QED BY <1>1, <1>2, <1>3, <1>4, <1>5 DEF Card, Firm, IInv, Spends

LEMMA FinishDoneStep ==
    ASSUME IInv, FinishDone
    PROVE  IInv'
<1>1. Spends /\ (Errs => Erred(budget'))
  BY Spending DEF FinishDone, Works, IInv, Typed
<1>2. UNCHANGED history /\ Exists("db") /\ Live /\ DirOK(dir) /\ DirOK(synced)
  BY LiveOnce DEF FinishDone, startKeeps, readVars, history, Works, IInv, Typed
<1>3. dir' = Without(dir, {"old"}) /\ synced' = synced
  BY <1>2 DEF FinishDone, startKeeps, readVars, history, Works
<1>4. Beside(dir, dir') /\ DirOK(dir')
  BY <1>2, <1>3, BesideWith, BesideWithout, WithOK, WithoutOK, FilesOK DEF Beside, Name
<1>5. Card' /\ DirOK(dir)' /\ DirOK(synced)' /\ BudgetOK' /\ Seen(dir') = Seen(dir)
  BY <1>1, <1>2, <1>3, <1>4, CardBeside
<1>6. Local'
  BY <1>3 DEF FinishDone, startKeeps, readVars, history, Works, history, IInv, Typed, Local
<1>7. Shape' /\ Fresh' /\ SameDb'
  BY <1>1, <1>2, <1>3, <1>4, <1>5 DEF FinishDone, startKeeps, readVars, history, Works, history,
     Beside, With, Without, Restrict, IInv
<1> QED BY <1>5, <1>6, <1>7 DEF IInv, Typed

LEMMA RemoveOldStep ==
    ASSUME IInv, RemoveOld
    PROVE  IInv'
<1>1. Spends /\ (Errs => Erred(budget'))
  BY Spending DEF RemoveOld, RemoveLeftover, Works, Errs, IInv, Typed
<1>2. UNCHANGED history /\ Exists("db") /\ Live /\ DirOK(dir) /\ DirOK(synced)
  BY LiveOnce DEF RemoveOld, RemoveLeftover, swapKeeps, readVars, history, Works, IInv, Typed
<1>3. dir' \in {dir, Without(dir, {"old"})} /\ synced' = synced
  BY <1>2 DEF RemoveOld, RemoveLeftover, swapKeeps, readVars, history, Works
<1>4. Beside(dir, dir') /\ DirOK(dir')
  <2>1. Beside(dir, dir')
    BY <1>2, <1>3 DEF Beside, Without, Restrict
  <2>2. DirOK(dir')
    BY <1>2, <1>3, WithoutOK
  <2> QED BY <2>1, <2>2
<1>5. Card' /\ DirOK(dir)' /\ DirOK(synced)' /\ BudgetOK' /\ Seen(dir') = Seen(dir)
  BY <1>1, <1>2, <1>3, <1>4, CardBeside
<1>6. Local'
  BY <1>3 DEF RemoveOld, RemoveLeftover, swapKeeps, readVars, history, Works, history, IInv,
     Typed, Local
<1>7. Shape' /\ Fresh' /\ SameDb'
  BY <1>1, <1>2, <1>3, <1>4, <1>5 DEF RemoveOld, RemoveLeftover, swapKeeps, readVars, history,
     Works, history, Beside, With, Without, Restrict, IInv
<1> QED BY <1>5, <1>6, <1>7 DEF IInv, Typed

LEMMA RemoveMarkStep ==
    ASSUME IInv, RemoveMark
    PROVE  IInv'
<1>1. Spends /\ (Errs => Erred(budget'))
  BY Spending DEF RemoveMark, RemoveLeftover, Works, Errs, IInv, Typed
<1>2. UNCHANGED history /\ Exists("db") /\ Live /\ DirOK(dir) /\ DirOK(synced)
  BY LiveOnce DEF RemoveMark, RemoveLeftover, swapKeeps, readVars, history, Works, IInv, Typed
<1>3. dir' \in {dir, Without(dir, {"marker"})} /\ synced' = synced
  BY <1>2 DEF RemoveMark, RemoveLeftover, swapKeeps, readVars, history, Works
<1>4. Beside(dir, dir') /\ DirOK(dir')
  <2>1. Beside(dir, dir')
    BY <1>2, <1>3 DEF Beside, Without, Restrict
  <2>2. DirOK(dir')
    BY <1>2, <1>3, WithoutOK
  <2> QED BY <2>1, <2>2
<1>5. Card' /\ DirOK(dir)' /\ DirOK(synced)' /\ BudgetOK' /\ Seen(dir') = Seen(dir)
  BY <1>1, <1>2, <1>3, <1>4, CardBeside
<1>6. Local'
  BY <1>3 DEF RemoveMark, RemoveLeftover, swapKeeps, readVars, history, Works, history, IInv,
     Typed, Local
<1>7. Shape' /\ Fresh' /\ SameDb'
  BY <1>1, <1>2, <1>3, <1>4, <1>5 DEF RemoveMark, RemoveLeftover, swapKeeps, readVars, history,
     Works, history, Beside, With, Without, Restrict, IInv
<1> QED BY <1>5, <1>6, <1>7 DEF IInv, Typed

LEMMA RemoveWalStep ==
    ASSUME IInv, RemoveWal
    PROVE  IInv'
<1>1. Spends /\ (Errs => Erred(budget'))
  BY Spending DEF RemoveWal, SwapFails, Works, Errs, IInv, Typed
<1>2. UNCHANGED history /\ Exists("db") /\ Live /\ DirOK(dir) /\ DirOK(synced)
  BY LiveOnce DEF RemoveWal, SwapFails, swapKeeps, readVars, history, Works, IInv, Typed
<1>3. dir' \in {dir, Without(dir, {"wal", "old"})} /\ synced' = synced
  BY <1>2 DEF RemoveWal, SwapFails, swapKeeps, readVars, history, Works
<1>4. Beside(dir, dir') /\ DirOK(dir')
  <2>1. Beside(dir, dir')
    BY <1>2, <1>3 DEF Beside, Without, Restrict, RemoveWal, IInv
  <2>2. DirOK(dir')
    BY <1>2, <1>3, WithoutOK
  <2> QED BY <2>1, <2>2
<1>5. Card' /\ DirOK(dir)' /\ DirOK(synced)' /\ BudgetOK' /\ Seen(dir') = Seen(dir)
  BY <1>1, <1>2, <1>3, <1>4, CardBeside
<1>6. Local'
  BY <1>3 DEF RemoveWal, SwapFails, swapKeeps, readVars, history, Works, history, IInv, Typed,
     Local
<1>7. Shape' /\ Fresh' /\ SameDb'
  BY <1>1, <1>2, <1>3, <1>4, <1>5 DEF RemoveWal, SwapFails, swapKeeps, readVars, history, Works,
     history, Beside, With, Without, Restrict, IInv
<1> QED BY <1>5, <1>6, <1>7 DEF IInv, Typed

LEMMA MarkStep ==
    ASSUME IInv, Mark
    PROVE  IInv'
<1>1. Spends /\ (Errs => Erred(budget'))
  BY Spending DEF Mark, SwapFails, Works, Errs, IInv, Typed
<1>2. UNCHANGED history /\ Exists("db") /\ Live /\ DirOK(dir) /\ DirOK(synced)
  BY LiveOnce DEF Mark, SwapFails, swapKeeps, readVars, history, Works, IInv, Typed
<1>3. dir' \in {dir, With(dir, "marker", Marker)} /\ synced' = synced
  BY <1>2 DEF Mark, SwapFails, swapKeeps, readVars, history, Works
<1>4. Beside(dir, dir') /\ DirOK(dir')
  BY <1>2, <1>3, BesideWith, BesideWithout, WithOK, WithoutOK, FilesOK DEF Beside, Name
<1>5. Card' /\ DirOK(dir)' /\ DirOK(synced)' /\ BudgetOK' /\ Seen(dir') = Seen(dir)
  BY <1>1, <1>2, <1>3, <1>4, CardBeside
<1>6. Local'
  BY <1>3 DEF Mark, SwapFails, swapKeeps, readVars, history, Works, history, IInv, Typed, Local
<1>7. Shape' /\ Fresh' /\ SameDb'
  BY <1>1, <1>2, <1>3, <1>4, <1>5 DEF Mark, SwapFails, swapKeeps, readVars, history, Works,
     history, Beside, With, Without, Restrict, IInv
<1> QED BY <1>5, <1>6, <1>7 DEF IInv, Typed

LEMMA UnmarkStep ==
    ASSUME IInv, Unmark
    PROVE  IInv'
<1>1. Spends /\ (Errs => Erred(budget'))
  BY Spending DEF Unmark, SwapFails, Works, Errs, IInv, Typed
<1>2. /\ UNCHANGED history /\ synced' = synced /\ DirOK(dir) /\ DirOK(synced)
      /\ dir' = dir \/ (Exists("db") /\ dir' = Without(dir, {"marker"}))
  BY DEF Unmark, startKeeps, readVars, Works, history, IInv, Typed
<1>3. Card' /\ DirOK(dir)' /\ DirOK(synced)' /\ BudgetOK' /\ Seen(dir') = Seen(dir)
  <2>1. CASE dir' = dir
    BY <1>1, <1>2, <2>1, CardStays DEF cardVars
  <2>2. CASE Exists("db") /\ dir' = Without(dir, {"marker"})
    <3>1. Beside(dir, dir')
      BY <2>2 DEF Beside, Without, Restrict
    <3>2. DirOK(dir')
      BY <1>2, <2>2, WithoutOK
    <3> QED BY <1>1, <1>2, <3>1, <3>2, CardBeside
  <2> QED BY <1>2, <2>1, <2>2
<1>4. Local'
  BY <1>2 DEF Unmark, startKeeps, readVars, Works, history, IInv, Typed, Local
<1>5. Shape' /\ Fresh' /\ SameDb'
  BY <1>1, <1>2, <1>3 DEF Unmark, startKeeps, readVars, Works, history, Without, Restrict, IInv
<1> QED BY <1>3, <1>4, <1>5 DEF IInv, Typed

LEMMA RemoveStaleStep ==
    ASSUME IInv, RemoveStale
    PROVE  IInv'
<1>1. Spends /\ (Errs => Erred(budget'))
  BY Spending DEF RemoveStale, SwapFails, Works, Errs, IInv, Typed
<1>2. /\ UNCHANGED history /\ synced' = synced /\ DirOK(dir) /\ DirOK(synced)
      /\ dir' = dir \/ (Exists("db") /\ dir' = Without(dir, {"new"}))
  BY DEF RemoveStale, startKeeps, readVars, Works, history, IInv, Typed
<1>3. Card' /\ DirOK(dir)' /\ DirOK(synced)' /\ BudgetOK' /\ Seen(dir') = Seen(dir)
  <2>1. CASE dir' = dir
    BY <1>1, <1>2, <2>1, CardStays DEF cardVars
  <2>2. CASE Exists("db") /\ dir' = Without(dir, {"new"})
    <3>1. Beside(dir, dir')
      BY <2>2 DEF Beside, Without, Restrict
    <3>2. DirOK(dir')
      BY <1>2, <2>2, WithoutOK
    <3> QED BY <1>1, <1>2, <3>1, <3>2, CardBeside
  <2> QED BY <1>2, <2>1, <2>2
<1>4. Local'
  BY <1>2 DEF RemoveStale, startKeeps, readVars, Works, history, IInv, Typed, Local
<1>5. Shape' /\ Fresh' /\ SameDb'
  BY <1>1, <1>2, <1>3 DEF RemoveStale, startKeeps, readVars, Works, history, Without, Restrict,
     IInv
<1> QED BY <1>3, <1>4, <1>5 DEF IInv, Typed

LEMMA RemoveBackMarkStep ==
    ASSUME IInv, RemoveBackMark
    PROVE  IInv'
<1>1. Spends /\ (Errs => Erred(budget'))
  BY Spending DEF RemoveBackMark, SwapFails, Works, Errs, IInv, Typed
<1>2. /\ UNCHANGED history /\ synced' = synced /\ DirOK(dir) /\ DirOK(synced)
      /\ dir' = dir \/ (Exists("db") /\ dir' = Without(dir, {"marker"}))
  BY DEF RemoveBackMark, swapKeeps, readVars, history, IInv, Typed
<1>3. Card' /\ DirOK(dir)' /\ DirOK(synced)' /\ BudgetOK' /\ Seen(dir') = Seen(dir)
  <2>1. CASE dir' = dir
    BY <1>1, <1>2, <2>1, CardStays DEF cardVars
  <2>2. CASE Exists("db") /\ dir' = Without(dir, {"marker"})
    <3>1. Beside(dir, dir')
      BY <2>2 DEF Beside, Without, Restrict
    <3>2. DirOK(dir')
      BY <1>2, <2>2, WithoutOK
    <3> QED BY <1>1, <1>2, <3>1, <3>2, CardBeside
  <2> QED BY <1>2, <2>1, <2>2
<1>4. Local'
  BY <1>2 DEF RemoveBackMark, swapKeeps, readVars, history, IInv, Typed, Local
<1>5. Shape' /\ Fresh' /\ SameDb'
  BY <1>1, <1>2, <1>3 DEF RemoveBackMark, swapKeeps, readVars, history, Without, Restrict, IInv
<1> QED BY <1>3, <1>4, <1>5 DEF IInv, Typed

LEMMA DropStep ==
    ASSUME IInv, Drop
    PROVE  IInv'
<1>1. Spends /\ (Errs => Erred(budget'))
  BY Spending DEF Drop, Works, Errs, IInv, Typed
<1>2. /\ UNCHANGED history /\ synced' = synced /\ DirOK(dir) /\ DirOK(synced) /\ Live
      /\ dir' \in {dir, Without(dir, {"new"})}
  BY LiveOnce DEF Drop, swapKeeps, readVars, history, IInv, Typed
<1>3. /\ DOMAIN dir' = DOMAIN dir \/ DOMAIN dir' = DOMAIN dir \ {"new"}
      /\ \A n \in DOMAIN dir' : dir'[n] = dir[n]
  BY <1>2 DEF Without, Restrict
<1>4. DirOK(dir') /\ (Exists("db") => Seen(dir') = Seen(dir))
  <2>1. DirOK(dir')
    BY <1>2, WithoutOK
  <2>2. Exists("db") => Seen(dir') = Seen(dir)
    BY <1>2, <1>3 DEF Seen, Log, Without, Restrict
  <2> QED BY <2>1, <2>2
<1>5. ~Exists("db") => ~Easy(budget')
  BY <1>1 DEF Drop, IInv, Erred, Easy, Spends, BudgetOK
<1>6. Sound(dir', acked, firm, budget')
  BY <1>1, <1>3, <1>5 DEF Sound, IInv, Card
<1>7. Sound(synced, acked, firm, budget')
  BY <1>1, SoundStays DEF IInv, Card, Spends
<1>8. Card'
  BY <1>2, <1>3, <1>4, <1>6, <1>7 DEF history, Card, Firm, Stored, IInv
<1>9. Local'
  BY <1>2 DEF Drop, swapKeeps, readVars, history, IInv, Typed, Local
<1>10. Shape' /\ Fresh' /\ SameDb'
  BY <1>1, <1>2, <1>3, <1>4 DEF Drop, swapKeeps, readVars, history, IInv, Spends
<1> QED BY <1>1, <1>2, <1>4, <1>8, <1>9, <1>10 DEF IInv, Typed, Spends

\* A file beside the database is written in place, wherever its name is synced.
LEMMA WrittenBeside ==
    ASSUME IInv, Spends, UNCHANGED history, Exists("db"), NEW f \in File, InPlace("new", f),
           at \notin Unsynced
    PROVE  /\ Card' /\ DirOK(dir)' /\ DirOK(synced)' /\ BudgetOK'
           /\ Seen(dir') = Seen(dir) /\ Beside(dir, dir') /\ Beside(synced, synced')
           /\ dir' = With(dir, "new", f) /\ dir'["new"] = f
<1>1. "db" \in DOMAIN synced /\ DirOK(dir) /\ DirOK(synced)
  BY DEF IInv, Typed
<1>2. dir' = With(dir, "new", f) /\ (synced' = synced \/ synced' = With(synced, "new", f))
  BY DEF InPlace
<1>3. DirOK(dir') /\ DirOK(synced')
  BY <1>1, <1>2, WithOK DEF Name
<1>4. Beside(dir, dir') /\ dir'["new"] = f
  BY <1>2 DEF Beside, With
<1>5. Beside(synced, synced')
  BY <1>1, <1>2 DEF Beside, With
<1> QED BY <1>2, <1>3, <1>4, <1>5, CardBeside

LEMMA WriteNewStep ==
    ASSUME IInv, WriteNew
    PROVE  IInv'
<1>1. Spends /\ UNCHANGED history /\ Exists("db") /\ Live /\ DirOK(dir)
  BY Spending, LiveOnce DEF WriteNew, Works, swapKeeps, IInv, Typed
<1> DEFINE f == [Pages(dir["db"].gen + 1, copy) EXCEPT !.whole = FALSE]
<1>2. f \in File /\ f.data = copy
  <2>1. dir["db"].gen + 1 \in Nat /\ copy \in SUBSET Items
    BY <1>1, SeenOK DEF IInv, Typed, Local
  <2> QED BY <2>1, FilesOK DEF Pages
<1>3. InPlace("new", f)
  BY DEF WriteNew, SyncNew
<1> HIDE DEF f
<1>4. /\ Card' /\ DirOK(dir)' /\ DirOK(synced)' /\ BudgetOK'
      /\ Seen(dir') = Seen(dir) /\ Beside(dir, dir') /\ Beside(synced, synced')
      /\ dir' = With(dir, "new", f) /\ dir'["new"] = f
  BY <1>1, <1>2, <1>3, WrittenBeside DEF WriteNew
<1>5. Local'
  BY DEF WriteNew, swapKeeps, readVars, history, IInv, Typed, Local
<1>6. Shape' /\ Fresh' /\ SameDb'
  BY <1>1, <1>2, <1>4 DEF WriteNew, swapKeeps, readVars, history, Beside, With, IInv
<1> QED BY <1>4, <1>5, <1>6 DEF IInv, Typed

LEMMA WroteNewStep ==
    ASSUME IInv, WroteNew
    PROVE  IInv'
<1>1. Spends /\ UNCHANGED history /\ Exists("db") /\ Live /\ DirOK(dir)
  BY Spending, LiveOnce DEF WroteNew, Works, swapKeeps, IInv, Typed
<1> DEFINE f == [dir["new"] EXCEPT !.whole = TRUE]
<1>2. f \in File /\ f.data = dir["new"].data /\ f.whole
  <2>1. dir["new"] \in File
    BY <1>1 DEF WroteNew, IInv, DirOK
  <2> QED BY <2>1, FilesOK DEF File
<1>3. InPlace("new", f)
  BY DEF WroteNew, SyncNew
<1> HIDE DEF f
<1>4. /\ Card' /\ DirOK(dir)' /\ DirOK(synced)' /\ BudgetOK'
      /\ Seen(dir') = Seen(dir) /\ Beside(dir, dir') /\ Beside(synced, synced')
      /\ dir' = With(dir, "new", f) /\ dir'["new"] = f
  BY <1>1, <1>2, <1>3, WrittenBeside DEF WroteNew
<1>5. Local'
  BY DEF WroteNew, swapKeeps, readVars, history, IInv, Typed, Local
<1>6. Shape' /\ Fresh' /\ SameDb'
  BY <1>1, <1>2, <1>4 DEF WroteNew, swapKeeps, readVars, history, Beside, With, IInv
<1> QED BY <1>4, <1>5, <1>6 DEF IInv, Typed

-----------------------------------------------------------------------------
(* Syncing the directory, and emptying the WAL *)

LEMMA SyncDirStep ==
    ASSUME IInv, SyncDir
    PROVE  IInv'
<1>1. /\ UNCHANGED <<dir, up, swapping, copy, job, round, failed, reading, view, acked, firm, budget>>
      /\ synced' = dir
  BY DEF SyncDir, swapVars, readVars, history
<1>2. \/ at = "marksync" /\ at' = "ren1"
      \/ at = "ren1sync" /\ at' = "ren2"
      \/ at = "ren2sync" /\ at' = "rmold"
      \/ at = "backsync" /\ at' = "backmark"
      \/ at = "oldsync" /\ at' = "rmmark"
      \/ at = "donesync" /\ at' = "reopen"
      \/ at = "newsync" /\ at' = "finish"
      \/ at = "fsync" /\ at' = "unmark"
      \/ at = "unmarksync" /\ at' = "rmnew"
  BY DEF SyncDir, SyncThen
<1>3. Card' /\ Typed'
  BY <1>1 DEF IInv, Card, Firm, Stored, Typed, Local, BudgetOK
<1>4. Shape' /\ Fresh' /\ SameDb'
  BY <1>1, <1>2 DEF IInv
<1> QED BY <1>3, <1>4 DEF IInv

\* The frames reach the pages, and all that was stored is firm.
LEMMA Checkpointed ==
    ASSUME IInv, Spends, NEW drop \in BOOLEAN, Checkpoint(drop), Exists("db"), at \notin Unsynced
    PROVE  /\ Card' /\ DirOK(dir)' /\ DirOK(synced)' /\ BudgetOK'
           /\ acked' = acked /\ Live /\ Seen(dir') = Seen(dir) /\ dir'["db"].data = Seen(dir)
           /\ DOMAIN dir' = IF drop THEN DOMAIN dir \ {"wal"} ELSE DOMAIN dir
           /\ \A n \in DOMAIN dir \ {"db", "wal"} : dir'[n] = dir[n]
           /\ "db" \in DOMAIN synced' /\ synced'["db"] = dir'["db"]
<1> DEFINE g == dir["db"].gen
           p == Pages(g, Seen(dir))
           w == Frames(g, <<>>)
<1>1. /\ Live /\ DirOK(dir) /\ DirOK(synced) /\ "db" \in DOMAIN dir
      /\ "db" \in DOMAIN synced /\ synced["db"] = dir["db"]
  BY LiveOnce DEF IInv, Typed
<1>2. p \in File /\ w \in File /\ g \in Nat
  <2>1. g \in Nat /\ Seen(dir) \in SUBSET Items /\ <<>> \in Seq(Items)
    BY <1>1, SeenOK
  <2> QED BY <2>1, FilesOK
<1>3. p.data = Seen(dir) /\ p.gen = g /\ p.whole /\ w.log = <<>> /\ w.gen = g
  BY DEF Pages, Frames
<1> HIDE DEF p, w
<1>4. /\ DOMAIN dir' = IF drop THEN DOMAIN dir \ {"wal"} ELSE DOMAIN dir
      /\ dir'["db"] = p
      /\ "wal" \in DOMAIN dir' => dir'["wal"] = w
      /\ \A n \in DOMAIN dir \ {"db", "wal"} : dir'[n] = dir[n]
  BY <1>1, <1>3 DEF Checkpoint, Emptied, Truncated, With, Without, Restrict, p, w
<1>5. DirOK(dir')
  BY <1>1, <1>2, <1>4 DEF DirOK
<1>6. synced' = With(synced, "db", p)
  BY <1>1, <1>4 DEF Checkpoint
<1>7. /\ DOMAIN synced' = DOMAIN synced /\ synced'["db"] = p
      /\ \A n \in DOMAIN synced \ {"db"} : synced'[n] = synced[n]
  BY <1>1, <1>6 DEF With
<1>8. DirOK(synced')
  BY <1>1, <1>2, <1>7 DEF DirOK
<1>9. acked' = acked /\ firm' = acked /\ acked \subseteq Seen(dir)
  BY <1>1 DEF Checkpoint, IInv, Card, Stored
<1>10. Seen(dir') = Seen(dir)
  BY <1>3, <1>4, SeenPages
<1>11. Sound(dir', acked, acked, budget')
  BY <1>1, <1>3, <1>4, <1>9 DEF Sound, Holds
<1>12. Sound(synced', acked, acked, budget')
  <2>1. "wal" \in DOMAIN synced => synced["wal"].gen = g
    BY <1>1 DEF IInv, Card, Sound
  <2> QED BY <1>1, <1>3, <1>7, <1>9, <2>1 DEF Sound, Holds
<1>13. Card'
  BY <1>1, <1>4, <1>9, <1>10, <1>11, <1>12 DEF Card, Firm, Stored
<1> QED BY <1>1, <1>3, <1>4, <1>5, <1>7, <1>8, <1>9, <1>10, <1>13 DEF Spends

LEMMA EmptyStep ==
    ASSUME IInv, Empty
    PROVE  IInv'
<1>1. Spends /\ Exists("db") /\ at \notin Unsynced
  BY Spending DEF Empty, Works, TurnFree, IInv, Typed
<1>2. /\ Card' /\ DirOK(dir)' /\ DirOK(synced)' /\ BudgetOK'
      /\ acked' = acked /\ Live /\ Seen(dir') = Seen(dir) /\ dir'["db"].data = Seen(dir)
      /\ DOMAIN dir' = DOMAIN dir
      /\ \A n \in DOMAIN dir \ {"db", "wal"} : dir'[n] = dir[n]
      /\ "db" \in DOMAIN synced' /\ synced'["db"] = dir'["db"]
  BY <1>1, Checkpointed DEF Empty
<1>3. Local'
  BY <1>1, <1>2 DEF Empty, importKeeps, swapVars, readVars, IInv, Typed, Local
<1>4. Shape' /\ Fresh' /\ SameDb'
  BY <1>1, <1>2 DEF Empty, importKeeps, swapVars, readVars, IInv
<1> QED BY <1>2, <1>3, <1>4 DEF IInv, Typed

LEMMA AutoCheckpointStep ==
    ASSUME IInv, AutoCheckpoint
    PROVE  IInv'
<1>1. Spends /\ Exists("db") /\ at \notin Unsynced
  BY Spending DEF AutoCheckpoint, Works, MayWrite, TurnFree, TurnFree, IInv, Typed
<1>2. /\ Card' /\ DirOK(dir)' /\ DirOK(synced)' /\ BudgetOK'
      /\ acked' = acked /\ Live /\ Seen(dir') = Seen(dir) /\ dir'["db"].data = Seen(dir)
      /\ DOMAIN dir' = DOMAIN dir
      /\ \A n \in DOMAIN dir \ {"db", "wal"} : dir'[n] = dir[n]
      /\ "db" \in DOMAIN synced' /\ synced'["db"] = dir'["db"]
  BY <1>1, Checkpointed DEF AutoCheckpoint
<1>3. Local'
  BY <1>1, <1>2 DEF AutoCheckpoint, swapVars, readVars, IInv, Typed, Local
<1>4. Shape' /\ Fresh' /\ SameDb'
  BY <1>1, <1>2 DEF AutoCheckpoint, swapVars, readVars, MayWrite, TurnFree, IInv
<1> QED BY <1>2, <1>3, <1>4 DEF IInv, Typed

LEMMA CloseStep ==
    ASSUME IInv, Close
    PROVE  IInv'
<1>1. Spends /\ Exists("db") /\ at \notin Unsynced
  BY Spending DEF Close, Works, TurnFree, IInv, Typed
<1>2. /\ Card' /\ DirOK(dir)' /\ DirOK(synced)' /\ BudgetOK'
      /\ acked' = acked /\ Live /\ Seen(dir') = Seen(dir) /\ dir'["db"].data = Seen(dir)
      /\ DOMAIN dir' = DOMAIN dir \ {"wal"}
      /\ \A n \in DOMAIN dir \ {"db", "wal"} : dir'[n] = dir[n]
      /\ "db" \in DOMAIN synced' /\ synced'["db"] = dir'["db"]
  BY <1>1, Checkpointed DEF Close
<1>3. Local'
  BY <1>1, <1>2 DEF Close, swapKeeps, readVars, IInv, Typed, Local
<1>4. Shape' /\ Fresh' /\ SameDb'
  BY <1>1, <1>2 DEF Close, swapKeeps, readVars, IInv
<1> QED BY <1>2, <1>3, <1>4 DEF IInv, Typed

LEMMA MigrateInRamStep ==
    ASSUME IInv, MigrateInRam
    PROVE  IInv'
<1>1. Spends /\ Exists("db") /\ at \notin Unsynced
  BY Spending DEF MigrateInRam, Works, Pending, TurnFree, IInv, Typed
<1>2. /\ Card' /\ DirOK(dir)' /\ DirOK(synced)' /\ BudgetOK'
      /\ acked' = acked /\ Live /\ Seen(dir') = Seen(dir) /\ dir'["db"].data = Seen(dir)
      /\ DOMAIN dir' = DOMAIN dir \ {"wal"}
      /\ \A n \in DOMAIN dir \ {"db", "wal"} : dir'[n] = dir[n]
      /\ "db" \in DOMAIN synced' /\ synced'["db"] = dir'["db"]
  BY <1>1, Checkpointed DEF MigrateInRam
<1>3. Local'
  BY <1>1, <1>2, SeenOK DEF MigrateInRam, readVars, Items, IInv, Typed, Local
<1>4. Shape' /\ Fresh' /\ SameDb'
  BY <1>1, <1>2 DEF MigrateInRam, readVars, Pending, IInv, Card, Stored
<1> QED BY <1>2, <1>3, <1>4 DEF IInv, Typed

LEMMA MigrateOnCardStep ==
    ASSUME IInv, MigrateOnCard
    PROVE  IInv'
<1> DEFINE p == Pages(dir["db"].gen, Seen(dir) \cup {Schema})
<1>1. /\ Spends /\ Live /\ DirOK(dir) /\ DirOK(synced) /\ "db" \in DOMAIN dir
      /\ "db" \in DOMAIN synced /\ synced["db"] = dir["db"]
  BY Spending, LiveOnce DEF MigrateOnCard, Pending, Works, IInv, Typed
<1>2. p \in File
  <2>1. dir["db"].gen \in Nat /\ Seen(dir) \cup {Schema} \in SUBSET Items
    BY <1>1, SeenOK DEF Items
  <2> QED BY <2>1, FilesOK
<1>3. p.data = Seen(dir) \cup {Schema} /\ p.gen = dir["db"].gen /\ p.whole
  BY DEF Pages
<1>4. /\ at = "migrate" /\ at' \in {"opening", "twin"} /\ acked' = acked /\ firm' = acked
      /\ UNCHANGED <<up, swapping, copy, job, round, failed, reading, view>>
      /\ dir' = Without(With(dir, "db", p), {"wal"})
      /\ synced' = With(synced, "db", dir'["db"])
  BY <1>1 DEF MigrateOnCard, swapVars, readVars
<1> HIDE DEF p
<1>5. /\ DOMAIN dir' = DOMAIN dir \ {"wal"} /\ dir'["db"] = p
      /\ \A n \in DOMAIN dir \ {"db", "wal"} : dir'[n] = dir[n]
  BY <1>1, <1>4 DEF With, Without, Restrict
<1>6. /\ DOMAIN synced' = DOMAIN synced /\ synced'["db"] = p
      /\ \A n \in DOMAIN synced \ {"db"} : synced'[n] = synced[n]
  BY <1>1, <1>4, <1>5 DEF With
<1>7. DirOK(dir') /\ DirOK(synced')
  BY <1>1, <1>2, <1>5, <1>6 DEF DirOK
<1>8. acked \subseteq Seen(dir)
  BY <1>1 DEF IInv, Card, Stored
<1>9. Seen(dir') = p.data
  BY <1>5, SeenPages
<1>10. Sound(dir', acked, acked, budget')
  BY <1>1, <1>3, <1>5, <1>8 DEF Sound, Holds
<1>11. Sound(synced', acked, acked, budget')
  <2>1. "wal" \in DOMAIN synced => synced["wal"].gen = p.gen
    BY <1>1, <1>3 DEF IInv, Card, Sound
  <2> QED BY <1>1, <1>3, <1>6, <1>8, <2>1 DEF Sound, Holds
<1>12. Card'
  BY <1>1, <1>3, <1>4, <1>5, <1>8, <1>9, <1>10, <1>11 DEF Card, Firm, Stored
<1>13. Local'
  BY <1>4 DEF IInv, Typed, Local
<1>14. Shape' /\ Fresh' /\ SameDb'
  BY <1>1, <1>4, <1>5, <1>6 DEF IInv
<1> QED BY <1>1, <1>7, <1>12, <1>13, <1>14 DEF IInv, Typed, Spends

-----------------------------------------------------------------------------
(* Opening, and the transactions of the server *)

\* Frames of an item come after those of the database that is there.
LEMMA Logged ==
    ASSUME IInv, Exists("db"), NEW i \in Items,
           dir' = With(dir, "wal", Frames(dir["db"].gen, Append(Log(dir), i)))
    PROVE  /\ DirOK(dir') /\ Seen(dir') = Seen(dir) \cup {i}
           /\ DOMAIN dir' = DOMAIN dir \cup {"wal"} /\ dir'["wal"].gen = dir["db"].gen
           /\ \A n \in DOMAIN dir \ {"wal"} : dir'[n] = dir[n]
           /\ Frames(dir["db"].gen, Append(Log(dir), i)) \in File
<1> DEFINE l == Append(Log(dir), i)
           w == Frames(dir["db"].gen, l)
<1>1. DirOK(dir) /\ Log(dir) \in Seq(Items) /\ dir["db"].gen \in Nat
  BY LogOK, SeenOK DEF IInv, Typed
<1>2. l \in Seq(Items) /\ Range(l) = Range(Log(dir)) \cup {i}
  BY <1>1, RangeAppend
<1> HIDE DEF l
<1>3. w \in File
  BY <1>1, <1>2, FilesOK
<1>4. w.log = l /\ w.gen = dir["db"].gen
  BY DEF Frames
<1>5. dir' = With(dir, "wal", w)
  BY DEF l
<1> HIDE DEF w
<1>6. /\ DOMAIN dir' = DOMAIN dir \cup {"wal"} /\ dir'["wal"] = w
      /\ \A n \in DOMAIN dir \ {"wal"} : dir'[n] = dir[n]
  BY <1>5 DEF With
<1>7. DirOK(dir')
  BY <1>1, <1>3, <1>6 DEF DirOK, Name
<1>8. Seen(dir') = Seen(dir) \cup {i}
  BY <1>2, <1>4, <1>6 DEF Seen, Log
<1> QED BY <1>3, <1>4, <1>6, <1>7, <1>8 DEF w, l

LEMMA Committed ==
    ASSUME IInv, NEW i \in Writes \cup Imports, Commit(i)
    PROVE  /\ Card' /\ DirOK(dir)' /\ DirOK(synced)' /\ BudgetOK'
           /\ Exists("db")' /\ Live /\ Seen(dir') = acked' /\ acked' = acked \cup {i}
           /\ acked' \in SUBSET Items
           /\ \A n \in DOMAIN dir \ {"wal"} : n \in DOMAIN dir' /\ dir'[n] = dir[n]
           /\ \A n \in DOMAIN synced \ {"wal"} : n \in DOMAIN synced' /\ synced'[n] = synced[n]
<1>1. /\ up = "open" /\ at \in {"idle", "card"} /\ acked' = acked \cup {i} /\ firm' = firm /\ budget' = budget
      /\ InPlace("wal", Frames(dir["db"].gen, Append(Log(dir), i)))
  BY DEF Commit, MayWrite, TurnFree
<1>2. /\ Exists("db") /\ Live /\ Seen(dir) = acked /\ i \in Items /\ DirOK(synced) /\ acked \in SUBSET Items
      /\ "db" \in DOMAIN synced /\ synced["db"] = dir["db"] /\ acked' \in SUBSET Items
  BY <1>1, LiveOnce DEF IInv, Typed, Local, Items
<1> DEFINE w == Frames(dir["db"].gen, Append(Log(dir), i))
<1>3. /\ DirOK(dir') /\ Seen(dir') = Seen(dir) \cup {i}
      /\ DOMAIN dir' = DOMAIN dir \cup {"wal"} /\ dir'["wal"].gen = dir["db"].gen
      /\ \A n \in DOMAIN dir \ {"wal"} : dir'[n] = dir[n]
      /\ w \in File
  BY <1>1, <1>2, Logged DEF InPlace
<1>4. w.gen = dir["db"].gen
  BY DEF Frames
<1>5. synced' = IF "wal" \in DOMAIN synced THEN With(synced, "wal", w) ELSE synced
  BY <1>1 DEF InPlace
<1> HIDE DEF w
<1>6. /\ DOMAIN synced' = DOMAIN synced
      /\ "wal" \in DOMAIN synced => synced'["wal"] = w
      /\ \A n \in DOMAIN synced \ {"wal"} : synced'[n] = synced[n]
  BY <1>5 DEF With
<1>7. DirOK(synced')
  BY <1>2, <1>3, <1>6 DEF DirOK
<1>8. Holds(dir["db"], firm)
  BY <1>2 DEF IInv, Card, Sound
<1>9. Sound(dir', acked', firm, budget) /\ Sound(synced', acked', firm, budget)
  BY <1>2, <1>3, <1>4, <1>6, <1>8 DEF Sound
<1>10. Card'
  BY <1>1, <1>2, <1>3, <1>9 DEF Card, Firm, Stored, IInv
<1> QED BY <1>1, <1>2, <1>3, <1>6, <1>7, <1>10 DEF IInv, Typed, BudgetOK

LEMMA WriteStep ==
    ASSUME IInv, Write
    PROVE  IInv'
<1>1. PICK i \in Writes : Commit(i)
  BY DEF Write
<1>2. /\ up = "open" /\ at \in {"idle", "card"} /\ acked' # {}
      /\ UNCHANGED <<up, at, swapping, copy, job, round, failed, reading, view>>
  BY <1>1 DEF Write, Commit, MayWrite, TurnFree, readVars
<1>3. /\ Card' /\ DirOK(dir)' /\ DirOK(synced)' /\ BudgetOK'
      /\ Exists("db")' /\ Live /\ Seen(dir') = acked' /\ acked' = acked \cup {i}
      /\ acked' \in SUBSET Items
      /\ \A n \in DOMAIN dir \ {"wal"} : n \in DOMAIN dir' /\ dir'[n] = dir[n]
      /\ \A n \in DOMAIN synced \ {"wal"} : n \in DOMAIN synced' /\ synced'[n] = synced[n]
  BY <1>1, Committed
<1>4. Local'
  BY <1>2, <1>3 DEF IInv, Typed, Local
<1>5. Shape' /\ Fresh' /\ SameDb'
  BY <1>2, <1>3 DEF IInv
<1> QED BY <1>3, <1>4, <1>5 DEF IInv, Typed

LEMMA ImportOnCardStep ==
    ASSUME IInv, ImportOnCard
    PROVE  IInv'
<1>1. at = "card" /\ at' = "idle" /\ job' = "none" /\ job \in Imports
  BY DEF ImportOnCard, IInv
<1>2. CASE job \in acked
  <2>1. UNCHANGED <<dir, synced, up, swapping, copy, round, failed, reading, view, acked, firm, budget>>
    BY <1>2 DEF ImportOnCard, cardVars, readVars, history
  <2>2. Card' /\ DirOK(dir)' /\ DirOK(synced)' /\ BudgetOK'
    BY <2>1, CardStays, Spending DEF cardVars, history, Works, IInv, Typed
  <2>3. Local'
    BY <1>1, <2>1 DEF IInv, Typed, Local
  <2>4. Shape' /\ Fresh' /\ SameDb'
    BY <1>1, <2>1, LiveOnce DEF IInv
  <2> QED BY <2>2, <2>3, <2>4 DEF IInv, Typed
<1>3. CASE job \notin acked
  <2>1. Commit(job)
    BY <1>3 DEF ImportOnCard
  <2>2. up = "open" /\ UNCHANGED <<up, swapping, copy, round, failed, reading, view>> /\ acked' # {}
    BY <2>1 DEF Commit, MayWrite, readVars
  <2>3. /\ Card' /\ DirOK(dir)' /\ DirOK(synced)' /\ BudgetOK'
        /\ Exists("db")' /\ Live /\ Seen(dir') = acked' /\ acked' = acked \cup {job}
        /\ acked' \in SUBSET Items
        /\ \A n \in DOMAIN dir \ {"wal"} : n \in DOMAIN dir' /\ dir'[n] = dir[n]
        /\ \A n \in DOMAIN synced \ {"wal"} : n \in DOMAIN synced' /\ synced'[n] = synced[n]
    BY <1>1, <2>1, Committed
  <2>4. Local'
    BY <1>1, <2>2, <2>3 DEF IInv, Typed, Local
  <2>5. "db" \in DOMAIN synced /\ synced["db"] = dir["db"] /\ "db" \in DOMAIN dir
    BY <1>1, <2>2 DEF IInv
  <2>6. Shape' /\ Fresh' /\ SameDb'
    BY <1>1, <2>2, <2>3, <2>5 DEF IInv
  <2> QED BY <2>3, <2>4, <2>6 DEF IInv, Typed
<1> QED BY <1>2, <1>3

\* An open that finds the database, and adds the schema if it is not there.
LEMMA Opens ==
    ASSUME IInv, Open, Exists("db")
    PROVE  /\ Card' /\ DirOK(dir)' /\ DirOK(synced)' /\ Live /\ Exists("db")'
           /\ Seen(dir') = acked' /\ acked \subseteq acked' /\ acked' \in SUBSET Items
           /\ firm \subseteq firm'
           /\ \A n \in DOMAIN dir \ {"wal"} : n \in DOMAIN dir' /\ dir'[n] = dir[n]
           /\ "db" \in DOMAIN synced' /\ synced'["db"] = dir'["db"]
<1>1. /\ Live /\ DirOK(dir) /\ DirOK(synced) /\ "db" \in DOMAIN dir /\ at = "opening"
      /\ "db" \in DOMAIN synced /\ synced["db"] = dir["db"]
      /\ Sound(dir, acked, firm, budget) /\ Sound(synced, acked, firm, budget)
      /\ acked \subseteq Seen(dir) /\ Opened(dir) = dir
  BY LiveOnce, NotMixed DEF Open, IInv, Typed, Card, Stored
<1>2. \/ dir' = dir
      \/ dir' = With(dir, "wal", Frames(dir["db"].gen, Append(Log(dir), Schema)))
  BY <1>1 DEF Open, Creates
<1>3. /\ synced' = With(synced, "db", dir'["db"])
      /\ acked' = acked \cup Seen(dir')
      /\ firm' = firm \cup (acked' \cap dir'["db"].data)
      /\ budget' = budget
  BY <1>1 DEF Open, Creates
<1>4. /\ DirOK(dir') /\ Seen(dir) \subseteq Seen(dir')
      /\ DOMAIN dir' = DOMAIN dir \/ DOMAIN dir' = DOMAIN dir \cup {"wal"}
      /\ \A n \in DOMAIN dir \ {"wal"} : dir'[n] = dir[n]
      /\ "wal" \in DOMAIN dir' => dir'["wal"].gen = dir["db"].gen
  <2>1. CASE dir' = dir
    BY <1>1, <2>1 DEF Sound
  <2>2. CASE dir' = With(dir, "wal", Frames(dir["db"].gen, Append(Log(dir), Schema)))
    <3>1. Schema \in Items
      BY DEF Items
    <3> QED BY <1>1, <2>2, <3>1, Logged
  <2> QED BY <1>2, <2>1, <2>2
<1>5. "db" \in DOMAIN dir' /\ dir'["db"] = dir["db"]
  BY <1>1, <1>4
<1>6. /\ Seen(dir') \subseteq Items /\ dir'["db"].data \subseteq Seen(dir')
      /\ acked' = Seen(dir') /\ firm' = firm \cup dir["db"].data
  <2>1. Seen(dir') \subseteq Items /\ dir'["db"].data \subseteq Seen(dir')
    BY <1>4, <1>5, SeenOK
  <2> QED BY <1>1, <1>3, <1>4, <1>5, <2>1
<1>7. /\ DOMAIN synced' = DOMAIN synced /\ synced'["db"] = dir["db"]
      /\ \A n \in DOMAIN synced \ {"db"} : synced'[n] = synced[n]
  BY <1>1, <1>3, <1>5 DEF With
<1>8. DirOK(synced')
  BY <1>1, <1>7 DEF DirOK
<1>9. Holds(dir["db"], firm')
  BY <1>1, <1>6 DEF Sound, Holds
<1>10. Sound(dir', acked', firm', budget)
  BY <1>4, <1>5, <1>9 DEF Sound
<1>11. Sound(synced', acked', firm', budget)
  BY <1>1, <1>7, <1>9 DEF Sound
<1>12. firm' \subseteq acked' /\ firm' # {}
  BY <1>1, <1>3, <1>6 DEF IInv, Card, Firm
<1>13. Card'
  BY <1>3, <1>5, <1>6, <1>10, <1>11, <1>12 DEF Card, Firm, Stored
<1> QED BY <1>1, <1>3, <1>4, <1>5, <1>6, <1>7, <1>8, <1>13

\* One that creates it, where nothing was ever stored.
LEMMA Created ==
    ASSUME IInv, Open, ~Exists("db")
    PROVE  /\ Card' /\ DirOK(dir)' /\ DirOK(synced)' /\ ~Live /\ Exists("db")'
           /\ Seen(dir') = acked' /\ acked' = {Schema} /\ firm = {}
           /\ "db" \in DOMAIN synced' /\ synced'["db"] = dir'["db"]
<1> DEFINE p == Pages(0, {Schema})
<1>1. at = "opening" /\ Creates /\ dir' = With(dir, "db", p) /\ synced' = dir'
      /\ acked' = acked \cup Seen(dir')
      /\ firm' = firm \cup (acked' \cap dir'["db"].data)
  BY DEF Open
<1>2. ~Live
  <2>1. "marker" \notin DOMAIN dir
    BY <1>1 DEF Creates, SwapFiles
  <2> QED BY <2>1 DEF IInv, Card, Sound
<1>3. DOMAIN dir = {} /\ firm = {} /\ acked = {}
  BY <1>1, <1>2 DEF IInv
<1>4. p \in File /\ p.data = {Schema} /\ p.whole
  <2>1. {Schema} \in SUBSET Items /\ 0 \in Nat
    BY DEF Items
  <2>2. p \in File
    BY <2>1, FilesOK
  <2> QED BY <2>2 DEF Pages
<1> HIDE DEF p
<1>5. DOMAIN dir' = {"db"} /\ dir'["db"] = p
  BY <1>1, <1>3 DEF With
<1>6. Seen(dir') = {Schema}
  BY <1>4, <1>5, SeenPages
<1>7. acked' = {Schema} /\ firm' = {Schema}
  BY <1>1, <1>3, <1>4, <1>5, <1>6
<1>8. Sound(dir', {Schema}, {Schema}, budget')
  BY <1>4, <1>5 DEF Sound, Holds
<1>9. Card'
  BY <1>1, <1>5, <1>6, <1>7, <1>8 DEF Card, Firm, Stored
<1>10. DirOK(dir')
  BY <1>4, <1>5 DEF DirOK, Name
<1> QED BY <1>1, <1>2, <1>3, <1>5, <1>6, <1>7, <1>9, <1>10

LEMMA OpenStep ==
    ASSUME IInv, Open
    PROVE  IInv'
<1>1. /\ at = "opening" /\ at' = "idle" /\ up' = "open"
      /\ UNCHANGED <<swapping, copy, job, round, failed, reading, view, budget>>
  BY DEF Open, swapVars, readVars
<1>2. /\ Card' /\ DirOK(dir)' /\ DirOK(synced)' /\ Exists("db")'
      /\ Seen(dir') = acked' /\ acked \subseteq acked' /\ acked' \in SUBSET Items
      /\ "db" \in DOMAIN synced' /\ synced'["db"] = dir'["db"] /\ acked' # {}
  <2>1. CASE Exists("db")
    BY <2>1, Opens
  <2>2. CASE ~Exists("db")
    BY <2>2, Created DEF Items
  <2> QED BY <2>1, <2>2
<1>3. Local' /\ BudgetOK'
  BY <1>1, <1>2 DEF IInv, Typed, Local, BudgetOK
<1>4. Shape' /\ Fresh' /\ SameDb'
  BY <1>1, <1>2 DEF IInv
<1> QED BY <1>2, <1>3, <1>4 DEF IInv, Typed

LEMMA ReopenStep ==
    ASSUME IInv, Reopen
    PROVE  IInv'
<1>1. /\ at = "reopen" /\ up = "open" /\ Exists("db") /\ Live /\ copy' = {}
      /\ Sound(dir, acked, firm, budget) /\ Sound(synced, acked, firm, budget)
      /\ "db" \in DOMAIN synced /\ synced["db"] = dir["db"] /\ DirOK(dir) /\ DirOK(synced)
  BY LiveOnce DEF Reopen, IInv, Typed, Card
<1>2. dir' = dir
  BY <1>1, NotMixed DEF Reopen
<1>3. UNCHANGED <<synced, up, swapping, round, failed, reading, view, budget>>
  BY DEF Reopen, readVars
<1>4. at' \in IF failed THEN {"drop"} ELSE {"idle", "twin"}
  BY DEF Reopen
<1>5. acked' = Seen(dir) /\ acked \subseteq acked' /\ acked' \in SUBSET Items /\ Card'
  <2>1. CASE failed
    <3>1. acked' = acked /\ firm' = firm
      BY <2>1 DEF Reopen
    <3>2. Seen(dir) = acked
      BY <1>1, <2>1 DEF IInv
    <3> QED BY <1>1, <1>2, <1>3, <3>1, <3>2 DEF IInv, Card, Firm, Stored, Typed, Local
  <2>2. CASE ~failed
    <3>1. acked' = acked \cup copy /\ firm' = acked'
      BY <2>2 DEF Reopen
    <3>2. /\ acked \subseteq copy /\ dir["db"].data = copy /\ "wal" \notin DOMAIN dir
          /\ copy \in SUBSET Items
      BY <1>1, <2>2 DEF IInv, Typed, Local
    <3>3. Seen(dir) = copy
      BY <3>2, SeenPages
    <3>4. Sound(dir', acked', firm', budget') /\ Sound(synced', acked', firm', budget')
      BY <1>1, <1>2, <1>3, <3>1, <3>2 DEF Sound, Holds
    <3>5. Card'
      BY <1>1, <1>2, <3>1, <3>2, <3>3, <3>4 DEF Card, Firm, Stored
    <3> QED BY <3>1, <3>2, <3>3, <3>5
  <2> QED BY <2>1, <2>2
<1>6. job' \in {job, "none"} /\ (at' # "idle" => job' = job)
  BY DEF Reopen
<1>7. Local' /\ BudgetOK'
  BY <1>1, <1>3, <1>5, <1>6 DEF IInv, Typed, Local, BudgetOK
<1>8. Shape' /\ Fresh' /\ SameDb'
  BY <1>1, <1>2, <1>3, <1>4, <1>5, <1>6 DEF IInv
<1> QED BY <1>1, <1>2, <1>3, <1>5, <1>7, <1>8 DEF IInv, Typed

-----------------------------------------------------------------------------
(* The renames *)

\* The copy, or the old file, gets the database's name.
LEMMA NamedDb ==
    ASSUME IInv, Spends, UNCHANGED history, synced' = synced, Live, ~Exists("db"),
           NEW a \in {"new", "old"}, Exists(a), dir' = Moved(dir, a, "db")
    PROVE  /\ Card' /\ DirOK(dir)' /\ DirOK(synced)' /\ BudgetOK' /\ Exists("db")'
           /\ Seen(dir') = dir[a].data /\ dir'["db"].data = dir[a].data
           /\ DOMAIN dir' = (DOMAIN dir \ {a}) \cup {"db"} /\ "wal" \notin DOMAIN dir'
           /\ \A n \in DOMAIN dir : n # a => dir'[n] = dir[n]
<1>1. /\ DirOK(dir) /\ DirOK(synced) /\ "wal" \notin DOMAIN dir /\ Holds(dir[a], firm)
      /\ acked \subseteq dir[a].data /\ acked' = acked /\ firm' = firm
  BY DEF IInv, Typed, Card, Sound, Stored, history
<1>2. /\ DOMAIN dir' = (DOMAIN dir \ {a}) \cup {"db"} /\ dir'["db"] = dir[a]
      /\ \A n \in DOMAIN dir : n # a => dir'[n] = dir[n]
  BY DEF Moved, With, Without, Restrict
<1>3. DirOK(dir')
  BY <1>1, <1>2 DEF DirOK, Name
<1>4. Seen(dir') = dir[a].data
  BY <1>1, <1>2, SeenPages
<1>5. Sound(dir', acked, firm, budget')
  BY <1>1, <1>2 DEF Sound
<1>6. Sound(synced, acked, firm, budget')
  BY SoundStays DEF IInv, Card, Spends
<1>7. Card'
  BY <1>1, <1>2, <1>4, <1>5, <1>6 DEF Card, Firm, Stored, IInv
<1> QED BY <1>1, <1>2, <1>3, <1>4, <1>7 DEF Spends

LEMMA FinishNewStep ==
    ASSUME IInv, FinishNew
    PROVE  IInv'
<1>1. /\ Spends /\ UNCHANGED history /\ synced' = synced /\ ~Exists("db") /\ Exists("new") /\ Live
      /\ dir' = Moved(dir, "new", "db") /\ at = "finish" /\ at' = "newsync"
      /\ UNCHANGED <<up, swapping, copy, job, round, failed, reading, view>>
  BY Spending DEF FinishNew, TakesNew, startKeeps, readVars, history, Works, IInv, Typed
<1>2. /\ Card' /\ DirOK(dir)' /\ DirOK(synced)' /\ BudgetOK' /\ Exists("db")'
  BY <1>1, NamedDb
<1>3. Local'
  BY <1>1 DEF history, IInv, Typed, Local
<1>4. Shape' /\ Fresh' /\ SameDb'
  BY <1>1, <1>2 DEF history, IInv
<1> QED BY <1>2, <1>3, <1>4 DEF IInv, Typed

LEMMA FinishOldStep ==
    ASSUME IInv, FinishOld
    PROVE  IInv'
<1>1. /\ Spends /\ UNCHANGED history /\ synced' = synced /\ ~Exists("db") /\ ~Exists("new")
      /\ at = "finish" /\ at' = "fsync"
      /\ UNCHANGED <<up, swapping, copy, job, round, failed, reading, view>>
  BY Spending DEF FinishOld, startKeeps, readVars, history, Works, IInv, Typed
<1>2. /\ Card' /\ DirOK(dir)' /\ DirOK(synced)' /\ BudgetOK'
      /\ ~Live => DOMAIN dir' = {}
  <2>1. CASE Exists("old")
    <3>1. Live /\ dir' = Moved(dir, "old", "db")
      BY <1>1, <2>1 DEF FinishOld, IInv
    <3> QED BY <1>1, <2>1, <3>1, NamedDb
  <2>2. CASE ~Exists("old")
    <3>1. dir' = dir
      BY <2>2 DEF FinishOld
    <3>2. ~Live => DOMAIN dir = {}
      BY <1>1 DEF IInv
    <3> QED BY <1>1, <3>1, <3>2, CardStays DEF cardVars
  <2> QED BY <2>1, <2>2
<1>3. Local'
  BY <1>1 DEF history, IInv, Typed, Local
<1>4. synced' = dir' \/ Live
  BY <1>1 DEF FinishOld, IInv
<1>5. Shape' /\ Fresh' /\ SameDb'
  BY <1>1, <1>2, <1>4 DEF history, IInv
<1> QED BY <1>2, <1>3, <1>5 DEF IInv, Typed

LEMMA RenameOldStep ==
    ASSUME IInv, RenameOld
    PROVE  IInv'
<1>1. /\ Spends /\ UNCHANGED history /\ synced' = synced /\ at = "ren1" /\ Live
      /\ UNCHANGED <<up, swapping, copy, job, round, reading, view>>
  BY Spending, LiveOnce DEF RenameOld, SwapFails, swapKeeps, readVars, history, Works, Errs,
     IInv, Typed
<1>2. /\ Exists("db") /\ Exists("new") /\ Exists("marker") /\ ~Exists("old") /\ ~Exists("wal")
      /\ dir["new"].whole /\ dir["new"].data = copy /\ acked \subseteq copy /\ ~failed
      /\ acked' = acked /\ firm' = firm /\ firm \subseteq acked
      /\ DirOK(dir) /\ DirOK(synced) /\ Holds(dir["db"], firm) /\ acked \subseteq Seen(dir)
  BY <1>1 DEF IInv, Card, Firm, Sound, Stored, Typed, history
<1>3. Seen(dir) = dir["db"].data
  BY <1>2, SeenPages
<1>4. CASE dir' = Moved(dir, "db", "old") /\ at' = "ren1sync" /\ failed' = failed
  <2>1. /\ DOMAIN dir' = (DOMAIN dir \ {"db"}) \cup {"old"} /\ dir'["old"] = dir["db"]
        /\ \A n \in DOMAIN dir : n \notin {"db", "old"} => dir'[n] = dir[n]
    BY <1>4 DEF Moved, With, Without, Restrict
  <2>2. DirOK(dir')
    BY <1>2, <2>1 DEF DirOK, Name
  <2>3. Sound(dir', acked, firm, budget')
    BY <1>2, <2>1 DEF Sound, Holds
  <2>4. Sound(synced, acked, firm, budget')
    BY <1>1, SoundStays DEF IInv, Card, Spends
  <2>5. Card'
    BY <1>1, <1>2, <1>3, <2>1, <2>3, <2>4 DEF Card, Firm, Stored, IInv
  <2>6. Local'
    BY <1>1, <1>2, <1>4 DEF history, IInv, Typed, Local
  <2>7. Shape' /\ Fresh' /\ SameDb'
    BY <1>1, <1>2, <1>3, <1>4, <2>1 DEF IInv
  <2> QED BY <1>1, <1>2, <2>2, <2>5, <2>6, <2>7 DEF IInv, Typed, Spends
<1>5. CASE dir' \in {dir, Without(dir, {"marker"})} /\ at' = "reopen" /\ failed' = TRUE
  <2>1. Beside(dir, dir')
    BY <1>2, <1>5 DEF Beside, Without, Restrict
  <2>2. DirOK(dir')
    BY <1>2, <1>5, WithoutOK
  <2>3. Card' /\ DirOK(dir)' /\ DirOK(synced)' /\ BudgetOK' /\ Seen(dir') = Seen(dir)
    BY <1>1, <1>2, <2>1, <2>2, CardBeside
  <2>4. Local'
    BY <1>1, <1>2, <1>5 DEF history, IInv, Typed, Local
  <2>5. Shape' /\ Fresh' /\ SameDb'
    BY <1>1, <1>2, <1>5, <2>1, <2>3 DEF Beside, IInv
  <2> QED BY <2>3, <2>4, <2>5 DEF IInv, Typed
<1> QED BY <1>4, <1>5 DEF RenameOld, SwapFails

LEMMA RenameNewStep ==
    ASSUME IInv, RenameNew
    PROVE  IInv'
<1>1. /\ Spends /\ UNCHANGED history /\ synced' = synced /\ at = "ren2" /\ Live
      /\ UNCHANGED <<up, swapping, copy, job, round, reading, view>>
  BY Spending, LiveOnce DEF RenameNew, SwapFails, swapKeeps, readVars, history, Works, Errs,
     IInv, Typed
<1>2. /\ ~Exists("db") /\ Exists("new") /\ Exists("old") /\ ~Exists("wal")
      /\ dir["new"].data = copy /\ acked \subseteq copy /\ ~failed /\ acked' = acked
      /\ up = "open" => dir["old"].data = acked
  BY <1>1 DEF IInv, history
<1>3. CASE dir' = Moved(dir, "new", "db") /\ at' = "ren2sync" /\ failed' = failed
  <2>1. /\ Card' /\ DirOK(dir)' /\ DirOK(synced)' /\ BudgetOK' /\ Exists("db")'
        /\ dir'["db"].data = dir["new"].data /\ "wal" \notin DOMAIN dir'
    BY <1>1, <1>2, <1>3, NamedDb
  <2>2. Local'
    BY <1>1, <1>2, <1>3 DEF history, IInv, Typed, Local
  <2>3. Shape' /\ Fresh' /\ SameDb'
    BY <1>1, <1>2, <1>3, <2>1 DEF IInv
  <2> QED BY <2>1, <2>2, <2>3 DEF IInv, Typed
<1>4. CASE dir' = Moved(dir, "old", "db") /\ at' = "backsync" /\ failed' = TRUE
  <2>1. /\ Card' /\ DirOK(dir)' /\ DirOK(synced)' /\ BudgetOK' /\ Exists("db")'
        /\ Seen(dir') = dir["old"].data
    BY <1>1, <1>2, <1>4, NamedDb
  <2>2. Local'
    BY <1>1, <1>2, <1>4 DEF history, IInv, Typed, Local
  <2>3. Shape' /\ Fresh' /\ SameDb'
    BY <1>1, <1>2, <1>4, <2>1 DEF IInv
  <2> QED BY <2>1, <2>2, <2>3 DEF IInv, Typed
<1>5. CASE dir' = dir /\ at' = "backsync" /\ failed' = TRUE /\ Errs
  <2>1. Card' /\ DirOK(dir)' /\ DirOK(synced)' /\ BudgetOK'
    BY <1>1, <1>5, CardStays DEF cardVars
  <2>2. Erred(budget')
    BY <1>5, Spending DEF IInv, Typed
  <2>3. Local'
    BY <1>1, <1>2, <1>5 DEF history, IInv, Typed, Local
  <2>4. Shape' /\ Fresh' /\ SameDb'
    BY <1>1, <1>2, <1>5, <2>2 DEF IInv
  <2> QED BY <2>1, <2>3, <2>4 DEF IInv, Typed
<1> QED BY <1>3, <1>4, <1>5 DEF RenameNew, SwapFails

-----------------------------------------------------------------------------
(* Power cuts *)

\* A prefix of the frames is what is left of the WAL.
LEMMA CutLog ==
    ASSUME NEW d, DirOK(d), NEW k \in 0 .. Len(Log(d))
    PROVE  /\ SubSeq(Log(d), 1, k) \in Seq(Items)
           /\ Range(SubSeq(Log(d), 1, k)) \subseteq Range(Log(d))
           /\ "wal" \notin DOMAIN d => Range(SubSeq(Log(d), 1, k)) = {}
<1> DEFINE L == Log(d)
           l == SubSeq(L, 1, k)
<1>1. L \in Seq(Items) /\ Len(L) \in Nat /\ k \in Nat /\ k <= Len(L)
  BY LogOK, LenProperties
<1>2. "wal" \notin DOMAIN d => Range(L) = {}
  BY DEF Log, Range
<1> HIDE DEF L
<1>3. l \in Seq(Items) /\ Len(l) = k /\ DOMAIN L = 1 .. Len(L) /\ DOMAIN l = 1 .. Len(l)
      /\ \A i \in 1 .. k : l[i] = L[i]
  <2>1. \A i \in 1 .. k : L[i] \in Items
    BY <1>1
  <2>2. l \in Seq(Items) /\ Len(l) = k /\ \A i \in 1 .. k : l[i] = L[i]
    BY <1>1, <2>1
  <2> QED BY <1>1, <2>2, LenProperties
<1>4. Range(l) \subseteq Range(L)
  BY <1>1, <1>3 DEF Range
<1> QED BY <1>2, <1>3, <1>4 DEF L

LEMMA PowerCutStep ==
    ASSUME IInv, PowerCut
    PROVE  IInv'
<1>1. Spends
  BY Spending DEF PowerCut, IInv, Typed
<1>2. /\ up' = "down" /\ at' = "off" /\ swapping' = FALSE /\ copy' = {} /\ job' = "none" /\ round' = 1
      /\ failed' = FALSE /\ reading' = FALSE /\ view' = {} /\ synced' = dir' /\ firm' = firm
  BY DEF PowerCut, Dies
<1>3. PICK d \in {dir, synced} : \E k \in 0 .. Len(Log(d)) :
          /\ dir' = IF "wal" \in DOMAIN d
                      THEN With(d, "wal", Frames(d["wal"].gen, SubSeq(Log(d), 1, k))) ELSE d
          /\ acked' = firm \cup (acked \cap Range(SubSeq(Log(d), 1, k)))
  BY DEF PowerCut
<1>4. DirOK(d) /\ Sound(d, acked, firm, budget) /\ firm \subseteq acked /\ (Live <=> firm # {})
      /\ acked \in SUBSET Items
  BY DEF IInv, Typed, Local, Card, Firm
<1>5. PICK k \in 0 .. Len(Log(d)) :
          /\ dir' = IF "wal" \in DOMAIN d
                      THEN With(d, "wal", Frames(d["wal"].gen, SubSeq(Log(d), 1, k))) ELSE d
          /\ acked' = firm \cup (acked \cap Range(SubSeq(Log(d), 1, k)))
  BY <1>3
<1> DEFINE l == SubSeq(Log(d), 1, k)
           w == Frames(d["wal"].gen, l)
<1>6. /\ l \in Seq(Items) /\ Range(l) \subseteq Range(Log(d))
      /\ "wal" \notin DOMAIN d => Range(l) = {}
  BY <1>4, CutLog
<1>7. acked' = firm \cup (acked \cap Range(l)) /\ acked' \subseteq acked /\ firm \subseteq acked'
      /\ ("wal" \notin DOMAIN d => acked' = firm) /\ (Live <=> Live')
  BY <1>4, <1>5, <1>6
<1>8. /\ "wal" \in DOMAIN d => dir' = With(d, "wal", w)
      /\ "wal" \notin DOMAIN d => dir' = d
  BY <1>5
<1> HIDE DEF l
<1>9. "wal" \in DOMAIN d => w \in File
  BY <1>4, <1>6, FilesOK DEF DirOK, File
<1>10. w.log = l /\ w.gen = d["wal"].gen
  BY DEF Frames
<1> HIDE DEF w
<1>11. /\ DOMAIN dir' = DOMAIN d /\ \A n \in DOMAIN d : n # "wal" => dir'[n] = d[n]
       /\ "wal" \in DOMAIN d => dir'["wal"] = w
  BY <1>8 DEF With
<1>12. DirOK(dir')
  BY <1>4, <1>9, <1>11 DEF DirOK
<1>13. Sound(dir', acked', firm, budget')
  <2>1. Sound(d, acked', firm, budget')
    BY <1>1, <1>4, <1>7, SoundStays DEF Spends
  <2> QED BY <1>10, <1>11, <2>1 DEF Sound
<1>14. Stored'
  <2>1. CASE "db" \in DOMAIN d /\ "wal" \in DOMAIN d
    <3>1. Seen(dir') = d["db"].data \cup Range(l)
      BY <1>10, <1>11, <2>1 DEF Seen, Log
    <3> QED BY <1>4, <1>7, <1>11, <2>1, <3>1 DEF Stored, Sound, Holds
  <2>2. CASE "db" \in DOMAIN d /\ "wal" \notin DOMAIN d
    <3>1. Seen(dir') = d["db"].data
      BY <1>11, <2>2, SeenPages
    <3> QED BY <1>4, <1>7, <1>11, <2>2, <3>1 DEF Stored, Sound, Holds
  <2>3. CASE "db" \notin DOMAIN d
    BY <1>4, <1>7, <1>11, <2>3 DEF Stored, Sound, Holds
  <2> QED BY <2>1, <2>2, <2>3
<1>15. Card'
  BY <1>2, <1>4, <1>7, <1>13, <1>14 DEF Card, Firm
<1>16. Fresh'
  <2>1. CASE ~Live
    <3>1. d = dir /\ "wal" \notin DOMAIN dir /\ firm = {} /\ DOMAIN dir \subseteq {"new"}
          /\ (Exists("new") => ~dir["new"].whole)
      BY <2>1 DEF IInv
    <3> QED BY <1>2, <1>8, <3>1
  <2>2. CASE Live
    BY <1>7, <2>2
  <2> QED BY <2>1, <2>2
<1>17. Local'
  BY <1>2, <1>4, <1>7 DEF Local
<1>18. Shape' /\ SameDb'
  BY <1>2
<1> QED BY <1>1, <1>2, <1>12, <1>15, <1>16, <1>17, <1>18 DEF IInv, Typed, Spends

LEMMA TornRenameStep ==
    ASSUME IInv, TornRename
    PROVE  IInv'
<1>1. /\ up' = "down" /\ at' = "off" /\ swapping' = FALSE /\ copy' = {} /\ job' = "none" /\ round' = 1
      /\ failed' = FALSE /\ reading' = FALSE /\ view' = {} /\ synced' = dir'
      /\ acked' = acked /\ firm' = firm
  BY DEF TornRename, Dies, history
<1>2. /\ BudgetOK'
      /\ Easy(budget') => Easy(budget) /\ budget.torn = budget.of.torn
      /\ budget'.torn # budget'.of.torn
  <2>1. budget.torn > 0 /\ budget' = [budget EXCEPT !.torn = @ - 1] /\ BudgetOK
    BY DEF TornRename, IInv, Typed
  <2>2. /\ budget'.crashes = budget.crashes /\ budget'.errors = budget.errors /\ budget'.of = budget.of
        /\ budget'.torn = budget.torn - 1
    BY <2>1 DEF BudgetOK
  <2>3. BudgetOK'
    BY <2>1, <2>2 DEF BudgetOK
  <2> QED BY <2>1, <2>2, <2>3 DEF BudgetOK, Easy
<1>3. PICK r \in Renaming : dir' = Without(dir, {r[1], r[2]})
  BY DEF TornRename
<1>4. \/ at = "ren1" /\ r = <<"db", "old">>
      \/ at = "ren2" /\ r \in {<<"new", "db">>, <<"old", "db">>}
      \/ at = "finish" /\ ~Exists("db") /\ Exists("new") /\ dir["new"].whole /\ r = <<"new", "db">>
      \/ at = "finish" /\ ~Exists("db") /\ ~Exists("new") /\ Exists("old") /\ r = <<"old", "db">>
  BY <1>3 DEF Renaming, TakesNew
<1>5. /\ Live /\ Sound(dir, acked, firm, budget) /\ Stored /\ DirOK(dir) /\ firm \subseteq acked
  BY <1>4, LiveOnce DEF IInv, Card, Typed, Firm
<1>6. ASSUME at = "ren1" /\ r = <<"db", "old">>
      PROVE  Sound(dir', acked, firm, budget') /\ Stored'
  <2>1. /\ "marker" \in DOMAIN dir /\ "new" \in DOMAIN dir /\ "wal" \notin DOMAIN dir /\ dir["new"].whole
        /\ acked \subseteq dir["new"].data
    BY <1>6 DEF IInv
  <2>2. DOMAIN dir' = DOMAIN dir \ {"db", "old"} /\ \A n \in DOMAIN dir' : dir'[n] = dir[n]
    BY <1>3, <1>6 DEF Without, Restrict
  <2>3. Sound(dir', acked, firm, budget') /\ Stored'
    BY <1>1, <1>2, <1>5, <2>1, <2>2 DEF Sound, Stored, Holds
  <2> QED BY <2>3
<1>7. ASSUME at # "ren1"
      PROVE  Sound(dir', acked, firm, budget') /\ Stored'
  <2>1. "db" \notin DOMAIN dir /\ "wal" \notin DOMAIN dir
    BY <1>4, <1>5, <1>7 DEF Sound, IInv
  <2>2. \/ DOMAIN dir' = DOMAIN dir \ {"new"} /\ (Easy(budget') => "old" \in DOMAIN dir)
        \/ DOMAIN dir' = DOMAIN dir \ {"old"} /\ (Easy(budget') => "new" \in DOMAIN dir)
    <3>1. Easy(budget') => "new" \in DOMAIN dir /\ "old" \in DOMAIN dir
      BY <1>2, <1>5, <2>1 DEF Sound
    <3> QED BY <1>3, <1>4, <1>7, <2>1, <3>1 DEF Without, Restrict
  <2>3. \A n \in DOMAIN dir' : dir'[n] = dir[n]
    BY <1>3 DEF Without, Restrict
  <2>4. Sound(dir', acked, firm, budget') /\ Stored'
    BY <1>1, <1>2, <1>5, <2>1, <2>2, <2>3 DEF Sound, Stored
  <2> QED BY <2>4
<1>8. Sound(dir', acked, firm, budget') /\ Stored'
  BY <1>4, <1>6, <1>7
<1>9. DirOK(dir')
  BY <1>3, <1>5, WithoutOK
<1>10. Card'
  BY <1>1, <1>5, <1>8 DEF Card, Firm, IInv
<1>11. Local'
  BY <1>1 DEF Local, IInv, Typed
<1>12. Shape' /\ Fresh' /\ SameDb'
  BY <1>1, <1>5
<1> QED BY <1>1, <1>2, <1>9, <1>10, <1>11, <1>12 DEF IInv, Typed

-----------------------------------------------------------------------------
(* The invariant *)

LEMMA InitInv == Init => IInv
<1> SUFFICES ASSUME Init PROVE IInv
  OBVIOUS
<1>1. /\ synced = dir /\ up = "down" /\ at = "off" /\ swapping = FALSE /\ copy = {} /\ job = "none"
      /\ round = 1 /\ failed = FALSE /\ reading = FALSE /\ view = {} /\ firm = acked
      /\ acked = IF "db" \in DOMAIN dir THEN dir["db"].data ELSE {}
  BY DEF Init
<1>2. BudgetOK
  <2>1. PICK l \in Limits :
            budget = [crashes |-> l.crashes, torn |-> l.torn, errors |-> l.errors, of |-> l]
    BY DEF Init
  <2>2. l \in [crashes : Nat, torn : Nat, errors : Nat]
    BY BoundsAssumption
  <2> QED BY <2>1, <2>2 DEF BudgetOK
<1>3. \/ DOMAIN dir = {}
      \/ /\ DOMAIN dir = {"db"} /\ dir["db"] \in File /\ dir["db"].whole
         /\ dir["db"].data # {} /\ dir["db"].data \in SUBSET Items
      \/ DOMAIN dir = {"new"} /\ dir["new"] \in File /\ ~dir["new"].whole
  <2>1. CASE dir = [n \in {} |-> Marker]
    BY <2>1
  <2>2. CASE dir = [n \in {"db"} |-> Pages(0, IF Migrated THEN {Base, Schema} ELSE {Base})]
    <3> DEFINE D == IF Migrated THEN {Base, Schema} ELSE {Base}
    <3>1. D \in SUBSET Items /\ D # {} /\ 0 \in Nat
      BY DEF Items
    <3>2. DOMAIN dir = {"db"} /\ dir["db"] = Pages(0, D)
      BY <2>2
    <3> HIDE DEF D
    <3>3. Pages(0, D) \in File
      BY <3>1, FilesOK
    <3>4. Pages(0, D).whole /\ Pages(0, D).data = D
      BY DEF Pages
    <3> QED BY <3>1, <3>2, <3>3, <3>4
  <2>3. CASE dir = [n \in {"new"} |-> [Pages(1, {Base}) EXCEPT !.whole = FALSE]]
    <3> DEFINE f == [Pages(1, {Base}) EXCEPT !.whole = FALSE]
    <3>1. {Base} \in SUBSET Items /\ 1 \in Nat
      BY DEF Items
    <3>2. f \in File
      BY <3>1, FilesOK
    <3>3. ~f.whole
      BY DEF Pages
    <3>4. DOMAIN dir = {"new"} /\ dir["new"] = f
      BY <2>3
    <3> QED BY <3>2, <3>3, <3>4
  <2> QED BY <2>1, <2>2, <2>3 DEF Init
<1>4. DirOK(dir)
  BY <1>3 DEF DirOK, Name
<1>5. Local
  BY <1>1, <1>3 DEF Local
<1>6. Card
  <2>1. Sound(dir, acked, firm, budget)
    BY <1>1, <1>3 DEF Sound, Holds
  <2>2. Stored
    BY <1>1, <1>3, SeenPages DEF Stored
  <2> QED BY <1>1, <2>1, <2>2 DEF Card, Firm
<1>7. Shape /\ Fresh /\ SameDb
  BY <1>1, <1>3
<1> QED BY <1>1, <1>2, <1>4, <1>5, <1>6, <1>7 DEF IInv, Typed

LEMMA NextInv == IInv /\ [Next]_vars => IInv'
<1> SUFFICES ASSUME IInv, [Next]_vars PROVE IInv'
  OBVIOUS
<1>1. CASE UNCHANGED vars
  BY <1>1 DEF vars, cardVars, swapVars, readVars, history, IInv, Typed, Local, BudgetOK, Card,
     Firm, Stored
<1>2. CASE Start \/ SyncDir \/ Write \/ AutoCheckpoint \/ BeginRead \/ EndRead \/ TakeTurn
  BY <1>2, StartStep, SyncDirStep, WriteStep, AutoCheckpointStep, BeginReadStep, EndReadStep,
     TakeTurnStep
<1>3. CASE Recovering
  BY <1>3, LookStep, FinishDoneStep, FinishNewStep, FinishStopsStep, FinishOldStep, UnmarkStep,
     FinishFailsStep, RemoveStaleStep, MigrateLeftStep, MigrateInRamStep, MigrateOnCardStep,
     OpenStep, OpenRefusesStep DEF Recovering
<1>4. CASE Importing
  BY <1>4, EmptyStep, CopyInStep, WorkStep, GiveUpStep, ImportOnCardStep, MakeTwinStep,
     SkipTwinStep DEF Importing
<1>5. CASE Swap
  BY <1>5, WriteNewStep, WroteNewStep, StopBackStep, UnsharedStep, CloseStep, CloseFailsStep,
     RemoveWalStep, MarkStep, RenameOldStep, RenameNewStep, RemoveBackMarkStep, RemoveOldStep,
     RemoveMarkStep, ReopenStep, ReopenFailsStep, SwappedAtStartStep, DropStep DEF Swap
<1>6. CASE Crash
  BY <1>6, KillStep, PowerCutStep, TornRenameStep DEF Crash
<1> QED BY <1>1, <1>2, <1>3, <1>4, <1>5, <1>6 DEF Next

LEMMA Invariant == Spec => []IInv
BY InitInv, NextInv, PTL DEF Spec

-----------------------------------------------------------------------------
(* What holds of every behaviour *)

\* Every variable keeps its type: at every step of a start, an import, a swap and a crash
\* the card holds files under the names it may hold, and the budget stays within its limits.
THEOREM TypeCorrect == Spec => []TypeOK
<1>1. IInv => TypeOK
  <2> SUFFICES ASSUME IInv PROVE TypeOK
    OBVIOUS
  <2>1. at \in Steps
    BY DEF IInv, Steps, Swapped, SyncThen
  <2>2. firm \in SUBSET Items
    BY DEF IInv, Typed, Local, Card, Firm
  <2>3. \A k \in {"crashes", "torn", "errors"} : budget[k] \in 0 .. budget.of[k]
    BY DEF IInv, Typed, BudgetOK
  <2>4. up \in {"down", "start", "open", "broken", "refused"} /\ budget.of \in Limits
    BY DEF IInv, Typed, BudgetOK
  <2>5. at \in {"empty", "copy", "work", "card"} => job \in Imports
    BY DEF IInv
  <2> QED BY <2>1, <2>2, <2>3, <2>4, <2>5 DEF TypeOK, IInv, Typed, DirOK, Local
<1> QED BY <1>1, Invariant, PTL

\* Under the invariant, what is served is exactly what was reported as stored.
LEMMA Served ==
    ASSUME IInv, up = "open", at \notin Swapped
    PROVE  Exists("db") /\ Seen(dir) = acked
BY DEF IInv, Swapped

\* While the process serves the database it is one whole file, with no other file's frames
\* beside it, and holds exactly what was reported as stored: whatever swap, failure, kill or
\* power cut came before (swap.rs, open_pair).
THEOREM ServesOneDatabase == Spec => []OneDatabase
<1>1. IInv => OneDatabase
  BY Served, NotMixed DEF OneDatabase, IInv, Card, Sound, Holds
<1> QED BY <1>1, Invariant, PTL

\* From the card as it is and as it was synced, a start finds a whole file with everything
\* that is firm, as long as no file operation failed and at most one rename was torn
\* (install_file, finish_swap).
THEOREM StartRecovers == Spec => []AlwaysRecoverable
<1>1. IInv => AlwaysRecoverable
  <2> SUFFICES ASSUME IInv, NEW d \in {dir, synced}, Live, Calm
               PROVE  \E n \in Taken(d) : d[n].whole /\ firm \subseteq d[n].data
    BY DEF AlwaysRecoverable
  <2>1. Sound(d, acked, firm, budget) /\ Easy(budget)
    BY DEF IInv, Card, Calm, Easy
  <2>2. CASE "db" \in DOMAIN d
    BY <2>1, <2>2 DEF Taken, Sound, Holds
  <2>3. CASE "db" \notin DOMAIN d /\ "new" \in DOMAIN d
    BY <2>1, <2>3 DEF Taken, Sound, Holds
  <2>4. CASE "db" \notin DOMAIN d /\ "new" \notin DOMAIN d
    BY <2>1, <2>4 DEF Taken, Sound, Holds
  <2> QED BY <2>2, <2>3, <2>4
<1> QED BY <1>1, Invariant, PTL

\* While the process is up, a read never sees less than an earlier one: what a read saw was
\* stored, and what is served never loses what was stored (db/mod.rs, the reader's lock).
THEOREM ReadsOnlyGrow == Spec => ReadsNeverGoBack
<1>1. IInv /\ [Next]_vars => [up = "open" /\ up' = "open" => view \subseteq view']_vars
  <2> SUFFICES ASSUME IInv, Next, up = "open", up' = "open" PROVE view \subseteq view'
    BY DEF vars, readVars
  <2>1. CASE BeginRead
    <3>1. Exists("db") /\ Seen(dir) = acked /\ view \subseteq acked
      BY <2>1, Served DEF BeginRead, ReaderFree, IInv
    <3> QED BY <2>1, <3>1 DEF BeginRead
  <2>2. CASE Start \/ SyncDir \/ Write \/ AutoCheckpoint \/ EndRead \/ TakeTurn
    BY <2>2 DEF Start, startKeeps, SyncDir, Write, Commit, AutoCheckpoint, EndRead, TakeTurn,
       importKeeps, readVars
  <2>3. CASE Recovering
    BY <2>3 DEF Recovering, Look, FinishDone, FinishNew, FinishStops, FinishOld, Unmark,
       FinishFails, RemoveStale, MigrateLeft, MigrateInRam, MigrateOnCard, Open, OpenRefuses,
       Refuse, startKeeps, readVars
  <2>4. CASE Importing
    BY <2>4 DEF Importing, Empty, CopyIn, Work, GiveUp, ImportOnCard, Commit, MakeTwin,
       SkipTwin, importKeeps, readVars
  <2>5. CASE Swap
    BY <2>5 DEF Swap, WriteNew, WroteNew, StopBack, Unshared, Close, CloseFails, RemoveWal,
       Mark, RenameOld, RenameNew, RemoveBackMark, RemoveOld, RemoveMark, RemoveLeftover,
       Reopen, ReopenFails, SwappedAtStart, Drop, SwapFails, swapKeeps, readVars
  <2>6. CASE Crash
    BY <2>6 DEF Crash, Kill, PowerCut, TornRename, Dies
  <2> QED BY <2>1, <2>2, <2>3, <2>4, <2>5, <2>6 DEF Next
<1> QED BY <1>1, Invariant, PTL DEF Spec, ReadsNeverGoBack

-----------------------------------------------------------------------------
(* The files keep the promise of one whole store *)

\* What the store is mapped to.
Status(u) == IF u \in {"open", "broken"} THEN u ELSE "down"
Shown     == IF up = "open" /\ at \notin Swapped THEN Seen(dir) ELSE acked

LEMMA ShownIs ==
    ASSUME IInv
    PROVE  Shown = acked /\ acked \in SUBSET Items /\ firm \subseteq acked
BY Served DEF Shown, IInv, Card, Firm, Typed, Local

\* The steps the store takes.
Quiet  == Status(up') = Status(up) /\ acked' = acked /\ firm' = firm
Shows == Status(up) = "down" /\ up' = "open" /\ acked \subseteq acked' /\ firm \subseteq firm'
Stores == up = "open" /\ up' = up /\ acked \subseteq acked' /\ firm' \in {firm, acked'}
Firms  == Status(up') = Status(up) /\ acked' = acked /\ firm' = acked
Stops  == Status(up') = "down" /\ acked' \subseteq acked /\ firm' = firm
Breaks == up = "open" /\ up' = "broken" /\ acked' = acked /\ firm' = firm

LEMMA Kinds ==
    ASSUME IInv, Next
    PROVE  Quiet \/ Shows \/ Stores \/ Firms \/ Stops \/ Breaks
<1>1. CASE Start \/ SyncDir \/ BeginRead \/ EndRead \/ TakeTurn
  <2>1. Quiet
    BY <1>1 DEF Quiet, Status, Start, startKeeps, SyncDir, BeginRead, EndRead, TakeTurn,
       importKeeps, history
  <2> QED BY <2>1
<1>2. CASE Look \/ FinishDone \/ FinishNew \/ FinishOld \/ Unmark \/ RemoveStale \/ MigrateLeft
  <2>1. Quiet
    BY <1>2 DEF Quiet, Status, Look, FinishDone, FinishNew, FinishOld, Unmark, RemoveStale,
       MigrateLeft, startKeeps, history
  <2> QED BY <2>1
<1>3. CASE FinishStops \/ FinishFails \/ OpenRefuses
  <2>1. at \in {"finish", "unmark", "opening"} /\ up' = "refused" /\ UNCHANGED history
    BY <1>3 DEF FinishStops, FinishFails, OpenRefuses, Refuse, startKeeps, history
  <2>2. up = "start"
    BY <2>1 DEF IInv
  <2>3. Quiet
    BY <2>1, <2>2 DEF Quiet, Status, history
  <2> QED BY <2>3
<1>4. CASE MigrateInRam \/ MigrateOnCard \/ AutoCheckpoint \/ Empty \/ Close
  <2>1. Firms
    BY <1>4 DEF Firms, Status, MigrateInRam, MigrateOnCard, AutoCheckpoint, Empty, Close,
       Checkpoint, importKeeps, swapKeeps
  <2> QED BY <2>1
<1>5. CASE Open
  <2>1. up = "start"
    BY <1>5 DEF Open, IInv
  <2>2. Shows
    BY <1>5, <2>1 DEF Shows, Status, Open
  <2> QED BY <2>2
<1>6. CASE Write \/ ImportOnCard
  <2>1. Quiet \/ Stores
    BY <1>6 DEF Quiet, Stores, Write, ImportOnCard, Commit, MayWrite, history
  <2> QED BY <2>1
<1>7. CASE CopyIn \/ Work \/ GiveUp \/ MakeTwin \/ SkipTwin
  <2>1. Quiet
    BY <1>7 DEF Quiet, CopyIn, Work, GiveUp, MakeTwin, SkipTwin, importKeeps, history
  <2> QED BY <2>1
<1>8. CASE \/ WriteNew \/ WroteNew \/ StopBack \/ Unshared \/ CloseFails \/ RemoveWal \/ Mark \/ RenameOld
           \/ RenameNew \/ RemoveBackMark \/ RemoveOld \/ RemoveMark \/ SwappedAtStart \/ Drop
  <2>1. Quiet
    BY <1>8 DEF Quiet, WriteNew, WroteNew, StopBack, Unshared, CloseFails, RemoveWal, Mark,
       RenameOld, RenameNew, RemoveBackMark, RemoveOld, RemoveMark, RemoveLeftover,
       SwappedAtStart, Drop, SwapFails, swapKeeps, history
  <2> QED BY <2>1
<1>9. CASE Reopen
  <2>1. Stores
    BY <1>9 DEF Stores, Reopen
  <2> QED BY <2>1
<1>10. CASE ReopenFails
  <2>1. Breaks
    BY <1>10 DEF Breaks, ReopenFails, history
  <2> QED BY <2>1
<1>11. CASE Crash
  <2>1. Stops
    BY <1>11, ShownIs DEF Stops, Status, Crash, Kill, PowerCut, TornRename, Dies, history
  <2> QED BY <2>1
<1> QED BY <1>1, <1>2, <1>3, <1>4, <1>5, <1>6, <1>7, <1>8, <1>9, <1>10, <1>11 DEF Next,
   Recovering, Importing, Swap

\* The refinement, step by step: the start's opening shows the store, a commit and the
\* reopening after a swap add to it, a checkpoint makes it firm, a kill or a power cut stops
\* it and takes at most what was not firm; every other step, all those of the swap between
\* its first rename and its last sync among them, leaves it as it was.
LEMMA StoreStep ==
    ASSUME IInv, IInv', [Next]_vars
    PROVE  [Store!Next]_<<Status(up), Shown, firm>>
<1>1. /\ Shown = acked /\ Shown' = acked' /\ acked \in SUBSET Items /\ acked' \in SUBSET Items
      /\ firm \subseteq acked /\ firm' \subseteq acked'
  <2>1. Shown = acked /\ acked \in SUBSET Items /\ firm \subseteq acked
    BY ShownIs
  <2>2. (Shown = acked /\ acked \in SUBSET Items /\ firm \subseteq acked)'
    BY ShownIs, PTL
  <2> QED BY <2>1, <2>2
<1>2. CASE UNCHANGED vars
  BY <1>2 DEF vars, cardVars, history, Status, Shown
<1>3. CASE Quiet
  BY <1>1, <1>3 DEF Quiet
<1>4. CASE Shows
  <2>1. Store!Open(acked')
    BY <1>1, <1>4 DEF Shows, Status, Shown, Store!Open
  <2> QED BY <1>1, <2>1 DEF Store!Next
<1>5. CASE Stores
  <2>1. Store!Commit(acked')
    BY <1>1, <1>5 DEF Stores, Shown, Store!Commit
  <2> QED BY <1>1, <2>1 DEF Store!Next
<1>6. CASE Firms
  <2>1. Store!Harden
    BY <1>1, <1>6 DEF Firms, Status, Shown, Store!Harden
  <2> QED BY <2>1 DEF Store!Next
<1>7. CASE Stops
  <2>1. Store!Cut(acked \ acked')
    BY <1>1, <1>7 DEF Stops, Status, Shown, Store!Cut
  <2>2. acked \ acked' \in SUBSET Items
    BY <1>1
  <2> QED BY <2>1, <2>2 DEF Store!Next
<1>8. CASE Breaks
  <2>1. Store!Break
    BY <1>1, <1>8 DEF Breaks, Shown, Store!Break
  <2> QED BY <2>1 DEF Store!Next
<1> QED BY <1>2, <1>3, <1>4, <1>5, <1>6, <1>7, <1>8, Kinds

\* The database files, whatever is renamed, synced, cut or killed, implement one whole store
\* that commits whole items and keeps what it acknowledged (db/mod.rs, db/swap.rs).
THEOREM ImplementsStore == Spec => KeepsStore
<1>1. Init => Store!Init
  <2> SUFFICES ASSUME Init PROVE Store!Init
    OBVIOUS
  <2>1. IInv /\ up = "down" /\ firm = acked
    BY InitInv DEF Init
  <2> QED BY <2>1, ShownIs DEF Store!Init, Shown
<1>2. IInv /\ IInv' /\ [Next]_vars => [Store!Next]_<<Status(up), Shown, firm>>
  BY StoreStep
<1> QED BY <1>1, <1>2, Invariant, PTL DEF Spec, KeepsStore, Store!Spec, Status, Shown

=============================================================================
