--------------------------- MODULE EvidenceProofs ---------------------------
(***************************************************************************)
(* Proofs about Evidence for any number of captures and of processes, any  *)
(* limit and any failures: its inductive invariant, that the only copy of  *)
(* a capture is never deleted, that a file on disk is never forgotten, and *)
(* that no delivery takes more captures than its limit.                    *)
(***************************************************************************)
EXTENDS Evidence, OldestFirst, TLAPS

USE MaxCapturesAssumption, LimitAssumption, MaxCrashesAssumption

-----------------------------------------------------------------------------
(* Files. *)

\* A file of some captures is a file of one of them.
LEMMA FilesOfMember ==
  ASSUME NEW cs, NEW f
  PROVE  f \in FilesOf(cs) <=> f \in Files /\ f[1] \in cs /\ f[2] \in taken[f[1]]
BY DEF FilesOf

\* More captures have more files.
LEMMA FilesOfGrows ==
  ASSUME NEW cs, NEW ds, cs \subseteq ds
  PROVE  FilesOf(cs) \subseteq FilesOf(ds)
BY DEF FilesOf

LEMMA BlankIsLocals == Blank \in Locals
BY DEF Blank, Locals, Positions

\* The initial states satisfy the invariant.
LEMMA InitEvidenceInv == Init => EvidenceInv
<1> SUFFICES ASSUME Init PROVE EvidenceInv
  OBVIOUS
<1>1. TypeOK
  BY BlankIsLocals DEF Init, TypeOK
<1>2. \A cs : FilesOf(cs) = {}
  BY DEF Init, FilesOf, Files
<1>3. FilesOK /\ DeliveredIsHeld /\ AllOrNothing /\ OnlyCopyKept /\ ForgottenMeansGone
  BY <1>2 DEF Init, FilesOK, DeliveredIsHeld, AllOrNothing, Known, OnlyCopyKept,
              ForgottenMeansGone
<1>4. RunsOK
  BY <1>2 DEF Init, RunsOK, RunOK, Blank
<1> QED
  BY <1>1, <1>3, <1>4 DEF EvidenceInv

-----------------------------------------------------------------------------
(* Steps that only move one process. *)

\* A process that changes its locals changes nobody else's.
LEMMA BecomeKeepsLocals ==
  ASSUME TypeOK, NEW d \in Deliverers, NEW l \in Locals, Become(d, l)
  PROVE  /\ run' \in [Deliverers -> Locals]
         /\ run'[d] = l
         /\ \A e \in Deliverers \ {d} : run'[e] = run[e]
BY DEF TypeOK, Become

\* A process may move to any local state that fits the files and the table.
LEMMA LocalStep ==
  ASSUME EvidenceInv, NEW d \in Deliverers, NEW l \in Locals, Become(d, l), RunOK(l),
         UNCHANGED <<taken, disk, stored, paths, delivered, held>>,
         crashes' \in 0 .. MaxCrashes
  PROVE  EvidenceInv'
<1>1. /\ run' \in [Deliverers -> Locals]
      /\ run'[d] = l
      /\ \A e \in Deliverers \ {d} : run'[e] = run[e]
  BY BecomeKeepsLocals DEF EvidenceInv
<1>2. TypeOK'
  BY <1>1 DEF EvidenceInv, TypeOK
<1>3. RunsOK'
  <2> SUFFICES ASSUME NEW e \in Deliverers PROVE RunOK(run[e])'
    BY DEF RunsOK
  <2>1. RunOK(run'[e])
    BY <1>1 DEF EvidenceInv, RunsOK
  <2> QED
    BY <2>1 DEF RunOK, ReadOK, HeldWhole, FilesOf
<1>4. (FilesOK /\ AllOrNothing /\ DeliveredIsHeld /\ OnlyCopyKept /\ ForgottenMeansGone)'
  BY DEF EvidenceInv, FilesOK, AllOrNothing, Known, DeliveredIsHeld, HeldWhole,
         OnlyCopyKept, ForgottenMeansGone, FilesOf
<1> QED
  BY <1>2, <1>3, <1>4 DEF EvidenceInv

LEMMA BlankIsOK == RunOK(Blank)
BY DEF RunOK, Blank, FilesOf


\* The loop turns to the next row: the same locals, without what was read.
LEMMA NextRowIsOK ==
  ASSUME EvidenceInv, NEW d \in Deliverers, run[d].at \in {"archive", "send"},
         NEW new \in SUBSET {run[d].current}, \A c \in new : HeldWhole(c)
  PROVE  LET l == [run[d] EXCEPT !.at = "screenshot", !.parts = {}, !.done = @ \cup new]
         IN  l \in Locals /\ RunOK(l)
<1> DEFINE l == [run[d] EXCEPT !.at = "screenshot", !.parts = {}, !.done = @ \cup new]
<1>1. run[d] \in Locals /\ stored \subseteq Captures
  BY DEF EvidenceInv, TypeOK
<1>2. RunOK(run[d]) /\ ReadOK(run[d])
  BY DEF EvidenceInv, RunsOK, RunOK
<1>3. run[d].current \in stored
  BY <1>2 DEF ReadOK
<1>4. l \in Locals
  BY <1>1, <1>3 DEF Locals, Positions
<1>5. RunOK(l)
  BY <1>1, <1>2, <1>3 DEF RunOK, Locals
<1> QED
  BY <1>4, <1>5

LEMMA StartKeepsInv ==
  ASSUME EvidenceInv, NEW d \in Deliverers, Start(d)
  PROVE  EvidenceInv'
<1> DEFINE l == [Blank EXCEPT !.at = "screenshot", !.batch = Pending]
<1>1. Pending \subseteq stored /\ stored \subseteq Captures
  BY DEF Pending, Undelivered, EvidenceInv, TypeOK
<1>2. l \in Locals
  BY <1>1, BlankIsLocals DEF Locals, Positions, Blank
<1>3. RunOK(l)
  BY <1>1 DEF RunOK, Blank, FilesOf
<1> HIDE DEF l
<1> QED
  BY <1>2, <1>3, LocalStep DEF Start, l, EvidenceInv, TypeOK

LEMMA ReadScreenshotKeepsInv ==
  ASSUME EvidenceInv, NEW d \in Deliverers, ReadScreenshot(d)
  PROVE  EvidenceInv'
<1>1. PICK c \in run[d].batch, parts \in SUBSET Files :
        /\ Reads(d, c, "screenshot", parts)
        /\ Become(d, [run[d] EXCEPT !.at = "archive", !.current = c,
                                    !.batch = @ \ {c}, !.parts = parts])
  BY DEF ReadScreenshot
<1> DEFINE l == [run[d] EXCEPT !.at = "archive", !.current = c,
                               !.batch = @ \ {c}, !.parts = parts]
<1>2. run[d] \in Locals /\ stored \subseteq Captures /\ RunOK(run[d])
  BY DEF EvidenceInv, TypeOK, RunsOK
<1>3. c \in stored /\ run[d].parts = {}
  BY <1>2 DEF RunOK, ReadScreenshot
<1>4. parts \subseteq FilesOf({c}) \cap {<<c, "screenshot">>}
  BY <1>1, <1>3 DEF Reads
<1>5. HeldWhole(c) \/ parts = FilesOf({c}) \cap {<<c, "screenshot">>}
  <2>1. SUFFICES ASSUME ~HeldWhole(c)
                 PROVE  parts = FilesOf({c}) \cap {<<c, "screenshot">>}
    OBVIOUS
  <2>2. c \notin Unreadable /\ ~Known(c)
    BY <1>2, <1>3, <2>1 DEF HeldWhole, EvidenceInv, AllOrNothing
  <2>3. FilesOf({c}) \subseteq disk
    <3>1. FilesOf({c}) \subseteq FilesOf(Captures \ Unreadable)
      BY <1>2, <1>3, <2>2, FilesOfGrows
    <3>2. FilesOf({c}) \cap held = {}
      BY <2>2 DEF Known, FilesOf
    <3> QED
      BY <3>1, <3>2 DEF EvidenceInv, OnlyCopyKept
  <2> QED
    BY <1>1, <1>3, <2>2, <2>3 DEF Reads
<1>6. l \in Locals
  BY <1>2, <1>3 DEF Locals, Positions
<1>7. l.at = "archive" /\ l.current = c /\ l.batch = run[d].batch \ {c} /\ l.parts = parts
      /\ l.done = run[d].done /\ l.chosen = run[d].chosen /\ l.trash = run[d].trash
  BY <1>2 DEF Locals
<1> HIDE DEF l
<1>8. ReadOK(l)
  BY <1>3, <1>4, <1>5, <1>7 DEF ReadOK
<1>9. RunOK(l)
  BY <1>2, <1>7, <1>8 DEF RunOK
<1> QED
  BY <1>1, <1>6, <1>9, LocalStep DEF ReadScreenshot, l, EvidenceInv, TypeOK

LEMMA ReadArchiveKeepsInv ==
  ASSUME EvidenceInv, NEW d \in Deliverers, ReadArchive(d)
  PROVE  EvidenceInv'
<1> DEFINE c == run[d].current
<1>1. PICK parts \in SUBSET Files :
        /\ Reads(d, c, "archive", parts)
        /\ Become(d, IF parts = {}
                     THEN [run[d] EXCEPT !.at = "screenshot", !.done = @ \cup {c}]
                     ELSE [run[d] EXCEPT !.at = "send", !.parts = parts])
  BY DEF ReadArchive
<1>2. run[d] \in Locals /\ stored \subseteq Captures /\ RunOK(run[d]) /\ ReadOK(run[d])
      /\ run[d].at = "archive"
  BY DEF EvidenceInv, TypeOK, RunsOK, RunOK, ReadArchive
<1>3. c \in stored /\ run[d].parts \subseteq parts
  BY <1>1, <1>2 DEF ReadOK, Reads
<1>4. parts \subseteq FilesOf({c})
  BY <1>1, <1>2 DEF Reads, ReadOK
<1>5. HeldWhole(c) \/ parts = FilesOf({c})
  <2>1. SUFFICES ASSUME ~HeldWhole(c) PROVE parts = FilesOf({c})
    OBVIOUS
  <2>2. c \notin Unreadable /\ ~Known(c)
    BY <1>2, <1>3, <2>1 DEF HeldWhole, EvidenceInv, AllOrNothing
  <2>3. FilesOf({c}) \subseteq disk
    <3>1. FilesOf({c}) \subseteq FilesOf(Captures \ Unreadable)
      BY <1>2, <1>3, <2>2, FilesOfGrows
    <3>2. FilesOf({c}) \cap held = {}
      BY <2>2 DEF Known, FilesOf
    <3> QED
      BY <3>1, <3>2 DEF EvidenceInv, OnlyCopyKept
  <2>4. run[d].parts = FilesOf({c}) \cap {<<c, "screenshot">>}
    BY <1>2, <2>1 DEF ReadOK
  <2>5. parts = run[d].parts \cup (FilesOf({c}) \cap {<<c, "archive">>})
    BY <1>1, <2>2, <2>3 DEF Reads
  <2>6. FilesOf({c}) \subseteq {<<c, "screenshot">>, <<c, "archive">>}
    BY DEF FilesOf, Files, Kinds
  <2> QED
    BY <2>4, <2>5, <2>6
<1>6. CASE parts = {}
  <2> DEFINE l == [run[d] EXCEPT !.at = "screenshot", !.parts = {}, !.done = @ \cup {c}]
  <2>1. run[d].parts = {}
    BY <1>3, <1>6
  <2>2. Become(d, l)
    <3>1. [run[d] EXCEPT !.at = "screenshot", !.done = @ \cup {c}] = l
      BY <1>2, <2>1 DEF Locals
    <3> QED
      BY <1>1, <1>6, <3>1
  <2>3. FilesOf({c}) # {}
    <3>1. c \in Captures /\ taken[c] \subseteq Kinds
      BY <1>2, <1>3 DEF EvidenceInv, TypeOK
    <3>2. PICK k \in Kinds : k \in taken[c]
      BY <1>3, <3>1 DEF EvidenceInv, FilesOK
    <3>3. <<c, k>> \in FilesOf({c})
      BY <3>1, <3>2 DEF FilesOf, Files
    <3> QED
      BY <3>3
  <2>4. HeldWhole(c)
    BY <1>5, <1>6, <2>3
  <2>5. l \in Locals /\ RunOK(l)
    BY <1>2, <2>4, NextRowIsOK
  <2> HIDE DEF l
  <2> QED
    BY <2>2, <2>5, LocalStep DEF ReadArchive, EvidenceInv, TypeOK
<1>7. CASE parts # {}
  <2> DEFINE l == [run[d] EXCEPT !.at = "send", !.parts = parts]
  <2>1. l \in Locals
    BY <1>2 DEF Locals, Positions
  <2>2. l.at = "send" /\ l.current = c /\ l.batch = run[d].batch /\ l.parts = parts
        /\ l.done = run[d].done /\ l.chosen = run[d].chosen /\ l.trash = run[d].trash
    BY <1>2 DEF Locals
  <2>3. Become(d, l)
    BY <1>1, <1>7
  <2> HIDE DEF l
  <2>4. ReadOK(l)
    BY <1>3, <1>4, <1>5, <2>2 DEF ReadOK
  <2>5. RunOK(l)
    BY <1>2, <2>2, <2>4 DEF RunOK
  <2> QED
    BY <2>1, <2>3, <2>5, LocalStep DEF ReadArchive, EvidenceInv, TypeOK
<1> QED
  BY <1>6, <1>7

LEMMA SelectKeepsInv ==
  ASSUME EvidenceInv, NEW d \in Deliverers, Select(d)
  PROVE  EvidenceInv'
<1> DEFINE l == [Blank EXCEPT !.at = "unlink", !.chosen = delivered,
                              !.trash = {f \in paths : f[1] \in delivered}]
<1>1. delivered \subseteq stored /\ stored \subseteq Captures /\ paths \subseteq Files
  BY DEF EvidenceInv, TypeOK
<1>2. l \in Locals
  BY <1>1, BlankIsLocals DEF Locals, Positions, Blank
<1>3. FilesOf(delivered \ Stubborn) \cap disk \subseteq {f \in paths : f[1] \in delivered}
  <2>1. FilesOf(delivered \ Stubborn) \subseteq FilesOf(stored \ Stubborn)
    BY <1>1, FilesOfGrows
  <2> QED
    BY <2>1, FilesOfMember DEF EvidenceInv, ForgottenMeansGone
<1>4. RunOK(l)
  BY <1>1, <1>3 DEF RunOK, Blank
<1> HIDE DEF l
<1> QED
  BY <1>2, <1>4, LocalStep DEF Select, l, EvidenceInv, TypeOK

LEMMA CrashKeepsInv ==
  ASSUME EvidenceInv, NEW d \in Deliverers, Crash(d)
  PROVE  EvidenceInv'
<1>1. crashes' \in 0 .. MaxCrashes
  BY DEF Crash, EvidenceInv, TypeOK
<1> QED
  BY <1>1, BlankIsLocals, BlankIsOK, LocalStep DEF Crash

-----------------------------------------------------------------------------
(* The answer of the platform. *)

\* What is received is all there is of a capture, unless it was there before.
LEMMA ReceiveIsWhole ==
  ASSUME EvidenceInv, NEW d \in Deliverers, run[d].at = "send", Receive(d),
         UNCHANGED <<taken, stored>>
  PROVE  /\ held \subseteq held'
         /\ held' \subseteq FilesOf(Captures)
         /\ run[d].current \notin Unreadable => FilesOf({run[d].current}) \subseteq held'
         /\ AllOrNothing'
<1> DEFINE c == run[d].current
<1>1. RunOK(run[d]) /\ stored \subseteq Captures
  BY DEF EvidenceInv, TypeOK, RunsOK
<1>2. c \in stored /\ run[d].parts \subseteq FilesOf({c})
      /\ (HeldWhole(c) \/ run[d].parts = FilesOf({c}))
  BY <1>1 DEF RunOK, ReadOK
<1>3. held' = IF Known(c) THEN held ELSE held \cup run[d].parts
  BY DEF Receive
<1>4. held \subseteq held'
  BY <1>3
<1>5. held' \subseteq FilesOf(Captures)
  <2>1. FilesOf({c}) \subseteq FilesOf(Captures)
    BY <1>1, <1>2, FilesOfGrows
  <2> QED
    BY <1>2, <1>3, <2>1 DEF EvidenceInv, FilesOK
<1>6. \A q : FilesOf({q})' = FilesOf({q})
  BY DEF FilesOf
<1>8. (c \notin Unreadable => FilesOf({c}) \subseteq held')
  BY <1>1, <1>2, <1>3 DEF HeldWhole, EvidenceInv, AllOrNothing
<1>9. ASSUME NEW q \in Captures, q \notin Unreadable, NEW f \in held', f[1] = q
      PROVE  FilesOf({q}) \subseteq held'
  <2>1. CASE q = c
    BY <1>8, <1>9, <2>1
  <2>2. CASE q # c
    <3>1. f \in held
      BY <1>2, <1>3, <1>9, <2>2, FilesOfMember
    <3> QED
      BY <1>4, <1>9, <3>1 DEF EvidenceInv, AllOrNothing, Known, HeldWhole
  <2> QED
    BY <2>1, <2>2
<1>11. AllOrNothing'
  BY <1>6, <1>9 DEF AllOrNothing, Known, HeldWhole, FilesOf
<1> QED
  BY <1>4, <1>5, <1>8, <1>11

\* A process that leaves the row it was sending keeps the invariant, if what the
\* platform took of it is all of it, and it counts only a row the platform has.
LEMMA SendStep ==
  ASSUME EvidenceInv, NEW d \in Deliverers, run[d].at = "send",
         NEW new \in SUBSET {run[d].current},
         Become(d, [run[d] EXCEPT !.at = "screenshot", !.parts = {}, !.done = @ \cup new]),
         UNCHANGED <<taken, disk, stored, paths, delivered, crashes>>,
         held \subseteq held', held' \subseteq FilesOf(Captures), AllOrNothing',
         \A c \in new \ Unreadable : FilesOf({c}) \subseteq held'
  PROVE  EvidenceInv'
<1> DEFINE l == [run[d] EXCEPT !.at = "screenshot", !.parts = {}, !.done = @ \cup new]
<1>1. run[d] \in Locals /\ RunOK(run[d]) /\ stored \subseteq Captures
  BY DEF EvidenceInv, TypeOK, RunsOK
<1>2. run[d].current \in stored
  BY <1>1 DEF RunOK, ReadOK
<1>3. l \in Locals
  BY <1>1, <1>2 DEF Locals, Positions
<1>4. l.at = "screenshot" /\ l.batch = run[d].batch /\ l.parts = {}
      /\ l.done = run[d].done \cup new /\ l.chosen = run[d].chosen /\ l.trash = run[d].trash
  BY <1>1 DEF Locals
<1>5. Become(d, l)
  OBVIOUS
<1> HIDE DEF l
<1>6. /\ run' \in [Deliverers -> Locals]
      /\ run'[d] = l
      /\ \A e \in Deliverers \ {d} : run'[e] = run[e]
  BY <1>3, <1>5, BecomeKeepsLocals DEF EvidenceInv
<1>7. \A cs : FilesOf(cs)' = FilesOf(cs)
  BY DEF FilesOf
<1>8. TypeOK'
  <2>1. held' \subseteq Files
    BY FilesOfMember
  <2> QED
    BY <1>6, <2>1 DEF EvidenceInv, TypeOK
<1>9. RunsOK'
  <2> SUFFICES ASSUME NEW e \in Deliverers PROVE RunOK(run[e])'
    BY DEF RunsOK
  <2>1. CASE e = d
    <3>1. \A c \in l.done \ Unreadable : FilesOf({c}) \subseteq held'
      BY <1>1, <1>4 DEF RunOK, HeldWhole
    <3>2. FilesOf(l.chosen \ Stubborn) \cap disk \subseteq l.trash
      BY <1>1, <1>4 DEF RunOK
    <3>3. l.batch \cup l.done \subseteq stored /\ l.chosen \subseteq delivered
          /\ \A f \in l.trash : f[1] \in delivered
      BY <1>1, <1>2, <1>4 DEF RunOK
    <3> QED
      BY <1>4, <1>6, <2>1, <3>1, <3>2, <3>3 DEF RunOK, HeldWhole, FilesOf
  <2>2. CASE e # d
    <3>1. RunOK(run[e]) /\ run'[e] = run[e]
      BY <1>6, <2>2 DEF EvidenceInv, RunsOK
    <3>2. run[e].at \in {"archive", "send"} => ReadOK(run[e])'
      BY <3>1, <1>7 DEF RunOK, ReadOK, HeldWhole, FilesOf
    <3> QED
      BY <3>1, <3>2, <1>7 DEF RunOK, ReadOK, HeldWhole, FilesOf
  <2> QED
    BY <2>1, <2>2
<1>10. (FilesOK /\ ForgottenMeansGone)'
  BY DEF EvidenceInv, FilesOK, ForgottenMeansGone, FilesOf
<1>11. (DeliveredIsHeld /\ OnlyCopyKept)'
  BY DEF EvidenceInv, DeliveredIsHeld, HeldWhole, OnlyCopyKept, FilesOf
<1> QED
  BY <1>8, <1>9, <1>10, <1>11 DEF EvidenceInv

LEMMA AcceptedKeepsInv ==
  ASSUME EvidenceInv, NEW d \in Deliverers, Accepted(d)
  PROVE  EvidenceInv'
<1>1. /\ held \subseteq held' /\ held' \subseteq FilesOf(Captures)
      /\ run[d].current \notin Unreadable => FilesOf({run[d].current}) \subseteq held'
      /\ AllOrNothing'
  BY ReceiveIsWhole DEF Accepted
<1>2. Become(d, [run[d] EXCEPT !.at = "screenshot", !.parts = {},
                               !.done = @ \cup {run[d].current}])
  BY DEF Accepted, NextRow
<1>3. {run[d].current} \in SUBSET {run[d].current}
  OBVIOUS
<1> QED
  BY <1>1, <1>2, <1>3, SendStep DEF Accepted

LEMMA FailedKeepsInv ==
  ASSUME EvidenceInv, NEW d \in Deliverers, Failed(d)
  PROVE  EvidenceInv'
<1>1. held \subseteq held' /\ held' \subseteq FilesOf(Captures) /\ AllOrNothing'
  <2>1. CASE Receive(d)
    BY <2>1, ReceiveIsWhole DEF Failed
  <2>2. CASE UNCHANGED held
    <3>1. held' \subseteq FilesOf(Captures)
      BY <2>2 DEF EvidenceInv, FilesOK
    <3>2. AllOrNothing'
      BY <2>2 DEF Failed, EvidenceInv, AllOrNothing, Known, HeldWhole, FilesOf
    <3> QED
      BY <2>2, <3>1, <3>2
  <2> QED
    BY <2>1, <2>2 DEF Failed
<1>2. Become(d, [run[d] EXCEPT !.at = "screenshot", !.parts = {}, !.done = @ \cup {}])
  BY DEF Failed, NextRow
<1>3. {} \in SUBSET {run[d].current}
  OBVIOUS
<1> QED
  BY <1>1, <1>2, <1>3, SendStep DEF Failed

-----------------------------------------------------------------------------
(* Steps that change the files or the table. *)

\* What a process holds stays right when captures and rows are only added and
\* no file of a row appears.
LEMMA RunSurvives ==
  ASSUME EvidenceInv, NEW e \in Deliverers, run'[e] = run[e], held' = held,
         stored \subseteq stored', delivered \subseteq delivered',
         \A c \in stored : taken'[c] = taken[c],
         \A f \in disk' : f[1] \in stored => f \in disk
  PROVE  RunOK(run[e])'
<1>1. RunOK(run[e]) /\ delivered \subseteq stored
  BY DEF EvidenceInv, RunsOK, TypeOK
<1>2. \A c \in stored : FilesOf({c})' = FilesOf({c})
  BY DEF FilesOf
<1>3. /\ run[e].batch \cup run[e].done \subseteq stored'
      /\ run[e].at = "screenshot" => run[e].parts = {}
      /\ run[e].chosen \subseteq delivered'
      /\ \A f \in run[e].trash : f[1] \in delivered'
  BY <1>1 DEF RunOK
<1>4. \A c \in run[e].done \ Unreadable : FilesOf({c})' \subseteq held
  BY <1>1, <1>2 DEF RunOK, HeldWhole
<1>5. FilesOf(run[e].chosen \ Stubborn)' \cap disk' \subseteq run[e].trash
  <2>1. SUFFICES ASSUME NEW f \in Files, f[1] \in run[e].chosen \ Stubborn,
                        f[2] \in taken'[f[1]], f \in disk'
                 PROVE  f \in run[e].trash
    BY DEF FilesOf
  <2>2. f[1] \in stored
    BY <1>1, <2>1 DEF RunOK
  <2>3. f \in FilesOf(run[e].chosen \ Stubborn) \cap disk
    BY <2>1, <2>2, FilesOfMember
  <2> QED
    BY <1>1, <2>3 DEF RunOK
<1>6. run[e].at \in {"archive", "send"} => ReadOK(run[e])'
  <2> SUFFICES ASSUME run[e].at \in {"archive", "send"} PROVE ReadOK(run[e])'
    OBVIOUS
  <2>1. ReadOK(run[e])
    BY <1>1 DEF RunOK
  <2>2. run[e].current \in stored /\ run'[e].current = run[e].current
    BY <2>1 DEF ReadOK
  <2>3. FilesOf({run[e].current})' = FilesOf({run[e].current})
    BY <1>2, <2>2 DEF FilesOf
  <2> QED
    BY <2>1, <2>2, <2>3 DEF ReadOK, HeldWhole
<1>7. (\A c \in run[e].done : HeldWhole(c))'
  BY <1>4 DEF HeldWhole
<1>8. (FilesOf(run[e].chosen \ Stubborn) \cap disk \subseteq run[e].trash)'
  BY <1>5 DEF FilesOf
<1>9. (run[e].at \in {"archive", "send"} => ReadOK(run[e]))'
  BY <1>6
<1> QED
  BY <1>3, <1>7, <1>8, <1>9 DEF RunOK

LEMMA CaptureKeepsInv ==
  ASSUME EvidenceInv, NEW c \in Captures, NEW kinds \in SUBSET Kinds \ {{}},
         Capture(c, kinds)
  PROVE  EvidenceInv'
<1>1. /\ taken[c] = {} /\ c \notin stored
      /\ taken' = [taken EXCEPT ![c] = kinds]
      /\ disk' = disk \cup ({c} \X kinds)
      /\ UNCHANGED <<stored, paths, delivered, held, run, crashes>>
  BY DEF Capture, EvidenceInv, FilesOK
<1>2. taken \in [Captures -> SUBSET Kinds] /\ stored \subseteq Captures
      /\ delivered \subseteq stored
  BY DEF EvidenceInv, TypeOK
<1>3. \A q \in Captures \ {c} : taken'[q] = taken[q]
  BY <1>1, <1>2
<1>4. \A f : f \in FilesOf(Captures) => f[1] # c /\ f \in FilesOf(Captures)'
  BY <1>1, <1>3 DEF FilesOf
<1>5. {c} \X kinds \subseteq FilesOf(Captures)'
  BY <1>1, <1>2 DEF FilesOf, Files
<1>6. TypeOK'
  <2>1. disk' \subseteq Files
    BY <1>1 DEF EvidenceInv, TypeOK, Files
  <2> QED
    BY <1>1, <1>2, <2>1 DEF EvidenceInv, TypeOK
<1>7. FilesOK'
  <2>1. FilesOf(stored)' = FilesOf(stored)
    BY <1>1, <1>2, <1>3 DEF FilesOf
  <2>2. (disk \cup held)' \subseteq FilesOf(Captures)'
    BY <1>1, <1>4, <1>5 DEF EvidenceInv, FilesOK
  <2> QED
    BY <1>1, <1>2, <1>3, <2>1, <2>2 DEF EvidenceInv, FilesOK
<1>8. \A q \in Captures \ {c} : FilesOf({q})' = FilesOf({q})
  BY <1>3 DEF FilesOf
<1>9. (AllOrNothing /\ DeliveredIsHeld)'
  BY <1>1, <1>2, <1>4, <1>8
     DEF EvidenceInv, FilesOK, AllOrNothing, Known, DeliveredIsHeld, HeldWhole
<1>10. RunsOK'
  <2> SUFFICES ASSUME NEW e \in Deliverers PROVE RunOK(run[e])'
    BY DEF RunsOK
  <2>1. \A f \in disk' : f[1] \in stored => f \in disk
    BY <1>1
  <2>2. \A q \in stored : taken'[q] = taken[q]
    BY <1>1, <1>2, <1>3
  <2> QED
    BY <1>1, <2>1, <2>2, RunSurvives
<1>11. OnlyCopyKept'
  <2> SUFFICES ASSUME NEW f \in Files, f[1] \in Captures \ Unreadable,
                      f[2] \in taken'[f[1]]
               PROVE  f \in disk' \cup held'
    BY DEF OnlyCopyKept, FilesOf
  <2>1. CASE f[1] = c
    BY <1>1, <1>2, <2>1 DEF Files
  <2>2. CASE f[1] # c
    <3>1. f \in FilesOf(Captures \ Unreadable)
      BY <1>3, <2>2, FilesOfMember
    <3> QED
      BY <1>1, <3>1 DEF EvidenceInv, OnlyCopyKept
  <2> QED
    BY <2>1, <2>2
<1>12. ForgottenMeansGone'
  <2>1. FilesOf(stored \ Stubborn)' = FilesOf(stored \ Stubborn)
    BY <1>1, <1>2, <1>3 DEF FilesOf
  <2>2. FilesOf(stored \ Stubborn) \cap disk' \subseteq disk
    BY <1>1, FilesOfMember
  <2> QED
    BY <1>1, <2>1, <2>2 DEF EvidenceInv, ForgottenMeansGone
<1> QED
  BY <1>6, <1>7, <1>9, <1>10, <1>11, <1>12 DEF EvidenceInv

LEMMA StoreKeepsInv ==
  ASSUME EvidenceInv, NEW c \in Captures, Store(c)
  PROVE  EvidenceInv'
<1>1. /\ taken[c] # {} /\ stored' = stored \cup {c} /\ paths' = paths \cup FilesOf({c})
      /\ UNCHANGED <<taken, disk, delivered, held, run, crashes>>
  BY DEF Store
<1>2. \A cs : FilesOf(cs)' = FilesOf(cs)
  BY <1>1 DEF FilesOf
<1>3. FilesOf({c}) \subseteq Files /\ FilesOf({c}) \subseteq FilesOf(stored')
  BY <1>1 DEF FilesOf
<1>4. TypeOK'
  BY <1>1, <1>3 DEF EvidenceInv, TypeOK
<1>5. FilesOf(stored) \subseteq FilesOf(stored')
  BY <1>1, FilesOfGrows
<1>6. FilesOK'
  <2>1. paths' \subseteq FilesOf(stored)'
    BY <1>1, <1>3, <1>5 DEF EvidenceInv, FilesOK, FilesOf
  <2>2. (disk \cup held)' \subseteq FilesOf(Captures)'
    BY <1>1 DEF EvidenceInv, FilesOK, FilesOf
  <2> QED
    BY <1>1, <2>1, <2>2 DEF EvidenceInv, FilesOK
<1>7. RunsOK'
  BY <1>1, RunSurvives DEF RunsOK
<1>8. (AllOrNothing /\ DeliveredIsHeld /\ OnlyCopyKept)'
  BY <1>1 DEF EvidenceInv, AllOrNothing, Known, DeliveredIsHeld, HeldWhole,
              OnlyCopyKept, FilesOf
<1>9. ForgottenMeansGone'
  <2> SUFFICES ASSUME NEW f \in Files, f[1] \in stored' \ Stubborn,
                      f[2] \in taken[f[1]], f \in disk
               PROVE  f \in paths'
    BY <1>1 DEF ForgottenMeansGone, FilesOf
  <2>1. CASE f[1] = c
    BY <1>1, <2>1, FilesOfMember
  <2>2. CASE f[1] # c
    <3>1. f \in FilesOf(stored \ Stubborn)
      BY <1>1, <2>2, FilesOfMember
    <3> QED
      BY <1>1, <3>1 DEF EvidenceInv, ForgottenMeansGone
  <2> QED
    BY <2>1, <2>2
<1> QED
  BY <1>4, <1>6, <1>7, <1>8, <1>9 DEF EvidenceInv

LEMMA MarkKeepsInv ==
  ASSUME EvidenceInv, NEW d \in Deliverers, Mark(d)
  PROVE  EvidenceInv'
<1> DEFINE l == [Blank EXCEPT !.at = "marked"]
<1>1. /\ delivered' = delivered \cup run[d].done /\ Become(d, l)
      /\ UNCHANGED <<taken, disk, stored, paths, held, crashes>>
  BY DEF Mark
<1>2. RunOK(run[d]) /\ delivered \subseteq stored
  BY DEF EvidenceInv, RunsOK, TypeOK
<1>3. l \in Locals
  BY BlankIsLocals DEF Locals, Positions, Blank
<1>4. /\ run' \in [Deliverers -> Locals]
      /\ run'[d] = l
      /\ \A e \in Deliverers \ {d} : run'[e] = run[e]
  BY <1>1, <1>3, BecomeKeepsLocals DEF EvidenceInv
<1>5. TypeOK'
  BY <1>1, <1>2, <1>4 DEF EvidenceInv, TypeOK, RunOK
<1>6. RunsOK'
  <2> SUFFICES ASSUME NEW e \in Deliverers PROVE RunOK(run[e])'
    BY DEF RunsOK
  <2>1. CASE e = d
    BY <1>4, <2>1 DEF RunOK, Blank, FilesOf
  <2>2. CASE e # d
    BY <1>1, <1>4, <2>2, RunSurvives
  <2> QED
    BY <2>1, <2>2
<1>7. DeliveredIsHeld'
  BY <1>1, <1>2 DEF EvidenceInv, DeliveredIsHeld, RunOK, HeldWhole, FilesOf
<1>8. (FilesOK /\ AllOrNothing /\ OnlyCopyKept /\ ForgottenMeansGone)'
  BY <1>1 DEF EvidenceInv, FilesOK, AllOrNothing, Known, HeldWhole, OnlyCopyKept,
              ForgottenMeansGone, FilesOf
<1> QED
  BY <1>5, <1>6, <1>7, <1>8 DEF EvidenceInv

LEMMA UnlinkKeepsInv ==
  ASSUME EvidenceInv, NEW d \in Deliverers, Unlink(d)
  PROVE  EvidenceInv'
<1>1. PICK f \in run[d].trash :
        /\ Become(d, [run[d] EXCEPT !.trash = @ \ {f}])
        /\ disk' = disk \ {f} \/ (f[1] \in Stubborn /\ UNCHANGED disk)
  BY DEF Unlink
<1> DEFINE l == [run[d] EXCEPT !.trash = @ \ {f}]
<1>2. UNCHANGED <<taken, stored, paths, delivered, held, crashes>> /\ run[d].at = "unlink"
  BY DEF Unlink
<1>3. run[d] \in Locals /\ RunOK(run[d]) /\ delivered \subseteq stored
  BY DEF EvidenceInv, TypeOK, RunsOK
<1>4. l \in Locals
  BY <1>3 DEF Locals
<1>5. l.at = "unlink" /\ l.batch = run[d].batch /\ l.done = run[d].done
      /\ l.chosen = run[d].chosen /\ l.trash = run[d].trash \ {f}
  BY <1>2, <1>3 DEF Locals
<1>6. Become(d, l) /\ disk' \subseteq disk
  BY <1>1
<1> HIDE DEF l
<1>7. /\ run' \in [Deliverers -> Locals]
      /\ run'[d] = l
      /\ \A e \in Deliverers \ {d} : run'[e] = run[e]
  BY <1>4, <1>6, BecomeKeepsLocals DEF EvidenceInv
<1>8. TypeOK'
  BY <1>2, <1>6, <1>7 DEF EvidenceInv, TypeOK
<1>9. RunsOK'
  <2> SUFFICES ASSUME NEW e \in Deliverers PROVE RunOK(run[e])'
    BY DEF RunsOK
  <2>1. CASE e = d
    <3>1. FilesOf(l.chosen \ Stubborn) \cap disk' \subseteq l.trash
      BY <1>1, <1>3, <1>5, FilesOfMember DEF RunOK
    <3>2. /\ l.batch \cup l.done \subseteq stored
          /\ \A c \in l.done \ Unreadable : FilesOf({c}) \subseteq held
          /\ l.chosen \subseteq delivered
          /\ \A g \in l.trash : g[1] \in delivered
      BY <1>3, <1>5 DEF RunOK, HeldWhole
    <3> QED
      BY <1>2, <1>5, <1>7, <2>1, <3>1, <3>2 DEF RunOK, HeldWhole, FilesOf
  <2>2. CASE e # d
    BY <1>2, <1>6, <1>7, <2>2, RunSurvives
  <2> QED
    BY <2>1, <2>2
<1>10. OnlyCopyKept'
  <2>1. f[1] \in delivered
    BY <1>3 DEF RunOK
  <2>2. f[1] \notin Unreadable => FilesOf({f[1]}) \subseteq held
    BY <2>1 DEF EvidenceInv, DeliveredIsHeld, HeldWhole
  <2>3. FilesOf(Captures \ Unreadable) \subseteq disk' \cup held
    BY <1>1, <2>2, FilesOfMember DEF EvidenceInv, OnlyCopyKept
  <2> QED
    BY <1>2, <2>3 DEF OnlyCopyKept, FilesOf
<1>11. (FilesOK /\ AllOrNothing /\ DeliveredIsHeld /\ ForgottenMeansGone)'
  BY <1>2, <1>6 DEF EvidenceInv, FilesOK, AllOrNothing, Known, DeliveredIsHeld, HeldWhole,
              ForgottenMeansGone, FilesOf
<1> QED
  BY <1>8, <1>9, <1>10, <1>11 DEF EvidenceInv

LEMMA ClearKeepsInv ==
  ASSUME EvidenceInv, NEW d \in Deliverers, Clear(d)
  PROVE  EvidenceInv'
<1>1. /\ run[d].trash = {} /\ Become(d, Blank)
      /\ paths' = {f \in paths : f[1] \notin run[d].chosen}
      /\ UNCHANGED <<taken, disk, stored, delivered, held, crashes>>
  BY DEF Clear
<1>2. RunOK(run[d])
  BY DEF EvidenceInv, RunsOK
<1>3. /\ run' \in [Deliverers -> Locals]
      /\ run'[d] = Blank
      /\ \A e \in Deliverers \ {d} : run'[e] = run[e]
  BY <1>1, BlankIsLocals, BecomeKeepsLocals DEF EvidenceInv
<1>4. TypeOK'
  BY <1>1, <1>3 DEF EvidenceInv, TypeOK
<1>5. RunsOK'
  <2> SUFFICES ASSUME NEW e \in Deliverers PROVE RunOK(run[e])'
    BY DEF RunsOK
  <2>1. CASE e = d
    BY <1>3, <2>1 DEF RunOK, Blank, FilesOf
  <2>2. CASE e # d
    BY <1>1, <1>3, <2>2, RunSurvives
  <2> QED
    BY <2>1, <2>2
<1>6. ForgottenMeansGone'
  <2>1. FilesOf(run[d].chosen \ Stubborn) \cap disk = {}
    BY <1>1, <1>2 DEF RunOK
  <2>2. FilesOf(stored \ Stubborn) \cap disk \subseteq paths'
    BY <1>1, <2>1, FilesOfMember DEF EvidenceInv, ForgottenMeansGone
  <2> QED
    BY <1>1, <2>2 DEF ForgottenMeansGone, FilesOf
<1>7. (FilesOK /\ AllOrNothing /\ DeliveredIsHeld /\ OnlyCopyKept)'
  BY <1>1 DEF EvidenceInv, FilesOK, AllOrNothing, Known, DeliveredIsHeld, HeldWhole,
              OnlyCopyKept, FilesOf
<1> QED
  BY <1>4, <1>5, <1>6, <1>7 DEF EvidenceInv

-----------------------------------------------------------------------------
(* The theorems. *)

LEMMA NextEvidenceInv == EvidenceInv /\ [Next]_vars => EvidenceInv'
<1> SUFFICES ASSUME EvidenceInv, [Next]_vars PROVE EvidenceInv'
  OBVIOUS
<1>1. ASSUME NEW c \in Captures, NEW kinds \in SUBSET Kinds \ {{}}, Capture(c, kinds)
      PROVE  EvidenceInv'
  BY <1>1, CaptureKeepsInv
<1>2. ASSUME NEW c \in Captures, Store(c) PROVE EvidenceInv'
  BY <1>2, StoreKeepsInv
<1>3. ASSUME NEW d \in Deliverers, DeliverStep(d) PROVE EvidenceInv'
  BY <1>3, StartKeepsInv, ReadScreenshotKeepsInv, ReadArchiveKeepsInv, AcceptedKeepsInv,
     FailedKeepsInv, MarkKeepsInv, SelectKeepsInv, UnlinkKeepsInv, ClearKeepsInv
     DEF DeliverStep
<1>4. ASSUME NEW d \in Deliverers, Crash(d) PROVE EvidenceInv'
  BY <1>4, CrashKeepsInv
<1>5. CASE UNCHANGED vars
  <2>1. TypeOK'
    BY <1>5 DEF vars, EvidenceInv, TypeOK
  <2>2. RunsOK'
    BY <1>5, RunSurvives DEF vars, RunsOK
  <2>3. (FilesOK /\ AllOrNothing /\ DeliveredIsHeld /\ OnlyCopyKept /\ ForgottenMeansGone)'
    BY <1>5 DEF vars, EvidenceInv, FilesOK, AllOrNothing, Known, DeliveredIsHeld, HeldWhole,
                OnlyCopyKept, ForgottenMeansGone, FilesOf
  <2> QED
    BY <2>1, <2>2, <2>3 DEF EvidenceInv
<1> QED
  BY <1>1, <1>2, <1>3, <1>4, <1>5 DEF Next

\* The inductive invariant holds in every reachable state.
THEOREM EvidenceInvariance == Spec => []EvidenceInv
<1> QED
  BY InitEvidenceInv, NextEvidenceInv, PTL DEF Spec

\* The only copy of a capture is never deleted (evidence.py:161-166): whatever
\* the number of captures and of processes, and wherever they are killed.
THEOREM OnlyCopyIsKept == Spec => []OnlyCopyKept
<1>1. EvidenceInv => OnlyCopyKept
  BY DEF EvidenceInv
<1> QED
  BY <1>1, EvidenceInvariance, PTL

\* A file that is still on disk is still named by its row (evidence.py:131-145).
THEOREM NoFileIsForgotten == Spec => []ForgottenMeansGone
<1>1. EvidenceInv => ForgottenMeansGone
  BY DEF EvidenceInv
<1> QED
  BY <1>1, EvidenceInvariance, PTL

-----------------------------------------------------------------------------
(* How many captures a delivery takes. *)

LEMMA CapturesAreFinite == \A S \in SUBSET Captures : IsFiniteSet(S) /\ Cardinality(S) \in Nat
<1>1. IsFiniteSet(Captures)
  BY FS_Interval DEF Captures
<1> QED
  BY <1>1, FS_Subset, FS_CardinalityType

\* pending() returns limit captures, or all that wait when there are fewer
\* (evidence.py:149-156).
LEMMA PendingIsFull ==
  ASSUME TypeOK
  PROVE  Cardinality(Pending) = Least(Limit, Cardinality(Undelivered))
<1> DEFINE age == [c \in Undelivered |-> c]
<1>1. Undelivered \in SUBSET Captures
  BY DEF Undelivered, TypeOK
<1>2. age \in Ages(Undelivered)
  BY <1>1 DEF Ages, Captures
<1>3. Pending = FirstN(Undelivered, age, Limit)
  <2>1. \A c \in Undelivered : Before(Undelivered, age, c) = {b \in Undelivered : b < c}
    BY DEF Before
  <2> QED
    BY <2>1 DEF Pending, FirstN, Rank
<1> HIDE DEF age
<1> QED
  BY <1>1, <1>2, <1>3, CapturesAreFinite, FirstNAreCounted

UploadBound == \A d \in Deliverers : Cardinality(run[d].batch) <= Limit

\* A delivery's snapshot only gets smaller.
LEMMA StepUploadBound == TypeOK /\ UploadBound /\ [Next]_vars => UploadBound'
<1> SUFFICES ASSUME TypeOK, UploadBound, [Next]_vars PROVE UploadBound'
  OBVIOUS
<1>1. ASSUME NEW d \in Deliverers, NEW l, Become(d, l), Cardinality(l.batch) <= Limit
      PROVE  UploadBound'
  BY <1>1 DEF TypeOK, UploadBound, Become
<1>2. ASSUME NEW d \in Deliverers, NEW S \in SUBSET run[d].batch
      PROVE  Cardinality(S) <= Limit
  <2>1. run[d].batch \in SUBSET Captures /\ S \in SUBSET Captures
    BY DEF TypeOK, Locals
  <2>2. Cardinality(S) <= Cardinality(run[d].batch)
    BY <2>1, CapturesAreFinite, FS_Subset
  <2>3. Cardinality(S) \in Nat /\ Cardinality(run[d].batch) \in Nat
    BY <2>1, CapturesAreFinite
  <2> QED
    BY <2>2, <2>3 DEF UploadBound
<1>3. ASSUME NEW d \in Deliverers, NEW l, Become(d, l), l.batch \in SUBSET run[d].batch
      PROVE  UploadBound'
  BY <1>1, <1>2, <1>3
<1>4. ASSUME NEW d \in Deliverers PROVE run[d] \in Locals /\ Blank.batch = {}
  BY DEF TypeOK, Blank
<1>5. ASSUME NEW d \in Deliverers, Start(d) PROVE UploadBound'
  <2>1. [Blank EXCEPT !.at = "screenshot", !.batch = Pending].batch = Pending
    BY DEF Blank
  <2>2. Cardinality(Undelivered) \in Nat
    BY CapturesAreFinite DEF Undelivered, TypeOK
  <2>3. Cardinality(Pending) <= Limit
    BY <2>2, PendingIsFull DEF Least
  <2> QED
    BY <1>1, <1>5, <2>1, <2>3 DEF Start
<1>6. ASSUME NEW d \in Deliverers, ReadScreenshot(d) PROVE UploadBound'
  <2>1. PICK c, parts : Become(d, [run[d] EXCEPT !.at = "archive", !.current = c,
                                                 !.batch = @ \ {c}, !.parts = parts])
    BY <1>6 DEF ReadScreenshot
  <2> QED
    BY <1>3, <1>4, <2>1 DEF Locals
<1>7. ASSUME NEW d \in Deliverers, ReadArchive(d) PROVE UploadBound'
  <2>1. PICK c, parts :
          \/ Become(d, [run[d] EXCEPT !.at = "screenshot", !.done = @ \cup {c}])
          \/ Become(d, [run[d] EXCEPT !.at = "send", !.parts = parts])
    BY <1>7 DEF ReadArchive
  <2> QED
    BY <1>3, <1>4, <2>1 DEF Locals
<1>8. ASSUME NEW d \in Deliverers, NEW confirmed \in BOOLEAN, NextRow(d, confirmed)
      PROVE  UploadBound'
  BY <1>3, <1>4, <1>8 DEF NextRow, Locals
<1>9. ASSUME NEW d \in Deliverers, Unlink(d) PROVE UploadBound'
  <2>1. PICK f : Become(d, [run[d] EXCEPT !.trash = @ \ {f}])
    BY <1>9 DEF Unlink
  <2> QED
    BY <1>3, <1>4, <2>1 DEF Locals
<1>10. ASSUME NEW d \in Deliverers, Mark(d) \/ Select(d) \/ Clear(d) \/ Crash(d)
       PROVE  UploadBound'
  <2>1. ASSUME NEW l, Become(d, l), l.batch = {} PROVE UploadBound'
    <3>1. l.batch \in SUBSET run[d].batch
      BY <2>1
    <3> QED
      BY <1>3, <2>1, <3>1
  <2>2. /\ Blank.batch = {}
        /\ [Blank EXCEPT !.at = "marked"].batch = {}
        /\ [Blank EXCEPT !.at = "unlink", !.chosen = delivered,
                         !.trash = {f \in paths : f[1] \in delivered}].batch = {}
    BY DEF Blank
  <2> QED
    BY <1>10, <2>1, <2>2 DEF Mark, Select, Clear, Crash
<1>11. CASE UNCHANGED run
  BY <1>11 DEF UploadBound
<1> QED
  BY <1>5, <1>6, <1>7, <1>8, <1>9, <1>10, <1>11
     DEF Next, DeliverStep, Accepted, Failed, Capture, Store, vars

\* However many captures wait, a delivery works on no more than its limit
\* (evidence.py:149-159).
THEOREM UploadsAreBounded == Spec => []UploadBound
<1>1. Init => UploadBound
  BY FS_EmptySet DEF Init, UploadBound, Blank
<1>2. EvidenceInv => TypeOK
  BY DEF EvidenceInv
<1> QED
  BY <1>1, <1>2, EvidenceInvariance, StepUploadBound, PTL DEF Spec
=============================================================================
