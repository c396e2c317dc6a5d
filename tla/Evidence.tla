------------------------------ MODULE Evidence ------------------------------
(***************************************************************************)
(* plugins/ettok/collect/evidence.py: the captures of pages, the files on  *)
(* the operator's machine, the table that indexes them, and the runs that  *)
(* upload them and delete the local copy.                                  *)
(*                                                                         *)
(* A file read, an unlink, a request and a commit are one action each, so  *)
(* a run can die between any two of them and two runs can interleave.  The *)
(* platform is external: client.py:338-344 says that it keys an upload on  *)
(* its page_hash and confirms one it already holds.                        *)
(*                                                                         *)
(* A capture is its number, in the order of captured_at; no two share a    *)
(* file or a hash.                                                         *)
(***************************************************************************)
EXTENDS Naturals, FiniteSets

CONSTANTS
  MaxCaptures,   \* bound: captures are 1 .. MaxCaptures
  Deliverers,    \* processes that may run deliver() on the shared table
  Limit,         \* deliver()'s limit
  Unwelcome,     \* captures the platform answers with a 4xx (too large, say)
  Unreadable,    \* captures whose files the system may fail to read
  Stubborn,      \* captures whose files it may fail to remove
  MaxCrashes     \* bound: deliveries killed in the middle

ASSUME MaxCapturesAssumption == MaxCaptures \in Nat
ASSUME LimitAssumption == Limit \in Nat \ {0}
ASSUME MaxCrashesAssumption == MaxCrashes \in Nat

Captures == 1 .. MaxCaptures
NoCapture == 0
Kinds == {"screenshot", "archive"}
Files == Captures \X Kinds

VARIABLES
  taken,       \* the kinds of file capture() wrote for each capture; {} before it
  disk,        \* the files that still exist
  stored,      \* captures that have a row in evidence_artifact
  paths,       \* the files the path columns of the rows name
  delivered,   \* captures whose row has a delivered_at
  held,        \* the files the platform holds
  run,         \* the local state of each process's deliver()
  crashes      \* how often a delivery died so far

vars == <<taken, disk, stored, paths, delivered, held, run, crashes>>

Positions ==
  {"idle", "screenshot", "archive", "send", "marked", "unlink"}

Locals ==
  [at      : Positions,
   batch   : SUBSET Captures,              \* rows of its snapshot still to come
   current : Captures \cup {NoCapture},    \* the row it is uploading
   parts   : SUBSET Files,                 \* the files it has read for it
   done    : SUBSET Captures,              \* rows it will mark delivered
   chosen  : SUBSET Captures,              \* rows it discards
   trash   : SUBSET Files]                 \* their files it has not come to yet

Blank ==
  [at |-> "idle", batch |-> {}, current |-> NoCapture, parts |-> {},
   done |-> {}, chosen |-> {}, trash |-> {}]

FilesOf(cs) == {f \in Files : f[1] \in cs /\ f[2] \in taken[f[1]]}

TypeOK ==
  /\ taken \in [Captures -> SUBSET Kinds]
  /\ disk \subseteq Files
  /\ stored \subseteq Captures
  /\ paths \subseteq Files
  /\ delivered \subseteq stored
  /\ held \subseteq Files
  /\ run \in [Deliverers -> Locals]
  /\ crashes \in 0 .. MaxCrashes

Init ==
  /\ taken = [c \in Captures |-> {}]
  /\ disk = {}
  /\ stored = {}
  /\ paths = {}
  /\ delivered = {}
  /\ held = {}
  /\ run = [d \in Deliverers |-> Blank]
  /\ crashes = 0

Become(d, l) == run' = [run EXCEPT ![d] = l]

-----------------------------------------------------------------------------
(* Collecting. *)

\* capture(): the page, the screenshot, or both.  The collector may fail or
\* die before the row is written.
Capture(c, kinds) ==
  /\ taken[c] = {}
  /\ \A b \in Captures : b < c => taken[b] # {}
  /\ taken' = [taken EXCEPT ![c] = kinds]
  /\ disk' = disk \cup ({c} \X kinds)
  /\ UNCHANGED <<stored, paths, delivered, held, run, crashes>>

Store(c) ==
  /\ taken[c] # {}
  /\ c \notin stored
  /\ stored' = stored \cup {c}
  /\ paths' = paths \cup FilesOf({c})
  /\ UNCHANGED <<taken, disk, delivered, held, run, crashes>>

-----------------------------------------------------------------------------
(* Delivering. *)

Undelivered == {c \in stored \ delivered : \E f \in paths : f[1] = c}

\* pending(): the oldest rows that wait, at most Limit of them.
Pending == {c \in Undelivered : Cardinality({b \in Undelivered : b < c}) < Limit}

\* deliver() reads its snapshot once; when there is nothing in it, it returns.
Start(d) ==
  /\ run[d].at = "idle"
  /\ Pending # {}
  /\ Become(d, [Blank EXCEPT !.at = "screenshot", !.batch = Pending])
  /\ UNCHANGED <<taken, disk, stored, paths, delivered, held, crashes>>

\* _read(): a file the snapshot names is read if it is there; an OSError is
\* "missing".  A row is in a snapshot with the paths it was stored with.
Reads(d, c, kind, parts) ==
  \/ parts = run[d].parts \cup (FilesOf({c}) \cap disk \cap {<<c, kind>>})
  \/ c \in Unreadable /\ parts = run[d].parts

\* The screenshot of the next row.
ReadScreenshot(d) ==
  /\ run[d].at = "screenshot"
  /\ \E c \in run[d].batch, parts \in SUBSET Files :
       /\ \A b \in run[d].batch : c <= b
       /\ Reads(d, c, "screenshot", parts)
       /\ Become(d, [run[d] EXCEPT !.at = "archive", !.current = c,
                                   !.batch = @ \ {c}, !.parts = parts])
  /\ UNCHANGED <<taken, disk, stored, paths, delivered, held, crashes>>

\* Then the archive; with neither, the row is taken for delivered.
ReadArchive(d) ==
  /\ run[d].at = "archive"
  /\ LET c == run[d].current
     IN  \E parts \in SUBSET Files :
           /\ Reads(d, c, "archive", parts)
           /\ Become(d, IF parts = {}
                        THEN [run[d] EXCEPT !.at = "screenshot", !.done = @ \cup {c}]
                        ELSE [run[d] EXCEPT !.at = "send", !.parts = parts])
  /\ UNCHANGED <<taken, disk, stored, paths, delivered, held, crashes>>

\* The loop turns to the next row, this one confirmed or not.
NextRow(d, confirmed) ==
  Become(d, [run[d] EXCEPT !.at = "screenshot", !.parts = {},
                           !.done = @ \cup (IF confirmed THEN {run[d].current} ELSE {})])

Known(c) == \E f \in held : f[1] = c
Receive(d) == held' = IF Known(run[d].current) THEN held ELSE held \cup run[d].parts

\* The platform has the files and says so: whatever is below 400 is taken for
\* its confirmation, a redirect of a proxy, outside the model, included.
Accepted(d) ==
  /\ run[d].at = "send"
  /\ run[d].current \notin Unwelcome
  /\ Receive(d)
  /\ NextRow(d, TRUE)
  /\ UNCHANGED <<taken, disk, stored, paths, delivered, crashes>>

\* Mutants of Failed: the row counts as delivered once its request has left;
\* or the error ends the loop instead of being noted for the row.
FailedOptimistic(d) ==
  /\ run[d].at = "send"
  /\ UNCHANGED held
  /\ NextRow(d, TRUE)
  /\ UNCHANGED <<taken, disk, stored, paths, delivered, crashes>>

FailedAborting(d) ==
  /\ run[d].at = "send"
  /\ UNCHANGED held
  /\ Become(d, Blank)
  /\ UNCHANGED <<taken, disk, stored, paths, delivered, crashes>>

\* A PlatformError: a 4xx, a request that was lost, or an answer that was.
Failed(d) ==
  /\ run[d].at = "send"
  /\ \/ UNCHANGED held
     \/ run[d].current \notin Unwelcome /\ Receive(d)
  /\ NextRow(d, FALSE)
  /\ UNCHANGED <<taken, disk, stored, paths, delivered, crashes>>

\* Mutant of Mark: a run that leaves rows waiting does not discard.
MarkReturning(d) ==
  /\ run[d].at = "screenshot"
  /\ run[d].batch = {}
  /\ delivered' = delivered \cup run[d].done
  /\ Become(d, IF Undelivered \ run[d].done # {} THEN Blank ELSE [Blank EXCEPT !.at = "marked"])
  /\ UNCHANGED <<taken, disk, stored, paths, held, crashes>>

\* mark_delivered(), one commit for the whole snapshot.
Mark(d) ==
  /\ run[d].at = "screenshot"
  /\ run[d].batch = {}
  /\ delivered' = delivered \cup run[d].done
  /\ Become(d, [Blank EXCEPT !.at = "marked"])
  /\ UNCHANGED <<taken, disk, stored, paths, held, crashes>>

\* Mutant of Select: all rows, confirmed or not.
SelectStored(d) ==
  /\ run[d].at = "marked"
  /\ Become(d, [Blank EXCEPT !.at = "unlink", !.chosen = stored, !.trash = paths])
  /\ UNCHANGED <<taken, disk, stored, paths, delivered, held, crashes>>

\* discard_delivered() takes every row that was ever confirmed.
Select(d) ==
  /\ run[d].at = "marked"
  /\ Become(d, [Blank EXCEPT !.at = "unlink", !.chosen = delivered,
                             !.trash = {f \in paths : f[1] \in delivered}])
  /\ UNCHANGED <<taken, disk, stored, paths, delivered, held, crashes>>

\* The files go one by one, in the table's order, which nothing here depends
\* on; one that cannot be removed is passed over.
Unlink(d) ==
  /\ run[d].at = "unlink"
  /\ \E f \in run[d].trash :
       /\ Become(d, [run[d] EXCEPT !.trash = @ \ {f}])
       /\ \/ disk' = disk \ {f}
          \/ f[1] \in Stubborn /\ UNCHANGED disk
  /\ UNCHANGED <<taken, stored, paths, delivered, held, crashes>>

\* Mutant of Clear: it empties the columns of every delivered row, those
\* another process has marked since included.
ClearDelivered(d) ==
  /\ run[d].at = "unlink"
  /\ run[d].trash = {}
  /\ paths' = {f \in paths : f[1] \notin delivered}
  /\ Become(d, Blank)
  /\ UNCHANGED <<taken, disk, stored, delivered, held, crashes>>

\* The columns of the rows are emptied in one transaction, committed when all
\* the files have been dealt with.
Clear(d) ==
  /\ run[d].at = "unlink"
  /\ run[d].trash = {}
  /\ paths' = {f \in paths : f[1] \notin run[d].chosen}
  /\ Become(d, Blank)
  /\ UNCHANGED <<taken, disk, stored, delivered, held, crashes>>

\* The run is killed; files, commits and what the platform took stay.
Crash(d) ==
  /\ run[d].at # "idle"
  /\ crashes < MaxCrashes
  /\ crashes' = crashes + 1
  /\ Become(d, Blank)
  /\ UNCHANGED <<taken, disk, stored, paths, delivered, held>>

-----------------------------------------------------------------------------
DeliverStep(d) ==
  \/ Start(d)
  \/ ReadScreenshot(d)
  \/ ReadArchive(d)
  \/ Accepted(d)
  \/ Failed(d)
  \/ Mark(d)
  \/ Select(d)
  \/ Unlink(d)
  \/ Clear(d)

Next ==
  \/ \E c \in Captures :
       \/ \E kinds \in SUBSET Kinds \ {{}} : Capture(c, kinds)
       \/ Store(c)
  \/ \E d \in Deliverers : DeliverStep(d) \/ Crash(d)

Spec == Init /\ [][Next]_vars

\* Every scan that may submit ends with deliver(), and scans are scheduled for
\* ever; a call that is not killed runs on to its end; a capture that is sent
\* again and again and is not refused is confirmed in the end.
Fairness ==
  /\ \A d \in Deliverers :
       /\ SF_vars(Start(d))
       /\ WF_vars(DeliverStep(d))
  /\ \A c \in Captures :
       SF_vars(\E d \in Deliverers : run[d].current = c /\ Accepted(d))

FairSpec == Spec /\ Fairness

-----------------------------------------------------------------------------
(* Properties. *)

\* The only copy of a capture is never deleted: each file that was taken is on
\* this machine or on the platform, whatever answers are lost, whoever else is
\* uploading or discarding, and wherever a run is killed (evidence.py:161-166).
\* Captures whose files cannot always be read are left out: see the README.
OnlyCopyKept ==
  FilesOf(Captures \ Unreadable) \subseteq disk \cup held

\* A file is never forgotten before it is gone: as long as a file of a stored
\* capture is on this machine, its row names it, so a later discard can find
\* it, also after a discard that was killed half-way (evidence.py:131-145).
\* Files the system refuses to remove are left out: see the README.
ForgottenMeansGone ==
  FilesOf(stored \ Stubborn) \cap disk \subseteq paths

\* Files belong to captures, and rows to captures that were made.
FilesOK ==
  /\ disk \cup held \subseteq FilesOf(Captures)
  /\ paths \subseteq FilesOf(stored)
  /\ \A c \in stored : taken[c] # {}

\* The platform has all of a capture or nothing.
HeldWhole(c) == c \notin Unreadable => FilesOf({c}) \subseteq held
AllOrNothing == \A c \in Captures : Known(c) => HeldWhole(c)

\* Each run knows where it is.  What it has read of a capture the platform does
\* not have is all there is to read; what it will mark delivered, and what is
\* marked, the platform has; what it discards was marked, and of that only what
\* it still has to unlink is on disk.
ReadOK(l) ==
  LET c == l.current
  IN  /\ c \in stored
      /\ l.parts \subseteq FilesOf({c})
      /\ \/ HeldWhole(c)
         \/ l.at = "archive" /\ l.parts = FilesOf({c}) \cap {<<c, "screenshot">>}
         \/ l.at = "send" /\ l.parts = FilesOf({c})

RunOK(l) ==
  /\ l.batch \cup l.done \subseteq stored
  /\ l.at \in {"archive", "send"} => ReadOK(l)
  /\ l.at = "screenshot" => l.parts = {}
  /\ \A c \in l.done : HeldWhole(c)
  /\ l.chosen \subseteq delivered
  /\ \A f \in l.trash : f[1] \in delivered
  /\ FilesOf(l.chosen \ Stubborn) \cap disk \subseteq l.trash

RunsOK == \A d \in Deliverers : RunOK(run[d])
DeliveredIsHeld == \A c \in delivered : HeldWhole(c)

\* The inductive invariant behind the two properties above.
EvidenceInv ==
  /\ TypeOK /\ FilesOK /\ AllOrNothing /\ RunsOK /\ DeliveredIsHeld
  /\ OnlyCopyKept /\ ForgottenMeansGone

\* A capture the platform would take arrives there in full, however often runs
\* are killed and answers are lost, and although an older one is refused for
\* ever (evidence.py:164-166, 186-210).
EveryCaptureArrives ==
  \A c \in Captures \ (Unwelcome \cup Unreadable) :
    c \in stored ~> (c \in delivered /\ FilesOf({c}) \subseteq held)

\* Files are deleted once the platform has confirmed them (evidence.py:11-13),
\* unless a run was killed: a capture marked by a run that died before it
\* unlinked waits for the next run that has something to deliver, which may
\* never come (evidence.py:183).
RemovedUnlessKilled ==
  \A c \in Captures \ Stubborn :
    c \in delivered ~> FilesOf({c}) \cap disk = {} \/ crashes > 0

=============================================================================
