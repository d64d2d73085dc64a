------------------------------- MODULE Forwarder -------------------------------
(***************************************************************************)
(* The afferent forwarder (cli/beacon/internal/afferent/forward): it tails  *)
(* the runtime log and posts its lines to brainsrv, keeping one checkpoint  *)
(* per file identity in memory and in state/checkpoints.json.              *)
(*                                                                         *)
(* The forwarder reads files that the writers of RuntimeLog append to,     *)
(* rotate and delete between any two of its steps.  A process (the service, *)
(* a one-shot `forward --once`, or the Prime of `afferent sync`) holds the  *)
(* flock on the state directory for its whole run, so there is at most one; *)
(* it can crash at any step, and the next one starts from the checkpoints   *)
(* on disk.                                                                *)
(*                                                                         *)
(* Lines are counted, not bytes: MaxLines stands for both batch limits      *)
(* (MaxLines and MaxBatchBytes).  The 401 retry inside one post, the scope  *)
(* lookup and the choice of the next delay change nothing modelled here: a  *)
(* post has one outcome, and a failed one is followed by another scan.      *)
(***************************************************************************)
EXTENDS RuntimeLog, FiniteSetsExt

CONSTANTS
  NoCp,       \* a file without a checkpoint
  HeadMax,    \* headMax: units of a file's head a checkpoint remembers
  MaxLines,   \* Options.MaxLines: data lines in one batch
  PostLines,  \* data lines brainsrv takes in one post before it answers 413
  Blank,      \* events that are blank lines
  Oversized,  \* events whose line is over Options.MaxLineBytes
  TooLarge,   \* events brainsrv refuses with 413 even alone
  Starts,     \* the other ways to start than as the service: [mode, backfill]
  MaxStarts,  \* bound: such starts
  SaveFails   \* whether writing checkpoints.json may fail

ASSUME LimitsAssumption ==
  HeadMax \in Nat \ {0} /\ MaxLines \in Nat \ {0} /\ PostLines \in Nat \ {0}
ASSUME LinesAssumption ==
  Blank \subseteq Events /\ Oversized \subseteq Events /\ TooLarge \subseteq Events
ASSUME StartsAssumption ==
  /\ MaxStarts \in Nat
  /\ SaveFails \in BOOLEAN
  /\ Starts \subseteq [mode : {"service", "once", "prime"}, backfill : BOOLEAN]

Checkpoint == [off : Nat, head : Seq(Unit), size : Nat, path : Slots, missing : Nat]

ASSUME NoCpAssumption == NoCp \notin Checkpoint

State == [init : BOOLEAN, files : [Inodes -> Checkpoint \cup {NoCp}]]
Fresh == [init |-> FALSE, files |-> [f \in Inodes |-> NoCp]]
View  == [key : Inodes, size : Nat, path : Slots]
Kinds == {"data", "blank", "skipped"}
Entry == [key : Inodes, end : Nat, evs : SUBSET Events, kind : Kinds]

VARIABLES
  fpc,      \* the process: "down", or what it does next
  run,      \* how it was started: [mode, backfill]
  placing,  \* whether the scan under way is place()'s, which reads nothing
  opening,  \* the slot openViews opens next
  views,    \* the files this scan opened, oldest first
  st,       \* Forwarder.state: the checkpoints in memory
  batch,    \* the entries of this scan
  cuts,     \* ends of the parts of batch still to deliver, in order
  sent,     \* entries of batch committed so far
  pending,  \* pendingSince is set: a partial batch has waited once
  disk,     \* checkpoints.json
  starts,   \* other starts so far
  accepted, \* brainsrv: the events of every line it has taken
  passed,   \* events passed over unsent: blank, skipped, or before the first run
  unsaved   \* ghost: commits not saved since the last save that succeeded

fwdVars == <<fpc, run, placing, opening, views, st, batch, cuts, sent, pending,
             disk, starts, accepted, passed, unsaved>>
vars == <<logVars, fwdVars>>

Service == [mode |-> "service", backfill |-> FALSE]

FwdTypeOK ==
  /\ fpc \in {"down", "idle", "open", "reconcile", "persist", "read", "post",
              "commit", "save"}
  /\ run \in [mode : {"service", "once", "prime"}, backfill : BOOLEAN]
  /\ placing \in BOOLEAN
  /\ opening \in Slots
  /\ views \in Seq(View)
  /\ st \in State /\ disk \in State
  /\ batch \in Seq(Entry)
  /\ cuts \in Seq(Nat)
  /\ sent \in Nat
  /\ pending \in BOOLEAN
  /\ starts \in 0..MaxStarts
  /\ accepted \subseteq Events /\ passed \subseteq Events
  /\ unsaved \in Nat

TypeOK == LogTypeOK /\ FwdTypeOK

FwdInit ==
  /\ fpc = "down" /\ run = Service /\ placing = TRUE
  /\ opening = 0 /\ views = <<>>
  /\ st = Fresh /\ disk = Fresh
  /\ batch = <<>> /\ cuts = <<>> /\ sent = 0 /\ pending = FALSE
  /\ starts = 0
  /\ accepted = {} /\ passed = {} /\ unsaved = 0

Init == LogInit /\ FwdInit

\* The process ends, by itself or not: its memory and its descriptors go, and
\* the state directory's lock with them.
Halt ==
  /\ fpc' = "down" /\ run' = Service /\ placing' = TRUE
  /\ opening' = 0 /\ views' = <<>> /\ st' = Fresh
  /\ batch' = <<>> /\ cuts' = <<>> /\ sent' = 0 /\ pending' = FALSE

\* Back to the top of the loop, where the next scan starts.
Rest ==
  /\ fpc' = "idle" /\ placing' = FALSE
  /\ opening' = 0 /\ views' = <<>>
  /\ batch' = <<>> /\ cuts' = <<>> /\ sent' = 0

\* An error: the service waits and scans again, anything else returns it.
GiveUp == IF run.mode = "service" THEN Rest /\ UNCHANGED <<run, st>> ELSE Halt

-----------------------------------------------------------------------------
(* Run and Prime.                                                           *)

\* Take the lock and load the checkpoints; --backfill drops them.  (Prime
\* returns at once when they are there already, which changes nothing.)
Start(r) ==
  /\ fpc = "down"
  /\ r # Service => starts < MaxStarts
  /\ r.mode = "prime" => ~disk.init
  /\ starts' = IF r = Service THEN starts ELSE starts + 1
  /\ fpc' = "open" /\ run' = r /\ placing' = TRUE
  /\ st' = IF r.backfill THEN Fresh ELSE disk
  /\ UNCHANGED <<logVars, opening, views, batch, cuts, sent, pending, disk, accepted,
                 passed, unsaved>>

StartService == Start(Service)

StartScan ==
  /\ fpc = "idle"
  /\ fpc' = "open"
  /\ UNCHANGED <<logVars, run, placing, opening, views, st, batch, cuts, sent,
                 pending, disk, starts, accepted, passed, unsaved>>

-----------------------------------------------------------------------------
(* scan and place.                                                          *)

ViewKeys == {views[i].key : i \in DOMAIN views}

\* Mutant: opens the archives first and the live log last.
OpenViewOldestFirst ==
  /\ fpc = "open"
  /\ LET i == Archives - opening
         f == slot[i]
     IN  views' = IF f = NoFile \/ f \in ViewKeys THEN views
                  ELSE Append(views, [key |-> f, size |-> Len(data[f]), path |-> i])
  /\ IF opening = Archives THEN fpc' = "reconcile" /\ opening' = 0
                           ELSE opening' = opening + 1 /\ UNCHANGED fpc
  /\ UNCHANGED <<logVars, run, placing, st, batch, cuts, sent, pending, disk,
                 starts, accepted, passed, unsaved>>

\* openViews, one name per step: open it and fix the size; a name that is not
\* there, or a file seen already, is passed over.
OpenView ==
  /\ fpc = "open"
  /\ LET f == slot[opening] IN
     views' = IF f = NoFile \/ f \in ViewKeys THEN views
              ELSE <<[key |-> f, size |-> Len(data[f]), path |-> opening]>> \o views
  /\ IF opening = Archives THEN fpc' = "reconcile" /\ opening' = 0
                           ELSE opening' = opening + 1 /\ UNCHANGED fpc
  /\ UNCHANGED <<logVars, run, placing, st, batch, cuts, sent, pending, disk,
                 starts, accepted, passed, unsaved>>

\* Mutant: starts at the size, whether or not a line ends there.
LastLineEndAtSize(f, size) == size

\* lastLineEnd: just past the last newline in the first size units, or 0.
LastLineEnd(f, size) == Max({0} \cup {j \in 1..size : data[f][j].nl})

\* A first run starts at the end of the files it finds.
FirstRun == ~st.init /\ ~run.backfill

FirstOffset(v) == IF FirstRun THEN LastLineEnd(v.key, v.size) ELSE 0

HeadOf(f, n) == SubSeq(data[f], 1, n)

\* Mutant: a file read to its end is taken for a new one.
ReplacedAtEnd(v, off, head) ==
  \/ v.size =< off
  \/ v.size >= Len(head) /\ HeadOf(v.key, Len(head)) # head

\* The file under this identity is not the one the checkpoint was made for: it
\* shrank, or its head changed.
Replaced(v, off, head) ==
  \/ v.size < off
  \/ v.size >= Len(head) /\ HeadOf(v.key, Len(head)) # head

\* The checkpoint of a file this scan opened: placed if it is new, started
\* over if it replaced another, and with the head it covers.
Placed(v) ==
  LET old  == st.files[v.key]
      off  == IF old = NoCp THEN FirstOffset(v) ELSE old.off
      head == IF old = NoCp THEN <<>> ELSE old.head
      replaced == Replaced(v, off, head)
      off1  == IF replaced THEN 0 ELSE off
      head1 == IF replaced THEN <<>> ELSE head
      n     == IF off1 < HeadMax THEN off1 ELSE HeadMax
  IN  [off |-> off1, size |-> v.size, path |-> v.path, missing |-> 0,
       head |-> IF n > Len(head1) THEN HeadOf(v.key, n) ELSE head1]

\* The checkpoint of a file this scan did not find: forgotten at the second.
NotFound(cp) ==
  IF cp = NoCp \/ cp.missing >= 1 THEN NoCp ELSE [cp EXCEPT !.missing = @ + 1]

Reconciled ==
  [init  |-> TRUE,
   files |-> [f \in Inodes |->
                IF f \in ViewKeys
                THEN Placed(CHOOSE v \in {views[i] : i \in DOMAIN views} : v.key = f)
                ELSE NotFound(st.files[f])]]

\* Events a first run starts past.
SkippedByFirstRun ==
  UNION {{data[v.key][j].ev : j \in 1..FirstOffset(v)} :
           v \in {views[i] : i \in {k \in DOMAIN views : st.files[views[k].key] = NoCp}}}

\* What follows once the checkpoints are reconciled and, if they changed, saved.
Reconcile ==
  /\ fpc = "reconcile"
  /\ st' = Reconciled
  /\ passed' = passed \cup SkippedByFirstRun
  /\ fpc' = IF Reconciled # st THEN "persist" ELSE "read"
  /\ UNCHANGED <<logVars, run, placing, opening, views, batch, cuts, sent,
                 pending, disk, starts, accepted, unsaved>>

\* saveState after a scan or by place; WriteFileAtomic replaces the file whole.
Persist ==
  /\ fpc = "persist"
  /\ disk' = st /\ unsaved' = 0
  /\ fpc' = "read"
  /\ UNCHANGED <<logVars, run, placing, opening, views, st, batch, cuts, sent,
                 pending, starts, accepted, passed>>

\* place() reads nothing: Run goes on to its loop, Prime returns.
EndPlace ==
  /\ fpc = "read" /\ placing
  /\ IF run.mode = "prime" THEN Halt
     ELSE Rest /\ UNCHANGED <<run, st, pending>>
  /\ UNCHANGED <<logVars, disk, starts, accepted, passed, unsaved>>

-----------------------------------------------------------------------------
(* Reading the batch.                                                       *)

DataLines(lo, hi) == {i \in lo..hi : batch[i].kind = "data"}
Full == Cardinality(DataLines(1, Len(batch))) >= MaxLines

\* Where reading goes on in the file of view v.
ReadFrom(v) ==
  IF batch # <<>> /\ batch[Len(batch)].key = v.key THEN batch[Len(batch)].end
  ELSE st.files[v.key].off

LineKind(evs) ==
  IF evs \cap Oversized # {} THEN "skipped" ELSE IF evs \subseteq Blank THEN "blank" ELSE "data"

\* readLines: the next complete line of the oldest file not read through.
ReadLine ==
  /\ fpc = "read" /\ ~placing /\ views # <<>> /\ ~Full
  /\ LET v == Head(views)
         from == ReadFrom(v)
     IN  \E end \in (from + 1)..v.size :
           /\ data[v.key][end].nl
           /\ \A j \in (from + 1)..(end - 1) : ~data[v.key][j].nl
           /\ LET evs == {data[v.key][j].ev : j \in (from + 1)..end}
              IN  batch' = Append(batch, [key |-> v.key, end |-> end, evs |-> evs,
                                          kind |-> LineKind(evs)])
  /\ UNCHANGED <<logVars, fpc, run, placing, opening, views, st, cuts, sent,
                 pending, disk, starts, accepted, passed, unsaved>>

\* No complete line is left in it (a line without its newline waits).
NextView ==
  /\ fpc = "read" /\ ~placing /\ views # <<>> /\ ~Full
  /\ LET v == Head(views)
     IN  \A j \in (ReadFrom(v) + 1)..v.size : ~data[v.key][j].nl
  /\ views' = Tail(views)
  /\ UNCHANGED <<logVars, fpc, run, placing, opening, st, batch, cuts, sent,
                 pending, disk, starts, accepted, passed, unsaved>>

\* The scan is over: close the files and decide what to do with the batch.
EndScan ==
  /\ fpc = "read" /\ ~placing /\ (views = <<>> \/ Full)
  /\ UNCHANGED <<logVars, disk, starts, accepted, passed, unsaved>>

NothingToRead ==
  /\ EndScan /\ batch = <<>>
  /\ IF run.mode = "once" THEN Halt
     ELSE Rest /\ pending' = FALSE /\ UNCHANGED <<run, st>>

\* Mutant: forgets that it has waited.
WaitForMoreAgain ==
  /\ EndScan /\ DataLines(1, Len(batch)) # {}
  /\ run.mode = "service" /\ ~Full /\ ~pending
  /\ Rest /\ UNCHANGED <<run, st, pending>>

\* A partial batch waits FlushInterval once before it goes: the scan is redone.
WaitForMore ==
  /\ EndScan /\ DataLines(1, Len(batch)) # {}
  /\ run.mode = "service" /\ ~Full /\ ~pending
  /\ Rest /\ pending' = TRUE /\ UNCHANGED <<run, st>>

\* Only blank or oversized lines: move on without a post.
NothingToSend ==
  /\ EndScan /\ batch # <<>> /\ DataLines(1, Len(batch)) = {}
  /\ fpc' = "commit" /\ cuts' = <<Len(batch)>>
  /\ opening' = 0 /\ views' = <<>>
  /\ UNCHANGED <<run, placing, st, batch, sent, pending>>

Deliver ==
  /\ EndScan /\ DataLines(1, Len(batch)) # {}
  /\ run.mode = "service" => Full \/ pending
  /\ fpc' = "post" /\ cuts' = <<Len(batch)>> /\ pending' = FALSE
  /\ opening' = 0 /\ views' = <<>>
  /\ UNCHANGED <<run, placing, st, batch, sent>>

-----------------------------------------------------------------------------
(* deliver: post the next part of the batch, split it on a 413, commit it.  *)

Part      == (sent + 1)..Head(cuts)
PartData  == DataLines(sent + 1, Head(cuts))
PartLines == UNION {batch[i].evs : i \in PartData}
Refused   == Cardinality(PartData) > PostLines \/ PartLines \cap TooLarge # {}

PostOK ==
  /\ fpc = "post" /\ ~Refused
  /\ accepted' = accepted \cup PartLines
  /\ fpc' = "commit"
  /\ UNCHANGED <<logVars, run, placing, opening, views, st, batch, cuts, sent,
                 pending, disk, starts, passed, unsaved>>

\* 413 on more than one line: the half before the middle data line, then the
\* rest.
PostSplit ==
  /\ fpc = "post" /\ Refused /\ Cardinality(PartData) > 1
  /\ \E m \in PartData :
       /\ Cardinality(DataLines(sent + 1, m)) = Cardinality(PartData) \div 2 + 1
       /\ cuts' = <<m - 1>> \o cuts
  /\ UNCHANGED <<logVars, fpc, run, placing, opening, views, st, batch, sent,
                 pending, disk, starts, accepted, passed, unsaved>>

\* 413 on a single line: it is skipped.
PostSkip ==
  /\ fpc = "post" /\ Refused /\ Cardinality(PartData) = 1
  /\ batch' = [i \in DOMAIN batch |->
                 IF i \in PartData THEN [batch[i] EXCEPT !.kind = "skipped"] ELSE batch[i]]
  /\ fpc' = "commit"
  /\ UNCHANGED <<logVars, run, placing, opening, views, st, cuts, sent, pending,
                 disk, starts, accepted, passed, unsaved>>

\* Any other answer (5xx, 4xx, a redirect, no token, no connection), or a 200
\* that is lost on the way back after brainsrv took the lines.
PostFails ==
  /\ fpc = "post" /\ faults < MaxFaults
  /\ faults' = faults + 1
  /\ accepted' \in {accepted} \cup (IF Refused THEN {} ELSE {accepted \cup PartLines})
  /\ GiveUp /\ pending' = FALSE
  /\ UNCHANGED <<slot, data, used, next, wpc, wslot, guarded, guard, disk, starts,
                 passed, unsaved>>

\* Mutant: takes the ends of the whole batch, split or not.
EndsOfBatch(f) == {batch[i].end : i \in {k \in DOMAIN batch : batch[k].key = f}}

\* commit: the checkpoints in memory move past the part; what carried no line
\* is passed over.
Ends(f) == {batch[i].end : i \in {k \in Part : batch[k].key = f}}

Commit ==
  /\ fpc = "commit"
  /\ st' = [st EXCEPT !.files =
              [f \in Inodes |->
                 IF st.files[f] = NoCp THEN NoCp
                 ELSE [st.files[f] EXCEPT !.off = Max({@} \cup Ends(f))]]]
  /\ passed' = passed \cup UNION {batch[i].evs : i \in Part \ PartData}
  /\ fpc' = "save"
  /\ UNCHANGED <<logVars, run, placing, opening, views, batch, cuts, sent,
                 pending, disk, starts, accepted, unsaved>>

\* Mutant: does not write the checkpoints it moved.
SaveNothing ==
  /\ fpc = "save"
  /\ IF Len(cuts) = 1
     THEN Rest /\ UNCHANGED <<run, st>>
     ELSE /\ fpc' = "post" /\ sent' = Head(cuts) /\ cuts' = Tail(cuts)
          /\ UNCHANGED <<run, placing, opening, views, st, batch>>
  /\ UNCHANGED <<logVars, disk, pending, starts, accepted, passed, unsaved>>

\* commit's saveState; then the next part, or the next scan.
Save ==
  /\ fpc = "save"
  /\ disk' = st /\ unsaved' = 0
  /\ IF Len(cuts) = 1
     THEN Rest /\ UNCHANGED <<run, st>>
     ELSE /\ fpc' = "post" /\ sent' = Head(cuts) /\ cuts' = Tail(cuts)
          /\ UNCHANGED <<run, placing, opening, views, st, batch>>
  /\ UNCHANGED <<logVars, pending, starts, accepted, passed>>

\* checkpoints.json cannot be written: memory keeps what it has.
SaveFailed ==
  /\ SaveFails /\ fpc \in {"persist", "save"} /\ faults < MaxFaults
  /\ faults' = faults + 1
  /\ unsaved' = IF fpc = "save" THEN unsaved + 1 ELSE unsaved
  /\ GiveUp
  /\ run.mode = "service" => UNCHANGED pending
  /\ UNCHANGED <<slot, data, used, next, wpc, wslot, guarded, guard, disk,
                 starts, accepted, passed>>

\* The process is killed, or its context is cancelled.
Crash ==
  /\ fpc # "down" /\ faults < MaxFaults
  /\ faults' = faults + 1
  /\ Halt
  /\ UNCHANGED <<slot, data, used, next, wpc, wslot, guarded, guard, disk,
                 starts, accepted, passed, unsaved>>

-----------------------------------------------------------------------------

\* What the process does on its own once started.
FwdStep ==
  \/ StartScan \/ OpenView \/ Reconcile \/ Persist \/ EndPlace
  \/ ReadLine \/ NextView
  \/ NothingToRead \/ WaitForMore \/ NothingToSend \/ Deliver
  \/ PostOK \/ PostSplit \/ PostSkip \/ Commit \/ Save

FwdFault == PostFails \/ SaveFailed \/ Crash

Writers == WriterNext(ViewKeys) /\ UNCHANGED fwdVars

Next ==
  \/ Writers
  \/ StartService \/ \E r \in Starts : Start(r)
  \/ FwdStep \/ FwdFault

\* A writer that holds the lock finishes; the service manager restarts the
\* service and its loop runs on.  Faults are bounded, so they stop.
Fairness ==
  /\ WF_vars(WriterStep(ViewKeys) /\ UNCHANGED fwdVars)
  /\ WF_vars(StartService)
  /\ WF_vars(FwdStep)

Spec == Init /\ [][Next]_vars

FairSpec == Spec /\ Fairness

-----------------------------------------------------------------------------
(* Properties.                                                              *)

\* What brainsrv need not be sent any more.
Settled == accepted \cup passed

\* Checkpoint cp of file f would not be taken for the file's current content.
Outdated(cp, f) ==
  \/ Len(data[f]) < cp.off
  \/ Len(data[f]) >= Len(cp.head) /\ HeadOf(f, Len(cp.head)) # cp.head

\* The checkpoints of s skip nothing: every unit below an offset belongs to a
\* line that brainsrv took or that is passed over by design.
SkipsNothing(s) ==
  \A f \in Inodes :
    s.files[f] # NoCp /\ ~Outdated(s.files[f], f) =>
      \A j \in 1..s.files[f].off : data[f][j].ev \in Settled

\* Delivery is at least once: whatever the interleaving with rotation, crashes,
\* lost answers, 413 splits and failed saves, no checkpoint passes a line that
\* brainsrv has not taken.  Of the file on disk, which the next process starts
\* from, as well as of memory.
CheckpointSafe == SkipsNothing(st) /\ SkipsNothing(disk)

\* An offset is just past a newline (state.go: "Offset is always just past a
\* newline"), so that no scan starts inside a line.
OnLineBoundary ==
  \A f \in Inodes :
    st.files[f] # NoCp /\ ~Outdated(st.files[f], f) =>
      st.files[f].off = 0 \/ data[f][st.files[f].off].nl

\* A scan that races a rotation never loses sight of a file the log still
\* holds: a checkpoint is forgotten, or counted missing, only for a file gone.
RetainedNotForgotten ==
  \A f \in Linked : st.files[f] # NoCp => st.files[f].missing = 0

\* The events of the line that ends at unit k of file f.
LineEvs(f, k) == {data[f][j].ev : j \in (LastLineEnd(f, k - 1) + 1)..k}

\* Ends of the data lines of f that brainsrv has answered for: it took them, and
\* the checkpoint in memory is past them or about to be.
Answered(f) ==
  {k \in DOMAIN data[f] :
     /\ data[f][k].nl /\ LineKind(LineEvs(f, k)) = "data" /\ LineEvs(f, k) \subseteq accepted
     /\ \/ st.files[f] # NoCp /\ k =< st.files[f].off
        \/ fpc = "commit" /\ \E i \in PartData : batch[i].key = f /\ batch[i].end = k}

\* Of those, the ones the next process would send again if this one died.
Unsaved(f) == {k \in Answered(f) : disk.files[f] = NoCp \/ disk.files[f].off < k}
ToRepeat   == UNION {{f} \X Unsaved(f) : f \in Linked}

\* The batch whose answer is not on disk yet, and those whose save failed since
\* the last save that did not.
BatchesUnsaved == unsaved + (IF fpc \in {"commit", "save"} THEN 1 ELSE 0)

\* "A crash between the 200 and the checkpoint write re-sends one batch"
\* (docs/afferent/CLI.md), and one at no other time: what brainsrv answered for
\* but the checkpoints on disk do not pass fits the batch under commit, and one
\* more for every failed save, which lets memory run ahead of the disk.
ResendsOneBatch == Cardinality(ToRepeat) =< MaxLines * BatchesUnsaved

\* Every event the log holds is in the end taken by brainsrv, passed over, or
\* rotated out before it could be.
EventuallySettled ==
  \A e \in Events :
    (\E f \in Linked : \E j \in DOMAIN data[f] : data[f][j] = Line(e)[2])
      ~> (e \in Settled \/ e \notin Retained)

-----------------------------------------------------------------------------
(* The inductive invariant behind CheckpointSafe and OnLineBoundary, for a  *)
(* filesystem that does not hand out a deleted file's inode again.          *)

\* The units of content up to off are there, belong to events in S, and end a line.
Covered(content, off, S) ==
  /\ off =< Len(content)
  /\ \A j \in 1..off : content[j].ev \in S
  /\ off = 0 \/ content[off].nl

CheckpointsCovered(s) ==
  \A f \in Inodes : s.files[f] # NoCp => Covered(data[f], s.files[f].off, Settled)

\* A view stays within its file, and reading starts from a checkpoint.
ViewsInv ==
  \A i \in DOMAIN views :
    /\ views[i].size =< Len(data[views[i].key])
    /\ fpc \in {"persist", "read"} => st.files[views[i].key] # NoCp

EvsUpTo(i) == UNION {batch[m].evs : m \in 1..i}

\* What an entry's offset passes is settled or rides in the batch up to it.
BatchInv ==
  \A i \in DOMAIN batch : Covered(data[batch[i].key], batch[i].end, Settled \cup EvsUpTo(i))

\* The entries committed are settled, and so is the part under commit, as far
\* as it carries lines before commit and altogether after.
SentInv ==
  IF fpc \notin {"post", "commit", "save"} THEN sent = 0 ELSE
    /\ cuts # <<>>
    /\ \A k \in DOMAIN cuts : cuts[k] =< Len(batch)
    /\ \A m \in DOMAIN batch : m =< sent => batch[m].evs \subseteq Settled
    /\ fpc \in {"commit", "save"} =>
         \A m \in Part : \/ batch[m].evs \subseteq Settled
                         \/ fpc = "commit" /\ batch[m].kind # "data"

Inductive ==
  /\ TypeOK
  /\ FilesInv /\ ViewsInv /\ BatchInv /\ SentInv
  /\ CheckpointsCovered(st) /\ CheckpointsCovered(disk)

-----------------------------------------------------------------------------
(* The promise the forwarder keeps.                                         *)

\* Events of the log that the checkpoints on disk pass.
Done ==
  {e \in Retained : \E f \in Linked : \E j \in DOMAIN data[f] :
     data[f][j].ev = e /\ disk.files[f] # NoCp /\ j =< disk.files[f].off}

\* The checkpoints in memory pass what those on disk pass.
Ahead ==
  \A f \in Linked : disk.files[f] # NoCp =>
    st.files[f] # NoCp /\ st.files[f].off >= disk.files[f].off

\* A backfill takes effect when its checkpoints replace those on disk.
Promise == INSTANCE AtLeastOnce
             WITH log <- Retained, taken <- accepted, exempt <- passed, done <- Done,
                  asked <- run.backfill /\ ~Ahead

\* The checkpoints on disk never pass an event brainsrv was not given, and
\* never go back on a retained one unless --backfill asks for it.
KeepsPromise == Promise!Spec

-----------------------------------------------------------------------------
(* The inductive invariant behind RetainedNotForgotten and KeepsPromise.    *)

\* A checkpoint is that of a file that was created, with the head it still has,
\* and is not counted missing while the log holds the file.
Kept(s) ==
  \A f \in Inodes : s.files[f] # NoCp =>
    LET cp == s.files[f] IN
    /\ f \in used /\ (f \in Linked => cp.missing = 0)
    /\ Len(cp.head) =< Len(data[f]) /\ cp.head = HeadOf(f, Len(cp.head))

\* What a scan has opened, or will still meet at the slot it opens next or a
\* larger one, is every file of the log that has a checkpoint: rotation only
\* moves files to larger slots.
SightInv ==
  /\ fpc # "open" => opening = 0
  /\ fpc \in {"down", "idle"} => views = <<>>
  /\ \A i \in DOMAIN views : views[i].key \in used
  /\ fpc \in {"open", "reconcile"} =>
       /\ \A i \in DOMAIN views :
            st.files[views[i].key] # NoCp => st.files[views[i].key].off =< views[i].size
       /\ \A i \in Slots : slot[i] # NoFile /\ st.files[slot[i]] # NoCp =>
            slot[i] \in ViewKeys \/ (fpc = "open" /\ opening =< i)

\* Only a backfill's checkpoints are behind those on disk.
AheadInv == fpc # "down" /\ ~run.backfill => Ahead

Sighted ==
  /\ Inductive /\ OrderInv /\ GuardInv
  /\ Kept(st) /\ Kept(disk) /\ SightInv /\ AheadInv

-----------------------------------------------------------------------------
(* The inductive invariant behind ResendsOneBatch, when saves do not fail.   *)

\* A batch holds whole lines, and every line from the checkpoints in memory to
\* the end of its last entry of a file.
LinesRead ==
  \A m \in DOMAIN batch :
    LET f == batch[m].key  end == batch[m].end IN
    /\ st.files[f] # NoCp
    /\ end \in 1..Len(data[f]) /\ data[f][end].nl /\ batch[m].evs = LineEvs(f, end)
    /\ \/ batch[m].kind = "data"
       \/ LineKind(LineEvs(f, end)) # "data" \/ LineEvs(f, end) \cap TooLarge # {}
    /\ \A k \in 1..end : data[f][k].nl =>
         k =< st.files[f].off \/ \E i \in 1..m : batch[i].key = f /\ batch[i].end = k

\* There is one only while it is read and delivered, it has MaxLines data lines
\* at most, and the checkpoints in memory pass what is committed of it.
BatchBound ==
  /\ fpc \in {"down", "idle", "open", "reconcile", "persist"} => batch = <<>>
  /\ Cardinality(DataLines(1, Len(batch))) =< MaxLines
  /\ fpc \in {"post", "commit", "save"} =>
       \A m \in DOMAIN batch : m =< (IF fpc = "save" THEN Head(cuts) ELSE sent) =>
         batch[m].end =< st.files[batch[m].key].off

\* brainsrv gets lines only once the checkpoints of a first run are saved, so
\* that no later process takes itself for the first one.
FirstRunSaved ==
  /\ fpc \in {"idle", "persist", "read", "post", "commit", "save"} => st.init
  /\ fpc \in {"idle", "read", "post", "commit", "save"} \/ accepted # {} => disk.init
  /\ fpc \in {"open", "reconcile"} => (st.init => disk.init) /\ (disk.init => st.init \/ run.backfill)
  /\ accepted \cap TooLarge = {}

\* The checkpoints on disk pass what those in memory pass.
NotBehind ==
  \A f \in Linked : st.files[f] # NoCp =>
    st.files[f].off = 0 \/ (disk.files[f] # NoCp /\ st.files[f].off =< disk.files[f].off)

\* Only between the checkpoint in memory and the one on disk are they behind,
\* by lines of the part under commit.
BehindInv ==
  IF fpc = "save"
  THEN \A f \in Linked : \A k \in DOMAIN data[f] :
         st.files[f] # NoCp /\ k =< st.files[f].off /\ data[f][k].nl =>
           \/ disk.files[f] # NoCp /\ k =< disk.files[f].off
           \/ \E i \in Part : batch[i].key = f /\ batch[i].end = k
  ELSE NotBehind \/ (fpc = "persist" /\ accepted = {})

Frugal == Sighted /\ LinesRead /\ BatchBound /\ FirstRunSaved /\ BehindInv
=============================================================================
