----------------------------- MODULE CloudShuttle -----------------------------
(***************************************************************************)
(* The incremental upload of a cloud sandbox's runtime log to managed       *)
(* ingest, from cli/beacon-hooks/internal/cloudshuttle.  Every hook is a    *)
(* process: it appends its event, and some then upload the lines past the   *)
(* offset in the shuttle's state file.  A hook at the start of a session    *)
(* sends what the previous run left and clears the log.  Only the copy of   *)
(* the log is made under the log's lock.                                    *)
(*                                                                         *)
(* A line is the number of its event; sizes and offsets count lines.  An    *)
(* append is one step, for it holds the log's lock.                         *)
(*                                                                         *)
(* Left out: the bucket targets, which upload the whole log each time; the  *)
(* removal of the lock file, after which two appends may overlap.           *)
(***************************************************************************)
EXTENDS Integers, Sequences, FiniteSets

CONSTANTS
  Hooks,      \* hook processes
  RotateAt,   \* lines at which an append rotates the log
  BatchLines, \* lines in one post
  CalmStarts, \* a session start runs beside no other upload, and is not killed
              \* between the removal of the log and that of the state file
  MaxEvents,  \* bound: events
  MaxRuns,    \* bound: runs, each begun by a session start after the first
  MaxFaults,  \* bound: posts that fail or whose answer is lost
  MaxCrashes  \* bound: hooks that are killed

ASSUME SizesAssumption  == RotateAt \in Nat \ {0} /\ BatchLines \in Nat \ {0}
ASSUME StartsAssumption == CalmStarts \in BOOLEAN
ASSUME BoundsAssumption == {MaxEvents, MaxFaults, MaxCrashes} \subseteq Nat /\ MaxRuns \in Nat \ {0}

VARIABLES
  log,     \* the live log; empty when there is no file
  next,    \* the next event
  state,   \* the state file: the run it belongs to and LastSize; run 0 for no file
  file,    \* the state file's text: whole, empty once truncated, or mixed of two writes
  sent,    \* ingest: the events it has taken
  aside,   \* events in a .previous file or an archive
  runs,    \* runs begun
  hook,    \* hook -> what it is doing
  faults, crashes

vars == <<log, next, state, file, sent, aside, runs, hook, faults, crashes>>

Events == 1..MaxEvents
Runs   == 1..MaxRuns
NoState == [run |-> 0, size |-> 0]
Steps  == {"idle", "copy", "offset", "post", "truncate", "write", "remove", "clear"}
Hook   == [pc : Steps, reset : BOOLEAN, run : Runs \cup {0}, size : Nat, copy : Seq(Events), off : Nat]
Idle   == [pc |-> "idle", reset |-> FALSE, run |-> 0, size |-> 0, copy |-> <<>>, off |-> 0]

TypeOK ==
  /\ log \in Seq(Events) /\ next \in 1..(MaxEvents + 1)
  /\ state \in [run : Runs \cup {0}, size : 0..MaxEvents] /\ file \in {"whole", "empty", "mixed"}
  /\ sent \subseteq Events /\ aside \subseteq Events
  /\ runs \in Runs
  /\ hook \in [Hooks -> Hook]
  /\ \A h \in Hooks : hook[h].off =< Len(hook[h].copy) \/ hook[h].pc \in {"idle", "clear", "remove"}
  /\ faults \in 0..MaxFaults /\ crashes \in 0..MaxCrashes

Init ==
  /\ log = <<>> /\ next = 1
  /\ state = NoState /\ file = "whole"
  /\ sent = {} /\ aside = {}
  /\ runs = 1
  /\ hook = [h \in Hooks |-> Idle]
  /\ faults = 0 /\ crashes = 0

-----------------------------------------------------------------------------
Lines(s)    == {s[i] : i \in DOMAIN s}
At(h, pc)   == hook[h].pc = pc
Goto(h, pc) == hook' = [hook EXCEPT ![h].pc = pc]
Finish(h)   == hook' = [hook EXCEPT ![h] = Idle]
Fault       == faults < MaxFaults /\ faults' = faults + 1
Readable    == state.run # 0 /\ file = "whole"

\* appendEndpointJSONL: a full log becomes an archive, which is not uploaded.
AppendEvent(h) ==
  /\ At(h, "idle") /\ next \in Events
  /\ IF Len(log) >= RotateAt
     THEN log' = <<next>> /\ aside' = aside \cup Lines(log)
     ELSE log' = Append(log, next) /\ UNCHANGED aside
  /\ next' = next + 1
  /\ UNCHANGED <<state, file, sent, runs, hook, faults, crashes>>

\* Upload by a hook of run r: nothing to do without a log.
Upload(h, r) ==
  /\ At(h, "idle") /\ log # <<>>
  /\ CalmStarts => \A g \in Hooks : ~hook[g].reset
  /\ hook' = [hook EXCEPT ![h] = [Idle EXCEPT !.pc = "copy", !.run = r, !.size = Len(log)]]
  /\ UNCHANGED <<log, next, state, file, sent, aside, runs, faults, crashes>>

\* ResetFromEnv at the start of a new run.  What is left of the log is sent
\* under the identity in the state file, when there is one.
SessionStart(h) ==
  /\ At(h, "idle") /\ runs < MaxRuns
  /\ CalmStarts => \A g \in Hooks : At(g, "idle")
  /\ runs' = runs + 1
  /\ hook' = [hook EXCEPT ![h] =
       [Idle EXCEPT !.pc = IF log = <<>> THEN "clear" ELSE "copy", !.reset = TRUE,
                    !.run = IF Readable THEN state.run ELSE runs + 1, !.size = Len(log)]]
  /\ UNCHANGED <<log, next, state, file, sent, aside, faults, crashes>>

\* snapshotLog, under the shared lock.
Copy(h) ==
  /\ At(h, "copy")
  /\ IF log # <<>>
     THEN hook' = [hook EXCEPT ![h].pc = "offset", ![h].copy = log]
     ELSE IF hook[h].reset THEN Goto(h, "clear") ELSE Finish(h)
  /\ UNCHANGED <<log, next, state, file, sent, aside, runs, faults, crashes>>

\* The upload succeeded: a session start goes on to remove the log.
Succeed(h) == IF hook[h].reset THEN Goto(h, "remove") ELSE Finish(h)

\* LastSize applies when it belongs to this run and the log has not shrunk.
OffsetFor(h) ==
  IF Readable /\ state.run = hook[h].run /\ state.size =< hook[h].size THEN state.size ELSE 0

\* uploadAsymptoteIncremental seeks to the offset.
Seek(h) ==
  /\ At(h, "offset")
  /\ IF OffsetFor(h) >= hook[h].size \/ OffsetFor(h) >= Len(hook[h].copy)
     THEN Succeed(h)
     ELSE hook' = [hook EXCEPT ![h].pc = "post", ![h].off = OffsetFor(h)]
  /\ UNCHANGED <<log, next, state, file, sent, aside, runs, faults, crashes>>

\* Mutant: a batch is always full.
BatchEndPast(h) == hook[h].off + BatchLines

BatchEnd(h) ==
  LET n == Len(hook[h].copy) IN
  IF hook[h].off + BatchLines > n THEN n ELSE hook[h].off + BatchLines
Batch(h) == LET c == hook[h].copy IN {c[i] : i \in (hook[h].off + 1)..BatchEnd(h) \cap DOMAIN c}

\* Mutant: a batch counts as sent before ingest has answered.
PostCountedFirst(h) ==
  /\ At(h, "post")
  /\ \/ sent' = sent \cup Batch(h) /\ UNCHANGED faults
     \/ Fault /\ UNCHANGED sent
  /\ hook' = [hook EXCEPT ![h].pc = "truncate", ![h].off = BatchEnd(h)]
  /\ UNCHANGED <<log, next, state, file, aside, runs, crashes>>

\* One batch is posted; the offset moves only on a 2xx.
Post(h) ==
  /\ At(h, "post")
  /\ sent' = sent \cup Batch(h)
  /\ hook' = [hook EXCEPT ![h].pc = "truncate", ![h].off = BatchEnd(h)]
  /\ UNCHANGED <<log, next, state, file, aside, runs, faults, crashes>>

\* Mutant: a session start removes the log though its upload failed.
PostFailsForgotten(h) ==
  /\ At(h, "post") /\ Fault
  /\ \/ UNCHANGED sent
     \/ sent' = sent \cup Batch(h)
  /\ IF hook[h].reset THEN Goto(h, "remove") ELSE Finish(h)
  /\ UNCHANGED <<log, next, state, file, aside, runs, crashes>>

\* It fails, or was taken and the answer is lost.  A session start then renames
\* the log aside.
PostFails(h) ==
  /\ At(h, "post") /\ Fault
  /\ \/ UNCHANGED sent
     \/ sent' = sent \cup Batch(h)
  /\ IF hook[h].reset
     THEN Goto(h, "clear") /\ log' = <<>> /\ aside' = aside \cup Lines(log)
     ELSE Finish(h) /\ UNCHANGED <<log, aside>>
  /\ UNCHANGED <<next, state, file, runs, crashes>>

\* writeState truncates the file and writes it, after every batch.  Over what
\* another hook has written since, a shorter text leaves the other's end.
TruncateState(h) ==
  /\ At(h, "truncate")
  /\ file' = "empty"
  /\ Goto(h, "write")
  /\ UNCHANGED <<log, next, state, sent, aside, runs, faults, crashes>>

WriteState(h) ==
  /\ At(h, "write")
  /\ state' = [run |-> hook[h].run, size |-> hook[h].off]
  /\ file' \in (IF file = "empty" THEN {"whole"} ELSE {"whole", "mixed"})
  /\ IF hook[h].off < Len(hook[h].copy) THEN Goto(h, "post") ELSE Succeed(h)
  /\ UNCHANGED <<log, next, sent, aside, runs, faults, crashes>>

\* The session start removes the log it has sent, then the state file.
RemoveLog(h) ==
  /\ At(h, "remove")
  /\ log' = <<>>
  /\ Goto(h, "clear")
  /\ UNCHANGED <<next, state, file, sent, aside, runs, faults, crashes>>

\* Mutant: the state file survives.
ClearNothing(h) ==
  /\ At(h, "clear")
  /\ Finish(h)
  /\ UNCHANGED <<log, next, state, file, sent, aside, runs, faults, crashes>>

ClearState(h) ==
  /\ At(h, "clear")
  /\ state' = NoState /\ file' = "whole"
  /\ Finish(h)
  /\ UNCHANGED <<log, next, sent, aside, runs, faults, crashes>>

Crash(h) ==
  /\ ~At(h, "idle") /\ crashes < MaxCrashes
  /\ CalmStarts => ~At(h, "clear")
  /\ crashes' = crashes + 1
  /\ Finish(h)
  /\ UNCHANGED <<log, next, state, file, sent, aside, runs, faults>>

Work(h) ==
  \/ Copy(h) \/ Seek(h) \/ Post(h) \/ PostFails(h) \/ TruncateState(h) \/ WriteState(h)
  \/ RemoveLog(h) \/ ClearState(h)

Next ==
  \E h \in Hooks :
    \/ AppendEvent(h) \/ SessionStart(h) \/ Work(h) \/ Crash(h)
    \/ \E r \in 1..runs : Upload(h, r)

Spec == Init /\ [][Next]_vars

-----------------------------------------------------------------------------
(* Properties.                                                              *)

\* The lines that the offset in the state file skips have been sent
\* (asymptote.go:22, "sends only the lines appended since the last successful
\* upload"), whatever uploads ran at the same time, in whichever order they wrote
\* the file and wherever one of them was killed.
OffsetIsSent ==
  Readable /\ state.size =< Len(log) /\ (\A h \in Hooks : ~hook[h].reset)
    => Lines(SubSeq(log, 1, state.size)) \subseteq sent

\* A line leaves the sandbox's log only once it was sent, or into a file that
\* stays (shuttle.go, preserveExistingLog: a log is sent whole "rather than
\* renamed aside, where an ephemeral sandbox would lose it"); but for a line that
\* another hook has appended since a session start took the log's size, which
\* goes with the log when the start removes it.
NothingDropped ==
  [][\A i \in DOMAIN log :
       \/ log[i] \in Lines(log)' \cup sent' \cup aside'
       \/ \E h \in Hooks : At(h, "remove") /\ hook[h].reset /\ i > hook[h].size]_vars

-----------------------------------------------------------------------------
(* What these rest on.                                                      *)

\* The log stays below the size at which an append rotates it.
NeverRotates == RotateAt >= MaxEvents

\* No log is longer than the events so far, and a hook copies it before it seeks.
LengthsInv ==
  /\ Len(log) < next
  /\ \A h \in Hooks : Len(hook[h].copy) < next /\ (At(h, "copy") => hook[h].off = 0)

\* A session start that runs calmly is the only hook that uploads.
CalmInv ==
  /\ \A h \in Hooks : At(h, "idle") => hook[h] = Idle
  /\ \A g, h \in Hooks : hook[g].reset /\ g # h => At(h, "idle")

Prefix(s, t) == Len(s) =< Len(t) /\ \A k \in DOMAIN s : s[k] = t[k]
SentTo(s, n) == n =< Len(s) /\ \A k \in 1..n : s[k] \in sent

\* The log only grows beside an upload, so what was copied of it is its
\* beginning, and what the offset skips of it was sent; a session start removes
\* it once all it looked at was sent.
CopyInv(h) ==
  /\ hook[h].pc \in {"copy", "offset", "post", "truncate", "write"} =>
       hook[h].size =< Len(log) /\ hook[h].size > 0
  /\ hook[h].pc \in {"offset", "post", "truncate", "write"} =>
       Prefix(hook[h].copy, log) /\ hook[h].size =< Len(hook[h].copy)
  /\ hook[h].pc \in {"post", "truncate", "write"} => SentTo(hook[h].copy, hook[h].off)
  /\ hook[h].pc = "remove" => hook[h].reset /\ SentTo(log, hook[h].size)
  /\ hook[h].pc = "clear" => hook[h].reset

\* The offset in the state file is of lines sent, until a session start has
\* removed them.
StateInv == (\A h \in Hooks : ~At(h, "clear")) => SentTo(log, state.size)

UploadInv == StateInv /\ \A h \in Hooks : CopyInv(h)
=============================================================================
