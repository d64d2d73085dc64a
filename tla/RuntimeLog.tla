------------------------------ MODULE RuntimeLog ------------------------------
(***************************************************************************)
(* Beacon's runtime log: runtime.jsonl, its archives .1 to .N, and the      *)
(* appends of every process that shares it (hooks, collector, `afferent     *)
(* sync`), from cli/beacon/internal/endpoint/writer.                        *)
(*                                                                         *)
(* A file is an inode and a sequence of units.  An event's line is two      *)
(* units, the second holding its newline, so that a reader can meet half a  *)
(* line.  Appends are serialised by an flock on runtime.jsonl.lock: the     *)
(* writer below is whoever holds it, and every file operation it makes is a *)
(* step of its own, because readers do not take that lock.                  *)
(*                                                                         *)
(* Left out: sanitising and truncating the event, and the suppression of    *)
(* duplicates (IsDuplicateEndpointEvent): an event here is one that passed. *)
(***************************************************************************)
EXTENDS Integers, Sequences, FiniteSets

CONSTANTS
  Archives,   \* N: the number of archives rotation keeps
  RotateAt,   \* the size, in units, the live log may not pass
  MaxEvents,  \* bound: events offered to the log
  Inodes,     \* the filesystem's inode numbers
  NoFile,     \* stands for a name that does not exist
  InodeReuse, \* whether a freed inode may be given to the next file created
  Guards,     \* SUBSET BOOLEAN: TRUE for the appends of a guarded backfill run
  MaxFaults   \* bound: crashes and failed calls, of every component

ASSUME ArchivesAssumption == Archives \in Nat \ {0}
ASSUME SizesAssumption    == RotateAt \in Nat \ {0} /\ MaxEvents \in Nat
ASSUME InodesAssumption   == NoFile \notin Inodes /\ InodeReuse \in BOOLEAN
ASSUME GuardsAssumption   == Guards \subseteq BOOLEAN
ASSUME FaultsAssumption   == MaxFaults \in Nat

Events == 1..MaxEvents
Unit   == [ev : Events, nl : BOOLEAN]
Slots  == 0..Archives  \* slot 0 is the live log, slot i the archive .i

Line(e) == <<[ev |-> e, nl |-> FALSE], [ev |-> e, nl |-> TRUE]>>

VARIABLES
  slot,    \* slot -> inode, or NoFile
  data,    \* inode -> the units of the file it holds (or last held)
  used,    \* inodes ever allocated
  next,    \* the next event to be offered
  wpc,     \* the lock holder's step: "idle" (lock free), "rotate", "write", "end"
  wslot,   \* the archive the rotation handles next
  guarded, \* whether the append in progress belongs to the guarded run
  guard,   \* RetentionGuard.segments of that run
  faults   \* faults so far

logVars == <<slot, data, used, next, wpc, wslot, guarded, guard, faults>>

Segment == [file : Inodes, offset : Nat, ev : Events, end : Nat, events : SUBSET Events]

Linked == {slot[i] : i \in Slots} \ {NoFile}

LogTypeOK ==
  /\ slot \in [Slots -> Inodes \cup {NoFile}]
  /\ data \in [Inodes -> Seq(Unit)]
  /\ used \subseteq Inodes
  /\ next \in 1..(MaxEvents + 1)
  /\ wpc \in {"idle", "rotate", "write", "end"}
  /\ wpc # "idle" => next \in Events
  /\ wslot \in Slots
  /\ guarded \in BOOLEAN
  /\ guard \in Seq(Segment)
  /\ faults \in 0..MaxFaults

LogInit ==
  /\ slot = [i \in Slots |-> NoFile]
  /\ data = [f \in Inodes |-> <<>>]
  /\ used = {}
  /\ next = 1
  /\ wpc = "idle"
  /\ wslot = 0
  /\ guarded = FALSE
  /\ guard = <<>>
  /\ faults = 0

-----------------------------------------------------------------------------
(* The retention guard.                                                     *)

\* The name of slot i leads to a file with the first line of segment s where it
\* was written.
FirstLineAt(s, i) ==
  /\ slot[i] # NoFile
  /\ s.offset + 2 =< Len(data[slot[i]])
  /\ SubSeq(data[slot[i]], s.offset + 1, s.offset + 2) = Line(s.ev)

\* Segment s is still in the file in slot i, by inode and first line.  One step,
\* as whoever asks holds the lock.
IsFile(s, i) == slot[i] = s.file /\ FirstLineAt(s, i)

\* Mutant: looks at the archive before the one that is deleted.
WouldDiscardOffByOne ==
  \E k \in DOMAIN guard : IsFile(guard[k], Archives - 1)

RotationWouldDiscardOwnOutput ==
  \E k \in DOMAIN guard : IsFile(guard[k], Archives)

\* One written line, in file f that it makes len units long: it extends the
\* last segment when that is in the same file and ended before here.
Record(e, f, len) ==
  LET last == Len(guard)
      same == last > 0 /\ guard[last].file = f /\ len > guard[last].end
  IN  guard' = IF same
               THEN [guard EXCEPT ![last].end = len, ![last].events = @ \cup {e}]
               ELSE Append(guard, [file |-> f, offset |-> len - 2, ev |-> e,
                                   end |-> len, events |-> {e}])

-----------------------------------------------------------------------------
(* appendJSONL, under the lock.                                             *)

\* needsRotation: an empty or missing live log never rotates.
NeedsRotation ==
  /\ slot[0] # NoFile
  /\ Len(data[slot[0]]) > 0
  /\ Len(data[slot[0]]) + 2 > RotateAt

\* Take the lock; a guarded append that would have to rotate its own output
\* out is refused (ErrRetentionWindowFull) and changes nothing but the turn.
BeginAppend(g) ==
  /\ wpc = "idle" /\ next \in Events
  /\ IF g /\ NeedsRotation /\ RotationWouldDiscardOwnOutput
     THEN /\ next' = next + 1
          /\ UNCHANGED <<wpc, wslot, guarded>>
     ELSE /\ wpc' = IF NeedsRotation THEN "rotate" ELSE "write"
          /\ wslot' = Archives
          /\ guarded' = g
          /\ UNCHANGED next
  /\ UNCHANGED <<slot, data, used, guard, faults>>

\* Mutant: the live log moves to .1 without the archives making room.
RotateStepLiveOnly ==
  /\ wpc = "rotate"
  /\ slot' = IF wslot = 0 THEN [slot EXCEPT ![1] = slot[0], ![0] = NoFile] ELSE slot
  /\ IF wslot = 0 THEN wpc' = "write" /\ UNCHANGED wslot
                  ELSE wslot' = wslot - 1 /\ UNCHANGED wpc
  /\ UNCHANGED <<data, used, next, guarded, guard, faults>>

\* Mutant: archives are numbered upward, the live log taking the first free one.
RotateStepUpward ==
  /\ wpc = "rotate"
  /\ LET free == {i \in 1..Archives : slot[i] = NoFile}
         to   == IF free = {} THEN Archives ELSE CHOOSE i \in free : \A j \in free : i =< j
     IN  slot' = IF wslot = 0 THEN [slot EXCEPT ![to] = slot[0], ![0] = NoFile] ELSE slot
  /\ IF wslot = 0 THEN wpc' = "write" /\ UNCHANGED wslot
                  ELSE wslot' = wslot - 1 /\ UNCHANGED wpc
  /\ UNCHANGED <<data, used, next, guarded, guard, faults>>

\* rotateIfNeeded, one file operation per step: remove .N, rename .i to .i+1
\* from the oldest down, and the live log to .1.  A name that is not there is
\* passed over.
RotateStep ==
  /\ wpc = "rotate"
  /\ slot' = IF wslot = Archives THEN [slot EXCEPT ![Archives] = NoFile]
             ELSE IF slot[wslot] = NoFile THEN slot
             ELSE [slot EXCEPT ![wslot + 1] = slot[wslot], ![wslot] = NoFile]
  /\ IF wslot = 0 THEN wpc' = "write" /\ UNCHANGED wslot
                  ELSE wslot' = wslot - 1 /\ UNCHANGED wpc
  /\ UNCHANGED <<data, used, next, guarded, guard, faults>>

\* The inodes a new file may get.  A descriptor a reader holds open keeps its
\* inode from being freed.
Free(held) == IF InodeReuse THEN Inodes \ (Linked \cup held) ELSE Inodes \ used

\* Open the live log, creating it when it is missing, and write the first
\* part of the line.
WriteBody(held) ==
  /\ wpc = "write"
  /\ LET body == <<Line(next)[1]>> IN
     IF slot[0] # NoFile
     THEN /\ data' = [data EXCEPT ![slot[0]] = @ \o body]
          /\ UNCHANGED <<slot, used>>
     ELSE \E f \in Free(held) :
          /\ slot' = [slot EXCEPT ![0] = f]
          /\ used' = used \cup {f}
          /\ data' = [data EXCEPT ![f] = body]
  /\ wpc' = "end"
  /\ UNCHANGED <<next, wslot, guarded, guard, faults>>

\* The rest of the line, with its newline; the guard records it.
WriteEnd ==
  /\ wpc = "end"
  /\ data' = [data EXCEPT ![slot[0]] = @ \o <<Line(next)[2]>>]
  /\ IF guarded THEN Record(next, slot[0], Len(data[slot[0]]) + 1)
                ELSE UNCHANGED guard
  /\ wpc' = "idle"
  /\ next' = next + 1
  /\ UNCHANGED <<slot, used, wslot, guarded, faults>>

\* An operation fails or the process dies: the lock is released where it is.
WriterFails ==
  /\ wpc # "idle" /\ faults < MaxFaults
  /\ wpc' = "idle"
  /\ next' = next + 1
  /\ faults' = faults + 1
  /\ UNCHANGED <<slot, data, used, wslot, guarded, guard>>

WriterStep(held) == RotateStep \/ WriteBody(held) \/ WriteEnd

WriterNext(held) == (\E g \in Guards : BeginAppend(g)) \/ WriterStep(held) \/ WriterFails

LogNext == WriterNext({})

LogSpec == LogInit /\ [][LogNext]_logVars

-----------------------------------------------------------------------------
(* Properties.                                                              *)

EventsIn(s)    == {s[j].ev : j \in DOMAIN s}
UnitEvents(f)  == EventsIn(data[f])
GuardedEvents  == UNION {guard[k].events : k \in DOMAIN guard}
Retained       == UNION {EventsIn(data[f]) : f \in Linked}

\* A larger slot holds only older events, at every step of a rotation and after
\* an interrupted one: readers that go from .N to the live log read the events
\* in the order they were written.
OlderInHigherSlots ==
  \A i, j \in Slots :
    i < j /\ slot[i] # NoFile /\ slot[j] # NoFile =>
      \A e \in UnitEvents(slot[i]), d \in UnitEvents(slot[j]) : d < e

\* A step takes a file out of the log only by deleting .N, the oldest: no
\* rename ever lands on a retained file, whatever an earlier crash left behind.
OnlyLastSlotIsDeleted ==
  [][\A f \in Linked \ Linked' : f = slot[Archives] /\ wpc = "rotate" /\ wslot = Archives]_logVars

\* A rotation by a guarded append never deletes an event the guarded run wrote
\* (retention.go: "A guarded rotation is refused when the archive it would
\* delete holds any of the guard's output").
GuardKeepsOwnOutput ==
  [][guarded /\ wpc = "rotate" =>
       GuardedEvents \cap Retained \subseteq Retained']_logVars

\* Allocation and content agree: a file the log holds is allocated, one never
\* allocated is empty, and the lock holder ends its line in a live log it began.
FilesInv ==
  /\ Linked \subseteq used
  /\ \A f \in Inodes : f \notin used => data[f] = <<>>
  /\ wpc = "end" => slot[0] # NoFile /\ data[slot[0]] # <<>>

\* While a rotation runs, the name it renames onto next is free.
RotationInv == wpc = "rotate" /\ wslot < Archives => slot[wslot + 1] = NoFile

\* What was written belongs to events offered before, or to the one under way,
\* which is in the live log.
WrittenInv ==
  \A i \in Slots : slot[i] # NoFile =>
    \A e \in UnitEvents(slot[i]) : e < next \/ (i = 0 /\ wpc = "end" /\ e = next)

OneName == \A i, j \in Slots : slot[i] = slot[j] /\ slot[i] # NoFile => i = j

OrderInv == RotationInv /\ WrittenInv /\ OneName /\ OlderInHigherSlots

-----------------------------------------------------------------------------
(* What the guard relies on, on a filesystem that does not hand out a       *)
(* deleted file's inode again.                                             *)

\* The first line of a segment stays where it was written, and the file holds
\* every event the segment covers.
Sound(s, units) ==
  /\ s.offset + 2 =< Len(units)
  /\ units[s.offset + 1] = Line(s.ev)[1]
  /\ units[s.offset + 2] = Line(s.ev)[2]
  /\ s.events \subseteq EventsIn(units)

SegmentsInv ==
  \A k \in DOMAIN guard : guard[k].file \in used /\ Sound(guard[k], data[guard[k].file])

\* An event is in one file only, deleted files included, and that of the line
\* under way in the live log, at its end.
OneFileInv ==
  /\ \A f, g \in Inodes : \A e \in UnitEvents(f) \cap UnitEvents(g) : f = g
  /\ \A f \in Inodes : \A e \in UnitEvents(f) :
       e < next \/ (wpc = "end" /\ e = next /\ f = slot[0])
  /\ wpc = "end" => data[slot[0]][Len(data[slot[0]])] = Line(next)[1]

\* A guarded rotation that has begun does not delete a file with a segment.
RefusalInv ==
  guarded /\ wpc = "rotate" /\ wslot = Archives =>
    \A k \in DOMAIN guard : guard[k].file # slot[Archives]

GuardInv == SegmentsInv /\ OneFileInv /\ RefusalInv

=============================================================================
