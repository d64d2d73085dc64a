--------------------------------- MODULE Sync ---------------------------------
(***************************************************************************)
(* `afferent sync` (cli/beacon/internal/afferent/cli/sync.go and history):  *)
(* the session history of Claude Code and Codex is written to the runtime   *)
(* log in rounds.  A round sweeps Claude, then Codex; when the log has no   *)
(* room, the forwarder sends what it holds and another round follows.  The  *)
(* hooks append to the log meanwhile, and the service may be forwarding it. *)
(*                                                                         *)
(* The log is the sequence of everything ever written; its files are        *)
(* consecutive parts of it, and the forwarder, which reads the oldest file  *)
(* first, has got through a prefix (module Forwarder says how).  An append  *)
(* is one step, for it holds the log's lock.                                *)
(*                                                                         *)
(* Left out: --since, several sessions of one harness, which are swept like *)
(* one after the other, and a rotation in the middle of Room.               *)
(***************************************************************************)
EXTENDS Integers, Sequences, FiniteSetsExt

CONSTANTS
  Archives,  \* archives kept beside the live file
  RotateAt,  \* bytes the live file may not pass
  MaxEvent,  \* the largest event (writer.MaxEventBytes)
  Margin,    \* roomMargin
  Sizes,     \* harness -> the bytes of each of its events as written
  Charged,   \* the bytes codexSweep takes each Codex event for
  Line,      \* harness -> the line of its history each event comes from
  BatchMax,  \* events in one post of the forwarder
  MaxRounds, \* syncMaxRounds
  NoWait,    \* --no-wait
  MaxHooks,  \* bound: bytes the hooks write in all
  MaxFaults  \* bound: crashes and appends that fail

Claude    == "claude"
Codex     == "codex"
Harnesses == {Claude, Codex}

ASSUME LogAssumption ==
  /\ Archives \in Nat \ {0} /\ MaxEvent \in Nat \ {0} /\ RotateAt \in Nat /\ RotateAt >= MaxEvent
  /\ Margin \in Nat /\ BatchMax \in Nat \ {0} /\ NoWait \in BOOLEAN
\* With nothing undelivered there is room for an event.
ASSUME RoomAssumption == Archives * (RotateAt - MaxEvent) >= Margin + MaxEvent
ASSUME HistoryAssumption == \A h \in Harnesses :
  /\ Sizes[h] \in Seq(1..MaxEvent) /\ Line[h] \in Seq(Nat)
  /\ Len(Line[h]) = Len(Sizes[h])
\* Charged is the length before the writer adds the derived trace, or
\* MaxEvent; it may be above or below what is written.
ASSUME ChargedAssumption ==
  Charged \in Seq(1..MaxEvent) /\ Len(Charged) = Len(Sizes[Codex])
ASSUME BoundsAssumption ==
  MaxRounds \in Nat \ {0} /\ MaxHooks \in Nat /\ MaxFaults \in Nat

VARIABLES
  wrote,   \* everything written to the log, oldest first
  cuts,    \* first entry of the live file, of archive .1, of .2, ...
  live,    \* bytes of the live file
  primed,  \* the forwarder's checkpoints are initialized
  through, \* the forwarder's checkpoints pass everything up to here
  lost,    \* ghost: entries rotated out before the checkpoints passed them
  service, \* the service forwards the log
  fwd,     \* the forwarder: the last entry of its scan and of its batch
  status,  \* its status file: the lag, and whether it is newer than the drain
  pc,      \* where sync is
  round,
  limited, \* a sweep of this round stopped for want of room
  next,    \* the next event of the sweep
  saved,   \* harness -> events the cursor file passes
  start,   \* the log's length when this run of sync began
  began,   \* the log's length when the Claude sweep began (RetentionGuard)
  left,    \* codexSweep: bytes left of the room last asked for; -1 for unknown
  over,    \* ghost: bytes written past what codexSweep charged, the hooks' and those the
           \* writer adds, since the last look at the room, or in this round
  faults

logVars == <<wrote, cuts, live, lost, over>>
fwdVars == <<primed, through, fwd, status>>
swpVars == <<round, limited, next, saved, start, began, left>>
vars    == <<logVars, fwdVars, service, pc, swpVars, faults>>

N(h)    == Len(Sizes[h])
Entry   == {e \in [src : Harnesses \cup {"hook"}, n : Nat] : e.src = "hook" \/ e.n \in 1..N(e.src)}
NoScan  == [pc |-> "idle", seen |-> 0, upto |-> 0]

TypeOK ==
  /\ wrote \in Seq(Entry)
  /\ cuts \in Seq(Nat \ {0}) /\ Len(cuts) \in 1..(Archives + 1)
  /\ \A j, k \in DOMAIN cuts : j < k => cuts[k] < cuts[j]
  /\ cuts[1] =< Len(wrote) /\ live \in 1..RotateAt
  /\ primed \in BOOLEAN /\ through \in 0..Len(wrote)
  /\ lost \subseteq 1..Len(wrote) /\ service \in BOOLEAN
  /\ fwd \in [pc : {"idle", "post"}, seen : Nat, upto : Nat] /\ fwd.upto =< Len(wrote)
  /\ fwd.pc = "post" => primed /\ through =< fwd.upto /\ (service \/ pc = "drain")
  /\ status \in [lag : BOOLEAN, fresh : BOOLEAN]
  /\ pc \in {"off", "claude", "codex", "drain", "ended", "failed"}
  /\ round \in 0..MaxRounds /\ limited \in BOOLEAN /\ (pc = "drain" => round < MaxRounds)
  /\ saved \in [Harnesses -> Nat] /\ \A h \in Harnesses : saved[h] =< N(h)
  /\ next \in Nat \ {0} /\ start \in 0..Len(wrote) /\ began \in start..Len(wrote)
  /\ left \in Nat \cup {-1}
  /\ over \in Nat /\ faults \in 0..MaxFaults

\* A hook has written to the log before; the forwarder may have placed its
\* checkpoints, as the service has when it runs.
Init ==
  /\ wrote = <<[src |-> "hook", n |-> 0]>> /\ cuts = <<1>> /\ live = 1 /\ lost = {} /\ over = 0
  /\ service \in BOOLEAN /\ primed \in BOOLEAN /\ (service => primed) /\ through = 0
  /\ fwd = NoScan /\ status = [lag |-> TRUE, fresh |-> FALSE]
  /\ pc = "off" /\ round = 0 /\ limited = FALSE
  /\ saved = [h \in Harnesses |-> 0]
  /\ next = 1 /\ start = 0 /\ began = 0 /\ left = -1
  /\ faults = 0

-----------------------------------------------------------------------------
(* The log.                                                                 *)

Size(e)     == IF e.src = "hook" THEN 1 ELSE Sizes[e.src][e.n]
Rotates(size) == live > 0 /\ live + size > RotateAt
Oldest(c)   == c[Len(c)]
Min2(a, b)  == IF a < b THEN a ELSE b
Grows(size) == live' = IF Rotates(size) THEN size ELSE live + size
Fault       == faults < MaxFaults /\ faults' = faults + 1

\* Mutant: the oldest archive is not deleted.
Append1Keeping(e) ==
  /\ wrote' = Append(wrote, e) /\ Grows(Size(e))
  /\ cuts' = IF Rotates(Size(e)) THEN <<Len(wrote) + 1>> \o cuts ELSE cuts
  /\ lost' = lost

\* rotateIfNeeded and the write.
Append1(e) ==
  /\ wrote' = Append(wrote, e) /\ Grows(Size(e))
  /\ cuts' = IF Rotates(Size(e))
             THEN SubSeq(<<Len(wrote) + 1>> \o cuts, 1, Min2(Len(cuts) + 1, Archives + 1))
             ELSE cuts
  /\ lost' = lost \cup {i \in Oldest(cuts)..(Oldest(cuts') - 1) : i > through}

HookAppends ==
  /\ over' = over + 1
  /\ Cardinality({i \in DOMAIN wrote : wrote[i].src = "hook"}) =< MaxHooks
  /\ Append1([src |-> "hook", n |-> 0])
  /\ UNCHANGED <<fwdVars, service, pc, swpVars, faults>>

\* RetentionGuard: the rotation would delete a file with output of this sweep.
WouldDiscard ==
  /\ Len(cuts) = Archives + 1
  /\ \E i \in cuts[Archives + 1]..(cuts[Archives] - 1) : i > began /\ wrote[i].src = Claude

\* Mutant: every file counts.
UndeliveredAll == DOMAIN cuts

\* The files that hold data the checkpoints do not pass, by their place.
Undelivered == {k \in DOMAIN cuts : LET end == IF k = 1 THEN Len(wrote) ELSE cuts[k - 1] - 1
                                    IN end >= cuts[k] /\ end > through}

\* Mutant: room for one rotation more than there is.
RoomPastOldest ==
  LET oldest == Max(Undelivered \cup {1}) - 1
      n      == Archives - oldest + 1
      r      == (RotateAt - live) + n * RotateAt - n * MaxEvent - Margin
  IN IF r < 0 THEN 0 ELSE r

\* forward.Room
Room ==
  LET oldest == Max(Undelivered \cup {1}) - 1
      n      == Archives - oldest
      r      == (RotateAt - live) + n * RotateAt - n * MaxEvent - Margin
  IN IF r < 0 THEN 0 ELSE r

-----------------------------------------------------------------------------
(* The forwarder: the service, or one that a drain runs until nothing is    *)
(* left.                                                                    *)

Forwards == service \/ pc = "drain"
First    == IF through >= Oldest(cuts) THEN through + 1 ELSE Oldest(cuts)

\* A scan takes the files' sizes and reads a batch.
Scan ==
  /\ Forwards /\ primed /\ fwd.pc = "idle" /\ First =< Len(wrote)
  /\ fwd' = [pc |-> "post", seen |-> Len(wrote), upto |-> Min2(First + BatchMax - 1, Len(wrote))]
  /\ UNCHANGED <<logVars, primed, through, status, service, pc, swpVars, faults>>

\* brainsrv takes it; the checkpoints move, and the status follows with the lag
\* behind the sizes of that scan.
Deliver ==
  /\ fwd.pc = "post"
  /\ through' = fwd.upto
  /\ status' = [lag |-> fwd.upto < fwd.seen, fresh |-> TRUE]
  /\ fwd' = NoScan
  /\ UNCHANGED <<logVars, primed, service, pc, swpVars, faults>>

\* A scan that finds nothing writes the status at most every ten seconds.
ScanNothing ==
  /\ service /\ fwd.pc = "idle" /\ First > Len(wrote)
  /\ status' = [lag |-> FALSE, fresh |-> TRUE]
  /\ UNCHANGED <<logVars, primed, through, fwd, service, pc, swpVars, faults>>

-----------------------------------------------------------------------------
(* sync.                                                                    *)

\* forward.Prime, and the first round.
Begin ==
  /\ pc = "off"
  /\ primed' = TRUE
  /\ through' = IF primed THEN through ELSE Len(wrote)
  /\ pc' = Claude /\ round' = 1 /\ limited' = FALSE
  /\ next' = saved[Claude] + 1 /\ start' = Len(wrote) /\ began' = Len(wrote) /\ over' = 0
  /\ UNCHANGED <<wrote, cuts, live, lost, fwd, status, service, saved, left, faults>>

\* Mutant: behind the line of the last event written.
PartialLine(h, n) ==
  IF n = 1 THEN saved[h] ELSE Max({i \in 1..N(h) : Line[h][i] = Line[h][n - 1]})

\* The cursor of a sweep that stops at event n: behind the last line of which
\* every event is written.
Partial(h, n) ==
  Max({saved[h]} \cup {i \in 1..(n - 1) : Line[h][i] # Line[h][n] /\ Line[h][i + 1] # Line[h][i]})

\* The sweep of h writes its next event.
Sweeps(h) ==
  /\ next =< N(h)
  /\ Append1([src |-> h, n |-> next])
  /\ next' = next + 1

ClaudeEvent ==
  /\ pc = Claude
  /\ next =< N(Claude) /\ ~(Rotates(Sizes[Claude][next]) /\ WouldDiscard)
  /\ Sweeps(Claude)
  /\ UNCHANGED <<over, fwdVars, service, pc, round, limited, saved, start, began, left, faults>>

\* A sweep of h ends: all is written, there is no room, an append fails, or the
\* cursor file cannot be written.
Full(h, noRoom)  == next =< N(h) /\ noRoom
Saves(h, to)     == saved' = [saved EXCEPT ![h] = to]
SweepEnds(h, noRoom) ==
  /\ limited' = (limited \/ Full(h, noRoom))
  /\ \/ next > N(h) /\ Saves(h, N(h)) /\ UNCHANGED faults
     \/ Full(h, noRoom) /\ Saves(h, Partial(h, next)) /\ UNCHANGED faults
     \/ next =< N(h) /\ ~noRoom /\ Fault /\ Saves(h, Partial(h, next))
     \/ (next > N(h) \/ noRoom) /\ Fault /\ UNCHANGED saved

\* CollectOnce, with a new RetentionGuard; Codex follows.
ClaudeEnds ==
  /\ pc = Claude
  /\ SweepEnds(Claude, next =< N(Claude) /\ Rotates(Sizes[Claude][next]) /\ WouldDiscard)
  /\ pc' = Codex /\ next' = saved[Codex] + 1 /\ left' = -1
  /\ UNCHANGED <<logVars, fwdVars, service, round, start, began>>

\* What codexSweep may write once it has asked again.
Asks   == ~(next =< N(Codex) /\ left >= Charged[next])
Budget == IF Asks THEN Room ELSE left

\* What the writer adds to event n after it was charged.
Extra(n) == IF Sizes[Codex][n] > Charged[n] THEN Sizes[Codex][n] - Charged[n] ELSE 0

\* Mutant: the budget is not used up.
CodexEventFree ==
  /\ pc = Codex /\ next =< N(Codex)
  /\ Budget >= Charged[next]
  /\ Sweeps(Codex)
  /\ left' = Budget
  /\ over' = (IF Asks THEN 0 ELSE over) + Extra(next)
  /\ UNCHANGED <<fwdVars, service, pc, round, limited, saved, start, began, faults>>

CodexEvent ==
  /\ pc = Codex /\ next =< N(Codex)
  /\ Budget >= Charged[next]
  /\ Sweeps(Codex)
  /\ left' = Budget - Charged[next]
  /\ over' = (IF Asks THEN 0 ELSE over) + Extra(next)
  /\ UNCHANGED <<fwdVars, service, pc, round, limited, saved, start, began, faults>>

\* Where a round leads: out, or to a drain when a sweep was limited.
Over(lim) == ~lim \/ NoWait \/ round >= MaxRounds

CodexEnds ==
  /\ pc = Codex
  /\ SweepEnds(Codex, next =< N(Codex) /\ Budget < Charged[next])
  /\ pc' = IF Over(limited') THEN "ended" ELSE "drain"
  /\ status' = [status EXCEPT !.fresh = FALSE]
  /\ UNCHANGED <<logVars, primed, through, fwd, service, round, next, start, began, left>>

\* drain returns: nothing is left for its own forwarder, or the service's status
\* is new and shows no lag.
Drained == IF service THEN status.fresh /\ ~status.lag ELSE fwd.pc = "idle" /\ First > Len(wrote)

NextRound ==
  /\ pc = "drain" /\ Drained
  /\ pc' = Claude /\ round' = round + 1 /\ limited' = FALSE
  /\ next' = saved[Claude] + 1 /\ began' = Len(wrote) /\ over' = 0
  /\ UNCHANGED <<wrote, cuts, live, lost, fwdVars, service, saved, start, left, faults>>

\* The forwarder cannot send: its own run ends with the error, the service's is
\* waited for thirty minutes.
DrainFails ==
  /\ pc = "drain" /\ Fault
  /\ pc' = "failed"
  /\ fwd' = IF service THEN fwd ELSE NoScan
  /\ UNCHANGED <<logVars, primed, through, status, service, swpVars>>

\* sync is killed: the cursors of the sweep under way are not saved.
Crash ==
  /\ pc \in {Claude, Codex, "drain"} /\ Fault
  /\ pc' = "failed"
  /\ fwd' = IF service THEN fwd ELSE NoScan
  /\ UNCHANGED <<logVars, primed, through, status, service, swpVars>>

\* The user runs it again, the forwarder caught up or not (the message asks for
\* the former, and nothing checks it).
Again ==
  /\ pc \in {"ended", "failed"} /\ \E h \in Harnesses : saved[h] < N(h)
  /\ pc' = "off"
  /\ UNCHANGED <<logVars, fwdVars, service, swpVars, faults>>

Sync == Begin \/ ClaudeEvent \/ ClaudeEnds \/ CodexEvent \/ CodexEnds \/ NextRound

Next == Sync \/ Scan \/ Deliver \/ ScanNothing \/ HookAppends \/ DrainFails \/ Crash \/ Again

Spec == Init /\ [][Next]_vars

\* sync runs on, and the forwarder does as long as brainsrv takes its posts.
FairSpec == Spec /\ WF_vars(Sync) /\ WF_vars(Scan \/ Deliver \/ ScanNothing)

-----------------------------------------------------------------------------
(* Properties.                                                              *)

\* The Codex sweep never rotates out what the forwarder has not sent, whoever
\* wrote it and in whichever run, however the forwarder and the hooks go on
\* between two looks at the room (the comment on codexSweep), as long as what is
\* written past its charges since the last look keeps to the margin.
RoomIsEnough ==
  [][over' =< Margin /\ Len(wrote') > Len(wrote) /\ wrote'[Len(wrote')].src = Codex
       => lost' = lost]_vars

\* Where sync runs the forwarder itself, history this run wrote has been sent
\* when it is rotated out (room.go: "history rotated out before it is sent is
\* lost for good"), over all its rounds and as long as the margin holds; but for
\* Claude's when a hook writes after its sweep has filled the log.
HistoryKept ==
  [][~service /\ over' =< Margin => \A i \in lost' \ lost :
       \/ i =< start \/ wrote'[i].src = "hook"
       \/ wrote'[i].src = Claude /\ \E j \in (i + 1)..Len(wrote') : wrote'[j].src = "hook"]_vars

\* The same with the service, whose status sync waits for, where no hook writes.
HistoryKeptByService ==
  service => \A i \in lost : \E j \in i..Len(wrote) : wrote[j].src = "hook"

\* The cursor file never passes an event that was not written to the log, though
\* a line may hold several (partialCodex: "the next sweep starts at the first
\* line with an unwritten event").
NothingSkipped ==
  \A h \in Harnesses : \A n \in 1..saved[h] : \E i \in DOMAIN wrote : wrote[i] = [src |-> h, n |-> n]

\* A sync that meets no fault and may wait writes the whole history in the end:
\* no round leaves the next one without room.
EventuallyWritten ==
  (pc = Claude) ~> (\/ pc = "ended" /\ \A h \in Harnesses : saved[h] = N(h)
                    \/ faults > 0 \/ NoWait)

-----------------------------------------------------------------------------
(* The inductive invariant behind RoomIsEnough, HistoryKept and             *)
(* NothingSkipped.                                                          *)

\* The place of the oldest file with undelivered data, and the bytes that can
\* be written, however they are cut into events, before it is deleted.
Behind   == Max(Undelivered \cup {1})
Capacity == (RotateAt - live) + (Archives + 1 - Behind) * (RotateAt - MaxEvent)

Written(h, n) == \E i \in DOMAIN wrote : wrote[i] = [src |-> h, n |-> n]

\* What this run wrote and the forwarder has not sent.
Unsent(src)   == {i \in DOMAIN wrote : i > through /\ i > start /\ wrote[i].src = src}

\* A sweep has written what its cursor may come to pass.
SweptInv ==
  /\ NothingSkipped
  /\ pc \in Harnesses => /\ saved[pc] < next /\ next =< N(pc) + 1
                         /\ \A n \in 1..(next - 1) : Written(pc, n)

\* The room left, with what is not used of the margin, is there as long as it
\* matters: in the Codex sweep, and until its events are sent.
RoomInv ==
  over =< Margin /\ left >= 0 /\ (pc = Codex \/ (~service /\ Unsent(Codex) # {})) =>
    Capacity >= left + Margin - over

\* Where sync runs the forwarder itself, a round starts with nothing of this run
\* unsent, and its Codex events follow a look at the room.
RoundInv == ~service =>
  /\ Unsent(Codex) # {} => left >= 0 /\ pc # Claude
  /\ pc = Claude => \A i \in Unsent(Claude) : i > began

Inductive == TypeOK /\ SweptInv /\ RoomInv /\ RoundInv
=============================================================================
