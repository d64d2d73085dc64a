----------------------------- MODULE DeliveryQueue -----------------------------
(***************************************************************************)
(* The browser extension's service worker: a finished chat turn is put on a *)
(* queue in chrome.storage and posted to the local collector, with retries  *)
(* on an alarm (browser-extension/src/background/delivery.ts, sw.ts).       *)
(* Everything but the queue and the alarm is in memory, and the browser may *)
(* suspend the worker at any await.                                         *)
(*                                                                         *)
(* Every read, change and write of the queue is a task on a chain of        *)
(* promises, the head of which runs.  A post is one step: the collector     *)
(* takes the turn or not, and where it does the answer may be lost.         *)
(*                                                                         *)
(* Left out: the assembly of a turn from the page's stream, the backoff     *)
(* delay, and the endpoint an item keeps from the time it was queued.       *)
(***************************************************************************)
EXTENDS Integers, Sequences, FiniteSets, SequencesExt

CONSTANTS
  Turns,       \* chat turns, each with its id
  MaxAttempts, \* MAX_ATTEMPTS
  MaxFailures, \* bound: posts that fail
  MaxSuspends, \* bound: suspensions of the worker
  MaxFaults    \* bound: writes to storage that fail

ASSUME AttemptsAssumption == MaxAttempts \in Nat \ {0}
ASSUME BoundsAssumption   == {MaxFailures, MaxSuspends, MaxFaults} \subseteq Nat

VARIABLES
  fresh,    \* turns that have not ended yet
  settling, \* ended turns waiting for the settings
  chain,    \* queueLock: tasks, the first of which runs
  run,      \* the running task: what it has read and done
  stored,   \* delivery_queue in chrome.storage.local
  alarm,    \* the retry alarm is set
  taken,    \* collector: turn -> times it was taken
  failed,   \* ghost: turn -> posts of it that failed
  unheard,  \* ghost: turn -> the failed posts that the collector took all the same
  suspends, faults

memory == <<settling, chain, run>>
vars   == <<fresh, memory, stored, alarm, taken, failed, unheard, suspends, faults>>

Item   == [id : Turns, attempts : 0..MaxAttempts]
Flush  == [op |-> "flush"]
Push(t) == [op |-> "push", id |-> t]
Tasks  == {Flush} \cup {Push(t) : t \in Turns}
Run    == [pc : {"read", "post", "write"}, queue : Seq(Item), remaining : Seq(Item), anyFailed : BOOLEAN]
NoRun  == [pc |-> "read", queue |-> <<>>, remaining |-> <<>>, anyFailed |-> FALSE]

TypeOK ==
  /\ fresh \subseteq Turns /\ settling \subseteq Turns
  /\ chain \in Seq(Tasks) /\ run \in Run
  /\ stored \in Seq(Item) /\ alarm \in BOOLEAN
  /\ taken \in [Turns -> Nat] /\ failed \in [Turns -> Nat] /\ unheard \in [Turns -> Nat]
  /\ suspends \in 0..MaxSuspends /\ faults \in 0..MaxFaults
  /\ chain = <<>> => run = NoRun

Init ==
  /\ fresh = Turns /\ settling = {}
  /\ chain = <<>> /\ run = NoRun
  /\ stored = <<>> /\ alarm = FALSE
  /\ taken = [t \in Turns |-> 0] /\ failed = taken /\ unheard = taken
  /\ suspends = 0 /\ faults = 0

-----------------------------------------------------------------------------
Ids(q)      == {q[i].id : i \in DOMAIN q}
Running(op) == chain # <<>> /\ Head(chain).op = op
Failures    == FoldSet(LAMBDA t, n : n + failed[t], 0, Turns)
Fault       == faults < MaxFaults /\ faults' = faults + 1

\* Mutant: what the last task has read is kept.
EndsWithKept(more) == chain' = Tail(chain) \o more /\ run' = [run EXCEPT !.pc = "read"]

\* The running task ends; more are appended by what waited for it.
EndsWith(more) == chain' = Tail(chain) \o more /\ run' = NoRun

\* The assembler hands over a turn; the settings are read.
TurnEnds(t) ==
  /\ t \in fresh
  /\ fresh' = fresh \ {t} /\ settling' = settling \cup {t}
  /\ UNCHANGED <<chain, run, stored, alarm, taken, failed, unheard, suspends, faults>>

\* Mutant: the item is stored without waiting for the queue's lock.
FinalizeUnlocked(t) ==
  /\ t \in settling
  /\ settling' = settling \ {t}
  /\ stored' = Append(stored, [id |-> t, attempts |-> 0])
  /\ chain' = Append(chain, Flush)
  /\ UNCHANGED <<fresh, run, alarm, taken, failed, unheard, suspends, faults>>

\* finalizeTurn: a site that is switched off ends here.
Finalize(t) ==
  /\ t \in settling
  /\ settling' = settling \ {t}
  /\ chain' \in {chain, Append(chain, Push(t))}
  /\ UNCHANGED <<fresh, run, stored, alarm, taken, failed, unheard, suspends, faults>>

\* readQueue; flush returns on an empty queue.
ReadQueue ==
  /\ chain # <<>> /\ run.pc = "read"
  /\ IF Running("flush") /\ stored = <<>>
     THEN EndsWith(<<>>)
     ELSE /\ run' = [NoRun EXCEPT !.pc = IF Running("flush") THEN "post" ELSE "write", !.queue = stored]
          /\ UNCHANGED chain
  /\ UNCHANGED <<fresh, settling, stored, alarm, taken, failed, unheard, suspends, faults>>

\* enqueueTurn: the item is stored and a flush follows; when the write fails the
\* turn and the flush are gone.
WritePush ==
  /\ Running("push") /\ run.pc = "write"
  /\ \/ /\ stored' = Append(run.queue, [id |-> Head(chain).id, attempts |-> 0])
        /\ EndsWith(<<Flush>>)
        /\ UNCHANGED faults
     \/ Fault /\ EndsWith(<<>>) /\ UNCHANGED stored
  /\ UNCHANGED <<fresh, settling, alarm, taken, failed, unheard, suspends>>

\* What remains of an item whose post failed.
Retried(i) == IF i.attempts + 1 < MaxAttempts THEN <<[i EXCEPT !.attempts = @ + 1]>> ELSE <<>>

\* flush posts the items one by one.  A post fails where nothing came back or an
\* error did, whether or not the collector took the turn.
Post ==
  /\ Running("flush") /\ run.pc = "post" /\ run.queue # <<>>
  /\ LET i == Head(run.queue) IN
     \/ /\ taken' = [taken EXCEPT ![i.id] = @ + 1]
        /\ run' = [run EXCEPT !.queue = Tail(@)]
        /\ UNCHANGED <<failed, unheard>>
     \/ /\ Failures < MaxFailures
        /\ failed' = [failed EXCEPT ![i.id] = @ + 1]
        /\ run' = [run EXCEPT !.queue = Tail(@), !.remaining = @ \o Retried(i),
                              !.anyFailed = @ \/ Retried(i) # <<>>]
        /\ \/ UNCHANGED <<taken, unheard>>
           \/ /\ taken' = [taken EXCEPT ![i.id] = @ + 1]
              /\ unheard' = [unheard EXCEPT ![i.id] = @ + 1]
  /\ UNCHANGED <<fresh, settling, chain, stored, alarm, suspends, faults>>

\* Mutant: no alarm is set.
WriteRemainingQuietly ==
  /\ Running("flush") /\ run.pc = "post" /\ run.queue = <<>>
  /\ stored' = run.remaining
  /\ EndsWith(<<>>)
  /\ UNCHANGED <<fresh, settling, alarm, taken, failed, unheard, suspends, faults>>

\* Mutant: what was taken is written back.
WriteRemainingAll ==
  /\ Running("flush") /\ run.pc = "post" /\ run.queue = <<>>
  /\ run' = [run EXCEPT !.pc = "write"]
  /\ UNCHANGED <<fresh, settling, chain, stored, alarm, taken, failed, unheard, suspends, faults>>

\* What is left is written, then the alarm set.
WriteRemaining ==
  /\ Running("flush") /\ run.pc = "post" /\ run.queue = <<>>
  /\ \/ /\ stored' = run.remaining
        /\ run' = [run EXCEPT !.pc = "write"]
        /\ UNCHANGED <<chain, faults>>
     \/ Fault /\ EndsWith(<<>>) /\ UNCHANGED stored
  /\ UNCHANGED <<fresh, settling, alarm, taken, failed, unheard, suspends>>

ScheduleRetry ==
  /\ Running("flush") /\ run.pc = "write"
  /\ alarm' = (alarm \/ run.anyFailed)
  /\ EndsWith(<<>>)
  /\ UNCHANGED <<fresh, settling, stored, taken, failed, unheard, suspends, faults>>

-----------------------------------------------------------------------------
\* The alarm wakes the worker.
Alarm ==
  /\ alarm
  /\ alarm' = FALSE
  /\ chain' = Append(chain, Flush)
  /\ UNCHANGED <<fresh, settling, run, stored, taken, failed, unheard, suspends, faults>>

\* FLUSH_NOW from the popup.
FlushNow ==
  /\ Len(chain) < Cardinality(Turns)
  /\ chain' = Append(chain, Flush)
  /\ UNCHANGED <<fresh, settling, run, stored, alarm, taken, failed, unheard, suspends, faults>>

\* The browser suspends or quits: memory is gone.
Suspend ==
  /\ settling # {} \/ chain # <<>>
  /\ suspends < MaxSuspends /\ suspends' = suspends + 1
  /\ settling' = {} /\ chain' = <<>> /\ run' = NoRun
  /\ UNCHANGED <<fresh, stored, alarm, taken, failed, unheard, faults>>

Work == ReadQueue \/ WritePush \/ Post \/ WriteRemaining \/ ScheduleRetry

Next ==
  \/ \E t \in Turns : TurnEnds(t) \/ Finalize(t)
  \/ Work \/ Alarm \/ FlushNow \/ Suspend

Spec == Init /\ [][Next]_vars

\* The worker runs while it has work, fetch and storage answer, and a set alarm
\* goes off.  Nobody has to press the popup's button.
FairSpec == Spec /\ WF_vars(Work) /\ WF_vars(Alarm) /\ \A t \in Turns : WF_vars(Finalize(t))

-----------------------------------------------------------------------------
(* Properties.                                                              *)

\* A turn leaves the stored queue only when the collector has taken it or has
\* failed to MAX_ATTEMPTS times: no turn queued during a flush is written over
\* by it, and suspensions only add attempts.
LeavesWhenDone ==
  [][\A t \in Ids(stored) \ Ids(stored') : taken[t] > 0 \/ failed[t] >= MaxAttempts]_vars

\* The collector takes a turn again only where the answer to a post it took was
\* lost, or a suspension or a failed write lost what the flush had done.
SentOnce == \A t \in Turns : taken[t] =< 1 + unheard[t] + suspends + faults

\* Every stored turn is taken in the end, or was refused MAX_ATTEMPTS times, when
\* the worker is not suspended in the middle of its work and storage works: no
\* flush leaves an item behind without an alarm that wakes the next one.
DeliveredOrRefused ==
  \A t \in Turns :
    t \in Ids(stored) ~> taken[t] > 0 \/ failed[t] >= MaxAttempts \/ suspends + faults > 0

-----------------------------------------------------------------------------
(* What these rest on.                                                      *)

\* A turn waits in one place, and before it is stored nothing was sent.
Waits(t)  == t \in fresh \cup settling \/ \E k \in DOMAIN chain : chain[k] = Push(t)
TurnsOnce ==
  /\ fresh \cap settling = {}
  /\ \A k \in DOMAIN chain : chain[k] = Flush \/ chain[k].id \notin fresh \cup settling
  /\ \A k, n \in DOMAIN chain : chain[k] = chain[n] => k = n \/ chain[k] = Flush
  /\ \A t \in Turns : Waits(t) => taken[t] = 0 /\ t \notin Ids(stored)

\* Nobody but the running task changes the stored queue: a flush has posted
\* what is stored and neither still to be posted nor kept for a retry.
Done(t)     == taken[t] > 0 \/ failed[t] >= MaxAttempts
Distinct(q) == \A k, n \in DOMAIN q : q[k].id = q[n].id => k = n
Counted(q)  == \A k \in DOMAIN q : q[k].attempts =< failed[q[k].id]
StoredInv ==
  /\ Distinct(stored) /\ Counted(stored)
  /\ run.pc = "write" /\ Running("push") => run.queue = stored
  /\ run.pc = "post" =>
       /\ Running("flush")
       /\ Distinct(run.queue) /\ Distinct(run.remaining)
       /\ Ids(run.queue) \cap Ids(run.remaining) = {}
       /\ Ids(run.queue) \cup Ids(run.remaining) \subseteq Ids(stored)
       /\ Counted(run.queue) /\ Counted(run.remaining)
       /\ \A t \in Ids(stored) : t \in Ids(run.queue) \cup Ids(run.remaining) \/ Done(t)

\* A turn that may be sent again was sent before only to lose its answer or its
\* flush.
Pending == IF run.pc = "post" THEN Ids(run.queue) \cup Ids(run.remaining) ELSE Ids(stored)
SentInv == \A t \in Turns :
  taken[t] =< unheard[t] + suspends + faults + (IF t \in Pending THEN 0 ELSE 1)
=============================================================================
