-------------------------- MODULE DeliveryQueueProofs --------------------------
(***************************************************************************)
(* Proofs about the browser extension's queue, for any turns, any number of *)
(* attempts, of failed posts and writes, and of suspensions.                *)
(***************************************************************************)
EXTENDS DeliveryQueue, SequenceTheorems, TLAPS

-----------------------------------------------------------------------------
(* Queues of items.                                                         *)

LEMMA TailOf ==
  ASSUME NEW S, NEW q \in Seq(S), q # <<>>
  PROVE  /\ Head(q) \in S /\ Tail(q) \in Seq(S) /\ Len(q) \in Nat \ {0}
         /\ DOMAIN q = 1..Len(q) /\ DOMAIN Tail(q) = 1..(Len(q) - 1) /\ Head(q) = q[1]
         /\ \A k \in DOMAIN Tail(q) : Tail(q)[k] = q[k + 1] /\ k + 1 \in DOMAIN q
OBVIOUS

LEMMA ItemTail ==
  ASSUME NEW q \in Seq(Item), q # <<>>, Distinct(q)
  PROVE  /\ Head(q) \in Item /\ Tail(q) \in Seq(Item) /\ Distinct(Tail(q))
         /\ Ids(Tail(q)) = Ids(q) \ {Head(q).id} /\ Head(q).id \in Ids(q)
         /\ \A k \in DOMAIN Tail(q) : \E n \in DOMAIN q : Tail(q)[k] = q[n]
<1>1. /\ Head(q) \in Item /\ Tail(q) \in Seq(Item) /\ Len(q) \in Nat \ {0}
      /\ DOMAIN q = 1..Len(q) /\ DOMAIN Tail(q) = 1..(Len(q) - 1) /\ Head(q) = q[1]
      /\ \A k \in DOMAIN Tail(q) : Tail(q)[k] = q[k + 1] /\ k + 1 \in DOMAIN q
  BY TailOf
<1>2. Distinct(Tail(q))
  BY <1>1 DEF Distinct
<1>3. \A k \in DOMAIN Tail(q) : \E n \in DOMAIN q : Tail(q)[k] = q[n]
  BY <1>1
<1>4. Head(q).id \in Ids(q)
  BY <1>1 DEF Ids
<1>5. ASSUME NEW t \in Ids(Tail(q)) PROVE t \in Ids(q) \ {Head(q).id}
  <2>1. PICK k \in DOMAIN Tail(q) : t = Tail(q)[k].id
    BY DEF Ids
  <2>2. t = q[k + 1].id /\ k + 1 \in DOMAIN q /\ 1 \in DOMAIN q /\ k + 1 # 1
    BY <1>1, <2>1
  <2> QED BY <1>1, <2>2 DEF Ids, Distinct
<1>6. ASSUME NEW t \in Ids(q) \ {Head(q).id} PROVE t \in Ids(Tail(q))
  <2>1. PICK k \in DOMAIN q : t = q[k].id
    BY DEF Ids
  <2>2. k # 1
    BY <1>1, <1>6, <2>1
  <2>3. k - 1 \in DOMAIN Tail(q) /\ k = (k - 1) + 1
    BY <1>1, <2>2
  <2>4. Tail(q)[k - 1] = q[k]
    BY <1>1, <2>3
  <2> QED BY <2>1, <2>3, <2>4 DEF Ids
<1> QED BY <1>1, <1>2, <1>3, <1>4, <1>5, <1>6

LEMMA ItemAppend ==
  ASSUME NEW q \in Seq(Item), NEW i \in Item
  PROVE  /\ Append(q, i) \in Seq(Item)
         /\ Ids(Append(q, i)) = Ids(q) \cup {i.id}
         /\ Distinct(q) /\ i.id \notin Ids(q) => Distinct(Append(q, i))
         /\ \A k \in DOMAIN Append(q, i) : Append(q, i)[k] = i \/ \E n \in DOMAIN q : Append(q, i)[k] = q[n]
<1>1. /\ Append(q, i) \in Seq(Item) /\ Len(q) \in Nat /\ DOMAIN q = 1..Len(q)
      /\ DOMAIN Append(q, i) = 1..(Len(q) + 1)
      /\ \A k \in 1..Len(q) : Append(q, i)[k] = q[k]
      /\ Append(q, i)[Len(q) + 1] = i
  OBVIOUS
<1>2. \A k \in DOMAIN Append(q, i) : k = Len(q) + 1 \/ k \in DOMAIN q
  BY <1>1
<1>3. Ids(Append(q, i)) = Ids(q) \cup {i.id}
  <2>1. ASSUME NEW t \in Ids(Append(q, i)) PROVE t \in Ids(q) \cup {i.id}
    BY <1>1, <1>2 DEF Ids
  <2>2. ASSUME NEW t \in Ids(q) \cup {i.id} PROVE t \in Ids(Append(q, i))
    <3>1. CASE t = i.id
      BY <1>1, <3>1 DEF Ids
    <3>2. CASE t \in Ids(q)
      <4>1. PICK k \in DOMAIN q : t = q[k].id
        BY <3>2 DEF Ids
      <4>2. k \in DOMAIN Append(q, i) /\ Append(q, i)[k] = q[k]
        BY <1>1
      <4> QED BY <4>1, <4>2 DEF Ids
    <3> QED BY <3>1, <3>2
  <2> QED BY <2>1, <2>2
<1>4. ASSUME Distinct(q), i.id \notin Ids(q)
      PROVE  Distinct(Append(q, i))
  <2>1. \A k \in DOMAIN q : q[k].id # i.id
    BY <1>4 DEF Ids
  <2> QED BY <1>1, <1>2, <1>4, <2>1 DEF Distinct
<1>5. \A k \in DOMAIN Append(q, i) : Append(q, i)[k] = i \/ \E n \in DOMAIN q : Append(q, i)[k] = q[n]
  BY <1>1, <1>2
<1> QED BY <1>1, <1>3, <1>4, <1>5

LEMMA EmptyQueue ==
  /\ <<>> \in Seq(Item) /\ Ids(<<>>) = {} /\ Distinct(<<>>)
  /\ DOMAIN <<>> = {} /\ NoRun \in Run /\ NoRun.pc = "read"
BY DEF Ids, Distinct, NoRun, Run

\* What is left of an item is the item with one more attempt, or nothing.
LEMMA RetriedCases ==
  ASSUME NEW q \in Seq(Item), NEW i \in Item
  PROVE  \/ Retried(i) = <<>> /\ q \o Retried(i) = q /\ i.attempts + 1 >= MaxAttempts
         \/ \E r \in Item : /\ Retried(i) = <<r>> /\ q \o Retried(i) = Append(q, r)
                            /\ r.id = i.id /\ r.attempts = i.attempts + 1
<1>1. i.attempts \in 0..MaxAttempts /\ i.id \in Turns /\ MaxAttempts \in Nat
  BY AttemptsAssumption DEF Item
<1>2. CASE i.attempts + 1 < MaxAttempts
  <2>1. PICK r : r = [i EXCEPT !.attempts = @ + 1]
    OBVIOUS
  <2>2. r \in Item
    BY <1>1, <1>2, <2>1 DEF Item
  <2>3. r.id = i.id /\ r.attempts = i.attempts + 1
    BY <2>1 DEF Item
  <2>4. Retried(i) = <<r>>
    BY <1>2, <2>1 DEF Retried
  <2>5. q \o <<r>> = Append(q, r)
    BY <2>2
  <2> QED BY <2>2, <2>3, <2>4, <2>5
<1>3. CASE ~(i.attempts + 1 < MaxAttempts)
  BY <1>1, <1>3 DEF Retried
<1> QED BY <1>2, <1>3

-----------------------------------------------------------------------------
(* The chain of tasks.                                                      *)

LEMMA TasksDiffer == Flush \in Tasks /\ \A t : Push(t) # Flush /\ Push(t).op = "push" /\ Push(t).id = t
  /\ Flush.op = "flush"
BY DEF Flush, Push, Tasks

LEMMA TaskKinds ==
  ASSUME NEW x \in Tasks
  PROVE  \/ x = Flush
         \/ x.op = "push" /\ x.id \in Turns /\ x = Push(x.id)
BY DEF Tasks, Flush, Push

\* The task appended to the chain waits behind the ones that were there.
LEMMA ChainAppend ==
  ASSUME NEW c \in Seq(Tasks), NEW x \in Tasks
  PROVE  /\ Append(c, x) \in Seq(Tasks) /\ Append(c, x) # <<>>
         /\ c # <<>> => Head(Append(c, x)) = Head(c)
         /\ \A k \in DOMAIN Append(c, x) :
              (k \in DOMAIN c /\ Append(c, x)[k] = c[k]) \/ (k \notin DOMAIN c /\ k = Len(c) + 1 /\ Append(c, x)[k] = x)
         /\ \A k \in DOMAIN c : k \in DOMAIN Append(c, x) /\ Append(c, x)[k] = c[k]
<1>1. /\ Append(c, x) \in Seq(Tasks) /\ Len(c) \in Nat /\ DOMAIN c = 1..Len(c)
      /\ DOMAIN Append(c, x) = 1..(Len(c) + 1) /\ Len(Append(c, x)) = Len(c) + 1
      /\ \A k \in 1..Len(c) : Append(c, x)[k] = c[k]
      /\ Append(c, x)[Len(c) + 1] = x
  OBVIOUS
<1>2. c # <<>> => Len(c) # 0
  OBVIOUS
<1>3. c # <<>> => Head(Append(c, x)) = Head(c)
  BY <1>1, <1>2
<1>4. Append(c, x) # <<>>
  BY <1>1
<1> HIDE DEF Tasks
<1>5. \A k \in DOMAIN Append(c, x) :
        (k \in DOMAIN c /\ Append(c, x)[k] = c[k]) \/ (k \notin DOMAIN c /\ k = Len(c) + 1 /\ Append(c, x)[k] = x)
  BY <1>1
<1>6. \A k \in DOMAIN c : k \in DOMAIN Append(c, x) /\ Append(c, x)[k] = c[k]
  BY <1>1
<1> QED BY <1>1, <1>3, <1>4, <1>5, <1>6

\* The chain after its head is done: the others, and perhaps one more at the end.
LEMMA ChainEnds ==
  ASSUME NEW c \in Seq(Tasks), c # <<>>, NEW more \in {<<>>, <<Flush>>}
  PROVE  /\ Tail(c) \o more \in Seq(Tasks)
         /\ \A k \in DOMAIN (Tail(c) \o more) :
              (k + 1 \in DOMAIN c /\ (Tail(c) \o more)[k] = c[k + 1]) \/ (Tail(c) \o more)[k] = Flush
<1>1. /\ Tail(c) \in Seq(Tasks) /\ Len(c) \in Nat \ {0} /\ DOMAIN c = 1..Len(c)
      /\ DOMAIN Tail(c) = 1..(Len(c) - 1)
      /\ \A k \in DOMAIN Tail(c) : Tail(c)[k] = c[k + 1] /\ k + 1 \in DOMAIN c
  BY TailOf
<1>2. CASE more = <<>>
  <2>1. Tail(c) \o more = Tail(c)
    BY <1>1, <1>2
  <2> QED BY <1>1, <2>1
<1>3. CASE more = <<Flush>>
  <2>1. Tail(c) \o more = Append(Tail(c), Flush)
    BY <1>1, <1>3, TasksDiffer
  <2> QED BY <1>1, <2>1, TasksDiffer, ChainAppend
<1> QED BY <1>2, <1>3

-----------------------------------------------------------------------------
(* Types.                                                                   *)

\* What a step does to the chain and to the running task.
Appends(x) == chain' = Append(chain, x) /\ run' = run
Ends       == chain # <<>> /\ run' = NoRun /\ \E more \in {<<>>, <<Flush>>} : chain' = Tail(chain) \o more

LEMMA RunTypes ==
  ASSUME run \in Run, stored \in Seq(Item)
  PROVE  /\ run.queue \in Seq(Item) /\ run.remaining \in Seq(Item) /\ run.anyFailed \in BOOLEAN
         /\ \A pc \in {"post", "write"} : [NoRun EXCEPT !.pc = pc, !.queue = stored] \in Run
         /\ [run EXCEPT !.pc = "write"] \in Run
         /\ run.queue # <<>> => [run EXCEPT !.queue = Tail(@)] \in Run
         /\ \A q \in Seq(Item), b \in BOOLEAN : run.queue # <<>> =>
              [run EXCEPT !.queue = Tail(@), !.remaining = q, !.anyFailed = b] \in Run
<1>1. run.queue \in Seq(Item) /\ run.remaining \in Seq(Item) /\ run.anyFailed \in BOOLEAN
  BY DEF Run
<1>2. run.queue # <<>> => Tail(run.queue) \in Seq(Item)
  BY <1>1, TailOf
<1> HIDE DEF Item
<1>3. \A pc \in {"post", "write"} : [NoRun EXCEPT !.pc = pc, !.queue = stored] \in Run
  BY EmptyQueue DEF Run
<1>4. [run EXCEPT !.pc = "write"] \in Run
  BY DEF Run
<1>5. run.queue # <<>> => [run EXCEPT !.queue = Tail(@)] \in Run
  BY <1>2 DEF Run
<1>6. \A q \in Seq(Item), b \in BOOLEAN : run.queue # <<>> =>
              [run EXCEPT !.queue = Tail(@), !.remaining = q, !.anyFailed = b] \in Run
  BY <1>2 DEF Run
<1> QED BY <1>1, <1>3, <1>4, <1>5, <1>6

\* What each step does to the chain and the running task.
LEMMA StepShape ==
  ASSUME TypeOK, Next
  PROVE  /\ run' \in Run /\ stored' \in Seq(Item)
         /\ \/ UNCHANGED <<chain, run>>
            \/ chain # <<>> /\ UNCHANGED chain
            \/ Ends
            \/ Appends(Flush)
            \/ \E t \in settling : Appends(Push(t))
            \/ chain' = <<>> /\ run' = NoRun
<1>a. run \in Run /\ stored \in Seq(Item) /\ settling \subseteq Turns
  BY DEF TypeOK
<1> DEFINE Shape == run' \in Run /\ stored' \in Seq(Item) /\
            (\/ UNCHANGED <<chain, run>>
             \/ chain # <<>> /\ UNCHANGED chain
             \/ Ends
             \/ Appends(Flush)
             \/ \E t \in settling : Appends(Push(t))
             \/ chain' = <<>> /\ run' = NoRun)
<1>1. ASSUME NEW t \in Turns, TurnEnds(t) \/ Finalize(t)
      PROVE  Shape
  BY <1>1, <1>a DEF TurnEnds, Finalize, Appends
<1>2. CASE ReadQueue
  <2>1. CASE EndsWith(<<>>)
    BY <1>2, <1>a, <2>1, EmptyQueue DEF ReadQueue, EndsWith, Ends
  <2>2. CASE ~EndsWith(<<>>)
    <3>1. PICK pc \in {"post", "write"} : run' = [NoRun EXCEPT !.pc = pc, !.queue = stored]
      BY <1>2, <2>2 DEF ReadQueue
    <3>2. run' \in Run
      BY <1>a, <3>1, RunTypes
    <3> QED BY <1>2, <1>a, <2>2, <3>2 DEF ReadQueue
  <2> QED BY <2>1, <2>2
<1>3. CASE WritePush
  <2>1. chain # <<>> /\ Head(chain).op = "push"
    BY <1>3 DEF WritePush, Running
  <2>2. Ends
    BY <1>3, <2>1 DEF WritePush, EndsWith, Ends
  <2>3. run' \in Run
    BY <2>2, EmptyQueue DEF Ends
  <2>4. Append(run.queue, [id |-> Head(chain).id, attempts |-> 0]) \in Seq(Item)
    <3>1. chain \in Seq(Tasks)
      BY DEF TypeOK
    <3>2. Head(chain) \in Tasks
      BY <2>1, <3>1, TailOf
    <3>3. Head(chain).id \in Turns
      BY <2>1, <3>2, TaskKinds, TasksDiffer
    <3>4. [id |-> Head(chain).id, attempts |-> 0] \in Item
      BY <3>3, AttemptsAssumption DEF Item
    <3> QED BY <1>a, <3>4, RunTypes, ItemAppend
  <2>5. stored' \in Seq(Item)
    BY <1>3, <1>a, <2>4 DEF WritePush
  <2> QED BY <2>2, <2>3, <2>5
<1>4. CASE Post
  <2>1. chain # <<>> /\ UNCHANGED <<chain, stored>> /\ run.queue # <<>>
    BY <1>4 DEF Post, Running
  <2>2. CASE run' = [run EXCEPT !.queue = Tail(@)]
    BY <1>a, <2>1, <2>2, RunTypes
  <2>3. CASE run' = [run EXCEPT !.queue = Tail(@), !.remaining = @ \o Retried(Head(run.queue)),
                                !.anyFailed = @ \/ Retried(Head(run.queue)) # <<>>]
    <3>1. Head(run.queue) \in Item /\ run.remaining \in Seq(Item)
      BY <1>a, <2>1, RunTypes, TailOf
    <3>2. PICK q \in Seq(Item) : q = run.remaining \o Retried(Head(run.queue))
      BY <3>1, RetriedCases, ItemAppend
    <3>3. PICK b \in BOOLEAN : b = (run.anyFailed \/ Retried(Head(run.queue)) # <<>>)
      OBVIOUS
    <3>4. run' = [run EXCEPT !.queue = Tail(@), !.remaining = q, !.anyFailed = b]
      BY <2>3, <3>2, <3>3
    <3> QED BY <1>a, <2>1, <3>4, RunTypes
  <2> QED BY <1>4, <2>2, <2>3 DEF Post
<1>5. CASE WriteRemaining
  <2>1. CASE run' = [run EXCEPT !.pc = "write"]
    <3>1. run' \in Run /\ run.remaining \in Seq(Item)
      BY <1>a, <2>1, RunTypes
    <3>2. stored' \in Seq(Item) /\ chain # <<>> /\ (UNCHANGED chain \/ EndsWith(<<>>))
      BY <1>5, <1>a, <3>1 DEF WriteRemaining, Running
    <3> QED BY <3>1, <3>2 DEF EndsWith, Ends
  <2>2. CASE EndsWith(<<>>) /\ UNCHANGED stored
    BY <1>5, <1>a, <2>2, EmptyQueue DEF WriteRemaining, EndsWith, Ends, Running
  <2> QED BY <1>5, <2>1, <2>2 DEF WriteRemaining
<1>6. CASE ScheduleRetry
  BY <1>6, <1>a, EmptyQueue DEF ScheduleRetry, EndsWith, Ends, Running
<1>7. CASE Alarm \/ FlushNow
  BY <1>7, <1>a DEF Alarm, FlushNow, Appends
<1>8. CASE Suspend
  BY <1>8, <1>a, EmptyQueue DEF Suspend
<1> QED BY <1>1, <1>2, <1>3, <1>4, <1>5, <1>6, <1>7, <1>8 DEF Next, Work

LEMMA TypeStep ==
  ASSUME TypeOK, Next
  PROVE  TypeOK'
<1>1. chain' \in Seq(Tasks) /\ (chain' = <<>> => run' = NoRun)
  <2>1. chain \in Seq(Tasks) /\ settling \subseteq Turns /\ (chain = <<>> => run = NoRun)
    BY DEF TypeOK
  <2>2. CASE Ends
    BY <2>1, <2>2, ChainEnds DEF Ends
  <2>3. ASSUME NEW x \in Tasks, Appends(x)
        PROVE  chain' \in Seq(Tasks) /\ chain' # <<>>
    BY <2>1, <2>3, ChainAppend DEF Appends
  <2>4. Flush \in Tasks /\ \A t \in settling : Push(t) \in Tasks
    BY <2>1 DEF Tasks
  <2>5. <<>> \in Seq(Tasks)
    OBVIOUS
  <2> QED BY <2>1, <2>2, <2>3, <2>4, <2>5, StepShape
<1>2. run' \in Run /\ stored' \in Seq(Item)
  BY StepShape
<1>3. fresh' \subseteq Turns /\ settling' \subseteq Turns
  BY DEF TypeOK, Next, Work, TurnEnds, Finalize, ReadQueue, WritePush, Post, WriteRemaining,
         ScheduleRetry, Alarm, FlushNow, Suspend
<1>4. alarm' \in BOOLEAN
  BY DEF TypeOK, Run, Next, Work, TurnEnds, Finalize, ReadQueue, WritePush, Post, WriteRemaining,
         ScheduleRetry, Alarm, FlushNow, Suspend
<1>5. suspends' \in 0..MaxSuspends /\ faults' \in 0..MaxFaults
  BY BoundsAssumption DEF TypeOK, Next, Work, TurnEnds, Finalize, ReadQueue, WritePush, Post,
         WriteRemaining, ScheduleRetry, Alarm, FlushNow, Suspend, Fault
<1>6. taken' \in [Turns -> Nat] /\ failed' \in [Turns -> Nat] /\ unheard' \in [Turns -> Nat]
  <2>1. taken \in [Turns -> Nat] /\ failed \in [Turns -> Nat] /\ unheard \in [Turns -> Nat]
    BY DEF TypeOK
  <2>2. CASE Post
    <3>1. PICK t : t = Head(run.queue).id
      OBVIOUS
    <3>2. /\ taken' = taken \/ taken' = [taken EXCEPT ![t] = @ + 1]
          /\ failed' = failed \/ failed' = [failed EXCEPT ![t] = @ + 1]
          /\ unheard' = unheard \/ unheard' = [unheard EXCEPT ![t] = @ + 1]
      BY <2>2, <3>1 DEF Post
    <3>3. ASSUME NEW f \in [Turns -> Nat], NEW g, g = f \/ g = [f EXCEPT ![t] = @ + 1]
          PROVE  g \in [Turns -> Nat]
      BY <3>3
    <3> QED BY <2>1, <3>2, <3>3
  <2>3. CASE ~Post
    BY <2>1, <2>3 DEF Next, Work, TurnEnds, Finalize, ReadQueue, WritePush, WriteRemaining,
         ScheduleRetry, Alarm, FlushNow, Suspend
  <2> QED BY <2>2, <2>3
<1> QED BY <1>1, <1>2, <1>3, <1>4, <1>5, <1>6 DEF TypeOK

\* The worker's memory and the stored queue are always well formed
\* (delivery.ts).
THEOREM TypeCorrect == Spec => []TypeOK
<1>1. Init => TypeOK
  <2> SUFFICES ASSUME Init PROVE TypeOK
    OBVIOUS
  <2>1. <<>> \in Seq(Tasks) /\ <<>> \in Seq(Item) /\ NoRun \in Run
    BY EmptyQueue
  <2>2. taken \in [Turns -> Nat] /\ failed \in [Turns -> Nat] /\ unheard \in [Turns -> Nat]
    BY DEF Init
  <2>3. suspends \in 0..MaxSuspends /\ faults \in 0..MaxFaults
    BY BoundsAssumption DEF Init
  <2>4. alarm \in BOOLEAN
    BY DEF Init
  <2> QED BY <2>1, <2>2, <2>3, <2>4 DEF Init, TypeOK
<1>2. TypeOK /\ UNCHANGED vars => TypeOK'
  BY DEF TypeOK, vars, memory
<1> QED BY <1>1, <1>2, TypeStep, PTL DEF Spec

-----------------------------------------------------------------------------
(* A turn waits in one place.                                               *)

\* The part of TurnsOnce about where turns wait.
OnePlace ==
  /\ fresh \cap settling = {}
  /\ \A k \in DOMAIN chain : chain[k] = Flush \/ chain[k].id \notin fresh \cup settling
  /\ \A k, n \in DOMAIN chain : chain[k] = chain[n] => k = n \/ chain[k] = Flush

LEMMA WaitsNoMore ==
  ASSUME TypeOK, OnePlace,
         chain' = chain \/ Ends \/ chain' = <<>> \/ chain' = Append(chain, Flush),
         fresh' \cup settling' \subseteq fresh \cup settling, fresh' \cap settling' = {}
  PROVE  OnePlace' /\ \A t \in Turns : Waits(t)' => Waits(t)
<1>1. CASE chain' = chain
  BY <1>1 DEF OnePlace, Waits
<1>2. CASE Ends
  <2>1. PICK more \in {<<>>, <<Flush>>} : chain' = Tail(chain) \o more
    BY <1>2 DEF Ends
  <2>2. chain \in Seq(Tasks) /\ chain # <<>>
    BY <1>2 DEF TypeOK, Ends
  <2>3. \A k \in DOMAIN chain' : (k + 1 \in DOMAIN chain /\ chain'[k] = chain[k + 1]) \/ chain'[k] = Flush
    BY <2>1, <2>2, ChainEnds
  <2>4. \A k \in DOMAIN chain' : k \in Nat
    <3>1. chain' \in Seq(Tasks)
      BY <2>1, <2>2, ChainEnds
    <3> QED BY <3>1
  <2> QED BY <2>3, <2>4, TasksDiffer DEF OnePlace, Waits
<1>3. CASE chain' = <<>>
  BY <1>3 DEF OnePlace, Waits
<1>4. CASE chain' = Append(chain, Flush)
  <2>1. \A k \in DOMAIN chain' : (k \in DOMAIN chain /\ chain'[k] = chain[k]) \/ chain'[k] = Flush
    BY <1>4, TasksDiffer, ChainAppend DEF TypeOK
  <2> QED BY <2>1, TasksDiffer DEF OnePlace, Waits
<1> QED BY <1>1, <1>2, <1>3, <1>4

LEMMA TurnsStep ==
  ASSUME TypeOK, StoredInv, TurnsOnce, Next
  PROVE  TurnsOnce'
<1>a. OnePlace /\ \A t \in Turns : Waits(t) => taken[t] = 0 /\ t \notin Ids(stored)
  BY DEF TurnsOnce, OnePlace
<1>b. chain \in Seq(Tasks) /\ taken \in [Turns -> Nat]
  BY DEF TypeOK
<1>c. ASSUME OnePlace', \A t \in Turns : Waits(t)' => taken'[t] = 0 /\ t \notin Ids(stored')
      PROVE  TurnsOnce'
  BY <1>c DEF TurnsOnce, OnePlace, Ids
<1>d. ASSUME chain' = chain \/ Ends \/ chain' = <<>> \/ chain' = Append(chain, Flush),
             fresh' \cup settling' \subseteq fresh \cup settling, fresh' \cap settling' = {},
             taken' = taken, Ids(stored') \subseteq Ids(stored)
      PROVE  TurnsOnce'
  <2>1. OnePlace' /\ \A t \in Turns : Waits(t)' => Waits(t)
    BY <1>a, <1>d, WaitsNoMore
  <2>2. \A t \in Turns : Waits(t)' => taken'[t] = 0 /\ t \notin Ids(stored')
    BY <1>a, <1>d, <2>1
  <2> QED BY <1>c, <2>1, <2>2
<1>e. fresh \cap settling = {}
  BY <1>a DEF OnePlace
<1>1. ASSUME NEW t \in Turns, TurnEnds(t)
      PROVE  TurnsOnce'
  BY <1>1, <1>d, <1>e DEF TurnEnds
<1>2. ASSUME NEW t \in Turns, Finalize(t)
      PROVE  TurnsOnce'
  <2>1. CASE chain' = chain
    BY <1>2, <1>d, <1>e, <2>1 DEF Finalize
  <2>2. CASE chain' = Append(chain, Push(t))
    <3>1. /\ \A k \in DOMAIN chain' : (k \in DOMAIN chain /\ chain'[k] = chain[k])
                                    \/ (k = Len(chain) + 1 /\ chain'[k] = Push(t))
      <4>1. Push(t) \in Tasks
        BY DEF Tasks
      <4> QED BY <1>b, <2>2, <4>1, ChainAppend
    <3>2. UNCHANGED <<fresh, stored, taken>> /\ settling' = settling \ {t} /\ t \in settling
      BY <1>2 DEF Finalize
    <3>3. \A k \in DOMAIN chain : chain[k] # Push(t)
      BY <1>a, <3>2, TasksDiffer DEF OnePlace
    <3>4. OnePlace'
      BY <1>a, <1>e, <3>1, <3>2, <3>3, TasksDiffer DEF OnePlace
    <3>5. \A u \in Turns : Waits(u)' => Waits(u)
      BY <3>1, <3>2, TasksDiffer DEF Waits
    <3> QED BY <1>a, <1>c, <3>2, <3>4, <3>5
  <2> QED BY <1>2, <2>1, <2>2 DEF Finalize
<1>3. CASE ReadQueue
  <2>1. chain' = chain \/ Ends
    BY <1>3 DEF ReadQueue, EndsWith, Ends
  <2> QED BY <1>3, <1>d, <1>e, <2>1 DEF ReadQueue
<1>4. CASE WritePush
  <2>1. Ends /\ UNCHANGED <<fresh, settling, taken>>
    BY <1>4 DEF WritePush, EndsWith, Ends, Running
  <2>2. CASE UNCHANGED stored
    BY <1>d, <1>e, <2>1, <2>2
  <2>3. CASE stored' = Append(run.queue, [id |-> Head(chain).id, attempts |-> 0])
    <3>1. OnePlace' /\ \A t \in Turns : Waits(t)' => Waits(t)
      BY <1>a, <1>e, <2>1, WaitsNoMore
    <3>2. run.queue = stored /\ stored \in Seq(Item)
      BY <1>4 DEF StoredInv, WritePush, TypeOK
    <3>3. /\ chain # <<>> /\ Head(chain) = chain[1] /\ 1 \in DOMAIN chain /\ chain[1] # Flush
          /\ chain[1] \in Tasks /\ Head(chain).op = "push"
      BY <1>4, <1>b, TailOf, TasksDiffer DEF WritePush, Running
    <3>4. PICK t \in Turns : chain[1] = Push(t) /\ Head(chain).id = t
      BY <3>3, TaskKinds
    <3>5. Ids(stored') = Ids(stored) \cup {t}
      <4>1. [id |-> t, attempts |-> 0] \in Item
        BY AttemptsAssumption DEF Item
      <4> QED BY <2>3, <3>2, <3>4, <4>1, ItemAppend
    <3>6. ~Waits(t)'
      <4>1. t \notin fresh \cup settling
        BY <1>a, <3>3, <3>4, TasksDiffer DEF OnePlace
      <4>2. ASSUME NEW k \in DOMAIN chain', chain'[k] = Push(t)
            PROVE  FALSE
        <5>1. chain' \in Seq(Tasks) /\ k \in Nat \ {0}
          BY TypeStep DEF TypeOK
        <5>2. k + 1 \in DOMAIN chain /\ chain'[k] = chain[k + 1]
          BY <1>b, <2>1, <3>3, <4>2, ChainEnds, TasksDiffer DEF Ends
        <5>3. k + 1 = 1
          BY <1>a, <3>3, <3>4, <4>2, <5>2, TasksDiffer DEF OnePlace
        <5> QED BY <5>1, <5>3
      <4> QED BY <2>1, <4>1, <4>2 DEF Waits
    <3> QED BY <1>a, <1>c, <2>1, <3>1, <3>5, <3>6
  <2> QED BY <1>4, <2>2, <2>3 DEF WritePush
<1>5. CASE Post
  <2>1. UNCHANGED <<fresh, settling, chain, stored>> /\ run.pc = "post" /\ run.queue # <<>>
    BY <1>5 DEF Post
  <2>2. OnePlace' /\ \A t \in Turns : Waits(t)' => Waits(t)
    BY <1>a, <1>e, <2>1, WaitsNoMore
  <2>3. Head(run.queue).id \in Ids(stored)
    <3>1. run.queue \in Seq(Item) /\ Distinct(run.queue)
      BY <2>1, RunTypes DEF TypeOK, StoredInv
    <3> QED BY <2>1, <3>1, ItemTail DEF StoredInv
  <2>4. \A t \in Turns : t # Head(run.queue).id => taken'[t] = taken[t]
    BY <1>5, <1>b DEF Post
  <2> QED BY <1>a, <1>c, <2>1, <2>2, <2>3, <2>4
<1>6. CASE WriteRemaining
  <2>1. (chain' = chain \/ Ends) /\ UNCHANGED <<fresh, settling, taken>>
    BY <1>6 DEF WriteRemaining, EndsWith, Ends, Running
  <2>2. Ids(stored') \subseteq Ids(stored)
    BY <1>6 DEF WriteRemaining, StoredInv
  <2> QED BY <1>d, <1>e, <2>1, <2>2
<1>7. CASE ScheduleRetry
  <2>1. Ends
    BY <1>7 DEF ScheduleRetry, EndsWith, Ends, Running
  <2> QED BY <1>7, <1>d, <1>e, <2>1 DEF ScheduleRetry
<1>8. CASE Alarm \/ FlushNow
  BY <1>8, <1>d, <1>e DEF Alarm, FlushNow
<1>9. CASE Suspend
  BY <1>9, <1>d, <1>e DEF Suspend
<1> QED BY <1>1, <1>2, <1>3, <1>4, <1>5, <1>6, <1>7, <1>8, <1>9 DEF Next, Work

-----------------------------------------------------------------------------
(* What a flush still has to do.                                            *)

\* StoredInv, of the stored queue and of a flush under way.
StoredPart   == Distinct(stored) /\ Counted(stored)
PostPart ==
  /\ Distinct(run.queue) /\ Distinct(run.remaining)
  /\ Ids(run.queue) \cap Ids(run.remaining) = {}
  /\ Ids(run.queue) \cup Ids(run.remaining) \subseteq Ids(stored)
  /\ Counted(run.queue) /\ Counted(run.remaining)
  /\ \A t \in Ids(stored) : t \in Ids(run.queue) \cup Ids(run.remaining) \/ Done(t)

LEMMA StoredParts ==
  StoredInv <=> /\ StoredPart
                /\ run.pc = "write" /\ Running("push") => run.queue = stored
                /\ run.pc = "post" => Running("flush") /\ PostPart
BY DEF StoredInv, StoredPart, PostPart

\* What a failed post of a turn may leave at the collector.
Answerless(t) ==
  \/ UNCHANGED <<taken, unheard>>
  \/ taken' = [taken EXCEPT ![t] = @ + 1] /\ unheard' = [unheard EXCEPT ![t] = @ + 1]

\* How a post changes the running flush: h is taken, or fails for the last time,
\* or stays as r.
LEMMA PostStep ==
  ASSUME TypeOK, StoredInv, Post
  PROVE  \E h \in Item :
           /\ h = Head(run.queue) /\ run.pc = "post" /\ run'.pc = "post" /\ run'.queue = Tail(run.queue)
           /\ run.queue \in Seq(Item) /\ run.queue # <<>> /\ run.remaining \in Seq(Item)
           /\ Counted(run.queue) /\ h.attempts =< failed[h.id] /\ h.id \in Turns
           /\ \/ /\ taken' = [taken EXCEPT ![h.id] = @ + 1] /\ failed' = failed /\ unheard' = unheard
                 /\ run'.remaining = run.remaining
              \/ /\ failed' = [failed EXCEPT ![h.id] = @ + 1] /\ Answerless(h.id)
                 /\ \/ run'.remaining = run.remaining /\ h.attempts + 1 >= MaxAttempts
                    \/ \E r \in Item : /\ run'.remaining = Append(run.remaining, r)
                                       /\ r.id = h.id /\ r.attempts = h.attempts + 1
<1>1. run \in Run /\ run.queue # <<>> /\ run.pc = "post"
  BY DEF TypeOK, Post
<1>2. run.queue \in Seq(Item) /\ run.remaining \in Seq(Item)
  BY <1>1 DEF Run
<1>3. PICK h \in Item : h = Head(run.queue)
  BY <1>1, <1>2, TailOf
<1>4. Counted(run.queue) /\ h.attempts =< failed[h.id]
  <2>1. Counted(run.queue)
    BY <1>1 DEF StoredInv
  <2>2. 1 \in DOMAIN run.queue /\ h = run.queue[1]
    BY <1>1, <1>2, <1>3, TailOf
  <2> QED BY <2>1, <2>2 DEF Counted
<1>5. h.id \in Turns
  BY DEF Item
<1>6. CASE /\ run' = [run EXCEPT !.queue = Tail(@)] /\ taken' = [taken EXCEPT ![h.id] = @ + 1]
           /\ failed' = failed /\ unheard' = unheard
  <2>1. run'.pc = "post" /\ run'.queue = Tail(run.queue) /\ run'.remaining = run.remaining
    BY <1>1, <1>6 DEF Run
  <2> QED BY <1>1, <1>2, <1>3, <1>4, <1>5, <1>6, <2>1
<1>7. CASE /\ failed' = [failed EXCEPT ![h.id] = @ + 1] /\ Answerless(h.id)
           /\ run' = [run EXCEPT !.queue = Tail(@), !.remaining = @ \o Retried(h),
                                !.anyFailed = @ \/ Retried(h) # <<>>]
  <2>1. /\ run'.pc = "post" /\ run'.queue = Tail(run.queue)
        /\ run'.remaining = run.remaining \o Retried(h)
    BY <1>1, <1>7 DEF Run
  <2>2. \/ run'.remaining = run.remaining /\ h.attempts + 1 >= MaxAttempts
        \/ \E r \in Item : /\ run'.remaining = Append(run.remaining, r)
                           /\ r.id = h.id /\ r.attempts = h.attempts + 1
    BY <1>2, <2>1, RetriedCases
  <2> QED BY <1>1, <1>2, <1>3, <1>4, <1>5, <1>7, <2>1, <2>2
<1> QED BY <1>3, <1>6, <1>7 DEF Post, Answerless

\* A count that only grows still covers the attempts of a part of a queue.
LEMMA CountedPart ==
  ASSUME NEW q, NEW p, Counted(q), \A k \in DOMAIN p : \E n \in DOMAIN q : p[k] = q[n],
         \A k \in DOMAIN q : failed'[q[k].id] >= failed[q[k].id] /\ failed[q[k].id] \in Nat
                            /\ failed'[q[k].id] \in Nat /\ q[k].attempts \in Nat
  PROVE  \A k \in DOMAIN p : p[k].attempts =< failed'[p[k].id]
BY DEF Counted

LEMMA PostPartStep ==
  ASSUME TypeOK, StoredInv, Post
  PROVE  PostPart' /\ StoredPart'
<1>1. PICK h \in Item :
           /\ h = Head(run.queue) /\ run.pc = "post" /\ run'.pc = "post" /\ run'.queue = Tail(run.queue)
           /\ run.queue \in Seq(Item) /\ run.queue # <<>> /\ run.remaining \in Seq(Item)
           /\ Counted(run.queue) /\ h.attempts =< failed[h.id] /\ h.id \in Turns
           /\ \/ /\ taken' = [taken EXCEPT ![h.id] = @ + 1] /\ failed' = failed /\ unheard' = unheard
                 /\ run'.remaining = run.remaining
              \/ /\ failed' = [failed EXCEPT ![h.id] = @ + 1] /\ Answerless(h.id)
                 /\ \/ run'.remaining = run.remaining /\ h.attempts + 1 >= MaxAttempts
                    \/ \E r \in Item : /\ run'.remaining = Append(run.remaining, r)
                                       /\ r.id = h.id /\ r.attempts = h.attempts + 1
  BY PostStep
<1>2. PostPart /\ StoredPart /\ stored' = stored /\ stored \in Seq(Item)
  BY <1>1, StoredParts DEF Post, TypeOK
<1>3. taken \in [Turns -> Nat] /\ failed \in [Turns -> Nat]
  BY DEF TypeOK
<1>4. \A t \in Turns : /\ failed[t] \in Nat /\ failed'[t] \in Nat /\ failed'[t] >= failed[t]
                      /\ taken[t] \in Nat /\ taken'[t] \in Nat /\ taken'[t] >= taken[t]
  <2>1. \A t \in Turns : failed[t] \in Nat /\ failed'[t] \in Nat /\ failed'[t] >= failed[t]
    BY <1>1, <1>3
  <2>2. taken' = taken \/ taken' = [taken EXCEPT ![h.id] = @ + 1]
    BY <1>1 DEF Answerless
  <2>3. \A t \in Turns : taken[t] \in Nat /\ taken'[t] \in Nat /\ taken'[t] >= taken[t]
    BY <1>1, <1>3, <2>2
  <2> QED BY <2>1, <2>3
<1>5. /\ Distinct(Tail(run.queue)) /\ Ids(Tail(run.queue)) = Ids(run.queue) \ {h.id}
      /\ h.id \in Ids(run.queue)
      /\ \A k \in DOMAIN Tail(run.queue) : \E n \in DOMAIN run.queue : Tail(run.queue)[k] = run.queue[n]
  BY <1>1, <1>2, ItemTail DEF PostPart
<1>6. ASSUME NEW q \in Seq(Item)
      PROVE  \A k \in DOMAIN q : q[k].id \in Turns /\ q[k].attempts \in Nat
  <2>1. \A k \in DOMAIN q : q[k] \in Item
    OBVIOUS
  <2> QED BY <2>1, AttemptsAssumption DEF Item
<1>7. ASSUME NEW q \in Seq(Item), Counted(q), NEW p,
             \A k \in DOMAIN p : \E n \in DOMAIN q : p[k] = q[n]
      PROVE  \A k \in DOMAIN p : p[k].attempts =< failed'[p[k].id]
  BY <1>4, <1>6, <1>7, CountedPart
<1>8. \A k \in DOMAIN run'.queue : run'.queue[k].attempts =< failed'[run'.queue[k].id]
  BY <1>1, <1>5, <1>7
<1>9. \A k \in DOMAIN stored' : stored'[k].attempts =< failed'[stored'[k].id]
  BY <1>2, <1>7 DEF StoredPart
<1>10. \A k \in DOMAIN run.remaining : run.remaining[k].attempts =< failed'[run.remaining[k].id]
  BY <1>1, <1>2, <1>7 DEF PostPart
<1>11. StoredPart'
  BY <1>2, <1>9 DEF StoredPart, Counted, Distinct
<1>12. CASE run'.remaining = run.remaining
  <2>1. Done(h.id)'
    <3>1. CASE taken' = [taken EXCEPT ![h.id] = @ + 1]
      BY <1>1, <1>3, <3>1 DEF Done
    <3>2. CASE failed' = [failed EXCEPT ![h.id] = @ + 1] /\ h.attempts + 1 >= MaxAttempts
      <4>1. h.attempts \in Nat /\ failed'[h.id] = failed[h.id] + 1 /\ failed[h.id] \in Nat
        BY <1>1, <1>3, <3>2, AttemptsAssumption DEF Item
      <4> QED BY <1>1, <3>2, <4>1, AttemptsAssumption DEF Done
    <3>3. ASSUME NEW r \in Item, run'.remaining = Append(run.remaining, r)
          PROVE  FALSE
      <4>1. Len(Append(run.remaining, r)) = Len(run.remaining) + 1 /\ Len(run.remaining) \in Nat
        BY <1>1
      <4> QED BY <1>12, <3>3, <4>1
    <3> QED BY <1>1, <3>1, <3>2, <3>3
  <2>2. \A t \in Ids(stored) : t \in Ids(run'.queue) \cup Ids(run'.remaining) \/ Done(t)'
    <3>1. ASSUME NEW t \in Ids(stored), Done(t)
          PROVE  Done(t)'
      <4>1. t \in Turns
        BY <1>2, <1>6 DEF Ids
      <4> QED BY <1>4, <3>1, <4>1, AttemptsAssumption DEF Done
    <3> QED BY <1>1, <1>2, <1>5, <1>12, <2>1, <3>1 DEF PostPart
  <2>3. Ids(run'.queue) \cap Ids(run'.remaining) = {} /\ Ids(run'.queue) \cup Ids(run'.remaining) \subseteq Ids(stored')
    BY <1>1, <1>2, <1>5, <1>12 DEF PostPart
  <2>4. Distinct(run'.queue) /\ Distinct(run'.remaining)
    BY <1>1, <1>2, <1>5, <1>12 DEF PostPart
  <2>5. Counted(run.queue)' /\ Counted(run.remaining)'
    BY <1>8, <1>10, <1>12 DEF Counted
  <2>6. PostPart'
    BY <1>2, <2>2, <2>3, <2>4, <2>5 DEF PostPart, Ids, Distinct
  <2> QED BY <1>11, <2>6
<1>13. ASSUME NEW r \in Item, run'.remaining = Append(run.remaining, r), r.id = h.id,
              r.attempts = h.attempts + 1, failed' = [failed EXCEPT ![h.id] = @ + 1]
       PROVE  PostPart'
  <2>1. /\ Ids(run'.remaining) = Ids(run.remaining) \cup {h.id} /\ Distinct(run'.remaining)
        /\ \A k \in DOMAIN run'.remaining :
             run'.remaining[k] = r \/ \E n \in DOMAIN run.remaining : run'.remaining[k] = run.remaining[n]
    BY <1>1, <1>2, <1>5, <1>13, ItemAppend DEF PostPart
  <2>2. r.attempts =< failed'[r.id]
    BY <1>1, <1>3, <1>13, AttemptsAssumption DEF Item
  <2>3. \A k \in DOMAIN run'.remaining : run'.remaining[k].attempts =< failed'[run'.remaining[k].id]
    BY <1>10, <2>1, <2>2
  <2>4. \A t \in Ids(stored) : t \in Ids(run'.queue) \cup Ids(run'.remaining) \/ Done(t)'
    <3>1. ASSUME NEW t \in Ids(stored), Done(t)
          PROVE  Done(t)'
      <4>1. t \in Turns
        BY <1>2, <1>6 DEF Ids
      <4> QED BY <1>4, <3>1, <4>1, AttemptsAssumption DEF Done
    <3> QED BY <1>1, <1>2, <1>5, <2>1, <3>1 DEF PostPart
  <2>5. Ids(run'.queue) \cap Ids(run'.remaining) = {} /\ Ids(run'.queue) \cup Ids(run'.remaining) \subseteq Ids(stored')
    BY <1>1, <1>2, <1>5, <2>1 DEF PostPart
  <2>6. Counted(run.queue)' /\ Counted(run.remaining)'
    BY <1>8, <2>3 DEF Counted
  <2>7. Distinct(run'.queue)
    BY <1>1, <1>5
  <2>8. Distinct(run.queue)' /\ Distinct(run.remaining)'
    BY <2>1, <2>7 DEF Distinct
  <2>9. /\ (Ids(run.queue) \cap Ids(run.remaining) = {})'
        /\ (Ids(run.queue) \cup Ids(run.remaining) \subseteq Ids(stored))'
    BY <2>5 DEF Ids
  <2>10. (\A t \in Ids(stored) : t \in Ids(run.queue) \cup Ids(run.remaining) \/ Done(t))'
    BY <1>2, <2>4 DEF Ids
  <2> QED BY <2>6, <2>8, <2>9, <2>10 DEF PostPart
<1> QED BY <1>1, <1>11, <1>12, <1>13

\* A task that has read the queue is at the head of the chain, and stays there.
LEMMA HeadStays ==
  ASSUME TypeOK, run.pc # "read", NEW x \in Tasks, chain' = chain \/ chain' = Append(chain, x)
  PROVE  \A op : Running(op)' <=> Running(op)
<1>1. chain # <<>> /\ chain \in Seq(Tasks)
  BY DEF TypeOK, NoRun
<1>2. chain' # <<>> /\ Head(chain') = Head(chain)
  BY <1>1, ChainAppend
<1> QED BY <1>1, <1>2 DEF Running

LEMMA StoredStep ==
  ASSUME TypeOK, StoredInv, TurnsOnce, Next
  PROVE  StoredInv'
<1>a. /\ run \in Run /\ stored \in Seq(Item) /\ chain \in Seq(Tasks) /\ failed \in [Turns -> Nat]
      /\ Flush \in Tasks /\ \A t \in Turns : Push(t) \in Tasks
  BY DEF TypeOK, Tasks
<1>b. StoredPart
  BY StoredParts
<1>c. ASSUME run' = NoRun, UNCHANGED <<stored, failed>>
      PROVE  StoredInv'
  BY <1>b, <1>c DEF StoredInv, StoredPart, NoRun, Distinct, Counted
<1>d. ASSUME NEW x \in Tasks, UNCHANGED <<run, stored, taken, failed>>, chain' = chain \/ chain' = Append(chain, x)
      PROVE  StoredInv'
  <2>1. CASE run.pc = "read"
    BY <1>b, <1>d, <2>1 DEF StoredInv, StoredPart, Distinct, Counted
  <2>2. CASE run.pc # "read"
    <3>1. (Running("flush")' <=> Running("flush")) /\ (Running("push")' <=> Running("push"))
      BY <1>d, <2>2, HeadStays
    <3>2. StoredPart'
      BY <1>b, <1>d DEF StoredPart, Distinct, Counted
    <3>3. run'.pc = "write" /\ Running("push")' => run'.queue = stored'
      BY <1>d, <3>1, StoredParts
    <3>4. run'.pc = "post" => Running("flush")' /\ PostPart'
      <4>1. PostPart => PostPart'
        <5>1. run' = run /\ stored' = stored /\ taken' = taken /\ failed' = failed
          BY <1>d
        <5>2. Ids(run.queue)' = Ids(run.queue) /\ Ids(run.remaining)' = Ids(run.remaining) /\ Ids(stored)' = Ids(stored)
          BY <5>1 DEF Ids
        <5>3. (Distinct(run.queue) => Distinct(run.queue)') /\ (Distinct(run.remaining) => Distinct(run.remaining)')
          BY <5>1 DEF Distinct
        <5>4. (Counted(run.queue) => Counted(run.queue)') /\ (Counted(run.remaining) => Counted(run.remaining)')
          BY <5>1 DEF Counted
        <5>5. \A t : Done(t)' <=> Done(t)
          BY <5>1 DEF Done
        <5> QED BY <5>2, <5>3, <5>4, <5>5 DEF PostPart
      <4> QED BY <1>d, <3>1, <4>1, StoredParts
    <3> QED BY <3>2, <3>3, <3>4 DEF StoredInv, StoredPart, PostPart
  <2> QED BY <2>1, <2>2
<1>1. ASSUME NEW t \in Turns, TurnEnds(t) \/ Finalize(t)
      PROVE  StoredInv'
  BY <1>1, <1>a, <1>d DEF TurnEnds, Finalize
<1>2. CASE ReadQueue
  <2>1. CASE EndsWith(<<>>)
    BY <1>2, <1>c, <2>1 DEF ReadQueue, EndsWith
  <2>2. CASE ~EndsWith(<<>>)
    <3>1. PICK pc \in {"post", "write"} : /\ run' = [NoRun EXCEPT !.pc = pc, !.queue = stored]
                                        /\ pc = IF Running("flush") THEN "post" ELSE "write"
      BY <1>2, <2>2 DEF ReadQueue
    <3>2. run'.pc = pc /\ run'.queue = stored /\ run'.remaining = <<>>
      BY <3>1 DEF NoRun
    <3>3. UNCHANGED <<chain, stored, failed, taken>>
      BY <1>2, <2>2 DEF ReadQueue
    <3>4. Running("flush")' = Running("flush") /\ Ids(<<>>) = {} /\ Distinct(<<>>) /\ DOMAIN <<>> = {}
      BY <3>3, EmptyQueue DEF Running
    <3>5. StoredPart'
      BY <1>b, <3>3 DEF StoredPart, Distinct, Counted
    <3>6. pc = "post" => Running("flush")' /\ PostPart'
      BY <1>b, <3>1, <3>2, <3>3, <3>4 DEF StoredPart, PostPart, Distinct, Counted, Ids
    <3>7. run'.pc = "write" /\ Running("push")' => run'.queue = stored'
      BY <3>2, <3>3
    <3> QED BY <3>2, <3>5, <3>6, <3>7 DEF StoredInv, StoredPart, PostPart
  <2> QED BY <2>1, <2>2
<1>3. CASE WritePush
  <2>1. run' = NoRun /\ UNCHANGED failed
    BY <1>3 DEF WritePush, EndsWith
  <2>2. CASE UNCHANGED stored
    BY <1>c, <2>1, <2>2
  <2>3. CASE stored' = Append(run.queue, [id |-> Head(chain).id, attempts |-> 0])
    <3>1. /\ run.queue = stored /\ chain # <<>> /\ Head(chain) = chain[1] /\ 1 \in DOMAIN chain
          /\ chain[1] \in Tasks /\ chain[1] # Flush
      BY <1>3, <1>a, TailOf, TasksDiffer DEF StoredInv, WritePush, Running
    <3>2. PICK t \in Turns : chain[1] = Push(t) /\ Head(chain).id = t
      BY <3>1, TaskKinds
    <3>3. t \notin Ids(stored)
      BY <3>1, <3>2 DEF TurnsOnce, Waits
    <3>4. PICK i \in Item : i = [id |-> t, attempts |-> 0]
      <4>1. [id |-> t, attempts |-> 0] \in Item
        BY AttemptsAssumption DEF Item
      <4> QED BY <4>1
    <3>5. i.id = t /\ i.attempts = 0 /\ stored' = Append(stored, i)
      BY <2>3, <3>1, <3>2, <3>4
    <3>6. /\ Distinct(stored')
          /\ \A k \in DOMAIN stored' : stored'[k] = i \/ \E n \in DOMAIN stored : stored'[k] = stored[n]
      BY <1>a, <1>b, <3>3, <3>5, ItemAppend DEF StoredPart
    <3>7. \A k \in DOMAIN stored' : stored'[k].attempts =< failed[stored'[k].id]
      BY <1>a, <1>b, <3>5, <3>6 DEF StoredPart, Counted
    <3>8. StoredPart'
      BY <2>1, <3>6, <3>7 DEF StoredPart, Distinct, Counted
    <3> QED BY <2>1, <3>8 DEF StoredInv, StoredPart, NoRun
  <2> QED BY <1>3, <2>2, <2>3 DEF WritePush
<1>4. CASE Post
  <2>1. PostPart' /\ StoredPart'
    BY <1>4, PostPartStep
  <2>2. run'.pc = "post"
    BY <1>4, PostStep
  <2>3. Running("flush")'
    BY <1>4 DEF Post, Running
  <2> QED BY <2>1, <2>2, <2>3 DEF StoredInv, StoredPart, PostPart
<1>5. CASE WriteRemaining
  <2>1. CASE EndsWith(<<>>) /\ UNCHANGED stored
    BY <1>5, <1>c, <2>1 DEF WriteRemaining, EndsWith
  <2>2. CASE stored' = run.remaining /\ run' = [run EXCEPT !.pc = "write"] /\ UNCHANGED chain
    <3>1. run'.pc = "write" /\ ~Running("push")'
      BY <1>5, <1>a, <2>2 DEF Run, WriteRemaining, Running
    <3>2. StoredPart'
      BY <1>5, <2>2, StoredParts DEF WriteRemaining, PostPart, StoredPart, Distinct, Counted
    <3> QED BY <3>1, <3>2 DEF StoredInv, StoredPart
  <2> QED BY <1>5, <2>1, <2>2 DEF WriteRemaining
<1>6. CASE ScheduleRetry
  BY <1>6, <1>c DEF ScheduleRetry, EndsWith
<1>7. CASE Alarm \/ FlushNow
  BY <1>7, <1>a, <1>d DEF Alarm, FlushNow
<1>8. CASE Suspend
  BY <1>8, <1>c DEF Suspend
<1> QED BY <1>1, <1>2, <1>3, <1>4, <1>5, <1>6, <1>7, <1>8 DEF Next, Work

\* What the last two theorems rest on, together.
LEMMA QueueInvariant == Spec => [](TypeOK /\ TurnsOnce /\ StoredInv)
<1>1. Init => TurnsOnce /\ StoredInv
  <2> SUFFICES ASSUME Init PROVE TurnsOnce /\ StoredInv
    OBVIOUS
  <2>1. DOMAIN chain = {} /\ DOMAIN stored = {} /\ run.pc = "read" /\ settling = {}
    BY EmptyQueue DEF Init
  <2>2. TurnsOnce
    BY <2>1 DEF Init, TurnsOnce, Waits, Ids
  <2>3. StoredInv
    BY <2>1 DEF StoredInv, Distinct, Counted
  <2> QED BY <2>2, <2>3
<1>2. TypeOK /\ TurnsOnce /\ StoredInv /\ Next => TurnsOnce' /\ StoredInv'
  BY TurnsStep, StoredStep
<1>3. TurnsOnce /\ StoredInv /\ UNCHANGED vars => TurnsOnce' /\ StoredInv'
  <2> SUFFICES ASSUME TurnsOnce, StoredInv, UNCHANGED vars PROVE TurnsOnce' /\ StoredInv'
    OBVIOUS
  <2>1. fresh' = fresh /\ settling' = settling /\ chain' = chain /\ run' = run /\ stored' = stored
    BY DEF vars, memory
  <2>2. taken' = taken /\ failed' = failed
    BY DEF vars
  <2>3. TurnsOnce'
    BY <2>1, <2>2 DEF TurnsOnce, Waits, Ids
  <2>4. StoredInv'
    <3>1. Ids(run.queue)' = Ids(run.queue) /\ Ids(run.remaining)' = Ids(run.remaining) /\ Ids(stored)' = Ids(stored)
      BY <2>1 DEF Ids
    <3>2. /\ Distinct(run.queue) => Distinct(run.queue)'
          /\ Distinct(run.remaining) => Distinct(run.remaining)'
          /\ Distinct(stored) => Distinct(stored)'
      BY <2>1 DEF Distinct
    <3>3. /\ Counted(run.queue) => Counted(run.queue)'
          /\ Counted(run.remaining) => Counted(run.remaining)'
          /\ Counted(stored) => Counted(stored)'
      BY <2>1, <2>2 DEF Counted
    <3>4. (\A t : Done(t)' <=> Done(t)) /\ (\A op : Running(op)' <=> Running(op))
      BY <2>1, <2>2 DEF Done, Running
    <3> QED BY <2>1, <3>1, <3>2, <3>3, <3>4 DEF StoredInv
  <2> QED BY <2>3, <2>4
<1> QED BY <1>1, <1>2, <1>3, TypeCorrect, PTL DEF Spec

-----------------------------------------------------------------------------
(* What the collector gets.                                                 *)

\* A turn leaves the stored queue only when the collector has taken it or has
\* failed to MAX_ATTEMPTS times (flush, delivery.ts).
THEOREM LeavesCorrect == Spec => LeavesWhenDone
<1>1. ASSUME TypeOK, TurnsOnce, StoredInv, Next, NEW t \in Ids(stored) \ Ids(stored')
      PROVE  Done(t)
  <2>1. CASE stored' = stored
    BY <1>1, <2>1 DEF Ids
  <2>2. CASE WritePush /\ stored' # stored
    <3>1. run.queue = stored /\ stored \in Seq(Item) /\ chain \in Seq(Tasks) /\ chain # <<>>
      BY <1>1, <2>2 DEF StoredInv, WritePush, TypeOK, Running
    <3>2. Head(chain) \in Tasks /\ Head(chain).op = "push"
      BY <2>2, <3>1, TailOf DEF WritePush, Running
    <3>3. [id |-> Head(chain).id, attempts |-> 0] \in Item
      BY <3>2, TaskKinds, TasksDiffer, AttemptsAssumption DEF Item
    <3>4. stored' = Append(stored, [id |-> Head(chain).id, attempts |-> 0])
      BY <2>2, <3>1 DEF WritePush
    <3> QED BY <1>1, <3>1, <3>3, <3>4, ItemAppend
  <2>3. CASE WriteRemaining /\ stored' # stored
    <3>1. stored' = run.remaining /\ run.queue = <<>> /\ PostPart
      BY <1>1, <2>3, StoredParts DEF WriteRemaining
    <3> QED BY <1>1, <3>1, EmptyQueue DEF PostPart, Ids
  <2> QED BY <1>1, <2>1, <2>2, <2>3 DEF Next, Work, TurnEnds, Finalize, ReadQueue, Post,
           ScheduleRetry, Alarm, FlushNow, Suspend
<1>2. TypeOK /\ TurnsOnce /\ StoredInv /\ Next
        => \A t \in Ids(stored) \ Ids(stored') : taken[t] > 0 \/ failed[t] >= MaxAttempts
  BY <1>1 DEF Done
<1>3. UNCHANGED vars => \A t \in Ids(stored) \ Ids(stored') : taken[t] > 0 \/ failed[t] >= MaxAttempts
  BY DEF vars, memory, Ids
<1> QED BY <1>2, <1>3, QueueInvariant, PTL DEF Spec, LeavesWhenDone

\* The bound on what the collector took of a turn, as a loss makes room for one more.
LEMMA BoundGrows ==
  ASSUME NEW n \in Nat, NEW u \in Nat, NEW l \in Nat, NEW m \in Nat, NEW l2 \in Nat, NEW m2 \in Nat,
         n =< u + l + m + 1, l2 + m2 = l + m + 1
  PROVE  n =< u + l2 + m2
OBVIOUS

LEMMA SentStep ==
  ASSUME TypeOK, TurnsOnce, StoredInv, SentInv, Next
  PROVE  SentInv'
<1>a. /\ taken \in [Turns -> Nat] /\ unheard \in [Turns -> Nat] /\ suspends \in Nat /\ faults \in Nat
      /\ run \in Run /\ stored \in Seq(Item)
  BY BoundsAssumption DEF TypeOK
<1>b. \A t \in Turns : /\ taken[t] =< unheard[t] + suspends + faults + 1
                       /\ t \in Pending => taken[t] =< unheard[t] + suspends + faults
  BY <1>a DEF SentInv
<1>c. ASSUME suspends' \in Nat, faults' \in Nat,
             \A t \in Turns : /\ taken'[t] \in Nat /\ unheard'[t] \in Nat
                              /\ taken'[t] =< unheard'[t] + suspends' + faults' + 1
                              /\ t \in Pending' => taken'[t] =< unheard'[t] + suspends' + faults'
      PROVE  SentInv'
  <2>1. ASSUME NEW t \in Turns
        PROVE  taken'[t] =< unheard'[t] + suspends' + faults' + (IF t \in Pending' THEN 0 ELSE 1)
    <3>0. /\ taken'[t] \in Nat /\ unheard'[t] \in Nat
          /\ taken'[t] =< unheard'[t] + suspends' + faults' + 1
          /\ t \in Pending' => taken'[t] =< unheard'[t] + suspends' + faults'
          /\ suspends' \in Nat /\ faults' \in Nat
      BY <1>c
    <3>1. CASE t \in Pending'
      <4>1. (IF t \in Pending' THEN 0 ELSE 1) = 0
        BY <3>1
      <4> QED BY <3>0, <3>1, <4>1
    <3>2. CASE t \notin Pending'
      <4>1. (IF t \in Pending' THEN 0 ELSE 1) = 1
        BY <3>2
      <4> QED BY <3>0, <4>1
    <3> QED BY <3>1, <3>2
  <2> QED BY <2>1 DEF SentInv
<1>d. ASSUME UNCHANGED <<taken, unheard, suspends, faults>>, \A t \in Turns : t \in Pending' => t \in Pending \/ taken[t] = 0
      PROVE  SentInv'
  <2>1. ASSUME NEW t \in Turns
        PROVE  /\ taken'[t] \in Nat /\ unheard'[t] \in Nat
               /\ taken'[t] =< unheard'[t] + suspends' + faults' + 1
               /\ t \in Pending' => taken'[t] =< unheard'[t] + suspends' + faults'
    <3>1. /\ taken[t] \in Nat /\ taken'[t] = taken[t] /\ unheard[t] \in Nat /\ unheard'[t] = unheard[t]
          /\ suspends' = suspends /\ faults' = faults
      BY <1>a, <1>d
    <3>2. t \in Pending' => t \in Pending \/ taken[t] = 0
      BY <1>d
    <3>3. /\ taken[t] =< unheard[t] + suspends + faults + 1
          /\ t \in Pending => taken[t] =< unheard[t] + suspends + faults
      BY <1>a, <1>b
    <3>4. suspends \in Nat /\ faults \in Nat
      BY <1>a
    <3>5. t \in Pending' => taken[t] =< unheard[t] + suspends + faults
      BY <3>1, <3>2, <3>3, <3>4
    <3> QED BY <3>1, <3>3, <3>5
  <2> QED BY <1>a, <1>c, <1>d, <2>1
<1>e. ASSUME UNCHANGED <<taken, unheard>>, suspends' + faults' = suspends + faults + 1, suspends' \in Nat, faults' \in Nat
      PROVE  SentInv'
  <2>1. ASSUME NEW t \in Turns
        PROVE  taken'[t] \in Nat /\ unheard'[t] \in Nat /\ taken'[t] =< unheard'[t] + suspends' + faults'
    <3>1. /\ taken[t] \in Nat /\ taken'[t] = taken[t] /\ unheard[t] \in Nat /\ unheard'[t] = unheard[t]
      BY <1>a, <1>e
    <3>2. taken[t] =< unheard[t] + suspends + faults + 1
      BY <1>a, <1>b
    <3>3. /\ suspends \in Nat /\ faults \in Nat /\ suspends' \in Nat /\ faults' \in Nat
          /\ suspends' + faults' = suspends + faults + 1
      BY <1>a, <1>e
    <3>4. taken[t] =< unheard[t] + suspends' + faults'
      BY <3>1, <3>2, <3>3, BoundGrows
    <3> QED BY <3>1, <3>4
  <2>2. \A t \in Turns : taken'[t] =< unheard'[t] + suspends' + faults' + 1
    <3>1. ASSUME NEW t \in Turns PROVE taken'[t] =< unheard'[t] + suspends' + faults' + 1
      BY <1>e, <2>1
    <3> QED BY <3>1
  <2> QED BY <1>c, <1>e, <2>1, <2>2
<1>f. run.pc # "post" => Pending = Ids(stored)
  BY DEF Pending
<1>g. ASSUME run' = NoRun PROVE Pending' = Ids(stored')
  BY <1>g, EmptyQueue DEF Pending, Ids
<1>1. ASSUME UNCHANGED <<run, stored, taken, unheard, suspends, faults>>
      PROVE  SentInv'
  BY <1>1, <1>d DEF Pending, Ids
<1>2. CASE ReadQueue
  <2>1. CASE EndsWith(<<>>)
    BY <1>2, <1>d, <1>f, <1>g, <2>1 DEF ReadQueue, EndsWith
  <2>2. CASE ~EndsWith(<<>>)
    <3>1. PICK pc \in {"post", "write"} : run' = [NoRun EXCEPT !.pc = pc, !.queue = stored]
      BY <1>2, <2>2 DEF ReadQueue
    <3>2. run'.queue = stored /\ run'.remaining = <<>> /\ Ids(<<>>) = {}
      BY <3>1, EmptyQueue DEF NoRun
    <3>3. Pending' = Ids(stored) /\ Pending = Ids(stored)
      BY <1>2, <1>f, <3>2 DEF ReadQueue, Pending, Ids
    <3> QED BY <1>2, <1>d, <3>3 DEF ReadQueue
  <2> QED BY <2>1, <2>2
<1>3. CASE WritePush
  <2>1. run' = NoRun /\ UNCHANGED <<taken, unheard, suspends>> /\ run.pc = "write"
    BY <1>3 DEF WritePush, EndsWith
  <2>2. CASE UNCHANGED <<stored, faults>>
    BY <1>d, <1>f, <1>g, <2>1, <2>2
  <2>3. CASE Fault /\ UNCHANGED stored
    BY <1>a, <1>e, <2>1, <2>3 DEF Fault
  <2>4. CASE stored' = Append(run.queue, [id |-> Head(chain).id, attempts |-> 0]) /\ UNCHANGED faults
    <3>1. run.queue = stored /\ chain \in Seq(Tasks) /\ chain # <<>>
      BY <1>3 DEF StoredInv, WritePush, TypeOK, Running
    <3>2. Head(chain) \in Tasks /\ Head(chain).op = "push" /\ 1 \in DOMAIN chain /\ Head(chain) = chain[1]
      BY <1>3, <3>1, TailOf DEF WritePush, Running
    <3>3. PICK t \in Turns : Head(chain) = Push(t) /\ Head(chain).id = t
      BY <3>2, TaskKinds, TasksDiffer
    <3>4. taken[t] = 0
      BY <3>2, <3>3 DEF TurnsOnce, Waits
    <3>5. [id |-> t, attempts |-> 0] \in Item
      BY AttemptsAssumption DEF Item
    <3>6. Ids(stored') = Ids(stored) \cup {t}
      BY <1>a, <2>4, <3>1, <3>3, <3>5, ItemAppend
    <3> QED BY <1>d, <1>f, <1>g, <2>1, <2>4, <3>4, <3>6
  <2> QED BY <1>3, <2>2, <2>3, <2>4 DEF WritePush
<1>4. CASE Post
  <2>1. PICK h \in Item :
           /\ h = Head(run.queue) /\ run.pc = "post" /\ run'.pc = "post" /\ run'.queue = Tail(run.queue)
           /\ run.queue \in Seq(Item) /\ run.queue # <<>> /\ run.remaining \in Seq(Item)
           /\ Counted(run.queue) /\ h.attempts =< failed[h.id] /\ h.id \in Turns
           /\ \/ /\ taken' = [taken EXCEPT ![h.id] = @ + 1] /\ failed' = failed /\ unheard' = unheard
                 /\ run'.remaining = run.remaining
              \/ /\ failed' = [failed EXCEPT ![h.id] = @ + 1] /\ Answerless(h.id)
                 /\ \/ run'.remaining = run.remaining /\ h.attempts + 1 >= MaxAttempts
                    \/ \E r \in Item : /\ run'.remaining = Append(run.remaining, r)
                                       /\ r.id = h.id /\ r.attempts = h.attempts + 1
    BY <1>4, PostStep
  <2>2. UNCHANGED <<suspends, faults>>
    BY <1>4 DEF Post
  <2>3. /\ Ids(run'.queue) = Ids(run.queue) \ {h.id} /\ h.id \in Ids(run.queue)
        /\ Ids(run.queue) \cap Ids(run.remaining) = {} /\ Pending = Ids(run.queue) \cup Ids(run.remaining)
    BY <2>1, ItemTail, StoredParts DEF PostPart, Pending
  <2>4. Pending' = Ids(run'.queue) \cup Ids(run'.remaining)
    BY <2>1 DEF Pending, Ids
  <2>5. Ids(run'.remaining) \subseteq Ids(run.remaining) \cup {h.id}
    BY <2>1, ItemAppend
  <2>6. Pending' \subseteq Pending
    BY <2>3, <2>4, <2>5
  <2>7. CASE UNCHANGED <<taken, unheard>>
    BY <1>d, <2>2, <2>6, <2>7
  <2>8. CASE /\ taken' = [taken EXCEPT ![h.id] = @ + 1]
             /\ unheard' = unheard /\ run'.remaining = run.remaining
    <3>1. h.id \notin Pending' /\ h.id \in Pending
      BY <2>3, <2>4, <2>8
    <3>2. taken'[h.id] = taken[h.id] + 1 /\ \A t \in Turns : t # h.id => taken'[t] = taken[t]
      BY <1>a, <2>1, <2>8
    <3>3. ASSUME NEW t \in Turns
          PROVE  /\ taken'[t] \in Nat /\ unheard'[t] \in Nat
                 /\ taken'[t] =< unheard'[t] + suspends' + faults' + 1
                 /\ t \in Pending' => taken'[t] =< unheard'[t] + suspends' + faults'
      <4>1. taken[t] \in Nat /\ unheard[t] \in Nat /\ suspends \in Nat /\ faults \in Nat
        BY <1>a
      <4>2. /\ taken[t] =< unheard[t] + suspends + faults + 1
            /\ t \in Pending => taken[t] =< unheard[t] + suspends + faults
        BY <1>a, <1>b
      <4>3. unheard'[t] = unheard[t] /\ suspends' = suspends /\ faults' = faults
        BY <2>2, <2>8
      <4>4. CASE t = h.id
        <5>1. t \notin Pending' /\ t \in Pending /\ taken'[t] = taken[t] + 1
          BY <3>1, <3>2, <4>4
        <5> QED BY <4>1, <4>2, <4>3, <5>1
      <4>5. CASE t # h.id
        <5>1. (t \in Pending' => t \in Pending) /\ taken'[t] = taken[t]
          BY <2>6, <3>2, <4>5
        <5> QED BY <4>1, <4>2, <4>3, <5>1
      <4> QED BY <4>4, <4>5
    <3>4. suspends' \in Nat /\ faults' \in Nat
      BY <1>a, <2>2
    <3> QED BY <1>c, <3>3, <3>4
  <2>9. CASE /\ taken' = [taken EXCEPT ![h.id] = @ + 1]
             /\ unheard' = [unheard EXCEPT ![h.id] = @ + 1]
    <3>1. ASSUME NEW t \in Turns
          PROVE  /\ taken'[t] \in Nat /\ unheard'[t] \in Nat
                 /\ taken'[t] =< unheard'[t] + suspends' + faults' + 1
                 /\ t \in Pending' => taken'[t] =< unheard'[t] + suspends' + faults'
      <4>1. taken[t] \in Nat /\ unheard[t] \in Nat
        BY <1>a
      <4>2. \/ taken'[t] = taken[t] /\ unheard'[t] = unheard[t]
            \/ taken'[t] = taken[t] + 1 /\ unheard'[t] = unheard[t] + 1
        BY <1>a, <2>9
      <4>3. /\ taken[t] =< unheard[t] + suspends + faults + 1
            /\ t \in Pending' => taken[t] =< unheard[t] + suspends + faults
        <5>1. t \in Pending' => t \in Pending
          BY <2>6
        <5> QED BY <1>a, <1>b, <5>1
      <4>4. /\ suspends \in Nat /\ faults \in Nat /\ suspends' = suspends /\ faults' = faults
        BY <1>a, <2>2
      <4> QED BY <4>1, <4>2, <4>3, <4>4
    <3>2. suspends' \in Nat /\ faults' \in Nat
      BY <1>a, <2>2
    <3> QED BY <1>c, <3>1, <3>2
  <2> QED BY <2>1, <2>7, <2>8, <2>9 DEF Answerless
<1>5. CASE WriteRemaining
  <2>1. CASE Fault /\ UNCHANGED <<taken, unheard, suspends>>
    BY <1>a, <1>e, <2>1 DEF Fault
  <2>2. CASE stored' = run.remaining /\ run' = [run EXCEPT !.pc = "write"] /\ UNCHANGED <<faults, taken, unheard, suspends>>
    <3>1. run'.pc = "write" /\ run.pc = "post"
      BY <1>5, <1>a, <2>2 DEF Run, WriteRemaining
    <3>2. Pending' = Ids(stored') /\ Ids(stored') \subseteq Pending
      BY <2>2, <3>1 DEF Pending, Ids
    <3> QED BY <1>d, <2>2, <3>2
  <2> QED BY <1>5, <2>1, <2>2 DEF WriteRemaining
<1>6. CASE ScheduleRetry
  BY <1>6, <1>d, <1>f, <1>g DEF ScheduleRetry, EndsWith
<1>7. CASE Suspend
  BY <1>7, <1>a, <1>e DEF Suspend
<1>8. CASE Alarm \/ FlushNow \/ \E t \in Turns : TurnEnds(t) \/ Finalize(t)
  BY <1>1, <1>8 DEF Alarm, FlushNow, TurnEnds, Finalize
<1> QED BY <1>2, <1>3, <1>4, <1>5, <1>6, <1>7, <1>8 DEF Next, Work

\* The collector takes a turn again only where the answer to a post it took was
\* lost, or a suspension or a failed write lost what a flush had done (flush and
\* post, delivery.ts).
THEOREM SentCorrect == Spec => []SentOnce
<1>1. Init => SentInv
  BY DEF Init, SentInv
<1>2. TypeOK /\ TurnsOnce /\ StoredInv /\ SentInv /\ Next => SentInv'
  BY SentStep
<1>3. SentInv /\ UNCHANGED vars => SentInv'
  BY DEF SentInv, Pending, Ids, vars, memory
<1>4. TypeOK /\ SentInv => SentOnce
  <2> SUFFICES ASSUME TypeOK, SentInv, NEW t \in Turns PROVE taken[t] =< 1 + unheard[t] + suspends + faults
    BY DEF SentOnce
  <2>1. taken[t] \in Nat /\ unheard[t] \in Nat /\ suspends \in Nat /\ faults \in Nat
    BY BoundsAssumption DEF TypeOK
  <2> QED BY <2>1 DEF SentInv
<1> QED BY <1>1, <1>2, <1>3, <1>4, QueueInvariant, PTL DEF Spec

=============================================================================
