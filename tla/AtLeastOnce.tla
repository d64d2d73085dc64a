------------------------------ MODULE AtLeastOnce ------------------------------
(***************************************************************************)
(* What the forwarder promises about the runtime log, without files,        *)
(* offsets, batches or processes: an event becomes done (the next process   *)
(* will not send it again) only when brainsrv has taken it or it is exempt  *)
(* from sending, and an event the log still holds stays done unless a       *)
(* backfill is asked for.                                                   *)
(***************************************************************************)
CONSTANT Events

VARIABLES
  log,     \* events the log holds
  taken,   \* events brainsrv has taken
  exempt,  \* events that need not be sent
  done,    \* events of the log that no later process sends
  asked    \* input: whether a backfill is asked for that has not taken effect

vars == <<log, taken, exempt, done>>

Init == log = {} /\ taken = {} /\ exempt = {} /\ done = {}

Append(e) ==
  /\ log' = log \cup {e}
  /\ UNCHANGED <<taken, exempt, done>>

\* Rotation deletes the oldest events, done or not.
Discard(S) ==
  /\ log' = log \ S /\ done' = done \ S
  /\ UNCHANGED <<taken, exempt>>

Take(S) ==
  /\ taken' = taken \cup S
  /\ UNCHANGED <<log, exempt, done>>

Exempt(S) ==
  /\ exempt' = exempt \cup S
  /\ UNCHANGED <<log, taken, done>>

Confirm(S) ==
  /\ S \subseteq log \cap (taken \cup exempt)
  /\ done' = done \cup S
  /\ UNCHANGED <<log, taken, exempt>>

\* What a backfill leaves done is what it has confirmed itself.
Backfill(S) ==
  /\ asked /\ S \subseteq log \cap (taken \cup exempt)
  /\ done' = S
  /\ UNCHANGED <<log, taken, exempt>>

Next ==
  \/ \E e \in Events : Append(e)
  \/ \E S \in SUBSET Events : Discard(S) \/ Take(S) \/ Exempt(S) \/ Confirm(S) \/ Backfill(S)

Spec == Init /\ [][Next]_vars

\* Nothing is done that brainsrv was not given.
NothingLost == done \subseteq taken \cup exempt

=============================================================================
