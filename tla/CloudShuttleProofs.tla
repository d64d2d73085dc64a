-------------------------- MODULE CloudShuttleProofs --------------------------
(***************************************************************************)
(* Proofs about the upload of a cloud sandbox's log, for any hooks, any     *)
(* sizes, and any number of events, runs, failed posts and killed hooks.    *)
(* What is said of types holds of every log; the offset and the removal of  *)
(* a log are right while the log is not rotated and a session starts calmly.*)
(***************************************************************************)
EXTENDS CloudShuttle, SequenceTheorems, TLAPS

-----------------------------------------------------------------------------
(* How a step changes its hook.                                             *)

\* Only h changes, and is at pc then, with this size, copy and offset.
Becomes(h, pc, size, copy, off) ==
  /\ hook' \in [Hooks -> Hook] /\ \A g \in Hooks \ {h} : hook'[g] = hook[g]
  /\ hook'[h].pc = pc /\ hook'[h].reset = hook[h].reset
  /\ hook'[h].size = size /\ hook'[h].copy = copy /\ hook'[h].off = off

Ends(h) ==
  hook' \in [Hooks -> Hook] /\ hook'[h] = Idle /\ \A g \in Hooks \ {h} : hook'[g] = hook[g]

LEMMA IdleType ==
  /\ Idle \in Hook /\ Idle.pc = "idle" /\ ~Idle.reset /\ Idle.size = 0
  /\ Idle.copy = <<>> /\ Idle.off = 0 /\ Len(Idle.copy) = 0
<1>1. <<>> \in Seq(Events)
  OBVIOUS
<1>2. Idle.pc \in Steps /\ Idle.reset \in BOOLEAN
  BY DEF Idle, Steps
<1> HIDE DEF Events
<1>3. Idle \in Hook
  BY <1>1, Zenon DEF Idle, Hook, Steps
<1> QED BY <1>3 DEF Idle

LEMMA GotoBecomes ==
  ASSUME hook \in [Hooks -> Hook], NEW h \in Hooks, NEW pc \in Steps, Goto(h, pc)
  PROVE  Becomes(h, pc, hook[h].size, hook[h].copy, hook[h].off)
<1> DEFINE t == [hook[h] EXCEPT !.pc = pc]
<1>1. hook[h] \in Hook
  OBVIOUS
<1> HIDE DEF Events
<1>2. t \in Hook
  BY <1>1 DEF Hook
<1>3. /\ t.pc = pc /\ t.reset = hook[h].reset /\ t.size = hook[h].size
      /\ t.copy = hook[h].copy /\ t.off = hook[h].off
  BY <1>1 DEF Hook
<1>4. hook' = [hook EXCEPT ![h] = t]
  BY DEF Goto
<1> HIDE DEF t
<1>5. hook'[h] = t /\ hook' \in [Hooks -> Hook] /\ \A g \in Hooks \ {h} : hook'[g] = hook[g]
  BY <1>2, <1>4
<1> QED BY <1>3, <1>5 DEF Becomes

LEMMA CopyBecomes ==
  ASSUME hook \in [Hooks -> Hook], NEW h \in Hooks, NEW c \in Seq(Events),
         hook' = [hook EXCEPT ![h].pc = "offset", ![h].copy = c]
  PROVE  Becomes(h, "offset", hook[h].size, c, hook[h].off)
<1> DEFINE t == [hook[h] EXCEPT !.pc = "offset", !.copy = c]
<1>1. hook[h] \in Hook
  OBVIOUS
<1> HIDE DEF Events
<1>2. t \in Hook
  BY <1>1 DEF Hook, Steps
<1>3. /\ t.pc = "offset" /\ t.reset = hook[h].reset /\ t.size = hook[h].size
      /\ t.copy = c /\ t.off = hook[h].off
  BY <1>1 DEF Hook
<1>4. hook' = [hook EXCEPT ![h] = t]
  OBVIOUS
<1> HIDE DEF t
<1>5. hook'[h] = t /\ hook' \in [Hooks -> Hook] /\ \A g \in Hooks \ {h} : hook'[g] = hook[g]
  BY <1>2, <1>4
<1> QED BY <1>3, <1>5 DEF Becomes

LEMMA OffBecomes ==
  ASSUME hook \in [Hooks -> Hook], NEW h \in Hooks, NEW pc \in Steps, NEW off \in Nat,
         hook' = [hook EXCEPT ![h].pc = pc, ![h].off = off]
  PROVE  Becomes(h, pc, hook[h].size, hook[h].copy, off)
<1> DEFINE t == [hook[h] EXCEPT !.pc = pc, !.off = off]
<1>1. hook[h] \in Hook
  OBVIOUS
<1> HIDE DEF Events
<1>2. t \in Hook
  BY <1>1 DEF Hook
<1>3. /\ t.pc = pc /\ t.reset = hook[h].reset /\ t.size = hook[h].size
      /\ t.copy = hook[h].copy /\ t.off = off
  BY <1>1 DEF Hook
<1>4. hook' = [hook EXCEPT ![h] = t]
  OBVIOUS
<1> HIDE DEF t
<1>5. hook'[h] = t /\ hook' \in [Hooks -> Hook] /\ \A g \in Hooks \ {h} : hook'[g] = hook[g]
  BY <1>2, <1>4
<1> QED BY <1>3, <1>5 DEF Becomes

LEMMA FinishEnds ==
  ASSUME hook \in [Hooks -> Hook], NEW h \in Hooks, Finish(h)
  PROVE  Ends(h)
BY IdleType DEF Finish, Ends

\* A hook begins an upload with nothing copied.
Begins(h, pc, reset, size) ==
  /\ hook' \in [Hooks -> Hook] /\ \A g \in Hooks \ {h} : hook'[g] = hook[g]
  /\ hook'[h].pc = pc /\ hook'[h].reset = reset /\ hook'[h].size = size
  /\ hook'[h].copy = <<>> /\ hook'[h].off = 0

LEMMA UploadBegins ==
  ASSUME hook \in [Hooks -> Hook], NEW h \in Hooks, NEW r \in Runs \cup {0}, NEW n \in Nat, NEW pc \in Steps,
         NEW reset \in BOOLEAN,
         hook' = [hook EXCEPT ![h] = [Idle EXCEPT !.pc = pc, !.reset = reset, !.run = r, !.size = n]]
  PROVE  Begins(h, pc, reset, n)
<1> DEFINE t == [Idle EXCEPT !.pc = pc, !.reset = reset, !.run = r, !.size = n]
<1>1. Idle \in Hook
  BY IdleType
<1> HIDE DEF Events, Runs
<1>2. t \in Hook
  BY <1>1 DEF Hook
<1>3. /\ t.pc = pc /\ t.size = n /\ t.copy = Idle.copy /\ t.off = Idle.off
  BY <1>1 DEF Hook
<1>6. t.reset = reset
  BY <1>1 DEF Hook
<1>4. hook' = [hook EXCEPT ![h] = t]
  OBVIOUS
<1> HIDE DEF t
<1>5. hook'[h] = t /\ hook' \in [Hooks -> Hook] /\ \A g \in Hooks \ {h} : hook'[g] = hook[g]
  BY <1>2, <1>4
<1> QED BY <1>3, <1>5, <1>6, IdleType DEF Begins

LEMMA BareUploadBegins ==
  ASSUME hook \in [Hooks -> Hook], NEW h \in Hooks, NEW r \in Runs \cup {0}, NEW n \in Nat, NEW pc \in Steps,
         hook' = [hook EXCEPT ![h] = [Idle EXCEPT !.pc = pc, !.run = r, !.size = n]]
  PROVE  Begins(h, pc, FALSE, n)
<1> DEFINE t == [Idle EXCEPT !.pc = pc, !.run = r, !.size = n]
<1>1. Idle \in Hook
  BY IdleType
<1> HIDE DEF Events, Runs
<1>2. t \in Hook
  BY <1>1 DEF Hook
<1>3. /\ t.pc = pc /\ t.size = n /\ t.copy = Idle.copy /\ t.off = Idle.off
  BY <1>1 DEF Hook
<1>4. t.reset = FALSE
  BY <1>1, IdleType DEF Hook
<1>5. hook' = [hook EXCEPT ![h] = t]
  OBVIOUS
<1> HIDE DEF t
<1>6. hook'[h] = t /\ hook' \in [Hooks -> Hook] /\ \A g \in Hooks \ {h} : hook'[g] = hook[g]
  BY <1>2, <1>5
<1> QED BY <1>3, <1>4, <1>6, IdleType DEF Begins

\* What a hook does next.
Step(h) ==
  \/ AppendEvent(h) \/ SessionStart(h) \/ Work(h) \/ Crash(h)
  \/ \E r \in 1..runs : Upload(h, r)

\* An upload that succeeds: a session start goes on, any other ends.
Succeeds(h) ==
  \/ hook[h].reset /\ Becomes(h, "remove", hook[h].size, hook[h].copy, hook[h].off)
  \/ ~hook[h].reset /\ Ends(h)

\* How each action changes its hook.
HookMoves(h) ==
  LET k == hook[h]  Same(pc) == Becomes(h, pc, hook[h].size, hook[h].copy, hook[h].off) IN
  \/ AppendEvent(h) /\ hook' = hook
  \/ (\E r \in 1..runs : Upload(h, r)) /\ Begins(h, "copy", FALSE, Len(log))
  \/ SessionStart(h) /\ Begins(h, IF log = <<>> THEN "clear" ELSE "copy", TRUE, Len(log))
  \/ Copy(h) /\ log # <<>> /\ Becomes(h, "offset", k.size, log, k.off)
  \/ Copy(h) /\ log = <<>> /\ k.reset /\ Same("clear")
  \/ Copy(h) /\ log = <<>> /\ ~k.reset /\ Ends(h)
  \/ Seek(h) /\ OffsetFor(h) < Len(k.copy) /\ Becomes(h, "post", k.size, k.copy, OffsetFor(h))
  \/ Seek(h) /\ (OffsetFor(h) >= k.size \/ OffsetFor(h) >= Len(k.copy)) /\ Succeeds(h)
  \/ Post(h) /\ Becomes(h, "truncate", k.size, k.copy, BatchEnd(h))
  \/ PostFails(h) /\ k.reset /\ Same("clear")
  \/ PostFails(h) /\ ~k.reset /\ Ends(h)
  \/ TruncateState(h) /\ Same("write")
  \/ WriteState(h) /\ k.off < Len(k.copy) /\ Same("post")
  \/ WriteState(h) /\ k.off >= Len(k.copy) /\ Succeeds(h)
  \/ RemoveLog(h) /\ Same("clear")
  \/ ClearState(h) /\ Ends(h)
  \/ Crash(h) /\ Ends(h)

LEMMA HookStep ==
  ASSUME TypeOK, NEW h \in Hooks, Step(h)
  PROVE  HookMoves(h)
<1>a. /\ hook \in [Hooks -> Hook] /\ log \in Seq(Events) /\ Len(log) \in Nat /\ runs \in Runs
      /\ state.run \in Runs \cup {0} /\ state.size \in Nat /\ MaxRuns \in Nat
  BY BoundsAssumption DEF TypeOK
<1>b. /\ hook[h].reset \in BOOLEAN /\ hook[h].size \in Nat /\ hook[h].off \in Nat
      /\ hook[h].copy \in Seq(Events) /\ Len(hook[h].copy) \in Nat
  BY <1>a DEF Hook
<1>c. ASSUME NEW pc \in Steps, Goto(h, pc)
      PROVE  Becomes(h, pc, hook[h].size, hook[h].copy, hook[h].off)
  BY <1>a, <1>c, GotoBecomes
<1>d. ASSUME Finish(h) PROVE Ends(h)
  BY <1>a, <1>d, FinishEnds
<1>e. ASSUME Succeed(h) PROVE Succeeds(h)
  BY <1>b, <1>c, <1>d, <1>e DEF Succeed, Succeeds, Steps
<1> USE DEF HookMoves
<1>1. CASE AppendEvent(h)
  BY <1>1 DEF AppendEvent
<1>2. CASE SessionStart(h)
  <2>1. PICK pc \in Steps : pc = IF log = <<>> THEN "clear" ELSE "copy"
    BY DEF Steps
  <2>2. PICK r \in Runs \cup {0} : r = IF Readable THEN state.run ELSE runs + 1
    BY <1>2, <1>a DEF SessionStart, Runs
  <2>3. Begins(h, pc, TRUE, Len(log))
    BY <1>2, <1>a, <2>1, <2>2, UploadBegins DEF SessionStart
  <2> QED BY <1>2, <2>1, <2>3
<1>3. CASE \E r \in 1..runs : Upload(h, r)
  <2>1. PICK r \in 1..runs : Upload(h, r)
    BY <1>3
  <2>2. r \in Runs \cup {0}
    BY <1>a DEF Runs
  <2>3. Begins(h, "copy", FALSE, Len(log))
    BY <1>a, <2>1, <2>2, BareUploadBegins DEF Upload, Steps
  <2> QED BY <1>3, <2>3
<1>4. CASE Copy(h)
  <2>1. CASE log # <<>>
    <3>1. Becomes(h, "offset", hook[h].size, log, hook[h].off)
      BY <1>4, <1>a, <2>1, CopyBecomes DEF Copy
    <3> QED BY <1>4, <2>1, <3>1
  <2>2. CASE log = <<>> /\ hook[h].reset
    BY <1>4, <1>c, <2>2 DEF Copy, Steps
  <2>3. CASE log = <<>> /\ ~hook[h].reset
    BY <1>4, <1>d, <2>3 DEF Copy
  <2> QED BY <2>1, <2>2, <2>3
<1>5. CASE Seek(h)
  <2>0. OffsetFor(h) \in Nat
    BY <1>a DEF OffsetFor
  <2>1. CASE OffsetFor(h) >= hook[h].size \/ OffsetFor(h) >= Len(hook[h].copy)
    BY <1>5, <1>e, <2>1 DEF Seek
  <2>2. CASE ~(OffsetFor(h) >= hook[h].size \/ OffsetFor(h) >= Len(hook[h].copy))
    <3>1. Becomes(h, "post", hook[h].size, hook[h].copy, OffsetFor(h))
      BY <1>5, <1>a, <2>0, <2>2, OffBecomes DEF Seek, Steps
    <3>2. OffsetFor(h) < Len(hook[h].copy)
      BY <1>b, <2>0, <2>2
    <3> QED BY <1>5, <3>1, <3>2
  <2> QED BY <2>1, <2>2
<1>6. CASE Post(h)
  <2>1. BatchEnd(h) \in Nat
    BY <1>b, SizesAssumption DEF BatchEnd
  <2>2. Becomes(h, "truncate", hook[h].size, hook[h].copy, BatchEnd(h))
    BY <1>6, <1>a, <2>1, OffBecomes DEF Post, Steps
  <2> QED BY <1>6, <2>2
<1>7. CASE PostFails(h)
  BY <1>7, <1>b, <1>c, <1>d DEF PostFails, Steps
<1>8. CASE TruncateState(h)
  BY <1>8, <1>c DEF TruncateState, Steps
<1>9. CASE WriteState(h)
  <2>1. CASE hook[h].off < Len(hook[h].copy)
    BY <1>9, <1>c, <2>1 DEF WriteState, Steps
  <2>2. CASE ~(hook[h].off < Len(hook[h].copy))
    <3>1. hook[h].off >= Len(hook[h].copy)
      BY <1>b, <2>2
    <3>2. Succeed(h)
      BY <1>9, <2>2 DEF WriteState
    <3>3. Succeeds(h)
      BY <1>e, <3>2
    <3> QED BY <1>9, <3>1, <3>3
  <2> QED BY <2>1, <2>2
<1>10. CASE RemoveLog(h)
  BY <1>10, <1>c DEF RemoveLog, Steps
<1>11. CASE ClearState(h)
  BY <1>11, <1>d DEF ClearState
<1>12. CASE Crash(h)
  BY <1>12, <1>d DEF Crash
<1> QED BY <1>1, <1>2, <1>3, <1>4, <1>5, <1>6, <1>7, <1>8, <1>9, <1>10, <1>11, <1>12 DEF Step, Work

LEMMA NextIsStep == Next <=> \E h \in Hooks : Step(h)
BY DEF Next, Step

-----------------------------------------------------------------------------
(* Types.                                                                   *)

LEMMA TypeStep ==
  ASSUME TypeOK, LengthsInv, NEW h \in Hooks, Step(h)
  PROVE  TypeOK' /\ LengthsInv'
<1>a. /\ hook \in [Hooks -> Hook] /\ log \in Seq(Events) /\ Len(log) \in Nat /\ runs \in Runs
      /\ next \in 1..(MaxEvents + 1) /\ state \in [run : Runs \cup {0}, size : 0..MaxEvents]
      /\ file \in {"whole", "empty", "mixed"} /\ sent \subseteq Events /\ aside \subseteq Events
      /\ faults \in 0..MaxFaults /\ crashes \in 0..MaxCrashes
      /\ MaxRuns \in Nat \ {0} /\ MaxEvents \in Nat /\ MaxFaults \in Nat /\ MaxCrashes \in Nat
  BY BoundsAssumption DEF TypeOK
<1>b. \A g \in Hooks : /\ hook[g].size \in Nat /\ hook[g].off \in Nat /\ hook[g].run \in Runs \cup {0}
                      /\ hook[g].copy \in Seq(Events) /\ Len(hook[g].copy) \in Nat
  BY <1>a DEF Hook
<1>c. Len(log) < next /\ \A g \in Hooks : Len(hook[g].copy) < next /\ (At(g, "copy") => hook[g].off = 0)
  BY DEF LengthsInv
<1>d. \A g \in Hooks : hook[g].off =< Len(hook[g].copy) \/ hook[g].pc \in {"idle", "clear", "remove"}
  BY DEF TypeOK
<1>e. HookMoves(h)
  BY HookStep
<1>f. hook' \in [Hooks -> Hook]
  BY <1>a, <1>e DEF HookMoves, Becomes, Begins, Ends, Succeeds
<1>g. \A g \in Hooks \ {h} : hook'[g] = hook[g]
  BY <1>e DEF HookMoves, Becomes, Begins, Ends, Succeeds
<1> DEFINE OffType == hook'[h].off =< Len(hook'[h].copy) \/ hook'[h].pc \in {"idle", "clear", "remove"}
<1>1. /\ log' \in Seq(Events) /\ next' \in 1..(MaxEvents + 1) /\ next' >= next
      /\ Len(log') < next'
  <2>1. CASE AppendEvent(h)
    <3>1. next \in Events /\ next' = next + 1 /\ next + 1 \in 1..(MaxEvents + 1)
      BY <1>a, <2>1 DEF AppendEvent, Events
    <3>2. \/ log' = <<next>>
          \/ log' = Append(log, next)
      BY <2>1 DEF AppendEvent
    <3>3. <<next>> \in Seq(Events) /\ Len(<<next>>) = 1 /\ Append(log, next) \in Seq(Events)
          /\ Len(Append(log, next)) = Len(log) + 1
      BY <1>a, <3>1
    <3> HIDE DEF Events
    <3>4. log' \in Seq(Events)
      BY <3>2, <3>3
    <3>5. Len(log') = 1 \/ Len(log') = Len(log) + 1
      BY <3>2, <3>3
    <3>6. 1 < next + 1 /\ Len(log) + 1 < next + 1 /\ next + 1 >= next
      BY <1>a, <1>c
    <3> QED BY <3>1, <3>4, <3>5, <3>6
  <2>2. CASE ~AppendEvent(h)
    <3>1. next' = next /\ (log' = log \/ log' = <<>>)
      BY <2>2 DEF Step, Work, SessionStart, Upload, Copy, Seek, Post, PostFails, TruncateState,
             WriteState, RemoveLog, ClearState, Crash
    <3>2. <<>> \in Seq(Events) /\ Len(<<>>) = 0
      OBVIOUS
    <3>3. 0 < next /\ next >= next
      BY <1>a
    <3> HIDE DEF Events
    <3>4. log' \in Seq(Events)
      BY <1>a, <3>1, <3>2
    <3>5. Len(log') < next
      BY <1>c, <3>1, <3>2, <3>3
    <3> QED BY <1>a, <3>1, <3>3, <3>4, <3>5
  <2> QED BY <2>1, <2>2
<1>2. Len(hook'[h].copy) < next'
  <2>1. /\ Len(<<>>) = 0 /\ Len(log) < next /\ Len(hook[h].copy) < next /\ Idle.copy = <<>> /\ 0 < next
        /\ next \in Nat /\ next' \in Nat
    BY <1>a, <1>1, <1>c, IdleType
  <2>2. hook'[h].copy \in {<<>>, log, hook[h].copy}
    BY <1>e, IdleType DEF HookMoves, Becomes, Begins, Ends, Succeeds
  <2>3. Len(hook'[h].copy) < next
    BY <2>1, <2>2
  <2>4. Len(hook'[h].copy) \in Nat
    BY <1>f DEF Hook
  <2> QED BY <1>1, <2>1, <2>3, <2>4
<1>3. LengthsInv'
  <2>1. \A g \in Hooks \ {h} : Len(hook'[g].copy) < next'
    BY <1>1, <1>a, <1>b, <1>c, <1>g
  <2>2. hook'[h].pc = "copy" => hook'[h].off = 0
    BY <1>c, <1>e, IdleType DEF HookMoves, Becomes, Begins, Ends, Succeeds, At
  <2>3. \A g \in Hooks \ {h} : hook'[g].pc = "copy" => hook'[g].off = 0
    BY <1>c, <1>g DEF At
  <2> QED BY <1>1, <1>2, <2>1, <2>2, <2>3 DEF LengthsInv, At
<1>4. state' \in [run : Runs \cup {0}, size : 0..MaxEvents] /\ file' \in {"whole", "empty", "mixed"}
  <2>1. CASE WriteState(h)
    <3>1. hook[h].off \in 0..MaxEvents
      BY <1>a, <1>b, <1>c, <1>d, <2>1 DEF WriteState, At
    <3>2. state' = [run |-> hook[h].run, size |-> hook[h].off] /\ file' \in {"whole", "mixed"}
      BY <2>1 DEF WriteState
    <3> QED BY <1>b, <3>1, <3>2
  <2>2. CASE ClearState(h)
    <3>1. state' = [run |-> 0, size |-> 0] /\ file' = "whole"
      BY <2>2 DEF ClearState, NoState
    <3>2. 0 \in 0..MaxEvents
      BY <1>a
    <3> QED BY <3>1, <3>2
  <2>3. CASE ~WriteState(h) /\ ~ClearState(h)
    <3>1. state' = state /\ file' \in {file, "empty"}
      BY <2>3 DEF Step, Work, AppendEvent, SessionStart, Upload, Copy, Seek, Post, PostFails, TruncateState,
             RemoveLog, Crash
    <3> QED BY <1>a, <3>1
  <2> QED BY <2>1, <2>2, <2>3
<1>5. sent' \subseteq Events /\ aside' \subseteq Events
  <2>1. Lines(log) \subseteq Events
    BY <1>a DEF Lines
  <2>2. Batch(h) \subseteq Events
    BY <1>b DEF Batch
  <2> QED BY <1>a, <2>1, <2>2 DEF Step, Work, AppendEvent, SessionStart, Upload, Copy, Seek, Post, PostFails,
             TruncateState, WriteState, RemoveLog, ClearState, Crash
<1>6. runs' \in Runs
  <2>1. runs' = runs \/ (runs < MaxRuns /\ runs' = runs + 1)
    BY DEF Step, Work, AppendEvent, SessionStart, Upload, Copy, Seek, Post, PostFails,
             TruncateState, WriteState, RemoveLog, ClearState, Crash
  <2> QED BY <1>a, <2>1 DEF Runs
<1>7. faults' \in 0..MaxFaults /\ crashes' \in 0..MaxCrashes
  <2>1. /\ faults' = faults \/ (faults < MaxFaults /\ faults' = faults + 1)
        /\ crashes' = crashes \/ (crashes < MaxCrashes /\ crashes' = crashes + 1)
    BY DEF Step, Work, AppendEvent, SessionStart, Upload, Copy, Seek, Post, PostFails, Fault,
             TruncateState, WriteState, RemoveLog, ClearState, Crash
  <2> QED BY <1>a, <2>1
<1>8. OffType
  <2>1. CASE hook'[h].pc \in {"idle", "clear", "remove"}
    BY <2>1
  <2>2. CASE hook'[h].off = hook[h].off /\ hook'[h].copy = hook[h].copy
             /\ hook[h].pc \notin {"idle", "clear", "remove"}
    BY <1>d, <2>2
  <2>3. CASE hook'[h].off = 0
    <3>1. Len(hook'[h].copy) \in Nat
      BY <1>f DEF Hook
    <3> QED BY <2>3, <3>1
  <2>4. CASE Copy(h) /\ Becomes(h, "offset", hook[h].size, log, hook[h].off)
    BY <1>c, <2>3, <2>4 DEF Copy, Becomes
  <2>5. CASE Seek(h) /\ OffsetFor(h) < Len(hook[h].copy)
             /\ Becomes(h, "post", hook[h].size, hook[h].copy, OffsetFor(h))
    <3>1. OffsetFor(h) \in Nat
      BY <1>a DEF OffsetFor
    <3> QED BY <1>b, <2>5, <3>1 DEF Becomes
  <2>6. CASE Post(h) /\ Becomes(h, "truncate", hook[h].size, hook[h].copy, BatchEnd(h))
    <3>1. BatchEnd(h) =< Len(hook[h].copy)
      BY <1>b, SizesAssumption DEF BatchEnd
    <3> QED BY <2>6, <3>1 DEF Becomes
  <2>7. CASE AppendEvent(h) /\ hook' = hook
    BY <1>d, <2>7
  <2>8. CASE TruncateState(h) /\ Becomes(h, "write", hook[h].size, hook[h].copy, hook[h].off)
    BY <2>2, <2>8 DEF TruncateState, At, Becomes
  <2>9. CASE WriteState(h) /\ Becomes(h, "post", hook[h].size, hook[h].copy, hook[h].off)
    BY <2>2, <2>9 DEF WriteState, At, Becomes
  <2>10. CASE Succeeds(h) \/ Ends(h)
    BY <2>1, <2>10, IdleType DEF Succeeds, Ends, Becomes
  <2>11. CASE Becomes(h, "clear", hook[h].size, hook[h].copy, hook[h].off)
    BY <2>1, <2>11 DEF Becomes
  <2>12. CASE (\E r \in 1..runs : Upload(h, r)) /\ Begins(h, "copy", FALSE, Len(log))
    BY <2>3, <2>12 DEF Begins
  <2>13. CASE SessionStart(h) /\ Begins(h, IF log = <<>> THEN "clear" ELSE "copy", TRUE, Len(log))
    BY <2>3, <2>13 DEF Begins
  <2> HIDE DEF OffType
  <2> QED BY <1>e, <2>4, <2>5, <2>6, <2>7, <2>8, <2>9, <2>10, <2>11, <2>12, <2>13 DEF HookMoves
<1>9. \A g \in Hooks : hook'[g].off =< Len(hook'[g].copy) \/ hook'[g].pc \in {"idle", "clear", "remove"}
  BY <1>8, <1>d, <1>g
<1> QED BY <1>1, <1>3, <1>4, <1>5, <1>6, <1>7, <1>9, <1>f DEF TypeOK

LEMMA TypeInit == Init => TypeOK /\ LengthsInv
<1> SUFFICES ASSUME Init PROVE TypeOK /\ LengthsInv
  OBVIOUS
<1>1. /\ <<>> \in Seq(Events) /\ Len(<<>>) = 0 /\ 1 \in 1..(MaxEvents + 1) /\ 1 \in Runs
      /\ 0 \in 0..MaxEvents /\ 0 \in 0..MaxFaults /\ 0 \in 0..MaxCrashes
  BY BoundsAssumption DEF Runs
<1>2. log = <<>> /\ next = 1 /\ file = "whole" /\ sent = {} /\ aside = {} /\ runs = 1 /\ faults = 0 /\ crashes = 0
  BY DEF Init
<1>3. state \in [run : Runs \cup {0}, size : 0..MaxEvents]
  BY <1>1 DEF Init, NoState
<1>4. hook \in [Hooks -> Hook] /\ \A h \in Hooks : hook[h] = Idle
  BY IdleType DEF Init
<1>5. LengthsInv
  BY <1>1, <1>2, <1>4, IdleType DEF LengthsInv, At
<1>6. \A h \in Hooks : hook[h].pc = "idle"
  BY <1>4, IdleType
<1> HIDE DEF Init, Events
<1> QED BY <1>1, <1>2, <1>3, <1>4, <1>5, <1>6 DEF TypeOK

LEMMA TypeStutter ==
  ASSUME TypeOK, LengthsInv, UNCHANGED vars
  PROVE  TypeOK' /\ LengthsInv'
BY DEF TypeOK, LengthsInv, vars, At

\* The types are kept by every sequence of steps of any hooks, killed ones included.
THEOREM TypeCorrect == Spec => []TypeOK
<1>1. Init => TypeOK /\ LengthsInv
  BY TypeInit
<1>2. TypeOK /\ LengthsInv /\ [Next]_vars => TypeOK' /\ LengthsInv'
  BY TypeStep, TypeStutter, NextIsStep
<1> QED BY <1>1, <1>2, PTL DEF Spec

-----------------------------------------------------------------------------
(* A calm session start.                                                    *)

LEMMA CalmStep ==
  ASSUME CalmStarts, TypeOK, CalmInv, NEW h \in Hooks, Step(h)
  PROVE  CalmInv'
<1>a. HookMoves(h)
  BY HookStep
<1>b. \A g \in Hooks \ {h} : hook'[g] = hook[g]
  BY <1>a DEF HookMoves, Becomes, Begins, Ends, Succeeds
<1>c. \A g \in Hooks : hook[g].reset \in BOOLEAN
  BY DEF TypeOK, Hook
<1>1. hook'[h].pc = "idle" => hook'[h] = Idle
  BY <1>a DEF HookMoves, Becomes, Begins, Ends, Succeeds, CalmInv, At, AppendEvent
<1>2. hook'[h].reset => hook[h].reset \/ \A g \in Hooks : hook[g].pc = "idle"
  <2>1. hook'[h].reset => hook[h].reset \/ SessionStart(h)
    BY <1>a, <1>c, IdleType DEF HookMoves, Becomes, Begins, Ends, Succeeds
  <2> QED BY <2>1 DEF SessionStart, At
<1>3. hook[h].pc = "idle" => hook'[h].pc = "idle" \/ \A g \in Hooks : ~hook[g].reset
  <2>1. CASE hook[h].pc = "idle"
    <3>1. AppendEvent(h) \/ SessionStart(h) \/ \E r \in 1..runs : Upload(h, r)
      BY <2>1 DEF Step, Work, Copy, Seek, Post, PostFails, TruncateState, WriteState, RemoveLog, ClearState, Crash, At
    <3>2. CASE SessionStart(h)
      BY <3>2, IdleType DEF SessionStart, CalmInv
    <3>3. CASE AppendEvent(h)
      BY <2>1, <3>3 DEF AppendEvent
    <3>4. CASE \E r \in 1..runs : Upload(h, r)
      BY <3>4 DEF Upload
    <3> QED BY <3>1, <3>2, <3>3, <3>4
  <2> QED BY <2>1
<1>4. \A g \in Hooks : hook'[g].pc = "idle" => hook'[g] = Idle
  BY <1>1, <1>b DEF CalmInv, At
<1>5. ASSUME NEW g \in Hooks, NEW k \in Hooks, hook'[g].reset, g # k
      PROVE  hook'[k].pc = "idle"
  <2>1. CASE g = h
    BY <1>5, <1>2, <1>b, <2>1 DEF CalmInv, At
  <2>2. CASE g # h /\ k # h
    BY <1>5, <1>b, <2>2 DEF CalmInv, At
  <2>3. CASE k = h
    BY <1>5, <1>3, <1>b, <2>3 DEF CalmInv, At
  <2> QED BY <2>1, <2>2, <2>3
<1> QED BY <1>4, <1>5 DEF CalmInv, At

LEMMA CalmInit == Init => CalmInv
BY IdleType DEF Init, CalmInv, At

LEMMA CalmStutter == CalmInv /\ UNCHANGED vars => CalmInv'
BY DEF CalmInv, vars, At

-----------------------------------------------------------------------------
(* The offset.                                                              *)

\* How a step changes the log, what was sent and the state file: the log grows,
\* or a session start empties it.
FilesMove(h) ==
  \/ AppendEvent(h) /\ log' = Append(log, next) /\ sent' = sent /\ state' = state
  \/ PostFails(h) /\ hook[h].reset /\ log' = <<>>
  \/ RemoveLog(h) /\ log' = <<>>
  \/ WriteState(h) /\ log' = log /\ sent' = sent /\ state'.size = hook[h].off
  \/ ClearState(h) /\ log' = log /\ sent' = sent /\ state'.size = 0
  \/ ~AppendEvent(h) /\ log' = log /\ sent \subseteq sent' /\ state' = state

LEMMA FilesStep ==
  ASSUME CalmStarts, NeverRotates, TypeOK, LengthsInv, NEW h \in Hooks, Step(h)
  PROVE  FilesMove(h)
<1> USE DEF FilesMove
<1>1. CASE AppendEvent(h)
  <2>1. ~(Len(log) >= RotateAt)
    BY <1>1, SizesAssumption, BoundsAssumption DEF AppendEvent, LengthsInv, NeverRotates, TypeOK, Events
  <2> QED BY <1>1, <2>1 DEF AppendEvent
<1>2. CASE WriteState(h)
  BY <1>2 DEF WriteState
<1>3. CASE ClearState(h)
  BY <1>3 DEF ClearState, NoState
<1>4. CASE PostFails(h)
  <2>1. ~AppendEvent(h)
    BY <1>4 DEF PostFails, AppendEvent, At
  <2> QED BY <1>4, <2>1 DEF PostFails
<1>5. CASE RemoveLog(h)
  BY <1>5 DEF RemoveLog
<1>6. CASE ~AppendEvent(h) /\ ~WriteState(h) /\ ~ClearState(h) /\ ~PostFails(h) /\ ~RemoveLog(h)
  BY <1>6 DEF Step, Work, SessionStart, Upload, Copy, Seek, Post, TruncateState, Crash
<1> QED BY <1>1, <1>2, <1>3, <1>4, <1>5, <1>6

\* What was sent stays sent.
LEMMA SentToGrows ==
  ASSUME sent \subseteq sent', NEW s, NEW n, SentTo(s, n)
  PROVE  n =< Len(s) /\ \A k \in 1..n : s[k] \in sent'
BY DEF SentTo

\* The other hooks' copies are not disturbed.
LEMMA OthersStep ==
  ASSUME CalmStarts, NeverRotates, TypeOK, LengthsInv, CalmInv, UploadInv,
         NEW h \in Hooks, Step(h), NEW g \in Hooks, hook'[g] = hook[g], g # h \/ AppendEvent(h)
  PROVE  CopyInv(g)'
<1>a. /\ log \in Seq(Events) /\ Len(log) \in Nat /\ hook[g].size \in Nat /\ hook[g].copy \in Seq(Events)
      /\ hook[g].reset \in BOOLEAN
  BY DEF TypeOK, Hook
<1>b. CopyInv(g)
  BY DEF UploadInv
<1>c. FilesMove(h)
  BY FilesStep
<1>1. CASE log' = Append(log, next) /\ sent' = sent
  <2>1. Len(log') = Len(log) + 1 /\ \A k \in DOMAIN log : log'[k] = log[k]
    BY <1>a, <1>1
  <2>2. Prefix(hook[g].copy, log) => Prefix(hook'[g].copy, log')
    BY <1>a, <2>1 DEF Prefix
  <2>3. hook[g].size =< Len(log) => hook'[g].size =< Len(log')
    BY <1>a, <2>1
  <2>4. SentTo(log, hook[g].size) => SentTo(log, hook[g].size)'
    BY <1>a, <1>1, <2>1 DEF SentTo
  <2>5. SentTo(hook[g].copy, hook[g].off) => SentTo(hook[g].copy, hook[g].off)'
    BY <1>1 DEF SentTo
  <2> QED BY <1>b, <2>2, <2>3, <2>4, <2>5 DEF CopyInv
<1>2. CASE log' = log /\ sent \subseteq sent'
  <2>1. SentTo(hook[g].copy, hook[g].off) => SentTo(hook[g].copy, hook[g].off)'
    BY <1>2 DEF SentTo
  <2>2. SentTo(log, hook[g].size) => SentTo(log, hook[g].size)'
    BY <1>2 DEF SentTo
  <2>3. Prefix(hook[g].copy, log) = Prefix(hook'[g].copy, log')
    BY <1>2
  <2> QED BY <1>b, <1>2, <2>1, <2>2, <2>3 DEF CopyInv
<1>3. CASE log' = <<>> /\ g # h /\ hook[h].reset
  <2>1. hook[g].pc = "idle"
    BY <1>3 DEF CalmInv, At
  <2> QED BY <2>1 DEF CopyInv
<1>4. RemoveLog(h) => hook[h].reset
  BY DEF UploadInv, CopyInv, RemoveLog, At
<1>5. ~AppendEvent(h) => g # h
  OBVIOUS
<1>6. PostFails(h) \/ RemoveLog(h) => ~AppendEvent(h)
  BY DEF PostFails, RemoveLog, AppendEvent, At
<1> QED BY <1>c, <1>1, <1>2, <1>3, <1>4, <1>5, <1>6 DEF FilesMove

\* Nobody has removed the log while an upload is at its steps.
LEMMA NobodyClears ==
  ASSUME CalmInv, UploadInv, NEW h \in Hooks, hook[h].pc \notin {"idle", "clear"}
  PROVE  SentTo(log, state.size)
<1>1. ASSUME NEW g \in Hooks, hook[g].pc = "clear" PROVE FALSE
  BY <1>1 DEF CalmInv, UploadInv, CopyInv, At
<1> QED BY <1>1 DEF UploadInv, StateInv, At

\* A hook's own copy and offset.
LEMMA OwnStep ==
  ASSUME CalmStarts, NeverRotates, TypeOK, LengthsInv, CalmInv, UploadInv,
         NEW h \in Hooks, Step(h)
  PROVE  CopyInv(h)'
<1>a. /\ log \in Seq(Events) /\ Len(log) \in Nat /\ hook[h].size \in Nat /\ hook[h].copy \in Seq(Events)
      /\ hook[h].reset \in BOOLEAN /\ hook[h].off \in Nat /\ Len(hook[h].copy) \in Nat
      /\ state.size \in Nat /\ (log # <<>> => Len(log) > 0)
  BY DEF TypeOK, Hook
<1>b. CopyInv(h)
  BY DEF UploadInv
<1>c. FilesMove(h)
  BY FilesStep
<1>d. HookMoves(h)
  BY HookStep
<1>e. hook[h].pc \notin {"idle", "clear", "remove"} => hook[h].off =< Len(hook[h].copy)
  BY DEF TypeOK
<1> DEFINE k == hook[h]
           Same(pc) == Becomes(h, pc, hook[h].size, hook[h].copy, hook[h].off)
<1>1. CASE AppendEvent(h) /\ hook' = hook
  BY <1>1, OthersStep
<1>2. CASE Ends(h)
  <2>1. hook'[h].pc = "idle"
    BY <1>2, IdleType DEF Ends
  <2> QED BY <2>1 DEF CopyInv
<1>3. CASE (\E r \in 1..runs : Upload(h, r)) /\ Begins(h, "copy", FALSE, Len(log))
  <2>1. log' = log /\ Len(log) > 0
    BY <1>3, <1>a DEF Upload
  <2> QED BY <1>3, <1>a, <2>1 DEF Begins, CopyInv
<1>4. CASE SessionStart(h) /\ Begins(h, IF log = <<>> THEN "clear" ELSE "copy", TRUE, Len(log))
  <2>1. log' = log
    BY <1>4 DEF SessionStart
  <2> QED BY <1>4, <1>a, <2>1 DEF Begins, CopyInv
<1>5. CASE Copy(h) /\ log # <<>> /\ Becomes(h, "offset", k.size, log, k.off)
  <2>1. log' = log /\ k.pc = "copy"
    BY <1>5 DEF Copy, At
  <2>2. Prefix(log, log)
    BY <1>a DEF Prefix
  <2> QED BY <1>5, <1>a, <1>b, <2>1, <2>2 DEF Becomes, CopyInv
<1>6. CASE Copy(h) /\ log = <<>> /\ k.reset /\ Same("clear")
  <2>1. log' = log
    BY <1>6 DEF Copy
  <2> QED BY <1>6, <2>1 DEF Becomes, CopyInv
<1>7. CASE Seek(h) /\ OffsetFor(h) < Len(k.copy) /\ Becomes(h, "post", k.size, k.copy, OffsetFor(h))
  <2>1. log' = log /\ sent' = sent /\ k.pc = "offset"
    BY <1>7 DEF Seek, At
  <2>2. SentTo(log, state.size)
    BY <2>1, NobodyClears
  <2>3. SentTo(k.copy, OffsetFor(h))
    <3>1. CASE OffsetFor(h) = 0
      BY <1>a, <3>1 DEF SentTo
    <3>2. CASE OffsetFor(h) # 0
      <4>1. OffsetFor(h) = state.size
        BY <3>2 DEF OffsetFor
      <4>2. \A i \in 1..state.size : k.copy[i] = log[i]
        BY <1>7, <1>a, <1>b, <2>1, <4>1 DEF CopyInv, Prefix
      <4> QED BY <1>7, <1>a, <2>2, <4>1, <4>2 DEF SentTo
    <3> QED BY <3>1, <3>2
  <2>4. SentTo(hook[h].copy, hook[h].off)'
    BY <1>7, <2>1, <2>3 DEF SentTo, Becomes
  <2>5. Prefix(hook'[h].copy, log')
    BY <1>7, <1>b, <2>1 DEF CopyInv, Becomes
  <2> QED BY <1>7, <1>b, <2>1, <2>4, <2>5 DEF Becomes, CopyInv
<1>8. CASE Seek(h) /\ (OffsetFor(h) >= k.size \/ OffsetFor(h) >= Len(k.copy)) /\ k.reset /\ Same("remove")
  <2>1. log' = log /\ sent' = sent /\ k.pc = "offset"
    BY <1>8 DEF Seek, At
  <2>2. SentTo(log, state.size)
    BY <2>1, NobodyClears
  <2>3. k.size =< Len(log) /\ k.size > 0 /\ k.size =< Len(k.copy)
    BY <1>8, <1>b, <2>1 DEF CopyInv
  <2>4. OffsetFor(h) >= k.size /\ OffsetFor(h) \in Nat
    BY <1>8, <1>a, <2>3 DEF OffsetFor
  <2>5. state.size = k.size
    BY <1>a, <2>3, <2>4 DEF OffsetFor
  <2>6. SentTo(log, k.size)
    BY <2>2, <2>5
  <2>7. SentTo(log, hook[h].size)' /\ hook'[h].size = k.size
    BY <1>8, <2>1, <2>6 DEF SentTo, Becomes
  <2> QED BY <1>8, <2>7 DEF Becomes, CopyInv
<1>9. CASE Post(h) /\ Becomes(h, "truncate", k.size, k.copy, BatchEnd(h))
  <2>1. log' = log /\ sent' = sent \cup Batch(h) /\ k.pc = "post"
    BY <1>9 DEF Post, At
  <2>2. BatchEnd(h) =< Len(k.copy) /\ BatchEnd(h) \in Nat
    BY <1>a, SizesAssumption DEF BatchEnd
  <2>3. \A i \in 1..BatchEnd(h) : k.copy[i] \in sent'
    <3>1. SUFFICES ASSUME NEW i \in 1..BatchEnd(h) PROVE k.copy[i] \in sent'
      OBVIOUS
    <3>2. CASE i \in 1..k.off
      BY <1>b, <2>1, <3>2 DEF CopyInv, SentTo
    <3>3. CASE ~(i \in 1..k.off)
      <4>1. i \in (k.off + 1)..BatchEnd(h) \cap DOMAIN k.copy
        BY <1>a, <2>2, <3>3
      <4> QED BY <2>1, <4>1 DEF Batch
    <3> QED BY <3>2, <3>3
  <2>4. SentTo(hook[h].copy, hook[h].off)'
    BY <1>9, <2>2, <2>3 DEF SentTo, Becomes
  <2>5. Prefix(hook'[h].copy, log')
    BY <1>9, <1>b, <2>1 DEF CopyInv, Becomes
  <2> QED BY <1>9, <1>b, <2>1, <2>4, <2>5 DEF Becomes, CopyInv
<1>10. CASE PostFails(h) /\ k.reset /\ Same("clear")
  <2>1. log' = <<>>
    BY <1>10 DEF PostFails
  <2> QED BY <1>10, <2>1 DEF Becomes, CopyInv
<1>11. CASE (TruncateState(h) /\ Same("write")) \/ (WriteState(h) /\ Same("post"))
  <2>1. log' = log /\ sent' = sent /\ k.pc \in {"truncate", "write"}
    BY <1>11 DEF TruncateState, WriteState, At
  <2>2. hook'[h].pc \in {"write", "post"} /\ hook'[h].copy = k.copy /\ hook'[h].off = k.off
        /\ hook'[h].size = k.size /\ hook'[h].reset = k.reset
    BY <1>11 DEF Becomes
  <2>3. SentTo(hook[h].copy, hook[h].off)'
    BY <1>b, <2>1, <2>2 DEF SentTo, CopyInv
  <2>4. Prefix(hook'[h].copy, log')
    BY <1>b, <2>1, <2>2 DEF CopyInv
  <2> QED BY <1>b, <2>1, <2>2, <2>3, <2>4 DEF CopyInv
<1>12. CASE WriteState(h) /\ k.off >= Len(k.copy) /\ k.reset /\ Same("remove")
  <2>1. log' = log /\ sent' = sent /\ k.pc = "write"
    BY <1>12 DEF WriteState, At
  <2>2. Prefix(k.copy, log) /\ k.off = Len(k.copy) /\ SentTo(k.copy, k.off) /\ k.size =< Len(k.copy)
        /\ k.size =< Len(log)
    BY <1>12, <1>a, <1>b, <1>e, <2>1 DEF CopyInv
  <2>3. \A i \in 1..k.size : i \in DOMAIN k.copy /\ i \in 1..k.off
    BY <1>a, <2>2
  <2>4. SentTo(log, k.size)
    BY <2>2, <2>3 DEF SentTo, Prefix
  <2>5. SentTo(log, hook[h].size)' /\ hook'[h].size = k.size
    BY <1>12, <2>1, <2>4 DEF SentTo, Becomes
  <2> QED BY <1>12, <2>5 DEF Becomes, CopyInv
<1>13. CASE RemoveLog(h) /\ Same("clear")
  <2>1. log' = <<>> /\ k.reset
    BY <1>13, <1>b DEF RemoveLog, At, CopyInv
  <2> QED BY <1>13, <2>1 DEF Becomes, CopyInv
<1> HIDE DEF k, Same
<1>14. HookMoves(h) => \/ AppendEvent(h) /\ hook' = hook
                       \/ Ends(h)
                       \/ (\E r \in 1..runs : Upload(h, r)) /\ Begins(h, "copy", FALSE, Len(log))
                       \/ SessionStart(h) /\ Begins(h, IF log = <<>> THEN "clear" ELSE "copy", TRUE, Len(log))
                       \/ Copy(h) /\ log # <<>> /\ Becomes(h, "offset", k.size, log, k.off)
                       \/ Copy(h) /\ log = <<>> /\ k.reset /\ Same("clear")
                       \/ Seek(h) /\ OffsetFor(h) < Len(k.copy) /\ Becomes(h, "post", k.size, k.copy, OffsetFor(h))
                       \/ Seek(h) /\ (OffsetFor(h) >= k.size \/ OffsetFor(h) >= Len(k.copy)) /\ k.reset /\ Same("remove")
                       \/ Post(h) /\ Becomes(h, "truncate", k.size, k.copy, BatchEnd(h))
                       \/ PostFails(h) /\ k.reset /\ Same("clear")
                       \/ (TruncateState(h) /\ Same("write")) \/ (WriteState(h) /\ Same("post"))
                       \/ WriteState(h) /\ k.off >= Len(k.copy) /\ k.reset /\ Same("remove")
                       \/ RemoveLog(h) /\ Same("clear")
  BY DEF HookMoves, Succeeds, k, Same
<1> QED BY <1>d, <1>1, <1>2, <1>3, <1>4, <1>5, <1>6, <1>7, <1>8, <1>9, <1>10, <1>11, <1>12, <1>13, <1>14

LEMMA UploadStep ==
  ASSUME CalmStarts, NeverRotates, TypeOK, LengthsInv, CalmInv, UploadInv, NEW h \in Hooks, Step(h)
  PROVE  UploadInv'
<1>a. FilesMove(h)
  BY FilesStep
<1>b. HookMoves(h)
  BY HookStep
<1>c. \A g \in Hooks \ {h} : hook'[g] = hook[g]
  BY <1>b DEF HookMoves, Becomes, Begins, Ends, Succeeds
<1>d. /\ log \in Seq(Events) /\ Len(log) \in Nat /\ state.size \in Nat /\ hook[h].copy \in Seq(Events)
      /\ hook[h].off \in Nat
  BY DEF TypeOK, Hook
<1>1. \A g \in Hooks : CopyInv(g)'
  BY <1>c, OthersStep, OwnStep
<1>2. ASSUME NEW g \in Hooks, At(g, "clear") PROVE ClearState(h) \/ At(g, "clear")'
  <2>1. CASE g # h
    BY <1>2, <1>c, <2>1 DEF At
  <2>2. CASE g = h
    BY <1>2, <2>2 DEF Step, Work, AppendEvent, SessionStart, Upload, Copy, Seek, Post, PostFails, TruncateState,
            WriteState, RemoveLog, Crash, At, UploadInv, CopyInv
  <2> QED BY <2>1, <2>2
<1>3. StateInv'
  <2>1. SUFFICES ASSUME \A g \in Hooks : ~At(g, "clear")' PROVE SentTo(log, state.size)'
    BY DEF StateInv
  <2>2. CASE ClearState(h)
    <3>1. state'.size = 0 /\ log' = log
      BY <2>2 DEF ClearState, NoState
    <3> QED BY <1>d, <3>1 DEF SentTo
  <2>3. CASE ~ClearState(h)
    <3>1. SentTo(log, state.size)
      BY <1>2, <2>1, <2>3 DEF UploadInv, StateInv
    <3>2. CASE log' = Append(log, next) /\ sent' = sent /\ state' = state
      BY <1>d, <3>1, <3>2 DEF SentTo
    <3>3. CASE log' = log /\ sent \subseteq sent' /\ state' = state
      BY <3>1, <3>3 DEF SentTo
    <3>4. CASE WriteState(h) /\ log' = log /\ sent' = sent /\ state'.size = hook[h].off
      <4>1. Prefix(hook[h].copy, log) /\ SentTo(hook[h].copy, hook[h].off)
        BY <3>4 DEF WriteState, UploadInv, CopyInv, At
      <4> QED BY <1>d, <3>4, <4>1 DEF SentTo, Prefix
    <3>5. CASE RemoveLog(h) \/ (PostFails(h) /\ hook[h].reset)
      <4>1. Goto(h, "clear") /\ hook \in [Hooks -> Hook]
        BY <3>5 DEF RemoveLog, PostFails, TypeOK
      <4>2. hook'[h].pc = "clear"
        BY <4>1, GotoBecomes DEF Becomes, Steps
      <4> QED BY <2>1, <4>2 DEF At
    <3> QED BY <1>a, <2>3, <3>2, <3>3, <3>4, <3>5 DEF FilesMove
  <2> QED BY <2>2, <2>3
<1> QED BY <1>1, <1>3 DEF UploadInv

LEMMA UploadInit == Init => UploadInv
<1> SUFFICES ASSUME Init PROVE UploadInv
  OBVIOUS
<1>1. \A h \in Hooks : hook[h].pc = "idle"
  BY IdleType DEF Init
<1>2. SentTo(log, state.size)
  BY DEF Init, NoState, SentTo
<1> QED BY <1>1, <1>2 DEF UploadInv, StateInv, CopyInv

LEMMA UploadStutter == UploadInv /\ UNCHANGED vars => UploadInv'
<1> SUFFICES ASSUME UploadInv, UNCHANGED vars PROVE UploadInv'
  OBVIOUS
<1>1. log' = log /\ hook' = hook /\ sent' = sent /\ state' = state
  BY DEF vars
<1>2. ASSUME NEW h \in Hooks PROVE CopyInv(h)'
  <2>1. CopyInv(h)
    BY DEF UploadInv
  <2> QED BY <1>1, <2>1 DEF CopyInv, SentTo, Prefix
<1>3. StateInv'
  BY <1>1 DEF UploadInv, StateInv, SentTo, At
<1> QED BY <1>2, <1>3 DEF UploadInv

InductiveInv == TypeOK /\ LengthsInv /\ CalmInv /\ UploadInv

\* While session starts are calm and the log is not rotated, the invariant holds
\* of every state.
LEMMA Inductive ==
  ASSUME CalmStarts, NeverRotates
  PROVE  Spec => []InductiveInv
<1>1. Init => InductiveInv
  BY TypeInit, CalmInit, UploadInit DEF InductiveInv
<1>2. InductiveInv /\ [Next]_vars => InductiveInv'
  <2>1. CASE Next
    BY <2>1, NextIsStep, TypeStep, CalmStep, UploadStep DEF InductiveInv
  <2>2. CASE UNCHANGED vars
    BY <2>2, TypeStutter, CalmStutter, UploadStutter DEF InductiveInv
  <2> QED BY <2>1, <2>2
<1> QED BY <1>1, <1>2, PTL DEF Spec

\* While session starts are calm and the log is not rotated, every line that
\* the offset in the state file skips was taken by ingest.
THEOREM OffsetCorrect ==
  ASSUME CalmStarts, NeverRotates
  PROVE  Spec => []OffsetIsSent
<1>1. ASSUME InductiveInv PROVE OffsetIsSent
  <2>1. SUFFICES ASSUME state.size =< Len(log), \A h \in Hooks : ~hook[h].reset
                 PROVE  Lines(SubSeq(log, 1, state.size)) \subseteq sent
    BY DEF OffsetIsSent
  <2>2. \A h \in Hooks : ~At(h, "clear")
    BY <1>1, <2>1 DEF InductiveInv, UploadInv, CopyInv, At
  <2>3. SentTo(log, state.size)
    BY <1>1, <2>2 DEF InductiveInv, UploadInv, StateInv
  <2>4. log \in Seq(Events) /\ state.size \in Nat
    BY <1>1 DEF InductiveInv, TypeOK
  <2>5. \A i \in DOMAIN SubSeq(log, 1, state.size) : SubSeq(log, 1, state.size)[i] \in sent
    BY <2>1, <2>3, <2>4 DEF SentTo
  <2> QED BY <2>5 DEF Lines
<1> QED BY <1>1, Inductive, PTL

\* The lines that leave the log at a step of a hook.
LEMMA DropStep ==
  ASSUME InductiveInv, NEW h \in Hooks, Step(h), NEW i \in DOMAIN log
  PROVE  \/ log[i] \in Lines(log)' \cup sent' \cup aside'
         \/ \E g \in Hooks : At(g, "remove") /\ hook[g].reset /\ i > hook[g].size
<1>a. log \in Seq(Events) /\ hook[h].size \in Nat /\ i \in Nat /\ i > 0
  BY DEF InductiveInv, TypeOK, Hook
<1>1. CASE AppendEvent(h)
  <2>1. \A k \in DOMAIN log : k \in DOMAIN Append(log, next) /\ Append(log, next)[k] = log[k]
    BY <1>a
  <2> QED BY <1>1, <2>1 DEF AppendEvent, Lines
<1>2. CASE RemoveLog(h)
  <2>1. At(h, "remove") /\ hook[h].reset /\ SentTo(log, hook[h].size) /\ sent' = sent
    BY <1>2 DEF InductiveInv, UploadInv, CopyInv, RemoveLog, At
  <2>2. CASE i =< hook[h].size
    BY <1>a, <2>1, <2>2 DEF SentTo
  <2>3. CASE ~(i =< hook[h].size)
    BY <1>a, <2>1, <2>3
  <2> QED BY <2>2, <2>3
<1>3. CASE PostFails(h)
  BY <1>3 DEF PostFails, Lines
<1>4. CASE ~AppendEvent(h) /\ ~RemoveLog(h) /\ ~PostFails(h)
  <2>1. log' = log
    BY <1>4 DEF Step, Work, SessionStart, Upload, Copy, Seek, Post, TruncateState, WriteState, ClearState, Crash
  <2> QED BY <2>1 DEF Lines
<1> QED BY <1>1, <1>2, <1>3, <1>4

\* Under the same two conditions, a line leaves the log only when ingest took it,
\* into a file that stays, or when another hook appended it after a session start
\* had taken the size of the log that it removes (NothingDropped).
THEOREM DroppedCorrect ==
  ASSUME CalmStarts, NeverRotates
  PROVE  Spec => NothingDropped
<1>1. InductiveInv /\ [Next]_vars =>
        [\A i \in DOMAIN log :
           \/ log[i] \in Lines(log)' \cup sent' \cup aside'
           \/ \E h \in Hooks : At(h, "remove") /\ hook[h].reset /\ i > hook[h].size]_vars
  BY DropStep, NextIsStep
<1> QED BY <1>1, Inductive, PTL DEF Spec, NothingDropped

=============================================================================
