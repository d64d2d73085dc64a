---------------------------- MODULE McpProxyProofs ----------------------------
(***************************************************************************)
(* Proofs about the MCP proxy, for any messages of the agent, any scopes    *)
(* and any number of tokens, changes and faults.                           *)
(***************************************************************************)
EXTENDS McpProxy, TLAPS

LEMMA MsgsInt == Msgs \subseteq Nat \ {0} /\ Len(Script) \in Nat /\ Msgs = 1..Len(Script)
BY ScriptAssumption DEF Msgs

\* Only the task of m changes: it goes to the step pc, in session sid.
Becomes(m, pc, sid) ==
  /\ task' \in [Msgs -> Task] /\ \A n \in Msgs \ {m} : task'[n] = task[n]
  /\ task'[m].pc = pc /\ task'[m].sid = sid

\* The ways in which a relay changes its task.
LEMMA TaskBecomes ==
  ASSUME task \in [Msgs -> Task], NEW m \in Msgs, NEW t \in Task, task' = [task EXCEPT ![m] = t]
  PROVE  Becomes(m, t.pc, t.sid)
BY DEF Becomes

LEMMA GotoType ==
  ASSUME task \in [Msgs -> Task], NEW m \in Msgs, NEW pc \in Steps,
         Goto(m, pc)
  PROVE  Becomes(m, pc, task[m].sid)
<1> DEFINE t == [task[m] EXCEPT !.pc = pc]
<1>1. task[m] \in Task
  OBVIOUS
<1>2. t \in Task
  BY <1>1 DEF Task, Sids
<1>3. t.pc = pc /\ t.sid = task[m].sid
  BY <1>1 DEF Task
<1>4. task' = [task EXCEPT ![m] = t]
  BY DEF Goto
<1> HIDE DEF t
<1>5. Becomes(m, t.pc, t.sid)
  BY <1>2, <1>4, TaskBecomes
<1> QED BY <1>3, <1>5 DEF Becomes

LEMMA StartType ==
  ASSUME task \in [Msgs -> Task], NEW m \in Msgs, NEW pc \in Steps,
         NEW tok \in 0..MaxTokens, NEW sc \in Scopes \cup {NoScope},
         task' = [task EXCEPT ![m].tok = tok, ![m].scope = sc, ![m].sid = 0, ![m].pc = pc]
  PROVE  Becomes(m, pc, 0)
<1> DEFINE t == [task[m] EXCEPT !.tok = tok, !.scope = sc, !.sid = 0, !.pc = pc]
<1>1. task[m] \in Task
  OBVIOUS
<1>2. t \in Task
  BY <1>1 DEF Task, Sids
<1>3. t.pc = pc /\ t.sid = 0
  BY <1>1 DEF Task
<1>4. task' = [task EXCEPT ![m] = t]
  OBVIOUS
<1> HIDE DEF t
<1>5. Becomes(m, t.pc, t.sid)
  BY <1>2, <1>4, TaskBecomes
<1> QED BY <1>3, <1>5 DEF Becomes

LEMMA PostType ==
  ASSUME task \in [Msgs -> Task], NEW m \in Msgs, NEW sid \in Nat, NEW g \in Nat,
         task' = [task EXCEPT ![m].pc = "post", ![m].sid = sid, ![m].gen = g]
  PROVE  Becomes(m, "post", sid)
<1> DEFINE t == [task[m] EXCEPT !.pc = "post", !.sid = sid, !.gen = g]
<1>1. task[m] \in Task
  OBVIOUS
<1>2. t \in Task
  BY <1>1 DEF Task, Sids, Steps
<1>3. t.pc = "post" /\ t.sid = sid
  BY <1>1 DEF Task
<1>4. task' = [task EXCEPT ![m] = t]
  OBVIOUS
<1> HIDE DEF t
<1>5. Becomes(m, t.pc, t.sid)
  BY <1>2, <1>4, TaskBecomes
<1> QED BY <1>3, <1>5 DEF Becomes

LEMMA OpenType ==
  ASSUME task \in [Msgs -> Task], NEW m \in Msgs, NEW sid \in Nat,
         task' = [task EXCEPT ![m].pc = "adopt", ![m].sid = sid]
  PROVE  Becomes(m, "adopt", sid)
<1> DEFINE t == [task[m] EXCEPT !.pc = "adopt", !.sid = sid]
<1>1. task[m] \in Task
  OBVIOUS
<1>2. t \in Task
  BY <1>1 DEF Task, Sids, Steps
<1>3. t.pc = "adopt" /\ t.sid = sid
  BY <1>1 DEF Task
<1>4. task' = [task EXCEPT ![m] = t]
  OBVIOUS
<1> HIDE DEF t
<1>5. Becomes(m, t.pc, t.sid)
  BY <1>2, <1>4, TaskBecomes
<1> QED BY <1>3, <1>5 DEF Becomes

LEMMA RefusedType ==
  ASSUME task \in [Msgs -> Task], NEW m \in Msgs, NEW v \in Status,
         task' = [task EXCEPT ![m].pc = "refused", ![m].status = v]
  PROVE  Becomes(m, "refused", task[m].sid)
<1> DEFINE t == [task[m] EXCEPT !.pc = "refused", !.status = v]
<1>1. task[m] \in Task
  OBVIOUS
<1>2. t \in Task
  BY <1>1 DEF Task, Sids, Steps
<1>3. t.pc = "refused" /\ t.sid = task[m].sid
  BY <1>1 DEF Task
<1>4. task' = [task EXCEPT ![m] = t]
  OBVIOUS
<1> HIDE DEF t
<1>5. Becomes(m, t.pc, t.sid)
  BY <1>2, <1>4, TaskBecomes
<1> QED BY <1>3, <1>5 DEF Becomes

LEMMA ReopenRefusedType ==
  ASSUME task \in [Msgs -> Task], NEW m \in Msgs, NEW v \in Status,
         task' = [task EXCEPT ![m].pc = "refused", ![m].status = v, ![m].sid = 0]
  PROVE  Becomes(m, "refused", 0)
<1> DEFINE t == [task[m] EXCEPT !.pc = "refused", !.status = v, !.sid = 0]
<1>1. task[m] \in Task
  OBVIOUS
<1>2. t \in Task
  BY <1>1 DEF Task, Sids, Steps
<1>3. t.pc = "refused" /\ t.sid = 0
  BY <1>1 DEF Task
<1>4. task' = [task EXCEPT ![m] = t]
  OBVIOUS
<1> HIDE DEF t
<1>5. Becomes(m, t.pc, t.sid)
  BY <1>2, <1>4, TaskBecomes
<1> QED BY <1>3, <1>5 DEF Becomes

LEMMA AgainType ==
  ASSUME task \in [Msgs -> Task], NEW m \in Msgs, At(m, "refused"), Again(m)
  PROVE  \E pc \in {"invalidate", "start"} :
           /\ pc = "invalidate" => task[m].sid # 0
           /\ Becomes(m, pc, task[m].sid)
<1>1. task[m] \in Task
  OBVIOUS
<1>2. PICK pc \in {"invalidate", "start"} :
        /\ task' = [task EXCEPT ![m].retried = TRUE, ![m].status = 0, ![m].pc = pc]
        /\ pc = "invalidate" => task[m].sid # 0
  <2>1. CASE task[m].sid # 0
    BY <1>1, <2>1 DEF Again, At, Task
  <2>2. CASE task[m].sid = 0
    BY <1>1, <2>2 DEF Again, At, Task
  <2> QED BY <2>1, <2>2
<1> DEFINE t == [task[m] EXCEPT !.retried = TRUE, !.status = 0, !.pc = pc]
<1>3. t \in Task
  BY <1>1 DEF Task, Steps, Status
<1>4. t.pc = pc /\ t.sid = task[m].sid
  BY <1>1 DEF Task
<1>5. task' = [task EXCEPT ![m] = t]
  BY <1>2
<1> HIDE DEF t
<1> QED BY <1>2, <1>3, <1>4, <1>5, TaskBecomes

\* The relay goes from one step to another, in session sid; p.mu is lock's then.
Moves(m, from, to, sid, lock) ==
  At(m, from) /\ task'[m].pc = to /\ task'[m].sid = sid /\ mu' = lock

\* How a relay's step changes its own task, the only one it changes, and p.mu.
RelayMoves(m) ==
  LET sid == task[m].sid  post == {"reopen", "announce", "post"} IN
  \/ Start(m) /\ Moves(m, "start", IF Is(m, "init") THEN "post" ELSE "session", 0, mu)
  \/ Start(m) /\ Moves(m, "start", "done", sid, mu)
  \/ EnsureSession(m) /\ Moves(m, "session", "post", sess.sid, mu) /\ mu = 0
  \/ EnsureSession(m) /\ Moves(m, "session", "reopen", sid, m) /\ mu = 0
  \/ ReopenAccepted(m) /\ Moves(m, "reopen", "announce", sid, mu)
  \/ ReopenAccepted(m) /\ Moves(m, "reopen", "done", sid, 0)
  \/ Announce(m) /\ Moves(m, "announce", "post", sess.sid, 0)
  \/ Announce(m) /\ Moves(m, "announce", "done", sid, 0)
  \/ ReopenRefused(m) /\ \E s \in {"reopen", "announce"} : Moves(m, s, "refused", 0, 0)
  \/ PostFails(m) /\ \E s \in post : Moves(m, s, "done", sid, IF mu = m THEN 0 ELSE mu)
  \/ Posted(m) /\ Moves(m, "post", "done", sid, mu)
  \/ PostedInit(m) /\ Moves(m, "post", "adopt", Len(opened) + 1, mu)
  \/ PostedInit(m) /\ Moves(m, "post", "done", sid, mu)
  \/ Adopt(m) /\ Moves(m, "adopt", "done", sid, mu) /\ mu = 0
  \/ Refused(m) /\ Moves(m, "post", "refused", sid, mu)
  \/ Recover(m) /\ Moves(m, "refused", "start", sid, mu)
  \/ Recover(m) /\ Moves(m, "refused", "invalidate", sid, mu) /\ sid # 0
  \/ Recover(m) /\ Moves(m, "refused", "done", sid, mu)
  \/ Invalidate(m) /\ Moves(m, "invalidate", "start", sid, mu) /\ mu = 0

LEMMA VerdictStatus ==
  ASSUME NEW tok, NEW sc, NEW sid, Verdict(tok, sc, sid) # 200
  PROVE  Verdict(tok, sc, sid) \in Status
BY DEF Verdict, Status

LEMMA TaskStep ==
  ASSUME TypeOK, NEW m \in Msgs, Relay(m)
  PROVE  /\ task' \in [Msgs -> Task] /\ \A n \in Msgs \ {m} : task'[n] = task[n]
         /\ RelayMoves(m)
<1>a. /\ task \in [Msgs -> Task] /\ task[m] \in Task
      /\ sess.sid \in Nat /\ gen \in Nat /\ scope \in Scopes \cup {NoScope}
      /\ token \in 0..MaxTokens /\ granted \in Scopes /\ Len(opened) \in Nat
  BY BoundsAssumption DEF TypeOK, Session, Sids
<1> USE DEF RelayMoves, Moves, Becomes, At
<1>c. ASSUME NEW pc \in Steps, Goto(m, pc)
      PROVE  Becomes(m, pc, task[m].sid)
  BY <1>a, <1>c, GotoType
<1>1. CASE Start(m)
  <2>1. CASE Goto(m, "done")
    BY <1>1, <1>c, <2>1 DEF Start, Steps
  <2>2. CASE ~Goto(m, "done")
    <3>1. PICK sc \in Scopes \cup {NoScope}, pc \in {"post", "session"} :
            /\ task' = [task EXCEPT ![m].tok = token, ![m].scope = sc, ![m].sid = 0, ![m].pc = pc]
            /\ pc = IF Is(m, "init") THEN "post" ELSE "session"
      BY <1>1, <1>a, <2>2 DEF Start, Fails
    <3>2. Becomes(m, pc, 0)
      BY <1>a, <3>1, StartType DEF Steps
    <3> QED BY <1>1, <1>a, <3>1, <3>2 DEF Start
  <2> QED BY <2>1, <2>2
<1>2. CASE EnsureSession(m)
  <2>1. CASE Goto(m, "reopen") /\ mu' = m
    BY <1>2, <1>c, <2>1 DEF EnsureSession, Steps
  <2>2. CASE task' = [task EXCEPT ![m].pc = "post", ![m].sid = sess.sid, ![m].gen = gen] /\ mu' = mu
    <3>1. Becomes(m, "post", sess.sid)
      BY <1>a, <2>2, PostType
    <3> QED BY <1>2, <2>2, <3>1 DEF EnsureSession
  <2> QED BY <1>2, <2>1, <2>2 DEF EnsureSession
<1>3. CASE ReopenAccepted(m)
  <2>1. CASE Goto(m, "announce") /\ mu' = mu
    BY <1>3, <1>c, <2>1 DEF ReopenAccepted, Steps
  <2>2. CASE Goto(m, "done") /\ mu' = 0
    BY <1>3, <1>c, <2>2 DEF ReopenAccepted, Steps
  <2> QED BY <1>3, <2>1, <2>2 DEF ReopenAccepted, Fails
<1>4. CASE Announce(m)
  <2>1. CASE Goto(m, "done")
    BY <1>4, <1>c, <2>1 DEF Announce, Steps
  <2>2. CASE task' = [task EXCEPT ![m].pc = "post", ![m].sid = sess.sid, ![m].gen = gen]
    <3>1. Becomes(m, "post", sess.sid)
      BY <1>a, <2>2, PostType
    <3> QED BY <1>4, <2>2, <3>1 DEF Announce
  <2> QED BY <1>4, <2>1, <2>2 DEF Announce, Fails
<1>5. CASE ReopenRefused(m)
  <2>1. PICK v \in Status : task' = [task EXCEPT ![m].pc = "refused", ![m].status = v, ![m].sid = 0]
    BY <1>5, VerdictStatus DEF ReopenRefused
  <2>2. Becomes(m, "refused", 0)
    BY <1>a, <2>1, ReopenRefusedType
  <2>3. task[m].pc \in {"reopen", "announce"} /\ mu' = 0
    BY <1>5 DEF ReopenRefused
  <2> QED BY <1>5, <2>2, <2>3
<1>6. CASE PostFails(m)
  <2>1. /\ task[m].pc \in {"reopen", "announce", "post"} /\ Goto(m, "done")
        /\ mu' = IF mu = m THEN 0 ELSE mu
    BY <1>6 DEF PostFails, Fails
  <2> QED BY <1>6, <1>c, <2>1 DEF Steps
<1>7. CASE Posted(m)
  <2>1. Goto(m, "done") /\ At(m, "post") /\ mu' = mu
    BY <1>7 DEF Posted, Fails
  <2> QED BY <1>7, <1>c, <2>1 DEF Steps
<1>8. CASE PostedInit(m)
  <2>1. CASE Goto(m, "done")
    BY <1>8, <1>c, <2>1 DEF PostedInit, Steps
  <2>2. CASE task' = [task EXCEPT ![m].pc = "adopt", ![m].sid = Len(opened) + 1]
    <3>1. PICK s \in Nat : s = Len(opened) + 1
      BY <1>a
    <3>2. Becomes(m, "adopt", s)
      BY <1>a, <2>2, <3>1, OpenType
    <3> QED BY <1>8, <1>a, <3>1, <3>2 DEF PostedInit
  <2> QED BY <1>8, <2>1, <2>2 DEF PostedInit, Fails
<1>9. CASE Adopt(m)
  BY <1>9, <1>c DEF Adopt, Steps
<1>10. CASE Refused(m)
  <2>1. PICK v \in Status : task' = [task EXCEPT ![m].pc = "refused", ![m].status = v]
    BY <1>10, VerdictStatus DEF Refused
  <2>2. Becomes(m, "refused", task[m].sid)
    BY <1>a, <2>1, RefusedType
  <2> QED BY <1>10, <1>a, <2>2 DEF Refused
<1>11. CASE Recover(m)
  <2>1. At(m, "refused") /\ mu' = mu
    BY <1>11 DEF Recover
  <2>2. CASE Again(m)
    <3>1. PICK pc \in {"invalidate", "start"} :
            /\ pc = "invalidate" => task[m].sid # 0
            /\ Becomes(m, pc, task[m].sid)
      BY <1>a, <2>1, <2>2, AgainType
    <3> QED BY <1>11, <2>1, <3>1
  <2>3. CASE Goto(m, "done")
    BY <1>11, <1>c, <2>1, <2>3 DEF Steps
  <2> QED BY <1>11, <2>2, <2>3 DEF Recover, Fails
<1>12. CASE Invalidate(m)
  BY <1>12, <1>c DEF Invalidate, Steps
<1> QED
  BY <1>1, <1>2, <1>3, <1>4, <1>5, <1>6, <1>7, <1>8, <1>9, <1>10, <1>11, <1>12 DEF Relay

\* A session that brainsrv opens is a new one.
OpensOne ==
  /\ DOMAIN opened' = DOMAIN opened \cup {Len(opened) + 1}
  /\ Len(opened) \in Nat /\ Len(opened) + 1 \notin DOMAIN opened

LEMMA OpensStep ==
  ASSUME TypeOK, NEW m \in Msgs, Relay(m)
  PROVE  /\ opened' \in Seq([tok : 1..MaxTokens, scope : Scopes, by : {"agent", "proxy"}])
         /\ \/ UNCHANGED <<opened, bound, unheard>>
            \/ /\ OpensOne /\ bound' = bound \cup {Len(opened) + 1}
               /\ unheard' \in {unheard, unheard \cup {Len(opened) + 1}}
         /\ ended' = ended
         /\ ReopenAccepted(m) \/ PostedInit(m) => OpensOne
<1> DEFINE Opened == [tok : 1..MaxTokens, scope : Scopes, by : {"agent", "proxy"}]
<1>0. opened \in Seq(Opened)
  BY DEF TypeOK
<1>1. ended' = ended
  BY DEF Relay, proxy, agent, brain, ghosts, Start, EnsureSession, ReopenAccepted,
           Announce, ReopenRefused, PostFails, Posted, PostedInit, Adopt, Refused, Recover,
           Invalidate
<1>2. ASSUME NEW by \in {"agent", "proxy"}, Opens(m, by),
             Verdict(task[m].tok, task[m].scope, 0) = 200
      PROVE  opened' \in Seq(Opened) /\ OpensOne /\ bound' = bound \cup {Len(opened) + 1}
  <2>1. task[m].tok \in 1..MaxTokens /\ task[m].scope \in Scopes
    <3>1. task[m] \in Task /\ refused \in Nat /\ granted \in Scopes
      BY DEF TypeOK
    <3> QED BY <1>2, <3>1 DEF Verdict, Task
  <2>2. PICK o \in Opened : opened' = Append(opened, o)
    BY <1>2, <2>1 DEF Opens
  <2> HIDE DEF Opened
  <2>3. opened' \in Seq(Opened) /\ OpensOne
    BY <1>0, <2>2 DEF OpensOne
  <2> QED BY <1>2, <2>3 DEF Opens
<1>3. CASE ReopenAccepted(m)
  BY <1>1, <1>2, <1>3 DEF ReopenAccepted
<1>4. CASE PostedInit(m)
  BY <1>1, <1>2, <1>4 DEF PostedInit
<1>5. CASE ~ReopenAccepted(m) /\ ~PostedInit(m)
  <2>1. UNCHANGED <<opened, bound, unheard>>
    BY <1>5 DEF Relay, proxy, agent, brain, ghosts, Start, EnsureSession, ReopenAccepted,
           Announce, ReopenRefused, PostFails, Posted, PostedInit, Adopt, Refused, Recover,
           Invalidate
  <2> QED BY <1>0, <1>1, <1>5, <2>1
<1> QED BY <1>3, <1>4, <1>5

\* Every state is well formed, and p.mu is held by the task that opens a session.
LEMMA TypeRelay ==
  ASSUME TypeOK, NEW m \in Msgs, Relay(m)
  PROVE  TypeOK'
<1> USE BoundsAssumption
<1>1. task' \in [Msgs -> Task] /\ (\A n \in Msgs \ {m} : task'[n] = task[n]) /\ RelayMoves(m)
  BY TaskStep
<1>2. /\ mu' \in Msgs \cup {0} /\ \A n \in Msgs : mu' = n <=> task'[n].pc \in {"reopen", "announce"}
      /\ \A n \in Msgs : task'[n].pc = "unread" <=> task[n].pc = "unread"
  <2>1. /\ mu \in Msgs \cup {0} /\ \A n \in Msgs : mu = n <=> task[n].pc \in {"reopen", "announce"}
        /\ Msgs \subseteq Nat \ {0}
    BY MsgsInt DEF TypeOK, At
  <2> QED BY <1>1, <2>1 DEF RelayMoves, Moves, At
<1>3. /\ next \in 1..(Len(Script) + 1) /\ closed \in BOOLEAN /\ changes \in 0..MaxChanges
      /\ refused \in 0..MaxTokens /\ granted \in Scopes
      /\ UNCHANGED <<next, closed, changes, refused, granted>>
  BY DEF TypeOK, Relay, env, proxy, agent, Start, EnsureSession, ReopenAccepted, Announce,
         ReopenRefused, PostFails, Posted, PostedInit, Adopt, Refused, Recover, Invalidate
<1>4. answers' \in [Msgs -> Nat] /\ served' \in [Msgs -> Nat]
  <2>a. answers \in [Msgs -> Nat] /\ served \in [Msgs -> Nat]
    BY DEF TypeOK
  <2>1. answers' = answers \/ answers' = [answers EXCEPT ![m] = @ + 1]
    BY DEF Relay, proxy, agent, brain, Start, EnsureSession, ReopenAccepted, Announce,
           ReopenRefused, PostFails, Posted, PostedInit, Adopt, Refused, Recover, Invalidate, Fails
  <2>2. served' = served \/ served' = [served EXCEPT ![m] = @ + 1]
    BY DEF Relay, proxy, agent, brain, Start, EnsureSession, ReopenAccepted, Announce,
           ReopenRefused, PostFails, Posted, PostedInit, Adopt, Refused, Recover, Invalidate, Takes
  <2> QED BY <2>a, <2>1, <2>2
<1>5. params' \in BOOLEAN
  BY DEF TypeOK, Relay, proxy, agent, Start, EnsureSession, ReopenAccepted, Announce,
         ReopenRefused, PostFails, Posted, PostedInit, Adopt, Refused, Recover, Invalidate
<1>6. faults' \in 0..MaxFaults
  BY DEF TypeOK, Relay, Fault, Start, EnsureSession, ReopenAccepted, Announce,
         ReopenRefused, PostFails, Posted, PostedInit, Adopt, Refused, Recover, Invalidate
<1>7. scope' \in Scopes \cup {NoScope} /\ token' \in 1..MaxTokens
  BY DEF TypeOK, Relay, Start, EnsureSession, ReopenAccepted, Announce,
         ReopenRefused, PostFails, Posted, PostedInit, Adopt, Refused, Recover, Invalidate
<1>8. /\ opened' \in Seq([tok : 1..MaxTokens, scope : Scopes, by : {"agent", "proxy"}])
      /\ DOMAIN opened \subseteq DOMAIN opened'
      /\ bound' \subseteq DOMAIN opened' /\ unheard' \subseteq DOMAIN opened'
      /\ ended' \subseteq DOMAIN opened'
  <2>1. bound \subseteq DOMAIN opened /\ unheard \subseteq DOMAIN opened /\ ended \subseteq DOMAIN opened
    BY DEF TypeOK
  <2> QED BY <2>1, OpensStep DEF OpensOne
<1> DEFINE ids == DOMAIN opened \cup {0}
<1>9. /\ sess' \in Session /\ gen' \in Nat /\ stale' \in Session
      /\ ending' \subseteq DOMAIN opened'
      /\ sess'.sid \in DOMAIN opened' \cup {0} /\ stale'.sid \in DOMAIN opened' \cup {0}
  <2>a. /\ task[m].tok \in 0..MaxTokens /\ task[m].scope \in Scopes \cup {NoScope}
        /\ task[m].sid \in ids /\ sess \in Session /\ stale \in Session
        /\ sess.sid \in ids /\ stale.sid \in ids
        /\ gen \in Nat /\ ending \subseteq DOMAIN opened /\ ids \subseteq Nat
    <3>1. task[m] \in Task /\ sess \in Session /\ stale \in Session /\ gen \in Nat
      BY DEF TypeOK
    <3>2. task[m].tok \in 0..MaxTokens /\ task[m].scope \in Scopes \cup {NoScope}
      BY <3>1 DEF Task
    <3>3. task[m].sid \in ids /\ sess.sid \in ids /\ stale.sid \in ids /\ ending \subseteq DOMAIN opened
      BY DEF TypeOK
    <3>4. ids \subseteq Nat
      BY DEF TypeOK
    <3> QED BY <3>1, <3>2, <3>3, <3>4
  <2>b. NoSession \in Session /\ NoSession.sid = 0
    BY DEF NoSession, Session
  <2>c. ASSUME NEW s \in Nat
        PROVE  [sid |-> s, tok |-> task[m].tok, scope |-> task[m].scope] \in Session
    BY <2>a DEF Session, Sids
  <2>1. CASE ReopenAccepted(m)
    <3>1. \/ /\ sess' = [sid |-> Len(opened) + 1, tok |-> task[m].tok, scope |-> task[m].scope]
             /\ gen' = gen + 1 /\ stale' = NoSession /\ ending' = ending \cup ({Replaced} \ {0})
          \/ UNCHANGED <<sess, gen, stale, ending>>
      BY <2>1 DEF ReopenAccepted
    <3>2. Replaced \in ids
      BY <2>a DEF Replaced
    <3>3. OpensOne
      BY <2>1, OpensStep
    <3> QED BY <2>a, <2>b, <2>c, <3>1, <3>2, <3>3 DEF OpensOne
  <2>2. CASE Adopt(m)
    <3>1. UNCHANGED <<opened, stale>>
      BY <2>2 DEF Adopt, brain
    <3>2. /\ sess' = [sid |-> task[m].sid, tok |-> task[m].tok, scope |-> task[m].scope]
          /\ gen' = gen + 1 /\ ending' = IF Current THEN ending \cup {sess.sid} ELSE ending
      BY <2>2 DEF Adopt
    <3>3. task[m].sid \in Nat
      BY <2>a
    <3> QED BY <2>a, <2>c, <3>1, <3>2, <3>3 DEF Current
  <2>3. CASE Invalidate(m)
    BY <2>3, <2>a, <2>b DEF Invalidate, brain
  <2>4. CASE UNCHANGED <<sess, gen, stale, ending>>
    <3>1. DOMAIN opened \subseteq DOMAIN opened'
      BY <1>8
    <3> QED BY <2>4, <2>a, <3>1
  <2> QED BY <2>1, <2>2, <2>3, <2>4
          DEF Relay, proxy, agent, brain, ghosts, Start, EnsureSession, ReopenAccepted,
           Announce, ReopenRefused, PostFails, Posted, PostedInit, Adopt, Refused, Recover,
           Invalidate
<1>10. \A n \in Msgs : task'[n].sid \in DOMAIN opened' \cup {0}
  <2>1. DOMAIN opened \subseteq DOMAIN opened'
    BY <1>8
  <2>2. /\ task[m].sid \in ids /\ sess.sid \in ids
        /\ \A n \in Msgs : n # m => task'[n].sid \in ids
    BY <1>1 DEF TypeOK
  <2>3. PostedInit(m) => Len(opened) + 1 \in DOMAIN opened'
    BY OpensStep DEF OpensOne
  <2>4. task'[m].sid \in DOMAIN opened' \cup {0}
    BY <1>1, <2>1, <2>2, <2>3 DEF RelayMoves, Moves
  <2> QED BY <2>1, <2>2, <2>4
<1>11. {sess'.sid, stale'.sid} \cup {task'[n].sid : n \in Msgs} \subseteq DOMAIN opened' \cup {0}
  BY <1>9, <1>10
<1>12. \A n \in Msgs : task'[n].pc = "unread" <=> next' =< n
  BY <1>2, <1>3 DEF TypeOK
<1>13. \A n \in Msgs : mu' = n <=> task'[n].pc \in {"reopen", "announce"}
  BY <1>2
<1>14. task' \in [Msgs -> Task] /\ mu' \in Msgs \cup {0}
  BY <1>1, <1>2
<1> HIDE DEF ids
<1> QED
  BY <1>3, <1>4, <1>5, <1>6, <1>7, <1>8, <1>9, <1>11, <1>12, <1>13, <1>14, ZenonT(60) DEF TypeOK

LEMMA TypeStep ==
  ASSUME TypeOK, Next
  PROVE  TypeOK'
<1> USE BoundsAssumption
<1>1. ASSUME NEW m \in Msgs, Relay(m)
      PROVE  TypeOK'
  BY <1>1, TypeRelay
<1>2. CASE Read
  <2>1. next \in Msgs /\ next + 1 \in 1..(Len(Script) + 1)
    BY <1>2, MsgsInt DEF Read, TypeOK
  <2>2. task \in [Msgs -> Task] /\ Goto(next, "start")
    BY <1>2 DEF Read, TypeOK
  <2>3. Becomes(next, "start", task[next].sid)
    BY <2>1, <2>2, GotoType DEF Steps
  <2>4. params' \in BOOLEAN
    BY <1>2 DEF Read, TypeOK
  <2>5. UNCHANGED <<answers, closed, mu, sess, gen, stale, ending, scope, token, env, brain, ghosts, faults>>
        /\ next' = next + 1
    BY <1>2 DEF Read
  <2>6. task[next].pc = "unread" /\ Msgs \subseteq Int /\ next \in Int
    BY <2>1, MsgsInt DEF TypeOK
  <2>7. /\ \A n \in Msgs : mu = n <=> task[n].pc \in {"reopen", "announce"}
        /\ \A n \in Msgs : task[n].pc = "unread" <=> next =< n
    BY DEF TypeOK, At
  <2>8. \A n \in Msgs : task'[n].sid = task[n].sid
    BY <2>3 DEF Becomes
  <2>9. \A n \in Msgs : mu' = n <=> task'[n].pc \in {"reopen", "announce"}
    BY <2>1, <2>3, <2>5, <2>6, <2>7 DEF Becomes
  <2>10. \A n \in Msgs : task'[n].pc = "unread" <=> next' =< n
    BY <2>1, <2>3, <2>5, <2>6, <2>7 DEF Becomes
  <2>11. task' \in [Msgs -> Task]
    BY <2>3 DEF Becomes
  <2>12. {sess'.sid, stale'.sid} \cup {task'[n].sid : n \in Msgs} \subseteq DOMAIN opened' \cup {0}
    <3>1. /\ {sess.sid, stale.sid} \subseteq DOMAIN opened \cup {0}
          /\ \A n \in Msgs : task[n].sid \in DOMAIN opened \cup {0}
      BY DEF TypeOK
    <3>2. UNCHANGED <<sess, stale, opened>>
      BY <2>5 DEF brain
    <3> QED BY <2>8, <3>1, <3>2
  <2>13. UNCHANGED <<answers, closed, mu, sess, gen, stale, ending, scope, token, refused, granted,
                     opened, bound, served, unheard, ended, faults, changes>> /\ next' = next + 1
    BY <2>5 DEF brain, env, ghosts
  <2>14. /\ answers' \in [Msgs -> Nat] /\ closed' \in BOOLEAN /\ mu' \in Msgs \cup {0}
         /\ sess' \in Session /\ gen' \in Nat /\ stale' \in Session
         /\ ending' \subseteq DOMAIN opened'
         /\ scope' \in Scopes \cup {NoScope} /\ token' \in 1..MaxTokens /\ refused' \in 0..MaxTokens
         /\ granted' \in Scopes
         /\ opened' \in Seq([tok : 1..MaxTokens, scope : Scopes, by : {"agent", "proxy"}])
         /\ bound' \subseteq DOMAIN opened' /\ served' \in [Msgs -> Nat]
         /\ unheard' \subseteq DOMAIN opened' /\ ended' \subseteq DOMAIN opened'
         /\ faults' \in 0..MaxFaults /\ changes' \in 0..MaxChanges
    BY <2>13 DEF TypeOK
  <2> QED BY <2>1, <2>4, <2>9, <2>10, <2>11, <2>12, <2>13, <2>14, ZenonT(60) DEF TypeOK
<1>3. CASE Close
  <2>1. bound' \subseteq DOMAIN opened /\ ended' \subseteq DOMAIN opened
    BY <1>3 DEF Close, TypeOK, Delete, Current
  <2> QED BY <1>3, <2>1 DEF Close, TypeOK, At, env, proxy
<1>4. ASSUME NEW s \in ending, EndOld(s)
      PROVE  TypeOK'
  <2>1. bound' \subseteq DOMAIN opened /\ ended' \subseteq DOMAIN opened /\ ending' \subseteq DOMAIN opened
    BY <1>4 DEF EndOld, TypeOK, Delete
  <2> QED BY <1>4, <2>1 DEF EndOld, TypeOK, At, env, agent, proxy
<1>5. CASE Done
  BY <1>5 DEF Done, TypeOK, At, vars, agent, proxy, env, brain, ghosts
<1>6. CASE Rotate
  BY <1>6 DEF Rotate, TypeOK, At, agent, proxy, env, brain, ghosts
<1>7. CASE Refuse
  BY <1>7 DEF Refuse, Change, TypeOK, At, agent, proxy, brain, ghosts
<1>8. CASE Regrant
  BY <1>8 DEF Regrant, Change, TypeOK, At, agent, proxy, brain, ghosts
<1>9. CASE Restart
  BY <1>9 DEF Restart, Change, TypeOK, At, agent, proxy, ghosts
<1> QED BY <1>1, <1>2, <1>3, <1>4, <1>5, <1>6, <1>7, <1>8, <1>9 DEF Next

\* A session the proxy names is one brainsrv opened.
LEMMA Named ==
  ASSUME TypeOK
  PROVE  /\ \A n \in Msgs : task[n].sid \in DOMAIN opened \cup {0}
         /\ sess.sid \in DOMAIN opened \cup {0} /\ stale.sid \in DOMAIN opened \cup {0}
         /\ Len(opened) \in Nat /\ DOMAIN opened = 1..Len(opened)
BY DEF TypeOK

LEMMA TypeInit == Init => TypeOK
<1> SUFFICES ASSUME Init PROVE TypeOK
  OBVIOUS
<1> USE MsgsInt, BoundsAssumption DEF Init
<1>1. Unread \in Task
  BY DEF Unread, Task, Steps, Sids, Status
<1>2. task \in [Msgs -> Task] /\ answers \in [Msgs -> Nat] /\ served \in [Msgs -> Nat]
  BY <1>1
<1>3. \A m \in Msgs : task[m].pc = "unread" /\ task[m].sid = 0
  BY DEF Unread
<1>4. NoSession \in Session /\ NoSession.sid = 0
  BY DEF NoSession, Session
<1>5. {sess.sid, stale.sid} \cup {task[m].sid : m \in Msgs} \subseteq DOMAIN opened \cup {0}
  BY <1>3, <1>4
<1>6. /\ \A m \in Msgs : mu = m <=> task[m].pc \in {"reopen", "announce"}
      /\ \A m \in Msgs : task[m].pc = "unread" <=> next =< m
  BY <1>3
<1>7. next \in 1..(Len(Script) + 1) /\ mu \in Msgs \cup {0}
  OBVIOUS
<1>13. closed \in BOOLEAN /\ params \in BOOLEAN
  OBVIOUS
<1>11. sess \in Session /\ gen \in Nat /\ stale \in Session
  BY <1>4
<1>12. ending \subseteq DOMAIN opened
  OBVIOUS
<1>8. /\ scope \in Scopes \cup {NoScope} /\ token \in 1..MaxTokens /\ refused \in 0..MaxTokens
      /\ granted \in Scopes /\ faults \in 0..MaxFaults /\ changes \in 0..MaxChanges
  OBVIOUS
<1>9. opened \in Seq([tok : 1..MaxTokens, scope : Scopes, by : {"agent", "proxy"}])
  OBVIOUS
<1>10. bound \subseteq DOMAIN opened /\ unheard \subseteq DOMAIN opened /\ ended \subseteq DOMAIN opened
  OBVIOUS
<1> HIDE DEF Init
<1> QED BY <1>2, <1>5, <1>6, <1>7, <1>8, <1>9, <1>10, <1>11, <1>12, <1>13 DEF TypeOK

\* The proxy's state is always well formed, and p.mu is held by exactly the task
\* that opens a session (reinitLocked, proxy.go).
THEOREM TypeCorrect == Spec => []TypeOK
<1>1. ASSUME TypeOK, [Next]_vars
      PROVE  TypeOK'
  <2>1. CASE Next
    BY <1>1, <2>1, TypeStep
  <2>2. CASE UNCHANGED vars
    BY <1>1, <2>2 DEF TypeOK, vars, agent, proxy, env, brain, ghosts
  <2> QED BY <1>1, <2>1, <2>2
<1> QED BY <1>1, TypeInit, PTL DEF Spec

-----------------------------------------------------------------------------
(* brainsrv takes no message twice.                                         *)

\* What brainsrv takes is the message a task posts, which then ends or, for
\* initialize, adopts its session.
LEMMA ServedStep ==
  ASSUME NEW m \in Msgs, Relay(m)
  PROVE  \/ served' = served
         \/ (Posted(m) \/ PostedInit(m)) /\ served' = [served EXCEPT ![m] = @ + 1]
BY DEF Relay, proxy, agent, brain, Start, EnsureSession, ReopenAccepted, Announce,
       ReopenRefused, PostFails, Posted, PostedInit, Adopt, Refused, Recover, Invalidate, Takes

LEMMA TakenStep ==
  ASSUME TypeOK, TakenInv, [Next]_vars
  PROVE  TakenInv'
<1>1. ASSUME NEW m \in Msgs, Relay(m)
      PROVE  TakenInv'
  <2>1. (\A n \in Msgs \ {m} : task'[n] = task[n]) /\ RelayMoves(m)
    BY <1>1, TaskStep
  <2>2. served \in [Msgs -> Nat]
    BY DEF TypeOK
  <2>3. \A n \in Msgs \ {m} : task'[n] = task[n] /\ served'[n] = served[n]
    BY <1>1, <2>1, <2>2, ServedStep
  <2>4. served'[m] =< 1 /\ (task'[m].pc \notin {"adopt", "done"} => served'[m] = 0)
    <3>1. CASE served' = served
      BY <1>1, <2>1, <3>1 DEF TakenInv, RelayMoves, Moves, At
    <3>2. CASE (Posted(m) \/ PostedInit(m)) /\ served' = [served EXCEPT ![m] = @ + 1]
      <4>1. task[m].pc = "post"
        BY <3>2 DEF Posted, PostedInit, At
      <4>2. served'[m] = 1
        BY <2>2, <3>2, <4>1 DEF TakenInv
      <4>3. task'[m].pc \in {"adopt", "done"}
        <5>1. Goto(m, "done") \/ task' = [task EXCEPT ![m].pc = "adopt", ![m].sid = Len(opened) + 1]
          BY <3>2 DEF Posted, PostedInit, Fails
        <5>2. task \in [Msgs -> Task] /\ task[m] \in Task
          BY DEF TypeOK
        <5> QED BY <5>1, <5>2 DEF Goto, Task
      <4> QED BY <4>2, <4>3
    <3> QED BY <1>1, <3>1, <3>2, ServedStep
  <2> QED BY <2>3, <2>4 DEF TakenInv
<1>2. CASE Read
  <2>1. next \in Msgs /\ task[next].pc = "unread"
    BY <1>2, MsgsInt DEF Read, TypeOK
  <2>2. task \in [Msgs -> Task] /\ Goto(next, "start")
    BY <1>2 DEF Read, TypeOK
  <2>3. Becomes(next, "start", task[next].sid)
    BY <2>1, <2>2, GotoType DEF Steps
  <2>4. served' = served
    BY <1>2 DEF Read, brain
  <2> QED BY <2>1, <2>3, <2>4 DEF TakenInv, Becomes
<1>3. CASE UNCHANGED <<task, served>>
  BY <1>3 DEF TakenInv
<1>4. CASE Close \/ Done \/ (\E s \in ending : EndOld(s)) \/ Rotate \/ Refuse \/ Regrant \/ Restart
           \/ UNCHANGED vars
  BY <1>3, <1>4 DEF Close, Done, EndOld, Rotate, Refuse, Regrant, Restart, vars, brain
<1> QED BY <1>1, <1>2, <1>4 DEF Next

\* brainsrv takes no message of the agent twice, whatever is refused, retried or
\* lost (relay and recoverable, proxy.go).
THEOREM ServedCorrect == Spec => []ServedOnce
<1>1. Init => TakenInv
  BY DEF Init, TakenInv
<1>2. TypeOK /\ TakenInv /\ [Next]_vars => TakenInv'
  BY TakenStep
<1>3. TakenInv => ServedOnce
  BY DEF TakenInv, ServedOnce
<1> QED BY <1>1, <1>2, <1>3, TypeCorrect, PTL DEF Spec

-----------------------------------------------------------------------------
(* No task posts to a session that is still being opened.                   *)

\* Only the task that opens or adopts or gives up a session changes it.
LEMMA SessStep ==
  ASSUME NEW m \in Msgs, Relay(m)
  PROVE  \/ UNCHANGED <<sess, stale, ending>>
         \/ /\ ReopenAccepted(m) /\ Goto(m, "announce")
            /\ sess' = [sid |-> Len(opened) + 1, tok |-> task[m].tok, scope |-> task[m].scope]
            /\ ending' = ending \cup ({Replaced} \ {0}) /\ stale' = NoSession
         \/ Adopt(m)
         \/ Invalidate(m)
BY DEF Relay, proxy, Start, EnsureSession, ReopenAccepted, Announce, ReopenRefused, PostFails,
       Posted, PostedInit, Refused, Recover

LEMMA AnnouncedStep ==
  ASSUME TypeOK, TypeOK', NamedInv, AnnouncedFirst, [Next]_vars
  PROVE  NamedInv' /\ AnnouncedFirst'
<1>a. /\ \A m \in Msgs : mu = m <=> At(m, "reopen") \/ At(m, "announce")
      /\ \A m \in Msgs : mu' = m <=> At(m, "reopen")' \/ At(m, "announce")'
      /\ \A m \in Msgs : m # 0
  BY MsgsInt DEF TypeOK, At
<1>1. ASSUME NEW k \in Msgs, Relay(k)
      PROVE  NamedInv' /\ AnnouncedFirst'
  <2>1. (\A n \in Msgs \ {k} : task'[n] = task[n]) /\ RelayMoves(k) /\ task' \in [Msgs -> Task]
    BY <1>1, TaskStep
  <2>2. CASE mu' = 0
    BY <1>a, <2>2 DEF NamedInv, AnnouncedFirst
  <2>3. CASE mu' # 0 /\ UNCHANGED sess
    <3>1. \A m \in Msgs : At(m, "announce")' => At(m, "announce")
      <4>1. CASE ReopenAccepted(k) /\ Moves(k, "reopen", "announce", task[k].sid, mu)
        <5>1. sess' = [sid |-> Len(opened) + 1, tok |-> task[k].tok, scope |-> task[k].scope]
          BY <4>1, <2>3 DEF ReopenAccepted
        <5>2. sess.sid # Len(opened) + 1
          BY Named
        <5> QED BY <2>3, <5>1, <5>2
      <4>2. CASE ~(ReopenAccepted(k) /\ Moves(k, "reopen", "announce", task[k].sid, mu))
        <5>1. task'[k].pc # "announce"
          BY <2>1, <4>2 DEF RelayMoves, Moves
        <5> QED BY <2>1, <5>1 DEF At
      <4> QED BY <4>1, <4>2
    <3>2. NamedInv'
      BY <2>3, <3>1 DEF NamedInv, Current
    <3>3. ASSUME NEW m \in Msgs, NEW n \in Msgs, At(m, "announce")', At(n, "post")'
          PROVE  task'[n].sid # sess'.sid
      <4>1. CASE At(n, "post") /\ task'[n].sid = task[n].sid
        BY <2>3, <3>1, <3>3, <4>1 DEF AnnouncedFirst
      <4>2. CASE ~(At(n, "post") /\ task'[n].sid = task[n].sid)
        <5>1. n = k /\ mu # 0
          BY <2>1, <3>1, <3>3, <4>2, <1>a DEF At
        <5>2. task'[n].sid = 0
          BY <2>1, <2>3, <3>3, <4>2, <5>1, <1>a DEF RelayMoves, Moves, At
        <5> QED BY <3>1, <3>3, <2>3, <5>2 DEF NamedInv, Current
      <4> QED BY <4>1, <4>2
    <3> QED BY <3>2, <3>3 DEF AnnouncedFirst
  <2>4. CASE mu' # 0 /\ sess' # sess
    <3>1. /\ ReopenAccepted(k) /\ Goto(k, "announce")
          /\ sess' = [sid |-> Len(opened) + 1, tok |-> task[k].tok, scope |-> task[k].scope]
      <4>1. ~Adopt(k) /\ ~Invalidate(k)
        BY <2>4 DEF Adopt, Invalidate
      <4> QED BY <1>1, <2>4, <4>1, SessStep
    <3>2. sess'.sid = Len(opened) + 1 /\ sess'.sid # 0 /\ sess'.sid \notin DOMAIN opened
      BY <3>1, Named
    <3>3. \A n \in Msgs : task'[n].sid = task[n].sid
      <4>1. task \in [Msgs -> Task] /\ task[k] \in Task
        BY DEF TypeOK
      <4> QED BY <2>1, <3>1, <4>1 DEF Goto, Task
    <3>4. \A n \in Msgs : task[n].sid \in DOMAIN opened \cup {0}
      BY Named
    <3> QED BY <3>2, <3>3, <3>4 DEF NamedInv, AnnouncedFirst, Current
  <2> QED BY <2>2, <2>3, <2>4
<1>2. CASE Read
  <2>1. next \in Msgs
    BY <1>2, MsgsInt DEF Read, TypeOK
  <2>2. task \in [Msgs -> Task] /\ Goto(next, "start")
    BY <1>2 DEF Read, TypeOK
  <2>3. Becomes(next, "start", task[next].sid)
    BY <2>1, <2>2, GotoType DEF Steps
  <2>4. sess' = sess
    BY <1>2 DEF Read
  <2> QED BY <2>1, <2>3, <2>4 DEF NamedInv, AnnouncedFirst, Becomes, At, Current
<1>3. CASE UNCHANGED <<task, sess>>
  BY <1>3 DEF NamedInv, AnnouncedFirst, At, Current
<1>4. CASE Close \/ Done \/ (\E s \in ending : EndOld(s)) \/ Rotate \/ Refuse \/ Regrant \/ Restart
           \/ UNCHANGED vars
  BY <1>3, <1>4 DEF Close, Done, EndOld, Rotate, Refuse, Regrant, Restart, vars, proxy
<1> QED BY <1>1, <1>2, <1>4 DEF Next

\* No task posts to a session that another one is still opening, however many
\* relays run (ensureSession and reinitLocked under p.mu, proxy.go).
THEOREM AnnouncedCorrect == Spec => []AnnouncedFirst
<1>1. Init => NamedInv /\ AnnouncedFirst
  BY DEF Init, NamedInv, AnnouncedFirst, At, Unread
<1>2. TypeOK /\ TypeOK' /\ NamedInv /\ AnnouncedFirst /\ [Next]_vars => NamedInv' /\ AnnouncedFirst'
  BY AnnouncedStep
<1> QED BY <1>1, <1>2, TypeCorrect, PTL DEF Spec

-----------------------------------------------------------------------------
(* No session is lost track of.                                             *)

\* What a step of the relay of the agent's initialize leaves to show.
InitPart(m) ==
  /\ task[m].pc \in {"unread", "start", "post", "refused", "adopt"}
  /\ At(m, "adopt") \/ task[m].sid = 0
  /\ ~Current /\ stale.sid = 0
  /\ \A n \in Msgs : n # m => At(n, "unread")

LEMMA InitInvParts ==
  InitInv <=> /\ \A m \in Msgs : At(m, "adopt") => Is(m, "init")
              /\ \A m \in Msgs : Is(m, "init") /\ ~At(m, "done") => InitPart(m)
              /\ Current => stale.sid = 0
BY DEF InitInv, InitPart

LEMMA InitRelay ==
  ASSUME OneInit, TypeOK, InitInv, NEW k \in Msgs, Relay(k)
  PROVE  InitInv'
<1>1. (\A n \in Msgs \ {k} : task'[n] = task[n]) /\ RelayMoves(k) /\ ~At(k, "unread") /\ ~At(k, "done")
  <2>1. (\A n \in Msgs \ {k} : task'[n] = task[n]) /\ RelayMoves(k)
    BY TaskStep
  <2> QED BY <2>1 DEF RelayMoves, Moves, At
<1>2. \A m \in Msgs : Is(m, "init") /\ ~At(m, "done") => m = k /\ InitPart(k)
  BY <1>1, InitInvParts DEF InitPart
<1>3. CASE Is(k, "init")
  <2>1. InitPart(k)
    BY <1>1, <1>2, <1>3
  <2>2. \A n \in Msgs : n # k => At(n, "unread")' /\ ~Is(n, "init")
    BY <1>1, <1>3, <2>1 DEF InitPart, At, OneInit
  <2>3. CASE UNCHANGED <<sess, stale>>
    <3>1. /\ task'[k].pc \in {"start", "post", "refused", "adopt", "done"}
          /\ task'[k].pc \notin {"adopt", "done"} => task'[k].sid = 0
      BY <1>1, <1>3, <2>1 DEF RelayMoves, Moves, InitPart, At
    <3>2. (~At(k, "done"))' => InitPart(k)'
      BY <2>1, <2>2, <2>3, <3>1 DEF InitPart, At, Current
    <3>3. (Current => stale.sid = 0)'
      BY <2>1, <2>3 DEF InitPart, Current
    <3>4. \A m \in Msgs : At(m, "adopt")' => Is(m, "init")
      BY <1>3, <2>2 DEF At
    <3>5. \A m \in Msgs : Is(m, "init") /\ ~At(m, "done")' => InitPart(m)'
      BY <2>2, <3>2
    <3> QED BY <3>3, <3>4, <3>5 DEF InitInv, InitPart, Is
  <2>4. CASE Adopt(k)
    <3>1. task'[k].pc = "done"
      <4>1. task \in [Msgs -> Task] /\ task[k] \in Task /\ Goto(k, "done")
        BY <2>4 DEF TypeOK, Adopt
      <4> QED BY <4>1 DEF Goto, Task
    <3>2. stale' = stale /\ stale.sid = 0
      BY <2>1, <2>4 DEF Adopt, InitPart
    <3> QED BY <2>2, <3>1, <3>2 DEF InitInv, At, Is
  <2> QED BY <2>1, <2>3, <2>4, SessStep DEF ReopenAccepted, Invalidate, InitPart, At
<1>4. CASE ~Is(k, "init")
  <2>1. \A m \in Msgs : Is(m, "init") => At(m, "done")'
    BY <1>1, <1>2, <1>4 DEF At
  <2>2. ~At(k, "adopt") /\ ~At(k, "adopt")'
    BY <1>1, <1>4, InitInvParts DEF RelayMoves, Moves, At, PostedInit
  <2>3. \A m \in Msgs : At(m, "adopt")' => Is(m, "init")
    BY <1>1, <2>2, InitInvParts DEF At
  <2>4. (Current => stale.sid = 0)'
    <3>1. CASE UNCHANGED <<sess, stale>>
      BY <3>1, InitInvParts DEF Current
    <3>2. CASE stale' = NoSession
      BY <3>2 DEF NoSession
    <3>3. CASE Invalidate(k)
      BY <3>3, InitInvParts DEF Invalidate, Current, NoSession
    <3> QED BY <2>2, <3>1, <3>2, <3>3, SessStep DEF Adopt
  <2> QED BY <2>1, <2>3, <2>4 DEF InitInv, Is
<1> QED BY <1>3, <1>4

LEMMA InitStep ==
  ASSUME OneInit, TypeOK, InitInv, [Next]_vars
  PROVE  InitInv'
<1>1. ASSUME NEW k \in Msgs, Relay(k)
      PROVE  InitInv'
  BY <1>1, InitRelay
<1>2. CASE Read
  <2>1. next \in Msgs /\ task[next].pc = "unread"
    BY <1>2, MsgsInt DEF Read, TypeOK
  <2>2. task \in [Msgs -> Task] /\ Goto(next, "start")
    BY <1>2 DEF Read, TypeOK
  <2>3. Becomes(next, "start", task[next].sid)
    BY <2>1, <2>2, GotoType DEF Steps
  <2>4. UNCHANGED <<sess, stale>> /\ \A m \in 1..(next - 1) : Inline(m) => At(m, "done")
    BY <1>2 DEF Read
  <2>5. \A m \in Msgs : Is(m, "init") /\ ~At(m, "done")' => m = next /\ InitPart(m)
    <3>1. SUFFICES ASSUME NEW m \in Msgs, Is(m, "init"), ~At(m, "done")'
                   PROVE  m = next /\ InitPart(m)
      OBVIOUS
    <3>2. ~At(m, "done")
      BY <2>1, <2>3, <3>1 DEF Becomes, At
    <3>3. InitPart(m)
      BY <3>1, <3>2, InitInvParts
    <3>4. m = 1 /\ next \in Nat \ {0}
      BY <2>1, <3>1, MsgsInt DEF OneInit
    <3>5. m # next => m \in 1..(next - 1)
      BY <3>4
    <3>6. Inline(m)
      BY <3>1 DEF Is, Inline
    <3> QED BY <2>4, <3>2, <3>3, <3>5, <3>6
  <2>6. \A m \in Msgs : Is(m, "init") /\ ~At(m, "done")' => InitPart(m)'
    BY <2>1, <2>3, <2>4, <2>5 DEF InitPart, Becomes, At, Current
  <2>7. \A m \in Msgs : At(m, "adopt")' => Is(m, "init")
    BY <2>1, <2>3, InitInvParts DEF Becomes, At
  <2>8. (Current => stale.sid = 0)'
    BY <2>4, InitInvParts DEF Current
  <2> QED BY <2>6, <2>7, <2>8 DEF InitInv, InitPart, Is
<1>3. CASE UNCHANGED <<task, sess, stale>>
  BY <1>3 DEF InitInv, At, Current, Is
<1>4. CASE Close \/ Done \/ (\E s \in ending : EndOld(s)) \/ Rotate \/ Refuse \/ Regrant \/ Restart
           \/ UNCHANGED vars
  BY <1>3, <1>4 DEF Close, Done, EndOld, Rotate, Refuse, Regrant, Restart, vars, proxy
<1> QED BY <1>1, <1>2, <1>4 DEF Next

\* SessionsTracked, for one session.
Tracked(s) ==
  \/ s \in {sess.sid, stale.sid} \cup ending \cup ended \cup unheard
  \/ \E m \in Msgs : At(m, "adopt") /\ task[m].sid = s

LEMMA TrackedParts == SessionsTracked <=> \A s \in DOMAIN opened : Tracked(s)
BY DEF SessionsTracked, Tracked

LEMMA TrackedRelay ==
  ASSUME TypeOK, InitInv, SessionsTracked, NEW k \in Msgs, Relay(k)
  PROVE  \A s \in DOMAIN opened' : Tracked(s)'
<1>1. (\A n \in Msgs \ {k} : task'[n] = task[n]) /\ RelayMoves(k)
  BY TaskStep
<1>2. \A s \in DOMAIN opened : s # 0 /\ Tracked(s)
  BY Named, TrackedParts
<1>3. /\ ended' = ended /\ unheard \subseteq unheard'
      /\ UNCHANGED <<opened, unheard>> \/ OpensOne
      /\ ReopenAccepted(k) \/ PostedInit(k) \/ UNCHANGED <<opened, unheard>>
  <2>1. ReopenAccepted(k) \/ PostedInit(k) \/ UNCHANGED <<opened, unheard>>
    BY DEF Relay, agent, brain, ghosts, Start, EnsureSession, Announce, ReopenRefused, PostFails,
           Posted, Adopt, Refused, Recover, Invalidate
  <2> QED BY <2>1, OpensStep
<1>4. CASE ReopenAccepted(k)
  <2>1. OpensOne /\ task[k].pc = "reopen"
    BY <1>4, OpensStep DEF ReopenAccepted, At
  <2>2. \A m \in Msgs : At(m, "adopt") => At(m, "adopt")' /\ task'[m].sid = task[m].sid
    BY <1>1, <2>1 DEF At
  <2>3. CASE /\ sess' = [sid |-> Len(opened) + 1, tok |-> task[k].tok, scope |-> task[k].scope]
             /\ ending' = ending \cup ({Replaced} \ {0})
    <3>1. sess'.sid = Len(opened) + 1
      BY <2>3
    <3>2. \A s \in DOMAIN opened : s \in {sess.sid, stale.sid} => s \in ending'
      BY <1>2, <2>3, InitInvParts DEF Replaced, Current
    <3> QED BY <1>2, <1>3, <2>1, <2>2, <2>3, <3>1, <3>2 DEF OpensOne, Tracked
  <2>4. CASE unheard' = unheard \cup {Len(opened) + 1} /\ UNCHANGED <<sess, stale, ending>>
    BY <1>2, <1>3, <2>1, <2>2, <2>4 DEF OpensOne, Tracked
  <2> QED BY <1>4, <2>3, <2>4 DEF ReopenAccepted
<1>5. CASE PostedInit(k)
  <2>1. OpensOne /\ task[k].pc = "post" /\ UNCHANGED <<sess, stale, ending>>
    BY <1>5, OpensStep DEF PostedInit, At, proxy
  <2>2. \A m \in Msgs : At(m, "adopt") => At(m, "adopt")' /\ task'[m].sid = task[m].sid
    BY <1>1, <2>1 DEF At
  <2>3. unheard' = unheard \cup {Len(opened) + 1} \/ (At(k, "adopt")' /\ task'[k].sid = Len(opened) + 1)
    <3>1. CASE task' = [task EXCEPT ![k].pc = "adopt", ![k].sid = Len(opened) + 1]
      <4>1. task \in [Msgs -> Task] /\ task[k] \in Task
        BY DEF TypeOK
      <4> QED BY <3>1, <4>1 DEF Task, At
    <3> QED BY <1>5, <3>1 DEF PostedInit
  <2> QED BY <1>2, <1>3, <2>1, <2>2, <2>3 DEF OpensOne, Tracked
<1>6. CASE Adopt(k)
  <2>1. sess'.sid = task[k].sid /\ UNCHANGED <<stale, opened, unheard>> /\ ending \subseteq ending'
    BY <1>6 DEF Adopt, brain, ghosts
  <2>2. Current => sess.sid \in ending'
    BY <1>6 DEF Adopt
  <2>3. \A m \in Msgs : At(m, "adopt") => m = k \/ (At(m, "adopt")' /\ task'[m].sid = task[m].sid)
    BY <1>1 DEF At
  <2> QED BY <1>2, <1>3, <2>1, <2>2, <2>3 DEF Tracked, Current
<1>7. CASE Invalidate(k)
  <2>1. UNCHANGED <<ending, opened, unheard>> /\ task[k].pc = "invalidate"
    BY <1>7 DEF Invalidate, brain, ghosts, At
  <2>2. {sess.sid, stale.sid} \subseteq {sess'.sid, stale'.sid, 0}
    BY <1>7, InitInvParts DEF Invalidate, Current
  <2>3. \A m \in Msgs : At(m, "adopt") => At(m, "adopt")' /\ task'[m].sid = task[m].sid
    BY <1>1, <2>1 DEF At
  <2> QED BY <1>2, <1>3, <2>1, <2>2, <2>3 DEF Tracked
<1>8. CASE ~ReopenAccepted(k) /\ ~PostedInit(k) /\ ~Adopt(k) /\ ~Invalidate(k)
  <2>1. UNCHANGED <<sess, stale, ending, opened, unheard>>
    BY <1>3, <1>8, SessStep
  <2>2. task[k].pc # "adopt"
    BY <1>1, <1>8 DEF RelayMoves, Moves, At
  <2>3. \A m \in Msgs : At(m, "adopt") => At(m, "adopt")' /\ task'[m].sid = task[m].sid
    BY <1>1, <2>2 DEF At
  <2> QED BY <1>2, <1>3, <2>1, <2>3 DEF Tracked
<1> QED BY <1>4, <1>5, <1>6, <1>7, <1>8

LEMMA TrackedStep ==
  ASSUME TypeOK, InitInv, SessionsTracked, [Next]_vars
  PROVE  SessionsTracked'
<1>a. \A s \in DOMAIN opened : s # 0 /\ Tracked(s)
  BY Named, TrackedParts
<1>1. ASSUME NEW k \in Msgs, Relay(k)
      PROVE  SessionsTracked'
  <2>1. \A s \in DOMAIN opened' : Tracked(s)'
    BY <1>1, TrackedRelay
  <2> QED BY <2>1 DEF SessionsTracked, Tracked
<1>2. CASE Read
  <2>1. next \in Msgs /\ task[next].pc = "unread"
    BY <1>2, MsgsInt DEF Read, TypeOK
  <2>2. task \in [Msgs -> Task] /\ Goto(next, "start")
    BY <1>2 DEF Read, TypeOK
  <2>3. Becomes(next, "start", task[next].sid)
    BY <2>1, <2>2, GotoType DEF Steps
  <2>4. UNCHANGED <<sess, stale, ending, opened, unheard, ended>>
    BY <1>2 DEF Read, brain, ghosts
  <2>5. \A s \in DOMAIN opened' : Tracked(s)'
    BY <1>a, <2>1, <2>3, <2>4 DEF Tracked, Becomes, At
  <2> QED BY <2>5 DEF SessionsTracked, Tracked
<1>3. ASSUME NEW s \in ending, EndOld(s)
      PROVE  SessionsTracked'
  BY <1>3 DEF EndOld, Delete, SessionsTracked, At, proxy
<1>4. CASE Close
  BY <1>4 DEF Close, Delete, SessionsTracked, At, proxy
<1>5. CASE UNCHANGED <<task, sess, stale, ending, ended, unheard, opened>>
  BY <1>5 DEF SessionsTracked, At
<1>6. CASE Done \/ Rotate \/ Refuse \/ Regrant \/ Restart \/ UNCHANGED vars
  BY <1>5, <1>6 DEF Done, Rotate, Refuse, Regrant, Restart, vars, proxy, brain, ghosts
<1> QED BY <1>1, <1>2, <1>3, <1>4, <1>6 DEF Next

\* For an agent that initializes once and first, as the protocol asks, every
\* session whose id the proxy learned is the current one, kept to be ended,
\* being ended or ended (adoptSession, invalidate and reinitLocked, proxy.go).
THEOREM TrackedCorrect == OneInit => (Spec => []SessionsTracked)
<1> SUFFICES ASSUME OneInit PROVE Spec => []SessionsTracked
  OBVIOUS
<1>1. Init => InitInv
  BY DEF Init, InitInv, At, Unread, NoSession, Current
<1>2. Init => SessionsTracked
  BY DEF Init, SessionsTracked
<1>3. TypeOK /\ InitInv /\ [Next]_vars => InitInv'
  BY InitStep
<1>4. TypeOK /\ InitInv /\ SessionsTracked /\ [Next]_vars => SessionsTracked'
  BY TrackedStep
<1> QED BY <1>1, <1>2, <1>3, <1>4, TypeCorrect, PTL DEF Spec

=============================================================================
