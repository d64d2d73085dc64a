------------------------------- MODULE McpProxy -------------------------------
(***************************************************************************)
(* `afferent mcp proxy` (cli/beacon/internal/afferent/mcpproxy/proxy.go):   *)
(* an agent's messages, read in order from stdin, are posted to brainsrv    *)
(* inside a session bound to an access token and a scope.  The proxy opens  *)
(* the session again with the agent's own initialize when the token or the  *)
(* scope changes, or when brainsrv refuses it, and sends a refused message  *)
(* once more.                                                               *)
(*                                                                         *)
(* A task is one message being relayed.  Tokens are numbered in the order   *)
(* they are issued.  brainsrv, the token source and the scope's grant are   *)
(* the environment.                                                         *)
(*                                                                         *)
(* Left out: batches (one task with several ids), the negotiated protocol   *)
(* version, invalid input, and answers cut short after their first byte.    *)
(***************************************************************************)
EXTENDS Integers, Sequences, FiniteSets

CONSTANTS
  Script,     \* what the agent sends: a sequence of "init", "note" and "req"
  Scopes,     \* member scopes
  NoScope,    \* stands for a scope not yet known
  MaxTokens,  \* bound: access tokens
  MaxChanges, \* bound: tokens refused, grants moved and brainsrv restarts
  MaxFaults   \* bound: requests that fail or whose answer is lost

ASSUME ScriptAssumption == Script \in Seq({"init", "note", "req"})
ASSUME ScopesAssumption == NoScope \notin Scopes
ASSUME BoundsAssumption == MaxTokens \in Nat \ {0} /\ MaxChanges \in Nat /\ MaxFaults \in Nat

VARIABLES
  next,      \* the message Serve reads next
  task,      \* message -> how far its relay is
  answers,   \* message -> answers written to the agent
  closed,    \* Serve has returned
  mu,        \* the task that holds p.mu, or 0
  params,    \* initParams are known
  sess,      \* the current session with its token and scope; sid 0 is none
  gen,       \* bumped on every new session
  stale,     \* an invalidated session that is still to be ended
  ending,    \* sessions whose DELETE is under way
  scope,     \* the cached member scope, NoScope before it is resolved
  token,     \* the newest access token
  refused,   \* brainsrv refuses tokens up to this one
  granted,   \* the scope brainsrv grants
  opened,    \* brainsrv: every session it opened
  bound,     \* brainsrv: the sessions it still knows
  served,    \* brainsrv: message -> times it was taken
  unheard,   \* ghost: sessions whose id never reached the proxy
  ended,     \* ghost: sessions the proxy has sent a DELETE for
  faults, changes

agent  == <<next, answers, closed>>
proxy  == <<params, sess, gen, stale>>
env    == <<refused, granted, changes>>
brain  == <<opened, bound, served>>
ghosts == <<unheard, ended>>
vars   == <<agent, task, mu, proxy, ending, scope, token, env, brain, ghosts, faults>>

Msgs      == DOMAIN Script
Is(m, k)  == Script[m] = k
Inline(m) == ~Is(m, "req")            \* relayed by the reader itself
HasId(m)  == ~Is(m, "note")
Sids      == Nat \ {0}
Session   == [sid : Sids \cup {0}, tok : 0..MaxTokens, scope : Scopes \cup {NoScope}]
NoSession == [sid |-> 0, tok |-> 0, scope |-> NoScope]

Steps  == {"unread", "start", "session", "reopen", "announce", "post", "refused",
           "invalidate", "adopt", "done"}
Status == {0, 401, 403, 404}  \* 0 before an answer
Task   == [pc : Steps, tok : 0..MaxTokens, scope : Scopes \cup {NoScope}, sid : Sids \cup {0},
           gen : Nat, status : Status, retried : BOOLEAN]
Unread == [pc |-> "unread", tok |-> 0, scope |-> NoScope, sid |-> 0, gen |-> 0,
           status |-> 0, retried |-> FALSE]

TypeOK ==
  /\ next \in 1..(Len(Script) + 1)
  /\ task \in [Msgs -> Task] /\ answers \in [Msgs -> Nat] /\ closed \in BOOLEAN
  /\ mu \in Msgs \cup {0} /\ params \in BOOLEAN
  /\ sess \in Session /\ gen \in Nat /\ stale \in Session
  /\ ending \subseteq DOMAIN opened
  /\ {sess.sid, stale.sid} \cup {task[m].sid : m \in Msgs} \subseteq DOMAIN opened \cup {0}
  /\ scope \in Scopes \cup {NoScope} /\ token \in 1..MaxTokens /\ refused \in 0..MaxTokens
  /\ granted \in Scopes
  /\ opened \in Seq([tok : 1..MaxTokens, scope : Scopes, by : {"agent", "proxy"}])
  /\ bound \subseteq DOMAIN opened
  /\ served \in [Msgs -> Nat]
  /\ unheard \subseteq DOMAIN opened /\ ended \subseteq DOMAIN opened
  /\ faults \in 0..MaxFaults /\ changes \in 0..MaxChanges
  /\ \A m \in Msgs : mu = m <=> task[m].pc \in {"reopen", "announce"}
  /\ \A m \in Msgs : task[m].pc = "unread" <=> next =< m

Init ==
  /\ next = 1 /\ task = [m \in Msgs |-> Unread] /\ answers = [m \in Msgs |-> 0]
  /\ closed = FALSE
  /\ mu = 0 /\ params = FALSE
  /\ sess = NoSession /\ gen = 0 /\ stale = NoSession /\ ending = {}
  /\ scope = NoScope /\ token = 1 /\ refused = 0 /\ granted \in Scopes
  /\ opened = <<>> /\ bound = {} /\ served = [m \in Msgs |-> 0]
  /\ unheard = {} /\ ended = {}
  /\ faults = 0 /\ changes = 0

-----------------------------------------------------------------------------
At(m, pc)   == task[m].pc = pc
Goto(m, pc) == task' = [task EXCEPT ![m].pc = pc]
Fault       == faults < MaxFaults /\ faults' = faults + 1
Current     == sess.sid # 0

\* Mutant: a failed relay is not answered.
FailsSilently(m) == Goto(m, "done") /\ UNCHANGED answers

\* The relay ends with an error, which answers a message that has an id.
Fails(m) ==
  /\ Goto(m, "done")
  /\ answers' = IF HasId(m) THEN [answers EXCEPT ![m] = @ + 1] ELSE answers

\* brainsrv's verdict on a message: 401 for the token, 404 for a session it
\* does not know, 403 for the scope or for a session of another token, else 200.
Verdict(tok, sc, sid) ==
  IF tok =< refused THEN 401
  ELSE IF sid # 0 /\ sid \notin bound THEN 404
  ELSE IF sc # granted \/ (sid # 0 /\ opened[sid].tok # tok) THEN 403
  ELSE 200

Opens(m, by) ==
  /\ opened' = Append(opened, [tok |-> task[m].tok, scope |-> task[m].scope, by |-> by])
  /\ bound' = bound \cup {Len(opened) + 1}

\* Serve reads one message; it relays initialize and notifications itself, so
\* they end before the next is read, and requests on their own.
Read ==
  /\ next =< Len(Script) /\ \A m \in 1..(next - 1) : Inline(m) => At(m, "done")
  /\ IF Is(next, "init") THEN mu = 0 /\ params' = TRUE ELSE UNCHANGED params
  /\ Goto(next, "start")
  /\ next' = next + 1
  /\ UNCHANGED <<answers, closed, mu, sess, gen, stale, ending, scope, token, env, brain, ghosts, faults>>

\* A token and the scope, which is resolved on first use; either may fail.
Start(m) ==
  /\ At(m, "start")
  /\ \/ LET sc == IF scope = NoScope THEN granted ELSE scope IN
        /\ task' = [task EXCEPT ![m].tok = token, ![m].scope = sc, ![m].sid = 0,
                                ![m].pc = IF Is(m, "init") THEN "post" ELSE "session"]
        /\ scope' = sc
        /\ UNCHANGED <<answers, faults>>
     \/ Fault /\ Fails(m) /\ UNCHANGED scope
  /\ UNCHANGED <<next, closed, mu, proxy, ending, token, env, brain, ghosts>>

Fits(m) == Current /\ sess.tok = task[m].tok /\ sess.scope = task[m].scope

\* Mutant: the current session is looked at without p.mu.
EnsureSessionUnlocked(m) ==
  /\ At(m, "session")
  /\ IF ~params \/ Fits(m)
     THEN /\ task' = [task EXCEPT ![m].pc = "post", ![m].sid = sess.sid, ![m].gen = gen]
          /\ UNCHANGED mu
     ELSE /\ mu = 0 /\ mu' = m
          /\ Goto(m, "reopen")
  /\ UNCHANGED <<agent, proxy, ending, scope, token, env, brain, ghosts, faults>>

\* ensureSession, under p.mu: the current session when it fits, none before
\* the agent's initialize, else a new one.
EnsureSession(m) ==
  /\ At(m, "session") /\ mu = 0
  /\ IF ~params \/ Fits(m)
     THEN /\ task' = [task EXCEPT ![m].pc = "post", ![m].sid = sess.sid, ![m].gen = gen]
          /\ UNCHANGED mu
     ELSE /\ mu' = m
          /\ Goto(m, "reopen")
  /\ UNCHANGED <<agent, proxy, ending, scope, token, env, brain, ghosts, faults>>

\* Mutant: an invalidated session is forgotten.
ReplacedCurrent == sess.sid

\* The session a new one replaces: the current one, or else the stale one.
Replaced == IF Current THEN sess.sid ELSE stale.sid

\* reinitLocked posts initialize.  The session becomes current and the one it
\* replaces is ended in the background.
ReopenAccepted(m) ==
  /\ At(m, "reopen") /\ Verdict(task[m].tok, task[m].scope, 0) = 200
  /\ Opens(m, "proxy")
  /\ \/ /\ sess' = [sid |-> Len(opened) + 1, tok |-> task[m].tok, scope |-> task[m].scope]
        /\ gen' = gen + 1
        /\ ending' = ending \cup ({Replaced} \ {0})
        /\ stale' = NoSession
        /\ Goto(m, "announce")
        /\ UNCHANGED <<mu, answers, unheard, faults>>
     \/ /\ Fault /\ Fails(m)
        /\ mu' = 0
        /\ unheard' = unheard \cup {Len(opened) + 1}
        /\ UNCHANGED <<sess, gen, stale, ending>>
  /\ UNCHANGED <<next, closed, params, scope, token, env, served, ended>>

\* It posts notifications/initialized to it, and the message may follow.
Announce(m) ==
  /\ At(m, "announce") /\ Verdict(task[m].tok, task[m].scope, sess.sid) = 200
  /\ mu' = 0
  /\ \/ /\ task' = [task EXCEPT ![m].pc = "post", ![m].sid = sess.sid, ![m].gen = gen]
        /\ UNCHANGED <<answers, faults>>
     \/ Fault /\ Fails(m)
  /\ UNCHANGED <<next, closed, proxy, ending, scope, token, env, opened, bound, served, ghosts>>

\* Mutant: p.mu is not let go when a post is refused.
ReopenRefusedHolding(m) ==
  /\ task[m].pc \in {"reopen", "announce"}
  /\ LET v == Verdict(task[m].tok, task[m].scope, IF At(m, "announce") THEN sess.sid ELSE 0) IN
     v # 200 /\ task' = [task EXCEPT ![m].pc = "refused", ![m].status = v, ![m].sid = 0]
  /\ UNCHANGED <<agent, mu, proxy, ending, scope, token, env, brain, ghosts, faults>>

\* Either post is refused, which ends the attempt; the session stays current.
ReopenRefused(m) ==
  /\ task[m].pc \in {"reopen", "announce"}
  /\ LET v == Verdict(task[m].tok, task[m].scope, IF At(m, "announce") THEN sess.sid ELSE 0) IN
     v # 200 /\ task' = [task EXCEPT ![m].pc = "refused", ![m].status = v, ![m].sid = 0]
  /\ mu' = 0
  /\ UNCHANGED <<agent, proxy, ending, scope, token, env, brain, ghosts, faults>>

\* No answer, or a 5xx, before brainsrv takes a post.
PostFails(m) ==
  /\ task[m].pc \in {"reopen", "announce", "post"}
  /\ Fault /\ Fails(m)
  /\ mu' = IF mu = m THEN 0 ELSE mu
  /\ UNCHANGED <<next, closed, proxy, ending, scope, token, env, brain, ghosts>>

Takes(m) == served' = [served EXCEPT ![m] = @ + 1]

\* Mutant: a message whose answer was lost is sent again.
PostedAgain(m) ==
  /\ At(m, "post") /\ Verdict(task[m].tok, task[m].scope, task[m].sid) = 200
  /\ ~Is(m, "init") /\ Takes(m)
  /\ \/ /\ Goto(m, "done")
        /\ answers' = IF HasId(m) THEN [answers EXCEPT ![m] = @ + 1] ELSE answers
        /\ UNCHANGED faults
     \/ Fault /\ Goto(m, "start") /\ UNCHANGED answers
  /\ UNCHANGED <<next, closed, mu, proxy, ending, scope, token, env, opened, bound, ghosts>>

\* The message is taken and answered, or its answer is lost.
Posted(m) ==
  /\ At(m, "post") /\ Verdict(task[m].tok, task[m].scope, task[m].sid) = 200
  /\ ~Is(m, "init") /\ Takes(m)
  /\ \/ /\ Goto(m, "done")
        /\ answers' = IF HasId(m) THEN [answers EXCEPT ![m] = @ + 1] ELSE answers
        /\ UNCHANGED faults
     \/ Fault /\ Fails(m)
  /\ UNCHANGED <<next, closed, mu, proxy, ending, scope, token, env, opened, bound, ghosts>>

\* The agent's own initialize: the answer goes out before the session is
\* adopted.
PostedInit(m) ==
  /\ At(m, "post") /\ Verdict(task[m].tok, task[m].scope, 0) = 200
  /\ Is(m, "init") /\ Takes(m) /\ Opens(m, "agent")
  /\ \/ /\ task' = [task EXCEPT ![m].pc = "adopt", ![m].sid = Len(opened) + 1]
        /\ answers' = [answers EXCEPT ![m] = @ + 1]
        /\ UNCHANGED <<unheard, faults>>
     \/ /\ Fault /\ Fails(m)
        /\ unheard' = unheard \cup {Len(opened) + 1}
  /\ UNCHANGED <<next, closed, mu, proxy, ending, scope, token, env, ended>>

\* adoptSession.
Adopt(m) ==
  /\ At(m, "adopt") /\ mu = 0
  /\ ending' = IF Current THEN ending \cup {sess.sid} ELSE ending
  /\ sess' = [sid |-> task[m].sid, tok |-> task[m].tok, scope |-> task[m].scope]
  /\ gen' = gen + 1
  /\ Goto(m, "done")
  /\ UNCHANGED <<agent, mu, params, stale, scope, token, env, brain, ghosts, faults>>

Refused(m) ==
  /\ At(m, "post")
  /\ LET v == Verdict(task[m].tok, task[m].scope, task[m].sid) IN
     v # 200 /\ task' = [task EXCEPT ![m].pc = "refused", ![m].status = v]
  /\ UNCHANGED <<agent, mu, proxy, ending, scope, token, env, brain, ghosts, faults>>

\* recoverable: a retry makes sense once the token was forced to change (by
\* this task or another), the scope is another one, or there was a session.
Again(m) ==
  task' = [task EXCEPT ![m].retried = TRUE, ![m].status = 0,
                       ![m].pc = IF @ = "refused" /\ task[m].sid # 0 THEN "invalidate" ELSE "start"]

Recover(m) ==
  /\ At(m, "refused")
  /\ \/ /\ ~task[m].retried /\ task[m].status = 401
        /\ token' = IF token = task[m].tok THEN token + 1 ELSE token
        /\ token' =< MaxTokens
        /\ Again(m) /\ UNCHANGED <<scope, answers, faults>>
     \/ /\ ~task[m].retried /\ task[m].status = 403
        /\ \/ /\ granted # task[m].scope /\ scope' = granted
              /\ Again(m) /\ UNCHANGED <<answers, faults>>
           \/ /\ \/ granted = task[m].scope /\ UNCHANGED faults
                 \/ Fault     \* whoami did not answer
              /\ IF task[m].sid # 0 THEN Again(m) /\ UNCHANGED answers ELSE Fails(m)
              /\ UNCHANGED scope
        /\ UNCHANGED token
     \/ /\ ~task[m].retried /\ task[m].status = 404 /\ task[m].sid # 0
        /\ Again(m) /\ UNCHANGED <<scope, token, answers, faults>>
     \/ /\ \/ task[m].retried
           \/ task[m].status = 401
           \/ task[m].status = 404 /\ task[m].sid = 0
        /\ Fails(m) /\ UNCHANGED <<scope, token, faults>>
  /\ UNCHANGED <<next, closed, mu, proxy, ending, env, brain, ghosts>>

\* invalidate: the session is forgotten unless another replaced it.
Invalidate(m) ==
  /\ At(m, "invalidate") /\ mu = 0
  /\ IF gen = task[m].gen
     THEN /\ stale' = IF Current THEN sess ELSE stale
          /\ sess' = NoSession
     ELSE UNCHANGED <<stale, sess>>
  /\ Goto(m, "start")
  /\ UNCHANGED <<agent, mu, params, gen, ending, scope, token, env, brain, ghosts, faults>>

\* A DELETE arrives, or is refused, or fails: it is not tried again.
Delete(s) ==
  /\ bound' = IF opened[s].tok > refused THEN bound \ {s} ELSE bound
  /\ ended' = ended \cup {s}

EndOld(s) ==
  /\ s \in ending
  /\ ending' = ending \ {s}
  /\ Delete(s)
  /\ UNCHANGED <<agent, task, mu, proxy, scope, token, env, opened, served, unheard, faults>>

\* End of input: every relay and DELETE has ended, then the session is ended.
Close ==
  /\ ~closed /\ next > Len(Script) /\ ending = {} /\ \A m \in Msgs : At(m, "done")
  /\ IF Current THEN Delete(sess.sid) ELSE UNCHANGED <<bound, ended>>
  /\ closed' = TRUE
  /\ UNCHANGED <<next, answers, task, mu, proxy, ending, scope, token, env, opened, served, unheard, faults>>

-----------------------------------------------------------------------------
(* The environment.                                                         *)

Change == changes < MaxChanges /\ changes' = changes + 1

\* Another process refreshed the token in time; the old one still works.
Rotate ==
  /\ ~closed /\ token < MaxTokens
  /\ token' = token + 1
  /\ UNCHANGED <<agent, task, mu, proxy, ending, scope, env, brain, ghosts, faults>>

\* A token runs out or is revoked.
Refuse ==
  /\ ~closed /\ refused < token /\ Change
  /\ refused' = refused + 1
  /\ UNCHANGED <<agent, task, mu, proxy, ending, scope, token, granted, brain, ghosts, faults>>

Regrant ==
  /\ ~closed /\ Change
  /\ granted' \in Scopes \ {granted}
  /\ UNCHANGED <<agent, task, mu, proxy, ending, scope, token, refused, brain, ghosts, faults>>

\* brainsrv restarts and knows no session any more.
Restart ==
  /\ ~closed /\ bound # {} /\ Change
  /\ bound' = {}
  /\ UNCHANGED <<agent, task, mu, proxy, ending, scope, token, refused, granted, opened,
                 served, ghosts, faults>>

Relay(m) ==
  \/ Start(m) \/ EnsureSession(m) \/ ReopenAccepted(m) \/ Announce(m) \/ ReopenRefused(m)
  \/ PostFails(m) \/ Posted(m) \/ PostedInit(m) \/ Adopt(m) \/ Refused(m)
  \/ Recover(m) \/ Invalidate(m)

Done == closed /\ UNCHANGED vars

Next ==
  \/ Read \/ Close \/ Done
  \/ \E m \in Msgs : Relay(m)
  \/ \E s \in ending : EndOld(s)
  \/ Rotate \/ Refuse \/ Regrant \/ Restart

Spec == Init /\ [][Next]_vars

\* Every goroutine that can run does, and every HTTP request ends.
FairSpec ==
  /\ Spec
  /\ WF_vars(Read) /\ WF_vars(Close) /\ WF_vars(\E s \in ending : EndOld(s))
  /\ \A m \in Msgs : WF_vars(Relay(m))

-----------------------------------------------------------------------------
(* Properties.                                                              *)

\* brainsrv takes no message twice: the one retry follows only an answer that
\* says it was not taken, whatever the task was doing when it came.
ServedOnce == \A m \in Msgs : served[m] =< 1

\* No task posts to a session that another is still opening: p.mu is held
\* until notifications/initialized has been answered.
AnnouncedFirst ==
  \A m, n \in Msgs : At(m, "announce") /\ At(n, "post") => task[n].sid # sess.sid

\* Every session whose id the proxy learned is the current one, kept to be
\* ended, being ended or ended (the comment on Proxy.stale: "ended with DELETE
\* once a new one replaces it").
SessionsTracked ==
  DOMAIN opened \subseteq {sess.sid, stale.sid} \cup ending \cup ended \cup unheard
                          \cup {task[m].sid : m \in {n \in Msgs : At(n, "adopt")}}

\* Every message with an id gets one answer, and only one, for as long as each
\* HTTP request ends (relay: "so the client never waits forever").
EveryAnswered == \A m \in Msgs : At(m, "start") /\ HasId(m) ~> [](answers[m] = 1)

-----------------------------------------------------------------------------
(* What these rest on.                                                      *)

\* A message that may still be posted has not been taken.
TakenInv ==
  \A m \in Msgs : served[m] =< 1 /\ (task[m].pc \notin {"adopt", "done"} => served[m] = 0)

\* There is a session to announce.
NamedInv == \A m \in Msgs : At(m, "announce") => Current

\* The agent's initialize is relayed before everything else, and then there is a
\* stale session only while there is no current one.
OneInit == \A m \in Msgs : Is(m, "init") => m = 1

InitInv ==
  /\ \A m \in Msgs : At(m, "adopt") => Is(m, "init")
  /\ \A m \in Msgs : Is(m, "init") /\ ~At(m, "done") =>
       /\ task[m].pc \in {"unread", "start", "post", "refused", "adopt"}
       /\ At(m, "adopt") \/ task[m].sid = 0
       /\ ~Current /\ stale.sid = 0
       /\ \A n \in Msgs : n # m => At(n, "unread")
  /\ Current => stale.sid = 0
=============================================================================
