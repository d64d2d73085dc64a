--------------------------- MODULE CredentialsProofs ---------------------------
(***************************************************************************)
(* Proofs about the session of `afferent`, for any processes, any issuers,  *)
(* and any number of token responses, faults and outages.                   *)
(***************************************************************************)
EXTENDS Credentials, TLAPS

-----------------------------------------------------------------------------
(* How a step changes its process's call.                                   *)

Creds == Tokens \cup {None}

\* Only p's call changes, and is at pc then, with this credential, old session
\* and error.
Sets(p, pc, cred, old, err) ==
  /\ proc' \in [Procs -> Call] /\ \A q \in Procs \ {p} : proc'[q] = proc[q]
  /\ proc'[p].pc = pc /\ proc'[p].op = proc[p].op
  /\ proc'[p].cred = cred /\ proc'[p].old = old /\ proc'[p].err = err

Ends(p) ==
  proc' \in [Procs -> Call] /\ proc'[p] = NoCall /\ \A q \in Procs \ {p} : proc'[q] = proc[q]

\* A call begins.
Begins(p, pc, op, cred) ==
  /\ proc' \in [Procs -> Call] /\ \A q \in Procs \ {p} : proc'[q] = proc[q]
  /\ proc'[p].pc = pc /\ proc'[p].op = op /\ proc'[p].cred = cred
  /\ proc'[p].old = None /\ proc'[p].err = FALSE

LEMMA NoCallType ==
  /\ NoCall \in Call /\ NoCall.pc = "idle" /\ NoCall.op = "token" /\ NoCall.cred = None
  /\ NoCall.old = None /\ NoCall.err = FALSE
<1>1. None \in Tokens \cup {None}
  OBVIOUS
<1> HIDE DEF Tokens
<1>2. NoCall \in Call
  BY <1>1 DEF NoCall, Call, Steps
<1> QED BY <1>2 DEF NoCall

LEMMA ProcSets ==
  ASSUME proc \in [Procs -> Call], NEW p \in Procs, NEW t \in Call, proc' = [proc EXCEPT ![p] = t]
  PROVE  proc' \in [Procs -> Call] /\ proc'[p] = t /\ \A q \in Procs \ {p} : proc'[q] = proc[q]
OBVIOUS

LEMMA GotoSets ==
  ASSUME proc \in [Procs -> Call], NEW p \in Procs, NEW pc \in Steps, Goto(p, pc)
  PROVE  Sets(p, pc, proc[p].cred, proc[p].old, proc[p].err)
<1> DEFINE t == [proc[p] EXCEPT !.pc = pc]
<1>1. proc[p] \in Call
  OBVIOUS
<1> HIDE DEF Tokens
<1>2. t \in Call
  BY <1>1 DEF Call
<1>3. /\ t.pc = pc /\ t.op = proc[p].op /\ t.cred = proc[p].cred
      /\ t.old = proc[p].old /\ t.err = proc[p].err
  BY <1>1 DEF Call
<1>4. proc' = [proc EXCEPT ![p] = t]
  BY DEF Goto
<1> HIDE DEF t
<1>5. proc'[p] = t /\ proc' \in [Procs -> Call] /\ \A q \in Procs \ {p} : proc'[q] = proc[q]
  BY <1>2, <1>4
<1> QED BY <1>3, <1>5 DEF Sets

LEMMA CredSets ==
  ASSUME proc \in [Procs -> Call], NEW p \in Procs, NEW pc \in Steps, NEW c \in Creds,
         proc' = [proc EXCEPT ![p].pc = pc, ![p].cred = c]
  PROVE  Sets(p, pc, c, proc[p].old, proc[p].err)
<1> DEFINE t == [proc[p] EXCEPT !.pc = pc, !.cred = c]
<1>1. proc[p] \in Call
  OBVIOUS
<1>2. c \in Tokens \cup {None}
  BY DEF Creds
<1> HIDE DEF Tokens
<1>3. t \in Call
  BY <1>1, <1>2 DEF Call
<1>4. /\ t.pc = pc /\ t.op = proc[p].op /\ t.cred = c /\ t.old = proc[p].old /\ t.err = proc[p].err
  BY <1>1 DEF Call
<1>5. proc' = [proc EXCEPT ![p] = t]
  OBVIOUS
<1> HIDE DEF t
<1>6. proc'[p] = t /\ proc' \in [Procs -> Call] /\ \A q \in Procs \ {p} : proc'[q] = proc[q]
  BY <1>3, <1>5
<1> QED BY <1>4, <1>6 DEF Sets

LEMMA OldSets ==
  ASSUME proc \in [Procs -> Call], NEW p \in Procs, NEW pc \in Steps, NEW o \in Creds,
         proc' = [proc EXCEPT ![p].pc = pc, ![p].old = o]
  PROVE  Sets(p, pc, proc[p].cred, o, proc[p].err)
<1> DEFINE t == [proc[p] EXCEPT !.pc = pc, !.old = o]
<1>1. proc[p] \in Call
  OBVIOUS
<1>2. o \in Tokens \cup {None}
  BY DEF Creds
<1> HIDE DEF Tokens
<1>3. t \in Call
  BY <1>1, <1>2 DEF Call
<1>4. /\ t.pc = pc /\ t.op = proc[p].op /\ t.cred = proc[p].cred /\ t.old = o /\ t.err = proc[p].err
  BY <1>1 DEF Call
<1>5. proc' = [proc EXCEPT ![p] = t]
  OBVIOUS
<1> HIDE DEF t
<1>6. proc'[p] = t /\ proc' \in [Procs -> Call] /\ \A q \in Procs \ {p} : proc'[q] = proc[q]
  BY <1>3, <1>5
<1> QED BY <1>4, <1>6 DEF Sets

LEMMA ErrSets ==
  ASSUME proc \in [Procs -> Call], NEW p \in Procs, NEW pc \in Steps, NEW e \in BOOLEAN,
         proc' = [proc EXCEPT ![p].pc = pc, ![p].err = e]
  PROVE  Sets(p, pc, proc[p].cred, proc[p].old, e)
<1> DEFINE t == [proc[p] EXCEPT !.pc = pc, !.err = e]
<1>1. proc[p] \in Call
  OBVIOUS
<1> HIDE DEF Tokens
<1>3. t \in Call
  BY <1>1 DEF Call
<1>4. /\ t.pc = pc /\ t.op = proc[p].op /\ t.cred = proc[p].cred /\ t.old = proc[p].old /\ t.err = e
  BY <1>1 DEF Call
<1>5. proc' = [proc EXCEPT ![p] = t]
  OBVIOUS
<1> HIDE DEF t
<1>6. proc'[p] = t /\ proc' \in [Procs -> Call] /\ \A q \in Procs \ {p} : proc'[q] = proc[q]
  BY <1>3, <1>5
<1> QED BY <1>4, <1>6 DEF Sets

LEMMA FinishEnds ==
  ASSUME proc \in [Procs -> Call], NEW p \in Procs, Finish(p)
  PROVE  Ends(p)
BY NoCallType DEF Finish, Ends

LEMMA AskBegins ==
  ASSUME proc \in [Procs -> Call], NEW p \in Procs, NEW rej \in Creds, NEW c \in Creds,
         proc' = [proc EXCEPT ![p] = [NoCall EXCEPT !.pc = "load", !.rej = rej, !.cred = c]]
  PROVE  Begins(p, "load", "token", c)
<1> DEFINE t == [NoCall EXCEPT !.pc = "load", !.rej = rej, !.cred = c]
<1>1. NoCall \in Call /\ rej \in Tokens \cup {None} /\ c \in Tokens \cup {None}
  BY NoCallType DEF Creds
<1> HIDE DEF Tokens
<1>2. t \in Call
  BY <1>1 DEF Call, Steps
<1>3. t.pc = "load" /\ t.op = NoCall.op /\ t.cred = c /\ t.old = NoCall.old /\ t.err = NoCall.err
  BY <1>1 DEF Call
<1>4. proc' = [proc EXCEPT ![p] = t]
  OBVIOUS
<1> HIDE DEF t
<1>5. proc'[p] = t /\ proc' \in [Procs -> Call] /\ \A q \in Procs \ {p} : proc'[q] = proc[q]
  BY <1>2, <1>4
<1> QED BY <1>3, <1>5, NoCallType DEF Begins

LEMMA LoginBegins ==
  ASSUME proc \in [Procs -> Call], NEW p \in Procs, NEW c \in Creds,
         proc' = [proc EXCEPT ![p] = [NoCall EXCEPT !.pc = "lock", !.op = "login", !.cred = c]]
  PROVE  Begins(p, "lock", "login", c)
<1> DEFINE t == [NoCall EXCEPT !.pc = "lock", !.op = "login", !.cred = c]
<1>1. NoCall \in Call /\ c \in Tokens \cup {None}
  BY NoCallType DEF Creds
<1> HIDE DEF Tokens
<1>2. t \in Call
  BY <1>1 DEF Call, Steps
<1>3. t.pc = "lock" /\ t.op = "login" /\ t.cred = c /\ t.old = NoCall.old /\ t.err = NoCall.err
  BY <1>1 DEF Call
<1>4. proc' = [proc EXCEPT ![p] = t]
  OBVIOUS
<1> HIDE DEF t
<1>5. proc'[p] = t /\ proc' \in [Procs -> Call] /\ \A q \in Procs \ {p} : proc'[q] = proc[q]
  BY <1>2, <1>4
<1> QED BY <1>3, <1>5, NoCallType DEF Begins

LEMMA LogoutBegins ==
  ASSUME proc \in [Procs -> Call], NEW p \in Procs,
         proc' = [proc EXCEPT ![p] = [NoCall EXCEPT !.pc = "lock", !.op = "logout"]]
  PROVE  Begins(p, "lock", "logout", None)
<1> DEFINE t == [NoCall EXCEPT !.pc = "lock", !.op = "logout"]
<1>1. NoCall \in Call
  BY NoCallType
<1> HIDE DEF Tokens
<1>2. t \in Call
  BY <1>1 DEF Call, Steps
<1>3. t.pc = "lock" /\ t.op = "logout" /\ t.cred = NoCall.cred /\ t.old = NoCall.old /\ t.err = NoCall.err
  BY <1>1 DEF Call
<1>4. proc' = [proc EXCEPT ![p] = t]
  OBVIOUS
<1> HIDE DEF t
<1>5. proc'[p] = t /\ proc' \in [Procs -> Call] /\ \A q \in Procs \ {p} : proc'[q] = proc[q]
  BY <1>2, <1>4
<1> QED BY <1>3, <1>5, NoCallType DEF Begins

-----------------------------------------------------------------------------
(* What each step does to its call.                                         *)

\* What a process does next, and what happens without one.
Step(p) ==
  \/ \E rej \in Tokens \cup {None} : Ask(p, rej)
  \/ Login(p) \/ Logout(p) \/ Under(p) \/ Crash(p)

Others == Expire \/ KeychainGoes \/ KeychainReturns

Refusal == \E p \in Procs : KeychainRefuses(p)

LEMMA NextIsStep == Next <=> (\E p \in Procs : Step(p)) \/ Refusal \/ Others
BY DEF Next, Step, Refusal, Others

CallMoves(p) ==
  LET c == proc[p].cred  o == proc[p].old  e == proc[p].err IN
  \/ (\E rej \in Creds : Ask(p, rej)) /\ Begins(p, "load", "token", Readable(IssuerOf[p]))
  \/ Login(p) /\ Begins(p, "lock", "login", Len(issued) + 1)
  \/ Logout(p) /\ Begins(p, "lock", "logout", None)
  \/ LookUnlocked(p) /\ (Ends(p) \/ Sets(p, "lock", None, o, e))
  \/ LookLocked(p) /\ Ends(p) /\ lock' = lock
  \/ LookLocked(p) /\ Sets(p, "refresh", Load(p), o, e) /\ lock' = p /\ Load(p) # None
       /\ RT(Load(p)) # None /\ Iss(Load(p)) = IssuerOf[p]
  \/ GiveUpLock(p) /\ Ends(p)
  \/ Refreshed(p) /\ Sets(p, "saveKey", Len(issued) + 1, o, e) /\ lock' = lock /\ lost' = lost
  \/ Refreshed(p) /\ Ends(p) /\ lock' = NoProc
       /\ lost' = lost \cup ({issued'[Len(issued) + 1].rt} \ StoredRTs)
  \/ RefusedGrant(p) /\ Sets(p, "deleteKey", None, o, e)
  \/ RefreshFails(p) /\ Ends(p)
  \/ Swap(p) /\ Sets(p, "saveKey", c, Load(p), e)
  \/ Remove(p) /\ Sets(p, "deleteKey", c, Load(p), e)
  \/ Unlock(p) /\ proc[p].op = "token" /\ Ends(p)
  \/ Unlock(p) /\ proc[p].op # "token" /\ Sets(p, "revoke", None, o, e)
  \/ Revoke(p) /\ Ends(p)
  \/ SaveToKeychain(p) /\ up /\ Sets(p, "dropFile", c, o, e)
  \/ SaveToKeychain(p) /\ ~up /\ Sets(p, "saveFile", c, o, e)
  \/ DropFile(p) /\ Sets(p, "unlock", c, o, e)
  \/ SaveToFile(p) /\ Sets(p, "dropKey", c, o, e) /\ lock' = lock /\ file' = c /\ latest' = c
       /\ signedOut' = SignedInBy(p) /\ lost' = lost
  \/ SaveToFile(p) /\ Ends(p) /\ lock' = NoProc /\ lost' = lost \cup (Hands(p) \ StoredRTs)
       /\ file' = file /\ latest' = latest /\ signedOut' = signedOut
  \/ DropKey(p) /\ Sets(p, "unlock", c, o, e)
  \/ DeleteKey(p) /\ Sets(p, "deleteFile", c, o, Keychain /\ ~up)
  \/ DeleteFile(p) /\ Sets(p, "unlock", c, o, e /\ file = None) /\ file' = None
  \/ DeleteFile(p) /\ Sets(p, "unlock", c, o, TRUE) /\ file' = file
  \/ Crash(p) /\ Ends(p)

\* The part of the types that the calls rest on.
LEMMA Typed ==
  ASSUME TypeOK
  PROVE  /\ proc \in [Procs -> Call] /\ primary \in [Issuers -> Creds] /\ file \in Creds
         /\ issued \in Seq(Response) /\ Len(issued) \in Nat /\ DOMAIN issued = 1..Len(issued)
         /\ MaxTokens \in Nat /\ MaxFaults \in Nat /\ MaxOutages \in Nat /\ Creds = 0..MaxTokens
         /\ \A p \in Procs :
              /\ proc[p].cred \in Creds /\ proc[p].old \in Creds /\ proc[p].err \in BOOLEAN
              /\ proc[p].op \in {"token", "login", "logout"} /\ proc[p].pc \in Steps
              /\ IssuerOf[p] \in Issuers /\ primary[IssuerOf[p]] \in Creds
              /\ Readable(IssuerOf[p]) \in Creds /\ Load(p) \in Creds /\ p # NoProc
         /\ \A c, d \in Creds : Later(c, d) \in Creds /\ Later(c, d) \in {c, d}
<1>1. MaxTokens \in Nat /\ MaxFaults \in Nat /\ MaxOutages \in Nat
  BY BoundsAssumption
<1>2. Creds = 0..MaxTokens
  BY <1>1 DEF Creds, Tokens, None
<1>3. /\ proc \in [Procs -> Call] /\ primary \in [Issuers -> Creds] /\ file \in Creds
      /\ issued \in Seq(Response)
  BY DEF TypeOK, Creds
<1>4. Len(issued) \in Nat /\ DOMAIN issued = 1..Len(issued)
  BY <1>3
<1>5. \A c, d \in Creds : Later(c, d) \in Creds /\ Later(c, d) \in {c, d}
  BY DEF Later
<1>6. None \in Creds
  BY DEF Creds
<1>7. ASSUME NEW p \in Procs
      PROVE  /\ proc[p].cred \in Creds /\ proc[p].old \in Creds /\ proc[p].err \in BOOLEAN
             /\ proc[p].op \in {"token", "login", "logout"} /\ proc[p].pc \in Steps
  BY <1>3 DEF Call, Creds
<1>8. ASSUME NEW p \in Procs
      PROVE  /\ IssuerOf[p] \in Issuers /\ primary[IssuerOf[p]] \in Creds
             /\ Readable(IssuerOf[p]) \in Creds /\ Load(p) \in Creds /\ p # NoProc
  <2>1. IssuerOf[p] \in Issuers /\ p # NoProc
    BY ProcsAssumption
  <2>2. primary[IssuerOf[p]] \in Creds
    BY <1>3, <2>1
  <2>3. Readable(IssuerOf[p]) \in Creds
    BY <1>6, <2>2 DEF Readable
  <2> QED BY <1>3, <1>5, <2>1, <2>2, <2>3 DEF Load
<1> QED BY <1>1, <1>2, <1>3, <1>4, <1>5, <1>7, <1>8

LEMMA CallStep ==
  ASSUME TypeOK, NEW p \in Procs, Step(p)
  PROVE  CallMoves(p)
<1>a. /\ proc \in [Procs -> Call] /\ proc[p].op \in {"token", "login", "logout"}
      /\ Readable(IssuerOf[p]) \in Creds /\ Load(p) \in Creds /\ None \in Creds
      /\ Len(issued) \in Nat /\ proc[p].err \in BOOLEAN /\ MaxTokens \in Nat
  BY Typed DEF Creds
<1>b. ASSUME NEW pc \in Steps, Goto(p, pc)
      PROVE  Sets(p, pc, proc[p].cred, proc[p].old, proc[p].err)
  BY <1>a, <1>b, GotoSets
<1>c. ASSUME Finish(p) PROVE Ends(p)
  BY <1>a, <1>c, FinishEnds
<1> USE DEF CallMoves
<1>1. CASE \E rej \in Tokens \cup {None} : Ask(p, rej)
  <2>1. PICK rej \in Creds : Ask(p, rej)
    BY <1>1 DEF Creds
  <2>2. Begins(p, "load", "token", Readable(IssuerOf[p]))
    BY <1>a, <2>1, AskBegins DEF Ask
  <2> QED BY <2>1, <2>2
<1>2. CASE Login(p)
  <2>1. Len(issued) + 1 \in Creds
    <3>1. Len(issued) + outages < MaxTokens /\ outages \in Nat
      BY <1>2, BoundsAssumption DEF Login, Mint, TypeOK
    <3> QED BY <1>a, <3>1 DEF Creds, Tokens
  <2>2. Begins(p, "lock", "login", Len(issued) + 1)
    BY <1>2, <1>a, <2>1, LoginBegins DEF Login
  <2> QED BY <1>2, <2>2
<1>3. CASE Logout(p)
  BY <1>3, <1>a, LogoutBegins DEF Logout
<1>4. CASE LookUnlocked(p)
  <2>1. Finish(p) \/ proc' = [proc EXCEPT ![p].pc = "lock", ![p].cred = None]
    BY <1>4 DEF LookUnlocked
  <2>2. CASE proc' = [proc EXCEPT ![p].pc = "lock", ![p].cred = None]
    <3>1. Sets(p, "lock", None, proc[p].old, proc[p].err)
      BY <1>a, <2>2, CredSets DEF Steps
    <3> QED BY <1>4, <3>1
  <2> QED BY <1>4, <1>c, <2>1, <2>2
<1>5. CASE LookLocked(p)
  <2>1. CASE Finish(p) /\ lock' = lock
    BY <1>5, <1>c, <2>1
  <2>2. CASE ~(Finish(p) /\ lock' = lock)
    <3>1. /\ lock' = p /\ proc' = [proc EXCEPT ![p].pc = "refresh", ![p].cred = Load(p)]
          /\ Load(p) # None /\ RT(Load(p)) # None /\ Iss(Load(p)) = IssuerOf[p]
      BY <1>5, <2>2 DEF LookLocked
    <3>2. Sets(p, "refresh", Load(p), proc[p].old, proc[p].err)
      BY <1>a, <3>1, CredSets DEF Steps
    <3> QED BY <1>5, <3>1, <3>2
  <2> QED BY <2>1, <2>2
<1>6. CASE GiveUpLock(p)
  BY <1>6, <1>c DEF GiveUpLock
<1>7. CASE Refreshed(p)
  <2>1. PICK rt \in {Len(issued) + 1, RT(proc[p].cred)} :
          /\ Mint(IssuerOf[p], RT(proc[p].cred), rt)
          /\ \/ /\ proc' = [proc EXCEPT ![p].pc = "saveKey", ![p].cred = Len(issued) + 1]
                /\ UNCHANGED <<lock, lost, faults>>
             \/ /\ Fault
                /\ lost' = lost \cup ({rt} \ StoredRTs)
                /\ lock' = NoProc
                /\ Finish(p)
    BY <1>7 DEF Refreshed
  <2>2. CASE proc' = [proc EXCEPT ![p].pc = "saveKey", ![p].cred = Len(issued) + 1] /\ UNCHANGED <<lock, lost, faults>>
    <3>1. Len(issued) + 1 \in Creds
      <4>1. Len(issued) + outages < MaxTokens /\ outages \in Nat
        BY <2>1, BoundsAssumption DEF Mint, TypeOK
      <4> QED BY <1>a, <4>1 DEF Creds, Tokens
    <3>2. Sets(p, "saveKey", Len(issued) + 1, proc[p].old, proc[p].err)
      BY <1>a, <2>2, <3>1, CredSets DEF Steps
    <3> QED BY <1>7, <2>2, <3>2
  <2>3. CASE lost' = lost \cup ({rt} \ StoredRTs) /\ lock' = NoProc /\ Finish(p)
    <3>1. issued \in Seq(Response) /\ issued' = Append(issued, [iss |-> IssuerOf[p], rt |-> rt, from |-> RT(proc[p].cred)])
      BY <2>1 DEF Mint, TypeOK
    <3>2. issued'[Len(issued) + 1].rt = rt
      BY <3>1
    <3> QED BY <1>7, <1>c, <2>3, <3>2
  <2> QED BY <2>1, <2>2, <2>3
<1>8. CASE RefusedGrant(p)
  BY <1>8, <1>a, CredSets DEF RefusedGrant, Steps
<1>9. CASE RefreshFails(p)
  BY <1>9, <1>c DEF RefreshFails
<1>10. CASE Swap(p)
  <2>1. Sets(p, "saveKey", proc[p].cred, Load(p), proc[p].err)
    BY <1>10, <1>a, OldSets DEF Swap, Steps
  <2> QED BY <1>10, <2>1
<1>11. CASE Remove(p)
  <2>1. Sets(p, "deleteKey", proc[p].cred, Load(p), proc[p].err)
    BY <1>11, <1>a, OldSets DEF Remove, Steps
  <2> QED BY <1>11, <2>1
<1>12. CASE Unlock(p)
  <2>1. CASE proc[p].op = "token"
    BY <1>12, <1>c, <2>1 DEF Unlock
  <2>2. CASE proc[p].op # "token"
    <3>1. Sets(p, "revoke", None, proc[p].old, proc[p].err)
      BY <1>12, <1>a, <2>2, CredSets DEF Unlock, Steps
    <3> QED BY <1>12, <2>2, <3>1
  <2> QED BY <2>1, <2>2
<1>13. CASE Revoke(p)
  BY <1>13, <1>c DEF Revoke
<1>14. CASE SaveToKeychain(p)
  BY <1>14, <1>b DEF SaveToKeychain, Steps
<1>15. CASE DropFile(p)
  BY <1>15, <1>b DEF DropFile, Steps
<1>16. CASE SaveToFile(p)
  BY <1>16, <1>b, <1>c DEF SaveToFile, Steps
<1>17. CASE DropKey(p)
  BY <1>17, <1>b DEF DropKey, Steps
<1>18. CASE DeleteKey(p)
  <2>1. PICK e \in BOOLEAN : e = (Keychain /\ ~up)
    OBVIOUS
  <2>2. Sets(p, "deleteFile", proc[p].cred, proc[p].old, e)
    BY <1>18, <1>a, <2>1, ErrSets DEF DeleteKey, Steps
  <2> QED BY <1>18, <2>1, <2>2
<1>19. CASE DeleteFile(p)
  <2>1. PICK e \in BOOLEAN : e = (proc[p].err /\ file = None)
    OBVIOUS
  <2>2. \/ file' = None /\ proc' = [proc EXCEPT ![p].pc = "unlock", ![p].err = e]
        \/ file' = file /\ proc' = [proc EXCEPT ![p].pc = "unlock", ![p].err = TRUE]
    BY <1>19, <2>1, <1>a DEF DeleteFile
  <2>3. CASE file' = None /\ proc' = [proc EXCEPT ![p].pc = "unlock", ![p].err = e]
    <3>1. Sets(p, "unlock", proc[p].cred, proc[p].old, e)
      BY <1>a, <2>3, ErrSets DEF Steps
    <3> QED BY <1>19, <2>1, <2>3, <3>1
  <2>4. CASE file' = file /\ proc' = [proc EXCEPT ![p].pc = "unlock", ![p].err = TRUE]
    <3>1. Sets(p, "unlock", proc[p].cred, proc[p].old, TRUE)
      BY <1>a, <2>4, ErrSets DEF Steps
    <3> QED BY <1>19, <2>4, <3>1
  <2> QED BY <2>2, <2>3, <2>4
<1>20. CASE Crash(p)
  BY <1>20, <1>c DEF Crash
<1> QED BY <1>1, <1>2, <1>3, <1>4, <1>5, <1>6, <1>7, <1>8, <1>9, <1>10, <1>11, <1>12, <1>13, <1>14,
          <1>15, <1>16, <1>17, <1>18, <1>19, <1>20 DEF Step, Under

-----------------------------------------------------------------------------
(* The responses of the issuers.                                            *)

\* What a response adds.
Response1(p, from, rt) ==
  /\ Len(issued) + 1 \in Tokens
  /\ issued' = Append(issued, [iss |-> IssuerOf[p], rt |-> rt, from |-> from])
  /\ live' = (live \ (IF rt = from THEN {} ELSE {from})) \cup ({rt} \ {None})

Responds(p) ==
  \/ Login(p) /\ \E rt \in {Len(issued) + 1, None} : Response1(p, None, rt)
  \/ /\ Refreshed(p) /\ RT(proc[p].cred) \in live
     /\ \E rt \in {Len(issued) + 1, RT(proc[p].cred)} : Response1(p, RT(proc[p].cred), rt)

LEMMA ResponseStep ==
  ASSUME TypeOK, NEW p \in Procs, Step(p)
  PROVE  (issued' = issued /\ live' \subseteq live) \/ Responds(p)
<1>a. /\ Len(issued) \in Nat /\ MaxTokens \in Nat /\ outages \in Nat
  BY Typed, BoundsAssumption DEF TypeOK
<1>b. ASSUME NEW from, NEW rt, Mint(IssuerOf[p], from, rt) PROVE Response1(p, from, rt)
  BY <1>a, <1>b DEF Mint, Response1, Tokens
<1>1. CASE Login(p)
  BY <1>1, <1>b DEF Login, Responds
<1>2. CASE Refreshed(p)
  <2>1. PICK rt \in {Len(issued) + 1, RT(proc[p].cred)} : Mint(IssuerOf[p], RT(proc[p].cred), rt)
    BY <1>2 DEF Refreshed
  <2>2. Response1(p, RT(proc[p].cred), rt)
    BY <1>b, <2>1
  <2>3. RT(proc[p].cred) \in live
    BY <1>2 DEF Refreshed
  <2> QED BY <1>2, <2>2, <2>3 DEF Responds
<1>3. CASE Revoke(p)
  BY <1>3 DEF Revoke
<1>4. CASE ~Login(p) /\ ~Refreshed(p) /\ ~Revoke(p)
  BY <1>4 DEF Step, Under, Ask, Logout, LookUnlocked, LookLocked, GiveUpLock, RefusedGrant, RefreshFails, Swap,
          Remove, Unlock, SaveToKeychain, DropFile, SaveToFile, DropKey, DeleteKey, DeleteFile, Crash, server
<1> QED BY <1>1, <1>2, <1>3, <1>4

LEMMA KnownFacts ==
  ASSUME TypeOK, KnownInv
  PROVE  /\ Len(issued) \in Nat /\ Len(issued) =< MaxTokens /\ DOMAIN issued = 1..Len(issued)
         /\ 0..Len(issued) \subseteq Creds
         /\ \A c \in 0..Len(issued) : RT(c) \in 0..c /\ (c # None => c \in DOMAIN issued)
         /\ file \in 0..Len(issued) /\ latest \in 0..Len(issued) /\ expired \in 0..Len(issued)
         /\ \A i \in Issuers : primary[i] \in 0..Len(issued)
         /\ \A p \in Procs : /\ proc[p].cred \in 0..Len(issued) /\ proc[p].old \in 0..Len(issued)
                             /\ Load(p) \in 0..Len(issued) /\ Readable(IssuerOf[p]) \in 0..Len(issued)
         /\ \A r \in StoredRTs : r \in 0..Len(issued)
<1>1. Len(issued) \in Nat /\ Len(issued) =< MaxTokens /\ DOMAIN issued = 1..Len(issued) /\ MaxTokens \in Nat /\ Creds = 0..MaxTokens
  BY Typed DEF TypeOK
<1>2. \A c \in 0..Len(issued) : RT(c) \in 0..c /\ (c # None => c \in DOMAIN issued)
  BY <1>1 DEF RT, KnownInv, None
<1>3. /\ file \in 0..Len(issued) /\ latest \in 0..Len(issued) /\ expired \in 0..Len(issued)
      /\ \A i \in Issuers : primary[i] \in 0..Len(issued)
      /\ \A p \in Procs : proc[p].cred \in 0..Len(issued) /\ proc[p].old \in 0..Len(issued)
  BY DEF KnownInv
<1>4. ASSUME NEW p \in Procs
      PROVE  Load(p) \in 0..Len(issued) /\ Readable(IssuerOf[p]) \in 0..Len(issued)
  <2>1. primary[IssuerOf[p]] \in 0..Len(issued) /\ None \in 0..Len(issued)
    BY <1>1, <1>3, ProcsAssumption DEF None
  <2>2. Readable(IssuerOf[p]) \in 0..Len(issued)
    BY <2>1 DEF Readable
  <2>3. Load(p) = Readable(IssuerOf[p]) \/ Load(p) = file
    BY DEF Load, Later
  <2> QED BY <1>3, <2>2, <2>3
<1>5. \A r \in StoredRTs : r \in 0..Len(issued)
  BY <1>1, <1>2, <1>3 DEF StoredRTs
<1> QED BY <1>1, <1>2, <1>3, <1>4, <1>5

\* Responses are only added.
LEMMA Grows ==
  ASSUME TypeOK, KnownInv, NEW p \in Procs, Step(p)
  PROVE  /\ issued' \in Seq(Response) /\ Len(issued') \in Nat /\ Len(issued') =< MaxTokens
         /\ DOMAIN issued' = 1..Len(issued')
         /\ Len(issued') \in {Len(issued), Len(issued) + 1}
         /\ 0..Len(issued) \subseteq 0..Len(issued') /\ 1..Len(issued) \subseteq 1..Len(issued')
         /\ Responds(p) => Len(issued') = Len(issued) + 1
         /\ \A n \in DOMAIN issued : n \in DOMAIN issued' /\ issued'[n] = issued[n]
         /\ \A c \in 0..Len(issued) : c \in 0..Len(issued') /\ RT(c)' = RT(c)
<1>a. issued \in Seq(Response) /\ Len(issued) \in Nat /\ Len(issued) =< MaxTokens /\ DOMAIN issued = 1..Len(issued)
      /\ MaxTokens \in Nat
  BY Typed DEF TypeOK
<1>1. CASE issued' = issued /\ ~Responds(p)
  BY <1>1, <1>a DEF RT
<1>2. CASE Responds(p)
  <2>1. PICK from \in 0..Len(issued), rt \in 0..(Len(issued) + 1) : Response1(p, from, rt)
    <3>1. RT(proc[p].cred) \in 0..Len(issued)
      BY KnownFacts
    <3> QED BY <1>2, <1>a, <3>1 DEF Responds, None
  <2>2. Len(issued) + 1 =< MaxTokens /\ Len(issued) + 1 \in Tokens
    BY <1>a, <2>1 DEF Response1, Tokens
  <2> DEFINE r == [iss |-> IssuerOf[p], rt |-> rt, from |-> from]
  <2>3. from \in Tokens \cup {None} /\ rt \in Tokens \cup {None} /\ IssuerOf[p] \in Issuers
    BY <1>a, <2>1, <2>2, Typed DEF Tokens, None
  <2>4. r \in Response
    BY <2>3 DEF Response
  <2>5. issued' = Append(issued, r)
    BY <2>1 DEF Response1
  <2> HIDE DEF r
  <2>6. issued' \in Seq(Response) /\ Len(issued') = Len(issued) + 1
        /\ \A n \in DOMAIN issued : issued'[n] = issued[n]
    BY <1>a, <2>4, <2>5
  <2>7. DOMAIN issued' = 1..Len(issued')
    BY <2>6
  <2>8. \A n \in DOMAIN issued : n \in DOMAIN issued'
    BY <1>a, <2>6, <2>7
  <2>9. \A c \in 0..Len(issued) : c \in 0..Len(issued') /\ RT(c)' = RT(c)
    BY <1>a, <2>6 DEF RT, None
  <2>10. 0..Len(issued) \subseteq 0..Len(issued') /\ 1..Len(issued) \subseteq 1..Len(issued')
    BY <1>a, <2>6
  <2> QED BY <1>a, <2>2, <2>6, <2>7, <2>8, <2>9, <2>10
<1> QED BY <1>1, <1>2, ResponseStep

LEMMA StepKinds ==
  ASSUME TypeOK, NEW p \in Procs, Step(p)
  PROVE  /\ \/ primary' = primary
            \/ SaveToKeychain(p) /\ up /\ primary' = [primary EXCEPT ![IssuerOf[p]] = proc[p].cred]
            \/ (DropKey(p) \/ DeleteKey(p)) /\ up /\ primary' = [primary EXCEPT ![IssuerOf[p]] = None]
         /\ file' \in {file, None, proc[p].cred} /\ latest' \in {latest, None, proc[p].cred}
         /\ expired' = expired /\ up' = up /\ outages' = outages
         /\ got' = got \/ \E c \in {Load(p), Later(proc[p].cred, file), proc[p].cred} : got' = [got EXCEPT ![p] = c]
<1>1. primary' = primary \/ SaveToKeychain(p) \/ DropKey(p) \/ DeleteKey(p)
  BY DEF Step, Under, Ask, Login, Logout, LookUnlocked, LookLocked, GiveUpLock, Refreshed, RefusedGrant, RefreshFails, Swap,
         Remove, Unlock, Revoke, DropFile, SaveToFile, DeleteFile, Crash, store
<1>2. file' \in {file, None, proc[p].cred} /\ latest' \in {latest, None, proc[p].cred}
  BY DEF Step, Under, Ask, Login, Logout, LookUnlocked, LookLocked, GiveUpLock, Refreshed, RefusedGrant, RefreshFails, Swap,
         Remove, Unlock, Revoke, SaveToKeychain, DropFile, SaveToFile, DropKey, DeleteKey, DeleteFile, Crash, store, ghosts
<1>3. expired' = expired /\ up' = up /\ outages' = outages
  BY DEF Step, Under, Ask, Login, Logout, LookUnlocked, LookLocked, GiveUpLock, Refreshed, RefusedGrant, RefreshFails, Swap,
         Remove, Unlock, Revoke, SaveToKeychain, DropFile, SaveToFile, DropKey, DeleteKey, DeleteFile, Crash
<1>4. got' = got \/ LookUnlocked(p) \/ LookLocked(p) \/ Unlock(p)
  BY DEF Step, Under, Ask, Login, Logout, GiveUpLock, Refreshed, RefusedGrant, RefreshFails, Swap,
         Remove, Revoke, SaveToKeychain, DropFile, SaveToFile, DropKey, DeleteKey, DeleteFile, Crash
<1>5. got' = got \/ \E c \in {Load(p), Later(proc[p].cred, file), proc[p].cred} : got' = [got EXCEPT ![p] = c]
  BY <1>4 DEF LookUnlocked, LookLocked, Unlock
<1>6. SaveToKeychain(p) \/ DropKey(p) \/ DeleteKey(p) =>
        \/ primary' = primary
        \/ SaveToKeychain(p) /\ up /\ primary' = [primary EXCEPT ![IssuerOf[p]] = proc[p].cred]
        \/ (DropKey(p) \/ DeleteKey(p)) /\ up /\ primary' = [primary EXCEPT ![IssuerOf[p]] = None]
  BY DEF SaveToKeychain, DropKey, DeleteKey
<1> QED BY <1>1, <1>2, <1>3, <1>5, <1>6

\* What a process held of a session when it loses its call is of the responses.
LEMMA LostKnown ==
  ASSUME TypeOK, KnownInv, NEW p \in Procs, Step(p)
  PROVE  lost' \subseteq 1..Len(issued') /\ lost \subseteq lost'
<1>a. /\ Len(issued) \in Nat /\ lost \subseteq 1..Len(issued) /\ Len(issued') \in {Len(issued), Len(issued) + 1}
      /\ RT(proc[p].cred) \in 0..Len(issued) /\ RT(proc[p].old) \in 0..Len(issued)
  <2>1. /\ Len(issued) \in Nat /\ proc[p].cred \in 0..Len(issued) /\ proc[p].old \in 0..Len(issued)
        /\ \A c \in 0..Len(issued) : RT(c) \in 0..c
    BY KnownFacts
  <2>2. lost \subseteq 1..Len(issued)
    BY DEF KnownInv
  <2>3. Len(issued') \in {Len(issued), Len(issued) + 1}
    BY Grows
  <2> QED BY <2>1, <2>2, <2>3
<1>1. Hands(p) \subseteq 1..Len(issued)
  BY <1>a DEF Hands, None
<1>2. \/ lost' = lost \/ lost' = lost \cup Hands(p) \/ lost' = lost \cup (Hands(p) \ StoredRTs)
      \/ Refreshed(p) \/ Revoke(p)
  <2>1. lost' = lost \/ GiveUpLock(p) \/ SaveToFile(p) \/ Crash(p) \/ Refreshed(p) \/ Revoke(p)
    BY DEF Step, Under, Ask, Login, Logout, LookUnlocked, LookLocked, RefusedGrant, RefreshFails, Swap,
           Remove, Unlock, SaveToKeychain, DropFile, DropKey, DeleteKey, DeleteFile, ghosts
  <2>2. GiveUpLock(p) \/ SaveToFile(p) \/ Crash(p) =>
          lost' = lost \/ lost' = lost \cup Hands(p) \/ lost' = lost \cup (Hands(p) \ StoredRTs)
    BY DEF GiveUpLock, SaveToFile, Crash
  <2> QED BY <2>1, <2>2
<1>3. CASE Refreshed(p)
  <2>1. PICK rt \in {Len(issued) + 1, RT(proc[p].cred)} : lost' \subseteq lost \cup {rt} /\ lost \subseteq lost'
    BY <1>3 DEF Refreshed
  <2>2. RT(proc[p].cred) \in live /\ Len(issued') = Len(issued) + 1
    <3>1. PICK t \in {Len(issued) + 1, RT(proc[p].cred)} : Mint(IssuerOf[p], RT(proc[p].cred), t)
      BY <1>3 DEF Refreshed
    <3>2. issued \in Seq(Response)
      BY Typed
    <3>3. Len(issued') = Len(issued) + 1
      BY <3>1, <3>2 DEF Mint
    <3> QED BY <1>3, <3>3 DEF Refreshed
  <2>3. rt \in 1..Len(issued')
    BY <1>a, <2>2 DEF KnownInv
  <2>4. lost \subseteq 1..Len(issued')
    BY <1>a, <2>2
  <2>5. lost' \subseteq 1..Len(issued')
    <3> HIDE DEF KnownInv
    <3>1. \A x \in lost' : x \in lost \/ x = rt
      BY <2>1
    <3> QED BY <2>3, <2>4, <3>1
  <2> QED BY <2>1, <2>5
<1>4. CASE Revoke(p)
  <2>1. lost' \subseteq lost \cup ({RT(proc[p].old)} \ {None}) /\ lost \subseteq lost'
    BY <1>4 DEF Revoke
  <2> QED BY <1>a, <2>1 DEF None
<1>5. CASE lost' = lost \/ lost' = lost \cup Hands(p) \/ lost' = lost \cup (Hands(p) \ StoredRTs)
  <2>1. lost \subseteq lost' /\ lost' \subseteq lost \cup Hands(p)
    BY <1>5
  <2>2. lost' \subseteq 1..Len(issued)
    BY <1>a, <1>1, <2>1
  <2> QED BY <1>a, <2>1, <2>2
<1> QED BY <1>2, <1>3, <1>4, <1>5

-----------------------------------------------------------------------------
(* What is stored and in hand is known.                                     *)

AllCalls == \A p \in Procs : CallInv(p)

LEMMA OthersKept ==
  ASSUME TypeOK, NEW p \in Procs, Step(p)
  PROVE  proc' \in [Procs -> Call] /\ \A q \in Procs \ {p} : proc'[q] = proc[q]
BY CallStep DEF CallMoves, Sets, Ends, Begins

LEMMA ProcKnown ==
  ASSUME TypeOK, KnownInv, NEW p \in Procs, Step(p), NEW q \in Procs
  PROVE  proc'[q].cred \in 0..Len(issued') /\ proc'[q].old \in 0..Len(issued')
<1>a. /\ \A r \in Procs : proc[r].cred \in 0..Len(issued) /\ proc[r].old \in 0..Len(issued)
      /\ Load(p) \in 0..Len(issued) /\ Readable(IssuerOf[p]) \in 0..Len(issued) /\ Len(issued) \in Nat
  BY KnownFacts
<1>b. Len(issued') \in {Len(issued), Len(issued) + 1} /\ (Responds(p) => Len(issued') = Len(issued) + 1)
  BY Grows
<1>c. None \in 0..Len(issued)
  BY <1>a DEF None
<1>1. CASE q # p
  BY <1>1, <1>a, <1>b, OthersKept
<1>2. CASE q = p
  <2>1. proc'[p].old \in {None, proc[p].old, Load(p)}
    BY CallStep, NoCallType DEF CallMoves, Sets, Ends, Begins
  <2>2. \/ proc'[p].cred \in {None, proc[p].cred, Load(p), Readable(IssuerOf[p])}
        \/ proc'[p].cred = Len(issued) + 1 /\ (Login(p) \/ Refreshed(p))
    BY CallStep, NoCallType DEF CallMoves, Sets, Ends, Begins
  <2>3. Login(p) \/ Refreshed(p) => Len(issued') = Len(issued) + 1
    <3>1. issued \in Seq(Response)
      BY Typed
    <3>2. \A from, rt : Mint(IssuerOf[p], from, rt) => Len(issued') = Len(issued) + 1
      BY <3>1 DEF Mint
    <3> QED BY <3>2 DEF Login, Refreshed
  <2>4. CASE proc'[p].cred = Len(issued) + 1 /\ (Login(p) \/ Refreshed(p))
    BY <1>2, <1>a, <1>b, <1>c, <2>1, <2>3, <2>4
  <2>5. CASE proc'[p].cred \in {None, proc[p].cred, Load(p), Readable(IssuerOf[p])}
    BY <1>2, <1>a, <1>b, <1>c, <2>1, <2>5
  <2> QED BY <2>2, <2>4, <2>5
<1> QED BY <1>1, <1>2

LEMMA StoreKnown ==
  ASSUME TypeOK, KnownInv, AllCalls, NEW p \in Procs, Step(p), NEW i \in Issuers
  PROVE  primary'[i] \in 0..Len(issued) /\ (primary'[i] # None => issued[primary'[i]].iss = i)
<1>a. /\ primary \in [Issuers -> Creds] /\ primary[i] \in 0..Len(issued) /\ proc[p].cred \in 0..Len(issued)
      /\ Len(issued) \in Nat /\ IssuerOf[p] \in Issuers
  BY Typed, KnownFacts
<1>b. primary[i] # None => issued[primary[i]].iss = i
  BY DEF KnownInv, Iss
<1>c. None \in 0..Len(issued)
  BY <1>a DEF None
<1>1. CASE primary' = primary
  BY <1>1, <1>a, <1>b
<1>2. CASE SaveToKeychain(p) /\ primary' = [primary EXCEPT ![IssuerOf[p]] = proc[p].cred]
  <2>1. issued[proc[p].cred].iss = IssuerOf[p]
    BY <1>2 DEF AllCalls, CallInv, SaveToKeychain, At, Iss
  <2> QED BY <1>2, <1>a, <1>b, <2>1
<1>3. CASE primary' = [primary EXCEPT ![IssuerOf[p]] = None]
  BY <1>3, <1>a, <1>b, <1>c
<1> QED BY <1>1, <1>2, <1>3, StepKinds

LEMMA KnownStep ==
  ASSUME TypeOK, KnownInv, AllCalls, NEW p \in Procs, Step(p)
  PROVE  KnownInv'
<1>a. /\ file \in 0..Len(issued) /\ latest \in 0..Len(issued) /\ expired \in 0..Len(issued)
      /\ proc[p].cred \in 0..Len(issued) /\ Load(p) \in 0..Len(issued) /\ Len(issued) \in Nat
      /\ DOMAIN issued = 1..Len(issued)
  BY KnownFacts
<1>b. /\ Len(issued') \in {Len(issued), Len(issued) + 1} /\ DOMAIN issued' = 1..Len(issued')
      /\ \A n \in DOMAIN issued : issued'[n] = issued[n]
  BY Grows
<1>c. None \in 0..Len(issued) /\ \A c \in 0..Len(issued) : c \in 0..Len(issued')
  BY <1>a, Grows DEF None
<1>1. file' \in 0..Len(issued') /\ latest' \in 0..Len(issued') /\ expired' \in 0..Len(issued')
  BY <1>a, <1>c, StepKinds
<1>2. \A i \in Issuers : primary'[i] \in 0..Len(issued') /\ (primary'[i] # None => issued'[primary'[i]].iss = i)
  <2>1. SUFFICES ASSUME NEW i \in Issuers
                 PROVE  primary'[i] \in 0..Len(issued') /\ (primary'[i] # None => issued'[primary'[i]].iss = i)
    OBVIOUS
  <2>2. primary'[i] \in 0..Len(issued) /\ (primary'[i] # None => issued[primary'[i]].iss = i)
    BY StoreKnown
  <2>3. primary'[i] # None => primary'[i] \in DOMAIN issued
    BY <1>a, <2>2 DEF None
  <2> QED BY <1>b, <1>c, <2>2, <2>3
<1>3. \A q \in Procs : got'[q] \in 0..Len(issued')
  <2>1. got \in [Procs -> Creds] /\ \A q \in Procs : got[q] \in 0..Len(issued)
    BY DEF TypeOK, KnownInv, Creds
  <2>2. Later(proc[p].cred, file) \in 0..Len(issued)
    BY <1>a DEF Later
  <2>3. got' = got \/ \E c \in {Load(p), Later(proc[p].cred, file), proc[p].cred} : got' = [got EXCEPT ![p] = c]
    BY StepKinds
  <2>4. CASE got' = got
    BY <1>c, <2>1, <2>4
  <2>5. CASE got' # got
    <3>1. PICK c \in {Load(p), Later(proc[p].cred, file), proc[p].cred} : got' = [got EXCEPT ![p] = c]
      BY <2>3, <2>5
    <3>2. c \in 0..Len(issued)
      BY <1>a, <2>2, <3>1
    <3> QED BY <1>c, <2>1, <3>1, <3>2
  <2> QED BY <2>4, <2>5
<1>4. live' \subseteq 1..Len(issued')
  <2>1. live \subseteq 1..Len(issued)
    BY DEF KnownInv
  <2>2. CASE live' \subseteq live
    BY <2>1, <2>2, Grows
  <2>3. CASE Responds(p)
    <3>1. Len(issued') = Len(issued) + 1
      BY <2>3, Grows
    <3>2. live' \subseteq live \cup {Len(issued) + 1}
      BY <2>3 DEF Responds, Response1
    <3> QED BY <1>a, <2>1, <3>1, <3>2
  <2> QED BY <2>2, <2>3, ResponseStep
<1>5. \A n \in DOMAIN issued' : issued'[n].rt \in 0..n /\ issued'[n].from \in 0..(n - 1)
  <2>1. \A n \in DOMAIN issued : issued[n].rt \in 0..n /\ issued[n].from \in 0..(n - 1)
    BY DEF KnownInv
  <2>2. CASE issued' = issued
    BY <2>1, <2>2
  <2>3. CASE Responds(p)
    <3>1. RT(proc[p].cred) \in 0..Len(issued)
      <4>1. \A c \in 0..Len(issued) : RT(c) \in 0..c
        BY KnownFacts
      <4> QED BY <1>a, <4>1
    <3>2. PICK from \in 0..Len(issued), rt \in 0..(Len(issued) + 1) : Response1(p, from, rt)
      BY <1>a, <1>c, <2>3, <3>1 DEF Responds, None
    <3>3. issued \in Seq(Response)
      BY Typed
    <3>4. issued'[Len(issued) + 1] = [iss |-> IssuerOf[p], rt |-> rt, from |-> from]
      BY <3>2, <3>3 DEF Response1
    <3>5. issued'[Len(issued) + 1].rt = rt /\ issued'[Len(issued) + 1].from = from
      BY <3>4
    <3>6. Len(issued') = Len(issued) + 1
      BY <2>3, Grows
    <3>7. SUFFICES ASSUME NEW n \in DOMAIN issued' PROVE issued'[n].rt \in 0..n /\ issued'[n].from \in 0..(n - 1)
      OBVIOUS
    <3>8. CASE n \in DOMAIN issued
      BY <1>b, <2>1, <3>8
    <3>9. CASE n \notin DOMAIN issued
      <4>1. n = Len(issued) + 1
        BY <1>a, <1>b, <3>6, <3>9
      <4> QED BY <1>a, <3>5, <4>1
    <3> QED BY <3>8, <3>9
  <2> QED BY <2>2, <2>3, ResponseStep
<1>6. lost' \subseteq 1..Len(issued')
  BY LostKnown
<1>7. \A q \in Procs : proc'[q].cred \in 0..Len(issued') /\ proc'[q].old \in 0..Len(issued')
  BY ProcKnown
<1> QED BY <1>1, <1>2, <1>3, <1>4, <1>5, <1>6, <1>7 DEF KnownInv, Iss

\* An issuer answers for the credential it has just made.
LEMMA NewResponse ==
  ASSUME TypeOK, NEW p \in Procs, NEW from, NEW rt, Response1(p, from, rt)
  PROVE  /\ issued'[Len(issued) + 1].iss = IssuerOf[p] /\ issued'[Len(issued) + 1].rt = rt
         /\ issued'[Len(issued) + 1].from = from
<1>1. issued \in Seq(Response)
  BY Typed
<1>2. issued'[Len(issued) + 1] = [iss |-> IssuerOf[p], rt |-> rt, from |-> from]
  BY <1>1 DEF Response1
<1> QED BY <1>2

LEMMA RespondsIss ==
  ASSUME TypeOK, NEW p \in Procs, Step(p), Login(p) \/ Refreshed(p)
  PROVE  Len(issued) + 1 # None /\ issued'[Len(issued) + 1].iss = IssuerOf[p]
<1>1. issued \in Seq(Response) /\ Len(issued) \in Nat
  BY Typed
<1>2. PICK from, rt : Mint(IssuerOf[p], from, rt)
  BY DEF Login, Refreshed
<1>3. issued' = Append(issued, [iss |-> IssuerOf[p], rt |-> rt, from |-> from])
  BY <1>2 DEF Mint
<1>4. issued'[Len(issued) + 1] = [iss |-> IssuerOf[p], rt |-> rt, from |-> from]
  BY <1>1, <1>3
<1> QED BY <1>1, <1>4 DEF None

LEMMA CallsStep ==
  ASSUME TypeOK, KnownInv, AllCalls, NEW p \in Procs, Step(p)
  PROVE  AllCalls'
<1>a. /\ \A r \in Procs : proc[r].cred \in 0..Len(issued) /\ proc[r].old \in 0..Len(issued)
      /\ Load(p) \in 0..Len(issued) /\ DOMAIN issued = 1..Len(issued)
  BY KnownFacts
<1>b. \A c \in 0..Len(issued) : c # None => issued'[c] = issued[c]
  BY <1>a, Grows DEF None
<1>c. CallMoves(p)
  BY CallStep
<1>d. CallInv(p)
  BY DEF AllCalls
<1>1. ASSUME NEW q \in Procs, q # p PROVE CallInv(q)'
  <2>1. proc'[q] = proc[q]
    BY <1>1, OthersKept
  <2>2. CallInv(q)
    BY DEF AllCalls
  <2>3. proc[q].cred # None => Iss(proc[q].cred) = issued'[proc[q].cred].iss
    BY <1>a, <1>b DEF Iss
  <2> QED BY <2>1, <2>2, <2>3 DEF CallInv, At, Iss
<1>2. /\ proc'[p].pc = "idle" => proc'[p] = NoCall
      /\ proc'[p].op = "token" \/ proc'[p].pc = "lock" => proc'[p].old = None
      /\ proc'[p].pc = "lock" /\ proc'[p].op # "login" => proc'[p].cred = None
  BY <1>c, <1>d, NoCallType DEF CallMoves, Sets, Ends, Begins, CallInv, At, LookUnlocked, Swap, Remove
<1>3. /\ proc'[p].pc \in {"load", "refresh"} => proc'[p].op = "token"
      /\ proc'[p].pc \in {"deleteKey", "deleteFile"} => proc'[p].op # "login"
      /\ proc'[p].pc \in {"saveKey", "saveFile", "dropFile", "dropKey"} => proc'[p].op # "logout"
  BY <1>c, <1>d, NoCallType DEF CallMoves, Sets, Ends, Begins, CallInv, At, LookLocked, RefusedGrant, Refreshed,
         Swap, Remove, SaveToKeychain, SaveToFile, DeleteKey
<1>4. proc'[p].pc \in {"refresh", "saveKey", "saveFile"} \/ (proc'[p].pc = "lock" /\ proc'[p].op = "login") =>
        proc'[p].cred # None /\ issued'[proc'[p].cred].iss = IssuerOf[p]
  <2>1. CASE Login(p) \/ Refreshed(p)
    <3>1. proc \in [Procs -> Call] /\ proc[p] \in Call
      BY Typed
    <3>2. Login(p) => proc'[p].cred = Len(issued) + 1
      BY <3>1 DEF Login, NoCall
    <3>3. Refreshed(p) => Finish(p) \/ proc' = [proc EXCEPT ![p].pc = "saveKey", ![p].cred = Len(issued) + 1]
      BY DEF Refreshed
    <3>4. Refreshed(p) => proc'[p] = NoCall \/ proc'[p].cred = Len(issued) + 1
      BY <3>1, <3>3 DEF Finish, Call
    <3> QED BY <2>1, <3>2, <3>4, RespondsIss, NoCallType
  <2>2. CASE LookLocked(p) /\ Sets(p, "refresh", Load(p), proc[p].old, proc[p].err)
             /\ Load(p) # None /\ Iss(Load(p)) = IssuerOf[p]
    BY <1>a, <1>b, <2>2 DEF Sets, Iss
  <2>3. CASE (Swap(p) \/ SaveToKeychain(p)) /\ proc'[p].cred = proc[p].cred
    <3>1. proc[p].cred # None /\ Iss(proc[p].cred) = IssuerOf[p]
      BY <1>d, <2>3 DEF CallInv, At, Swap, SaveToKeychain
    <3> QED BY <1>a, <1>b, <2>3, <3>1 DEF Iss
  <2>4. CASE proc'[p].pc \notin {"refresh", "saveKey", "saveFile"} /\ ~(proc'[p].pc = "lock" /\ proc'[p].op = "login")
    BY <2>4
  <2>5. \/ Login(p) \/ Refreshed(p)
        \/ LookLocked(p) /\ Sets(p, "refresh", Load(p), proc[p].old, proc[p].err)
             /\ Load(p) # None /\ Iss(Load(p)) = IssuerOf[p]
        \/ (Swap(p) \/ SaveToKeychain(p)) /\ proc'[p].cred = proc[p].cred
        \/ LookUnlocked(p) /\ proc'[p].op = proc[p].op
        \/ proc'[p].pc \notin {"refresh", "saveKey", "saveFile", "lock"}
        \/ proc'[p].op = "logout" /\ proc'[p].pc = "lock"
    BY <1>c, NoCallType DEF CallMoves, Sets, Ends, Begins
  <2>6. LookUnlocked(p) /\ proc'[p].op = proc[p].op => proc'[p].op = "token" /\ proc'[p].pc \in {"idle", "lock"}
    <3>1. LookUnlocked(p) => proc[p].op = "token"
      BY <1>d DEF LookUnlocked, CallInv, At
    <3>2. LookUnlocked(p) => Ends(p) \/ Sets(p, "lock", None, proc[p].old, proc[p].err)
      BY Typed, FinishEnds, CredSets DEF LookUnlocked, Creds, Steps
    <3> QED BY <3>1, <3>2, NoCallType DEF Ends, Sets
  <2> QED BY <2>1, <2>2, <2>3, <2>4, <2>5, <2>6
<1>5. CallInv(p)'
  BY <1>2, <1>3, <1>4 DEF CallInv, At, Iss
<1> QED BY <1>1, <1>5 DEF AllCalls

-----------------------------------------------------------------------------
(* Types.                                                                   *)

\* The steps of a call without the lock.
Free == {"idle", "load", "lock", "revoke"}

LEMMA LockStep ==
  ASSUME TypeOK, NEW p \in Procs, Step(p)
  PROVE  \/ lock' = lock /\ (proc'[p].pc \in Free <=> proc[p].pc \in Free)
         \/ lock = NoProc /\ lock' = p /\ proc'[p].pc \notin Free
         \/ lock = p /\ lock' = NoProc /\ proc'[p].pc \in Free
<1>a. lock = p <=> proc[p].pc \notin Free
  BY DEF TypeOK, Free
<1>b. CallMoves(p)
  BY CallStep
<1>c. Ends(p) => proc'[p].pc = "idle"
  BY NoCallType DEF Ends
<1> DEFINE c == proc[p].cred
           o == proc[p].old
           e == proc[p].err
<1>1. CASE \/ (\E rej \in Creds : Ask(p, rej)) /\ Begins(p, "load", "token", Readable(IssuerOf[p]))
           \/ Login(p) /\ Begins(p, "lock", "login", Len(issued) + 1)
           \/ Logout(p) /\ Begins(p, "lock", "logout", None)
           \/ LookUnlocked(p) /\ (Ends(p) \/ Sets(p, "lock", None, o, e))
           \/ GiveUpLock(p) /\ Ends(p)
           \/ Revoke(p) /\ Ends(p)
  <2>1. lock' = lock /\ proc[p].pc \in Free
    BY <1>1 DEF Ask, Login, Logout, LookUnlocked, GiveUpLock, Revoke, At, Free
  <2>2. proc'[p].pc \in Free
    BY <1>1, <1>c DEF Sets, Begins, Free
  <2> QED BY <2>1, <2>2
<1>2. CASE \/ LookLocked(p) /\ Ends(p) /\ lock' = lock
           \/ LookLocked(p) /\ Sets(p, "refresh", Load(p), o, e) /\ lock' = p
           \/ Swap(p) /\ Sets(p, "saveKey", c, Load(p), e)
           \/ Remove(p) /\ Sets(p, "deleteKey", c, Load(p), e)
  <2>1. lock = NoProc /\ proc[p].pc = "lock" /\ (Swap(p) \/ Remove(p) => lock' = p)
    BY <1>2 DEF LookLocked, Swap, Remove, At
  <2> QED BY <1>2, <1>c, <2>1 DEF Sets, Free
<1>3. CASE \/ RefreshFails(p) /\ Ends(p)
           \/ Unlock(p) /\ Ends(p)
           \/ Unlock(p) /\ Sets(p, "revoke", None, o, e)
           \/ Refreshed(p) /\ Ends(p) /\ lock' = NoProc
           \/ SaveToFile(p) /\ Ends(p) /\ lock' = NoProc
  <2>1. proc[p].pc \notin Free /\ lock' = NoProc
    BY <1>3 DEF RefreshFails, Unlock, Refreshed, SaveToFile, At, Free
  <2>2. proc'[p].pc \in Free
    BY <1>3, <1>c DEF Sets, Free
  <2> QED BY <1>a, <2>1, <2>2
<1>4. CASE \/ Refreshed(p) /\ Sets(p, "saveKey", Len(issued) + 1, o, e) /\ lock' = lock
           \/ SaveToFile(p) /\ Sets(p, "dropKey", c, o, e) /\ lock' = lock
           \/ RefusedGrant(p) /\ Sets(p, "deleteKey", None, o, e)
           \/ SaveToKeychain(p) /\ Sets(p, "dropFile", c, o, e)
           \/ SaveToKeychain(p) /\ Sets(p, "saveFile", c, o, e)
           \/ DropFile(p) /\ Sets(p, "unlock", c, o, e)
           \/ DropKey(p) /\ Sets(p, "unlock", c, o, e)
           \/ DeleteKey(p) /\ Sets(p, "deleteFile", c, o, Keychain /\ ~up)
           \/ DeleteFile(p) /\ Sets(p, "unlock", c, o, e /\ file = None)
           \/ DeleteFile(p) /\ Sets(p, "unlock", c, o, TRUE)
  <2>1. proc[p].pc \notin Free /\ lock' = lock
    BY <1>4 DEF Refreshed, SaveToFile, RefusedGrant, SaveToKeychain, DropFile, DropKey, DeleteKey, DeleteFile, At, Free
  <2>2. proc'[p].pc \notin Free
    BY <1>4 DEF Sets, Free
  <2> QED BY <2>1, <2>2
<1>5. CASE Crash(p) /\ Ends(p)
  <2>1. lock' = IF lock = p THEN NoProc ELSE lock
    BY <1>5 DEF Crash
  <2> QED BY <1>5, <1>a, <1>c, <2>1 DEF Free
<1> HIDE DEF c, o, e
<1> QED BY <1>b, <1>1, <1>2, <1>3, <1>4, <1>5 DEF CallMoves, c, o, e

LEMMA TypeStep ==
  ASSUME TypeOK, KnownInv, AllCalls, NEW p \in Procs, Step(p)
  PROVE  TypeOK'
<1>a. KnownInv'
  BY KnownStep
<1>b. /\ Len(issued') \in Nat /\ Len(issued') =< MaxTokens /\ issued' \in Seq(Response) /\ MaxTokens \in Nat
      /\ primary \in [Issuers -> Creds] /\ None \in Creds
  BY Grows, Typed DEF Creds
<1>c. \A c \in 0..Len(issued') : c \in Creds
  BY <1>b DEF Creds, Tokens, None
<1>d. \A c \in 1..Len(issued') : c \in Tokens
  BY <1>b DEF Tokens
<1>e. proc[p].cred \in Creds /\ file \in Creds /\ Load(p) \in Creds /\ Later(proc[p].cred, file) \in Creds
  BY Typed
<1>1. primary' \in [Issuers -> Creds] /\ file' \in Creds
  BY <1>b, <1>e, StepKinds
<1>2. up' \in BOOLEAN /\ (up' => Keychain)
  BY StepKinds DEF TypeOK
<1>3. lock' \in Procs \cup {NoProc}
  BY LockStep DEF TypeOK
<1>4. live' \subseteq Tokens /\ lost' \subseteq Tokens
  BY <1>a, <1>d DEF KnownInv
<1>5. expired' \in 0..MaxTokens /\ latest' \in Creds /\ outages' \in 0..MaxOutages
  BY <1>e, <1>b, StepKinds DEF TypeOK, Creds
<1>6. got' \in [Procs -> Creds]
  <2>1. got \in [Procs -> Creds]
    BY DEF TypeOK, Creds
  <2> QED BY <1>e, <2>1, StepKinds
<1>7. signedOut' \subseteq Issuers
  <2>1. signedOut \subseteq Issuers /\ IssuerOf[p] \in Issuers
    BY Typed DEF TypeOK
  <2>2. \/ signedOut' = signedOut \/ signedOut' = SignedInBy(p) \/ signedOut' = signedOut \cup {IssuerOf[p]}
    <3>1. signedOut' = signedOut \/ SaveToKeychain(p) \/ SaveToFile(p) \/ Unlock(p)
      BY DEF Step, Under, Ask, Login, Logout, LookUnlocked, LookLocked, GiveUpLock, Refreshed, RefusedGrant, RefreshFails, Swap,
             Remove, Revoke, DropFile, DropKey, DeleteKey, DeleteFile, Crash, ghosts
    <3> QED BY <3>1 DEF SaveToKeychain, SaveToFile, Unlock
  <2> QED BY <2>1, <2>2 DEF SignedInBy
<1>8. faults' \in 0..MaxFaults
  <2>1. faults' = faults \/ Fault
    BY DEF Step, Under, Ask, Login, Logout, LookUnlocked, LookLocked, GiveUpLock, Refreshed, RefusedGrant, RefreshFails, Swap,
           Remove, Unlock, Revoke, SaveToKeychain, DropFile, SaveToFile, DropKey, DeleteKey, DeleteFile, Crash
  <2>2. faults \in 0..MaxFaults /\ MaxFaults \in Nat
    BY BoundsAssumption DEF TypeOK
  <2> QED BY <2>1, <2>2 DEF Fault
<1>9. proc' \in [Procs -> Call]
  BY OthersKept
<1>10. \A q \in Procs : lock' = q <=> proc'[q].pc \notin {"idle", "load", "lock", "revoke"}
  <2>1. SUFFICES ASSUME NEW q \in Procs PROVE lock' = q <=> proc'[q].pc \notin Free
    BY DEF Free
  <2>2. (lock = q <=> proc[q].pc \notin Free) /\ (lock = p <=> proc[p].pc \notin Free) /\ q # NoProc /\ p # NoProc
    BY ProcsAssumption DEF TypeOK, Free
  <2>3. q # p => proc'[q] = proc[q]
    BY OthersKept
  <2>4. CASE lock' = lock /\ (proc'[p].pc \in Free <=> proc[p].pc \in Free)
    BY <2>2, <2>3, <2>4
  <2>5. CASE lock = NoProc /\ lock' = p /\ proc'[p].pc \notin Free
    BY <2>2, <2>3, <2>5
  <2>6. CASE lock = p /\ lock' = NoProc /\ proc'[p].pc \in Free
    BY <2>2, <2>3, <2>6
  <2> QED BY <2>4, <2>5, <2>6, LockStep
<1> QED BY <1>1, <1>2, <1>3, <1>4, <1>5, <1>6, <1>7, <1>8, <1>9, <1>10, <1>b DEF TypeOK, Creds

\* The steps of nobody change only whether the Keychain answers and what has
\* expired.
LEMMA OthersStep ==
  ASSUME TypeOK, KnownInv, AllCalls, Others
  PROVE  TypeOK' /\ KnownInv' /\ AllCalls'
<1>1. /\ primary' = primary /\ file' = file /\ lock' = lock /\ issued' = issued /\ live' = live
      /\ proc' = proc /\ got' = got /\ latest' = latest /\ signedOut' = signedOut /\ lost' = lost /\ faults' = faults
  BY DEF Others, Expire, KeychainGoes, KeychainReturns, store, server, ghosts
<1>2. \/ expired' = expired
      \/ expired < Len(issued) /\ expired' = expired + 1
  BY DEF Others, Expire, KeychainGoes, KeychainReturns
<1>3. Len(issued) \in Nat /\ Len(issued) =< MaxTokens /\ MaxTokens \in Nat /\ expired \in 0..Len(issued)
  BY BoundsAssumption, KnownFacts
<1>4. expired' \in 0..Len(issued) /\ expired' \in 0..MaxTokens
  BY <1>2, <1>3
<1>5. up' \in BOOLEAN /\ (up' => Keychain)
  <2>1. up \in BOOLEAN /\ (up => Keychain)
    BY DEF TypeOK
  <2>2. CASE Expire
    BY <2>1, <2>2 DEF Expire
  <2>3. CASE KeychainGoes
    BY <2>3 DEF KeychainGoes
  <2>4. CASE KeychainReturns
    BY <2>4 DEF KeychainReturns
  <2> QED BY <2>2, <2>3, <2>4 DEF Others
<1>6. outages' \in 0..MaxOutages
  BY BoundsAssumption DEF Others, Expire, KeychainGoes, KeychainReturns, TypeOK
<1>7. TypeOK'
  BY <1>1, <1>4, <1>5, <1>6 DEF TypeOK
<1>8. KnownInv'
  BY <1>1, <1>4 DEF KnownInv, Iss
<1>9. AllCalls'
  BY <1>1 DEF AllCalls, CallInv, At, Iss
<1> QED BY <1>7, <1>8, <1>9

\* A refusal moves one process on, keeps what it holds, and stores nothing.
Refuses(p) ==
  /\ primary' = primary /\ file' = file /\ up' = up /\ lock' = lock /\ issued' = issued /\ live' = live
  /\ expired' = expired /\ got' = got /\ signedOut' = signedOut /\ lost' = lost /\ faults' = faults
  /\ latest' \in {latest, None} /\ outages' = outages + 1 /\ outages < MaxOutages
  /\ \/ /\ proc[p].pc = "saveKey" /\ latest' = latest
        /\ Sets(p, "saveFile", proc[p].cred, proc[p].old, proc[p].err)
     \/ /\ proc[p].pc = "dropKey" /\ latest' = latest
        /\ Sets(p, "unlock", proc[p].cred, proc[p].old, proc[p].err)
     \/ /\ proc[p].pc = "deleteKey" /\ latest' = None
        /\ Sets(p, "deleteFile", proc[p].cred, proc[p].old, TRUE)

LEMMA RefusalMove ==
  ASSUME TypeOK, NEW p \in Procs, KeychainRefuses(p)
  PROVE  Refuses(p)
<1>a. /\ proc \in [Procs -> Call] /\ proc[p].op \in {"token", "login", "logout"}
  BY Typed
<1>b. ASSUME NEW pc \in Steps, Goto(p, pc)
      PROVE  Sets(p, pc, proc[p].cred, proc[p].old, proc[p].err)
  BY <1>a, <1>b, GotoSets
<1>c. proc' = [proc EXCEPT ![p].pc = "deleteFile", ![p].err = TRUE]
        => Sets(p, "deleteFile", proc[p].cred, proc[p].old, TRUE)
  BY <1>a, ErrSets DEF Steps
<1>d. "saveFile" \in Steps /\ "unlock" \in Steps
  BY DEF Steps
<1> QED BY <1>b, <1>c, <1>d DEF KeychainRefuses, Refuses, At, store, server

LEMMA RefusalStep ==
  ASSUME TypeOK, KnownInv, AllCalls, Refusal
  PROVE  TypeOK' /\ KnownInv' /\ AllCalls'
<1>1. PICK p \in Procs : KeychainRefuses(p)
  BY DEF Refusal
<1>2. Refuses(p)
  BY <1>1, RefusalMove
<1>3. /\ proc' \in [Procs -> Call] /\ \A q \in Procs \ {p} : proc'[q] = proc[q]
      /\ proc'[p].cred = proc[p].cred /\ proc'[p].old = proc[p].old /\ proc'[p].op = proc[p].op
      /\ proc[p].pc \in {"saveKey", "dropKey", "deleteKey"}
  BY <1>2 DEF Refuses, Sets
<1>4. TypeOK'
  <2>1. outages' \in 0..MaxOutages
    BY <1>2, BoundsAssumption DEF Refuses, TypeOK
  <2>2. latest' \in Creds
    BY <1>2 DEF Refuses, TypeOK, Creds
  <2>3. proc'[p].pc \notin Free /\ proc[p].pc \notin Free
    BY <1>2 DEF Refuses, Sets, Free
  <2>4. \A q \in Procs : lock' = q <=> proc'[q].pc \notin Free
    BY <1>2, <1>3, <2>3 DEF Refuses, TypeOK, Free
  <2> QED BY <1>2, <1>3, <2>1, <2>2, <2>4 DEF Refuses, TypeOK, Creds, Free
<1>5. KnownInv'
  <2>1. latest' \in 0..Len(issued)
    BY <1>2, KnownFacts DEF Refuses, None
  <2>2. \A q \in Procs : proc'[q].cred = proc[q].cred /\ proc'[q].old = proc[q].old
    BY <1>3
  <2> QED BY <1>2, <2>1, <2>2 DEF Refuses, KnownInv, Iss
<1>6. AllCalls'
  <2>1. SUFFICES ASSUME NEW q \in Procs PROVE CallInv(q)'
    BY DEF AllCalls
  <2>2. CASE q # p
    BY <1>2, <1>3, <2>2 DEF Refuses, AllCalls, CallInv, At, Iss
  <2>3. CASE q = p
    BY <1>2, <1>3, <2>3 DEF Refuses, Sets, AllCalls, CallInv, At, Iss
  <2> QED BY <2>2, <2>3
<1> QED BY <1>4, <1>5, <1>6

LEMMA TypeStutter ==
  ASSUME TypeOK, KnownInv, AllCalls, UNCHANGED vars
  PROVE  TypeOK' /\ KnownInv' /\ AllCalls'
<1>1. /\ primary' = primary /\ file' = file /\ lock' = lock /\ issued' = issued /\ live' = live
      /\ proc' = proc /\ got' = got /\ latest' = latest /\ signedOut' = signedOut /\ lost' = lost /\ faults' = faults
      /\ expired' = expired /\ up' = up /\ outages' = outages
  BY DEF vars, store, server, ghosts
<1>2. TypeOK'
  BY <1>1 DEF TypeOK
<1>3. KnownInv'
  BY <1>1 DEF KnownInv, Iss
<1>4. AllCalls'
  BY <1>1 DEF AllCalls, CallInv, At, Iss
<1> QED BY <1>2, <1>3, <1>4

LEMMA TypeInit == Init => TypeOK /\ KnownInv /\ AllCalls
<1> SUFFICES ASSUME Init PROVE TypeOK /\ KnownInv /\ AllCalls
  OBVIOUS
<1>1. /\ \A i \in Issuers : primary[i] = None
      /\ \A p \in Procs : proc[p] = NoCall /\ got[p] = None
      /\ file = None /\ up = Keychain /\ lock = NoProc /\ issued = <<>> /\ live = {} /\ expired = 0
      /\ latest = None /\ signedOut = {} /\ lost = {} /\ faults = 0 /\ outages = 0
  BY DEF Init
<1>2. primary \in [Issuers -> Tokens \cup {None}] /\ got \in [Procs -> Tokens \cup {None}] /\ proc \in [Procs -> Call]
  BY NoCallType DEF Init
<1>3. issued \in Seq(Response) /\ Len(issued) = 0 /\ DOMAIN issued = {}
  BY <1>1
<1>4. MaxTokens \in Nat /\ 0 \in 0..MaxTokens /\ 0 \in 0..MaxFaults /\ 0 \in 0..MaxOutages
  BY BoundsAssumption
<1> HIDE DEF Init
<1>5. TypeOK
  <2>1. \A p \in Procs : lock = p <=> proc[p].pc \notin {"idle", "load", "lock", "revoke"}
    BY <1>1, NoCallType, ProcsAssumption
  <2>2. up \in BOOLEAN /\ (up => Keychain)
    BY <1>1, KeychainAssumption
  <2>3. Len(issued) =< MaxTokens
    BY <1>3, <1>4
  <2> HIDE DEF Response, Tokens
  <2> QED BY <1>1, <1>2, <1>3, <1>4, <2>1, <2>2, <2>3 DEF TypeOK
<1>6. KnownInv
  BY <1>1, <1>3, NoCallType DEF KnownInv, None
<1>7. AllCalls
  BY <1>1, NoCallType DEF AllCalls, CallInv, At
<1> QED BY <1>5, <1>6, <1>7

\* The types are kept, and in particular one process at most holds the lock and
\* is at the steps that need it, whatever the processes, faults and outages.
THEOREM TypeCorrect == Spec => []TypeOK
<1>1. Init => TypeOK /\ KnownInv /\ AllCalls
  BY TypeInit
<1>2. TypeOK /\ KnownInv /\ AllCalls /\ [Next]_vars => TypeOK' /\ KnownInv' /\ AllCalls'
  BY TypeStep, KnownStep, CallsStep, RefusalStep, OthersStep, TypeStutter, NextIsStep
<1> QED BY <1>1, <1>2, PTL DEF Spec

-----------------------------------------------------------------------------
(* The holder of the lock.                                                  *)

\* What one of two processes changes while the other is at a step that needs
\* the lock: nothing stored, and at most one token the issuers accept, its own.
LEMMA AsideStep ==
  ASSUME TypeOK, NEW p \in Procs, Step(p), NEW q \in Procs, q # p, proc[q].pc \notin Free
  PROVE  /\ primary' = primary /\ file' = file /\ up' = up /\ latest' = latest /\ signedOut' = signedOut
         /\ proc'[q] = proc[q] /\ live' \subseteq live \cup {Len(issued) + 1} /\ proc[p].pc \in Free
<1>1. lock = q /\ lock # p /\ lock # NoProc /\ proc[p].pc \in Free
  BY ProcsAssumption DEF TypeOK, Free
<1>2. \/ \E rej \in Tokens \cup {None} : Ask(p, rej)
      \/ Login(p) \/ Logout(p) \/ LookUnlocked(p) \/ GiveUpLock(p) \/ Revoke(p) \/ Crash(p)
  BY <1>1 DEF Step, Under, LookLocked, Refreshed, RefusedGrant, RefreshFails, Swap, Remove, Unlock,
         SaveToKeychain, DropFile, SaveToFile, DropKey, DeleteKey, DeleteFile, At, Free
<1>3. /\ primary' = primary /\ file' = file /\ up' = up /\ latest' = latest /\ signedOut' = signedOut
  BY <1>2 DEF Ask, Login, Logout, LookUnlocked, GiveUpLock, Revoke, Crash, store, ghosts
<1>4. live' \subseteq live \cup {Len(issued) + 1}
  <2>1. CASE Login(p)
    <3>1. PICK rt \in {Len(issued) + 1, None} : Mint(IssuerOf[p], None, rt)
      BY <2>1 DEF Login
    <3> QED BY <3>1 DEF Mint
  <2>2. CASE ~Login(p)
    BY <1>2, <2>2 DEF Ask, Logout, LookUnlocked, GiveUpLock, Revoke, Crash, server
  <2> QED BY <2>1, <2>2
<1> QED BY <1>1, <1>3, <1>4, OthersKept

\* With one copy, that is what is loaded.
LEMMA LoadOne ==
  ASSUME TypeOK, OneCopy, NEW p \in Procs
  PROVE  /\ Keychain => Load(p) = primary[IssuerOf[p]] /\ Readable(IssuerOf[p]) = primary[IssuerOf[p]]
         /\ ~Keychain => Load(p) = file /\ Readable(IssuerOf[p]) = None
<1>1. file \in 0..MaxTokens /\ primary[IssuerOf[p]] \in 0..MaxTokens /\ MaxTokens \in Nat
  BY Typed
<1>2. CASE Keychain
  <2>1. up /\ file = 0
    BY <1>2 DEF OneCopy, None
  <2> QED BY <1>1, <1>2, <2>1 DEF Load, Later, Readable
<1>3. CASE ~Keychain
  <2>1. ~up
    BY <1>3 DEF OneCopy
  <2> QED BY <1>1, <1>3, <2>1 DEF Load, Later, Readable, None
<1> QED BY <1>2, <1>3

LEMMA LoadSame ==
  ASSUME primary' = primary, file' = file, up' = up
  PROVE  \A p \in Procs : Load(p)' = Load(p) /\ Readable(IssuerOf[p])' = Readable(IssuerOf[p])
BY DEF Load, Readable, Later

LEMMA OneCopyStep ==
  ASSUME TypeOK, OneCopy, NEW p \in Procs, HolderInv(p), Step(p)
  PROVE  OneCopy'
<1>1. up' = up
  BY StepKinds
<1>2. CASE Keychain
  <2>1. file' \in {file, None}
    <3>1. ~SaveToFile(p)
      BY <1>2 DEF HolderInv, SaveToFile
    <3> QED BY <3>1 DEF Step, Under, Ask, Login, Logout, LookUnlocked, LookLocked, GiveUpLock, Refreshed, RefusedGrant, RefreshFails, Swap,
             Remove, Unlock, Revoke, SaveToKeychain, DropFile, DropKey, DeleteKey, DeleteFile, Crash, store
  <2> QED BY <1>1, <1>2, <2>1 DEF OneCopy
<1>3. CASE ~Keychain
  <2>1. ~up
    BY <1>3 DEF OneCopy
  <2>2. primary' = primary
    BY <2>1, StepKinds
  <2> QED BY <1>1, <1>3, <2>2 DEF OneCopy
<1> QED BY <1>2, <1>3

\* What the holder knows is not disturbed by another process.
LEMMA HolderOthers ==
  ASSUME TypeOK, KnownInv, NEW p \in Procs, Step(p), NEW q \in Procs, q # p, HolderInv(q)
  PROVE  HolderInv(q)'
<1>1. proc'[q] = proc[q]
  BY OthersKept
<1>2. CASE proc[q].pc \in Free
  BY <1>1, <1>2 DEF HolderInv, At, Free
<1>3. CASE proc[q].pc \notin Free
  <2>1. /\ primary' = primary /\ file' = file /\ up' = up /\ live' \subseteq live \cup {Len(issued) + 1}
    BY <1>3, AsideStep
  <2>2. Load(q)' = Load(q)
    BY <2>1, LoadSame
  <2>3. /\ RT(Load(q))' = RT(Load(q)) /\ RT(file)' = RT(file) /\ RT(proc[q].cred)' = RT(proc[q].cred)
        /\ RT(Load(q)) # Len(issued) + 1 /\ RT(file) # Len(issued) + 1
    <3>1. /\ Load(q) \in 0..Len(issued) /\ file \in 0..Len(issued) /\ proc[q].cred \in 0..Len(issued)
          /\ Len(issued) \in Nat /\ \A c \in 0..Len(issued) : RT(c) \in 0..c
      BY KnownFacts
    <3>2. \A c \in 0..Len(issued) : (IF c = None THEN None ELSE issued'[c].rt) = RT(c)
      BY Grows DEF RT
    <3>3. RT(Load(q))' = RT(Load(q)) /\ RT(file)' = RT(file) /\ RT(proc[q].cred)' = RT(proc[q].cred)
      BY <3>1, <3>2, <2>1, <2>2, <1>1 DEF RT
    <3> QED BY <3>1, <3>3
  <2> QED BY <1>1, <2>1, <2>2, <2>3 DEF HolderInv, At
<1> QED BY <1>2, <1>3

\* After a refresh, the refresh token it replaced is spent or kept.
LEMMA RefreshedHolder ==
  ASSUME TypeOK, KnownInv, AllCalls, NEW p \in Procs, HolderInv(p), Step(p), Refreshed(p)
  PROVE  /\ primary' = primary /\ file' = file /\ up' = up /\ proc[p].op = "token" /\ proc[p].cred = Load(p)
         /\ RT(Load(p))' \notin live' \ {issued'[Len(issued) + 1].rt}
<1>1. primary' = primary /\ file' = file /\ up' = up
  BY DEF Refreshed, store
<1>2. proc[p].op = "token" /\ proc[p].cred = Load(p)
  BY DEF Refreshed, AllCalls, CallInv, HolderInv, At
<1>3. PICK rt \in {Len(issued) + 1, RT(proc[p].cred)} : Mint(IssuerOf[p], RT(proc[p].cred), rt)
  BY DEF Refreshed
<1>4. issued'[Len(issued) + 1].rt = rt
  <2>1. issued \in Seq(Response)
    BY Typed
  <2>2. issued'[Len(issued) + 1] = [iss |-> IssuerOf[p], rt |-> rt, from |-> RT(proc[p].cred)]
    BY <1>3, <2>1 DEF Mint
  <2> QED BY <2>2
<1>5. live' = (live \ (IF rt = RT(proc[p].cred) THEN {} ELSE {RT(proc[p].cred)})) \cup ({rt} \ {None})
  BY <1>3 DEF Mint
<1>6. RT(Load(p))' = RT(Load(p))
  <2>1. Load(p) \in 0..Len(issued) /\ Load(p)' = Load(p)
    BY <1>1, KnownFacts, LoadSame
  <2>2. \A c \in 0..Len(issued) : (IF c = None THEN None ELSE issued'[c].rt) = RT(c)
    BY Grows DEF RT
  <2> QED BY <2>1, <2>2 DEF RT
<1> QED BY <1>1, <1>2, <1>4, <1>5, <1>6

LEMMA HolderOwn ==
  ASSUME TypeOK, KnownInv, AllCalls, OneCopy, NEW p \in Procs, HolderInv(p), Step(p)
  PROVE  HolderInv(p)'
<1> DEFINE c == proc[p].cred
           o == proc[p].old
           e == proc[p].err
<1>a. CallMoves(p)
  BY CallStep
<1>b. CallInv(p)
  BY DEF AllCalls
<1>c. /\ Load(p) \in 0..Len(issued) /\ file \in 0..Len(issued) /\ c \in 0..Len(issued)
      /\ \A d \in 0..Len(issued) : (IF d = None THEN None ELSE issued'[d].rt) = RT(d)
  BY KnownFacts, Grows DEF RT
<1>d. 0 \notin live /\ 0 \notin live'
  <2>1. KnownInv'
    BY KnownStep
  <2> QED BY <2>1 DEF KnownInv
<1>1. CASE Ends(p)
  BY <1>1, NoCallType DEF Ends, HolderInv, At
<1>2. CASE \/ (\E rej \in Creds : Ask(p, rej)) /\ Begins(p, "load", "token", Readable(IssuerOf[p]))
           \/ Login(p) /\ Begins(p, "lock", "login", Len(issued) + 1)
           \/ Logout(p) /\ Begins(p, "lock", "logout", None)
           \/ LookUnlocked(p) /\ Sets(p, "lock", None, o, e)
           \/ Unlock(p) /\ Sets(p, "revoke", None, o, e)
  <2>1. proc'[p].pc \in {"load", "lock", "revoke"}
    BY <1>2 DEF Begins, Sets
  <2> QED BY <2>1 DEF HolderInv, At
<1>3. CASE LookLocked(p) /\ Sets(p, "refresh", Load(p), o, e)
  <2>1. Load(p)' = Load(p)
    BY <1>3, LoadSame DEF LookLocked, store
  <2> QED BY <1>3, <2>1 DEF Sets, HolderInv, At
<1>4. CASE Refreshed(p) /\ Sets(p, "saveKey", Len(issued) + 1, o, e)
  <2>1. proc'[p].op = "token" /\ proc'[p].pc = "saveKey" /\ proc'[p].cred = Len(issued) + 1
    BY <1>4, RefreshedHolder DEF Sets
  <2>2. Len(issued) + 1 # None
    BY Typed DEF None
  <2>3. RT(Load(p))' \notin live' \ {RT(proc[p].cred)'}
    BY <1>4, <2>1, <2>2, RefreshedHolder DEF RT
  <2> QED BY <2>1, <2>3 DEF HolderInv, At
<1>5. CASE Swap(p) /\ Sets(p, "saveKey", c, Load(p), e)
  <2>1. Load(p)' = Load(p) /\ proc[p].op = "login"
    BY <1>5, LoadSame DEF Swap, store
  <2> QED BY <1>5, <2>1 DEF Sets, HolderInv, At
<1>6. CASE RefusedGrant(p) /\ Sets(p, "deleteKey", None, o, e)
  <2>1. Load(p)' = Load(p) /\ proc[p].op = "token" /\ issued' = issued /\ live' = live
    BY <1>6, <1>b, LoadSame DEF RefusedGrant, store, server, CallInv, At
  <2>2. RT(Load(p)) \notin live
    BY <1>6 DEF RefusedGrant, HolderInv, At
  <2>3. RT(Load(p))' \notin live'
    BY <2>1, <2>2 DEF RT
  <2> QED BY <1>6, <2>1, <2>3 DEF Sets, HolderInv, At
<1>7. CASE Remove(p) /\ Sets(p, "deleteKey", c, Load(p), e)
  <2>1. Load(p)' = Load(p) /\ proc[p].op = "logout"
    BY <1>7, LoadSame DEF Remove, store
  <2> QED BY <1>7, <2>1 DEF Sets, HolderInv, At
<1>8. CASE SaveToKeychain(p) /\ up /\ Sets(p, "dropFile", c, o, e)
  BY <1>8 DEF Sets, HolderInv, At, OneCopy
<1>9. CASE SaveToKeychain(p) /\ ~up /\ Sets(p, "saveFile", c, o, e)
  <2>1. primary' = primary /\ file' = file /\ up' = up /\ issued' = issued /\ live' = live /\ ~Keychain
        /\ proc[p].pc = "saveKey"
    BY <1>9 DEF SaveToKeychain, server, OneCopy, At
  <2>2. Load(p)' = Load(p)
    BY <2>1, LoadSame
  <2>3. /\ proc'[p].cred = c /\ proc'[p].op = proc[p].op /\ proc'[p].old = o /\ proc'[p].pc = "saveFile"
    BY <1>9 DEF Sets
  <2>4. RT(Load(p))' = RT(Load(p)) /\ RT(proc[p].cred)' = RT(proc[p].cred)
    BY <2>1, <2>2, <2>3 DEF RT
  <2> QED BY <2>1, <2>2, <2>3, <2>4 DEF HolderInv, At
<1>10. CASE (DropFile(p) \/ DropKey(p)) /\ Sets(p, "unlock", c, o, e)
  <2>1. proc[p].op # "logout"
    BY <1>10, <1>b DEF DropFile, DropKey, CallInv, At
  <2> QED BY <1>10, <2>1 DEF Sets, HolderInv, At
<1>11. CASE SaveToFile(p) /\ Sets(p, "dropKey", c, o, e)
  <2>1. ~Keychain
    BY <1>11 DEF SaveToFile, HolderInv, At
  <2> QED BY <1>11, <2>1 DEF Sets, HolderInv, At
<1>12. CASE DeleteKey(p) /\ Sets(p, "deleteFile", c, o, Keychain /\ ~up)
  <2>1. file' = file /\ issued' = issued /\ live' = live /\ proc[p].pc = "deleteKey"
        /\ primary' = IF up THEN [primary EXCEPT ![IssuerOf[p]] = None] ELSE primary
    BY <1>12 DEF DeleteKey, server, At
  <2>2. primary'[IssuerOf[p]] = None
    <3>1. primary \in [Issuers -> Creds] /\ IssuerOf[p] \in Issuers
      BY Typed
    <3> QED BY <2>1, <3>1 DEF OneCopy
  <2>3. file = None \/ file = Load(p)
    BY LoadOne DEF OneCopy
  <2>4. proc[p].op = "token" => RT(file) \notin live
    BY <2>1, <2>3, <1>d DEF HolderInv, At, RT, None
  <2>5. proc[p].op # "token" => file \in {None, o}
    BY <2>1, <2>3 DEF HolderInv, At
  <2>6. RT(file)' = RT(file)
    BY <2>1 DEF RT
  <2>7. proc'[p].pc = "deleteFile" /\ proc'[p].old = o /\ proc'[p].op = proc[p].op
    BY <1>12 DEF Sets
  <2> QED BY <2>1, <2>2, <2>4, <2>5, <2>6, <2>7 DEF HolderInv, At
<1>13. CASE DeleteFile(p) /\ Sets(p, "unlock", c, o, e /\ file = None) /\ file' = None
  <2>1. primary' = primary /\ primary[IssuerOf[p]] = None
    BY <1>13 DEF DeleteFile, HolderInv, At
  <2> QED BY <1>13, <2>1 DEF Sets, HolderInv, At
<1>14. CASE DeleteFile(p) /\ Sets(p, "unlock", c, o, TRUE) /\ file' = file
  BY <1>14 DEF Sets, HolderInv, At
<1> HIDE DEF c, o, e
<1> QED BY <1>a, <1>1, <1>2, <1>3, <1>4, <1>5, <1>6, <1>7, <1>8, <1>9, <1>10, <1>11, <1>12, <1>13, <1>14 DEF CallMoves, c, o, e

LEMMA HolderStep ==
  ASSUME TypeOK, KnownInv, AllCalls, HolderKnows, NEW p \in Procs, Step(p)
  PROVE  HolderKnows'
<1>1. SUFFICES ASSUME Answering' PROVE OneCopy' /\ \A q \in Procs : HolderInv(q)'
  BY DEF HolderKnows
<1>2. OneCopy /\ \A q \in Procs : HolderInv(q)
  BY <1>1, StepKinds DEF HolderKnows, Answering
<1> QED BY <1>2, OneCopyStep, HolderOthers, HolderOwn

\* While the Keychain has answered throughout, the steps of nobody are the
\* expiry of a token.
LEMMA OthersAnswering ==
  ASSUME TypeOK, HolderKnows, Others, Answering'
  PROVE  /\ Answering /\ primary' = primary /\ file' = file /\ up' = up /\ issued' = issued /\ live' = live
         /\ proc' = proc /\ signedOut' = signedOut /\ lost' = lost /\ latest' = latest
<1>1. Answering /\ ~KeychainGoes
  BY BoundsAssumption DEF Others, Expire, KeychainGoes, KeychainReturns, Answering, TypeOK
<1>2. ~KeychainReturns
  BY <1>1 DEF KeychainReturns, HolderKnows, OneCopy
<1>3. Expire
  BY <1>1, <1>2 DEF Others
<1> QED BY <1>1, <1>3 DEF Expire, store, server, ghosts

\* After a refusal it has not.
LEMMA RefusalUnanswered ==
  ASSUME TypeOK, Refusal
  PROVE  ~Answering'
<1>1. outages \in Nat /\ outages' = outages + 1
  BY BoundsAssumption DEF Refusal, KeychainRefuses, TypeOK
<1> QED BY <1>1 DEF Answering

LEMMA HolderSame ==
  ASSUME primary' = primary, file' = file, up' = up, issued' = issued, live' = live, proc' = proc
  PROVE  /\ OneCopy => OneCopy'
         /\ \A p \in Procs : HolderInv(p) => HolderInv(p)'
<1>1. OneCopy => OneCopy'
  BY DEF OneCopy
<1>2. ASSUME NEW p \in Procs, HolderInv(p) PROVE HolderInv(p)'
  <2>1. Load(p)' = Load(p)
    BY LoadSame
  <2>2. RT(Load(p))' = RT(Load(p)) /\ RT(file)' = RT(file) /\ RT(proc[p].cred)' = RT(proc[p].cred)
    BY <2>1 DEF RT
  <2> QED BY <1>2, <2>1, <2>2 DEF HolderInv, At
<1> QED BY <1>1, <1>2

-----------------------------------------------------------------------------
(* Signing out.                                                             *)

\* Who is signed out after a step.
LEMMA SignedOutMoves ==
  ASSUME TypeOK, NEW p \in Procs, Step(p)
  PROVE  \/ signedOut' = signedOut /\ ~(SaveToKeychain(p) /\ up) /\ file' \in {file, None}
         \/ SaveToKeychain(p) /\ up /\ signedOut' = SignedInBy(p) /\ file' = file
         \/ SaveToFile(p) /\ signedOut' = SignedInBy(p) /\ primary' = primary /\ file' = proc[p].cred
         \/ Unlock(p) /\ proc[p].op = "logout" /\ ~proc[p].err /\ signedOut' = signedOut \cup {IssuerOf[p]}
              /\ primary' = primary /\ file' = file
<1>1. CASE SaveToKeychain(p)
  BY <1>1 DEF SaveToKeychain
<1>2. CASE SaveToFile(p)
  <2>1. ~SaveToKeychain(p)
    BY <1>2 DEF SaveToFile, SaveToKeychain, At
  <2> QED BY <1>2, <2>1 DEF SaveToFile
<1>3. CASE Unlock(p)
  <2>1. ~SaveToKeychain(p)
    BY <1>3 DEF Unlock, SaveToKeychain, At
  <2>2. primary' = primary /\ file' = file
    BY <1>3 DEF Unlock, store
  <2> QED BY <1>3, <2>1, <2>2 DEF Unlock
<1>4. CASE ~SaveToKeychain(p) /\ ~SaveToFile(p) /\ ~Unlock(p)
  BY <1>4 DEF Step, Under, Ask, Login, Logout, LookUnlocked, LookLocked, GiveUpLock, Refreshed, RefusedGrant, RefreshFails, Swap,
         Remove, Revoke, DropFile, DropKey, DeleteKey, DeleteFile, Crash, ghosts, store
<1> QED BY <1>1, <1>2, <1>3, <1>4

\* A refresh that is under way is for an issuer nobody is signed out of.
Refreshing(p) == proc[p].op = "token" /\ proc[p].pc \in {"refresh", "saveKey", "saveFile"}

LEMMA RefreshingStep ==
  ASSUME TypeOK, KnownInv, AllCalls, NEW p \in Procs, Step(p), Refreshing(p)'
  PROVE  \/ Refreshing(p)
         \/ LookLocked(p) /\ Load(p) # None /\ Iss(Load(p)) = IssuerOf[p]
<1>1. CallMoves(p) /\ CallInv(p)
  BY CallStep DEF AllCalls
<1>2. Ends(p) => proc'[p].pc = "idle"
  BY NoCallType DEF Ends
<1>3. \/ proc'[p].pc \notin {"refresh", "saveKey", "saveFile"}
      \/ LookLocked(p) /\ Load(p) # None /\ Iss(Load(p)) = IssuerOf[p]
      \/ (Refreshed(p) \/ Swap(p) \/ SaveToKeychain(p)) /\ proc'[p].op = proc[p].op
  BY <1>1, <1>2 DEF CallMoves, Sets, Begins
<1>4. Refreshed(p) \/ SaveToKeychain(p) => proc[p].pc \in {"refresh", "saveKey", "saveFile"}
  BY DEF Refreshed, SaveToKeychain, At
<1>5. Swap(p) => proc[p].op = "login"
  BY DEF Swap
<1> QED BY <1>3, <1>4, <1>5 DEF Refreshing

LEMMA SignedOutStep ==
  ASSUME TypeOK, KnownInv, AllCalls, HolderKnows, SignedOutInv, NEW p \in Procs, Step(p)
  PROVE  SignedOutInv'
<1>1. SUFFICES ASSUME Answering', NEW i \in signedOut'
               PROVE  /\ primary'[i] = None /\ (file' # None => issued'[file'].iss # i)
                      /\ \A q \in Procs : Refreshing(q)' => IssuerOf[q] # i
  BY DEF SignedOutInv, Iss, Refreshing
<1>2. /\ Answering /\ OneCopy /\ \A q \in Procs : HolderInv(q)
      /\ i \in Issuers
  <2>1. TypeOK'
    BY TypeStep
  <2> QED BY <1>1, <2>1, StepKinds DEF HolderKnows, Answering, TypeOK
<1>a. /\ primary \in [Issuers -> Creds] /\ IssuerOf[p] \in Issuers /\ file \in 0..Len(issued) /\ proc[p].cred \in 0..Len(issued)
      /\ \A c \in 0..Len(issued) : c # None => issued'[c] = issued[c]
  <2>1. DOMAIN issued = 1..Len(issued)
    BY Typed
  <2>2. \A c \in 0..Len(issued) : c # None => c \in DOMAIN issued
    BY KnownFacts
  <2> QED BY <2>2, Typed, KnownFacts, Grows
<1>3. ASSUME NEW j \in signedOut
      PROVE  /\ primary[j] = None /\ (file # None => issued[file].iss # j)
             /\ \A q \in Procs : Refreshing(q) => IssuerOf[q] # j
  BY <1>2, <1>3 DEF SignedOutInv, Iss, Refreshing
<1>4. CASE i \in signedOut
  <2>1. IssuerOf[p] = i => ~Refreshing(p)
    BY <1>3, <1>4
  <2>2. (SaveToKeychain(p) \/ SaveToFile(p)) /\ signedOut' = SignedInBy(p) => IssuerOf[p] # i
    <3>1. SaveToKeychain(p) \/ SaveToFile(p) => proc[p].op # "logout" /\ proc[p].pc \in {"saveKey", "saveFile"}
      BY DEF SaveToKeychain, SaveToFile, AllCalls, CallInv, At
    <3>2. proc[p].op \in {"token", "login", "logout"}
      BY Typed
    <3> QED BY <1>1, <2>1, <3>1, <3>2 DEF Refreshing, SignedInBy
  <2>3. primary'[i] = None
    <3>1. SaveToKeychain(p) /\ up => IssuerOf[p] # i
      BY <2>2 DEF SaveToKeychain
    <3> QED BY <1>2, <1>3, <1>4, <1>a, <3>1, StepKinds
  <2>4. file' # None => issued'[file'].iss # i
    <3>1. CASE file' \in {file, None}
      BY <1>3, <1>4, <1>a, <3>1
    <3>2. CASE SaveToFile(p) /\ signedOut' = SignedInBy(p) /\ file' = proc[p].cred
      <4>1. proc[p].cred # None /\ issued[proc[p].cred].iss = IssuerOf[p]
        BY <3>2 DEF SaveToFile, AllCalls, CallInv, At, Iss
      <4> QED BY <1>a, <2>2, <3>2, <4>1
    <3> QED BY <3>1, <3>2, SignedOutMoves
  <2>5. ASSUME NEW q \in Procs, Refreshing(q)' PROVE IssuerOf[q] # i
    <3>1. CASE q # p
      BY <1>3, <1>4, <2>5, <3>1, OthersKept DEF Refreshing
    <3>2. CASE q = p
      <4>1. Load(p) \in {primary[IssuerOf[p]], file}
        BY <1>2, LoadOne DEF OneCopy
      <4> QED BY <1>3, <1>4, <2>1, <2>5, <3>2, <4>1, RefreshingStep DEF Iss
    <3> QED BY <3>1, <3>2
  <2> QED BY <2>3, <2>4, <2>5
<1>5. CASE i \notin signedOut
  <2>1. /\ Unlock(p) /\ proc[p].op = "logout" /\ ~proc[p].err /\ i = IssuerOf[p] /\ primary' = primary /\ file' = file
    BY <1>1, <1>5, SignedOutMoves DEF SignedInBy
  <2>2. primary[i] = None /\ file = None
    BY <1>2, <2>1 DEF Unlock, HolderInv
  <2>3. ASSUME NEW q \in Procs, Refreshing(q)' PROVE FALSE
    <3>1. CASE q # p
      <4>1. proc'[q] = proc[q]
        BY <3>1, OthersKept
      <4>2. lock = q /\ lock = p
        BY <2>1, <2>3, <4>1 DEF TypeOK, Refreshing, Unlock, At
      <4> QED BY <3>1, <4>2
    <3>2. CASE q = p
      BY <2>1, <2>3, <3>2, RefreshingStep DEF Refreshing, Unlock, LookLocked, At
    <3> QED BY <3>1, <3>2
  <2> QED BY <2>1, <2>2, <2>3
<1> QED BY <1>4, <1>5

LEMMA OtherStutter ==
  ASSUME TypeOK, HolderKnows, Others \/ UNCHANGED vars, Answering'
  PROVE  /\ Answering /\ primary' = primary /\ file' = file /\ up' = up /\ issued' = issued /\ live' = live
         /\ proc' = proc /\ signedOut' = signedOut /\ lost' = lost /\ latest' = latest
BY OthersAnswering DEF vars, store, server, ghosts, Answering

LEMMA HolderOtherStep ==
  ASSUME TypeOK, HolderKnows, SignedOutInv, Others \/ UNCHANGED vars
  PROVE  HolderKnows' /\ SignedOutInv'
<1>1. SUFFICES ASSUME Answering'
               PROVE  /\ OneCopy' /\ \A q \in Procs : HolderInv(q)'
                      /\ SignedOutInv'
  BY DEF HolderKnows, SignedOutInv
<1>2. /\ Answering /\ primary' = primary /\ file' = file /\ up' = up /\ issued' = issued /\ live' = live
      /\ proc' = proc /\ signedOut' = signedOut
  BY <1>1, OtherStutter
<1>3. OneCopy' /\ \A q \in Procs : HolderInv(q)'
  BY <1>2, HolderSame DEF HolderKnows
<1>4. SignedOutInv'
  BY <1>2 DEF SignedOutInv, Iss
<1> QED BY <1>3, <1>4

LEMMA HolderInit == Init => HolderKnows /\ SignedOutInv
<1> SUFFICES ASSUME Init PROVE HolderKnows /\ SignedOutInv
  OBVIOUS
<1>1. \A p \in Procs : proc[p].pc = "idle"
  BY NoCallType DEF Init
<1>2. (\A i \in Issuers : primary[i] = None) /\ file = None /\ up = Keychain /\ signedOut = {}
  BY DEF Init
<1>3. \A p \in Procs : HolderInv(p)
  BY <1>1 DEF HolderInv, At
<1> QED BY <1>2, <1>3 DEF HolderKnows, OneCopy, SignedOutInv

BaseInv == TypeOK /\ KnownInv /\ AllCalls /\ HolderKnows /\ SignedOutInv

LEMMA BaseStep ==
  ASSUME BaseInv, [Next]_vars
  PROVE  BaseInv'
<1>1. CASE \E p \in Procs : Step(p)
  BY <1>1, TypeStep, KnownStep, CallsStep, HolderStep, SignedOutStep DEF BaseInv
<1>2. CASE Others
  BY <1>2, OthersStep, HolderOtherStep DEF BaseInv
<1>3. CASE UNCHANGED vars
  BY <1>3, TypeStutter, HolderOtherStep DEF BaseInv
<1>4. CASE Refusal
  <2>1. ~Answering'
    BY <1>4, RefusalUnanswered DEF BaseInv
  <2> QED BY <1>4, <2>1, RefusalStep DEF BaseInv, HolderKnows, SignedOutInv
<1> QED BY <1>1, <1>2, <1>3, <1>4, NextIsStep

LEMMA BaseCorrect == Spec => []BaseInv
<1>1. Init => BaseInv
  BY TypeInit, HolderInit DEF BaseInv
<1> QED BY <1>1, BaseStep, PTL DEF Spec

\* While the Keychain answers, a logout that reported success is final until
\* the next login: nothing is stored for its issuer in either place.
THEOREM SignedOutCorrect == Spec => []SignedOutStays
<1>1. BaseInv => SignedOutStays
  BY DEF BaseInv, SignedOutInv, SignedOutStays
<1> QED BY <1>1, BaseCorrect, PTL

-----------------------------------------------------------------------------
(* Sessions the issuers accept.                                             *)

\* A refresh token known before a step is the same after it.
LEMMA SameRT ==
  ASSUME TypeOK, KnownInv, NEW p \in Procs, Step(p)
  PROVE  \A c \in 0..Len(issued) : (IF c = None THEN None ELSE issued'[c].rt) = RT(c)
BY Grows DEF RT

\* A process holds the session it is to revoke, and one it is to save.
LEMMA HandsThen ==
  ASSUME TypeOK, KnownInv, NEW p \in Procs, Step(p), NEW q \in Procs, NEW r, r # None,
         NEW c \in 0..Len(issued), r = RT(c),
         proc'[q].old = c \/ (proc'[q].cred = c /\ proc'[q].pc \in {"lock", "saveKey", "saveFile"})
  PROVE  r \in Hands(q)'
<1>1. (IF c = None THEN None ELSE issued'[c].rt) = r
  BY SameRT
<1> QED BY <1>1 DEF Hands, RT

LEMMA StoredThen ==
  ASSUME TypeOK, KnownInv, NEW p \in Procs, Step(p), NEW r, NEW c \in 0..Len(issued), r = RT(c),
         file' = c \/ \E i \in Issuers : primary'[i] = c
  PROVE  r \in StoredRTs'
<1>1. (IF c = None THEN None ELSE issued'[c].rt) = r
  BY SameRT
<1> QED BY <1>1 DEF StoredRTs, RT

LEMMA HandsOthers ==
  ASSUME TypeOK, KnownInv, NEW p \in Procs, Step(p), NEW q \in Procs, q # p, NEW r \in Hands(q)
  PROVE  r \in Hands(q)'
<1>1. proc'[q] = proc[q]
  BY OthersKept
<1>2. proc[q].cred \in 0..Len(issued) /\ proc[q].old \in 0..Len(issued)
  BY KnownFacts
<1>3. r # None /\ (r = RT(proc[q].old) \/ (r = RT(proc[q].cred) /\ proc[q].pc \in {"lock", "saveKey", "saveFile"}))
  BY DEF Hands
<1> QED BY <1>1, <1>2, <1>3, HandsThen

\* What p holds at each step.
LEMMA HandsNow ==
  ASSUME TypeOK, KnownInv, AllCalls, NEW p \in Procs, NEW r \in Hands(p)
  PROVE  /\ r # None
         /\ \/ r = RT(proc[p].old) /\ proc[p].op # "token" /\ proc[p].pc \notin {"idle", "load", "lock", "refresh"}
            \/ r = RT(proc[p].cred) /\ proc[p].pc \in {"saveKey", "saveFile"}
            \/ r = RT(proc[p].cred) /\ proc[p].pc = "lock" /\ proc[p].op = "login"
<1>1. CallInv(p)
  BY DEF AllCalls
<1>2. RT(None) = None
  BY DEF RT
<1>3. r # None /\ (r = RT(proc[p].old) \/ (r = RT(proc[p].cred) /\ proc[p].pc \in {"lock", "saveKey", "saveFile"}))
  BY DEF Hands
<1>4. proc[p].op = "token" \/ proc[p].pc \in {"idle", "load", "lock", "refresh"} => proc[p].old = None
  BY <1>1, NoCallType DEF CallInv, At
<1>5. proc[p].pc = "lock" /\ proc[p].op # "login" => proc[p].cred = None
  BY <1>1 DEF CallInv, At
<1> QED BY <1>2, <1>3, <1>4, <1>5

\* A session in p's hands is saved, kept in hand, lost to a fault or revoked.
LEMMA HandsOwn ==
  ASSUME TypeOK, KnownInv, AllCalls, NEW p \in Procs, Step(p), NEW r \in Hands(p), r \in live'
  PROVE  r \in StoredRTs' \/ r \in lost' \/ r \in Hands(p)'
<1> DEFINE c == proc[p].cred
           o == proc[p].old
           e == proc[p].err
<1>a. CallMoves(p)
  BY CallStep
<1>b. /\ r # None
      /\ \/ r = RT(o) /\ proc[p].op # "token" /\ proc[p].pc \notin {"idle", "load", "lock", "refresh"}
         \/ r = RT(c) /\ proc[p].pc \in {"saveKey", "saveFile"}
         \/ r = RT(c) /\ proc[p].pc = "lock" /\ proc[p].op = "login"
  BY HandsNow
<1>c. c \in 0..Len(issued) /\ o \in 0..Len(issued)
  BY KnownFacts
<1>d. CallInv(p)
  BY DEF AllCalls
<1>e. primary' = primary /\ file' = file /\ issued' = issued => StoredRTs' = StoredRTs
  BY DEF StoredRTs, RT
<1>1. CASE lost' = lost \cup (Hands(p) \ StoredRTs) /\ primary' = primary /\ file' = file /\ issued' = issued
  BY <1>1, <1>e
<1>2. CASE \/ \E rej \in Creds : Ask(p, rej)
           \/ Login(p) \/ Logout(p) \/ LookUnlocked(p) \/ LookLocked(p) \/ Refreshed(p) \/ RefusedGrant(p)
           \/ RefreshFails(p) \/ Remove(p)
  BY <1>2, <1>b, <1>d DEF Ask, Login, Logout, LookUnlocked, LookLocked, Refreshed, RefusedGrant, RefreshFails, Remove, CallInv, At
<1>3. CASE GiveUpLock(p)
  BY <1>3, <1>b DEF GiveUpLock, At
<1>4. CASE Swap(p) /\ Sets(p, "saveKey", c, Load(p), e)
  <2>1. r = RT(c)
    BY <1>4, <1>b DEF Swap, At
  <2>2. proc'[p].cred = c /\ proc'[p].pc \in {"lock", "saveKey", "saveFile"}
    BY <1>4 DEF Sets
  <2> QED BY <1>b, <1>c, <2>1, <2>2, HandsThen
<1>5. CASE Unlock(p) /\ ((Ends(p) /\ proc[p].op = "token") \/ Sets(p, "revoke", None, o, e))
  <2>1. r = RT(o) /\ proc[p].op # "token"
    BY <1>5, <1>b DEF Unlock, At
  <2>2. proc'[p].old = o
    BY <1>5, <2>1 DEF Sets
  <2> QED BY <1>b, <1>c, <2>1, <2>2, HandsThen
<1>6. CASE Revoke(p)
  <2>1. r = RT(o)
    BY <1>6, <1>b DEF Revoke, At
  <2>2. r \in lost' \/ r \in StoredRTs
    BY <1>6, <1>b, <2>1 DEF Revoke
  <2>3. StoredRTs' = StoredRTs
    BY <1>6, <1>e DEF Revoke, store
  <2> QED BY <2>2, <2>3
<1>7. CASE SaveToKeychain(p) /\ up /\ Sets(p, "dropFile", c, o, e)
  <2>1. CASE r = RT(o)
    BY <1>7, <1>b, <1>c, <2>1, HandsThen DEF Sets
  <2>2. CASE r = RT(c)
    <3>1. primary'[IssuerOf[p]] = c /\ IssuerOf[p] \in Issuers
      BY <1>7, Typed DEF SaveToKeychain
    <3> QED BY <1>c, <2>2, <3>1, StoredThen
  <2> QED BY <1>b, <2>1, <2>2
<1>8. CASE SaveToKeychain(p) /\ ~up /\ Sets(p, "saveFile", c, o, e)
  BY <1>8, <1>b, <1>c, HandsThen DEF Sets
<1>9. CASE \/ DropFile(p) /\ Sets(p, "unlock", c, o, e)
           \/ DropKey(p) /\ Sets(p, "unlock", c, o, e)
           \/ DeleteKey(p) /\ Sets(p, "deleteFile", c, o, Keychain /\ ~up)
           \/ DeleteFile(p) /\ Sets(p, "unlock", c, o, e /\ file = None)
           \/ DeleteFile(p) /\ Sets(p, "unlock", c, o, TRUE)
  <2>1. r = RT(o)
    BY <1>9, <1>b DEF DropFile, DropKey, DeleteKey, DeleteFile, At
  <2>2. proc'[p].old = o
    BY <1>9 DEF Sets
  <2> QED BY <1>b, <1>c, <2>1, <2>2, HandsThen
<1>10. CASE SaveToFile(p) /\ Sets(p, "dropKey", c, o, e) /\ file' = c
  <2>1. CASE r = RT(o)
    BY <1>10, <1>b, <1>c, <2>1, HandsThen DEF Sets
  <2>2. CASE r = RT(c)
    BY <1>10, <1>c, <2>2, StoredThen
  <2> QED BY <1>b, <2>1, <2>2
<1>11. CASE SaveToFile(p) /\ lost' = lost \cup (Hands(p) \ StoredRTs) /\ file' = file
  BY <1>1, <1>11 DEF SaveToFile, server
<1>12. CASE Crash(p)
  BY <1>1, <1>12 DEF Crash, store, server
<1> HIDE DEF c, o, e
<1> QED BY <1>a, <1>2, <1>3, <1>4, <1>5, <1>6, <1>7, <1>8, <1>9, <1>10, <1>11, <1>12 DEF CallMoves, c, o, e

\* A stored session that a step removes is in hand, spent or refused.
LEMMA StoredOwn ==
  ASSUME TypeOK, KnownInv, AllCalls, OneCopy, NEW p \in Procs, HolderInv(p), Step(p),
         NEW r \in StoredRTs, r \in live, r # None
  PROVE  r \in StoredRTs' \/ r \in Hands(p)'
<1> DEFINE c == proc[p].cred
           o == proc[p].old
           e == proc[p].err
<1>a. CallMoves(p)
  BY CallStep
<1>b. /\ c \in 0..Len(issued) /\ o \in 0..Len(issued) /\ file \in 0..Len(issued) /\ Load(p) \in 0..Len(issued)
      /\ \A i \in Issuers : primary[i] \in 0..Len(issued)
      /\ RT(None) = None
  BY KnownFacts DEF RT
<1>c. primary \in [Issuers -> Creds] /\ IssuerOf[p] \in Issuers
  BY Typed
<1>d. (\E i \in Issuers : r = RT(primary[i])) \/ r = RT(file)
  BY DEF StoredRTs
<1>e. /\ Keychain => Load(p) = primary[IssuerOf[p]] /\ file = None
      /\ ~Keychain => Load(p) = file /\ \A i \in Issuers : primary[i] = None
  BY LoadOne DEF OneCopy
<1>f. \A i \in Issuers : r = RT(primary[i]) /\ primary'[i] = primary[i] => r \in StoredRTs'
  BY <1>b, StoredThen
<1>g. r = RT(file) /\ file' = file => r \in StoredRTs'
  BY <1>b, StoredThen
<1>1. CASE primary' = primary /\ file' = file
  BY <1>1, <1>d, <1>f, <1>g
<1>2. CASE SaveToKeychain(p) /\ up /\ Sets(p, "dropFile", c, o, e)
  <2>1. Keychain /\ primary' = [primary EXCEPT ![IssuerOf[p]] = c] /\ proc[p].pc = "saveKey"
    BY <1>2 DEF SaveToKeychain, OneCopy, At
  <2>2. CASE r = RT(Load(p))
    <3>1. CASE proc[p].op = "token"
      <4>1. r = RT(c)
        BY <2>1, <2>2, <3>1 DEF HolderInv
      <4> QED BY <1>b, <1>c, <2>1, <4>1, StoredThen
    <3>2. CASE proc[p].op # "token"
      <4>1. o = Load(p) /\ proc'[p].old = o
        BY <1>2, <2>1, <3>2 DEF HolderInv, Sets
      <4> QED BY <1>b, <2>2, <4>1, HandsThen
    <3> QED BY <3>1, <3>2
  <2>3. CASE r # RT(Load(p))
    <3>1. PICK i \in Issuers : r = RT(primary[i])
      BY <1>b, <1>d, <1>e, <2>1
    <3>2. primary'[i] = primary[i]
      BY <1>c, <1>e, <2>1, <2>3, <3>1
    <3> QED BY <1>f, <3>1, <3>2
  <2> QED BY <2>2, <2>3
<1>3. CASE SaveToFile(p) /\ Sets(p, "dropKey", c, o, e) /\ file' = c
  <2>1. ~Keychain /\ proc[p].pc = "saveFile"
    BY <1>3 DEF SaveToFile, HolderInv, At
  <2>2. r = RT(Load(p))
    BY <1>b, <1>d, <1>e, <2>1
  <2>3. CASE proc[p].op = "token"
    <3>1. r = RT(c)
      BY <2>1, <2>2, <2>3 DEF HolderInv
    <3> QED BY <1>3, <1>b, <3>1, StoredThen
  <2>4. CASE proc[p].op # "token"
    <3>1. o = Load(p) /\ proc'[p].old = o
      BY <1>3, <2>1, <2>4 DEF HolderInv, Sets
    <3> QED BY <1>b, <2>2, <3>1, HandsThen
  <2> QED BY <2>3, <2>4
<1>4. CASE DropFile(p)
  <2>1. Keychain /\ primary' = primary
    BY <1>4 DEF DropFile, HolderInv, At
  <2> QED BY <1>b, <1>d, <1>e, <1>f, <2>1
<1>5. CASE DropKey(p)
  BY <1>1, <1>5 DEF DropKey, HolderInv, At, OneCopy
<1>6. CASE DeleteKey(p) /\ Sets(p, "deleteFile", c, o, Keychain /\ ~up)
  <2>1. /\ primary' = IF up THEN [primary EXCEPT ![IssuerOf[p]] = None] ELSE primary
        /\ file' = file /\ proc[p].pc = "deleteKey"
    BY <1>6 DEF DeleteKey, At
  <2>2. CASE Keychain /\ r = RT(Load(p))
    <3>1. proc[p].op # "token" /\ o = Load(p) /\ proc'[p].old = o
      BY <1>6, <2>1, <2>2 DEF HolderInv, At, Sets
    <3> QED BY <1>b, <2>2, <3>1, HandsThen
  <2>3. CASE Keychain /\ r # RT(Load(p))
    <3>1. PICK i \in Issuers : r = RT(primary[i])
      BY <1>b, <1>d, <1>e, <2>3
    <3>2. primary'[i] = primary[i]
      BY <1>c, <1>e, <2>1, <2>3, <3>1
    <3> QED BY <1>f, <3>1, <3>2
  <2>4. CASE ~Keychain
    BY <1>1, <2>1, <2>4 DEF OneCopy
  <2> QED BY <2>2, <2>3, <2>4
<1>7. CASE DeleteFile(p) /\ proc'[p].old = o
  <2>1. proc[p].pc = "deleteFile" /\ primary' = primary
    BY <1>7 DEF DeleteFile, At
  <2>2. CASE r = RT(file)
    <3>1. proc[p].op # "token" /\ file \in {None, o}
      BY <2>1, <2>2 DEF HolderInv, At
    <3>2. file = o
      BY <1>b, <2>2, <3>1
    <3> QED BY <1>7, <1>b, <2>2, <3>2, HandsThen
  <2>3. CASE r # RT(file)
    BY <1>d, <1>f, <2>1, <2>3
  <2> QED BY <2>2, <2>3
<1>8. \/ primary' = primary /\ file' = file
      \/ (SaveToKeychain(p) /\ up) \/ SaveToFile(p) \/ DropFile(p) \/ DropKey(p) \/ DeleteKey(p) \/ DeleteFile(p)
  BY DEF Step, Under, Ask, Login, Logout, LookUnlocked, LookLocked, GiveUpLock, Refreshed, RefusedGrant, RefreshFails, Swap,
         Remove, Unlock, Revoke, SaveToKeychain, Crash, store
<1>9. /\ SaveToKeychain(p) /\ up => Sets(p, "dropFile", c, o, e)
      /\ SaveToFile(p) => (file' = file /\ primary' = primary) \/ (Sets(p, "dropKey", c, o, e) /\ file' = c)
      /\ DeleteFile(p) => proc'[p].old = o
  <2>1. proc \in [Procs -> Call] /\ proc[p] \in Call
    BY Typed
  <2>2. SaveToKeychain(p) /\ up => Goto(p, "dropFile")
    BY DEF SaveToKeychain
  <2>3. SaveToFile(p) => (file' = file /\ primary' = primary) \/ (Goto(p, "dropKey") /\ file' = c)
    BY DEF SaveToFile
  <2>4. DeleteFile(p) => proc'[p].old = o
    BY <2>1 DEF DeleteFile, Call
  <2> QED BY <2>1, <2>2, <2>3, <2>4, GotoSets DEF Steps
<1>10. DeleteKey(p) => Sets(p, "deleteFile", c, o, Keychain /\ ~up)
  BY <1>a DEF CallMoves, Ask, Login, Logout, LookUnlocked, LookLocked, GiveUpLock, Refreshed, RefusedGrant, RefreshFails, Swap,
         Remove, Unlock, Revoke, SaveToKeychain, DropFile, SaveToFile, DropKey, DeleteKey, DeleteFile, Crash, At, NoCall, Ends, Sets
<1> HIDE DEF c, o, e
<1> QED BY <1>1, <1>2, <1>3, <1>4, <1>5, <1>6, <1>7, <1>8, <1>9, <1>10

\* The session a response begins is in hand, or lost with the answer.
LEMMA NewSession ==
  ASSUME TypeOK, KnownInv, NEW p \in Procs, Step(p), NEW r \in live', r \notin live
  PROVE  r \in Hands(p)' \/ r \in lost'
<1> DEFINE n == Len(issued) + 1
<1>a. n # None /\ n \in Nat /\ n \notin StoredRTs
  <2>1. Len(issued) \in Nat /\ \A s \in StoredRTs : s \in 0..Len(issued)
    BY KnownFacts
  <2> QED BY <2>1 DEF None
<1>b. Responds(p)
  BY ResponseStep
<1>1. issued'[n].rt = r /\ r # None
  <2>1. CASE Login(p) /\ \E rt \in {n, None} : Response1(p, None, rt)
    <3>1. PICK rt \in {n, None} : Response1(p, None, rt)
      BY <2>1
    <3>2. r = rt /\ r # None
      BY <3>1 DEF Response1
    <3> QED BY <3>1, <3>2, NewResponse
  <2>2. CASE \E rt \in {n, RT(proc[p].cred)} : Response1(p, RT(proc[p].cred), rt)
    <3>1. PICK rt \in {n, RT(proc[p].cred)} : Response1(p, RT(proc[p].cred), rt)
      BY <2>2
    <3>2. r = rt /\ r # None
      BY <3>1 DEF Response1
    <3> QED BY <3>1, <3>2, NewResponse
  <2> QED BY <1>b, <2>1, <2>2 DEF Responds
<1>2. r = n
  <2>1. CASE \E rt \in {n, None} : Response1(p, None, rt)
    BY <2>1, <1>1 DEF Response1
  <2>2. CASE RT(proc[p].cred) \in live /\ \E rt \in {n, RT(proc[p].cred)} : Response1(p, RT(proc[p].cred), rt)
    BY <2>2, <1>1 DEF Response1
  <2> QED BY <1>b, <2>1, <2>2 DEF Responds
<1>3. ASSUME proc'[p].cred = n, proc'[p].pc \in {"lock", "saveKey", "saveFile"}
      PROVE  r \in Hands(p)'
  BY <1>1, <1>3, <1>a DEF Hands, RT
<1>4. CASE Login(p) /\ Begins(p, "lock", "login", n)
  BY <1>3, <1>4 DEF Begins
<1>5. CASE Refreshed(p) /\ Sets(p, "saveKey", n, proc[p].old, proc[p].err)
  BY <1>3, <1>5 DEF Sets
<1>6. CASE lost' = lost \cup ({issued'[n].rt} \ StoredRTs)
  BY <1>1, <1>2, <1>6, <1>a
<1>7. ~(\/ (\E rej \in Creds : Ask(p, rej)) \/ Logout(p) \/ LookUnlocked(p) \/ LookLocked(p) \/ GiveUpLock(p)
        \/ RefusedGrant(p) \/ RefreshFails(p) \/ Swap(p) \/ Remove(p) \/ Unlock(p) \/ Revoke(p) \/ SaveToKeychain(p)
        \/ DropFile(p) \/ SaveToFile(p) \/ DropKey(p) \/ DeleteKey(p) \/ DeleteFile(p) \/ Crash(p))
  <2>1. r \in live' /\ r \notin live
    OBVIOUS
  <2> QED BY <2>1 DEF Ask, Logout, LookUnlocked, LookLocked, GiveUpLock, RefusedGrant, RefreshFails, Swap, Remove, Unlock, Revoke,
          SaveToKeychain, DropFile, SaveToFile, DropKey, DeleteKey, DeleteFile, Crash, server
<1>8. CallMoves(p)
  BY CallStep
<1> HIDE DEF n
<1> QED BY <1>4, <1>5, <1>6, <1>7, <1>8 DEF CallMoves, n

AccountedInv == BaseInv /\ SessionsAccounted

LEMMA AccountedStep ==
  ASSUME BaseInv, SessionsAccounted, NEW p \in Procs, Step(p)
  PROVE  SessionsAccounted'
<1>1. SUFFICES ASSUME Answering', NEW r \in live'
               PROVE  r \in StoredRTs' \/ r \in lost' \/ \E q \in Procs : r \in Hands(q)'
  BY DEF SessionsAccounted
<1>2. TypeOK /\ KnownInv /\ AllCalls /\ HolderKnows
  BY DEF BaseInv
<1>3. Answering /\ OneCopy /\ HolderInv(p)
  BY <1>1, <1>2, StepKinds DEF HolderKnows, Answering
<1>4. CASE r \notin live
  BY <1>2, <1>4, NewSession
<1>5. CASE r \in live
  <2>1. r # None
    BY <1>2, <1>5 DEF KnownInv, None
  <2>2. r \in StoredRTs \/ r \in lost \/ \E q \in Procs : r \in Hands(q)
    BY <1>3, <1>5 DEF SessionsAccounted
  <2>3. CASE r \in StoredRTs
    BY <1>2, <1>3, <1>5, <2>1, <2>3, StoredOwn
  <2>4. CASE r \in lost
    BY <1>2, <2>4, LostKnown
  <2>5. CASE \E q \in Procs : r \in Hands(q)
    <3>1. PICK q \in Procs : r \in Hands(q)
      BY <2>5
    <3> QED BY <1>2, <3>1, HandsOwn, HandsOthers
  <2> QED BY <2>2, <2>3, <2>4, <2>5
<1> QED BY <1>4, <1>5

LEMMA AccountedOther ==
  ASSUME BaseInv, SessionsAccounted, Others \/ UNCHANGED vars
  PROVE  SessionsAccounted'
<1>1. SUFFICES ASSUME Answering'
               PROVE  live' \subseteq StoredRTs' \cup lost' \cup UNION {Hands(q)' : q \in Procs}
  BY DEF SessionsAccounted
<1>2. /\ Answering /\ primary' = primary /\ file' = file /\ issued' = issued /\ live' = live
      /\ proc' = proc /\ lost' = lost
  BY <1>1, OtherStutter DEF BaseInv
<1>3. StoredRTs' = StoredRTs /\ \A q \in Procs : Hands(q)' = Hands(q)
  BY <1>2 DEF StoredRTs, Hands, RT
<1> QED BY <1>2, <1>3 DEF SessionsAccounted

\* While the Keychain answers, every session an issuer still accepts is stored,
\* or in the hands of a process that will save or revoke it, or lost to a fault:
\* no login, logout or refresh leaves one behind live, however they interleave.
THEOREM AccountedCorrect == Spec => []SessionsAccounted
<1>1. Init => AccountedInv
  <2>1. Init => BaseInv
    BY TypeInit, HolderInit DEF BaseInv
  <2>2. Init => SessionsAccounted
    BY DEF Init, SessionsAccounted
  <2> QED BY <2>1, <2>2 DEF AccountedInv
<1>2. AccountedInv /\ [Next]_vars => AccountedInv'
  <2> SUFFICES ASSUME AccountedInv, [Next]_vars PROVE AccountedInv'
    OBVIOUS
  <2>1. Refusal => SessionsAccounted'
    BY RefusalUnanswered DEF AccountedInv, BaseInv, SessionsAccounted
  <2>2. SessionsAccounted'
    BY <2>1, AccountedStep, AccountedOther, NextIsStep DEF AccountedInv
  <2> QED BY <2>2, BaseStep DEF AccountedInv
<1>3. AccountedInv => SessionsAccounted
  BY DEF AccountedInv
<1> QED BY <1>1, <1>2, <1>3, PTL DEF Spec

-----------------------------------------------------------------------------
(* The latest copy.                                                         *)

\* What a step does to what is stored and to the credential saved last.
LEMMA LatestMoves ==
  ASSUME TypeOK, AllCalls, NEW p \in Procs, Step(p)
  PROVE  LET i == IssuerOf[p]  c == proc[p].cred IN
         \/ /\ primary' = primary /\ file' = file /\ latest' = latest
            /\ proc'[p].pc \notin {"dropFile", "dropKey", "deleteFile"}
         \/ primary' = [primary EXCEPT ![i] = c] /\ file' = file /\ latest' = c /\ proc'[p].pc = "dropFile"
         \/ primary' = primary /\ file' = c /\ latest' = c /\ proc'[p].pc = "dropKey"
         \/ /\ proc[p].pc = "dropFile" /\ primary' = primary /\ (file' = file \/ file' = None) /\ latest' = latest
            /\ proc'[p].pc = "unlock"
         \/ /\ proc[p].pc = "dropKey" /\ (primary' = primary \/ primary' = [primary EXCEPT ![i] = None]) /\ file' = file
            /\ latest' = latest /\ proc'[p].pc = "unlock"
         \/ latest' = None /\ proc'[p].pc = "deleteFile"
         \/ proc[p].pc = "deleteFile" /\ latest' = latest /\ proc'[p].pc = "unlock"
<1> DEFINE i == IssuerOf[p]
           c == proc[p].cred
           o == proc[p].old
           e == proc[p].err
           quiet == proc'[p].pc \notin {"dropFile", "dropKey", "deleteFile"}
<1>a. CallMoves(p)
  BY CallStep
<1>b. Ends(p) => quiet
  BY NoCallType DEF Ends
<1>1. CASE \/ \E rej \in Creds : Ask(p, rej)
           \/ Login(p) \/ Logout(p) \/ LookUnlocked(p) \/ LookLocked(p) \/ GiveUpLock(p) \/ Refreshed(p) \/ RefusedGrant(p)
           \/ RefreshFails(p) \/ Swap(p) \/ Remove(p) \/ Unlock(p) \/ Revoke(p) \/ Crash(p)
  <2>1. primary' = primary /\ file' = file /\ latest' = latest
    BY <1>1 DEF Ask, Login, Logout, LookUnlocked, LookLocked, GiveUpLock, Refreshed, RefusedGrant, RefreshFails, Swap, Remove,
           Unlock, Revoke, Crash, store, ghosts
  <2>2. ~(SaveToKeychain(p) \/ DropFile(p) \/ SaveToFile(p) \/ DropKey(p) \/ DeleteKey(p) \/ DeleteFile(p)) => quiet
    BY <1>a, <1>b DEF CallMoves, Sets, Begins
  <2>3. Crash(p) \/ ~(SaveToKeychain(p) \/ DropFile(p) \/ SaveToFile(p) \/ DropKey(p) \/ DeleteKey(p) \/ DeleteFile(p))
    BY <1>1 DEF Ask, Login, Logout, LookUnlocked, LookLocked, GiveUpLock, Refreshed, RefusedGrant, RefreshFails, Swap, Remove,
           Unlock, Revoke, SaveToKeychain, DropFile, SaveToFile, DropKey, DeleteKey, DeleteFile, At
  <2>4. Crash(p) => quiet
    BY NoCallType, Typed DEF Crash, Finish
  <2> QED BY <2>1, <2>2, <2>3, <2>4
<1>2. CASE SaveToKeychain(p) /\ up /\ Sets(p, "dropFile", c, o, e)
  BY <1>2 DEF SaveToKeychain, Sets
<1>3. CASE SaveToKeychain(p) /\ ~up /\ Sets(p, "saveFile", c, o, e)
  BY <1>3 DEF SaveToKeychain, Sets
<1>4. CASE DropFile(p) /\ Sets(p, "unlock", c, o, e)
  BY <1>4 DEF DropFile, Sets, ghosts, At
<1>5. CASE SaveToFile(p) /\ Sets(p, "dropKey", c, o, e) /\ file' = c /\ latest' = c
  BY <1>5 DEF SaveToFile, Sets
<1>6. CASE SaveToFile(p) /\ Ends(p) /\ file' = file /\ latest' = latest
  BY <1>6, <1>b DEF SaveToFile
<1>7. CASE DropKey(p) /\ Sets(p, "unlock", c, o, e)
  BY <1>7 DEF DropKey, Sets, ghosts, At
<1>8. CASE DeleteKey(p) /\ Sets(p, "deleteFile", c, o, Keychain /\ ~up)
  BY <1>8 DEF DeleteKey, Sets
<1>9. CASE DeleteFile(p) /\ (Sets(p, "unlock", c, o, e /\ file = None) \/ Sets(p, "unlock", c, o, TRUE))
  BY <1>9 DEF DeleteFile, Sets, ghosts, At
<1> HIDE DEF i, c, o, e, quiet
<1>10. CASE SaveToKeychain(p) \/ DropFile(p) \/ SaveToFile(p) \/ DropKey(p) \/ DeleteKey(p) \/ DeleteFile(p)
  BY <1>1, <1>2, <1>3, <1>4, <1>5, <1>6, <1>7, <1>8, <1>9, <1>a DEF CallMoves, c, o, e, i
<1> QED BY <1>1, <1>10, <1>a DEF CallMoves, i, c, o, e

LEMMA LatestStep ==
  ASSUME OneIssuer, TypeOK, KnownInv, AllCalls, LatestInv, NEW p \in Procs, Step(p)
  PROVE  LatestInv'
<1> DEFINE i == IssuerOf[p]
           c == proc[p].cred
<1>a. /\ primary \in [Issuers -> Creds] /\ i \in Issuers /\ primary[i] \in Creds /\ file \in Creds /\ c \in Creds
      /\ latest \in Creds /\ Creds = 0..MaxTokens /\ MaxTokens \in Nat
  BY Typed DEF TypeOK, Creds
<1>b. \A q \in Procs : IssuerOf[q] = i
  BY DEF OneIssuer
<1>c. /\ latest # None => Later(primary[i], file) >= latest
      /\ proc[p].pc = "dropFile" => primary[i] = latest
      /\ proc[p].pc = "dropKey" => file = latest
      /\ proc[p].pc = "deleteFile" => latest = None
  BY DEF LatestInv, At
<1>d. \A a, b \in 0..MaxTokens : Later(a, b) >= a /\ Later(a, b) >= b
  BY <1>a DEF Later
<1> HIDE DEF i, c
<1>1. /\ latest' # None => Later(primary'[i], file') >= latest'
      /\ proc'[p].pc = "dropFile" => primary'[i] = latest'
      /\ proc'[p].pc = "dropKey" => file' = latest'
      /\ proc'[p].pc = "deleteFile" => latest' = None
  <2>1. CASE /\ primary' = primary /\ file' = file /\ latest' = latest
             /\ proc'[p].pc \notin {"dropFile", "dropKey", "deleteFile"}
    BY <1>c, <2>1
  <2>2. CASE primary' = [primary EXCEPT ![i] = c] /\ file' = file /\ latest' = c /\ proc'[p].pc = "dropFile"
    <3>1. primary'[i] = c
      BY <1>a, <2>2
    <3> QED BY <1>a, <1>d, <2>2, <3>1
  <2>3. CASE primary' = primary /\ file' = c /\ latest' = c /\ proc'[p].pc = "dropKey"
    BY <1>a, <1>d, <2>3
  <2>4. CASE /\ proc[p].pc = "dropFile" /\ primary' = primary /\ (file' = file \/ file' = None) /\ latest' = latest
             /\ proc'[p].pc = "unlock"
    <3>1. file' \in 0..MaxTokens
      BY <1>a, <2>4 DEF None
    <3> QED BY <1>a, <1>c, <1>d, <2>4, <3>1
  <2>5. CASE /\ proc[p].pc = "dropKey" /\ (primary' = primary \/ primary' = [primary EXCEPT ![i] = None]) /\ file' = file
             /\ latest' = latest /\ proc'[p].pc = "unlock"
    <3>1. primary'[i] \in 0..MaxTokens
      BY <1>a, <2>5 DEF None
    <3> QED BY <1>a, <1>c, <1>d, <2>5, <3>1
  <2>6. CASE latest' = None /\ proc'[p].pc = "deleteFile"
    BY <2>6
  <2>7. CASE proc[p].pc = "deleteFile" /\ latest' = latest /\ proc'[p].pc = "unlock"
    BY <1>c, <2>7
  <2> QED BY <2>1, <2>2, <2>3, <2>4, <2>5, <2>6, <2>7, LatestMoves DEF i, c
<1>2. ASSUME NEW q \in Procs, q # p, proc'[q].pc \in {"dropFile", "dropKey", "deleteFile"}
      PROVE  /\ proc'[q].pc = "dropFile" => primary'[i] = latest'
             /\ proc'[q].pc = "dropKey" => file' = latest'
             /\ proc'[q].pc = "deleteFile" => latest' = None
  <2>1. proc'[q] = proc[q]
    BY <1>2, OthersKept
  <2>2. proc[q].pc \notin Free
    BY <1>2, <2>1 DEF Free
  <2>3. primary' = primary /\ file' = file /\ latest' = latest
    BY <1>2, <2>2, AsideStep
  <2> QED BY <1>b, <2>1, <2>3 DEF LatestInv, At
<1> QED BY <1>b, <1>1, <1>2 DEF LatestInv, At

\* While the Keychain answers, nobody reads a copy that expires before the one
\* saved last, whatever an outage or a failed deletion left behind, when the
\* processes are configured for one issuer.
THEOREM LatestCorrect ==
  ASSUME OneIssuer
  PROVE  Spec => []NoOlderCopy
<1> DEFINE IInv == BaseInv /\ LatestInv
<1>1. Init => IInv
  <2>1. Init => LatestInv
    BY NoCallType DEF Init, LatestInv, At
  <2> QED BY <2>1, TypeInit, HolderInit DEF BaseInv
<1>2. IInv /\ [Next]_vars => IInv'
  <2> SUFFICES ASSUME IInv, [Next]_vars PROVE IInv'
    OBVIOUS
  <2>1. (\E p \in Procs : Step(p)) => LatestInv'
    BY LatestStep DEF BaseInv
  <2>2. Others \/ UNCHANGED vars => LatestInv'
    <3> SUFFICES ASSUME Others \/ UNCHANGED vars PROVE LatestInv'
      OBVIOUS
    <3>1. primary' = primary /\ file' = file /\ latest' = latest /\ proc' = proc
      BY DEF Others, Expire, KeychainGoes, KeychainReturns, vars, store, ghosts
    <3>2. \A q \in Procs : Later(primary[IssuerOf[q]], file)' = Later(primary[IssuerOf[q]], file)
      BY <3>1 DEF Later
    <3> QED BY <3>1, <3>2 DEF LatestInv, At
  <2>3. Refusal => LatestInv'
    <3> SUFFICES ASSUME NEW p \in Procs, KeychainRefuses(p) PROVE LatestInv'
      BY DEF Refusal
    <3>1. Refuses(p)
      BY RefusalMove DEF BaseInv
    <3>2. \A q \in Procs : Later(primary[IssuerOf[q]], file)' = Later(primary[IssuerOf[q]], file)
      BY <3>1 DEF Refuses, Later
    <3>3. \A q \in Procs : q # p => proc[q].pc \in Free /\ proc'[q] = proc[q]
      BY <3>1 DEF Refuses, Sets, BaseInv, TypeOK, Free
    <3>4. \A q \in Procs : ~At(q, "dropFile")' /\ ~At(q, "dropKey")' /\ (At(q, "deleteFile")' => latest' = None)
      BY <3>1, <3>3 DEF Refuses, Sets, At, Free
    <3>5. latest' # None => latest' = latest
      BY <3>1 DEF Refuses
    <3> QED BY <3>2, <3>4, <3>5 DEF LatestInv, At
  <2> QED BY <2>1, <2>2, <2>3, BaseStep, NextIsStep
<1>3. IInv => NoOlderCopy
  BY DEF LatestInv, NoOlderCopy, Load, Readable
<1> QED BY <1>1, <1>2, <1>3, PTL DEF Spec

-----------------------------------------------------------------------------
(* Redeemed once.                                                           *)

\* What a step does to the sessions while the Keychain answers.
Next1 == Len(issued) + 1

LoginMove(p) ==
  /\ proc[p].pc = "idle" /\ proc'[p].pc = "lock" /\ proc'[p].op = "login"
  /\ proc'[p].cred = Next1 /\ proc'[p].old = None
  /\ \E rt \in {Next1, None} : Response1(p, None, rt)
  /\ primary' = primary /\ lost' = lost

RefreshMove(p) ==
  /\ proc[p].pc = "refresh" /\ proc'[p].pc = "saveKey" /\ proc'[p].op = "token"
  /\ proc'[p].cred = Next1 /\ proc'[p].old = None
  /\ \E rt \in {Next1, RT(proc[p].cred)} : Response1(p, RT(proc[p].cred), rt)
  /\ primary' = primary /\ lost' = lost

AnswerLost(p) ==
  /\ proc[p].pc = "refresh" /\ proc'[p] = NoCall
  /\ \E rt \in {Next1, RT(proc[p].cred)} :
       Response1(p, RT(proc[p].cred), rt) /\ lost' = lost \cup ({rt} \ StoredRTs)
  /\ primary' = primary

SaveMove(p) ==
  /\ proc[p].pc = "saveKey" /\ proc'[p].pc = "dropFile" /\ proc'[p].old = proc[p].old
  /\ primary' = [primary EXCEPT ![IssuerOf[p]] = proc[p].cred]
  /\ issued' = issued /\ live' = live /\ lost' = lost

DeleteMove(p) ==
  /\ proc[p].pc = "deleteKey" /\ proc'[p].pc = "deleteFile" /\ proc'[p].old = proc[p].old
  /\ primary' = [primary EXCEPT ![IssuerOf[p]] = None]
  /\ issued' = issued /\ live' = live /\ lost' = lost

RevokeMove(p) ==
  /\ proc[p].pc = "revoke" /\ proc'[p] = NoCall
  /\ live \ {RT(proc[p].old)} \subseteq live' /\ lost \subseteq lost'
  /\ primary' = primary /\ issued' = issued

CrashMove(p) ==
  /\ proc'[p] = NoCall
  /\ lost' = lost \cup (Hands(p) \ StoredRTs)
  /\ primary' = primary /\ issued' = issued /\ live' = live

SwapMove(p) ==
  /\ proc[p].pc = "lock" /\ proc[p].op = "login" /\ proc'[p].pc = "saveKey" /\ proc'[p].op = "login"
  /\ proc'[p].cred = proc[p].cred /\ proc'[p].old = primary[IssuerOf[p]]
  /\ primary' = primary /\ issued' = issued /\ live' = live /\ lost' = lost

RemoveMove(p) ==
  /\ proc[p].pc = "lock" /\ proc'[p].pc = "deleteKey" /\ proc'[p].old = primary[IssuerOf[p]]
  /\ primary' = primary /\ issued' = issued /\ live' = live /\ lost' = lost

Replaced == {"revoke", "unlock", "dropFile", "deleteFile"}

CalmMove(p) ==
  /\ proc[p].pc # "saveKey" /\ proc'[p].pc # "saveKey" /\ (proc'[p].pc = "lock" => proc'[p].op # "login")
  /\ \/ proc'[p].old = None
     \/ proc'[p].old = proc[p].old /\ proc[p].pc \in Replaced
  /\ primary' = primary /\ issued' = issued /\ live' = live /\ lost \subseteq lost'

KeyMoves(p) ==
  LoginMove(p) \/ RefreshMove(p) \/ AnswerLost(p) \/ SaveMove(p) \/ DeleteMove(p) \/ RevokeMove(p)
  \/ CrashMove(p) \/ SwapMove(p) \/ RemoveMove(p) \/ CalmMove(p)

LEMMA KeyStep ==
  ASSUME Keychain, TypeOK, KnownInv, AllCalls, OneCopy, NEW p \in Procs, HolderInv(p), Step(p)
  PROVE  KeyMoves(p)
<1> DEFINE c == proc[p].cred
           o == proc[p].old
           e == proc[p].err
<1>a. CallMoves(p)
  BY CallStep
<1>b. /\ proc[p].op = "token" => o = None
      /\ proc[p].pc \in {"load", "refresh"} => proc[p].op = "token"
      /\ proc[p].pc = "lock" => o = None
  BY DEF AllCalls, CallInv, At
<1>c. /\ Load(p) = primary[IssuerOf[p]] /\ up
      /\ proc[p].pc # "saveFile" /\ proc[p].pc # "dropKey"
  BY LoadOne DEF OneCopy, HolderInv, At
<1>d. Ends(p) => proc'[p] = NoCall /\ proc'[p].pc = "idle" /\ proc'[p].old = None
  BY NoCallType DEF Ends
<1>1. CASE Login(p) /\ Begins(p, "lock", "login", Len(issued) + 1)
  <2>1. PICK rt \in {Next1, None} : Mint(IssuerOf[p], None, rt)
    BY <1>1 DEF Login, Next1
  <2>2. Response1(p, None, rt)
    BY <2>1, Typed, BoundsAssumption DEF Mint, Response1, Tokens, TypeOK
  <2>3. proc[p].pc = "idle" /\ primary' = primary /\ lost' = lost
    BY <1>1 DEF Login, store, ghosts, At
  <2> QED BY <1>1, <2>2, <2>3 DEF LoginMove, KeyMoves, Begins, Next1
<1>2. CASE Refreshed(p)
  <2>1. PICK rt \in {Next1, RT(c)} : Mint(IssuerOf[p], RT(c), rt)
    BY <1>2 DEF Refreshed, Next1
  <2>2. Response1(p, RT(c), rt)
    BY <2>1, Typed, BoundsAssumption DEF Mint, Response1, Tokens, TypeOK
  <2>3. proc[p].pc = "refresh" /\ primary' = primary
    BY <1>2 DEF Refreshed, store, At
  <2>4. issued'[Next1].rt = rt
    BY <2>2, NewResponse DEF Next1
  <2>5. CASE Sets(p, "saveKey", Len(issued) + 1, o, e) /\ lost' = lost
    BY <1>b, <2>2, <2>3, <2>5 DEF RefreshMove, KeyMoves, Sets, Next1
  <2>6. CASE Ends(p) /\ lost' = lost \cup ({issued'[Len(issued) + 1].rt} \ StoredRTs)
    BY <1>d, <2>2, <2>3, <2>4, <2>6 DEF AnswerLost, KeyMoves, Next1
  <2>7. issued \in Seq(Response) /\ Len(issued) \in Nat
    BY Typed
  <2>8. issued' # issued
    <3> DEFINE r == [iss |-> IssuerOf[p], rt |-> rt, from |-> RT(c)]
    <3>1. issued' = Append(issued, r)
      BY <2>2 DEF Response1
    <3> HIDE DEF r
    <3>2. Len(issued') = Len(issued) + 1
      BY <2>7, <3>1
    <3> QED BY <2>7, <3>2
  <2> HIDE DEF c, o, e
  <2>9. ~(\/ (\E rej \in Creds : Ask(p, rej)) \/ Login(p) \/ Logout(p) \/ LookUnlocked(p) \/ LookLocked(p) \/ GiveUpLock(p)
          \/ RefusedGrant(p) \/ RefreshFails(p) \/ Swap(p) \/ Remove(p) \/ Unlock(p) \/ Revoke(p) \/ SaveToKeychain(p)
          \/ DropFile(p) \/ SaveToFile(p) \/ DropKey(p) \/ DeleteKey(p) \/ DeleteFile(p) \/ Crash(p))
    BY <2>3, <2>8 DEF Ask, Login, Logout, LookUnlocked, LookLocked, GiveUpLock, RefusedGrant, RefreshFails, Swap, Remove, Unlock, Revoke,
       SaveToKeychain, DropFile, SaveToFile, DropKey, DeleteKey, DeleteFile, Crash, server, At
  <2> QED BY <1>a, <2>5, <2>6, <2>9 DEF CallMoves, c, o, e
<1>3. CASE SaveToKeychain(p) /\ Sets(p, "dropFile", c, o, e)
  BY <1>3, <1>c DEF SaveToKeychain, Sets, At, SaveMove, KeyMoves, server
<1>4. CASE DeleteKey(p) /\ Sets(p, "deleteFile", c, o, Keychain /\ ~up)
  BY <1>4, <1>c DEF DeleteKey, Sets, At, DeleteMove, KeyMoves, server
<1>5. CASE Revoke(p) /\ Ends(p)
  <2>1. proc[p].pc = "revoke" /\ primary' = primary /\ issued' = issued
    BY <1>5 DEF Revoke, store, At
  <2>2. live \ {RT(o)} \subseteq live' /\ lost \subseteq lost'
    BY <1>5 DEF Revoke
  <2> QED BY <1>5, <1>d, <2>1, <2>2 DEF RevokeMove, KeyMoves
<1>6. CASE Crash(p) /\ Ends(p)
  BY <1>6, <1>d DEF Crash, store, server, CrashMove, KeyMoves
<1>7. CASE Swap(p) /\ Sets(p, "saveKey", c, Load(p), e)
  BY <1>7, <1>c DEF Swap, Sets, store, server, ghosts, At, SwapMove, KeyMoves
<1>8. CASE Remove(p) /\ Sets(p, "deleteKey", c, Load(p), e)
  BY <1>8, <1>c DEF Remove, Sets, store, server, ghosts, At, RemoveMove, KeyMoves
<1> DEFINE calm == primary' = primary /\ issued' = issued /\ live' = live /\ lost \subseteq lost'
           from == proc[p].pc # "saveKey"
           to   == proc'[p].pc # "saveKey" /\ (proc'[p].pc = "lock" => proc'[p].op # "login")
           old  == proc'[p].old = None \/ (proc'[p].old = o /\ proc[p].pc \in Replaced)
<1>e. calm /\ from /\ to /\ old => KeyMoves(p)
  BY DEF CalmMove, KeyMoves
<1> HIDE DEF c, o, e, calm, from, to, old
<1>9. CASE \/ \E rej \in Creds : Ask(p, rej)
           \/ Logout(p) \/ LookUnlocked(p) \/ LookLocked(p) \/ GiveUpLock(p) \/ RefusedGrant(p) \/ RefreshFails(p)
           \/ Unlock(p) \/ DropFile(p) \/ DeleteFile(p)
  <2>1. calm
    BY <1>9 DEF Ask, Logout, LookUnlocked, LookLocked, GiveUpLock, RefusedGrant, RefreshFails, Unlock, DropFile, DeleteFile,
           calm, store, server, ghosts
  <2>2. from
    BY <1>9 DEF Ask, Logout, LookUnlocked, LookLocked, GiveUpLock, RefusedGrant, RefreshFails, Unlock, DropFile, DeleteFile,
           from, At
  <2>3. CASE Ends(p)
    BY <1>d, <1>e, <2>1, <2>2, <2>3 DEF to, old
  <2>4. CASE \/ Begins(p, "load", "token", Readable(IssuerOf[p]))
             \/ Begins(p, "lock", "logout", None)
    BY <1>e, <2>1, <2>2, <2>4 DEF to, old, Begins
  <2>5. CASE proc[p].op = "token" /\ (\/ Sets(p, "lock", None, o, e) \/ Sets(p, "refresh", Load(p), o, e)
                                      \/ Sets(p, "deleteKey", None, o, e))
    BY <1>b, <1>e, <2>1, <2>2, <2>5 DEF to, old, Sets
  <2>6. CASE o = None /\ Sets(p, "refresh", Load(p), o, e)
    BY <1>e, <2>1, <2>2, <2>6 DEF to, old, Sets
  <2>7. CASE proc[p].pc \in Replaced /\ \E d, f : Sets(p, "revoke", d, o, f) \/ Sets(p, "unlock", d, o, f)
    BY <1>e, <2>1, <2>2, <2>7 DEF to, old, Sets
  <2>8. /\ LookUnlocked(p) => proc[p].op = "token"
        /\ LookLocked(p) => o = None
        /\ RefusedGrant(p) => proc[p].op = "token"
        /\ Unlock(p) \/ DropFile(p) \/ DeleteFile(p) => proc[p].pc \in Replaced
    BY <1>b DEF LookUnlocked, LookLocked, RefusedGrant, Unlock, DropFile, DeleteFile, At, Replaced
  <2>9. CASE proc[p].pc \in Replaced
    <3>1. ~(Login(p) \/ Refreshed(p) \/ Swap(p) \/ Remove(p) \/ SaveToKeychain(p) \/ SaveToFile(p) \/ DropKey(p) \/ DeleteKey(p)
            \/ (\E rej \in Creds : Ask(p, rej)) \/ Logout(p) \/ LookUnlocked(p) \/ LookLocked(p) \/ GiveUpLock(p)
            \/ RefusedGrant(p) \/ RefreshFails(p))
      BY <2>9 DEF Login, Refreshed, Swap, Remove, SaveToKeychain, SaveToFile, DropKey, DeleteKey, Ask, Logout, LookUnlocked, LookLocked,
             GiveUpLock, RefusedGrant, RefreshFails, At, Replaced
    <3> QED BY <1>a, <1>5, <1>6, <2>3, <2>7, <2>9, <3>1 DEF CallMoves, c, o, e
  <2>10. CASE proc[p].pc \notin Replaced
    BY <1>a, <1>1, <1>2, <1>3, <1>4, <1>5, <1>6, <1>7, <1>8, <1>c, <2>3, <2>4, <2>5, <2>6, <2>8, <2>10
       DEF CallMoves, SaveToFile, DropKey, At, c, o, e
  <2> QED BY <2>9, <2>10
<1>10. ~SaveToFile(p) /\ ~DropKey(p)
  BY <1>c DEF SaveToFile, DropKey, At
<1> QED BY <1>a, <1>1, <1>2, <1>3, <1>4, <1>5, <1>6, <1>7, <1>8, <1>9, <1>10, <1>c DEF CallMoves, c, o, e

\* A response is added after those there were.
LEMMA Added ==
  ASSUME TypeOK, NEW p \in Procs, NEW from, NEW rt, Response1(p, from, rt)
  PROVE  /\ DOMAIN issued' = 1..Next1 /\ Next1 \in Nat /\ Next1 \notin DOMAIN issued /\ Next1 # None
         /\ \A n \in DOMAIN issued : n \in DOMAIN issued' /\ issued'[n] = issued[n]
         /\ \A n \in DOMAIN issued' : n = Next1 \/ n \in DOMAIN issued
         /\ issued'[Next1].iss = IssuerOf[p] /\ issued'[Next1].rt = rt /\ issued'[Next1].from = from
<1> DEFINE r == [iss |-> IssuerOf[p], rt |-> rt, from |-> from]
<1>1. issued' = Append(issued, r)
  BY DEF Response1
<1>2. issued \in Seq(Response) /\ Len(issued) \in Nat /\ DOMAIN issued = 1..Len(issued)
  BY Typed
<1>3. issued'[Next1].iss = IssuerOf[p] /\ issued'[Next1].rt = rt /\ issued'[Next1].from = from
  BY NewResponse DEF Next1
<1> HIDE DEF r
<1>4. DOMAIN issued' = 1..Next1 /\ \A n \in DOMAIN issued : issued'[n] = issued[n]
  BY <1>1, <1>2 DEF Next1
<1> QED BY <1>2, <1>3, <1>4 DEF Next1, None

\* A refresh answers for the session it spends, at its issuer.
LEMMA Answers ==
  ASSUME TypeOK, KnownInv, AllCalls, NEW p \in Procs, Step(p), Responds(p)
  PROVE  \E from, rt : /\ Response1(p, from, rt)
                       /\ \/ rt = Next1 \/ rt = None
                          \/ /\ rt = RT(proc[p].cred) /\ proc[p].cred \in DOMAIN issued
                             /\ issued[proc[p].cred].iss = IssuerOf[p]
<1>1. CASE Login(p) /\ \E rt \in {Len(issued) + 1, None} : Response1(p, None, rt)
  BY <1>1 DEF Next1
<1>2. CASE Refreshed(p) /\ \E rt \in {Len(issued) + 1, RT(proc[p].cred)} : Response1(p, RT(proc[p].cred), rt)
  <2>1. proc[p].cred # None /\ issued[proc[p].cred].iss = IssuerOf[p]
    BY <1>2 DEF Refreshed, At, AllCalls, CallInv, Iss
  <2>2. proc[p].cred \in DOMAIN issued
    BY <2>1, KnownFacts
  <2> QED BY <1>2, <2>1, <2>2 DEF Next1
<1> QED BY <1>1, <1>2 DEF Responds

\* One refresh token stays one issuer's.
LEMMA FamilyStep ==
  ASSUME TypeOK, KnownInv, AllCalls, FamilyInv, NEW p \in Procs, Step(p)
  PROVE  FamilyInv'
<1>1. CASE issued' = issued
  BY <1>1 DEF FamilyInv
<1>2. CASE Responds(p)
  <2>1. PICK from, rt : /\ Response1(p, from, rt)
                        /\ \/ rt = Next1 \/ rt = None
                           \/ /\ rt = RT(proc[p].cred) /\ proc[p].cred \in DOMAIN issued
                              /\ issued[proc[p].cred].iss = IssuerOf[p]
    BY <1>2, Answers
  <2>2. /\ Next1 \in Nat /\ Next1 # None /\ Next1 \notin DOMAIN issued
        /\ \A n \in DOMAIN issued' : n = Next1 \/ (n \in DOMAIN issued /\ issued'[n] = issued[n])
        /\ issued'[Next1].iss = IssuerOf[p] /\ issued'[Next1].rt = rt
    BY <2>1, Added
  <2>3. \A n \in DOMAIN issued : issued[n].rt # Next1
    <3>1. \A n \in 1..Len(issued) : issued[n].rt \in 0..n
      BY KnownFacts DEF KnownInv
    <3> QED BY <3>1, KnownFacts DEF Next1
  <2>4. ASSUME NEW n \in DOMAIN issued, issued[n].rt = rt, rt # None
        PROVE  issued[n].iss = IssuerOf[p]
    <3>1. rt = RT(proc[p].cred) /\ proc[p].cred \in DOMAIN issued /\ issued[proc[p].cred].iss = IssuerOf[p]
      BY <2>1, <2>3, <2>4
    <3>2. issued[proc[p].cred].rt = rt
      BY <2>4, <3>1 DEF RT
    <3> QED BY <2>4, <3>1, <3>2 DEF FamilyInv
  <2>5. SUFFICES ASSUME NEW m \in DOMAIN issued', NEW n \in DOMAIN issued', issued'[m].rt = issued'[n].rt, issued'[m].rt # None
                 PROVE  issued'[m].iss = issued'[n].iss
    BY DEF FamilyInv
  <2>6. CASE m \in DOMAIN issued /\ n \in DOMAIN issued
    BY <2>2, <2>5, <2>6 DEF FamilyInv
  <2>7. CASE m = Next1 \/ n = Next1
    BY <2>2, <2>4, <2>5, <2>7
  <2> QED BY <2>2, <2>6, <2>7
<1> QED BY <1>1, <1>2, ResponseStep

\* A refresh token that is fresh and in hand is in no other response.
LEMMA FreshKept ==
  ASSUME TypeOK, KnownInv, AllCalls, NEW p \in Procs, Step(p), proc[p].pc = "refresh" => proc[p].cred = primary[IssuerOf[p]],
         NEW d \in DOMAIN issued, \A j \in Issuers : primary[j] # d
  PROVE  (issued'[d].rt = d /\ \A n \in DOMAIN issued' : issued'[n].rt = d => n = d) <=> Fresh(d)
<1>1. CASE issued' = issued
  BY <1>1 DEF Fresh
<1>2. CASE Responds(p)
  <2>1. PICK from, rt : Response1(p, from, rt) /\ (rt = Next1 \/ rt = None \/ (rt = RT(proc[p].cred) /\ Refreshed(p)))
    BY <1>2 DEF Responds, Next1
  <2>2. /\ Next1 \in Nat /\ Next1 # None /\ Next1 \notin DOMAIN issued /\ Next1 \in DOMAIN issued'
        /\ \A n \in DOMAIN issued : n \in DOMAIN issued' /\ issued'[n] = issued[n]
        /\ \A n \in DOMAIN issued' : n = Next1 \/ n \in DOMAIN issued
        /\ issued'[Next1].rt = rt
    BY <2>1, Added
  <2>3. Fresh(d) => rt # d
    <3>1. CASE rt = Next1 \/ rt = None
      BY <2>2, <3>1, KnownFacts DEF None
    <3>2. CASE rt = RT(proc[p].cred) /\ Refreshed(p)
      <4>1. proc[p].cred # None /\ proc[p].cred # d
        BY <3>2, ProcsAssumption DEF Refreshed, At, AllCalls, CallInv
      <4>2. proc[p].cred \in DOMAIN issued
        BY <4>1, KnownFacts
      <4> QED BY <3>2, <4>1, <4>2 DEF RT, Fresh
    <3> QED BY <2>1, <3>1, <3>2
  <2> QED BY <2>2, <2>3 DEF Fresh
<1> QED BY <1>1, <1>2, ResponseStep

LEMMA KeyFacts ==
  ASSUME TypeOK, KnownInv, AllCalls, NEW p \in Procs, KeyMoves(p)
  PROVE  /\ \A j \in Issuers : \/ primary'[j] = primary[j]
                               \/ primary'[j] = None
                               \/ j = IssuerOf[p] /\ primary'[j] = proc[p].cred /\ proc[p].pc = "saveKey"
         /\ \A j \in Issuers : j # IssuerOf[p] => primary'[j] = primary[j]
         /\ proc'[p].old = None \/ proc'[p].old = proc[p].old \/ proc'[p].old = primary[IssuerOf[p]]
         /\ \A x \in live : \/ x \in live'
                            \/ proc[p].pc = "refresh" /\ x = RT(proc[p].cred)
                            \/ proc[p].pc = "revoke" /\ x = RT(proc[p].old)
         /\ InHand(p)' => LoginMove(p) \/ RefreshMove(p) \/ SwapMove(p)
         /\ lost \subseteq lost'
<1>a. primary \in [Issuers -> Creds] /\ IssuerOf[p] \in Issuers
  BY Typed
<1>b. NoCall.pc = "idle" /\ NoCall.old = None
  BY NoCallType
<1>c. proc[p].pc = "idle" => proc[p].old = None
  BY NoCallType DEF AllCalls, CallInv, At
<1>1. CASE LoginMove(p)
  <2>1. PICK rt \in {Next1, None} : Response1(p, None, rt)
    BY <1>1 DEF LoginMove
  <2>2. None \notin live
    BY DEF KnownInv, None
  <2>3. live \subseteq live'
    BY <2>1, <2>2 DEF Response1
  <2> QED BY <1>1, <2>3 DEF LoginMove
<1>2. CASE RefreshMove(p)
  BY <1>2 DEF RefreshMove, Response1, InHand, At
<1>3. CASE AnswerLost(p)
  BY <1>3, <1>b DEF AnswerLost, Response1, InHand, At
<1>4. CASE SaveMove(p)
  BY <1>4, <1>a DEF SaveMove, InHand, At
<1>5. CASE DeleteMove(p)
  BY <1>5, <1>a DEF DeleteMove, InHand, At
<1>6. CASE RevokeMove(p)
  BY <1>6, <1>b DEF RevokeMove, InHand, At
<1>7. CASE CrashMove(p)
  BY <1>7, <1>b DEF CrashMove, InHand, At
<1>8. CASE SwapMove(p)
  BY <1>8 DEF SwapMove, InHand, At
<1>9. CASE RemoveMove(p)
  BY <1>9 DEF RemoveMove, InHand, At
<1>10. CASE CalmMove(p)
  BY <1>10 DEF CalmMove, InHand, At
<1> QED BY <1>1, <1>2, <1>3, <1>4, <1>5, <1>6, <1>7, <1>8, <1>9, <1>10 DEF KeyMoves

\* What a process in hand of a session knows of it.
FreshFor(q, d) ==
  /\ Fresh(d) => d \in live
  /\ \A j \in Issuers : primary[j] # d
  /\ \A s \in Procs : proc[s].old # d /\ (s # q /\ InHand(s) => proc[s].cred # d)

LEMMA FreshForKept ==
  ASSUME TypeOK, KnownInv, AllCalls, NEW p \in Procs, Step(p), KeyMoves(p),
         proc[p].pc = "refresh" => proc[p].cred = primary[IssuerOf[p]],
         NEW q \in Procs, NEW d \in DOMAIN issued, FreshFor(q, d), q = p => proc[p].pc = "lock",
         q # p /\ InHand(p) => proc[p].cred # d
  PROVE  FreshFor(q, d)'
<1>a. d # None /\ d # Next1 /\ d \in 1..Len(issued)
  BY KnownFacts DEF None, Next1
<1>b. IssuerOf[p] \in Issuers
  BY Typed
<1>1. Fresh(d)' => d \in live'
  <2>1. Fresh(d)' => Fresh(d)
    BY FreshKept DEF FreshFor, Fresh
  <2>2. proc[p].pc = "refresh" => ~(Fresh(d) /\ d = RT(proc[p].cred))
    <3>1. proc[p].pc = "refresh" => proc[p].cred # None /\ proc[p].cred # d
      BY <1>b DEF AllCalls, CallInv, FreshFor
    <3>2. proc[p].cred # None => proc[p].cred \in DOMAIN issued
      BY KnownFacts
    <3> QED BY <3>1, <3>2 DEF Fresh, RT
  <2>3. ~(Fresh(d) /\ d = RT(proc[p].old))
    <3>1. proc[p].old # d
      BY DEF FreshFor
    <3>2. proc[p].old # None => proc[p].old \in DOMAIN issued
      BY KnownFacts
    <3> QED BY <1>a, <3>1, <3>2 DEF Fresh, RT
  <2> QED BY <2>1, <2>2, <2>3, KeyFacts DEF FreshFor
<1>2. ASSUME NEW j \in Issuers PROVE primary'[j] # d
  <2>1. proc[p].pc = "saveKey" => proc[p].cred # d
    BY DEF InHand
  <2> QED BY <1>a, <2>1, KeyFacts DEF FreshFor
<1>3. ASSUME NEW s \in Procs
      PROVE  proc'[s].old # d /\ (s # q /\ InHand(s)' => proc'[s].cred # d)
  <2>1. CASE s # p
    BY <2>1, OthersKept DEF FreshFor, InHand, At
  <2>2. CASE s = p
    <3>1. proc'[p].old # d
      BY <1>a, <1>b, KeyFacts DEF FreshFor
    <3>2. ASSUME p # q, InHand(p)' PROVE proc'[p].cred # d
      <4>1. CASE LoginMove(p) \/ RefreshMove(p)
        BY <1>a, <4>1 DEF LoginMove, RefreshMove
      <4>2. CASE SwapMove(p)
        BY <3>2, <4>2 DEF SwapMove, InHand, At
      <4> QED BY <3>2, <4>1, <4>2, KeyFacts
    <3> QED BY <2>2, <3>1, <3>2
  <2> QED BY <2>1, <2>2
<1> QED BY <1>1, <1>2, <1>3 DEF FreshFor

\* A response that has just been made is in hand of nobody else.
LEMMA FreshForNew ==
  ASSUME TypeOK, KnownInv, AllCalls, NEW p \in Procs, Step(p), LoginMove(p) \/ RefreshMove(p), NEW d, d = Next1
  PROVE  FreshFor(p, d)'
<1>1. PICK from, rt : Response1(p, from, rt)
  BY DEF LoginMove, RefreshMove
<1>2. issued'[d].rt = rt /\ d # None /\ \A k \in 0..Len(issued) : k # d
  BY <1>1, Added, KnownFacts DEF Next1
<1>3. Fresh(d)' => d \in live'
  BY <1>1, <1>2 DEF Response1, Fresh
<1>4. \A j \in Issuers : primary'[j] # d
  BY <1>2, KnownFacts DEF LoginMove, RefreshMove
<1>5. ASSUME NEW s \in Procs PROVE proc'[s].old # d /\ (s # p => proc'[s].cred # d)
  <2>1. s # p => proc'[s] = proc[s]
    BY OthersKept
  <2>2. proc[s].old # d /\ proc[s].cred # d
    BY <1>2, KnownFacts
  <2>3. proc'[p].old = None
    BY DEF LoginMove, RefreshMove
  <2> QED BY <1>2, <2>1, <2>2, <2>3
<1> QED BY <1>3, <1>4, <1>5 DEF FreshFor

FreshMine(q) ==
  /\ proc[q].op = "login" => RT(proc[q].cred) = None \/ Fresh(proc[q].cred)
  /\ proc[q].op = "token" => RT(proc[q].cred) = RT(primary[IssuerOf[q]]) \/
       (Fresh(proc[q].cred) /\ issued[proc[q].cred].from = RT(primary[IssuerOf[q]]))

LEMMA FreshParts == FreshInv <=> \A q \in Procs : InHand(q) => FreshMine(q) /\ FreshFor(q, proc[q].cred)
BY DEF FreshInv, FreshMine, FreshFor

\* What is in hand is kept apart from everything else, whoever takes a step.
LEMMA FreshStep ==
  ASSUME Keychain, TypeOK, KnownInv, AllCalls, OneCopy, FreshInv, NEW p \in Procs, Step(p), KeyMoves(p), HolderInv(p)
  PROVE  FreshInv'
<1>a. proc[p].pc = "refresh" => proc[p].cred = primary[IssuerOf[p]]
  BY LoadOne DEF HolderInv, At
<1>b. \A q \in Procs : InHand(q) => FreshMine(q) /\ FreshFor(q, proc[q].cred) /\ proc[q].cred # None
  BY FreshParts DEF InHand, AllCalls, CallInv
<1>c. \A q \in Procs : proc[q].cred # None => proc[q].cred \in DOMAIN issued
  BY KnownFacts
<1>d. \A k \in 0..Len(issued) : RT(k)' = RT(k)
  BY Grows
<1>1. SUFFICES ASSUME NEW q \in Procs, InHand(q)'
               PROVE  FreshMine(q)' /\ FreshFor(q, proc[q].cred)'
  BY DEF FreshInv, FreshMine, FreshFor
<1>2. PICK d : d = proc'[q].cred
  OBVIOUS
<1>3. CASE (q # p \/ SwapMove(p)) /\ InHand(q)
  <2>1. proc'[q].cred = proc[q].cred /\ proc'[q].op = proc[q].op
    BY <1>3, OthersKept DEF SwapMove
  <2>2. d \in DOMAIN issued /\ FreshFor(q, d) /\ FreshMine(q)
    BY <1>2, <1>3, <1>b, <1>c, <2>1
  <2>3. FreshFor(q, d)'
    <3>1. q = p => proc[p].pc = "lock"
      BY <1>3 DEF SwapMove
    <3>2. q # p /\ InHand(p) => proc[p].cred # d
      BY <2>2 DEF FreshFor
    <3> QED BY <1>a, <2>2, <3>1, <3>2, FreshForKept
  <2>4. Fresh(d)' <=> Fresh(d)
    BY <1>a, <2>2, FreshKept DEF FreshFor, Fresh
  <2>5. d \in 0..Len(issued) /\ (IF d = None THEN None ELSE issued'[d].rt) = RT(d) /\ issued'[d] = issued[d]
    BY <2>2, Grows, KnownFacts DEF RT, None
  <2>6. FreshMine(q)'
    <3>1. CASE proc[q].op = "login"
      BY <1>2, <2>1, <2>2, <2>4, <2>5, <3>1 DEF FreshMine, RT
    <3>2. CASE proc[q].op = "token" /\ q # p
      <4>1. proc[q].pc = "saveKey"
        BY <1>3, <3>2 DEF InHand, At
      <4>2. primary' = primary
        BY <3>2, <4>1, AsideStep DEF Free
      <4>3. PICK k \in 0..Len(issued) : k = primary[IssuerOf[q]]
        BY KnownFacts, Typed
      <4>4. RT(k) = (IF k = None THEN None ELSE issued'[k].rt)
        BY Grows DEF RT
      <4> QED BY <1>2, <2>1, <2>2, <2>4, <2>5, <3>2, <4>2, <4>3, <4>4 DEF FreshMine, RT
    <3>3. CASE proc[q].op = "token" /\ q = p
      BY <1>3, <3>3 DEF SwapMove
    <3>4. CASE proc[q].op = "logout"
      BY <2>1, <3>4 DEF FreshMine
    <3> QED BY <3>1, <3>2, <3>3, <3>4, Typed
  <2> QED BY <1>2, <2>3, <2>6
<1>4. CASE q = p /\ (LoginMove(p) \/ RefreshMove(p))
  <2>1. d = Next1
    BY <1>2, <1>4 DEF LoginMove, RefreshMove
  <2>2. FreshFor(p, d)'
    BY <1>4, <2>1, FreshForNew
  <2>3. ASSUME NEW from, NEW rt, Response1(p, from, rt)
        PROVE  issued'[d].rt = rt /\ issued'[d].from = from /\ d # None /\ (rt = d => Fresh(d)')
    <3>1. /\ \A n \in DOMAIN issued : issued'[n] = issued[n]
          /\ \A n \in DOMAIN issued' : n = d \/ n \in DOMAIN issued
          /\ issued'[d].rt = rt /\ issued'[d].from = from /\ d # None
      BY <2>1, <2>3, Added
    <3>2. \A n \in DOMAIN issued : issued[n].rt # d
      <4>1. \A n \in 1..Len(issued) : issued[n].rt \in 0..n
        BY KnownFacts DEF KnownInv
      <4> QED BY <2>1, <4>1, KnownFacts DEF Next1
    <3> QED BY <3>1, <3>2 DEF Fresh
  <2>4. CASE LoginMove(p)
    <3>1. PICK rt \in {Next1, None} : Response1(p, None, rt)
      BY <2>4 DEF LoginMove
    <3>2. issued'[d].rt = rt /\ (rt = d => Fresh(d)') /\ proc'[p].op = "login"
      BY <2>3, <2>4, <3>1 DEF LoginMove
    <3>3. FreshMine(p)'
      BY <1>2, <1>4, <2>1, <3>1, <3>2 DEF FreshMine, RT
    <3> QED BY <1>2, <1>4, <2>2, <3>3
  <2>5. CASE RefreshMove(p)
    <3>1. PICK rt \in {Next1, RT(proc[p].cred)} : Response1(p, RT(proc[p].cred), rt)
      BY <2>5 DEF RefreshMove
    <3>2. issued'[d].rt = rt /\ issued'[d].from = RT(proc[p].cred) /\ d # None /\ (rt = d => Fresh(d)') /\ proc'[p].op = "token"
      BY <2>3, <2>5, <3>1 DEF RefreshMove
    <3>3. PICK k \in 0..Len(issued) : k = primary[IssuerOf[p]] /\ k = proc[p].cred /\ k = primary'[IssuerOf[p]]
      BY <1>a, <2>5, KnownFacts, Typed DEF RefreshMove
    <3>4. RT(k) = (IF k = None THEN None ELSE issued'[k].rt)
      BY Grows DEF RT
    <3>5. FreshMine(p)'
      BY <1>2, <1>4, <2>1, <3>1, <3>2, <3>3, <3>4 DEF FreshMine, RT
    <3> QED BY <1>2, <1>4, <2>2, <3>5
  <2> QED BY <1>4, <2>4, <2>5
<1>5. q # p => InHand(q)
  BY <1>1, OthersKept DEF InHand, At
<1>6. SwapMove(p) => InHand(p)
  BY DEF SwapMove, InHand, At
<1> QED BY <1>1, <1>3, <1>4, <1>5, <1>6, KeyFacts

\* A session kept to be revoked is no longer stored nor about to be.
LEMMA OldStep ==
  ASSUME Keychain, TypeOK, KnownInv, AllCalls, OneCopy, FamilyInv, FreshInv, OldInv,
         NEW p \in Procs, Step(p), KeyMoves(p), HolderInv(p)
  PROVE  OldInv'
<1> DEFINE i == IssuerOf[p]
           c == proc[p].cred
           o == proc[p].old
<1>a. primary \in [Issuers -> Creds] /\ i \in Issuers /\ proc[p].op \in {"token", "login", "logout"}
  BY Typed
<1>b. /\ \A k \in 0..Len(issued) : (IF k = None THEN None ELSE issued'[k].rt) = RT(k) /\ (k # None => k \in DOMAIN issued)
      /\ None \in 0..Len(issued) /\ RT(None) = None
  BY Grows, KnownFacts DEF RT, None
<1>c. /\ \A j \in Issuers : primary[j] \in 0..Len(issued) /\ (primary[j] # None => issued[primary[j]].iss = j)
      /\ c \in 0..Len(issued) /\ \A q \in Procs : proc[q].old \in 0..Len(issued)
  BY KnownFacts DEF KnownInv, Iss
<1>d. Load(p) = primary[i]
  BY LoadOne
<1>e. proc[p].pc = "saveKey" =>
        /\ c # None /\ FreshMine(p) /\ FreshFor(p, c) /\ proc[p].op # "logout"
        /\ proc[p].op = "login" => o = primary[i]
        /\ proc[p].op = "token" => o = None
  BY <1>d, FreshParts DEF InHand, AllCalls, CallInv, At, HolderInv
<1> HIDE DEF i, c, o
<1>1. SUFFICES ASSUME NEW q \in Procs, NEW d, d = proc'[q].old, proc'[q].pc \in Replaced,
                      NEW r, r = (IF d = None THEN None ELSE issued'[d].rt), r # None, NEW j \in Issuers
               PROVE  (IF primary'[j] = None THEN None ELSE issued'[primary'[j]].rt) # r
  BY DEF OldInv, RT, Replaced
\* A session about to be stored is another one.
<1>2. ASSUME proc[p].pc = "saveKey", NEW s \in Procs, d = proc[s].old,
             proc[p].op = "token" => RT(primary[i]) # RT(d)
      PROVE  RT(c) # RT(d)
  <2>1. d # None /\ d \in DOMAIN issued /\ RT(d) = r
    BY <1>1, <1>2, <1>b, <1>c
  <2>2. c # None /\ FreshMine(p) /\ d # c
    BY <1>2, <1>e DEF FreshFor
  <2>3. Fresh(c) => RT(c) = c /\ RT(d) # c
    BY <2>1, <2>2 DEF Fresh, RT
  <2>4. proc[p].op = "login" => RT(c) = None \/ Fresh(c)
    BY <2>2 DEF FreshMine, c
  <2>5. proc[p].op = "token" => RT(c) = RT(primary[i]) \/ Fresh(c)
    BY <2>2 DEF FreshMine, c, i
  <2>6. Fresh(c) => RT(c) # RT(d)
    BY <2>3
  <2>7. RT(c) = None => RT(c) # RT(d)
    BY <1>1, <2>1
  <2> QED BY <1>2, <1>a, <1>e, <2>4, <2>5, <2>6, <2>7
<1>3. CASE q # p \/ CalmMove(p)
  <2>1. d = proc[q].old /\ proc[q].pc \in Replaced
    <3>1. CASE q # p
      BY <1>1, <3>1, OthersKept
    <3>2. CASE q = p /\ CalmMove(p)
      BY <1>1, <3>2 DEF CalmMove
    <3> QED BY <1>3, <3>1, <3>2
  <2>2. RT(d) = r
    BY <1>1, <1>b, <1>c, <2>1
  <2>3. \A k \in Issuers : RT(primary[k]) # r
    BY <1>1, <2>1, <2>2 DEF OldInv, Replaced
  <2>4. CASE primary'[j] = primary[j]
    BY <1>b, <1>c, <2>3, <2>4
  <2>5. CASE primary'[j] = None
    BY <1>1, <2>5
  <2>6. CASE primary'[j] = c /\ proc[p].pc = "saveKey"
    BY <1>2, <1>a, <1>b, <1>c, <2>1, <2>2, <2>3, <2>6
  <2> QED BY <2>4, <2>5, <2>6, KeyFacts DEF c
<1>4. CASE q = p /\ (SaveMove(p) \/ DeleteMove(p))
  <2>1. d = o
    BY <1>1, <1>4 DEF SaveMove, DeleteMove, o
  <2>2. d # None /\ RT(d) = r /\ o = primary[i]
    <3>1. d # None /\ RT(d) = r
      BY <1>1, <1>b, <1>c, <2>1 DEF o
    <3>2. proc[p].op # "token"
      BY <2>1, <3>1 DEF AllCalls, CallInv, o
    <3> QED BY <1>4, <1>d, <2>1, <3>1, <3>2 DEF HolderInv, SaveMove, DeleteMove, At, o
  <2>3. CASE j # i
    <3>1. primary'[j] = primary[j]
      BY <2>3, KeyFacts DEF i
    <3>2. RT(primary[j]) # r
      <4>1. SUFFICES ASSUME RT(primary[j]) = r PROVE FALSE
        OBVIOUS
      <4>2. primary[j] # None /\ primary[i] # None /\ primary[j] \in DOMAIN issued /\ primary[i] \in DOMAIN issued
        BY <1>1, <1>a, <1>b, <1>c, <2>1, <2>2, <4>1
      <4>3. issued[primary[j]].rt = issued[primary[i]].rt /\ issued[primary[j]].rt # None
        BY <1>1, <2>1, <2>2, <4>1, <4>2 DEF RT
      <4>4. issued[primary[j]].iss = j /\ issued[primary[i]].iss = i
        BY <1>a, <1>c, <4>2
      <4> QED BY <2>3, <4>2, <4>3, <4>4 DEF FamilyInv
    <3> QED BY <1>b, <1>c, <3>1, <3>2
  <2>4. CASE j = i /\ SaveMove(p)
    <3>1. primary'[j] = c /\ proc[p].pc = "saveKey" /\ proc[p].op # "token"
      BY <1>a, <1>e, <2>1, <2>2, <2>4 DEF SaveMove, i, c
    <3>2. RT(c) # RT(d)
      BY <1>2, <2>1, <3>1 DEF o
    <3> QED BY <1>b, <1>c, <2>2, <3>1, <3>2
  <2>5. CASE j = i /\ DeleteMove(p)
    BY <1>1, <1>a, <2>5 DEF DeleteMove, i
  <2> QED BY <1>4, <2>3, <2>4, <2>5
<1>5. CASE q = p /\ ~(CalmMove(p) \/ SaveMove(p) \/ DeleteMove(p))
  <2>1. proc'[p].pc \notin Replaced
    BY <1>5, NoCallType DEF KeyMoves, LoginMove, RefreshMove, AnswerLost, RevokeMove, CrashMove, SwapMove, RemoveMove, Replaced
  <2> QED BY <1>1, <1>5, <2>1
<1> QED BY <1>3, <1>4, <1>5

LEMMA SpendStep ==
  ASSUME TypeOK, KnownInv, AllCalls, SpendInv, NEW p \in Procs, Step(p)
  PROVE  SpendInv'
<1>1. SUFFICES ASSUME NEW q \in Procs, NEW d, d = proc'[q].cred, proc'[q].pc = "refresh"
               PROVE  (IF d = None THEN None ELSE issued'[d].rt) # None
  BY DEF SpendInv, RT, At
<1>2. d \in 0..Len(issued) /\ RT(d) # None
  <2>1. CASE q # p
    <3>1. proc'[q] = proc[q]
      BY <2>1, OthersKept
    <3> QED BY <1>1, <3>1, KnownFacts DEF SpendInv, At
  <2>2. CASE q = p
    <3>1. CallMoves(p)
      BY CallStep
    <3>2. Ends(p) => proc'[p].pc # "refresh"
      BY NoCallType DEF Ends
    <3>3. proc'[p].cred = Load(p) /\ RT(Load(p)) # None
      BY <1>1, <2>2, <3>1, <3>2 DEF CallMoves, Sets, Begins
    <3> QED BY <1>1, <2>2, <3>3, KnownFacts
  <2> QED BY <2>1, <2>2
<1> QED BY <1>2, Grows DEF RT

\* The successor of r is about to be stored for issuer i.
Rotating(q, i, r) ==
  /\ IssuerOf[q] = i /\ proc[q].pc = "saveKey" /\ proc[q].op = "token"
  /\ Fresh(proc[q].cred) /\ issued[proc[q].cred].from = r

LiveFor(i, r) == r \in live \/ SuccessorLost(r) \/ \E q \in Procs : Rotating(q, i, r)

LEMMA LiveParts == LiveInv <=> \A i \in Issuers : RT(primary[i]) # None => LiveFor(i, RT(primary[i]))
BY DEF LiveInv, LiveFor, Rotating, At

LEMMA SuccessorKept ==
  ASSUME TypeOK, KnownInv, NEW p \in Procs, Step(p), NEW r, SuccessorLost(r)
  PROVE  SuccessorLost(r)'
<1>1. PICK n \in lost : issued[n].from = r
  BY DEF SuccessorLost
<1>2. n \in lost' /\ n \in DOMAIN issued
  BY LostKnown, KnownFacts DEF KnownInv
<1>3. issued'[n] = issued[n]
  BY <1>2, Grows
<1> QED BY <1>1, <1>2, <1>3 DEF SuccessorLost

\* A refresh spends the session stored for its issuer and for no other.
LEMMA LiveRefresh ==
  ASSUME Keychain, TypeOK, KnownInv, AllCalls, OneCopy, FamilyInv, NEW p \in Procs, Step(p), HolderInv(p),
         RefreshMove(p) \/ AnswerLost(p), NEW i \in Issuers, NEW r, r = RT(primary[i]), r # None, r = RT(proc[p].cred)
  PROVE  LiveFor(i, r)'
<1> DEFINE c == proc[p].cred
<1>a. proc[p].pc = "refresh" /\ c = primary[IssuerOf[p]] /\ c # None /\ issued[c].iss = IssuerOf[p]
  BY LoadOne DEF RefreshMove, AnswerLost, HolderInv, At, AllCalls, CallInv, Iss
<1>b. c \in DOMAIN issued /\ primary[i] \in DOMAIN issued /\ primary[i] # None /\ issued[primary[i]].iss = i
  <2>1. primary[i] # None
    BY DEF RT
  <2> QED BY <1>a, <2>1, KnownFacts DEF KnownInv, Iss
<1>c. IssuerOf[p] = i
  <2>1. issued[c].rt = r /\ issued[primary[i]].rt = r
    BY <1>a, <1>b DEF RT
  <2> QED BY <1>a, <1>b, <2>1 DEF FamilyInv
<1> HIDE DEF c
<1>1. PICK rt \in {Next1, RT(proc[p].cred)} : /\ Response1(p, RT(proc[p].cred), rt)
                                              /\ AnswerLost(p) => lost' = lost \cup ({rt} \ StoredRTs)
  <2>1. RefreshMove(p) => ~AnswerLost(p)
    BY NoCallType DEF RefreshMove, AnswerLost
  <2> QED BY <2>1 DEF RefreshMove, AnswerLost
<1>2. CASE rt = RT(proc[p].cred)
  <2>1. r \in live'
    BY <1>1, <1>2 DEF Response1
  <2> QED BY <2>1 DEF LiveFor
<1>3. CASE rt = Next1
  <2> DEFINE d == Next1
  <2>1. PICK n : n = Next1
    OBVIOUS
  <2>2. /\ \A m \in DOMAIN issued : issued'[m] = issued[m]
        /\ \A m \in DOMAIN issued' : m = n \/ m \in DOMAIN issued
        /\ issued'[n].rt = n /\ issued'[n].from = r
    BY <1>1, <1>3, <2>1, Added
  <2>3. \A m \in DOMAIN issued : issued[m].rt # n
    <3>1. \A m \in 1..Len(issued) : issued[m].rt \in 0..m
      BY KnownFacts DEF KnownInv
    <3> QED BY <2>1, <3>1, KnownFacts DEF Next1
  <2>4. Fresh(n)'
    BY <2>2, <2>3 DEF Fresh
  <2>5. CASE RefreshMove(p)
    <3>1. proc'[p].pc = "saveKey" /\ proc'[p].op = "token" /\ proc'[p].cred = n
      BY <2>1, <2>5 DEF RefreshMove
    <3>2. Rotating(p, i, r)'
      BY <1>c, <2>2, <2>4, <3>1 DEF Rotating
    <3> QED BY <3>2 DEF LiveFor
  <2>6. CASE AnswerLost(p)
    <3>1. n \notin StoredRTs
      BY <2>1, KnownFacts DEF Next1
    <3>2. n \in lost'
      BY <1>1, <1>3, <2>1, <2>6, <3>1
    <3>3. SuccessorLost(r)'
      BY <2>2, <3>2 DEF SuccessorLost
    <3> QED BY <3>3 DEF LiveFor
  <2> QED BY <2>5, <2>6
<1> QED BY <1>1, <1>2, <1>3

\* A rotation under way ends with its session stored, or lost.
LEMMA RotatingStep ==
  ASSUME Keychain, TypeOK, KnownInv, AllCalls, OneCopy, FreshInv, NEW p \in Procs, Step(p), KeyMoves(p), HolderInv(p),
         NEW i \in Issuers, NEW q \in Procs, NEW r, Rotating(q, i, r), primary'[i] = primary[i]
  PROVE  LiveFor(i, r)'
<1>1. PICK d : d = proc[q].cred
  OBVIOUS
<1>2. d # None /\ d \in DOMAIN issued /\ Fresh(d) /\ issued[d].from = r /\ FreshFor(q, d) /\ i = IssuerOf[q]
      /\ proc[q].pc = "saveKey"
  <2>1. InHand(q) /\ proc[q].pc = "saveKey"
    BY DEF Rotating, InHand
  <2>2. d # None /\ FreshFor(q, d)
    BY <1>1, <2>1, FreshParts DEF AllCalls, CallInv
  <2> QED BY <1>1, <2>1, <2>2, KnownFacts DEF Rotating
<1>3. CASE q # p
  <2>1. proc'[q] = proc[q]
    BY <1>3, OthersKept
  <2>2. proc[p].pc = "refresh" => FALSE
    BY <1>2, <1>3, AsideStep DEF Free
  <2>3. Fresh(d)'
    BY <1>2, <2>2, FreshKept DEF FreshFor, Fresh
  <2>4. issued'[d].from = r
    BY <1>2, Grows
  <2>5. Rotating(q, i, r)'
    BY <1>1, <2>1, <2>3, <2>4 DEF Rotating
  <2> QED BY <2>5 DEF LiveFor
<1>4. CASE q = p
  <2>1. ~SaveMove(p)
    <3>1. SaveMove(p) => primary'[i] = d
      BY <1>1, <1>2, <1>4, Typed DEF SaveMove
    <3> QED BY <1>2, <3>1 DEF FreshFor
  <2>2. CrashMove(p)
    BY <1>2, <1>4, <2>1 DEF KeyMoves, LoginMove, RefreshMove, AnswerLost, DeleteMove, RevokeMove, SwapMove, RemoveMove, CalmMove
  <2>3. d \in Hands(p)
    <3>1. RT(d) = d
      BY <1>2 DEF Fresh, RT
    <3> QED BY <1>1, <1>2, <1>4, <3>1 DEF Hands
  <2>4. d \notin StoredRTs
    <3>1. file = None
      BY DEF OneCopy
    <3>2. RT(file) # d
      BY <1>2, <3>1 DEF RT
    <3>3. ASSUME NEW j \in Issuers PROVE RT(primary[j]) # d
      <4>1. primary[j] # None => primary[j] \in DOMAIN issued
        BY KnownFacts
      <4>2. primary[j] # d
        BY <1>2 DEF FreshFor
      <4> QED BY <1>2, <4>1, <4>2 DEF Fresh, RT
    <3> QED BY <3>2, <3>3 DEF StoredRTs
  <2>5. d \in lost' /\ issued'[d].from = r
    BY <1>2, <2>2, <2>3, <2>4 DEF CrashMove
  <2>6. SuccessorLost(r)'
    BY <2>5 DEF SuccessorLost
  <2> QED BY <2>6 DEF LiveFor
<1> QED BY <1>3, <1>4

LEMMA LiveStep ==
  ASSUME Keychain, TypeOK, KnownInv, AllCalls, OneCopy, FamilyInv, FreshInv, OldInv, LiveInv,
         NEW p \in Procs, Step(p), KeyMoves(p), HolderInv(p)
  PROVE  LiveInv'
<1> DEFINE c == proc[p].cred
<1>1. SUFFICES ASSUME NEW i \in Issuers, NEW d, d = primary'[i], NEW r, r = (IF d = None THEN None ELSE issued'[d].rt), r # None
               PROVE  LiveFor(i, r)'
  BY DEF LiveInv, LiveFor, Rotating, RT, At
<1>2. \A k \in 0..Len(issued) : (IF k = None THEN None ELSE issued'[k].rt) = RT(k)
  BY Grows DEF RT
<1>3. primary[i] \in 0..Len(issued) /\ c \in 0..Len(issued)
  BY KnownFacts
<1>4. CASE d = primary[i]
  <2>1. r = RT(primary[i]) /\ primary'[i] = primary[i]
    BY <1>1, <1>2, <1>3, <1>4
  <2>2. LiveFor(i, r)
    BY <1>1, <2>1, LiveParts
  <2>3. CASE r \in live
    <3>1. CASE r \in live'
      BY <3>1 DEF LiveFor
    <3>2. CASE proc[p].pc = "revoke" /\ r = RT(proc[p].old)
      BY <1>1, <2>1, <3>2 DEF OldInv
    <3>3. CASE proc[p].pc = "refresh" /\ r = RT(c) /\ r \notin live'
      <4>1. RefreshMove(p) \/ AnswerLost(p)
        BY <2>3, <3>3 DEF KeyMoves, LoginMove, SaveMove, DeleteMove, RevokeMove, CrashMove, SwapMove, RemoveMove, CalmMove
      <4> QED BY <1>1, <2>1, <3>3, <4>1, LiveRefresh
    <3> QED BY <2>3, <3>1, <3>2, <3>3, KeyFacts
  <2>4. CASE SuccessorLost(r)
    BY <2>4, SuccessorKept DEF LiveFor
  <2>5. CASE \E q \in Procs : Rotating(q, i, r)
    BY <2>1, <2>5, RotatingStep
  <2> QED BY <2>2, <2>3, <2>4, <2>5 DEF LiveFor
<1>5. CASE d # primary[i]
  <2>1. i = IssuerOf[p] /\ d = c /\ proc[p].pc = "saveKey" /\ SaveMove(p)
    <3>1. d # None
      BY <1>1
    <3>2. i = IssuerOf[p] /\ d = c /\ proc[p].pc = "saveKey"
      BY <1>1, <1>5, <3>1, KeyFacts
    <3>3. primary' # primary
      BY <1>1, <1>5
    <3> QED BY <3>2, <3>3 DEF KeyMoves, LoginMove, RefreshMove, AnswerLost, DeleteMove, RevokeMove, CrashMove, SwapMove, RemoveMove, CalmMove
  <2>2. live' = live /\ r = RT(c) /\ FreshMine(p) /\ FreshFor(p, c) /\ c # None /\ proc[p].op # "logout"
    <3>1. InHand(p) /\ c # None /\ proc[p].op # "logout"
      BY <2>1 DEF InHand, AllCalls, CallInv
    <3>2. live' = live
      BY <2>1 DEF SaveMove
    <3> QED BY <1>1, <1>2, <1>3, <2>1, <3>1, <3>2, FreshParts
  <2>3. CASE Fresh(c)
    <3>1. r = c
      BY <2>2, <2>3 DEF Fresh, RT
    <3> QED BY <2>2, <2>3, <3>1 DEF FreshFor, LiveFor
  <2>4. CASE proc[p].op = "token" /\ RT(c) = RT(primary[i]) /\ ~Fresh(c)
    <3>1. LiveFor(i, r)
      BY <1>1, <2>2, <2>4, LiveParts
    <3>2. ASSUME NEW q \in Procs, Rotating(q, i, r) PROVE FALSE
      <4>1. q = p
        BY <2>1, <3>2, AsideStep DEF Rotating, Free
      <4> QED BY <2>4, <3>2, <4>1 DEF Rotating
    <3> QED BY <2>2, <3>1, <3>2, SuccessorKept DEF LiveFor
  <2>5. Fresh(c) \/ (proc[p].op = "token" /\ RT(c) = RT(primary[i]))
    <3>1. proc[p].op \in {"token", "login", "logout"}
      BY Typed
    <3> QED BY <1>1, <2>1, <2>2, <3>1 DEF FreshMine
  <2> QED BY <2>3, <2>4, <2>5
<1> QED BY <1>4, <1>5

SpentInv == BaseInv /\ FamilyInv /\ SpendInv /\ RedeemedInv

LEMMA SpentStep ==
  ASSUME Keychain, SpentInv, [Next]_vars
  PROVE  SpentInv'
<1>a. TypeOK /\ KnownInv /\ AllCalls /\ HolderKnows
  BY DEF SpentInv, BaseInv
<1>1. CASE \E p \in Procs : Step(p)
  <2>1. PICK p \in Procs : Step(p)
    BY <1>1
  <2>2. FamilyInv' /\ SpendInv'
    BY <1>a, <2>1, FamilyStep, SpendStep DEF SpentInv
  <2>3. RedeemedInv'
    <3>1. SUFFICES ASSUME Answering' PROVE FreshInv' /\ OldInv' /\ LiveInv'
      BY DEF RedeemedInv
    <3>2. Answering
      BY <1>a, <2>1, <3>1, StepKinds DEF Answering
    <3>3. OneCopy /\ HolderInv(p) /\ FamilyInv /\ FreshInv /\ OldInv /\ LiveInv
      BY <1>a, <3>2 DEF HolderKnows, SpentInv, RedeemedInv
    <3>4. KeyMoves(p)
      BY <1>a, <2>1, <3>3, KeyStep
    <3> QED BY <1>a, <2>1, <3>3, <3>4, FreshStep, OldStep, LiveStep
  <2> QED BY <2>2, <2>3, BaseStep DEF SpentInv
<1>2. CASE Others \/ UNCHANGED vars
  <2>1. issued' = issued /\ proc' = proc
    BY <1>2 DEF Others, Expire, KeychainGoes, KeychainReturns, vars, server
  <2>2. FamilyInv' /\ SpendInv'
    BY <2>1 DEF SpentInv, FamilyInv, SpendInv, At, RT
  <2>3. RedeemedInv'
    <3>1. SUFFICES ASSUME Answering' PROVE FreshInv' /\ OldInv' /\ LiveInv'
      BY DEF RedeemedInv
    <3>2. /\ Answering /\ primary' = primary /\ issued' = issued /\ live' = live
          /\ proc' = proc /\ lost' = lost
      BY <1>a, <1>2, <3>1, OtherStutter
    <3>3. FreshInv /\ OldInv /\ LiveInv
      BY <3>2 DEF SpentInv, RedeemedInv
    <3>4. FreshInv'
      BY <3>2, <3>3 DEF FreshInv, InHand, Fresh, At, RT
    <3>5. OldInv'
      BY <3>2, <3>3 DEF OldInv, RT
    <3>6. LiveInv'
      BY <3>2, <3>3 DEF LiveInv, SuccessorLost, Fresh, At, RT
    <3> QED BY <3>4, <3>5, <3>6
  <2> QED BY <2>2, <2>3, BaseStep DEF SpentInv
<1>3. CASE Refusal
  <2>1. PICK p \in Procs : Refuses(p)
    BY <1>a, <1>3, RefusalMove DEF Refusal
  <2>2. FamilyInv'
    BY <2>1 DEF Refuses, SpentInv, FamilyInv
  <2>3. SpendInv'
    <3>1. issued' = issued /\ \A q \in Procs : proc'[q].pc = "refresh" => proc'[q] = proc[q]
      BY <2>1 DEF Refuses, Sets
    <3> QED BY <3>1 DEF SpentInv, SpendInv, At, RT
  <2>4. ~Answering'
    BY <1>a, <1>3, RefusalUnanswered
  <2> QED BY <2>2, <2>3, <2>4, BaseStep DEF SpentInv, RedeemedInv
<1> QED BY <1>1, <1>2, <1>3, NextIsStep

\* With the Keychain as the store, a refresh token is never sent to be redeemed
\* a second time, however many processes refresh, log in and log out at once,
\* unless a fault lost its successor.
THEOREM RedeemedCorrect ==
  ASSUME Keychain
  PROVE  Spec => []RedeemedOnce
<1>1. Init => SpentInv
  <2> SUFFICES ASSUME Init PROVE SpentInv
    OBVIOUS
  <2>1. BaseInv
    BY TypeInit, HolderInit DEF BaseInv
  <2>2. issued = <<>> /\ \A p \in Procs : proc[p] = NoCall /\ proc[p].pc = "idle"
    BY NoCallType DEF Init
  <2>3. \A i \in Issuers : primary[i] = None
    BY DEF Init
  <2>4. FamilyInv
    <3>1. DOMAIN issued = {}
      BY <2>2
    <3> QED BY <3>1 DEF FamilyInv
  <2>5. SpendInv /\ FreshInv /\ OldInv /\ LiveInv
    BY <2>2, <2>3 DEF SpendInv, FreshInv, OldInv, LiveInv, InHand, At, RT
  <2> QED BY <2>1, <2>4, <2>5 DEF SpentInv, RedeemedInv
<1>2. SpentInv => RedeemedOnce
  <2> SUFFICES ASSUME SpentInv, NEW p \in Procs, Answering, At(p, "refresh")
               PROVE  RT(proc[p].cred) \in live \/ SuccessorLost(RT(proc[p].cred))
    BY DEF RedeemedOnce
  <2>1. TypeOK /\ OneCopy /\ HolderInv(p) /\ LiveInv /\ RT(proc[p].cred) # None
    BY DEF SpentInv, BaseInv, HolderKnows, RedeemedInv, SpendInv
  <2>2. proc[p].cred = primary[IssuerOf[p]] /\ IssuerOf[p] \in Issuers
    BY <2>1, LoadOne, Typed DEF HolderInv
  <2>3. ASSUME NEW q \in Procs, At(q, "saveKey") PROVE FALSE
    <3>1. lock = p /\ lock = q
      BY <2>1, <2>3 DEF TypeOK, At
    <3> QED BY <2>3, <3>1 DEF At
  <2> QED BY <2>1, <2>2, <2>3 DEF LiveInv
<1> QED BY <1>1, <1>2, SpentStep, PTL DEF Spec

=============================================================================
