----------------------------- MODULE Credentials -----------------------------
(***************************************************************************)
(* The session of `afferent`: the stored credentials, the processes that    *)
(* refresh them (forwarder, commands, MCP proxy), and login and logout,     *)
(* from cli/beacon/internal/afferent/auth and afferent/cli/commands.go.     *)
(*                                                                         *)
(* A credential is the number of the token response it came from.  Every    *)
(* token lives equally long, so a later number is a later expiry, which is  *)
(* what FallbackStore.Load compares.  0 stands for no credential.           *)
(*                                                                         *)
(* Left out: discovery and the alias of a loopback issuer, the checks of a  *)
(* file's owner and mode, and two clients of one issuer, which behave like  *)
(* two issuers.                                                             *)
(***************************************************************************)
EXTENDS Integers, Sequences, FiniteSets

CONSTANTS
  Procs,       \* processes, each with one TokenSource
  Issuers,     \* OAuth issuers
  IssuerOf,    \* process -> the issuer it is configured for
  NoProc,      \* stands for nobody
  Keychain,    \* whether the store is the Keychain with the file as fallback
  MaxTokens,   \* bound: token responses by the issuers, one fewer for each outage
  MaxFaults,   \* bound: crashes, failed writes and lost answers
  MaxOutages   \* bound: times the Keychain becomes unavailable or refuses

ASSUME ProcsAssumption   == NoProc \notin Procs /\ IssuerOf \in [Procs -> Issuers]
ASSUME BoundsAssumption  == MaxTokens \in Nat /\ MaxFaults \in Nat /\ MaxOutages \in Nat
ASSUME KeychainAssumption == Keychain \in BOOLEAN

VARIABLES
  primary,   \* issuer -> the credential in its Keychain item
  file,      \* the credential in credentials.json, one for every issuer
  up,        \* the Keychain answers
  lock,      \* the holder of credentials.lock
  issued,    \* the token responses so far
  live,      \* refresh tokens the issuers still accept
  expired,   \* access tokens up to this one have expired
  proc,      \* process -> its call in progress
  got,       \* process -> the last access token it was handed
  latest,    \* ghost: the credential last saved, 0 once it is being deleted
  signedOut, \* ghost: issuers a logout reported to be signed out of
  lost,      \* ghost: refresh tokens nobody has any more after a fault
  faults, outages

store  == <<primary, file>>
server == <<issued, live>>
ghosts == <<latest, signedOut, lost>>
vars   == <<store, up, lock, server, expired, proc, got, ghosts, faults, outages>>

Tokens   == 1..MaxTokens
None     == 0
Response == [iss : Issuers, rt : Tokens \cup {None}, from : Tokens \cup {None}]

\* rt of a credential, and of none
RT(c)  == IF c = None THEN None ELSE issued[c].rt
Iss(c) == issued[c].iss

Steps == {"idle", "load", "lock", "refresh", "saveKey", "dropFile", "saveFile",
          "dropKey", "deleteKey", "deleteFile", "unlock", "revoke"}
Call  == [pc   : Steps,
          op   : {"token", "login", "logout"},
          rej  : Tokens \cup {None},  \* the access token a server rejected
          cred : Tokens \cup {None},  \* the credential in hand
          old  : Tokens \cup {None},  \* the session to revoke
          err  : BOOLEAN]             \* a deletion failed
NoCall == [pc |-> "idle", op |-> "token", rej |-> None, cred |-> None, old |-> None,
           err |-> FALSE]

TypeOK ==
  /\ primary \in [Issuers -> Tokens \cup {None}] /\ file \in Tokens \cup {None}
  /\ up \in BOOLEAN /\ (up => Keychain)
  /\ lock \in Procs \cup {NoProc}
  /\ issued \in Seq(Response) /\ Len(issued) =< MaxTokens
  /\ live \subseteq Tokens
  /\ expired \in 0..MaxTokens
  /\ proc \in [Procs -> Call]
  /\ got \in [Procs -> Tokens \cup {None}]
  /\ latest \in Tokens \cup {None} /\ signedOut \subseteq Issuers /\ lost \subseteq Tokens
  /\ faults \in 0..MaxFaults /\ outages \in 0..MaxOutages
  /\ \A p \in Procs :
       lock = p <=> proc[p].pc \notin {"idle", "load", "lock", "revoke"}

Init ==
  /\ primary = [i \in Issuers |-> None] /\ file = None
  /\ up = Keychain
  /\ lock = NoProc
  /\ issued = <<>> /\ live = {} /\ expired = 0
  /\ proc = [p \in Procs |-> NoCall]
  /\ got = [p \in Procs |-> None]
  /\ latest = None /\ signedOut = {} /\ lost = {}
  /\ faults = 0 /\ outages = 0

-----------------------------------------------------------------------------
(* The store.                                                               *)

At(p, pc)     == proc[p].pc = pc
Goto(p, pc)   == proc' = [proc EXCEPT ![p].pc = pc]
Finish(p)     == proc' = [proc EXCEPT ![p] = NoCall]
Fault         == faults < MaxFaults /\ faults' = faults + 1
Later(c, d)   == IF d > c THEN d ELSE c
Readable(i)   == IF up THEN primary[i] ELSE None

\* Mutant: the Keychain's copy wins whenever there is one.
LoadPrimaryFirst(p) == IF Readable(IssuerOf[p]) # None THEN Readable(IssuerOf[p]) ELSE file

\* FallbackStore.Load in one step, as under the lock.
Load(p) == Later(Readable(IssuerOf[p]), file)

StoredRTs == {RT(primary[i]) : i \in Issuers} \cup {RT(file)}

\* What a process can still save or revoke.
Hands(p) == ((IF proc[p].pc \in {"lock", "saveKey", "saveFile"} THEN {RT(proc[p].cred)} ELSE {})
               \cup {RT(proc[p].old)}) \ {None}

\* Only a login ends being signed out: the next save of a refresh does not.
SignedInBy(p) == IF proc[p].op = "login" THEN signedOut \ {IssuerOf[p]} ELSE signedOut

\* FallbackStore.Save: the Keychain, and on success the file is removed...
SaveToKeychain(p) ==
  /\ At(p, "saveKey")
  /\ IF up
     THEN /\ primary' = [primary EXCEPT ![IssuerOf[p]] = proc[p].cred]
          /\ latest' = proc[p].cred
          /\ signedOut' = SignedInBy(p)
          /\ Goto(p, "dropFile")
     ELSE /\ Goto(p, "saveFile")
          /\ UNCHANGED <<primary, latest, signedOut>>
  /\ UNCHANGED <<file, up, lock, server, expired, got, lost, faults, outages>>

\* ... where a failure is only a warning ...
DropFile(p) ==
  /\ At(p, "dropFile")
  /\ \/ file' = None /\ UNCHANGED faults
     \/ Fault /\ UNCHANGED file
  /\ Goto(p, "unlock")
  /\ UNCHANGED <<primary, up, lock, server, expired, got, ghosts, outages>>

\* ... or the file when the Keychain failed: a failure here loses what was to
\* be saved ...
SaveToFile(p) ==
  /\ At(p, "saveFile")
  /\ \/ /\ file' = proc[p].cred
        /\ latest' = proc[p].cred
        /\ signedOut' = SignedInBy(p)
        /\ Goto(p, "dropKey")
        /\ UNCHANGED <<lock, lost, faults>>
     \/ /\ Fault
        /\ lost' = lost \cup (Hands(p) \ StoredRTs)
        /\ lock' = NoProc
        /\ Finish(p)
        /\ UNCHANGED <<file, latest, signedOut>>
  /\ UNCHANGED <<primary, up, server, expired, got, outages>>

\* ... and then the older Keychain item goes, if the Keychain lets it.
DropKey(p) ==
  /\ At(p, "dropKey")
  /\ primary' = IF up THEN [primary EXCEPT ![IssuerOf[p]] = None] ELSE primary
  /\ Goto(p, "unlock")
  /\ UNCHANGED <<file, up, lock, server, expired, got, ghosts, faults, outages>>

\* FallbackStore.Delete: both copies, the Keychain's first.
DeleteKey(p) ==
  /\ At(p, "deleteKey")
  /\ primary' = IF up THEN [primary EXCEPT ![IssuerOf[p]] = None] ELSE primary
  /\ latest' = None
  /\ proc' = [proc EXCEPT ![p].pc = "deleteFile", ![p].err = Keychain /\ ~up]
  /\ UNCHANGED <<file, up, lock, server, expired, got, signedOut, lost, faults, outages>>

\* The Keychain can be read, and refuses the save or the deletion all the same:
\* the same as one that does not answer, but the older copy stays in sight.
KeychainRefuses(p) ==
  /\ up /\ outages < MaxOutages /\ outages' = outages + 1
  /\ \/ At(p, "saveKey") /\ Goto(p, "saveFile") /\ UNCHANGED latest
     \/ At(p, "dropKey") /\ Goto(p, "unlock") /\ UNCHANGED latest
     \/ /\ At(p, "deleteKey") /\ latest' = None
        /\ proc' = [proc EXCEPT ![p].pc = "deleteFile", ![p].err = TRUE]
  /\ UNCHANGED <<store, up, lock, server, expired, got, signedOut, lost, faults>>

\* The Keychain's error counts only when there was no file to delete.
DeleteFile(p) ==
  /\ At(p, "deleteFile")
  /\ \/ /\ file' = None
        /\ proc' = [proc EXCEPT ![p].pc = "unlock", ![p].err = @ /\ file = None]
        /\ UNCHANGED faults
     \/ /\ Fault /\ file # None
        /\ proc' = [proc EXCEPT ![p].pc = "unlock", ![p].err = TRUE]
        /\ UNCHANGED file
  /\ UNCHANGED <<primary, up, lock, server, expired, got, ghosts, outages>>

-----------------------------------------------------------------------------
(* TokenSource.credentials.                                                 *)

Usable(p, c) == c > expired /\ c # proc[p].rej

\* Token, or ForceRefresh after a server rejected the token last handed out.
\* Load begins with the Keychain, before the lock.
Ask(p, rej) ==
  /\ At(p, "idle") /\ (rej # None => rej = got[p])
  /\ proc' = [proc EXCEPT ![p] = [NoCall EXCEPT !.pc = "load", !.rej = rej,
                                               !.cred = Readable(IssuerOf[p])]]
  /\ UNCHANGED <<store, up, lock, server, expired, got, ghosts, faults, outages>>

\* The file is read next; checkOwner; a usable token is handed out without the
\* lock.
LookUnlocked(p) ==
  /\ At(p, "load")
  /\ LET c == Later(proc[p].cred, file) IN
     IF c = None \/ (c # None /\ Iss(c) # IssuerOf[p])
     THEN Finish(p) /\ UNCHANGED got
     ELSE IF Usable(p, c)
     THEN Finish(p) /\ got' = [got EXCEPT ![p] = c]
     ELSE proc' = [proc EXCEPT ![p].pc = "lock", ![p].cred = None] /\ UNCHANGED got
  /\ UNCHANGED <<store, up, lock, server, expired, ghosts, faults, outages>>

\* Mutant: what was read before the lock is refreshed.
LookLockedNoReload(p) ==
  /\ At(p, "lock") /\ proc[p].op = "token" /\ lock = NoProc
  /\ IF got[p] # None /\ RT(got[p]) # None
     THEN /\ lock' = p
          /\ proc' = [proc EXCEPT ![p].pc = "refresh", ![p].cred = got[p]]
     ELSE Finish(p) /\ UNCHANGED lock
  /\ UNCHANGED <<store, up, server, expired, got, ghosts, faults, outages>>

\* With the lock: load again, for somebody else may have refreshed.  Without a
\* refresh token, or with another issuer's, the call ends.
LookLocked(p) ==
  /\ At(p, "lock") /\ proc[p].op = "token" /\ lock = NoProc
  /\ LET c == Load(p) IN
     IF c # None /\ Usable(p, c)
     THEN Finish(p) /\ got' = [got EXCEPT ![p] = c] /\ UNCHANGED lock
     ELSE IF c = None \/ RT(c) = None \/ (c # None /\ Iss(c) # IssuerOf[p])
     THEN Finish(p) /\ UNCHANGED <<got, lock>>
     ELSE /\ lock' = p
          /\ proc' = [proc EXCEPT ![p].pc = "refresh", ![p].cred = c]
          /\ UNCHANGED got
  /\ UNCHANGED <<store, up, server, expired, ghosts, faults, outages>>

\* A lock that cannot be had before the context ends is an error.
GiveUpLock(p) ==
  /\ At(p, "lock") /\ lock # NoProc
  /\ IF proc[p].op = "login" THEN Fault /\ lost' = lost \cup Hands(p)
                             ELSE UNCHANGED <<lost, faults>>
  /\ Finish(p)
  /\ UNCHANGED <<store, up, lock, server, expired, got, latest, signedOut, outages>>

\* The issuer answers with a new access token and either a new refresh token,
\* which spends the old one, or none, which keeps it.
Mint(i, from, rt) ==
  /\ Len(issued) + outages < MaxTokens
  /\ issued' = Append(issued, [iss |-> i, rt |-> rt, from |-> from])
  /\ live' = (live \ (IF rt = from THEN {} ELSE {from})) \cup ({rt} \ {None})

Refreshed(p) ==
  /\ At(p, "refresh") /\ RT(proc[p].cred) \in live
  /\ \E rt \in {Len(issued) + 1, RT(proc[p].cred)} :
       /\ Mint(IssuerOf[p], RT(proc[p].cred), rt)
       /\ \/ /\ proc' = [proc EXCEPT ![p].pc = "saveKey", ![p].cred = Len(issued) + 1]
             /\ UNCHANGED <<lock, lost, faults>>
          \/ \* the answer is lost
             /\ Fault
             /\ lost' = lost \cup ({rt} \ StoredRTs)
             /\ lock' = NoProc
             /\ Finish(p)
  /\ UNCHANGED <<store, up, expired, got, latest, signedOut, outages>>

\* invalid_grant: the stored credentials are deleted.
RefusedGrant(p) ==
  /\ At(p, "refresh") /\ RT(proc[p].cred) \notin live
  /\ proc' = [proc EXCEPT ![p].pc = "deleteKey", ![p].cred = None]
  /\ UNCHANGED <<store, up, lock, server, expired, got, ghosts, faults, outages>>

\* Mutant: a failed refresh returns without releasing the lock.
RefreshFailsHolding(p) ==
  /\ At(p, "refresh")
  /\ Finish(p)
  /\ UNCHANGED <<store, up, lock, server, expired, got, ghosts, faults, outages>>

\* Any other refusal, or no answer: nothing changes.
RefreshFails(p) ==
  /\ At(p, "refresh")
  /\ lock' = NoProc
  /\ Finish(p)
  /\ UNCHANGED <<store, up, server, expired, got, ghosts, faults, outages>>

-----------------------------------------------------------------------------
(* login and logout.                                                        *)

\* The device flow ends with a new session, with or without a refresh token.
Login(p) ==
  /\ At(p, "idle")
  /\ \E rt \in {Len(issued) + 1, None} :
       Mint(IssuerOf[p], None, rt)
  /\ proc' = [proc EXCEPT ![p] = [NoCall EXCEPT !.pc = "lock", !.op = "login",
                                               !.cred = Len(issued) + 1]]
  /\ UNCHANGED <<store, up, lock, expired, got, ghosts, faults, outages>>

\* Mutant: the previous session is the one this process read before the lock.
SwapReadEarlier(p) ==
  /\ At(p, "lock") /\ proc[p].op = "login" /\ lock = NoProc
  /\ lock' = p
  /\ proc' = [proc EXCEPT ![p].pc = "saveKey", ![p].old = got[p]]
  /\ UNCHANGED <<store, up, server, expired, got, ghosts, faults, outages>>

\* SwapLocked: the session it replaces is read under the lock.
Swap(p) ==
  /\ At(p, "lock") /\ proc[p].op = "login" /\ lock = NoProc
  /\ lock' = p
  /\ proc' = [proc EXCEPT ![p].pc = "saveKey", ![p].old = Load(p)]
  /\ UNCHANGED <<store, up, server, expired, got, ghosts, faults, outages>>

Logout(p) ==
  /\ At(p, "idle")
  /\ proc' = [proc EXCEPT ![p] = [NoCall EXCEPT !.pc = "lock", !.op = "logout"]]
  /\ UNCHANGED <<store, up, lock, server, expired, got, ghosts, faults, outages>>

\* Mutant: logout does not wait for a refresh under way.
RemoveUnlocked(p) ==
  /\ At(p, "lock") /\ proc[p].op = "logout"
  /\ primary' = IF up THEN [primary EXCEPT ![IssuerOf[p]] = None] ELSE primary
  /\ file' = None
  /\ signedOut' = signedOut \cup {IssuerOf[p]}
  /\ latest' = None
  /\ proc' = [proc EXCEPT ![p].pc = "revoke", ![p].old = Load(p)]
  /\ UNCHANGED <<up, lock, server, expired, got, lost, faults, outages>>

\* RemoveLocked: read, then delete.
Remove(p) ==
  /\ At(p, "lock") /\ proc[p].op = "logout" /\ lock = NoProc
  /\ lock' = p
  /\ proc' = [proc EXCEPT ![p].pc = "deleteKey", ![p].old = Load(p)]
  /\ UNCHANGED <<store, up, server, expired, got, ghosts, faults, outages>>

\* The deferred unlock.  A refresh hands its token out; login and logout go on
\* to revoke, and logout has signed out unless a deletion failed.
Unlock(p) ==
  /\ At(p, "unlock")
  /\ lock' = NoProc
  /\ IF proc[p].op = "token"
     THEN /\ Finish(p)
          /\ got' = IF proc[p].cred = None THEN got ELSE [got EXCEPT ![p] = proc[p].cred]
          /\ UNCHANGED signedOut
     ELSE /\ proc' = [proc EXCEPT ![p].pc = "revoke", ![p].cred = None]
          /\ signedOut' = IF proc[p].op = "logout" /\ ~proc[p].err
                          THEN signedOut \cup {IssuerOf[p]} ELSE signedOut
          /\ UNCHANGED got
  /\ UNCHANGED <<store, up, server, expired, latest, lost, faults, outages>>

\* The issuer revokes the old session, which is sent to nobody else; a failure
\* is a warning.
Revoke(p) ==
  /\ At(p, "revoke")
  /\ LET rt == RT(proc[p].old) IN
     IF rt = None THEN UNCHANGED <<live, lost, faults>>
     ELSE IF Iss(proc[p].old) # IssuerOf[p]
     THEN lost' = lost \cup ({rt} \ StoredRTs) /\ UNCHANGED <<live, faults>>
     ELSE \/ live' = live \ {rt} /\ UNCHANGED <<lost, faults>>
          \/ Fault /\ lost' = lost \cup ({rt} \ StoredRTs) /\ UNCHANGED live
  /\ Finish(p)
  /\ UNCHANGED <<store, up, lock, issued, expired, got, latest, signedOut, outages>>

-----------------------------------------------------------------------------
(* Everything else that happens.                                            *)

Expire ==
  /\ expired < Len(issued)
  /\ expired' = expired + 1
  /\ UNCHANGED <<store, up, lock, server, proc, got, ghosts, faults, outages>>

KeychainGoes ==
  /\ up /\ outages < MaxOutages /\ Len(issued) + outages < MaxTokens
  /\ up' = FALSE /\ outages' = outages + 1
  /\ UNCHANGED <<store, lock, server, expired, proc, got, ghosts, faults>>

KeychainReturns ==
  /\ Keychain /\ ~up
  /\ up' = TRUE
  /\ UNCHANGED <<store, lock, server, expired, proc, got, ghosts, faults, outages>>

\* A process dies: the kernel releases its lock.
Crash(p) ==
  /\ ~At(p, "idle") /\ Fault
  /\ lost' = lost \cup (Hands(p) \ StoredRTs)
  /\ lock' = IF lock = p THEN NoProc ELSE lock
  /\ Finish(p)
  /\ UNCHANGED <<store, up, server, expired, got, latest, signedOut, outages>>

Under(p) == \* what a process does on its own once it is called
  \/ LookUnlocked(p) \/ LookLocked(p) \/ GiveUpLock(p)
  \/ Refreshed(p) \/ RefusedGrant(p) \/ RefreshFails(p)
  \/ Swap(p) \/ Remove(p) \/ Unlock(p) \/ Revoke(p)
  \/ SaveToKeychain(p) \/ DropFile(p) \/ SaveToFile(p) \/ DropKey(p)
  \/ DeleteKey(p) \/ DeleteFile(p)

Next ==
  \/ \E p \in Procs :
       \/ \E rej \in Tokens \cup {None} : Ask(p, rej)
       \/ Login(p) \/ Logout(p) \/ Under(p) \/ Crash(p)
  \/ \E p \in Procs : KeychainRefuses(p)
  \/ Expire \/ KeychainGoes \/ KeychainReturns

Spec == Init /\ [][Next]_vars

-----------------------------------------------------------------------------
(* Properties.                                                              *)

\* The Keychain has answered throughout and refused nothing.  An outage hides the
\* session it stores from every command, and a refused deletion leaves it there,
\* so the next three promises are made without one.
Answering == outages = 0

\* r was redeemed and the token that replaced it was lost to a fault.
SuccessorLost(r) == \E n \in lost : issued[n].from = r

\* A refresh token on its way to the issuer is one it has not redeemed or
\* revoked, unless a fault lost its successor or a deletion was cut short
\* (CLI.md: "A rotating refresh token is therefore redeemed exactly once").
\* However many processes refresh, log in and log out at once.
RedeemedOnce ==
  \A p \in Procs : Answering /\ At(p, "refresh") /\ latest # None =>
    RT(proc[p].cred) \in live \/ SuccessorLost(RT(proc[p].cred))

\* Every session an issuer still accepts is stored, or in the hands of a
\* process that will save or revoke it, or lost to a fault: none is left
\* behind live by a login or logout that raced a refresh (SwapLocked).
SessionsAccounted ==
  Answering => live \subseteq StoredRTs \cup lost \cup UNION {Hands(p) : p \in Procs}

\* Once logout has reported success nothing is stored for its issuer until the
\* next login: no refresh that was under way brings the session back, and no
\* copy is left in either place.
SignedOutStays ==
  Answering /\ lock = NoProc => \A i \in signedOut :
    primary[i] = None /\ (file # None => Iss(file) # i)

\* While the Keychain answers, nobody reads a copy that expires before the one
\* saved last, whatever an outage or a fault kept from being deleted: such a copy
\* may hold a refresh token that has been rotated away (FallbackStore.Load).
NoOlderCopy ==
  lock = NoProc /\ up /\ latest # None => \A p \in Procs : Load(p) >= latest

-----------------------------------------------------------------------------
(* What these rest on.                                                      *)

\* Every credential is one there was a response for.
KnownInv ==
  LET Known == 0..Len(issued) IN
  /\ file \in Known /\ latest \in Known /\ expired \in Known
  /\ \A i \in Issuers : primary[i] \in Known /\ (primary[i] # None => Iss(primary[i]) = i)
  /\ \A p \in Procs : proc[p].cred \in Known /\ proc[p].old \in Known /\ got[p] \in Known
  /\ live \subseteq 1..Len(issued) /\ lost \subseteq 1..Len(issued)
  /\ \A n \in DOMAIN issued : issued[n].rt \in 0..n /\ issued[n].from \in 0..(n - 1)

\* What a call holds at each of its steps.
CallInv(p) ==
  /\ At(p, "idle") => proc[p] = NoCall
  /\ proc[p].op = "token" \/ At(p, "lock") => proc[p].old = None
  /\ At(p, "lock") /\ proc[p].op # "login" => proc[p].cred = None
  /\ proc[p].pc \in {"load", "refresh"} => proc[p].op = "token"
  /\ proc[p].pc \in {"deleteKey", "deleteFile"} => proc[p].op # "login"
  /\ proc[p].pc \in {"saveKey", "saveFile", "dropFile", "dropKey"} => proc[p].op # "logout"
  /\ proc[p].pc \in {"refresh", "saveKey", "saveFile"} \/ (At(p, "lock") /\ proc[p].op = "login") =>
       proc[p].cred # None /\ Iss(proc[p].cred) = IssuerOf[p]

\* Until the Keychain is first unavailable there is one copy, and the holder of
\* the lock knows what it replaces or deletes.
OneCopy == up = Keychain /\ IF Keychain THEN file = None ELSE \A i \in Issuers : primary[i] = None

HolderInv(p) ==
  /\ At(p, "refresh") => proc[p].cred = Load(p)
  /\ At(p, "saveFile") \/ At(p, "dropKey") => ~Keychain
  /\ At(p, "dropFile") => Keychain
  /\ proc[p].pc \in {"saveKey", "saveFile", "deleteKey"} /\ proc[p].op # "token" => proc[p].old = Load(p)
  /\ proc[p].pc \in {"saveKey", "saveFile"} /\ proc[p].op = "token" =>
       RT(Load(p)) \notin live \ {RT(proc[p].cred)}
  /\ At(p, "deleteKey") /\ proc[p].op = "token" => RT(Load(p)) \notin live
  /\ At(p, "deleteFile") =>
       /\ primary[IssuerOf[p]] = None
       /\ IF proc[p].op = "token" THEN RT(file) \notin live ELSE file \in {None, proc[p].old}
  /\ At(p, "unlock") /\ proc[p].op = "logout" /\ ~proc[p].err =>
       primary[IssuerOf[p]] = None /\ file = None

HolderKnows == Answering => OneCopy /\ \A p \in Procs : HolderInv(p)

\* Nothing is stored for an issuer that is signed out, and nobody is about to.
SignedOutInv ==
  Answering => \A i \in signedOut :
    /\ primary[i] = None /\ (file # None => Iss(file) # i)
    /\ \A p \in Procs : proc[p].op = "token" /\ proc[p].pc \in {"refresh", "saveKey", "saveFile"} => IssuerOf[p] # i

\* One refresh token is one issuer's.
FamilyInv ==
  \A m, n \in DOMAIN issued : issued[m].rt = issued[n].rt /\ issued[m].rt # None => issued[m].iss = issued[n].iss

\* A session just logged in to is nobody else's, and the issuer accepts it;
\* neither is a refresh token just rotated.
Fresh(c) == issued[c].rt = c /\ \A n \in DOMAIN issued : issued[n].rt = c => n = c

InHand(p) == proc[p].pc = "saveKey" \/ (At(p, "lock") /\ proc[p].op = "login")

FreshInv ==
  \A p \in Procs : InHand(p) =>
    /\ proc[p].op = "login" => RT(proc[p].cred) = None \/ Fresh(proc[p].cred)
    /\ proc[p].op = "token" => RT(proc[p].cred) = RT(primary[IssuerOf[p]]) \/
         (Fresh(proc[p].cred) /\ issued[proc[p].cred].from = RT(primary[IssuerOf[p]]))
    /\ Fresh(proc[p].cred) => proc[p].cred \in live
    /\ \A i \in Issuers : primary[i] # proc[p].cred
    /\ \A q \in Procs : proc[q].old # proc[p].cred /\ (q # p /\ InHand(q) => proc[q].cred # proc[p].cred)

\* The session to revoke is no longer stored nor about to be.
OldInv ==
  \A p \in Procs :
    proc[p].pc \in {"revoke", "unlock", "dropFile", "deleteFile"} /\ RT(proc[p].old) # None =>
      \A i \in Issuers : RT(primary[i]) # RT(proc[p].old)

\* The session stored in the Keychain is one its issuer accepts, unless its
\* successor was lost or is about to be stored.
LiveInv ==
  \A i \in Issuers : RT(primary[i]) # None =>
    \/ RT(primary[i]) \in live
    \/ SuccessorLost(RT(primary[i]))
    \/ \E p \in Procs : /\ IssuerOf[p] = i /\ At(p, "saveKey") /\ proc[p].op = "token"
                        /\ Fresh(proc[p].cred) /\ issued[proc[p].cred].from = RT(primary[i])

\* Only a refresh token is sent to be redeemed.
SpendInv == \A p \in Procs : At(p, "refresh") => RT(proc[p].cred) # None

RedeemedInv == Keychain /\ Answering => FreshInv /\ OldInv /\ LiveInv

\* What was saved last is the latest copy, also when a deletion failed.
OneIssuer == \A p, q \in Procs : IssuerOf[p] = IssuerOf[q]

LatestInv ==
  /\ latest # None => \A p \in Procs : Later(primary[IssuerOf[p]], file) >= latest
  /\ \A p \in Procs :
       /\ At(p, "dropFile") => primary[IssuerOf[p]] = latest
       /\ At(p, "dropKey") => file = latest
       /\ At(p, "deleteFile") => latest = None
=============================================================================
