------------------------------ MODULE MemorySync ------------------------------
(***************************************************************************)
(* The brainsrv memory backend (cli/beacon/internal/learning/brainsrv.go).  *)
(* `beacon memory candidates approve` and `supersede` commit a memory to    *)
(* SQLite and then bring brainsrv into line with it, one request after      *)
(* another and with no lock; the outcome goes to the memory's row of        *)
(* memory_sync, and `beacon memory brainsrv sync` retries the rows that     *)
(* are pending or failed.  Several commands may run at once, and other      *)
(* machines change brainsrv too.                                            *)
(*                                                                         *)
(* A memory's id stands for the entity brainsrv keeps for it.  brainsrv     *)
(* (external) replays a request it has taken, refuses (409) to supersede a  *)
(* superseded entity or to supersede by one, and recalls no superseded      *)
(* entity.                                                                  *)
(*                                                                         *)
(* Left out: scopes, what a memory says, the search itself, failures of     *)
(* SQLite, and maxSupersedeHops, which no chain here reaches.               *)
(***************************************************************************)
EXTENDS Integers, Sequences

CONSTANTS
  Procs,          \* commands of this machine that may run at the same time
  Syncers,        \* those that may be `sync`
  Mems,           \* memories
  Here,           \* those with a candidate on this machine
  Before,         \* what SQLite may hold when the backend is configured
  None,           \* not superseded
  Absent,         \* not stored
  MaxSupersedes,  \* bound: supersedes decided here
  MaxRemote,      \* bound: changes made by other machines
  MaxFaults       \* bound: requests that fail and commands that are killed

ASSUME MemsAssumption ==
  /\ Here \subseteq Mems /\ Syncers \subseteq Procs
  /\ None \notin Mems /\ Absent \notin Mems \cup {None}
ASSUME BeforeAssumption ==
  \A f \in Before : f \in [Mems -> Mems \cup {None, Absent}] /\ \A m \in Mems \ Here : f[m] = Absent
ASSUME BoundsAssumption == {MaxSupersedes, MaxRemote, MaxFaults} \subseteq Nat

VARIABLES
  local,    \* the memories of SQLite: Absent, None or what superseded it
  approved, \* candidates saved as approved, with their memory's id
  row,      \* memory_sync: the state, whether entity_id is known, and (ghost)
            \* the local value that the writer of the state worked from
  brain,    \* brainsrv's entities: Absent, None or what superseded it
  proc,     \* the commands
  decided,  \* ghost: supersedes decided by anyone, <<old, new>>
  made,     \* supersedes decided here
  remote, faults

bounds == <<made, remote, faults>>
vars   == <<local, approved, row, brain, proc, decided, bounds>>

Stored  == Mems \cup {None, Absent}
States  == {"pending", "failed", "synced"}
Unknown == "unknown"   \* no row
Steps   == {"idle", "next", "own", "walk", "find", "head", "mark", "send", "old", "new",
            "record", "approve"}
Call == [pc : Steps, mem : Mems \cup {None}, by : Mems \cup {None}, cache : BOOLEAN,
         approve : BOOLEAN, at : Mems \cup {None}, seen : SUBSET Mems,
         outcome : States \cup {Unknown}, todo : Seq(SUBSET Mems)]
Idle == [pc |-> "idle", mem |-> None, by |-> None, cache |-> FALSE, approve |-> FALSE,
         at |-> None, seen |-> {}, outcome |-> Unknown, todo |-> <<>>]
At(p, pc) == proc[p].pc = pc

\* A known entity_id is that of an entity; a command that has ended holds nothing.
TypeOK ==
  /\ local \in [Mems -> Stored] /\ brain \in [Mems -> Stored]
  /\ approved \subseteq Here /\ decided \subseteq Mems \X Mems
  /\ row \in [Mems -> [state : States \cup {Unknown}, ent : BOOLEAN, of : Stored]]
  /\ \A m \in Mems : row[m].ent => row[m].state # Unknown /\ brain[m] # Absent
  /\ proc \in [Procs -> Call]
  /\ \A p \in Procs : At(p, "idle") => proc[p] = Idle
  /\ made \in 0..MaxSupersedes /\ remote \in 0..MaxRemote
  /\ faults \in 0..MaxFaults

Links(f) == {e \in Mems \X Mems : f[e[1]] = e[2]}

\* Other machines' memories may be in brainsrv.
Init ==
  /\ local \in Before
  /\ brain \in {f \in [Mems -> {None, Absent}] : \A m \in Here : f[m] = Absent}
  /\ approved = {m \in Here : local[m] # Absent} /\ decided = Links(local)
  /\ row = [m \in Mems |-> [state |-> Unknown, ent |-> FALSE, of |-> Absent]]
  /\ proc = [p \in Procs |-> Idle]
  /\ made = 0 /\ remote = 0 /\ faults = 0

-----------------------------------------------------------------------------
(* memory_sync and brainsrv.                                                *)

\* setEntityID.
WithEntity(m) ==
  [row EXCEPT ![m].ent = TRUE,
              ![m].state = IF row[m].state = Unknown THEN "pending" ELSE row[m].state]

\* markSynced, markError.
WithState(m, state, of) == [row EXCEPT ![m].state = state, ![m].of = of]

\* brainsrv has taken the remember of m.
Remembered(m) == [brain EXCEPT ![m] = IF brain[m] = Absent THEN None ELSE brain[m]]

\* Mutant: any entity that a recall ranks is taken for the one named.
FindableAny(x, e) == brain[e] = None

\* lookupEntity answers entity e for the memory x: by its cached id, else
\* through a recall, which returns no superseded entity.
Findable(x, e) == e = x /\ brain[x] # Absent /\ (row[x].ent \/ brain[x] = None)

Goto(p, pc)      == proc' = [proc EXCEPT ![p].pc = pc]
\* supersedeToHead is to supersede by x, having tried those in seen.
Try(p, x, seen)  == proc' = [proc EXCEPT ![p].pc = "send", ![p].at = x, ![p].seen = seen \cup {x}]
Ends(p, outcome) ==
  proc' = [proc EXCEPT ![p].pc = "record", ![p].outcome = outcome, ![p].at = None, ![p].seen = {}]

-----------------------------------------------------------------------------
(* The commands.                                                            *)

Syncing(p, m, by, cache, approve, todo) ==
  proc' = [proc EXCEPT ![p] = [Idle EXCEPT !.pc = "own", !.mem = m, !.by = by, !.cache = cache,
                                           !.approve = approve, !.todo = todo]]

\* The memory is stored before the candidate says so: an approval that is killed
\* in between can be given again.
Approve(p, m) ==
  /\ At(p, "idle") /\ m \in Here \ approved
  /\ local' = [local EXCEPT ![m] = None]
  /\ Syncing(p, m, None, FALSE, TRUE, <<>>)
  /\ UNCHANGED <<approved, row, brain, decided, bounds>>

\* The replacement is stored here or found in brainsrv (GetMissing).
Supersede(p, m, r) ==
  /\ At(p, "idle") /\ m \in approved /\ made < MaxSupersedes
  /\ local[r] # Absent \/ Findable(r, r)
  /\ local' = [local EXCEPT ![m] = r]
  /\ decided' = decided \cup {<<m, r>>}
  /\ made' = made + 1
  /\ Syncing(p, m, r, TRUE, FALSE, <<>>)
  /\ UNCHANGED <<approved, row, brain, remote, faults>>

\* The memories still to be synced; with none, the command ends.
Listed(mems, rest) == IF mems = {} THEN rest ELSE <<mems>> \o rest
SyncsOn(p, cache, todo) ==
  proc' = [proc EXCEPT ![p] = IF todo = <<>> THEN Idle
                              ELSE [Idle EXCEPT !.pc = "next", !.cache = cache, !.todo = todo]]

\* The rows that are not synced, in the order they were written in, which is
\* left open; with --all every memory, live ones first.
StartSync(p, all) ==
  LET rows == {m \in Mems : row[m].state \in {"pending", "failed"}}
      live == {m \in Mems : local[m] = None}
      old  == {m \in Mems : local[m] \in Mems} IN
  /\ At(p, "idle") /\ p \in Syncers
  /\ SyncsOn(p, ~all, IF all THEN Listed(live, Listed(old, <<>>)) ELSE Listed(rows, <<>>))
  /\ proc'[p] # Idle
  /\ UNCHANGED <<local, approved, row, brain, decided, bounds>>

\* The memory is read again when its turn comes.
NextMemory(p) ==
  LET todo == proc[p].todo IN
  /\ At(p, "next")
  /\ \E m \in Head(todo) :
       Syncing(p, m, local[m], proc[p].cache, FALSE, Listed(Head(todo) \ {m}, Tail(todo)))
  /\ UNCHANGED <<local, approved, row, brain, decided, bounds>>

-----------------------------------------------------------------------------
(* syncMemory.                                                              *)

\* entityID: from the row, or by an idempotent remember.
EntityID(p, m) ==
  IF proc[p].cache /\ row[m].ent
  THEN UNCHANGED <<row, brain>>
  ELSE brain' = Remembered(m) /\ row' = WithEntity(m)

OwnEntity(p) ==
  LET m == proc[p].mem IN
  /\ At(p, "own") /\ EntityID(p, m)
  /\ IF proc[p].by = None
     THEN Ends(p, "synced")
     ELSE proc' = [proc EXCEPT ![p].pc = "walk", ![p].at = proc[p].by, ![p].seen = {m}]
  /\ UNCHANGED <<local, approved, decided, bounds>>

\* One hop of replacementEntity along the local chain.
Hop(p) ==
  LET x == proc[p].at IN
  /\ At(p, "walk")
  /\ IF x \in proc[p].seen
     THEN Ends(p, "pending")
     ELSE CASE local[x] = Absent -> Goto(p, "find")
            [] local[x] = None   -> Goto(p, "head")
            [] OTHER -> proc' = [proc EXCEPT ![p].at = local[x], ![p].seen = @ \cup {x}]
  /\ UNCHANGED <<local, approved, row, brain, decided, bounds>>

\* A replacement that is not stored here is looked up in brainsrv.
Find(p) ==
  /\ At(p, "find")
  /\ \/ \E e \in Mems : Findable(proc[p].at, e) /\ Try(p, e, {proc[p].mem})
     \/ (\A e \in Mems : ~Findable(proc[p].at, e)) /\ Ends(p, "pending")
  /\ UNCHANGED <<local, approved, row, brain, decided, bounds>>

HeadEntity(p) ==
  /\ At(p, "head") /\ EntityID(p, proc[p].at)
  /\ Goto(p, "mark")
  /\ UNCHANGED <<local, approved, decided, bounds>>

MarkHead(p) ==
  /\ At(p, "mark")
  /\ row' = WithState(proc[p].at, "synced", None)
  /\ Try(p, proc[p].at, {proc[p].mem})
  /\ UNCHANGED <<local, approved, brain, decided, bounds>>

\* Mutant: every conflict is taken to mean that the old entity is superseded.
SendConflicts(p) ==
  LET m == proc[p].mem  x == proc[p].at IN
  /\ At(p, "send")
  /\ brain' = IF brain[m] = None /\ brain[x] = None THEN [brain EXCEPT ![m] = x] ELSE brain
  /\ Ends(p, "synced")
  /\ UNCHANGED <<local, approved, row, decided, bounds>>

\* The supersede request: taken, replayed, or refused with a 409.
Send(p) ==
  LET m == proc[p].mem  x == proc[p].at IN
  /\ At(p, "send")
  /\ IF brain[m] = x \/ (brain[m] = None /\ brain[x] = None)
     THEN brain' = [brain EXCEPT ![m] = x] /\ Ends(p, "synced")
     ELSE UNCHANGED brain /\ Goto(p, "old")
  /\ UNCHANGED <<local, approved, row, decided, bounds>>

\* An old entity that is superseded by whatever is out of recall.
ReadOld(p) ==
  /\ At(p, "old")
  /\ IF brain[proc[p].mem] \in Mems THEN Ends(p, "synced") ELSE Goto(p, "new")
  /\ UNCHANGED <<local, approved, row, brain, decided, bounds>>

\* Mutant: the chain in brainsrv is not followed.
ReadNewOnly(p) ==
  /\ At(p, "new")
  /\ Ends(p, "failed")
  /\ UNCHANGED <<local, approved, row, brain, decided, bounds>>

\* A replacement that is superseded in brainsrv is followed, unless it leads back.
ReadNew(p) ==
  LET x == brain[proc[p].at] IN
  /\ At(p, "new")
  /\ IF x \in Mems \ proc[p].seen THEN Try(p, x, proc[p].seen) ELSE Ends(p, "failed")
  /\ UNCHANGED <<local, approved, row, brain, decided, bounds>>

\* The requests a command makes, and what they do when they are taken.
Requests(p) ==
  \/ At(p, "own")  /\ ~(proc[p].cache /\ row[proc[p].mem].ent)
  \/ At(p, "head") /\ ~(proc[p].cache /\ row[proc[p].at].ent)
  \/ proc[p].pc \in {"find", "send", "old", "new"}

Taken(p) ==
  LET m == proc[p].mem  x == proc[p].at IN
  CASE At(p, "own")  -> Remembered(m)
    [] At(p, "head") -> Remembered(x)
    [] At(p, "send") /\ brain[m] = None /\ brain[x] = None -> [brain EXCEPT ![m] = x]
    [] OTHER -> brain

\* A request is refused for good, or it or its answer is lost; a failed read after
\* a 409 is reported as that 409, and so counts as a refusal.
RequestFails(p) ==
  /\ Requests(p) /\ faults < MaxFaults
  /\ faults' = faults + 1
  /\ \/ brain' = brain /\ Ends(p, "failed")
     \/ brain' \in {brain, Taken(p)}
        /\ Ends(p, IF proc[p].pc \in {"old", "new"} THEN "failed" ELSE "pending")
  /\ UNCHANGED <<local, approved, row, decided, made, remote>>

\* Mutant: sync ends with its first memory and keeps its list.
RecordEnds(p) ==
  /\ At(p, "record")
  /\ row' = WithState(proc[p].mem, proc[p].outcome, proc[p].by)
  /\ IF proc[p].approve THEN Goto(p, "approve") ELSE Goto(p, "idle")
  /\ UNCHANGED <<local, approved, brain, decided, bounds>>

\* syncAndRecord.
Record(p) ==
  /\ At(p, "record")
  /\ row' = WithState(proc[p].mem, proc[p].outcome, proc[p].by)
  /\ IF proc[p].approve
     THEN Goto(p, "approve")
     ELSE SyncsOn(p, proc[p].cache, proc[p].todo)
  /\ UNCHANGED <<local, approved, brain, decided, bounds>>

\* ApproveCandidate saves the candidate, whatever became of the sync.
Approved(p) ==
  /\ At(p, "approve")
  /\ approved' = approved \cup {proc[p].mem}
  /\ proc' = [proc EXCEPT ![p] = Idle]
  /\ UNCHANGED <<local, row, brain, decided, bounds>>

Crash(p) ==
  /\ ~At(p, "idle") /\ faults < MaxFaults
  /\ faults' = faults + 1
  /\ proc' = [proc EXCEPT ![p] = Idle]
  /\ UNCHANGED <<local, approved, row, brain, decided, made, remote>>

-----------------------------------------------------------------------------
(* Other machines.                                                          *)

RemoteSupersede(m, r) ==
  /\ brain[m] = None /\ brain[r] = None /\ m # r /\ remote < MaxRemote
  /\ brain' = [brain EXCEPT ![m] = r] /\ remote' = remote + 1
  /\ decided' = decided \cup {<<m, r>>}
  /\ UNCHANGED <<local, approved, row, proc, made, faults>>

Work(p) ==
  \/ NextMemory(p) \/ OwnEntity(p) \/ Hop(p) \/ Find(p) \/ HeadEntity(p) \/ MarkHead(p)
  \/ Send(p) \/ ReadOld(p) \/ ReadNew(p) \/ RequestFails(p) \/ Record(p) \/ Approved(p)

Sync(p) == StartSync(p, FALSE)

Next ==
  \/ \E p \in Procs :
       \/ \E m \in Mems : Approve(p, m)
       \/ \E m, r \in Mems : Supersede(p, m, r)
       \/ Sync(p) \/ StartSync(p, TRUE)
       \/ Work(p) \/ Crash(p)
  \/ \E m, r \in Mems : RemoteSupersede(m, r)

Spec == Init /\ [][Next]_vars

\* A command runs to its end, each of its requests under a deadline, and the user
\* runs `sync` again as long as it reports rows that are not synced.
FairSpec == Spec /\ \A p \in Procs : WF_vars(Work(p)) /\ WF_vars(Sync(p))

-----------------------------------------------------------------------------
(* Properties.                                                              *)

\* E leads from m to x, in one step or more: x is in every set that has the
\* successors of m and those of its own members.
Leads(E, m, x) ==
  \A S \in SUBSET Mems :
    (\A e \in E : e[1] = m \/ e[1] \in S => e[2] \in S) => x \in S

\* brainsrv has m, and not as a live memory when it is superseded here.
Agrees(m) == brain[m] # Absent /\ (local[m] \in Mems => brain[m] \in Mems)

\* The row was written for what m was before its last change, by a command that
\* was overtaken: nothing orders the commands.
Overtaken(m) == row[m].of # local[m]

\* A row that says synced tells the truth about the memory its writer worked from
\* ("syncMemory makes brainsrv match the local memory m"): whatever conflicts,
\* replays, lost answers and other machines' supersedes it met on the way.
SyncedIsTrue == \A m \in Mems : row[m].state = "synced" /\ ~Overtaken(m) => Agrees(m)

\* An entity is superseded only by one that the decisions lead to: following a
\* chain here and another in brainsrv never ends at a memory nobody chose.
SupersededByDecision == \A m \in Mems : brain[m] \in Mems => Leads(decided, m, brain[m])

\* The chain of m has a loop, ends at a memory that cannot be found any more, or
\* runs the other way in brainsrv: sync reports these and needs the user.
Stuck(m) ==
  LET chain == {x \in Mems : x = m \/ Leads(Links(local), m, x)} IN
  \/ \E x \in chain : Leads(Links(local), x, x)
  \/ \E x \in chain : local[x] = Absent /\ ~Findable(x, x)
  \/ \E x \in chain : Leads(Links(brain), x, m)

\* What is not synced is in the end, by running `sync` again (brainsrv.go:25, "the
\* memory_sync row goes to pending (transient) or failed and `beacon memory
\* brainsrv sync` retries it"), whatever failed or changed in brainsrv before.
EventuallySynced ==
  \A m \in Here : row[m].state \in {"pending", "failed"} ~>
    (row[m].state = "synced" /\ Agrees(m)) \/ Overtaken(m) \/ Stuck(m)

-----------------------------------------------------------------------------
(* What SyncedIsTrue and SupersededByDecision rest on.                      *)

\* Whatever has a row, or is to be synced, is stored here; nothing superseded
\* here was not decided.
LocalInv ==
  /\ \A m \in Mems : row[m].state # Unknown => local[m] # Absent
  /\ \A p \in Procs : \A k \in DOMAIN proc[p].todo : \A m \in proc[p].todo[k] : local[m] # Absent
  /\ Links(local) \subseteq decided

Replacing == {"walk", "find", "head", "mark", "send", "old", "new"}

\* What a command knows at each of its steps.
CallInv(p) ==
  /\ At(p, "next") => proc[p].todo # <<>>
  /\ proc[p].pc \notin {"idle", "next"} => proc[p].mem \in Mems /\ local[proc[p].mem] # Absent
  /\ proc[p].by # None => Leads(decided, proc[p].mem, proc[p].by)
  /\ proc[p].approve \/ At(p, "approve") => proc[p].mem \in Here
  /\ proc[p].pc \in Replacing =>
       proc[p].at \in Mems /\ brain[proc[p].mem] # Absent /\ Leads(decided, proc[p].mem, proc[p].at)
  /\ proc[p].pc \in {"head", "mark"} => local[proc[p].at] # Absent
  /\ At(p, "mark") => brain[proc[p].at] # Absent
  /\ At(p, "record") /\ proc[p].outcome = "synced" =>
       brain[proc[p].mem] # Absent /\ (proc[p].by # None => brain[proc[p].mem] \in Mems)
  /\ At(p, "record") => proc[p].outcome # Unknown

\* A row that says synced is true of what its writer worked from, also when what
\* is stored here has changed since and changed back.
RowInv ==
  \A m \in Mems : row[m].state = "synced" =>
    brain[m] # Absent /\ (row[m].of \in Mems => brain[m] \in Mems)

Inductive ==
  TypeOK /\ LocalInv /\ (\A p \in Procs : CallInv(p)) /\ RowInv /\ SupersededByDecision
=============================================================================
