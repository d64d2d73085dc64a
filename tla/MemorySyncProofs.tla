--------------------------- MODULE MemorySyncProofs ---------------------------
(***************************************************************************)
(* Theorems about the brainsrv memory backend: for every number of          *)
(* commands, memories, faults and changes by other machines.               *)
(***************************************************************************)
EXTENDS MemorySync, TLAPS

-----------------------------------------------------------------------------
(* What decisions lead to.                                                  *)

LEMMA LeadsDirect ==
  ASSUME NEW E, NEW m, NEW x \in Mems, <<m, x>> \in E
  PROVE  Leads(E, m, x)
BY DEF Leads

LEMMA LeadsMono ==
  ASSUME NEW E, NEW F, E \subseteq F, NEW m, NEW x, Leads(E, m, x)
  PROVE  Leads(F, m, x)
BY DEF Leads

LEMMA LeadsOn ==
  ASSUME NEW E, NEW m, NEW x, NEW y, Leads(E, m, x), Leads(E, x, y)
  PROVE  Leads(E, m, y)
<1> SUFFICES ASSUME NEW S \in SUBSET Mems, \A e \in E : e[1] = m \/ e[1] \in S => e[2] \in S
             PROVE  y \in S
  BY DEF Leads
<1>1. x \in S
  BY DEF Leads
<1>2. \A e \in E : e[1] = x \/ e[1] \in S => e[2] \in S
  BY <1>1
<1> QED BY <1>2 DEF Leads

-----------------------------------------------------------------------------
(* The commands.                                                            *)

\* Only p's command changes, and goes on with the same memory.
Sets(p, pc, at, seen, outcome) ==
  /\ proc' \in [Procs -> Call] /\ \A q \in Procs \ {p} : proc'[q] = proc[q]
  /\ proc'[p].pc = pc /\ proc'[p].at = at /\ proc'[p].seen = seen /\ proc'[p].outcome = outcome
  /\ proc'[p].mem = proc[p].mem /\ proc'[p].by = proc[p].by /\ proc'[p].cache = proc[p].cache
  /\ proc'[p].approve = proc[p].approve /\ proc'[p].todo = proc[p].todo

\* A sync of m begins, or the command turns to the memories that are left.
Begins(p, pc, m, by, approve, todo) ==
  /\ proc' \in [Procs -> Call] /\ \A q \in Procs \ {p} : proc'[q] = proc[q]
  /\ proc'[p].pc = pc /\ proc'[p].mem = m /\ proc'[p].by = by /\ proc'[p].approve = approve
  /\ proc'[p].todo = todo /\ proc'[p].outcome = Unknown

Stops(p) ==
  proc' \in [Procs -> Call] /\ proc'[p] = Idle /\ \A q \in Procs \ {p} : proc'[q] = proc[q]

LEMMA IdleType ==
  /\ Idle \in Call /\ Idle.pc = "idle" /\ Idle.mem = None /\ Idle.by = None /\ Idle.approve = FALSE
  /\ Idle.todo = <<>> /\ Idle.outcome = Unknown /\ Idle.at = None
BY DEF Idle, Call, Steps, Unknown

LEMMA Fields ==
  ASSUME TypeOK, NEW p \in Procs
  PROVE  /\ proc \in [Procs -> Call] /\ proc[p] \in Call
         /\ proc[p].mem \in Mems \cup {None} /\ proc[p].by \in Mems \cup {None} /\ proc[p].at \in Mems \cup {None}
         /\ proc[p].cache \in BOOLEAN /\ proc[p].approve \in BOOLEAN /\ proc[p].seen \in SUBSET Mems
         /\ proc[p].outcome \in States \cup {Unknown} /\ proc[p].todo \in Seq(SUBSET Mems) /\ proc[p].pc \in Steps
<1>1. proc \in [Procs -> Call]
  BY DEF TypeOK
<1>2. proc[p] \in Call
  BY <1>1
<1> QED BY <1>1, <1>2 DEF Call

LEMMA GotoSets ==
  ASSUME TypeOK, NEW p \in Procs, NEW pc \in Steps, Goto(p, pc)
  PROVE  Sets(p, pc, proc[p].at, proc[p].seen, proc[p].outcome)
<1>1. proc \in [Procs -> Call] /\ proc[p] \in Call
  BY Fields
<1> DEFINE r == [proc[p] EXCEPT !.pc = pc]
<1>2. r \in Call
  BY <1>1 DEF Call
<1>3. proc' = [proc EXCEPT ![p] = r]
  BY <1>1 DEF Goto
<1>4. /\ r.pc = pc /\ r.at = proc[p].at /\ r.seen = proc[p].seen /\ r.outcome = proc[p].outcome /\ r.mem = proc[p].mem
      /\ r.by = proc[p].by /\ r.cache = proc[p].cache /\ r.approve = proc[p].approve /\ r.todo = proc[p].todo
  BY <1>1 DEF Call
<1> HIDE DEF r
<1> QED BY <1>1, <1>2, <1>3, <1>4 DEF Sets

LEMMA TrySets ==
  ASSUME TypeOK, NEW p \in Procs, NEW x \in Mems, NEW seen \in SUBSET Mems, Try(p, x, seen)
  PROVE  Sets(p, "send", x, seen \cup {x}, proc[p].outcome)
<1>1. proc \in [Procs -> Call] /\ proc[p] \in Call
  BY Fields
<1> DEFINE r == [proc[p] EXCEPT !.pc = "send", !.at = x, !.seen = seen \cup {x}]
<1>2. r \in Call
  BY <1>1 DEF Call, Steps
<1>3. proc' = [proc EXCEPT ![p] = r]
  BY <1>1 DEF Try
<1>4. /\ r.pc = "send" /\ r.at = x /\ r.seen = seen \cup {x} /\ r.outcome = proc[p].outcome /\ r.mem = proc[p].mem
      /\ r.by = proc[p].by /\ r.cache = proc[p].cache /\ r.approve = proc[p].approve /\ r.todo = proc[p].todo
  BY <1>1 DEF Call
<1> HIDE DEF r
<1> QED BY <1>1, <1>2, <1>3, <1>4 DEF Sets

LEMMA EndsSets ==
  ASSUME TypeOK, NEW p \in Procs, NEW outcome \in States, Ends(p, outcome)
  PROVE  Sets(p, "record", None, {}, outcome)
<1>1. proc \in [Procs -> Call] /\ proc[p] \in Call
  BY Fields
<1> DEFINE r == [proc[p] EXCEPT !.pc = "record", !.outcome = outcome, !.at = None, !.seen = {}]
<1>2. r \in Call
  BY <1>1 DEF Call, Steps
<1>3. proc' = [proc EXCEPT ![p] = r]
  BY <1>1 DEF Ends
<1>4. /\ r.pc = "record" /\ r.at = None /\ r.seen = {} /\ r.outcome = outcome /\ r.mem = proc[p].mem
      /\ r.by = proc[p].by /\ r.cache = proc[p].cache /\ r.approve = proc[p].approve /\ r.todo = proc[p].todo
  BY <1>1 DEF Call
<1> HIDE DEF r
<1> QED BY <1>1, <1>2, <1>3, <1>4 DEF Sets

\* The first replacement a sync considers, and a hop along the chain.
LEMMA WalkSets ==
  ASSUME TypeOK, NEW p \in Procs, NEW x \in Mems, NEW seen \in SUBSET Mems,
         proc' = [proc EXCEPT ![p].pc = "walk", ![p].at = x, ![p].seen = seen]
  PROVE  Sets(p, "walk", x, seen, proc[p].outcome)
<1>1. proc \in [Procs -> Call] /\ proc[p] \in Call
  BY Fields
<1> DEFINE r == [proc[p] EXCEPT !.pc = "walk", !.at = x, !.seen = seen]
<1>2. r \in Call
  BY <1>1 DEF Call, Steps
<1>3. proc' = [proc EXCEPT ![p] = r]
  BY <1>1
<1>4. /\ r.pc = "walk" /\ r.at = x /\ r.seen = seen /\ r.outcome = proc[p].outcome /\ r.mem = proc[p].mem
      /\ r.by = proc[p].by /\ r.cache = proc[p].cache /\ r.approve = proc[p].approve /\ r.todo = proc[p].todo
  BY <1>1 DEF Call
<1> HIDE DEF r
<1> QED BY <1>1, <1>2, <1>3, <1>4 DEF Sets

LEMMA HopSets ==
  ASSUME TypeOK, NEW p \in Procs, NEW x \in Mems, NEW seen \in SUBSET Mems,
         proc' = [proc EXCEPT ![p].at = x, ![p].seen = seen]
  PROVE  Sets(p, proc[p].pc, x, seen, proc[p].outcome)
<1>1. proc \in [Procs -> Call] /\ proc[p] \in Call
  BY Fields
<1> DEFINE r == [proc[p] EXCEPT !.at = x, !.seen = seen]
<1>2. r \in Call
  BY <1>1 DEF Call
<1>3. proc' = [proc EXCEPT ![p] = r]
  BY <1>1
<1>4. /\ r.pc = proc[p].pc /\ r.at = x /\ r.seen = seen /\ r.outcome = proc[p].outcome /\ r.mem = proc[p].mem
      /\ r.by = proc[p].by /\ r.cache = proc[p].cache /\ r.approve = proc[p].approve /\ r.todo = proc[p].todo
  BY <1>1 DEF Call
<1> HIDE DEF r
<1> QED BY <1>1, <1>2, <1>3, <1>4 DEF Sets

LEMMA SyncingBegins ==
  ASSUME TypeOK, NEW p \in Procs, NEW m \in Mems, NEW by \in Mems \cup {None}, NEW cache \in BOOLEAN,
         NEW approve \in BOOLEAN, NEW todo \in Seq(SUBSET Mems), Syncing(p, m, by, cache, approve, todo)
  PROVE  Begins(p, "own", m, by, approve, todo)
<1>1. proc \in [Procs -> Call]
  BY Fields
<1> DEFINE r == [Idle EXCEPT !.pc = "own", !.mem = m, !.by = by, !.cache = cache, !.approve = approve, !.todo = todo]
<1>2. r \in Call
  BY IdleType DEF Call, Steps
<1>3. proc' = [proc EXCEPT ![p] = r]
  BY <1>1 DEF Syncing
<1>4. r.pc = "own" /\ r.mem = m /\ r.by = by /\ r.approve = approve /\ r.todo = todo /\ r.outcome = Unknown
  BY DEF Idle
<1> HIDE DEF r
<1> QED BY <1>1, <1>2, <1>3, <1>4 DEF Begins

LEMMA SyncsOnBegins ==
  ASSUME TypeOK, NEW p \in Procs, NEW cache \in BOOLEAN, NEW todo \in Seq(SUBSET Mems), SyncsOn(p, cache, todo)
  PROVE  Stops(p) \/ (todo # <<>> /\ Begins(p, "next", None, None, FALSE, todo))
<1>1. proc \in [Procs -> Call]
  BY Fields
<1>2. CASE todo = <<>>
  BY <1>1, <1>2, IdleType DEF SyncsOn, Stops
<1>3. CASE todo # <<>>
  <2> DEFINE r == [Idle EXCEPT !.pc = "next", !.cache = cache, !.todo = todo]
  <2>1. r \in Call
    BY IdleType DEF Call, Steps
  <2>2. proc' = [proc EXCEPT ![p] = r]
    BY <1>1, <1>3 DEF SyncsOn
  <2>3. r.pc = "next" /\ r.mem = None /\ r.by = None /\ r.approve = FALSE /\ r.todo = todo /\ r.outcome = Unknown
    BY DEF Idle
  <2> HIDE DEF r
  <2> QED BY <1>1, <1>3, <2>1, <2>2, <2>3 DEF Begins
<1> QED BY <1>2, <1>3

LEMMA IdleStops ==
  ASSUME TypeOK, NEW p \in Procs, proc' = [proc EXCEPT ![p] = Idle]
  PROVE  Stops(p)
BY IdleType, Fields DEF Stops

-----------------------------------------------------------------------------
(* How the rest of the state moves.                                         *)

Rows == [Mems -> [state : States \cup {Unknown}, ent : BOOLEAN, of : Stored]]

\* brainsrv keeps what it has, and supersedes only by what the decisions lead to;
\* SQLite keeps what it has; decisions are not taken back.
Grows ==
  /\ brain' \in [Mems -> Stored] /\ local' \in [Mems -> Stored]
  /\ \A y \in Mems : \/ brain'[y] = brain[y]
                     \/ brain[y] = Absent /\ brain'[y] = None
                     \/ brain[y] = None /\ brain'[y] \in Mems /\ Leads(decided', y, brain'[y])
  /\ \A y \in Mems : local[y] # Absent => local'[y] # Absent
  /\ decided \subseteq decided' /\ decided' \subseteq Mems \X Mems
  /\ Links(local') \subseteq decided'
  /\ approved' \subseteq Here

\* A row keeps its state, gets its first one, or is written by a command that
\* knows what it says.
RowsMove ==
  /\ row' \in Rows
  /\ \A y \in Mems :
       /\ row'[y].ent => row[y].ent \/ brain'[y] # Absent
       /\ row'[y].ent => row'[y].state # Unknown
       /\ \/ row'[y].state = row[y].state /\ row'[y].of = row[y].of
          \/ row'[y].state = "pending" /\ local[y] # Absent
          \/ row'[y].state \in States /\ local[y] # Absent
             /\ (row'[y].state = "synced" => brain[y] # Absent /\ (row'[y].of \in Mems => brain[y] \in Mems))

\* p's command after a step of its own.
Good(p) ==
  /\ proc' \in [Procs -> Call] /\ \A q \in Procs \ {p} : proc'[q] = proc[q]
  /\ proc'[p].pc = "idle" => proc'[p] = Idle
  /\ \A k \in DOMAIN proc'[p].todo : \A m \in proc'[p].todo[k] : local'[m] # Absent
  /\ CallInv(p)'

AllStored(todo) == \A k \in DOMAIN todo : \A m \in todo[k] : local[m] # Absent

LEMMA GoodStops ==
  ASSUME NEW p \in Procs, Stops(p)
  PROVE  Good(p)
BY IdleType DEF Stops, Good, CallInv, At, Replacing

LEMMA GoodOwn ==
  ASSUME NEW p \in Procs, NEW m \in Mems, NEW by, NEW approve, NEW todo, Begins(p, "own", m, by, approve, todo),
         local'[m] # Absent, by # None => Leads(decided', m, by), approve => m \in Here,
         \A k \in DOMAIN todo : \A y \in todo[k] : local'[y] # Absent
  PROVE  Good(p)
BY DEF Begins, Good, CallInv, At, Replacing

LEMMA GoodNext ==
  ASSUME NEW p \in Procs, NEW todo, todo # <<>>, Begins(p, "next", None, None, FALSE, todo),
         \A k \in DOMAIN todo : \A y \in todo[k] : local'[y] # Absent
  PROVE  Good(p)
BY DEF Begins, Good, CallInv, At, Replacing

LEMMA GoodSets ==
  ASSUME TypeOK, LocalInv, Grows, NEW p \in Procs, CallInv(p), proc[p].pc \notin {"idle", "next"},
         NEW pc \in Steps \ {"idle", "next"}, NEW at, NEW seen, NEW outcome, Sets(p, pc, at, seen, outcome),
         pc \in Replacing => at \in Mems /\ brain'[proc[p].mem] # Absent /\ Leads(decided', proc[p].mem, at),
         pc \in {"head", "mark"} => local'[at] # Absent,
         pc = "mark" => brain'[at] # Absent,
         pc = "record" => outcome # Unknown,
         pc = "approve" => proc[p].mem \in Here,
         pc = "record" /\ outcome = "synced" =>
           brain'[proc[p].mem] # Absent /\ (proc[p].by # None => brain'[proc[p].mem] \in Mems)
  PROVE  Good(p)
<1>1. proc[p].mem \in Mems /\ local[proc[p].mem] # Absent
  BY DEF CallInv
<1>2. local'[proc[p].mem] # Absent
  BY <1>1 DEF Grows
<1>3. proc[p].by # None => Leads(decided', proc[p].mem, proc[p].by)
  BY LeadsMono DEF CallInv, Grows
<1>4. proc[p].approve \/ pc = "approve" => proc[p].mem \in Here
  BY DEF CallInv
<1>5. \A k \in DOMAIN proc[p].todo : \A y \in proc[p].todo[k] : local'[y] # Absent
  <2>1. proc[p].todo \in Seq(SUBSET Mems)
    BY Fields
  <2> QED BY <2>1 DEF LocalInv, Grows
<1>6. CallInv(p)'
  BY <1>1, <1>2, <1>3, <1>4 DEF Sets, CallInv, At
<1> QED BY <1>5, <1>6 DEF Sets, Good

\* A step of another leaves what a command knows true.
LEMMA OtherCall ==
  ASSUME TypeOK, Grows, NEW q \in Procs, CallInv(q), proc'[q] = proc[q]
  PROVE  CallInv(q)'
<1>1. proc[q].by # None => Leads(decided', proc[q].mem, proc[q].by)
  BY LeadsMono DEF CallInv, Grows
<1>2. proc[q].pc \in Replacing =>
        proc[q].at \in Mems /\ proc[q].mem \in Mems /\ Leads(decided', proc[q].mem, proc[q].at)
  BY LeadsMono DEF CallInv, Grows, Replacing
<1>3. \A y \in Mems : (brain[y] # Absent => brain'[y] # Absent) /\ (brain[y] \in Mems => brain'[y] \in Mems)
  BY MemsAssumption DEF Grows
<1>4. \A y \in Mems : local[y] # Absent => local'[y] # Absent
  BY DEF Grows
<1> QED BY <1>1, <1>2, <1>3, <1>4 DEF CallInv, At, Replacing

-----------------------------------------------------------------------------
(* What each action does.                                                   *)

Keeps == UNCHANGED <<local, approved, row, brain, decided>>

LEMMA KeepsMoves ==
  ASSUME TypeOK, LocalInv, Keeps
  PROVE  Grows /\ RowsMove
<1>1. row \in Rows /\ \A y \in Mems : row[y].ent => row[y].state # Unknown
  BY DEF TypeOK, Rows
<1> QED BY <1>1 DEF Keeps, Grows, RowsMove, TypeOK, LocalInv

LEMMA RowsKept ==
  ASSUME TypeOK, row' = row
  PROVE  RowsMove
BY DEF RowsMove, TypeOK, Rows

\* The entity of a memory that is stored here is known or asked for.
LEMMA EntityMoves ==
  ASSUME TypeOK, LocalInv, NEW p \in Procs, NEW m \in Mems, local[m] # Absent, EntityID(p, m),
         UNCHANGED <<local, approved, decided>>
  PROVE  Grows /\ RowsMove /\ brain'[m] # Absent
<1>1. brain \in [Mems -> Stored] /\ row \in Rows /\ approved \subseteq Here
  BY DEF TypeOK, Rows
<1>2. \A y \in Mems : row[y].ent => row[y].state # Unknown /\ brain[y] # Absent
  BY DEF TypeOK
<1>3. CASE row[m].ent /\ UNCHANGED <<row, brain>>
  BY <1>2, <1>3, KeepsMoves DEF Keeps
<1>4. CASE brain' = Remembered(m) /\ row' = WithEntity(m)
  <2>1. /\ brain' \in [Mems -> Stored] /\ \A y \in Mems \ {m} : brain'[y] = brain[y]
        /\ brain'[m] = IF brain[m] = Absent THEN None ELSE brain[m]
    BY <1>1, <1>4 DEF Remembered, Stored
  <2>2. Grows
    BY <1>1, <2>1 DEF Grows, TypeOK, LocalInv
  <2>3. brain'[m] # Absent
    BY <2>1, MemsAssumption
  <2>4. /\ row' \in Rows /\ \A y \in Mems \ {m} : row'[y] = row[y]
        /\ row'[m].of = row[m].of
        /\ row'[m].state = IF row[m].state = Unknown THEN "pending" ELSE row[m].state
    BY <1>1, <1>4 DEF WithEntity, Rows, States, Unknown
  <2>5. row'[m].state # Unknown
    BY <2>4 DEF Unknown
  <2>6. RowsMove
    BY <1>2, <2>1, <2>3, <2>4, <2>5 DEF RowsMove
  <2> QED BY <2>2, <2>3, <2>6
<1> QED BY <1>3, <1>4 DEF EntityID

LEMMA StateMoves ==
  ASSUME TypeOK, NEW m \in Mems, local[m] # Absent, NEW state \in States, NEW of \in Mems \cup {None},
         row' = WithState(m, state, of), brain' = brain,
         state = "synced" => brain[m] # Absent /\ (of \in Mems => brain[m] \in Mems)
  PROVE  RowsMove
<1>1. row \in Rows
  BY DEF TypeOK, Rows
<1>2. \A y \in Mems : row[y].ent => row[y].state # Unknown /\ brain[y] # Absent
  BY DEF TypeOK
<1>3. row' \in Rows /\ \A y \in Mems \ {m} : row'[y] = row[y]
  BY <1>1 DEF WithState, Rows, Stored
<1>4. row'[m].state = state /\ row'[m].of = of /\ row'[m].ent = row[m].ent
  BY <1>1 DEF WithState, Rows
<1>5. Unknown \notin States
  BY DEF Unknown, States
<1> QED BY <1>2, <1>3, <1>4, <1>5 DEF RowsMove

LEMMA ListedStored ==
  ASSUME NEW mems \in SUBSET Mems, NEW rest \in Seq(SUBSET Mems), \A y \in mems : local[y] # Absent, AllStored(rest)
  PROVE  Listed(mems, rest) \in Seq(SUBSET Mems) /\ AllStored(Listed(mems, rest))
<1>1. CASE mems = {}
  BY <1>1 DEF Listed
<1>2. CASE mems # {}
  <2>1. Listed(mems, rest) = <<mems>> \o rest /\ <<mems>> \o rest \in Seq(SUBSET Mems)
    BY <1>2 DEF Listed
  <2>2. \A k \in DOMAIN (<<mems>> \o rest) : (k = 1 /\ (<<mems>> \o rest)[k] = mems)
          \/ (k - 1 \in DOMAIN rest /\ (<<mems>> \o rest)[k] = rest[k - 1])
    OBVIOUS
  <2> QED BY <2>1, <2>2 DEF AllStored
<1> QED BY <1>1, <1>2

LEMMA EmptyStored == <<>> \in Seq(SUBSET Mems) /\ AllStored(<<>>)
BY DEF AllStored

Moves(p) == Grows /\ RowsMove /\ Good(p)

LEMMA ApproveMoves ==
  ASSUME Inductive, NEW p \in Procs, NEW m \in Mems, Approve(p, m)
  PROVE  Moves(p)
<1>1. TypeOK /\ LocalInv
  BY DEF Inductive
<1>2. local \in [Mems -> Stored] /\ brain \in [Mems -> Stored]
  BY <1>1 DEF TypeOK
<1>3. /\ local' \in [Mems -> Stored] /\ local'[m] = None /\ \A y \in Mems \ {m} : local'[y] = local[y]
  BY <1>2 DEF Approve, Stored
<1>4. Links(local') \subseteq Links(local)
  BY <1>3, MemsAssumption DEF Links
<1>5. Grows
  BY <1>1, <1>2, <1>3, <1>4, MemsAssumption DEF Approve, Grows, LocalInv, TypeOK
<1>6. Begins(p, "own", m, None, TRUE, <<>>)
  BY <1>1, SyncingBegins, EmptyStored DEF Approve
<1> DEFINE todo == <<>>
<1>a. \A k \in DOMAIN todo : \A y \in todo[k] : local'[y] # Absent
  OBVIOUS
<1>b. local'[m] # Absent /\ m \in Here
  BY <1>3, MemsAssumption DEF Approve
<1> HIDE DEF todo
<1>c. Begins(p, "own", m, None, TRUE, todo)
  BY <1>6 DEF todo
<1>7. Good(p)
  BY <1>a, <1>b, <1>c, GoodOwn
<1>8. RowsMove
  BY <1>1, RowsKept DEF Approve
<1> QED BY <1>5, <1>7, <1>8 DEF Moves

LEMMA SupersedeMoves ==
  ASSUME Inductive, NEW p \in Procs, NEW m \in Mems, NEW r \in Mems, Supersede(p, m, r)
  PROVE  Moves(p)
<1>1. TypeOK /\ LocalInv
  BY DEF Inductive
<1>2. local \in [Mems -> Stored] /\ brain \in [Mems -> Stored] /\ decided \subseteq Mems \X Mems /\ approved \subseteq Here
  BY <1>1 DEF TypeOK
<1>3. /\ local' \in [Mems -> Stored] /\ local'[m] = r /\ \A y \in Mems \ {m} : local'[y] = local[y]
  BY <1>2 DEF Supersede, Stored
<1>4. decided' = decided \cup {<<m, r>>} /\ brain' = brain /\ approved' = approved
  BY DEF Supersede
<1>5. Links(local') \subseteq decided'
  BY <1>1, <1>3, <1>4 DEF Links, LocalInv
<1>6. Grows
  BY <1>2, <1>3, <1>4, <1>5, MemsAssumption DEF Grows
<1>7. Begins(p, "own", m, r, FALSE, <<>>)
  BY <1>1, SyncingBegins, EmptyStored DEF Supersede
<1>8. Leads(decided', m, r)
  BY <1>4, LeadsDirect
<1> DEFINE todo == <<>>
<1>a. \A k \in DOMAIN todo : \A y \in todo[k] : local'[y] # Absent
  OBVIOUS
<1>b. local'[m] # Absent
  BY <1>3, MemsAssumption
<1> HIDE DEF todo
<1>9. Begins(p, "own", m, r, FALSE, todo)
  BY <1>7 DEF todo
<1>11. Good(p)
  BY <1>8, <1>9, <1>a, <1>b, GoodOwn
<1>10. RowsMove
  BY <1>1, RowsKept DEF Supersede
<1> QED BY <1>6, <1>10, <1>11 DEF Moves

LEMMA StartSyncMoves ==
  ASSUME Inductive, NEW p \in Procs, NEW all \in BOOLEAN, StartSync(p, all)
  PROVE  Moves(p)
<1>1. TypeOK /\ LocalInv /\ Keeps
  BY DEF Inductive, StartSync, Keeps
<1> DEFINE rows == {m \in Mems : row[m].state \in {"pending", "failed"}}
           live == {m \in Mems : local[m] = None}
           old  == {m \in Mems : local[m] \in Mems}
           todo == IF all THEN Listed(live, Listed(old, <<>>)) ELSE Listed(rows, <<>>)
<1>2. SyncsOn(p, ~all, todo)
  BY DEF StartSync
<1>3. \A y \in rows : local[y] # Absent
  BY <1>1 DEF LocalInv, Unknown
<1>4. todo \in Seq(SUBSET Mems) /\ AllStored(todo)
  <2>1. \A y \in live \cup old : local[y] # Absent
    BY MemsAssumption
  <2>2. Listed(old, <<>>) \in Seq(SUBSET Mems) /\ AllStored(Listed(old, <<>>))
    BY <2>1, EmptyStored, ListedStored
  <2>3. Listed(live, Listed(old, <<>>)) \in Seq(SUBSET Mems) /\ AllStored(Listed(live, Listed(old, <<>>)))
    BY <2>1, <2>2, ListedStored
  <2>4. Listed(rows, <<>>) \in Seq(SUBSET Mems) /\ AllStored(Listed(rows, <<>>))
    BY <1>3, EmptyStored, ListedStored
  <2> QED BY <2>3, <2>4
<1> HIDE DEF todo
<1>5. Stops(p) \/ (todo # <<>> /\ Begins(p, "next", None, None, FALSE, todo))
  BY <1>1, <1>2, <1>4, SyncsOnBegins
<1>6. Good(p)
  BY <1>1, <1>4, <1>5, GoodStops, GoodNext DEF AllStored, Keeps
<1> QED BY <1>1, <1>6, KeepsMoves DEF Moves

LEMMA NextMemoryMoves ==
  ASSUME Inductive, NEW p \in Procs, NextMemory(p)
  PROVE  Moves(p)
<1>1. TypeOK /\ LocalInv /\ Keeps /\ CallInv(p)
  BY DEF Inductive, NextMemory, Keeps
<1> DEFINE todo == proc[p].todo
<1>2. todo \in Seq(SUBSET Mems) /\ todo # <<>> /\ proc[p].cache \in BOOLEAN
  BY <1>1, Fields DEF CallInv, NextMemory
<1>3. AllStored(todo)
  BY <1>1 DEF LocalInv, AllStored
<1>4. PICK m \in Head(todo) : Syncing(p, m, local[m], proc[p].cache, FALSE, Listed(Head(todo) \ {m}, Tail(todo)))
  BY DEF NextMemory
<1> HIDE DEF todo
<1>5. Head(todo) \in SUBSET Mems /\ Tail(todo) \in Seq(SUBSET Mems) /\ Head(todo) = todo[1] /\ 1 \in DOMAIN todo
  BY <1>2
<1>6. m \in Mems /\ local[m] # Absent /\ \A y \in Head(todo) : local[y] # Absent
  BY <1>3, <1>4, <1>5 DEF AllStored
<1>7. AllStored(Tail(todo))
  <2>1. \A k \in DOMAIN Tail(todo) : k + 1 \in DOMAIN todo /\ Tail(todo)[k] = todo[k + 1]
    BY <1>2
  <2> QED BY <1>3, <2>1 DEF AllStored
<1> DEFINE rest == Listed(Head(todo) \ {m}, Tail(todo))
<1>8. rest \in Seq(SUBSET Mems) /\ AllStored(rest)
  BY <1>5, <1>6, <1>7, ListedStored
<1> HIDE DEF rest
<1>9. local[m] \in Mems \cup {None}
  BY <1>1, <1>6 DEF TypeOK, Stored
<1>10. Begins(p, "own", m, local[m], FALSE, rest)
  BY <1>1, <1>2, <1>4, <1>6, <1>8, <1>9, SyncingBegins DEF rest
<1>11. local[m] # None => Leads(decided, m, local[m])
  BY <1>1, <1>6, <1>9, LeadsDirect DEF LocalInv, Links
<1>12. Good(p)
  BY <1>1, <1>6, <1>8, <1>10, <1>11, GoodOwn DEF AllStored, Keeps
<1> QED BY <1>1, <1>12, KeepsMoves DEF Moves

\* p works on a memory.
Working(p) ==
  /\ TypeOK /\ LocalInv /\ CallInv(p) /\ proc[p].pc \notin {"idle", "next"}

LEMMA WorkingFacts ==
  ASSUME NEW p \in Procs, Working(p)
  PROVE  /\ proc[p].mem \in Mems /\ local[proc[p].mem] # Absent
         /\ proc[p].pc \in Replacing =>
              proc[p].at \in Mems /\ brain[proc[p].mem] # Absent /\ Leads(decided, proc[p].mem, proc[p].at)
BY DEF Working, CallInv

LEMMA EndsGood ==
  ASSUME NEW p \in Procs, Working(p), Grows, NEW outcome \in States, Ends(p, outcome),
         outcome = "synced" => brain'[proc[p].mem] # Absent /\ (proc[p].by # None => brain'[proc[p].mem] \in Mems)
  PROVE  Good(p)
<1>1. Sets(p, "record", None, {}, outcome)
  BY EndsSets DEF Working
<1>2. outcome # Unknown
  BY DEF Unknown, States
<1> QED BY <1>1, <1>2, GoodSets DEF Working, Replacing, Steps

LEMMA SendGood ==
  ASSUME NEW p \in Procs, Working(p), Grows, NEW x \in Mems, NEW seen \in SUBSET Mems, Try(p, x, seen),
         brain'[proc[p].mem] # Absent, Leads(decided', proc[p].mem, x)
  PROVE  Good(p)
<1>1. Sets(p, "send", x, seen \cup {x}, proc[p].outcome)
  BY TrySets DEF Working
<1> QED BY <1>1, GoodSets DEF Working, Replacing, Steps

LEMMA GotoGood ==
  ASSUME NEW p \in Procs, Working(p), Grows, NEW pc \in Steps \ {"idle", "next", "record"}, Goto(p, pc),
         pc \in Replacing => proc[p].pc \in Replacing,
         pc \in {"head", "mark"} => local'[proc[p].at] # Absent,
         pc = "mark" => brain'[proc[p].at] # Absent,
         pc = "approve" => proc[p].mem \in Here
  PROVE  Good(p)
<1>1. Sets(p, pc, proc[p].at, proc[p].seen, proc[p].outcome)
  BY GotoSets DEF Working
<1>2. pc \in Replacing =>
        proc[p].at \in Mems /\ brain'[proc[p].mem] # Absent /\ Leads(decided', proc[p].mem, proc[p].at)
  BY WorkingFacts, LeadsMono, MemsAssumption DEF Grows
<1> QED BY <1>1, <1>2, GoodSets DEF Working

LEMMA OwnEntityMoves ==
  ASSUME Inductive, NEW p \in Procs, OwnEntity(p)
  PROVE  Moves(p)
<1>1. Working(p) /\ TypeOK /\ LocalInv
  BY DEF Inductive, Working, OwnEntity, At
<1> DEFINE m == proc[p].mem
<1>2. m \in Mems /\ local[m] # Absent
  BY <1>1, WorkingFacts
<1>3. Grows /\ RowsMove /\ brain'[m] # Absent
  BY <1>1, <1>2, EntityMoves DEF OwnEntity
<1>4. CASE proc[p].by = None
  <2>1. Ends(p, "synced")
    BY <1>4 DEF OwnEntity
  <2> QED BY <1>1, <1>3, <1>4, <2>1, EndsGood DEF Moves, States
<1>5. CASE proc[p].by # None
  <2>1. proc' = [proc EXCEPT ![p].pc = "walk", ![p].at = proc[p].by, ![p].seen = {m}]
    BY <1>5 DEF OwnEntity
  <2>2. proc[p].by \in Mems /\ {m} \in SUBSET Mems
    BY <1>1, <1>2, <1>5, Fields
  <2>3. Sets(p, "walk", proc[p].by, {m}, proc[p].outcome)
    BY <1>1, <2>1, <2>2, WalkSets
  <2>4. Leads(decided', m, proc[p].by)
    BY <1>1, <1>3, <1>5, LeadsMono DEF Grows, Working, CallInv
  <2>5. CallInv(p) /\ proc[p].pc \notin {"idle", "next"}
    BY <1>1 DEF Working
  <2> QED BY <1>1, <1>3, <2>2, <2>3, <2>4, <2>5, GoodSets DEF Moves, Replacing, Steps
<1> QED BY <1>4, <1>5

LEMMA HopMoves ==
  ASSUME Inductive, NEW p \in Procs, Hop(p)
  PROVE  Moves(p)
<1>1. Working(p) /\ TypeOK /\ LocalInv /\ Keeps /\ proc[p].pc = "walk"
  BY DEF Inductive, Working, Hop, At, Keeps
<1>2. Grows /\ RowsMove
  BY <1>1, KeepsMoves
<1> DEFINE m == proc[p].mem  x == proc[p].at
<1>3. /\ x \in Mems /\ brain[m] # Absent /\ Leads(decided, m, x) /\ m \in Mems /\ proc[p].seen \in SUBSET Mems
      /\ local[x] \in Stored
  BY <1>1, WorkingFacts, Fields DEF Replacing, TypeOK
<1>4. CASE x \in proc[p].seen
  <2>1. Ends(p, "pending")
    BY <1>4 DEF Hop
  <2> QED BY <1>1, <1>2, <2>1, EndsGood DEF Moves, States
<1>5. CASE x \notin proc[p].seen /\ local[x] = Absent
  <2>1. Goto(p, "find")
    BY <1>5, MemsAssumption DEF Hop
  <2> QED BY <1>1, <1>2, <2>1, GotoGood DEF Moves, Steps, Replacing
<1>6. CASE x \notin proc[p].seen /\ local[x] = None
  <2>1. Goto(p, "head")
    BY <1>6, MemsAssumption DEF Hop
  <2>2. local'[x] # Absent
    BY <1>1, <1>6, MemsAssumption DEF Keeps
  <2> QED BY <1>1, <1>2, <2>1, <2>2, GotoGood DEF Moves, Steps, Replacing
<1>7. CASE x \notin proc[p].seen /\ local[x] \in Mems
  <2>1. proc' = [proc EXCEPT ![p].at = local[x], ![p].seen = proc[p].seen \cup {x}]
    <3>1. proc' = [proc EXCEPT ![p].at = local[x], ![p].seen = @ \cup {x}]
      BY <1>7, MemsAssumption DEF Hop
    <3>2. proc \in [Procs -> Call] /\ proc[p] \in Call
      BY <1>1, Fields
    <3> QED BY <3>1, <3>2 DEF Call
  <2>2. Sets(p, "walk", local[x], proc[p].seen \cup {x}, proc[p].outcome)
    BY <1>1, <1>3, <1>7, <2>1, HopSets
  <2>3. Leads(decided, x, local[x])
    BY <1>1, <1>3, <1>7, LeadsDirect DEF LocalInv, Links
  <2>4. Leads(decided', m, local[x])
    BY <1>1, <1>3, <2>3, LeadsOn DEF Keeps
  <2>5. brain'[m] # Absent
    BY <1>1, <1>3 DEF Keeps
  <2>6. CallInv(p) /\ proc[p].pc \notin {"idle", "next"}
    BY <1>1 DEF Working
  <2> QED BY <1>1, <1>2, <1>7, <2>2, <2>4, <2>5, <2>6, GoodSets DEF Moves, Replacing, Steps
<1> QED BY <1>3, <1>4, <1>5, <1>6, <1>7 DEF Stored

LEMMA FindMoves ==
  ASSUME Inductive, NEW p \in Procs, Find(p)
  PROVE  Moves(p)
<1>1. Working(p) /\ TypeOK /\ LocalInv /\ Keeps /\ proc[p].pc = "find"
  BY DEF Inductive, Working, Find, At, Keeps
<1>2. Grows /\ RowsMove
  BY <1>1, KeepsMoves
<1>3. /\ proc[p].at \in Mems /\ brain[proc[p].mem] # Absent /\ Leads(decided, proc[p].mem, proc[p].at)
      /\ proc[p].mem \in Mems
  BY <1>1, WorkingFacts DEF Replacing
<1>4. CASE Ends(p, "pending")
  BY <1>1, <1>2, <1>4, EndsGood DEF Moves, States
<1>5. CASE Try(p, proc[p].at, {proc[p].mem})
  BY <1>1, <1>2, <1>3, <1>5, SendGood DEF Moves, Keeps
<1> QED BY <1>4, <1>5 DEF Find, Findable

LEMMA HeadEntityMoves ==
  ASSUME Inductive, NEW p \in Procs, HeadEntity(p)
  PROVE  Moves(p)
<1>1. Working(p) /\ TypeOK /\ LocalInv /\ proc[p].pc = "head"
  BY DEF Inductive, Working, HeadEntity, At
<1>2. proc[p].at \in Mems /\ local[proc[p].at] # Absent
  BY <1>1, WorkingFacts DEF Working, CallInv, Replacing
<1>3. Grows /\ RowsMove /\ brain'[proc[p].at] # Absent
  BY <1>1, <1>2, EntityMoves DEF HeadEntity
<1>4. local'[proc[p].at] # Absent /\ Goto(p, "mark")
  BY <1>2 DEF HeadEntity
<1> QED BY <1>1, <1>3, <1>4, GotoGood DEF Moves, Steps, Replacing

LEMMA MarkHeadMoves ==
  ASSUME Inductive, NEW p \in Procs, MarkHead(p)
  PROVE  Moves(p)
<1>1. Working(p) /\ TypeOK /\ LocalInv /\ proc[p].pc = "mark"
  BY DEF Inductive, Working, MarkHead, At
<1>2. /\ proc[p].at \in Mems /\ brain[proc[p].mem] # Absent /\ Leads(decided, proc[p].mem, proc[p].at)
      /\ proc[p].mem \in Mems
  BY <1>1, WorkingFacts DEF Replacing
<1>3. local[proc[p].at] # Absent /\ brain[proc[p].at] # Absent
  BY <1>1 DEF Working, CallInv, At
<1>4. UNCHANGED <<local, approved, brain, decided>> /\ Try(p, proc[p].at, {proc[p].mem})
      /\ row' = WithState(proc[p].at, "synced", None)
  BY DEF MarkHead
<1>5. RowsMove
  BY <1>1, <1>2, <1>3, <1>4, StateMoves, MemsAssumption DEF States
<1>6. Grows
  BY <1>1, <1>4 DEF Grows, TypeOK, LocalInv
<1> QED BY <1>1, <1>2, <1>4, <1>5, <1>6, SendGood DEF Moves

LEMMA SendMoves ==
  ASSUME Inductive, NEW p \in Procs, Send(p)
  PROVE  Moves(p)
<1>1. Working(p) /\ TypeOK /\ LocalInv /\ proc[p].pc = "send"
  BY DEF Inductive, Working, Send, At
<1> DEFINE m == proc[p].mem  x == proc[p].at
<1>2. x \in Mems /\ m \in Mems /\ brain[m] # Absent /\ Leads(decided, m, x)
  BY <1>1, WorkingFacts DEF Replacing
<1>3. UNCHANGED <<local, approved, row, decided>>
  BY DEF Send
<1>4. RowsMove
  BY <1>1, <1>3, RowsKept
<1>5. CASE brain' = [brain EXCEPT ![m] = x] /\ Ends(p, "synced") /\ (brain[m] = x \/ brain[m] = None)
  <2>1. /\ brain' \in [Mems -> Stored] /\ brain'[m] = x /\ \A y \in Mems \ {m} : brain'[y] = brain[y]
    BY <1>1, <1>2, <1>5 DEF TypeOK, Stored
  <2>2. Grows
    BY <1>1, <1>2, <1>3, <1>5, <2>1 DEF Grows, TypeOK, LocalInv
  <2>3. brain'[m] # Absent /\ brain'[m] \in Mems
    BY <1>2, <2>1, MemsAssumption
  <2> QED BY <1>1, <1>4, <1>5, <2>2, <2>3, EndsGood DEF Moves, States
<1>6. CASE UNCHANGED brain /\ Goto(p, "old")
  <2>1. Grows
    BY <1>1, <1>3, <1>6, KeepsMoves DEF Keeps
  <2> QED BY <1>1, <1>4, <1>6, <2>1, GotoGood DEF Moves, Steps, Replacing
<1> QED BY <1>5, <1>6 DEF Send

LEMMA ReadOldMoves ==
  ASSUME Inductive, NEW p \in Procs, ReadOld(p)
  PROVE  Moves(p)
<1>1. Working(p) /\ TypeOK /\ LocalInv /\ Keeps /\ proc[p].pc = "old"
  BY DEF Inductive, Working, ReadOld, At, Keeps
<1>2. Grows /\ RowsMove
  BY <1>1, KeepsMoves
<1>3. CASE brain[proc[p].mem] \in Mems /\ Ends(p, "synced")
  <2>1. brain'[proc[p].mem] # Absent /\ brain'[proc[p].mem] \in Mems
    BY <1>1, <1>3, MemsAssumption DEF Keeps
  <2> QED BY <1>1, <1>2, <1>3, <2>1, EndsGood DEF Moves, States
<1>4. CASE Goto(p, "new")
  BY <1>1, <1>2, <1>4, GotoGood DEF Moves, Steps, Replacing
<1> QED BY <1>3, <1>4 DEF ReadOld

LEMMA ReadNewMoves ==
  ASSUME Inductive, NEW p \in Procs, ReadNew(p)
  PROVE  Moves(p)
<1>1. Working(p) /\ TypeOK /\ LocalInv /\ Keeps /\ proc[p].pc = "new" /\ SupersededByDecision
  BY DEF Inductive, Working, ReadNew, At, Keeps
<1>2. Grows /\ RowsMove
  BY <1>1, KeepsMoves
<1> DEFINE m == proc[p].mem  y == proc[p].at  x == brain[y]
<1>3. y \in Mems /\ m \in Mems /\ brain[m] # Absent /\ Leads(decided, m, y) /\ proc[p].seen \in SUBSET Mems
  BY <1>1, WorkingFacts, Fields DEF Replacing
<1>4. CASE Ends(p, "failed")
  BY <1>1, <1>2, <1>4, EndsGood DEF Moves, States
<1>5. CASE x \in Mems /\ Try(p, x, proc[p].seen)
  <2>1. Leads(decided, y, x)
    BY <1>1, <1>3, <1>5 DEF SupersededByDecision
  <2>2. Leads(decided', m, x) /\ brain'[m] # Absent
    BY <1>1, <1>3, <2>1, LeadsOn DEF Keeps
  <2> QED BY <1>1, <1>2, <1>3, <1>5, <2>2, SendGood DEF Moves
<1> QED BY <1>4, <1>5 DEF ReadNew

LEMMA RequestFailsMoves ==
  ASSUME Inductive, NEW p \in Procs, RequestFails(p)
  PROVE  Moves(p)
<1>1. TypeOK /\ LocalInv /\ CallInv(p)
  BY DEF Inductive
<1>2. proc[p].pc \in {"own", "head", "find", "send", "old", "new"}
  BY DEF RequestFails, Requests, At
<1>3. Working(p)
  BY <1>1, <1>2 DEF Working
<1> DEFINE m == proc[p].mem  x == proc[p].at
<1>4. m \in Mems /\ (proc[p].pc \in {"head", "send"} => x \in Mems /\ Leads(decided, m, x))
  BY <1>3, WorkingFacts DEF Replacing
<1>5. UNCHANGED <<local, approved, row, decided>> /\ (brain' = brain \/ brain' = Taken(p))
  BY DEF RequestFails
<1>6. RowsMove
  BY <1>1, <1>5, RowsKept
<1>7. PICK outcome \in {"failed", "pending"} : Ends(p, outcome)
  BY DEF RequestFails
<1>8. Grows
  <2>1. CASE brain' = brain
    BY <1>1, <1>5, <2>1, KeepsMoves DEF Keeps
  <2>2. CASE \E y \in Mems : brain' = Remembered(y)
    <3>1. PICK y \in Mems : brain' = Remembered(y)
      BY <2>2
    <3>2. /\ brain' \in [Mems -> Stored] /\ \A z \in Mems \ {y} : brain'[z] = brain[z]
          /\ brain'[y] = IF brain[y] = Absent THEN None ELSE brain[y]
      BY <1>1, <3>1 DEF Remembered, Stored, TypeOK
    <3> QED BY <1>1, <1>5, <3>2 DEF Grows, TypeOK, LocalInv
  <2>3. CASE proc[p].pc = "send" /\ brain[m] = None /\ brain' = [brain EXCEPT ![m] = x]
    <3>1. /\ brain' \in [Mems -> Stored] /\ brain'[m] = x /\ \A z \in Mems \ {m} : brain'[z] = brain[z]
      BY <1>1, <1>4, <2>3 DEF TypeOK, Stored
    <3> QED BY <1>1, <1>4, <1>5, <2>3, <3>1 DEF Grows, TypeOK, LocalInv
  <2>4. brain' = Taken(p) => brain' = brain \/ (\E y \in Mems : brain' = Remembered(y))
          \/ (proc[p].pc = "send" /\ brain[m] = None /\ brain' = [brain EXCEPT ![m] = x])
    BY <1>4 DEF Taken, At
  <2> QED BY <1>5, <2>1, <2>2, <2>3, <2>4
<1>9. Good(p)
  BY <1>3, <1>7, <1>8, EndsGood DEF States
<1> QED BY <1>6, <1>8, <1>9 DEF Moves

LEMMA RecordMoves ==
  ASSUME Inductive, NEW p \in Procs, Record(p)
  PROVE  Moves(p)
<1>1. Working(p) /\ TypeOK /\ LocalInv /\ CallInv(p) /\ proc[p].pc = "record" /\ At(p, "record")
  BY DEF Inductive, Working, Record, At
<1> DEFINE m == proc[p].mem
<1>2. m \in Mems /\ local[m] # Absent
  BY <1>1, WorkingFacts
<1>3. UNCHANGED <<local, approved, brain, decided>> /\ row' = WithState(m, proc[p].outcome, proc[p].by)
  BY DEF Record
<1>4. /\ proc[p].by \in Mems \cup {None} /\ proc[p].outcome \in States /\ proc[p].cache \in BOOLEAN
      /\ proc[p].todo \in Seq(SUBSET Mems)
  BY <1>1, Fields DEF CallInv
<1>5. proc[p].outcome = "synced" => brain[m] # Absent /\ (proc[p].by \in Mems => brain[m] \in Mems)
  BY <1>1, MemsAssumption DEF CallInv
<1>6. RowsMove
  BY <1>1, <1>2, <1>3, <1>4, <1>5, StateMoves
<1>7. Grows
  BY <1>1, <1>3 DEF Grows, TypeOK, LocalInv
<1>8. CASE proc[p].approve /\ Goto(p, "approve")
  <2>1. m \in Here
    BY <1>1, <1>8 DEF CallInv
  <2> QED BY <1>1, <1>6, <1>7, <1>8, <2>1, GotoGood DEF Moves, Steps, Replacing
<1>9. CASE SyncsOn(p, proc[p].cache, proc[p].todo)
  <2>1. Stops(p) \/ (proc[p].todo # <<>> /\ Begins(p, "next", None, None, FALSE, proc[p].todo))
    BY <1>1, <1>4, <1>9, SyncsOnBegins
  <2>2. \A k \in DOMAIN proc[p].todo : \A y \in proc[p].todo[k] : local'[y] # Absent
    BY <1>1, <1>3 DEF LocalInv
  <2> QED BY <1>6, <1>7, <2>1, <2>2, GoodStops, GoodNext DEF Moves
<1> QED BY <1>8, <1>9 DEF Record

LEMMA ApprovedMoves ==
  ASSUME Inductive, NEW p \in Procs, Approved(p)
  PROVE  Moves(p)
<1>1. TypeOK /\ LocalInv /\ CallInv(p) /\ proc[p].pc = "approve"
  BY DEF Inductive, Approved, At
<1>2. UNCHANGED <<local, row, brain, decided>> /\ approved' = approved \cup {proc[p].mem}
  BY DEF Approved
<1>3. Good(p)
  BY <1>1, IdleStops, GoodStops DEF Approved
<1>4. proc[p].mem \in Here
  BY <1>1 DEF CallInv, At
<1>5. Grows /\ RowsMove
  BY <1>1, <1>2, <1>4, RowsKept DEF Grows, TypeOK, LocalInv
<1> QED BY <1>3, <1>5 DEF Moves

LEMMA CrashMoves ==
  ASSUME Inductive, NEW p \in Procs, Crash(p)
  PROVE  Moves(p)
<1>1. TypeOK /\ LocalInv /\ Keeps
  BY DEF Inductive, Crash, Keeps
<1>2. Good(p)
  BY <1>1, IdleStops, GoodStops DEF Crash
<1> QED BY <1>1, <1>2, KeepsMoves DEF Moves

-----------------------------------------------------------------------------
(* The invariant.                                                           *)

\* Every step moves the state by the rules, and at most one command.
LEMMA NextMoves ==
  ASSUME Inductive, Next
  PROVE  Grows /\ RowsMove /\ ((\E p \in Procs : Good(p)) \/ proc' = proc)
<1>1. CASE \E p \in Procs :
             \/ \E m \in Mems : Approve(p, m)
             \/ \E m, r \in Mems : Supersede(p, m, r)
             \/ Sync(p) \/ StartSync(p, TRUE) \/ Crash(p)
  BY <1>1, ApproveMoves, SupersedeMoves, StartSyncMoves, CrashMoves DEF Sync, Moves
<1>2. ASSUME NEW p \in Procs, Work(p)
      PROVE  Moves(p)
  BY <1>2, NextMemoryMoves, OwnEntityMoves, HopMoves, FindMoves, HeadEntityMoves, MarkHeadMoves, SendMoves,
     ReadOldMoves, ReadNewMoves, RequestFailsMoves, RecordMoves, ApprovedMoves DEF Work
<1>3. ASSUME NEW m \in Mems, NEW r \in Mems, RemoteSupersede(m, r)
      PROVE  Grows /\ RowsMove /\ proc' = proc
  <2>1. TypeOK /\ LocalInv
    BY DEF Inductive
  <2>2. /\ brain[m] = None /\ decided' = decided \cup {<<m, r>>} /\ brain' = [brain EXCEPT ![m] = r]
        /\ UNCHANGED <<local, approved, row, proc>>
    BY <1>3 DEF RemoteSupersede
  <2>3. /\ brain' \in [Mems -> Stored] /\ brain'[m] = r /\ \A y \in Mems \ {m} : brain'[y] = brain[y]
    BY <2>1, <2>2 DEF TypeOK, Stored
  <2>4. Leads(decided', m, r)
    BY <2>2, LeadsDirect
  <2>5. Grows
    BY <2>1, <2>2, <2>3, <2>4 DEF Grows, TypeOK, LocalInv
  <2> QED BY <2>1, <2>2, <2>5, RowsKept
<1> QED BY <1>1, <1>2, <1>3 DEF Next, Moves

LEMMA BoundsStep ==
  ASSUME TypeOK, Next
  PROVE  made' \in 0..MaxSupersedes /\ remote' \in 0..MaxRemote /\ faults' \in 0..MaxFaults
<1> DEFINE Typed == made' \in 0..MaxSupersedes /\ remote' \in 0..MaxRemote /\ faults' \in 0..MaxFaults
<1>1. /\ made \in 0..MaxSupersedes /\ remote \in 0..MaxRemote /\ faults \in 0..MaxFaults
      /\ MaxSupersedes \in Nat /\ MaxRemote \in Nat /\ MaxFaults \in Nat
  BY BoundsAssumption DEF TypeOK
<1>2. UNCHANGED bounds => Typed
  BY <1>1 DEF bounds
<1>3. faults < MaxFaults /\ faults' = faults + 1 /\ UNCHANGED <<made, remote>> => Typed
  BY <1>1
<1>4. made < MaxSupersedes /\ made' = made + 1 /\ UNCHANGED <<faults, remote>> => Typed
  BY <1>1
<1>5. remote < MaxRemote /\ remote' = remote + 1 /\ UNCHANGED <<faults, made>> => Typed
  BY <1>1
<1> HIDE DEF Typed
<1>6. ASSUME NEW p \in Procs, Work(p)
      PROVE  Typed
  <2>1. RequestFails(p) => Typed
    BY <1>3 DEF RequestFails
  <2>2. ~RequestFails(p) => Typed
    <3>1. ~RequestFails(p) => UNCHANGED bounds
      BY <1>6 DEF Work, NextMemory, OwnEntity, Hop, Find, HeadEntity, MarkHead, Send, ReadOld, ReadNew,
         Record, Approved
    <3> QED BY <1>2, <3>1
  <2> QED BY <2>1, <2>2
<1>7. ASSUME NEW p \in Procs, (\E m \in Mems : Approve(p, m)) \/ Sync(p) \/ StartSync(p, TRUE)
      PROVE  Typed
  BY <1>2, <1>7 DEF Approve, Sync, StartSync
<1>8. ASSUME NEW p \in Procs, NEW m \in Mems, NEW r \in Mems, Supersede(p, m, r)
      PROVE  Typed
  BY <1>4, <1>8 DEF Supersede
<1>9. ASSUME NEW p \in Procs, Crash(p)
      PROVE  Typed
  BY <1>3, <1>9 DEF Crash
<1>10. ASSUME NEW m \in Mems, NEW r \in Mems, RemoteSupersede(m, r)
       PROVE  Typed
  BY <1>5, <1>10 DEF RemoteSupersede
<1>11. Typed
  BY <1>6, <1>7, <1>8, <1>9, <1>10 DEF Next
<1> QED BY <1>11 DEF Typed

LEMMA InitInductive ==
  ASSUME Init
  PROVE  Inductive
<1>1. local \in [Mems -> Stored] /\ \A m \in Mems \ Here : local[m] = Absent
  BY BeforeAssumption DEF Init, Stored
<1>2. brain \in [Mems -> {None, Absent}]
  BY DEF Init
<1>3. approved \subseteq Here /\ decided = Links(local) /\ decided \subseteq Mems \X Mems
  BY DEF Init, Links
<1>4. /\ row \in Rows /\ \A m \in Mems : row[m].state = Unknown /\ row[m].ent = FALSE
  BY DEF Init, Rows, Stored
<1>5. proc \in [Procs -> Call] /\ \A p \in Procs : proc[p] = Idle
  BY IdleType DEF Init
<1>6. made \in 0..MaxSupersedes /\ remote \in 0..MaxRemote /\ faults \in 0..MaxFaults
  BY BoundsAssumption DEF Init
<1>7. TypeOK
  BY <1>1, <1>2, <1>3, <1>4, <1>5, <1>6 DEF TypeOK, Rows, Stored
<1>8. LocalInv
  BY <1>3, <1>4, <1>5, IdleType DEF LocalInv
<1>9. \A p \in Procs : CallInv(p)
  BY <1>5, IdleType DEF CallInv, At, Replacing
<1>10. RowInv
  BY <1>4 DEF RowInv, Unknown
<1>11. SupersededByDecision
  BY <1>2, MemsAssumption DEF SupersededByDecision
<1> QED BY <1>7, <1>8, <1>9, <1>10, <1>11 DEF Inductive

LEMMA StepInductive ==
  ASSUME Inductive, Next
  PROVE  Inductive'
<1>1. TypeOK /\ LocalInv /\ RowInv /\ SupersededByDecision /\ \A q \in Procs : CallInv(q)
  BY DEF Inductive
<1>2. Grows /\ RowsMove /\ ((\E p \in Procs : Good(p)) \/ proc' = proc)
  BY NextMoves
<1>3. \A m \in Mems : (brain[m] # Absent => brain'[m] # Absent) /\ (brain[m] \in Mems => brain'[m] \in Mems)
  BY <1>2, MemsAssumption DEF Grows
<1>4. TypeOK'
  <2>1. local' \in [Mems -> Stored] /\ brain' \in [Mems -> Stored] /\ approved' \subseteq Here
        /\ decided' \subseteq Mems \X Mems
    BY <1>2 DEF Grows
  <2>2. row' \in Rows /\ \A m \in Mems : row'[m].ent => row'[m].state # Unknown /\ brain'[m] # Absent
    BY <1>1, <1>2, <1>3 DEF RowsMove, TypeOK
  <2>3. proc' \in [Procs -> Call] /\ \A q \in Procs : proc'[q].pc = "idle" => proc'[q] = Idle
    BY <1>1, <1>2 DEF Good, TypeOK, At
  <2>4. made' \in 0..MaxSupersedes /\ remote' \in 0..MaxRemote /\ faults' \in 0..MaxFaults
    BY <1>1, BoundsStep
  <2> QED BY <2>1, <2>2, <2>3, <2>4 DEF TypeOK, Rows, At
<1>5. LocalInv'
  <2>1. \A m \in Mems : row'[m].state # Unknown => local'[m] # Absent
    BY <1>1, <1>2 DEF Grows, RowsMove, LocalInv
  <2>2. \A q \in Procs : \A k \in DOMAIN proc[q].todo : proc[q].todo[k] \subseteq Mems
    <3>1. \A q \in Procs : proc[q].todo \in Seq(SUBSET Mems)
      BY <1>1, Fields
    <3> QED BY <3>1
  <2>3. \A q \in Procs : \A k \in DOMAIN proc[q].todo : \A m \in proc[q].todo[k] : local'[m] # Absent
    BY <1>1, <1>2, <2>2 DEF Grows, LocalInv
  <2>4. \A q \in Procs : \A k \in DOMAIN proc'[q].todo : \A m \in proc'[q].todo[k] : local'[m] # Absent
    BY <1>2, <2>3 DEF Good
  <2>5. Links(local') \subseteq decided'
    BY <1>2 DEF Grows
  <2> QED BY <2>1, <2>4, <2>5 DEF LocalInv, Links
<1>6. \A q \in Procs : CallInv(q)'
  BY <1>1, <1>2, OtherCall DEF Good
<1>7. RowInv'
  <2> SUFFICES ASSUME NEW m \in Mems, row'[m].state = "synced"
               PROVE  brain'[m] # Absent /\ (row'[m].of \in Mems => brain'[m] \in Mems)
    BY DEF RowInv
  <2>1. CASE row[m].state = "synced" /\ row'[m].of = row[m].of
    BY <1>1, <1>3, <2>1 DEF RowInv
  <2>2. CASE brain[m] # Absent /\ (row'[m].of \in Mems => brain[m] \in Mems)
    BY <1>3, <2>2
  <2> QED BY <1>2, <2>1, <2>2 DEF RowsMove
<1>8. SupersededByDecision'
  <2> SUFFICES ASSUME NEW m \in Mems, brain'[m] \in Mems
               PROVE  Leads(decided', m, brain'[m])
    BY DEF SupersededByDecision, Leads
  <2>1. CASE brain'[m] = brain[m]
    <3>1. Leads(decided, m, brain[m])
      BY <1>1, <2>1 DEF SupersededByDecision
    <3> QED BY <1>2, <2>1, <3>1, LeadsMono DEF Grows
  <2> QED BY <1>2, <2>1, MemsAssumption DEF Grows
<1> QED BY <1>4, <1>5, <1>6, <1>7, <1>8 DEF Inductive

LEMMA StutterInductive ==
  ASSUME Inductive, UNCHANGED vars
  PROVE  Inductive'
BY DEF vars, bounds, Inductive, TypeOK, LocalInv, CallInv, RowInv, SupersededByDecision, Links, Leads, At

LEMMA AlwaysInductive == Spec => []Inductive
<1>1. Inductive /\ [Next]_vars => Inductive'
  BY StepInductive, StutterInductive
<1> QED BY <1>1, InitInductive, PTL DEF Spec

-----------------------------------------------------------------------------
(* The theorems.                                                            *)

\* The state keeps its type: a known entity_id is always that of an entity, and a
\* command that has ended holds nothing.
THEOREM TypeCorrect == Spec => []TypeOK
<1>1. Inductive => TypeOK
  BY DEF Inductive
<1> QED BY <1>1, AlwaysInductive, PTL

\* A row that says synced tells the truth about the memory its writer worked
\* from, whatever conflicts, replays, lost answers and other commands it met.
THEOREM SyncedCorrect == Spec => []SyncedIsTrue
<1>1. Inductive => SyncedIsTrue
  BY DEF Inductive, RowInv, SyncedIsTrue, Overtaken, Agrees
<1> QED BY <1>1, AlwaysInductive, PTL

\* An entity is superseded in brainsrv only by one that the decisions, of this
\* machine and of others, lead to.
THEOREM DecidedCorrect == Spec => []SupersededByDecision
<1>1. Inductive => SupersededByDecision
  BY DEF Inductive
<1> QED BY <1>1, AlwaysInductive, PTL

=============================================================================
