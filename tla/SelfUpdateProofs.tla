---------------------------- MODULE SelfUpdateProofs ----------------------------
(***************************************************************************)
(* Proofs about the self-update, for any number of updaters, releases,      *)
(* faults and crashes.                                                     *)
(***************************************************************************)
EXTENDS SelfUpdate, TLAPS

LEMMA InductiveInit == Init => Inductive
<1> SUFFICES ASSUME Init PROVE Inductive
  OBVIOUS
<1>1. TypeOK
  BY UpdatersAssumption, VersionAssumption, BoundsAssumption
     DEF Init, TypeOK, Tree, Whole, NoTree, Idle, Job, Steps, MidUpdate, Versions
<1>2. \A u \in Updaters : job[u] = Idle
  BY DEF Init
<1> QED
  BY <1>1, <1>2 DEF Inductive, Good, Flags, Places, Outcome, Keeps, Idle, Prepared,
                    Restoring, MidUpdate, Steps

\* Who is past taking the lock holds it.
Locked == \A u \in Updaters : lock = u <=> job[u].pc \in MidUpdate \cup {"report"}

LEMMA IdleJob == Idle \in Job /\ Idle.pc = "idle"
BY DEF Idle, Job, Steps, NoTree, Tree

\* A step of a run keeps the runs well formed, and the lock with the one that is
\* past taking it.
LEMMA JobStep ==
  ASSUME TypeOK, NEW u \in Updaters, Start(u) \/ Step(u) \/ Crash(u)
  PROVE  job' \in [Updaters -> Job] /\ lock' \in Updaters \cup {Nobody} /\ Locked'
<1> USE UpdatersAssumption, VersionAssumption
<1> USE DEF At, Goto, Finish, Steps, MidUpdate, Locked
<1>a. /\ job \in [Updaters -> Job] /\ job[u] \in Job
      /\ lock \in Updaters \cup {Nobody} /\ Locked /\ latest \in Versions
      /\ live \in Tree
  BY DEF TypeOK
<1>1. CASE Start(u)
  <2>1. PICK p \in {"sleep", "fetch"}, v \in live.has :
          job' = [job EXCEPT ![u] = [job[u] EXCEPT !.pc = p, !.from = v]]
    BY <1>1 DEF Start
  <2>2. v \in Versions
    BY <1>a DEF Tree
  <2>3. [job[u] EXCEPT !.pc = p, !.from = v] \in Job
    BY <1>a, <2>2 DEF Job
  <2>4. job'[u].pc = p /\ \A w \in Updaters \ {u} : job'[w] = job[w]
    BY <1>a, <2>1 DEF Job
  <2> QED BY <1>a, <1>1, <2>1, <2>3, <2>4 DEF Start
<1>2. CASE Wake(u)
  <2>1. job' \in [Updaters -> Job]
    BY <1>a, <1>2 DEF Wake, Job
  <2>2. lock' \in Updaters \cup {Nobody} /\ Locked'
    BY <1>a, <1>2 DEF Wake, Job
  <2> QED BY <2>1, <2>2
<1>3. CASE Discover(u)
  <2>1. CASE latest > job[u].from
    <3>1. job' = [job EXCEPT ![u] = [job[u] EXCEPT !.pc = "lock", !.want = latest]]
      BY <1>3, <2>1 DEF Discover
    <3>2. [job[u] EXCEPT !.pc = "lock", !.want = latest] \in Job
      BY <1>a DEF Job
    <3>3. job'[u].pc = "lock" /\ \A w \in Updaters \ {u} : job'[w] = job[w]
      BY <1>a, <3>1 DEF Job
    <3> QED BY <1>a, <1>3, <3>1, <3>2, <3>3 DEF Discover
  <2>2. CASE ~(latest > job[u].from)
    BY <1>a, <1>3, <2>2, IdleJob DEF Discover
  <2> QED BY <2>1, <2>2
<1>4. CASE AcquireLock(u)
  <2>1. CASE lock = Nobody
    <3>1. job' = [job EXCEPT ![u] = [job[u] EXCEPT !.pc = "download", !.before = live]]
      BY <1>4, <2>1 DEF AcquireLock
    <3>2. [job[u] EXCEPT !.pc = "download", !.before = live] \in Job
      BY <1>a DEF Job
    <3>3. job'[u].pc = "download" /\ \A w \in Updaters \ {u} : job'[w] = job[w]
      BY <1>a, <3>1 DEF Job
    <3> QED BY <1>a, <1>4, <2>1, <3>1, <3>2, <3>3 DEF AcquireLock
  <2>2. CASE lock # Nobody
    BY <1>a, <1>4, <2>2, IdleJob DEF AcquireLock
  <2> QED BY <2>1, <2>2
<1>5. CASE Download(u)
  <2>1. job' \in [Updaters -> Job]
    BY <1>a, <1>5 DEF Download, Job
  <2>2. lock' \in Updaters \cup {Nobody} /\ Locked'
    BY <1>a, <1>5 DEF Download, Job
  <2> QED BY <2>1, <2>2
<1>6. CASE ClearBackup(u)
  <2>1. job' \in [Updaters -> Job]
    BY <1>a, <1>6 DEF ClearBackup, Job
  <2>2. lock' \in Updaters \cup {Nobody} /\ Locked'
    BY <1>a, <1>6 DEF ClearBackup, Job
  <2> QED BY <2>1, <2>2
<1>7. CASE CopyBackup(u)
  <2>1. job' \in [Updaters -> Job]
    BY <1>a, <1>7 DEF CopyBackup, Job
  <2>2. lock' \in Updaters \cup {Nobody} /\ Locked'
    BY <1>a, <1>7 DEF CopyBackup, Job
  <2> QED BY <2>1, <2>2
<1>8. CASE InstallBegin(u)
  <2>1. job' \in [Updaters -> Job]
    BY <1>a, <1>8 DEF InstallBegin, Job
  <2>2. lock' \in Updaters \cup {Nobody} /\ Locked'
    BY <1>a, <1>8 DEF InstallBegin, Job
  <2> QED BY <2>1, <2>2
<1>9. CASE InstallEnd(u)
  <2>1. job' \in [Updaters -> Job]
    BY <1>a, <1>9 DEF InstallEnd, Job
  <2>2. lock' \in Updaters \cup {Nobody} /\ Locked'
    BY <1>a, <1>9 DEF InstallEnd, Job
  <2> QED BY <2>1, <2>2
<1>10. CASE RestartCollector(u)
  <2>1. job' \in [Updaters -> Job]
    BY <1>a, <1>10 DEF RestartCollector, Job
  <2>2. lock' \in Updaters \cup {Nobody} /\ Locked'
    BY <1>a, <1>10 DEF RestartCollector, Job
  <2> QED BY <2>1, <2>2
<1>11. CASE HealthCheck(u)
  <2>1. job' \in [Updaters -> Job]
    BY <1>a, <1>11 DEF HealthCheck, Job
  <2>2. lock' \in Updaters \cup {Nobody} /\ Locked'
    BY <1>a, <1>11 DEF HealthCheck, Job
  <2> QED BY <2>1, <2>2
<1>12. CASE PrepareRestore(u)
  <2>1. job' \in [Updaters -> Job]
    BY <1>a, <1>12 DEF PrepareRestore, RollbackFails, Job
  <2>2. lock' \in Updaters \cup {Nobody} /\ Locked'
    BY <1>a, <1>12 DEF PrepareRestore, RollbackFails, Job
  <2> QED BY <2>1, <2>2
<1>13. CASE MoveAside(u)
  <2>1. job' \in [Updaters -> Job]
    BY <1>a, <1>13 DEF MoveAside, RollbackFails, Job
  <2>2. lock' \in Updaters \cup {Nobody} /\ Locked'
    BY <1>a, <1>13 DEF MoveAside, RollbackFails, Job
  <2> QED BY <2>1, <2>2
<1>14. CASE Swap(u)
  <2>1. job' \in [Updaters -> Job]
    BY <1>a, <1>14 DEF Swap, RollbackFails, Job
  <2>2. lock' \in Updaters \cup {Nobody} /\ Locked'
    BY <1>a, <1>14 DEF Swap, RollbackFails, Job
  <2> QED BY <2>1, <2>2
<1>15. CASE RestartOld(u)
  <2>1. job' \in [Updaters -> Job]
    BY <1>a, <1>15 DEF RestartOld, RollbackFails, Job
  <2>2. lock' \in Updaters \cup {Nobody} /\ Locked'
    BY <1>a, <1>15 DEF RestartOld, RollbackFails, Job
  <2> QED BY <2>1, <2>2
<1>16. CASE RestoreForwarders(u)
  <2>1. job' \in [Updaters -> Job]
    BY <1>a, <1>16 DEF RestoreForwarders, RollbackFails, Job
  <2>2. lock' \in Updaters \cup {Nobody} /\ Locked'
    BY <1>a, <1>16 DEF RestoreForwarders, RollbackFails, Job
  <2> QED BY <2>1, <2>2
<1>17. CASE Report(u)
  <2>1. job' \in [Updaters -> Job]
    BY <1>a, <1>17 DEF Report, Idle, NoTree, Tree, Job
  <2>2. lock' \in Updaters \cup {Nobody} /\ Locked'
    BY <1>a, <1>17 DEF Report, Idle, NoTree, Tree, Job
  <2> QED BY <2>1, <2>2
<1>18. CASE Crash(u)
  <2>1. job' \in [Updaters -> Job]
    BY <1>a, <1>18 DEF Crash, Die, Idle, NoTree, Tree, Job
  <2>2. lock' \in Updaters \cup {Nobody} /\ Locked'
    BY <1>a, <1>18 DEF Crash, Die, Idle, NoTree, Tree, Job
  <2> QED BY <2>1, <2>2
<1> QED BY <1>1, <1>2, <1>3, <1>4, <1>5, <1>6, <1>7, <1>8, <1>9, <1>10, <1>11, <1>12, <1>13, <1>14, <1>15, <1>16, <1>17, <1>18 DEF Step

\* The trees stay sets of released versions, and the counters within bounds.
LEMMA DataStep ==
  ASSUME Inductive, NEW u \in Updaters, Start(u) \/ Step(u) \/ Crash(u)
  PROVE  /\ {live, backup, restore, aside, collector}' \subseteq Tree
         /\ latest' \in Versions /\ fwd' \in BOOLEAN /\ reload' \in {"no", "soon", "late"}
         /\ faults' \in 0..MaxFaults /\ crashes' \in 0..MaxCrashes
<1> USE BoundsAssumption DEF At, Goto, Finish, Fault, trees, services
<1>a. /\ {live, backup, restore, aside, collector} \subseteq Tree
      /\ latest \in Versions /\ fwd \in BOOLEAN /\ reload \in {"no", "soon", "late"}
      /\ faults \in 0..MaxFaults /\ crashes \in 0..MaxCrashes
      /\ job[u].pc \notin {"idle", "sleep", "fetch"} => job[u].want \in Versions
  BY DEF Inductive, TypeOK, Good, Flags
<1>b. NoTree \in Tree /\ \A t \in Tree : Part(t) \in Tree
  BY DEF NoTree, Tree, Part
<1>c. \A v \in Versions : Whole(v) \in Tree /\ \A t \in Tree : Over(t, v) \in Tree
  BY DEF Whole, Over, Tree
<1>1. CASE Start(u)
  BY <1>a, <1>b, <1>c, <1>1 DEF Start
<1>2. CASE Wake(u)
  BY <1>a, <1>b, <1>c, <1>2 DEF Wake
<1>3. CASE Discover(u)
  BY <1>a, <1>b, <1>c, <1>3 DEF Discover
<1>4. CASE AcquireLock(u)
  BY <1>a, <1>b, <1>c, <1>4 DEF AcquireLock
<1>5. CASE Download(u)
  BY <1>a, <1>b, <1>c, <1>5 DEF Download
<1>6. CASE ClearBackup(u)
  BY <1>a, <1>b, <1>c, <1>6 DEF ClearBackup
<1>7. CASE CopyBackup(u)
  BY <1>a, <1>b, <1>c, <1>7 DEF CopyBackup
<1>8. CASE InstallBegin(u)
  <2>1. job[u].want \in Versions /\ Over(live, job[u].want) \in Tree
    BY <1>a, <1>c, <1>8 DEF InstallBegin
  <2>2. fwd' \in BOOLEAN
    BY <1>a, <1>8 DEF InstallBegin
  <2>3. live' \in Tree /\ collector' \in Tree
    BY <1>a, <1>b, <1>8, <2>1 DEF InstallBegin
  <2>4. UNCHANGED <<backup, restore, aside, latest, reload, crashes>>
    BY <1>8 DEF InstallBegin
  <2>5. faults' \in 0..MaxFaults
    BY <1>a, <1>8 DEF InstallBegin
  <2> QED BY <1>a, <2>2, <2>3, <2>4, <2>5
<1>9. CASE InstallEnd(u)
  <2>1. job[u].want \in Versions /\ Whole(job[u].want) \in Tree
    BY <1>a, <1>c, <1>9 DEF InstallEnd
  <2>2. live' \in Tree
    BY <1>a, <1>9, <2>1 DEF InstallEnd
  <2>3. collector' \in Tree
    BY <1>a, <1>9, <2>2 DEF InstallEnd
  <2>4. fwd' \in BOOLEAN
    BY <1>a, <1>9, <2>3 DEF InstallEnd, Tree
  <2>5. reload' \in {"no", "soon", "late"}
    BY <1>a, <1>9 DEF InstallEnd, Deferred
  <2> QED BY <1>a, <1>9, <2>2, <2>3, <2>4, <2>5 DEF InstallEnd
<1>10. CASE RestartCollector(u)
  BY <1>a, <1>b, <1>c, <1>10 DEF RestartCollector
<1>11. CASE HealthCheck(u)
  BY <1>a, <1>b, <1>c, <1>11 DEF HealthCheck
<1>12. CASE PrepareRestore(u)
  BY <1>a, <1>b, <1>c, <1>12 DEF PrepareRestore
<1>13. CASE MoveAside(u)
  BY <1>a, <1>b, <1>c, <1>13 DEF MoveAside
<1>14. CASE Swap(u)
  BY <1>a, <1>b, <1>c, <1>14 DEF Swap
<1>15. CASE RestartOld(u)
  BY <1>a, <1>b, <1>c, <1>15 DEF RestartOld
<1>16. CASE RestoreForwarders(u)
  <2>1. fwd' \in BOOLEAN
    BY <1>a, <1>16 DEF RestoreForwarders
  <2>2. UNCHANGED <<live, backup, restore, aside, latest, collector, reload, crashes>>
    BY <1>16 DEF RestoreForwarders
  <2>3. faults' \in 0..MaxFaults
    BY <1>a, <1>16 DEF RestoreForwarders
  <2> QED BY <1>a, <2>1, <2>2, <2>3
<1>17. CASE Report(u)
  BY <1>a, <1>b, <1>c, <1>17 DEF Report
<1>18. CASE Crash(u)
  BY <1>a, <1>b, <1>c, <1>18 DEF Crash
<1> QED BY <1>1, <1>2, <1>3, <1>4, <1>5, <1>6, <1>7, <1>8, <1>9, <1>10, <1>11, <1>12, <1>13, <1>14, <1>15, <1>16, <1>17, <1>18 DEF Step

\* Only the holder of the lock touches trees and services, so a step of one run
\* leaves the others as good as they were.
LEMMA OthersStep ==
  ASSUME Inductive, NEW u \in Updaters, Start(u) \/ Step(u) \/ Crash(u),
         NEW v \in Updaters, v # u
  PROVE  Good(job[v])'
<1>a. job \in [Updaters -> Job] /\ Locked /\ Good(job[v]) /\ job[u] \in Job /\ job[v] \in Job
  BY DEF Inductive, TypeOK, Locked
<1>1. job'[v] = job[v]
  BY <1>a DEF Start, Wake, Discover, AcquireLock, Download, ClearBackup, CopyBackup, InstallBegin,
       InstallEnd, RestartCollector, HealthCheck, PrepareRestore, MoveAside, Swap, RestartOld, RestoreForwarders, Report,
       Step, Crash, Die, Goto, Finish, RollbackFails
<1>2. UNCHANGED <<trees, services>> \/ lock = u
  BY <1>a DEF Start, Wake, Discover, AcquireLock, Download, ClearBackup, CopyBackup, InstallBegin,
       InstallEnd, RestartCollector, HealthCheck, PrepareRestore, MoveAside, Swap, RestartOld, RestoreForwarders, Report,
       Step, Crash, Locked, At, MidUpdate, Steps
<1>3. CASE UNCHANGED <<trees, services>>
  BY <1>a, <1>1, <1>3 DEF Good, Flags, Places, Outcome, Keeps, trees, services
<1>4. CASE lock = u
  <2>1. job[v].pc \in {"idle", "sleep", "fetch", "lock"}
    BY <1>a, <1>4 DEF Locked, Job, MidUpdate
  <2>2. Flags(job[v])
    BY <1>a DEF Good
  <2> QED BY <1>a, <1>1, <2>1, <2>2
          DEF Good, Flags, Places, Outcome, Keeps, Prepared, Restoring, MidUpdate, Steps
<1> QED BY <1>2, <1>3, <1>4

\* The run that moves stays good.
LEMMA OwnStep ==
  ASSUME Inductive, NEW u \in Updaters, Start(u) \/ Step(u) \/ Crash(u)
  PROVE  Good(job[u])'
<1> USE DEF At, Goto, Finish, trees, services, Flags, Places, Outcome, Keeps, Prepared, Restoring,
            MidUpdate, Steps
<1>a. job \in [Updaters -> Job] /\ Good(job[u]) /\ job[u] \in Job /\ latest \in Versions
  BY DEF Inductive, TypeOK
<1>1. CASE Start(u)
  <2>1. PICK p \in {"sleep", "fetch"}, v \in live.has :
          job' = [job EXCEPT ![u] = [job[u] EXCEPT !.pc = p, !.from = v]]
    BY <1>1 DEF Start
  <2>2. job'[u] = [job[u] EXCEPT !.pc = p, !.from = v]
    BY <1>a, <2>1
  <2>3. /\ job'[u].pc = p /\ job'[u].snap = job[u].snap /\ job'[u].applied = job[u].applied
        /\ job'[u].rolledBack = job[u].rolledBack /\ job'[u].rbErr = job[u].rbErr
    BY <1>a, <2>2 DEF Job
  <2> QED BY <1>a, <1>1, <2>3 DEF Start, Good
<1>2. CASE Wake(u)
  BY <1>a, <1>2 DEF Wake, Good, Job, Idle, NoTree, RollbackFails, Die
<1>3. CASE Discover(u)
  BY <1>a, <1>3 DEF Discover, Good, Job, Idle, NoTree, RollbackFails, Die
<1>4. CASE AcquireLock(u)
  BY <1>a, <1>4 DEF AcquireLock, Good, Job, Idle, NoTree, RollbackFails, Die
<1>5. CASE Download(u)
  BY <1>a, <1>5 DEF Download, Good, Job, Idle, NoTree, RollbackFails, Die
<1>6. CASE ClearBackup(u)
  <2>1. /\ job'[u].pc \in {"install", "copy", "report"}
        /\ job'[u].want = job[u].want /\ job'[u].snap = job[u].snap /\ job'[u].applied = job[u].applied
        /\ job'[u].rolledBack = job[u].rolledBack /\ job'[u].rbErr = job[u].rbErr /\ job'[u].before = job[u].before
    BY <1>a, <1>6 DEF ClearBackup, Job
  <2>2. Flags(job[u])'
    BY <1>a, <1>6, <2>1 DEF ClearBackup, Good, Job, NoTree
  <2>3. Places(job[u])'
    BY <1>a, <1>6, <2>1 DEF ClearBackup, Good, Job, NoTree
  <2>4. Outcome(job[u])'
    BY <1>a, <1>6, <2>1 DEF ClearBackup, Good, Job, NoTree
  <2>5. Keeps(job[u])'
    BY <1>a, <1>6, <2>1 DEF ClearBackup, Good, Job, NoTree
  <2> QED BY <2>2, <2>3, <2>4, <2>5 DEF Good
<1>7. CASE CopyBackup(u)
  BY <1>a, <1>7 DEF CopyBackup, Good, Job, Idle, NoTree, RollbackFails, Die
<1>8. CASE InstallBegin(u)
  <2>1. /\ job'[u].pc \in {"installing", "rollback"}
        /\ job'[u].want = job[u].want /\ job'[u].snap = job[u].snap /\ job'[u].applied = job[u].applied
        /\ job'[u].rolledBack = job[u].rolledBack /\ job'[u].rbErr = job[u].rbErr /\ job'[u].before = job[u].before
    BY <1>a, <1>8 DEF InstallBegin, Job
  <2>2. Flags(job[u])'
    BY <1>a, <1>8, <2>1 DEF InstallBegin, Good, Job, NoTree
  <2>3. Places(job[u])'
    BY <1>a, <1>8, <2>1 DEF InstallBegin, Good, Job, NoTree
  <2>4. Outcome(job[u])'
    BY <1>a, <1>8, <2>1 DEF InstallBegin, Good, Job, NoTree
  <2>5. Keeps(job[u])'
    BY <1>a, <1>8, <2>1 DEF InstallBegin, Good, Job, NoTree
  <2> QED BY <2>2, <2>3, <2>4, <2>5 DEF Good
<1>9. CASE InstallEnd(u)
  <2>1. /\ job'[u].pc \in {"restart", "rollback"}
        /\ job'[u].want = job[u].want /\ job'[u].snap = job[u].snap /\ job'[u].applied = job[u].applied
        /\ job'[u].rolledBack = job[u].rolledBack /\ job'[u].rbErr = job[u].rbErr /\ job'[u].before = job[u].before
    BY <1>a, <1>9 DEF InstallEnd, Job
  <2>2. Flags(job[u])'
    BY <1>a, <1>9, <2>1 DEF InstallEnd, Good, Job, NoTree
  <2>3. Places(job[u])'
    BY <1>a, <1>9, <2>1 DEF InstallEnd, Good, Job, NoTree
  <2>4. Outcome(job[u])'
    BY <1>a, <1>9, <2>1 DEF InstallEnd, Good, Job, NoTree
  <2>5. Keeps(job[u])'
    BY <1>a, <1>9, <2>1 DEF InstallEnd, Good, Job, NoTree
  <2> QED BY <2>2, <2>3, <2>4, <2>5 DEF Good
<1>10. CASE RestartCollector(u)
  <2>1. /\ job'[u].pc \in {"health", "rollback"}
        /\ job'[u].want = job[u].want /\ job'[u].snap = job[u].snap /\ job'[u].applied = job[u].applied
        /\ job'[u].rolledBack = job[u].rolledBack /\ job'[u].rbErr = job[u].rbErr /\ job'[u].before = job[u].before
    BY <1>a, <1>10 DEF RestartCollector, Job
  <2>2. Flags(job[u])'
    BY <1>a, <1>10, <2>1 DEF RestartCollector, Good, Job, NoTree
  <2>3. Places(job[u])'
    BY <1>a, <1>10, <2>1 DEF RestartCollector, Good, Job, NoTree
  <2>4. Outcome(job[u])'
    BY <1>a, <1>10, <2>1 DEF RestartCollector, Good, Job, NoTree
  <2>5. Keeps(job[u])'
    BY <1>a, <1>10, <2>1 DEF RestartCollector, Good, Job, NoTree
  <2> QED BY <2>2, <2>3, <2>4, <2>5 DEF Good
<1>11. CASE HealthCheck(u)
  <2>1. /\ job'[u].pc \in {"report", "rollback"}
        /\ job'[u].want = job[u].want /\ job'[u].snap = job[u].snap /\ job'[u].rolledBack = job[u].rolledBack
        /\ job'[u].rbErr = job[u].rbErr /\ job'[u].before = job[u].before
        /\ job'[u].applied \in BOOLEAN
    BY <1>a, <1>11 DEF HealthCheck, Job
  <2>2. Flags(job[u])'
    BY <1>a, <1>11, <2>1 DEF HealthCheck, Good, Job, NoTree
  <2>3. Places(job[u])'
    BY <1>a, <1>11, <2>1 DEF HealthCheck, Good, Job, NoTree
  <2>4. Outcome(job[u])'
    BY <1>a, <1>11, <2>1 DEF HealthCheck, Good, Job, NoTree
  <2>5. Keeps(job[u])'
    BY <1>a, <1>11, <2>1 DEF HealthCheck, Good, Job, NoTree
  <2> QED BY <2>2, <2>3, <2>4, <2>5 DEF Good
<1>12. CASE PrepareRestore(u)
  <2>1. /\ job'[u].pc \in {"report", "aside"}
        /\ job'[u].want = job[u].want /\ job'[u].snap = job[u].snap /\ job'[u].applied = job[u].applied
        /\ job'[u].rolledBack = job[u].rolledBack /\ job'[u].before = job[u].before
        /\ job'[u].rbErr \in BOOLEAN
    BY <1>a, <1>12 DEF PrepareRestore, RollbackFails, Job
  <2>2. Flags(job[u])'
    BY <1>a, <1>12, <2>1 DEF PrepareRestore, RollbackFails, Good, Job, NoTree
  <2>3. Places(job[u])'
    BY <1>a, <1>12, <2>1 DEF PrepareRestore, RollbackFails, Good, Job, NoTree
  <2>4. Outcome(job[u])'
    BY <1>a, <1>12, <2>1 DEF PrepareRestore, RollbackFails, Good, Job, NoTree
  <2>5. Keeps(job[u])'
    BY <1>a, <1>12, <2>1 DEF PrepareRestore, RollbackFails, Good, Job, NoTree
  <2> QED BY <2>2, <2>3, <2>4, <2>5 DEF Good
<1>13. CASE MoveAside(u)
  BY <1>a, <1>13 DEF MoveAside, Good, Job, Idle, NoTree, RollbackFails, Die
<1>14. CASE Swap(u)
  BY <1>a, <1>14 DEF Swap, Good, Job, Idle, NoTree, RollbackFails, Die
<1>15. CASE RestartOld(u)
  BY <1>a, <1>15 DEF RestartOld, Good, Job, Idle, NoTree, RollbackFails, Die
<1>16. CASE RestoreForwarders(u)
  BY <1>a, <1>16 DEF RestoreForwarders, Good, Job, Idle, NoTree, RollbackFails, Die
<1>17. CASE Report(u)
  BY <1>a, <1>17 DEF Report, Good, Job, Idle, NoTree, RollbackFails, Die
<1>18. CASE Crash(u)
  BY <1>a, <1>18 DEF Crash, Good, Job, Idle, NoTree, RollbackFails, Die
<1> QED BY <1>1, <1>2, <1>3, <1>4, <1>5, <1>6, <1>7, <1>8, <1>9, <1>10, <1>11, <1>12, <1>13, <1>14, <1>15, <1>16, <1>17, <1>18 DEF Step

LEMMA InductiveStep ==
  ASSUME Inductive, [Next]_vars
  PROVE  Inductive'
<1>1. ASSUME NEW u \in Updaters, Start(u) \/ Step(u) \/ Crash(u)
      PROVE  Inductive'
  <2>1. TypeOK'
    BY <1>1, JobStep, DataStep DEF Inductive, TypeOK, Locked
  <2>2. \A v \in Updaters : Good(job[v])'
    BY <1>1, OwnStep, OthersStep
  <2> QED BY <2>1, <2>2 DEF Inductive
<1>2. CASE Publish
  <2>1. TypeOK'
    BY <1>2, VersionAssumption DEF Publish, Inductive, TypeOK, Versions, trees, services
  <2>2. \A v \in Updaters : Good(job[v])'
    BY <1>2 DEF Publish, Inductive, Good, Flags, Places, Outcome, Keeps, trees, services
  <2> QED BY <2>1, <2>2 DEF Inductive
<1>3. CASE Reload
  <2>1. CASE At(Daemon, "idle")
    <3>1. UNCHANGED <<trees, latest, lock, services, job, faults, crashes>> /\ reload' = "no"
      BY <1>3, <2>1 DEF Reload
    <3> QED BY <3>1 DEF Inductive, TypeOK, Good, Flags, Places, Outcome, Keeps, trees, services
  <2>2. CASE ~At(Daemon, "idle")
    <3>1. Die(Daemon) /\ UNCHANGED <<trees, latest, services, faults, crashes>> /\ reload' = "no"
      BY <1>3, <2>2 DEF Reload
    <3>2. /\ job \in [Updaters -> Job] /\ lock \in Updaters \cup {Nobody} /\ Locked
          /\ \A v \in Updaters : Good(job[v])
      BY DEF Inductive, TypeOK, Locked
    <3>3. job' \in [Updaters -> Job] /\ job'[Daemon] = Idle
          /\ \A v \in Updaters \ {Daemon} : job'[v] = job[v]
      BY <3>1, <3>2, IdleJob, UpdatersAssumption DEF Die, Finish
    <3>4. lock' \in Updaters \cup {Nobody} /\ Locked'
      BY <3>1, <3>2, <3>3, IdleJob, UpdatersAssumption DEF Die, Locked, MidUpdate
    <3>5. TypeOK'
      BY <3>1, <3>3, <3>4 DEF Inductive, TypeOK, Locked, trees, services
    <3>6. Good(job[Daemon])'
      <4>1. Good(Idle)'
        BY DEF Idle, Good, Flags, Places, Outcome, Keeps, Prepared, Restoring, MidUpdate, Steps
      <4> QED BY <3>3, <4>1
    <3>7. \A v \in Updaters \ {Daemon} : Good(job[v])'
      BY <3>1, <3>2, <3>3 DEF Good, Flags, Places, Outcome, Keeps, trees, services
    <3> QED BY <3>5, <3>6, <3>7 DEF Inductive
  <2> QED BY <2>1, <2>2
<1>4. CASE UNCHANGED vars
  BY <1>4 DEF vars, trees, services, Inductive, TypeOK, Good, Flags, Places, Outcome, Keeps
<1> QED BY <1>1, <1>2, <1>3, <1>4 DEF Next

-----------------------------------------------------------------------------
(* The theorems.                                                            *)

\* Each run knows what its place in the update has done to the trees, and only
\* the holder of the lock is in the middle of one.
THEOREM InductiveCorrect == Spec => []Inductive
<1>1. Init => Inductive
  BY InductiveInit
<1>2. Inductive /\ [Next]_vars => Inductive'
  BY InductiveStep
<1> QED BY <1>1, <1>2, PTL DEF Spec

\* The types are kept by any sequence of steps of any updaters, failed and killed
\* ones included.
THEOREM TypeCorrect == Spec => []TypeOK
<1>1. Inductive => TypeOK
  BY DEF Inductive
<1> QED BY <1>1, InductiveCorrect, PTL

\* Whatever fails, a run that does not report a failed rollback ends with the new
\* version running or with the tree it found (Apply in selfupdate/apply.go).
THEOREM OutcomeCorrect == Spec => []AllOrNothing
<1>1. Inductive => AllOrNothing
  BY DEF Inductive, Good, AllOrNothing
<1> QED BY <1>1, InductiveCorrect, PTL

\* The tree an update started from is never lost, whichever step of the update or
\* of its rollback fails (snapshotInstall and rollback in selfupdate/apply.go).
THEOREM OldTreeCorrect == Spec => []OldTreeKept
<1>1. Inductive => OldTreeKept
  BY DEF Inductive, Good, OldTreeKept
<1> QED BY <1>1, InductiveCorrect, PTL
=============================================================================
