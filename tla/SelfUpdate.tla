------------------------------ MODULE SelfUpdate ------------------------------
(***************************************************************************)
(* The self-update of a system install (endpoint/selfupdate/apply.go), run  *)
(* by a scheduled job and by an administrator: fetch the manifest, lock,    *)
(* download, copy the install tree aside, run the package installer,        *)
(* restart the collector, check its health, and roll back when a step       *)
(* fails.  The package scripts (packaging/macos/scripts) stop the collector *)
(* and the customer's forwarders before the files are replaced, start them  *)
(* after, and have the updater's own job loaded again.                      *)
(*                                                                         *)
(* A tree of files is the set of versions its files are from, and whether   *)
(* all of them are there.                                                   *)
(*                                                                         *)
(* Left out: the modes off and check-only, dev builds, and the choice of    *)
(* the artifact; a download that fails its checks is a failed download.     *)
(***************************************************************************)
EXTENDS Integers, FiniteSets

CONSTANTS
  Updaters,    \* processes that may apply updates
  Daemon,      \* the scheduled one
  Nobody,      \* stands for no updater
  MaxVersion,  \* bound: released versions
  BadVersions, \* releases that fail their health check
  MaxFaults,   \* bound: steps that fail
  MaxCrashes   \* bound: updaters that die

ASSUME UpdatersAssumption == Daemon \in Updaters /\ Nobody \notin Updaters
ASSUME VersionAssumption  == MaxVersion \in Nat \ {0} /\ BadVersions \subseteq 1..MaxVersion
ASSUME BoundsAssumption   == MaxFaults \in Nat /\ MaxCrashes \in Nat

VARIABLES
  live,      \* /opt/beacon
  backup,    \* rollback/beacon, the copy of live before the update
  restore,   \* rollback/restore, a copy of backup about to be moved in
  aside,     \* rollback/failed-install, what the rollback moved out
  latest,    \* the version in the manifest
  lock,      \* holder of .update.lock
  collector, \* the tree the running collector was started from
  fwd,       \* the customer's forwarders are loaded
  reload,    \* a deferred reload of the scheduled job waits; "late" when it began
             \* while the job slept, so that it may give up waiting
  job,       \* updater -> its run
  faults, crashes

trees    == <<live, backup, restore, aside>>
services == <<collector, fwd>>
vars     == <<trees, latest, lock, services, reload, job, faults, crashes>>

Versions == 1..MaxVersion
Tree     == [has : SUBSET Versions, whole : BOOLEAN]
NoTree   == [has |-> {}, whole |-> FALSE]
Whole(v) == [has |-> {v}, whole |-> TRUE]
Part(t)  == [t EXCEPT !.whole = FALSE]
Over(t, v) == [has |-> t.has \cup {v}, whole |-> FALSE]

Steps == {"idle", "sleep", "fetch", "lock", "download", "clear", "copy", "install", "installing",
          "restart", "health", "rollback", "aside", "swap", "rbRestart", "rbForwarders", "report"}
Job  == [pc : Steps, from : Versions \cup {0}, want : Versions \cup {0}, snap : BOOLEAN,
         applied : BOOLEAN, rolledBack : BOOLEAN, rbErr : BOOLEAN, before : Tree]
Idle == [pc |-> "idle", from |-> 0, want |-> 0, snap |-> FALSE,
         applied |-> FALSE, rolledBack |-> FALSE, rbErr |-> FALSE, before |-> NoTree]
MidUpdate == Steps \ {"idle", "sleep", "fetch", "lock", "report"}

TypeOK ==
  /\ {live, backup, restore, aside, collector} \subseteq Tree
  /\ latest \in Versions
  /\ lock \in Updaters \cup {Nobody}
  /\ fwd \in BOOLEAN /\ reload \in {"no", "soon", "late"}
  /\ job \in [Updaters -> Job]
  /\ faults \in 0..MaxFaults /\ crashes \in 0..MaxCrashes
  /\ \A u \in Updaters : lock = u <=> job[u].pc \in MidUpdate \cup {"report"}

Init ==
  /\ live = Whole(1) /\ backup = NoTree /\ restore = NoTree /\ aside = NoTree
  /\ latest = 1 /\ lock = Nobody
  /\ collector = Whole(1) /\ fwd = TRUE /\ reload = "no"
  /\ job = [u \in Updaters |-> Idle]
  /\ faults = 0 /\ crashes = 0

-----------------------------------------------------------------------------
At(u, pc)   == job[u].pc = pc
Goto(u, pc) == job' = [job EXCEPT ![u].pc = pc]
Finish(u)   == job' = [job EXCEPT ![u] = Idle]
Fault       == faults < MaxFaults /\ faults' = faults + 1
RollbackFails(u) == job' = [job EXCEPT ![u].pc = "report", ![u].rbErr = TRUE]

\* The installed program starts, the scheduled one with a random sleep; its own
\* version is compiled in.
Start(u) ==
  /\ At(u, "idle")
  /\ \E v \in live.has :
       job' = [job EXCEPT ![u].pc = IF u = Daemon THEN "sleep" ELSE "fetch", ![u].from = v]
  /\ UNCHANGED <<trees, latest, lock, services, reload, faults, crashes>>

Wake(u) ==
  /\ At(u, "sleep")
  /\ Goto(u, "fetch")
  /\ UNCHANGED <<trees, latest, lock, services, reload, faults, crashes>>

\* The manifest is compared with the running program before the lock is taken.
Discover(u) ==
  /\ At(u, "fetch")
  /\ IF latest > job[u].from
     THEN job' = [job EXCEPT ![u].pc = "lock", ![u].want = latest]
     ELSE Finish(u)
  /\ UNCHANGED <<trees, latest, lock, services, reload, faults, crashes>>

\* Mutant: updaters do not exclude each other.
AcquireLockAnyway(u) ==
  /\ At(u, "lock")
  /\ lock' = u
  /\ job' = [job EXCEPT ![u].pc = "download", ![u].before = live]
  /\ UNCHANGED <<trees, latest, services, reload, faults, crashes>>

\* acquireLock does not wait.
AcquireLock(u) ==
  /\ At(u, "lock")
  /\ IF lock = Nobody
     THEN /\ lock' = u
          /\ job' = [job EXCEPT ![u].pc = "download", ![u].before = live]
     ELSE Finish(u) /\ UNCHANGED lock
  /\ UNCHANGED <<trees, latest, services, reload, faults, crashes>>

Download(u) ==
  /\ At(u, "download")
  /\ \/ Goto(u, "clear") /\ UNCHANGED faults
     \/ Goto(u, "report") /\ Fault
  /\ UNCHANGED <<trees, latest, lock, services, reload, crashes>>

\* snapshotInstall: the old copy goes first; without an install there is none.
ClearBackup(u) ==
  /\ At(u, "clear")
  /\ IF live = NoTree
     THEN Goto(u, "install") /\ UNCHANGED <<backup, faults>>
     ELSE \/ Goto(u, "copy") /\ backup' = NoTree /\ UNCHANGED faults
          \/ Goto(u, "report") /\ backup' = Part(backup) /\ Fault
  /\ UNCHANGED <<live, restore, aside, latest, lock, services, reload, crashes>>

\* Mutant: a failure to copy is overlooked.
CopyBackupAnyway(u) ==
  /\ At(u, "copy")
  /\ \/ backup' = live /\ UNCHANGED faults
     \/ backup' = Part(live) /\ Fault
  /\ job' = [job EXCEPT ![u].pc = "install", ![u].snap = TRUE]
  /\ UNCHANGED <<live, restore, aside, latest, lock, services, reload, crashes>>

\* copyTree; a failure ends the update.
CopyBackup(u) ==
  /\ At(u, "copy")
  /\ \/ /\ backup' = live
        /\ job' = [job EXCEPT ![u].pc = "install", ![u].snap = TRUE]
        /\ UNCHANGED faults
     \/ backup' = Part(live) /\ Goto(u, "report") /\ Fault
  /\ UNCHANGED <<live, restore, aside, latest, lock, services, reload, crashes>>

\* The installer: preinstall, and the first files are replaced ...
InstallBegin(u) ==
  /\ At(u, "install")
  /\ \/ /\ collector' = NoTree /\ fwd' = FALSE
        /\ live' = Over(live, job[u].want)
        /\ Goto(u, "installing")
        /\ UNCHANGED faults
     \/ Goto(u, "rollback") /\ Fault /\ UNCHANGED <<live, services>>
  /\ UNCHANGED <<backup, restore, aside, latest, lock, reload, crashes>>

\* UpdaterManager.Load, from postinstall: a running job is reloaded later.
Deferred ==
  CASE At(Daemon, "idle")  -> reload
    [] At(Daemon, "sleep") -> "late"
    [] OTHER               -> IF reload = "late" THEN "late" ELSE "soon"

\* ... the last one, and postinstall.
InstallEnd(u) ==
  /\ At(u, "installing")
  /\ \/ /\ live' = Whole(job[u].want)
        /\ collector' = live' /\ fwd' = TRUE
        /\ reload' = Deferred
        /\ Goto(u, "restart")
        /\ UNCHANGED faults
     \/ \* it fails before or in postinstall: after the collector, or the forwarders too
        /\ live' \in {live, Whole(job[u].want)}
        /\ collector' \in {collector} \cup (IF live'.whole THEN {live'} ELSE {})
        /\ fwd' \in {fwd, collector'.whole}
        /\ Goto(u, "rollback") /\ Fault
        /\ UNCHANGED reload
  /\ UNCHANGED <<backup, restore, aside, latest, lock, crashes>>

RestartCollector(u) ==
  /\ At(u, "restart")
  /\ \/ collector' = live /\ Goto(u, "health") /\ UNCHANGED faults
     \/ collector' = NoTree /\ Goto(u, "rollback") /\ Fault
  /\ UNCHANGED <<trees, latest, lock, fwd, reload, crashes>>

\* The installed program reports the version and the collector runs.  Success
\* clears the rollback directory.
HealthCheck(u) ==
  /\ At(u, "health")
  /\ \/ /\ job[u].want \in live.has \ BadVersions /\ collector # NoTree
        /\ backup' = NoTree /\ restore' = NoTree /\ aside' = NoTree
        /\ job' = [job EXCEPT ![u].pc = "report", ![u].applied = TRUE]
        /\ UNCHANGED faults
     \/ /\ IF job[u].want \in live.has \ BadVersions THEN Fault ELSE UNCHANGED faults
        /\ Goto(u, "rollback")
        /\ UNCHANGED <<backup, restore, aside>>
  /\ UNCHANGED <<live, latest, lock, services, reload, crashes>>

-----------------------------------------------------------------------------
(* rollback.                                                                *)

\* The backup is copied once more, so that it survives a rollback that fails.
PrepareRestore(u) ==
  /\ At(u, "rollback")
  /\ IF ~job[u].snap
     THEN Goto(u, "report") /\ UNCHANGED <<restore, faults>>
     ELSE \/ restore' = backup /\ Goto(u, "aside") /\ UNCHANGED faults
          \/ restore' = Part(backup) /\ RollbackFails(u) /\ Fault
  /\ UNCHANGED <<live, backup, aside, latest, lock, services, reload, crashes>>

\* live is renamed away ...
MoveAside(u) ==
  /\ At(u, "aside")
  /\ \/ aside' = live /\ live' = NoTree /\ Goto(u, "swap") /\ UNCHANGED faults
     \/ aside' = NoTree /\ RollbackFails(u) /\ Fault /\ UNCHANGED live
  /\ UNCHANGED <<backup, restore, latest, lock, services, reload, crashes>>

\* ... and the copy renamed in; when that fails, live is put back if it can be.
Swap(u) ==
  /\ At(u, "swap")
  /\ \/ /\ live' = restore /\ restore' = NoTree /\ aside' = NoTree
        /\ job' = [job EXCEPT ![u].pc = "rbRestart", ![u].rolledBack = TRUE]
        /\ UNCHANGED faults
     \/ /\ Fault /\ RollbackFails(u)
        /\ \/ live' = aside /\ aside' = NoTree
           \/ UNCHANGED <<live, aside>>
        /\ UNCHANGED restore
  /\ UNCHANGED <<backup, latest, lock, services, reload, crashes>>

RestartOld(u) ==
  /\ At(u, "rbRestart")
  /\ \/ collector' = live /\ Goto(u, "rbForwarders") /\ UNCHANGED faults
     \/ collector' = NoTree /\ RollbackFails(u) /\ Fault
  /\ UNCHANGED <<trees, latest, lock, fwd, reload, crashes>>

RestoreForwarders(u) ==
  /\ At(u, "rbForwarders")
  /\ \/ fwd' = TRUE /\ Goto(u, "report") /\ UNCHANGED faults
     \/ RollbackFails(u) /\ Fault /\ UNCHANGED fwd
  /\ UNCHANGED <<trees, latest, lock, collector, reload, crashes>>

\* Mutant: the lock stays.
ReportHolding(u) ==
  /\ At(u, "report")
  /\ Finish(u)
  /\ UNCHANGED <<trees, latest, lock, services, reload, faults, crashes>>

\* cleanupFailedUpdate: only a rollback that succeeded clears its materials.
Report(u) ==
  /\ At(u, "report")
  /\ IF job[u].rolledBack /\ ~job[u].rbErr
     THEN backup' = NoTree /\ restore' = NoTree /\ aside' = NoTree
     ELSE UNCHANGED <<backup, restore, aside>>
  /\ lock' = Nobody
  /\ Finish(u)
  /\ UNCHANGED <<live, latest, services, reload, faults, crashes>>

-----------------------------------------------------------------------------
Publish ==
  /\ latest < MaxVersion
  /\ latest' = latest + 1
  /\ UNCHANGED <<trees, lock, services, reload, job, faults, crashes>>

Die(u) ==
  /\ lock' = IF lock = u THEN Nobody ELSE lock
  /\ Finish(u)

Crash(u) ==
  /\ At(u, "sleep") \/ lock = u
  /\ crashes < MaxCrashes /\ crashes' = crashes + 1
  /\ Die(u)
  /\ UNCHANGED <<trees, latest, services, reload, faults>>

\* The reload that was put off runs when the job has ended, or after ten minutes,
\* which a job that still sleeps may not have.
Reload ==
  /\ reload # "no" /\ (At(Daemon, "idle") \/ reload = "late")
  /\ reload' = "no"
  /\ IF At(Daemon, "idle") THEN UNCHANGED <<lock, job>> ELSE Die(Daemon)
  /\ UNCHANGED <<trees, latest, services, faults, crashes>>

Step(u) ==
  \/ Wake(u) \/ Discover(u) \/ AcquireLock(u) \/ Download(u) \/ ClearBackup(u) \/ CopyBackup(u)
  \/ InstallBegin(u) \/ InstallEnd(u) \/ RestartCollector(u) \/ HealthCheck(u)
  \/ PrepareRestore(u) \/ MoveAside(u) \/ Swap(u) \/ RestartOld(u) \/ RestoreForwarders(u)
  \/ Report(u)

Next ==
  \/ \E u \in Updaters : Start(u) \/ Step(u) \/ Crash(u)
  \/ Publish \/ Reload

Spec == Init /\ [][Next]_vars

\* The schedule starts the job again and again, and every step of an updater
\* ends: its commands run under a deadline.
FairSpec ==
  /\ Spec
  /\ WF_vars(Start(Daemon)) /\ \A u \in Updaters : WF_vars(Step(u))

-----------------------------------------------------------------------------
(* Properties.                                                              *)

\* A run that reports no failed rollback leaves the new version with its
\* services running, or the tree it found, again with its services when they
\* had been stopped; whatever another updater tried meanwhile.
Outcome(j) ==
  j.pc = "report" /\ ~j.rbErr =>
    CASE j.applied    -> live = Whole(j.want) /\ collector = live /\ fwd
      [] j.rolledBack -> live = j.before /\ collector = live /\ fwd
      [] OTHER        -> live = j.before \/ j.before = NoTree
AllOrNothing == \A u \in Updaters : Outcome(job[u])

\* From the snapshot on, the tree the update started from is in one of the four
\* places, in one piece, whichever step of the rollback fails.
Keeps(j) ==
  j.pc \in MidUpdate \cup {"report"} /\ ~j.applied /\ j.before.whole =>
    j.before \in {live, backup, restore, aside}
OldTreeKept == \A u \in Updaters : Keeps(job[u])

\* The last release is installed in the end, whichever steps fail before, unless
\* an updater dies or a failed rollback leaves no program in one piece for good.
EventuallyUpdated ==
  latest = MaxVersion ~> live = Whole(MaxVersion) \/ crashes > 0 \/ []~live.whole
-----------------------------------------------------------------------------
(* The inductive invariant behind AllOrNothing and OldTreeKept.             *)

Restoring == {"rbRestart", "rbForwarders"}
Prepared  == {"install", "installing", "restart", "health", "rollback", "aside", "swap"} \cup Restoring

\* A run decides its outcome only on the way it goes, and knows the version it
\* wants before it takes the lock.
Flags(j) ==
  /\ j.pc \notin {"idle", "sleep", "fetch"} => j.want \in Versions
  /\ j.snap => j.pc \in Prepared \cup {"report"}
  /\ j.rolledBack => j.snap /\ ~j.applied /\ j.pc \in Restoring \cup {"report"}
  /\ j.applied \/ j.rbErr => j.pc = "report" /\ ~(j.applied /\ j.rbErr)

\* Where the tree that the holder of the lock started from is, step by step.
Places(j) ==
  /\ j.pc \in {"download", "clear", "copy", "install"} \cup Restoring => live = j.before
  /\ j.pc \in Prepared => IF j.snap THEN backup = j.before ELSE j.before = NoTree
  /\ j.pc \in {"aside", "swap"} \cup Restoring => j.snap
  /\ j.pc \in {"aside", "swap"} => restore = j.before
  /\ j.pc \in Restoring => j.rolledBack
  /\ j.pc \in {"restart", "health"} => live = Whole(j.want) /\ fwd
  /\ j.pc \in {"health", "rbForwarders"} => collector = live

Good(j) == Flags(j) /\ Places(j) /\ Outcome(j) /\ Keeps(j)

Inductive == TypeOK /\ \A u \in Updaters : Good(job[u])
=============================================================================
