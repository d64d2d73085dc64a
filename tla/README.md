# Beacon: TLA+ models of the log, its forwarder and their neighbours

Beacon records what coding agents do on an endpoint. Hooks and a local
collector append events to a shared *runtime log*; the *afferent* part signs
the user in, forwards the log to a server called brainsrv, and proxies MCP
requests to it. Around it are a store of reviewed memories that is kept in line
with brainsrv, a self-updater, an uploader for cloud sandboxes and a browser
extension. This directory specifies the parts whose correctness depends on
the order of steps taken by several processes. Paths below are relative to
`src/cli/beacon/internal/` unless they start with `src/`.

- [Inventory](#inventory)
- [What is modelled](#what-is-modelled)
- [The runs](#the-runs)
- [The proofs](#the-proofs)
- [What is left out](#what-is-left-out)
- [Plan](#plan)

## Inventory

`PROJECT.json` lists every component; these are the ones with state of their
own and interactions worth checking.

| Component | State | Operations | Shares or talks to | Hard part | Correct when |
|---|---|---|---|---|---|
| Runtime log writer (`endpoint/writer`) | `runtime.jsonl`, archives `.1` to `.N`, `runtime.jsonl.lock` | append a line, rotate | every hook process, the collector exporter, `afferent sync`, all under one flock; readers without it | a crash between two renames or in a write; readers in between | archives stay in order, nothing but the oldest is deleted |
| Retention guard (`endpoint/writer/retention.go`) | the segments one backfill run wrote | record, refuse a rotation, report | other writers rotate the same files | files move between two of its appends | a run never rotates its own output out; its report counts only what is retained, and misses at most what moves while it looks |
| Collector exporter (`src/collector-builder/exporter/beaconjsonexporter`) | none of its own | the same append and rotation | the runtime log | a second implementation of the same protocol | as the writer |
| Forwarder (`afferent/forward`) | checkpoints in memory and in `state/checkpoints.json`, `forwarder.lock`, `status.json` | first-run placing, scan, reconcile, read a batch, post, split, commit, save | reads the log, posts to brainsrv, token from auth | rotation during a scan, crashes around the commit, lost answers, 413 splits, failed saves, restarts in several modes | at least once; at most one batch repeated; progress |
| Sync and history (`afferent/cli/sync.go`, `afferent/history`, `claudesession`) | cursors of the sessions read, the round | prime, sweep Claude under a guard, sweep Codex under a budget, drain | log, forwarder or its status | a budget and a status that are out of date when used; a sweep cut short inside a line | history is not rotated out unsent, no cursor passes what was not written |
| Token source (`afferent/auth`) | a Keychain item and `credentials.json`, their lock | load, refresh, log in, log out | several processes, the issuer | refresh tokens are single use; two stores written one after the other; outages | no token is redeemed twice, no live session is left behind, logout is final |
| MCP proxy (`afferent/mcpproxy`) | the upstream session with its token and scope, a stale one | initialize, relay, reopen, recover, end | concurrent messages, token source, brainsrv | many messages see one session die; token and scope change under them | one answer each, nothing sent twice, every session ended |
| Scope resolver and device login (`afferent/cli/commands.go`, `afferent/auth/device.go`) | cached scope, polling interval | resolve, poll, slow down | identity provider, brainsrv | expiry racing an approval | a scope belongs to the user who is signed in |
| Learning (`learning`) | SQLite: memories, candidates, `memory_sync` | approve, supersede, sync | several commands, brainsrv, other machines | several requests per memory without a lock; chains of replacements that others extend | a row that says synced is true; what is not is retried |
| Self-update (`endpoint/selfupdate`, `endpoint/service`) | install tree, its copies, `.update.lock`, services | lock, download, snapshot, install, restart, check, roll back | scheduled job, administrator, package scripts | failure or crash at any step, of the rollback too | the old version or a working new one |
| Cloud shuttle (`src/cli/beacon-hooks/internal/cloudshuttle`) | an upload offset in `shuttle-state.json` | snapshot the log, upload what is new, set an old log aside | hook processes of one sandbox, the log's lock, managed ingest | the log rotates under the offset; two uploads at a time | every line is uploaded or set aside |
| Hook session state (`src/cli/beacon-hooks/internal/state`) | `state.json` | read, change, replace | hook processes of one agent | the lock is per process | no update is lost, a prompt is emitted once |
| Browser extension (`src/browser-extension/src/background`) | a delivery queue in `chrome.storage` | enqueue, flush, retry | the local collector | the worker is suspended at any await | a turn is delivered or was tried six times |

Data conversions (session readers, hook adapters, OTLP mapping, templates of
destination packs, MCP client configuration), read-only views (dashboard, UI)
and the sandbox test harness are listed in `PROJECT.json` as not modelled.

The interactions that matter: the writers serialise among themselves with a
lock that *readers do not take*; the forwarder therefore sees every
intermediate state of a rotation. Its own lock makes it single-instance, so its
peers are the writers, the file system and brainsrv. `sync` is both a writer
(guarded appends) and a way to start the forwarder (`Prime`), and it decides by
measurements of the other two. The forwarder, the proxy and the memory backend
all take their access token from the token source, several processes over one
store. The remaining parts meet the others only at a file or an HTTP request.

## What is modelled

| Module | Role |
|---|---|
| `RuntimeLog` | the files of the log, the lock holder's steps, the retention guard |
| `RetentionReport` | extends `RuntimeLog`: the guard's report, made without the lock beside other writers |
| `Forwarder` | extends `RuntimeLog`: the forwarder process, its two copies of the checkpoints, brainsrv; the composed `Next` interleaves it with the writers |
| `AtLeastOnce` | the abstract promise of the forwarder: sets of events only |
| `Sync` | `afferent sync`: both sweeps, `Room`, `drain`, over a log and a forwarder reduced to what sync sees of them |
| `Credentials` | the stored session, the processes that use it, the issuer |
| `McpProxy` | the messages of one agent, the proxy's session, brainsrv's side of it |
| `MemorySync` | SQLite, `memory_sync`, the commands, brainsrv's entities |
| `SelfUpdate` | the install tree and its copies, two updaters, the services |
| `CloudShuttle` | the sandbox's log, the state file, hooks that upload |
| `DeliveryQueue` | the service worker's queue, alarm and suspension |
| `MC...` | symmetry, scripts and start states for TLC |
| `ForwarderProofs`, `SyncProofs`, `CredentialsProofs`, `McpProxyProofs`, `MemorySyncProofs`, `SelfUpdateProofs`, `CloudShuttleProofs`, `DeliveryQueueProofs` | the theorems about the module each extends, and their lemmas; those about `RuntimeLog`, whose steps are the forwarder's environment, and `RetentionReport` are in `ForwarderProofs` |

### RuntimeLog

A *file* is an inode (`data[f]`), a *name* is a slot (`slot[0]` the live log,
`slot[i]` the archive `.i`). An event's line is two *units*, the second with the
newline. That is the smallest division in which a reader can meet half a line,
and a write cut short can be followed by a line that merges with it.

The writer is whoever holds the flock, whichever process that is; `wpc` is the
step it is at. `BeginAppend(g)` is the part of `appendJSONL` up to the decision
to rotate, with the refusal of a guarded append. `RotateStep` is one file
operation of `rotateIfNeeded`: remove `.N`, rename `.i` to `.i+1` downward, move
the live log to `.1`. `WriteBody` opens or creates the live log and writes the
start of the line, `WriteEnd` ends it and lets the guard record it.
`WriterFails` is an error or a death at any of those points; the kernel then
drops the flock. Rotation is not undone: the next writer starts from what is
there. `guard` is `RetentionGuard.segments`, each with the set of events it
covers as a ghost, so that what is counted and what the files hold can be compared.

Inodes are allocated by the file system (`Free`). With `InodeReuse = FALSE`
every new file has a new inode. With `TRUE` it may have any inode that is
neither linked nor held open.

### RetentionReport

`RetentionGuard.Retained` takes no lock. `StatPath` is one `os.Stat` of its first loop,
whose results stay in `kept`; `CheckPath` is one name for one segment in the second: was the
segment's file found there, and does the name, opened now, lead to the segment's
first line. `WriterBeside` lets every other writer append and rotate between any two of
these steps; the run itself has made its last append when it asks (`BeginReport`).
`moved` is a ghost, the files renamed or deleted since.

### Forwarder

| State | Code |
|---|---|
| `fpc`, `run`, `placing` | where `Run`/`Prime`/`loop` is, and its options |
| `views`, `opening` | `openViews` in progress: one name per step, each size fixed when opened |
| `st`, `disk` | `Forwarder.state` and `checkpoints.json` |
| `batch`, `cuts`, `sent` | the batch, the ends of the parts a 413 left, how far it is committed |
| `pending` | `pendingSince` is set |
| `accepted`, `passed` | what brainsrv took; what is passed over by design (ghosts) |

Actions follow one scan: `StartScan`, `OpenView` per name, `Reconcile`
(`reconcile`, all its cases: new file, first run, replaced file, missing file),
`Persist`, then `ReadLine` and `NextView` while no file is read through and the
batch is not full, then exactly one of `NothingToRead`, `WaitForMore`,
`NothingToSend`, `Deliver`. `deliver` is a loop over `cuts`: `PostOK`, `PostSplit`,
`PostSkip` or `PostFails`, then `Commit` (memory) and `Save` (disk) as separate
steps, because a crash between the two is what the documentation makes a claim
about. `place` is the same scan with `placing` set; it ends in `EndPlace`.

`Start(r)` covers the service, `forward --once`, `Prime`, and `--backfill`; only one
process runs, since it holds the lock of the state directory for its whole life.
`Crash` may happen anywhere. `PostFails` is every answer the loop treats alike,
and may come after brainsrv has taken the lines (a lost 200).

### AtLeastOnce

The specification a user of the forwarder has in mind: an event becomes *done*
only if brainsrv was given it or it is exempt, and a retained event stays done
until a backfill. `Forwarder!Promise` maps `log` to the events in the retained
files, `taken` to `accepted`, `exempt` to `passed` and `done` to the events below
an offset *on disk*. That is a stronger reading than one of memory, since the
disk is what the next process trusts. `asked` is an input: a backfill is asked for
from the start of a process with `--backfill` until its checkpoints are on disk. That
has to be an input and not a step of the specification, because such a process may
fail its first save, go on in memory and confirm what it sent at a later save; the
proof of the refinement found that behaviour, which the instance of the run does not reach.

### Sync

The log is the sequence of everything ever written (`wrote`), the starts of
its files in it (`cuts`) and the bytes of the live one (`live`); the forwarder has got `through` a prefix of it. Both
are what modules `RuntimeLog` and `Forwarder` say in detail, reduced to sizes.

| State | Code |
|---|---|
| `pc`, `round`, `limited` | where `runSync` is |
| `next`, `saved` | the sweep's next event; the cursor file |
| `start`, `began` | where this run of sync begins in the log, and the `RetentionGuard` of this Claude sweep |
| `left` | `codexSweep`'s remaining budget |
| `fwd`, `status`, `primed` | the forwarder's scan, its status file, `Prime` |

`ClaudeEvent` appends unless the rotation would discard the sweep's own output
(`WouldDiscard`); `CodexEvent` appends within `Budget`, which asks `Room` again when it
is used up (`Asks`). The budget is charged `Charged`, the length of the event before the writer
attaches the derived trace to it; what reaches the log is `Sizes`, usually more
(`Extra`). `over` is a ghost, the bytes that were written since the last look at the room and
charged to nobody: those and the hooks'. `ClaudeEnds` and `CodexEnds` save the cursor, which
`Partial` places behind the last line of which every event is written. `Deliver` updates the
status with the lag *behind the sizes of its scan*, as the forwarder does. `NextRound` follows a
drain, of sync's own forwarder or the service's. `Again` is the user's next `sync`, which
nothing keeps from starting over history that is not sent yet (`start` tells the runs apart).

### Credentials

A credential is the number of the token response it came from. `primary` and `file`
are the two stores of `FallbackStore`, `up` whether the Keychain answers, `lock` the
holder of `credentials.lock`. A process's call goes through `LookUnlocked`,
`LookLocked` (the second look under the lock), `Refreshed` / `RefusedGrant` /
`RefreshFails`, and then the writes of a save, each a step that may fail: `SaveToKeychain`,
`DropFile`, or `SaveToFile`, `DropKey`. `Login` obtains a session and saves it with
`Swap` (`SwapLocked`), then revokes the old one; `Logout` deletes both copies
(`DeleteKey`, `DeleteFile`) and then revokes. `KeychainRefuses` is a Keychain that can be read but
refuses a save, which then goes to the file, or a deletion. The issuer rotates: `live` are the refresh
tokens it accepts, and a lost answer loses the successor (`lost`).

### McpProxy

A task is one message. `Start` reads token and scope, `EnsureSession` decides under
`p.mu` whether the session fits or is to be reopened, `ReopenAccepted`, `Announce` and
`ReopenRefused` hold `p.mu` across the requests, `Posted`, `Refused`, `Recover` and
`Invalidate` are the post and what follows a 401, 403 or 404, once. `Adopt` takes up
the session an agent's own initialize opened. `EndOld` is the DELETE that runs beside
them. brainsrv knows the sessions in `bound` and refuses what does not match the token
and scope a session was opened with (`Verdict`). `Rotate`, `Refuse`, `Regrant` and `Restart`
are the environment.

### MemorySync

| State | Code |
|---|---|
| `local`, `approved` | tables `memories` (with `superseded_by`) and `candidates` |
| `row` | table `memory_sync`; `of` is a ghost, what the writer of the state worked from |
| `brain` | brainsrv's entities |
| `proc` | the commands, with what they read and when |

`Approve` and `Supersede` are the commits to SQLite; the sync that follows is the same
as `sync`'s. `OwnEntity` is the remember, or the cached id; `Hop` one step of
`replacementEntity` along the local chain, `Find` its end in brainsrv, `HeadEntity` and
`MarkHead` its end here; `Send` the supersede; `ReadOld` and `ReadNew` what
`supersedeToHead` reads after a 409; `Record` the row. Every request may be lost before
or after it was taken, or refused for good (`RequestFails`). What brainsrv does is
external, taken from what the comments of `brainsrv.go` rely on.

### SelfUpdate

A tree is the set of versions its files are from and whether it is complete, so that
an install or a copy that was cut short is visible. Actions follow `Apply`: `AcquireLock`,
the download, `ClearBackup`, `CopyBackup`, the package scripts around the install, the
restart, the health check, and the four steps of the rollback; each may fail or be
the updater's last. `Reload` is the detached shell that reloads the scheduled job, which ends a
job that is still running.

### CloudShuttle

Hooks are processes. `Copy` is the only step of an upload under the log's lock; `Seek` reads
the state file, `Post` and `PostFails` send a batch, `TruncateState` and `WriteState` are the
two halves of `os.WriteFile`, between which others read nothing usable; two that overlap may
leave a text no one can parse (`mixed`). `SessionStart` takes the size of the log, sends
what the last run left, then `RemoveLog` and `ClearState`; when the post fails, the log is
set aside.

### DeliveryQueue

`chain` is the chain of promises `queueLock`, whose head runs. A flush is `ReadQueue`, a
`Post` per item, `WriteRemaining`, `ScheduleRetry`; a finished turn is `TurnEnds`, `Finalize`
(after the settings are read), `ReadQueue`, `WritePush`. A `Post` that fails may have been taken,
its answer lost (`unheard`, a ghost). `Suspend` loses everything in memory.

## The runs

All but `credentials` and `mcp_proxy` set `CHECK_DEADLOCK FALSE`: the system stops
when the bounded events, faults and commands are used up, which is not an error. Those
two are never stuck: in `mcp_proxy` the only end is a closed proxy.

| Run | Question | Bounds that matter |
|---|---|---|
| `runtime_log` | do rotation and the guard keep order and output under any mix of writers and one failure, and what does a report made meanwhile miss? | 2 archives, 2 lines per file, 8 events: the log is filled more than twice over, so every archive is deleted at least once with and without guard, and rotations fall between any two steps of a report |
| `forwarder` | is any line skipped, any retained file forgotten, any offset inside a line; does it implement `AtLeastOnce`? | 2 archives of one line, so each of 4 events forces a rotation and two fall inside one scan; one fault; one extra start in any mode; a blank, an oversized and a refused line; one line per post and two per batch, so a 413 splits |
| `forwarder_progress` | is every complete line in the end settled or rotated out, and how much does a restart repeat? | 1 archive, 3 lines per file, 5 events, a refused line, two lines per batch and one per post, one fault, which may be a failed save: four lines can be accepted, against a bound of two, or four while a commit follows a failed save; no backfill (which repeats on purpose) |
| `forwarder_inode_reuse` (violation) | is `CheckpointSafe` true when inodes come back? | 1 archive, 3 inodes |
| `sync` | do the rounds of sync keep their history until it is sent, and end? | 1 archive, 5 bytes per file, events of 1 and 2 bytes; 5 Claude events (which need more files than the log has) and 3 Codex events, in each two events of one line; 8 rounds, two hook bytes in all and a Codex event that grows by one when it is written, against a margin of one, so that it is kept and exceeded; one fault; the forwarder caught up or not when a run follows another |
| `sync_service` (violation) | does waiting for the service keep it too? | as `sync`, without hooks or faults |
| `credentials` | is a refresh token ever redeemed twice, a session left behind, a logout undone, an old copy read? | 2 processes, 3 token responses (fewer for an outage), one fault, one outage of the Keychain or operation it refuses |
| `mcp_proxy` | does each message get one answer, and is it taken once; are sessions announced and ended? | an initialize, a notification and two requests that run beside each other; 2 tokens, 2 scopes, one change of the environment, one fault |
| `memory_sync` | does a synced row tell the truth, does following chains end where someone decided, does `sync` finish the job? | 3 memories, one of another machine; 2 commands, one of which may be `sync`; starts with no memory and with a superseded one; one supersede here and one elsewhere, one fault or kill |
| `self_update` | does an update end in the new or the old tree? | 2 updaters, 3 releases of which the second is bad, two failures and one crash |
| `cloud_shuttle` | does the offset pass only what was sent, and does the log lose anything? | 2 hooks, 4 events, 2 runs, two lost posts or answers, one kill; two lines per post; no rotation; no other upload beside a session start, but appends at any of its steps |
| `delivery_queue` | is a turn lost, sent twice, or left behind? | 2 turns, 3 attempts (6 in the code), 4 failed posts, whose lines may have been taken, two suspensions, one failed write |

What the properties say, beyond their comments in the modules:

- `OlderInHigherSlots`, `OnlyLastSlotIsDeleted`: the downward renaming of a
  rotation is right from *every* starting point, gaps left by crashes included.
- `GuardKeepsOwnOutput`: the guard's decision, made from where its files are, agrees
  with the ground truth of which events are in which file.
- `ReportIsExact`: every event the report counts was in the log when its name was opened, and
  what it leaves out is gone or in a file that was renamed during the report.
- `CheckpointSafe`: for memory and disk, every unit below an offset is settled,
  unless the checkpoint would be recognised as stale for that file.
- `RetainedNotForgotten`: opening the live log first and the archives after it
  means a file that moves during the scan moves *toward* the names still to be
  opened.
- `ResendsOneBatch`: of the lines the log holds, those that brainsrv answered for and the
  checkpoints on disk do not pass fit one batch (`docs/afferent/CLI.md`: "A crash between
  the 200 and the checkpoint write re-sends one batch"), and one more for every failed save,
  since memory then runs ahead of the disk and the documentation speaks only of a crash.
  Lines are counted, not events: a write that was cut short merges two events into
  one line. A lost 200 is not counted until the post that repeats it is answered. (In
  `forwarder` a file has one line, so no lines merge there; they do in `forwarder_progress`,
  and the theorems about `CheckpointSafe` and `OnLineBoundary` cover them.)
- `EventuallySettled`: a partial batch waits once, a refused line does not block.
- `RoomIsEnough`, `HistoryKept`: `Room` budgets from the unsent bytes of an earlier scan
  while others write; its reserve for one oversized event per file and its margin make
  up for that, as long as what is written beyond its charges (by the hooks, and by the writer
  for each Codex event's derived trace) keeps to the margin. Both properties say so
  themselves: they speak of steps with `over' =< Margin`. Claude's sweep has a guard and no
  budget: it may push out hook lines that were not sent and what an earlier run wrote, and a
  hook that writes after it may push out its own. `HistoryKept` is therefore about the rounds of
  one run.
- `RedeemedOnce`, `SessionsAccounted`: the second look under the lock is what makes
  one redemption of it; the ghosts name the only excuses, a successor lost to a fault
  or a deletion cut short. A refreshed token whose save fails is such a loss: the properties
  account for it and do not exclude it. Both, and `SignedOutStays`, are promised while the
  Keychain answers and refuses nothing: an outage hides a session from every command.
- `AnnouncedFirst` is about a session that is being opened. One whose announcement was refused
  stays installed and in use, and is outside it.
- `SessionsTracked`: at most one session has to be remembered for a later DELETE
  (`stale`), because a session is invalidated only while it is current. A session that is
  still stale when the proxy closes counts as tracked; one whose id never arrived does not count.
- `SyncedIsTrue`, `EventuallySynced`: three requests and two chains lie between
  a memory and its row; whatever happened on the way the row is right *about what its
  writer read*. `Overtaken` rows are the exception described below, `Stuck` ones those
  for which `sync` reports an error that another run cannot mend; for these nothing is promised.
- `AllOrNothing` speaks of a run that reports no failed rollback, `OldTreeKept` of every
  state: through the two renames of a rollback the old tree is always somewhere. After a crash nobody
  is updating, and the next run may clear the copy the crash left; that is outside it.
- `NothingDropped` follows lines, not files: they leave the log only when sent or set aside,
  or when they were appended after a session start took the size of the log it removes.
- `SentOnce` counts what a turn may be taken beyond once: a lost answer, a suspension, a failed write.
  `DeliveredOrRefused` promises nothing once the worker was suspended, less than the comment
  at delivery.ts:111 ("guarantees eventual delivery").
- `LeavesWhenDone`: a flush writes back the queue it has read; only the chain of
  promises keeps it from writing over what was queued meanwhile.

Why the bounds are enough: the conditions the code branches on ("does the file
still have its name", "is the batch full", "is the session the one I used", "did
another refresh while I waited", "is the replacement superseded") take both values
at every point of the program within these instances, with at least two actors at
any of their steps at once; more events, messages or processes repeat the same
transitions. `MaxFaults` bounds failures of all components together.

### Fairness

- `forwarder_progress`: a writer that holds the lock takes its next step, for it
  has only local file operations left; the service is started again after it ends,
  since launchd or systemd restarts it; the loop takes its next step, since every
  wait in it has a timer. The last means the user is signed in and the scope
  resolved; otherwise the loop waits on purpose. Hooks need not append.
- `sync`: sync goes on, and a forwarder runs for as long as brainsrv takes its posts.
- `mcp_proxy`: every goroutine that can run does, and every HTTP request ends. The
  client has no overall timeout, so this is an assumption about the network.
- `memory_sync`: a command goes on, each request being under a deadline, and the user
  runs `sync` again while it reports unsynced rows (it exits with an error).
- `self_update`: the schedule starts the job again; its commands run under deadlines.
- `delivery_queue`: the worker runs while it has work, and an alarm that is set fires.

Faults are bounded in number, so they stop.

### Findings

1. **Checkpoints and recycled inodes** (`forwarder_inode_reuse`). A checkpoint placed
   at offset 0 has no head. If, between the scan and the commit, the file is
   deleted and its inode recycled (the descriptors are closed before the post),
   the commit moves the offset and the next scan takes the head from the new file.
   It needs a file system that reuses an inode at once, as ext4 does and APFS does not.
2. **drain and an old lag** (`sync_service`). A status written after `drain` began can
   report the lag of a scan made before the sweep's last appends. The next round then
   finds no room problem of its own: Claude's guard protects only what *it* wrote,
   and the unsent rest of the round before is rotated out.

### Limits the models show

These are behaviours of the code met while modelling which contradict no run; the
properties are stated so that they are visible in them.

- *Guard and recycled inodes*: `record` extends its last segment when the written file has
  that segment's inode and is longer, also when it is another file by now. The run has
  `InodeReuse = FALSE`.
- *Report beside a rotation*: a file renamed between the two looks of `Retained` is not counted
  though the log still holds it, so "Written minus Retained is what was rotated out"
  (`endpoint/writer/retention.go`, line 68) can name events that were not. `ReportIsExact` allows just that.
- *Order of reading*: two rotations inside one `openViews` can put a younger file before
  an older one in a batch. Nothing is lost.
- *Memory rows that were overtaken*: commands are not ordered. An approval that ends late
  marks synced the row which a supersede has just left pending, and so does a sync that
  passes the memory as the head of another's chain; a command killed before its first
  write to the row leaves no row or the old one. Plain `sync` looks only at rows that are
  pending or failed, so such a memory stays live in brainsrv until `sync --all`.
- *Replacement out of sight*: a replacement approved elsewhere is found by recall, which
  drops it once it is superseded there. A supersede still pending then reports
  "neither the local store nor brainsrv" for good.
- *Opposite decisions*: two machines that supersede A by B and B by A end with a 409
  that needs the user, as the error says.
- *Read failure after a 409* is reported as the 409, so the row goes to failed, though
  only the network failed. `sync` retries failed rows too.
- *Shuttle offset and rotation*: the offset is applied to whatever file is
  `runtime.jsonl`, if it is long enough. After a rotation it skips the first lines of the
  new log. `cloud_shuttle` keeps `RotateAt` beyond what is written (a sandbox's log is
  short).
- *Shuttle, lines lost to a session start*: `preserveExistingLog` takes the log's size, copies and
  posts it (for up to ten seconds) and removes it, the last without the log's lock
  (`shuttle.go`, lines 575 to 593). A line another hook appends meanwhile is deleted, neither sent
  nor set aside. The run has such appends, and `NothingDropped` excuses those lines and no others.
- *Shuttle, starts beside uploads*: `CalmStarts` excludes another hook's upload beside a session
  start and a kill between the removals of the log and of the state file; both leave an
  offset that belongs to another log, as after a rotation.
- *Sync and an earlier run*: a run that starts before the output of the last one was sent can push it
  out with its Claude sweep, whose guard knows only its own sweep.
- *Credentials without the Keychain*: a logout during an outage, or one whose deletion the Keychain
  refuses, leaves the session there. `FallbackStore.Delete` fails only when there was no file to delete;
  else it warns.
- *Self-update* decides before it takes the lock and does not look again; a second updater may
  install the release the first has just installed.
- *MCP proxy*: `p.mu` is held across requests without a deadline. A second initialize from
  the agent while one is under way leaves a session that only its TTL ends.

### Mutants

Each property has a mutant: a definition named "Mutant:" in the modules, just
before the one it would replace, with a bug the code might plausibly have. With
it in place TLC finds that property violated in its own run.

## The proofs

TLC checks the instances above; the theorems hold for every value of the constants
that satisfies the modules' assumptions, so for any number of files, events, processes,
messages, memories, faults and restarts. Each has the same shape. An invariant that
a run checks is seldom inductive, so the module states a stronger one at its
end, a conjunction of named parts; the `...Proofs` module shows that the initial states satisfy it and that each action preserves it
(a lemma per action or per group of actions with the same effect), and the last
step is temporal. TLC checked every inductive invariant on the instances of the runs
before it was proved.

| Module | Theorem | States | Assumes |
|---|---|---|---|
| `ForwarderProofs` | `LogTypeCorrect`, `OrderCorrect`, `DeletionCorrect` | `LogTypeOK`, `OlderInHigherSlots`, `OnlyLastSlotIsDeleted` | |
| | `ReportCorrect`, `GuardCorrect` | `ReportIsExact`, `GuardKeepsOwnOutput` | `~InodeReuse` |
| | `TypeCorrect`, `DeliveryCorrect`, `BoundaryCorrect` | `TypeOK`, `CheckpointSafe`, `OnLineBoundary` | `~InodeReuse` |
| | `RetainedCorrect` | `RetainedNotForgotten` | `~InodeReuse` |
| | `PromiseKept`, `PromiseRefined` | `Promise!NothingLost`, `KeepsPromise` | `~InodeReuse` |
| | `ResendCorrect` | `ResendsOneBatch` | `~InodeReuse`, `~SaveFails` |
| `SyncProofs` | `TypeCorrect`, `SkippedCorrect` | `TypeOK`, `NothingSkipped` | |
| | `RoomCorrect`, `HistoryCorrect` | `RoomIsEnough`, `HistoryKept` | |
| `CredentialsProofs` | `TypeCorrect`, `SignedOutCorrect`, `AccountedCorrect` | `TypeOK`, `SignedOutStays`, `SessionsAccounted` | |
| | `LatestCorrect` | `NoOlderCopy` | `OneIssuer` |
| | `RedeemedCorrect` | `RedeemedOnce` | `Keychain` |
| `McpProxyProofs` | `TypeCorrect`, `ServedCorrect`, `AnnouncedCorrect` | `TypeOK`, `ServedOnce`, `AnnouncedFirst` | |
| | `TrackedCorrect` | `SessionsTracked` | `OneInit` |
| `MemorySyncProofs` | `TypeCorrect`, `SyncedCorrect`, `DecidedCorrect` | `TypeOK`, `SyncedIsTrue`, `SupersededByDecision` | |
| `SelfUpdateProofs` | `TypeCorrect`, `OutcomeCorrect`, `OldTreeCorrect` | `TypeOK`, `AllOrNothing`, `OldTreeKept` | |
| `DeliveryQueueProofs` | `TypeCorrect`, `LeavesCorrect`, `SentCorrect` | `TypeOK`, `LeavesWhenDone`, `SentOnce` | |
| `CloudShuttleProofs` | `TypeCorrect` | `TypeOK` | |
| | `OffsetCorrect`, `DroppedCorrect` | `OffsetIsSent`, `NothingDropped` | `CalmStarts`, `NeverRotates` |

(`InductiveCorrect` of `ForwarderProofs`, `SyncProofs` and `SelfUpdateProofs` state the invariants
behind the others.)

### What the assumptions mean

- `~InodeReuse`: the file system does not give a new file the inode of a deleted one. It is
  needed: `forwarder_inode_reuse` refutes `CheckpointSafe` without it, and for the
  guard see "Guard and recycled inodes" above. It is used in one place, the creation of a
  file, where it gives that nothing remembered refers to the new inode's old content.
- `~SaveFails`: `checkpoints.json` can be written. The sentence of the documentation that
  `ResendsOneBatch` states is about crashes. With failing saves the property has a
  larger bound, which only TLC checks.
- `Keychain`: the store is the Keychain with the file as its fallback, the store of macOS.
  For the plain file store `RedeemedOnce` is neither run nor proved.
- `OneIssuer`: the processes are configured for one issuer. With two, the file is the
  fallback of both, and what is latest for one says nothing of the other.
- `OneInit`: the agent sends one initialize, before anything else, as the protocol
  asks. A second one while the first is under way leaves a session to its TTL.
- `CalmStarts`, `NeverRotates`: a session start runs beside no other upload (other hooks may
  append) and is not killed between its two removals; a sandbox's log stays below the size that
  rotates it. The limits [above](#limits-the-models-show) say what happens otherwise.

Two conditions are part of the statements instead. The promises of `Credentials` hold while
the Keychain answers and refuses nothing (`Answering`). `RoomIsEnough` and `HistoryKept` hold for steps with
`over' =< Margin`: from one look at the room to the next, and from the start of a round to its first
look, the hooks and the traces the writer adds to Codex events take no more than `roomMargin`, which
`room.go` keeps free for the hooks. Over all rounds they may take any number of bytes. Beyond the
margin an append can delete unsent history. A trace is about a hundred bytes and the
budget may be many megabytes, so a long sweep of small events can get there without any hook.

### The arguments

*Order of the archives.* `OrderInv` adds to `OlderInHigherSlots` that the name a rotation
renames onto next is free (`RotationInv`), that no file has two names (`OneName`), and
that written events are older than the one on offer, except the one under way, which
is in the live log (`WrittenInv`). Each is disturbed by one action: a rename that
overwrote would break `OlderInHigherSlots`, an event written again would break `WrittenInv`.

*The guard.* `SegmentsInv` ties each segment to the events it covers and to the file it names,
`OneFileInv` says that an event is in one file, `RefusalInv` that a guarded
rotation that has begun does not delete a file with a segment, however long ago it was decided.
`Retained` is defined from the files, not from the guard. For the report `FoundInv` says that a
guarded file which has not moved since the report began is under the name where the report
found it, or where it has still to look.

*Delivery.* `CheckpointSafe` relates an offset to what is settled, but between a read and a
commit that relation hangs on the batch. `BatchInv` says that what an entry's offset
passes is settled or carried by the batch up to that entry. `SentInv` says that
the parts already committed are settled, and that the part under commit is settled
as far as it carries lines. Together they give that `Commit` moves an offset only
past settled units, even when a 413 has cut the batch inside a file. `ViewsInv` and
`FilesInv` make the sizes and inodes a scan remembers meaningful after the writers have
moved on. `Covered` is the predicate common to checkpoints and entries.

*A scan that races a rotation.* `SightInv`: every file of the log that has a checkpoint is
among the files this scan opened or at the slot it opens next or a larger one. Rotation
moves files only to larger slots (`LogMoves`, shown for every writer's step), so the
statement survives any number of them; at the end of the scan no slot is left and the
file is among the views. `Kept` adds that a checkpoint's head is still its file's, so no
retained file is taken for a replaced one.

*The refinement.* With `Sighted` (all of the above) and `AheadInv` (only a backfill's
checkpoints are behind those on disk) every step maps to one of `AtLeastOnce`: the write
of a line to `Append`, a rotation's deletion to `Discard`, a post that was taken to
`Take`, a reconcile and a commit to `Exempt`, a save to `Confirm` or `Backfill`, the rest
to a stutter.

*What a crash repeats.* `Frugal` adds four parts. `LinesRead`: the batch holds whole lines,
and every line between a checkpoint and the end of its last entry of the file, so that
entries and lines can be counted against each other. `BatchBound`: it has `MaxLines` data
lines at most, and memory passes what is committed. `FirstRunSaved`: brainsrv gets no line
before the checkpoints of a first run are on disk; otherwise a process that died would be
followed by one that takes itself for the first, and starts past them. `BehindInv`: disk and
memory pass the same, except between `Commit` and `Save`, where they differ by lines of the
part; here no save has failed (`unsaved = 0`). `RepeatsOneBatch` then maps what would be repeated one to one into the part's data lines.

*Sync.* `Capacity` is the number of bytes that can still be written, however they are cut
into events, before the oldest file with undelivered data is deleted; `Room` is that without the
margin. Three lemmas carry the proof: an append takes no more of it than its own bytes, a
rotation with its unused tail included (`AppendCapacity`); checkpoints that move on never
take any (`DeliverCapacity`); and an append loses undelivered data only when it is larger than
what there is (`AppendLoss`). So what `Room` measured once still holds less the bytes
written since, whatever the forwarder does (`RoomInv`): what sync is charged
is taken off `left`, what is written beyond that off the margin, until the next look. For `HistoryKept` that has
to go on after the sweep, until its events are sent, and `RoundInv` says that where sync forwards
itself a round begins with nothing unsent of what this run wrote. `SweptInv` says that what a cursor may come to pass is in the log.

*Credentials.* `HolderKnows`: until the Keychain is first unavailable there is one copy, and
the holder of the lock knows what it replaces or deletes. `SignedOutInv` says who may
still be about to write. `RedeemedOnce` needs more: `FreshInv` (a session just obtained is
in one hand), `OldInv` (the one to be revoked is stored nowhere), `LiveInv` (the one stored is
accepted, or its successor was lost or is about to be stored), `FamilyInv`. `LatestInv`
holds through outages as well, since it compares the copies instead of naming one.

*Proxy.* `TakenInv` counts a message as taken only from where no path leads to another post,
`NamedInv` says that there is a current session while one is announced, and the type
that `p.mu` is held by that task; `InitInv` that a stale session exists only while there is no current one.

*Memories.* A row that says synced is written from what several requests answered; `CallInv`
says what each `pc` has established (the entity is there, the memory at `at` is reached
by decisions from the one being replaced), `LocalInv` that the local chain consists of decisions.
`Leads` is a closure defined by quantifying over sets, so that it can be proved about.

*Update.* `Places` says, for each `pc` of the lock's holder, which of the three directories
holds the tree it started from; `Flags` what it may report.

*Delivery queue.* `StoredInv`: what is stored is what the flush still has to post or keeps for
a retry, or done. It rests on the chain of promises: nobody but the running task changes the
stored queue. `SentInv` charges each repetition to a lost answer, a suspension or a failed write.

*Shuttle.* `CopyInv` says what a hook's copy and its offset have to do with the log while it
uploads; `StateInv` that the stored offset passes only what was sent, except between the
removal of the log and of the state. What a session start is about to remove was sent up to the
size it took.

Lemmas that several of these need are stated once: about `Max` (`MaxBounded`),
`LastLineEnd`, heads of sequences (`HeadKept`), what appends preserve (`CoveredGrows`),
where a line begins and that it stays (`LineFrom`, `LineKept`).

### Only model-checked

- Liveness: `EventuallySettled`, `EveryAnswered`, `EventuallySynced`, `DeliveredOrRefused` and the
  others. It rests on fairness and `ENABLED`, which the prover does not reach.
- `ResendsOneBatch` when saves fail: in `forwarder_progress`, with one failed save.
- The two runs that expect a violation: a counterexample is an instance.

No module uses RECURSIVE operators.

## What is left out

Of the modelled components:

- The content of lines: sanitising, truncation and the suppression of duplicate
  events happen before an append; an event here is one that passed them.
- Bytes, except in `Sync`: lines are counted. `MaxLines` stands for both batch limits,
  `HeadMax` counts units, and `Oversized` and `TooLarge` are sets of events.
- I/O errors while reading the log: they end the scan, and the next one starts
  over. One in the middle of `reconcile` also leaves the checkpoints of the files
  before it updated in memory, which the next scan would have done as well; that
  intermediate state is not modelled.
- The checkpoints of other logs (`OtherLogs`), and the forwarder's status file except
  for the lag that `Sync` reads.
- Where the next wait comes from (backoff, `Retry-After`, pauses): it only decides
  when a loop goes on. `WaitForMore` waits once instead of until a time.
- The 401 retry inside one post of the forwarder: both outcomes of it are outcomes of a post.
- The guard's fallback for a file that cannot be identified (`file == nil`).
- `Sync`: `--since`, several sessions of a harness (swept one after the other), a rotation
  in the middle of `Room`.
- `Credentials`: discovery, the checks of a file's owner and mode, two issuers in one store.
- `McpProxy`: batches, the negotiated protocol version, answers cut short.
- `MemorySync`: the read of a candidate's state before an approval writes (`Approve` is one
  step); scopes, the content of memories, the search and its merge of unsynced
  memories, failures of SQLite, `maxSupersedeHops`.
- `SelfUpdate`: the modes off and check-only, dev builds, the choice of the artifact.
- `CloudShuttle`: the bucket targets, which upload the whole log each time.
- `DeliveryQueue`: the assembly of a turn, the delay of the backoff, the endpoint an item keeps.
- Windows: there the lock and file identities come from other calls, with the same
  contract.

Components not modelled, with reasons in `PROJECT.json`: the conversions (session
readers, hook adapters, OTLP and event mapping, destination packs, MCP client
configuration) are functions of one input without state; the dashboard, the afferent UI and the
MCP server read what others wrote; the endpoint's lifecycle is a sequence of commands run by one
administrator; the sandbox is a test harness; the hooks' `state.json` is one file that is
read, changed and renamed over, where the last writer wins. They are most of the
repository's lines, and there is little in them for a model checker to find.

## Plan

Theorems to come, in order of value: `ResendsOneBatch` with failing saves (its bound grows
with `unsaved`, so `BehindInv` has to count batches instead of saying that there is one);
`SessionsTracked` for an agent that initializes again once the
first session has ended; `OffsetIsSent` with a rotation that no upload is beside.

Models to come: `StateDir` (`checkpoints.json` with `OtherLogs`, `--backfill`), the hooks'
`state.json`, the scope resolver and the polling of the device login, and the lifecycle of an
endpoint (install, repair, uninstall, each of which may be cut short).

Bounds to widen where time allows: two faults in `forwarder`, two supersedes and two syncs at
once in `memory_sync`, two issuers in `credentials`.
