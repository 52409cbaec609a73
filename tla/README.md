# Verification of singleton

singleton is a broker: a foreground coding agent starts durable background
sessions through MCP tools, and the broker keeps them in SQLite, drives an agent
backend (GitHub Copilot), collects permission and input requests in an inbox and
survives restarts. This directory holds TLA+ models of it, the TLC runs that
check them on small instances, and TLAPS proofs for every instance.

## 1. Inventory

Paths are under `src/crates`.

| Component | State it keeps | Operations | Talks to |
|---|---|---|---|
| Domain model (`singleton-core`) | none: statuses, ids, traits `AgentBackend`, `HostConnector`, `RemoteBrokerRegistry` | – | everybody |
| Store (`singleton-store`) | tables of workspaces, sessions, turns, requests, events, remote links, forwarded operations; one connection behind one mutex | one SQL statement (or one short transaction) per call; no transaction spans two calls | everybody calls it |
| Turn lifecycle (`singleton-broker`) | in memory: one tokio task per running turn, the handlers in progress | `create_session`, `send_message`, `cancel_turn`, `close_resource`, `finalize_backend_turn`, `fail_backend_turn`, `reconcile_backend_state` | store, backend |
| Request broker (`singleton-copilot`, `StoreRequestBroker`) | one polling handler per open request | `create_request`, `wait_for_resolution` (250 ms poll, a deadline) | store; the foreground only through the store |
| Event log and reads | `events`, ordered by `server_seq` | `append_event`, `read_events` (cursor, limit, type filter), `read_recent_events_for_resource` | broker, backends |
| Inbox | `turns.unread`, pending requests | `get_inbox`, `ack_inbox`, `resolve_request` | store |
| Latest output | none | `get_latest_output` over recent events | store |
| Workspaces and host (`singleton-host`) | workspace rows, git worktrees on disk | `ensure_workspace`, `close_resource` on a workspace | git |
| Remote federation (broker) | links from local to remote ids with an event cursor, forwarded operations | `create_remote_session`, `send_remote_message`, `close_remote_resource`, `sync_remote_session_events`, `mirror_remote_event` | a remote broker over ssh |
| SSH registry (`singleton-remote`) | cached health per host | `call_tool`, `warmup_all` | ssh |
| Copilot adapter | SDK sessions | `send_message` (subscribe, send, read until a terminal event), `resume_session`, `cancel_turn` | Copilot CLI |
| Fake backend (`singleton-test-support`) | queue of behaviours | the same trait | tests |
| MCP facade (`singleton-mcp`) | none | one call-through per tool | broker |
| Daemon (`singleton-cli`) | socket, pid, lock and log files | `ensure_daemon_running`, `stop`, `run_backend`, `run_daemon_server` | processes |
| Update, config, plugin | files | sequential programs | – |

What is hard in it:

* **No transaction across store calls.** Every handler is a sequence of single
  writes: row, event, row. Another handler, the turn's task, or a crash can come
  between any two.
* **Awaits between read and write.** `cancel_turn` sweeps the requests, awaits
  the backend, then stores the turn; `create_session` awaits between the row and
  its backend id.
* **Many last writers of one status.** The session's status is written by
  `send_message`, the task, `cancel_turn`, `close_resource` and recovery, with no
  version check; the turn's by four of these.
* **Restart.** Start-up recovery works from two lists read at the beginning, in
  several steps per turn, and may itself be interrupted.
* **Deadlines.** A request can be decided by the foreground, by the clean-up of
  its turn, or by its handler's deadline, while the backend waits.
* **Two brokers.** Forwarded operations are retried and remote events mirrored
  by cursor over a connection that may fail after the work was done.
* **Two daemons.** Start and stop race over the same files.

Correctness, per component: *turn lifecycle* – a turn settles once, stays
settled, is reported in the inbox and in the log, and no crash leaves one
running for ever; *requests* – one decision, final, and the backend hears that
one; *event log* – a reader that follows the cursor misses nothing and sees
nothing twice; *workspaces* – nothing in use is deleted; *remote* – each
forwarded operation happens once, each remote event is mirrored once, in order;
*daemon* – at most one daemon per state directory, and its files are its own.

`PROJECT.json` lists the hazards at their lines.

## 2. Plan

In the order of what matters most to a user, and so the order in which it was
done. Everything on the list is done; section 7 says what was left off it.

| | Modules | Question | Proofs |
|---|---|---|---|
| 1 | `RequestContract`, `TurnLifecycle`, `MCTurnLifecycle` | does every turn settle, once, and every request get one answer | `TurnLifecycleProofs` |
| 2 | `EventLog`, `EventReads`, `MCEventReads` | does a reader miss or repeat anything | `EventLogProofs` |
| 3 | `WorkspaceLifecycle` | do rows and worktrees agree | `WorkspaceProofs` |
| 4 | `RemoteFederation`; `RemoteResources`, `MCRemoteResources`; `RemoteRequests`, `MCRemoteRequests` | does the home store reflect the remote broker | `RemoteFederationProofs`, `RemoteResourcesProofs`, `EventLogProofs` |
| 5 | `DaemonLifecycle` | is there one daemon, and can it be found and stopped | `DaemonProofs` |
| 6 | `BackendContract`, `CopilotStream` | does the adapter give the broker the verdict it relies on | `CopilotStreamProofs` |
| 7 | `Configuration`, `RemoteHosts`, `MCRemoteHosts` | what a process is configured with, and what it knows of its hosts | `RemoteHostsProofs` |
| 8 | `LatestOutput` | is the compact result of a turn the right one | `EventLogProofs` |

Two abstract specifications are implemented, each shown by an
`INSTANCE ... WITH`, by a run and by a proof: `TurnLifecycle` implements
`RequestContract` (`KeepsRequestContract`), `CopilotStream` implements
`BackendContract` (`KeepsBackendContract`). `EventLog` is shared by every module
that reads events: `EventReads`, `RemoteFederation`, `RemoteRequests` and
`LatestOutput`; `Configuration` gives `RemoteHosts` its initial states.

## 3. Modules

### RequestContract

What the system promises of one request: `Raise` it once, `Decide` it once (a
set of them in one step, because a turn's clean-up takes them together),
`Answer` the backend with that decision at most once.

### TurnLifecycle

The grain is **one action per store call or backend answer**, which is exactly
where the code can be interrupted: the store's mutex makes each call atomic and
nothing makes two calls atomic.

| Actor in the model | Code | Actions |
|---|---|---|
| `call[c]` | `create_session` | `CreateInsert` … `CreateFinish` |
| `taskPc[t]` | `send_message`, then `spawn_backend_turn`, `finalize_backend_turn`, `fail_backend_turn` | `SendInsert` … `SendSpawn`, `BackendReturns`, `IngestRequest`, `IngestEvent`, `RecordOutcome`, `StoreOutcome`, `ReleaseSession` |
| `askPc[r]` | `StoreRequestBroker::create_request`, `wait_for_resolution` | `AskLocate` … `AskExpire` |
| `call[c]` | `cancel_turn` | `CancelBegin` … `CancelRelease` |
| `call[c]` | `close_resource` on a session, `resolve_request`, `ack_inbox` | `CloseSession`, `ResolveRequest`, `AckInbox` and their `…Record` |
| `rec` | `reconcile_backend_state` and what it calls | `Restart`, `Recover…`, `Serve` |
| – | the process dies | `Crash`; `RecoverAbort` when `reattach_turn` fails, which ends start-up |

State kept by the store: `sessionStatus`, `bound` (the session has a backend
id), `turnStatus`, `turnSession`, `unread`, `decision` (a request's status and
resolution in one value), `requestTurn`, `log`. State lost in a crash: all the
threads. `log` is the set of `<<resource, event type>>` pairs appended so far:
no step of the code reads it back to decide anything, and the properties ask
only whether an event is there.

What the model keeps because the code does it: `send_message` ignores the
session's status; `cancel_turn` accepts any turn that exists, in any status and
of any session; a request is given to the *newest* active turn of its session;
closing does not touch turns; recovery works from lists read at its start; the
deadline of a request is a separate read and write.

What it leaves out: titles, labels, messages and payloads; events a backend
streams while a turn runs; sessions with a remote link (`RemoteFederation`);
workspaces (`WorkspaceLifecycle`); failures of SQLite; `get_inbox` and other pure
reads.

The backend is external. Its constants say what it can do: `SupportsResume`,
`SupportsTurnReattach`, `HandlesRequests`, and `Outcomes`, what `send_message`
may end with. Copilot: resume, no reattach, its own request handlers, and
outcomes `completed`, `failed`, `cancelled` or an error. The fake backend parks
turns (`needs_input`, `running`), returns requests with them and reattaches.

### MCTurnLifecycle

Instances for TLC. `View` forgets the log entries no checked property reads,
which is sound because no action reads the log; symmetry is over requests and
callers, used in the run that has no liveness property.

### EventLog, EventReads

`EventLog` is the query of `Store::read_events` as operators over a sequence:
an event's `server_seq` is its position, the page is the first `limit` matching
events after the cursor, and the type filter comes *after* the page. `EventReads`
is `Broker::read_events` over it: `AppendEvent` stands for every caller of
`append_event`, restricted to the resources, parents and types that the code
appends for one session; each reader takes a first cursor (`StartReading`),
calls (`CallReadEvents`) and polls until it answers with events
(`AnswerEvents`) or, its wait over, with none (`AnswerNone`). `start` and `got`
are history: where a reader began and all it was given.

Left out: a read without target (every event matches), the wait's length (it
may end at any poll that found nothing), and the mirroring a session-targeted
read does first when the session is remote, which is `RemoteFederation`.
`MCEventReads` says who reads what.

### RemoteFederation

One session that the home broker runs on a remote one. `rlog`, `work` and
`ended` are the remote broker: its log, the operation each of its turns was sent
for, and the turns whose backend has returned. The home store is `turn`,
`session`, `link`, `cursor`, `op`, and of the home log what was mirrored, and
what more than once. `call[c]` is a home call between two store calls:

| Code | Actions |
|---|---|
| `send_remote_message` | `SendBegin`, `SendRecord`, `SendInsert`, `SendAnnounce`, `SendForwarded` or `SendFails`, then `SendLink`, `SendCursor`, `SendApplied`, or `SendDegradeTurn`, `SendDegradeSession` |
| `sync_remote_session_events`, `mirror_remote_event` | `ReadBegin`, `ReadAnswered` or `ReadFails`, per event `MirrorEvent`, `MirrorTurn`, `MirrorSession`, at the end `ReadCursor` |
| `cancel_turn` of a linked turn, in whatever status | `CancelBegin`, `CancelForwarded` or `CancelFails`, `CancelTurn`, `CancelSession` |
| the home process dies and starts again | `CrashAndRestart` |
| the remote broker and its backend | `RemoteSend`, `RemoteCancel` (inside the forwarding actions), `RemoteDelta`, `RemoteEnds` |

A lost call (`Lose`) may have been carried out by the remote broker or not.
The remote broker itself does not crash here: what it does then is
`TurnLifecycle`. The operation id it receives has no effect, because a local
`send_message` never looks at it.

### RemoteResources

The rows of remote workspaces and sessions, in one home store and one remote
broker. `rws` and `rse` are the remote broker's, `ws`, `se` the home rows,
`wlink`, `slink` their links, `op` the forwarded operations. `wsApart` and
`seApart` are history: the rows whose close may pass the remote broker by,
because a close named the workspace by its `resource_uri`, because it found the
row before its link, or because a crash cut the row off from its link.

| Code | Actions |
|---|---|
| `ensure_remote_workspace` | `EnsureBegin`, `RecordPending`, `EnsureForwarded`, `EnsureInsert`, `EnsureLink`, `RecordApplied` |
| `create_remote_session` | `CreateBegin`, `RecordPending`, the workspace's steps if it describes one, `CreateLookup`, `CreateForwarded`, `DetailForwarded`, `CreateInsert`, `CreateStatus`, `CreateLink`, `RecordApplied` |
| `close_resource` | `CloseSessionBegin`, `CloseWorkspaceBegin`; `CloseForwarded` for what has a link, `CleanUp` for a workspace taken for local, which succeeds or fails; `StoreClosed` |
| `call_remote` fails, before or after the remote work | `Fails` |
| the home process dies and starts again | `CrashAndRestart` |

One thing is asked of the foreground: it has one call per operation id at a time
(a retry follows an answer or an error). It may close any row, a row that
another call is about to link too, and name a workspace either way.

### RemoteRequests

Requests of a remote session on their way to the home inbox, and decisions on
their way back. `rlog` and `req` are the remote broker's events about requests
and their rows; `homeRow`, `link` and `remoteCursor` are the home store's. A read is
`ReadBegin`, `ReadAnswered` or `ReadFails`, then per event `MirrorRequest` and
`MirrorLink`, at the end `ReadCursor`; a decision is `ResolveBegin`,
`ResolveForwarded` or `ResolveFails`, `ResolveStore`. The remote agent raises
(`RemoteAsks`) and stops waiting (`RemoteExpires`). `Parent` says of each request
whether it was raised under a turn, which decides at what depth its event is
logged. `unlinked` is history: the rows that a decision found without a link,
and so took for local. Turns and their links are `RemoteFederation`'s. The initial states, steps
and variables of this module and of `LatestOutput` have names of their own
(`RequestSpec`, `OutputSpec`), since one module of proofs extends both and
`EventReads`.

### WorkspaceLifecycle

Local workspaces. On disk, `tree[p]` says which workspace's worktree is at a
path, and `dirty` where git would lose changes; rows are `status`, `kind`,
`path`; sessions keep only what the delete guard tells apart, their life being
`TurnLifecycle`.

| Code | Actions |
|---|---|
| `ensure_workspace` (broker, then host) | `EnsureWorktree` (git worktree add) or `EnsureLocalPath`, then `EnsureInsert` |
| `create_session` in a workspace | `CreateInWorkspace`, `CreateInsert`, then `SessionBound` or `CreationFails` |
| turns and closing of sessions | `SendMessage`, `TurnWorks`, `TurnEnds`, `CloseSession` |
| `close_resource` on a workspace | `Archive` (dispose does the same); `DeleteBegin`, `DeleteCheck`, `DeleteLook`, `DeleteRemove`, `DeleteStore` |
| the process dies and starts again | `CrashAndRestart` |

git is external: adding a worktree fails when the path is taken, removing one
fails when there is none, or when it has changes and no `--force`.

### DaemonLifecycle

One state directory: a socket, a pid file, and a lock file's flock. A client is
`ensure_daemon_running` call by call (`ClientBegin`, `ClientLocks`, `Recheck`,
`Spawn`, `SeeSocket`, `SeePid`), a daemon `serve --daemon` from its first access
to the store to its listening socket (`Recover`, `DaemonLocks`, `CheckSocket`,
`RemoveStaleSocket`, `Bind`, `TruncatePid`, `WritePid`), a stop `singleton stop`
(`StopSeesSocket`, `StopSeesPid`, `StopAwaits`, `StopRemovesPid`,
`StopRemovesSocket`). A spawned daemon takes no flock of its own if the client
that spawned it holds one: `keeper` records which. Any process may die between
two calls (`DaemonDies`, `GiveUp`); the kernel then drops its flock and listener
and leaves its files, and `Past` daemons left theirs before. `orphans` is
history: daemons that lost their client while they started.

### BackendContract, CopilotStream

`BackendContract` is what `spawn_backend_turn` relies on: a message comes to one
end in the agent, and `send_message` returns once, with that end or with
nothing to rely on. `CopilotStream` is the adapter: `Attach`, then each send
subscribes, sends, and reads the session's events until `TerminalStatus` finds
an end, the stream closes, or an hour passes without an event. The SDK's broadcast ring drops a
slow reader's oldest events and says so (`Lagged`). The agent is external: one
message at a time, one last event for each, `session.idle` when nothing is left.
Only `MaxEvents` events are numbered, but the agent may go on past them for ever
(`AgentWorksOn`), which keeps its sends reading (`ReceiveMore`).
The assumption is `Capacity >= 2`, the last event of a turn and the
`session.idle` behind it (the SDK's ring is larger). `mixed` is history: sends
that overlapped another or began before the agent was quiet.

### Configuration, RemoteHosts

`Configuration` is a function, `Load`, from what a process finds (files,
variables, flags) to its settings or an error, with the operators for the flags
that a process gives to the daemon it spawns (`DaemonOptions`) and the server it
registers (`RegisteredOptions`). Paths are sequences of parts, so that tilde
expansion is modelled by what it does; settings that are merged alike and never
inspected are one field. Left out are the paths of a host's repositories, and
with them the error of one under `HOME` when there is none
(`RepoPatch::resolve`); a host's `target` is opaque.

`RemoteHosts` starts from a configuration (`Start`), and then runs the registry's
calls: `CallTool` or `WarmupNext`, `StoreConnecting`, then ssh is spawned,
initialized, called and waited for (`Initialized`, `Answered`, `Fails`,
`SshExits`), `Report` to the cache, `StoreOutcome` to the store, which may fail.
Calls to one host may overlap. A process restart loses the cache and keeps the
stored rows.

### LatestOutput

`get_latest_output` in three steps, `Ask`, `Select` (one row) and `Extract` (one
query of events), between the writers of that row and those events: `Send`,
`Stream`, `RecordOutcome` then `StoreOutcome` of the backend's task,
`StoreCancelled` then `RecordCancelled` of `cancel_turn`. Of a payload one bit is
kept: whether the code finds a non-blank text in it. `Results` is
`extract_latest_result`: the newest text of the first source that has one, in
the window of the newest `Window` events (500 in the code).

## 4. Runs

| Run | Instance | Checks |
|---|---|---|
| `turn_copilot` | Copilot's outcomes, 1 session, 2 turns, 2 callers, 1 crash, no requests | `TypeOK`, `NoOrphanTurn`, `CompletedTurnHasHistory`, `RunningSessionHasTask`, `SettledStaysSettled`, `InboxDelivery` |
| `turn_reattach` | request handlers, parked turns, resume and reattach, 1 turn, 1 request, 1 caller, 1 crash, fairness | `KeepsRequestContract`, `RecoveryEnds`, `TurnSettles`, `AskerIsAnswered` |
| `event_pages` | 2 readers (the session; the end of its turn), 3 events, pages of 2, fairness | `GapFree`, `DeliveredInOrder`, `UnfilteredReaderIsServed` |
| `worktrees` | 2 workspaces that may share a path, a directory of the user's, 1 session, 2 callers, 1 crash, fairness | `WorkspaceHasTree`, `DeletedTreeIsGone`, `ForcedDeleteConverges` |
| `delete_under_session` | 1 caller, 1 session, no crash | violated: `NoRemovalUnderActiveSession` |
| `federation_patient` | 2 operations, 2 turns, 1 caller, pages of 2, 1 crash, 1 lost reply, 1 cancel, fairness | `HomeReflectsRemote`, `MirroredOnce`, `HomeTurnSettles` |
| `remote_openings` | 2 callers, 2 operations, 1 remote workspace, 2 remote sessions, 1 crash, 1 lost reply | `RetryYieldsOneSession`, `ClosedAtBothEnds` |
| `requests_mirrored` | 2 callers, 2 requests, one of them raised under a turn, 3 home rows, pages of 1, 1 crash, 1 lost reply, fairness | `DecidedThere`, `RequestReachesInbox` |
| `daemons` | 2 clients, one of which may give up, 3 daemons, one with files from the past, 1 stop, fairness | `BindingIsExclusive`, `ServingDaemonIsReachable`, `SpawnedRecoveryIsAlone`, `StopLeavesNothing`, `StartEnds` |
| `copilot_stream` | 2 sends, a ring of 2 events, fairness | `NoSilentGap`, `KeepsBackendContract`, `SendEnds` |
| `ssh_hosts` | some 14,000 configurations as initial states; 2 hosts, the warm-up and 1 other caller, 1 restart, fairness | `SettingsAreLayered`, `ProjectKeepsToPlainHosts`, `ServersAgree`, `CheckingIsACall`, `StatusAgrees`, `EveryHostIsChecked` |
| `latest_output` | 2 turns, 1 reader, a window of 2, 3 streamed events, 1 cancel | `OutputIsFresh`, `FinishedOutputIsFinal` |

Only the core's type invariant is in a run of its own right; those of the other
modules are parts of the inductive invariants of section 6, and so proved for
every instance.

### Why the bounds are enough

Turns of different sessions meet only in `cancel_turn` with a foreign turn id and
in recovery's loop over sessions; the interesting overlaps are two turns of one
session, a turn and a cancel, and two foreground calls, and all of them fit in
`turn_copilot`. One crash reaches every state that recovery can start from, since
a crash is enabled in every state, recovery's own included. Readers do not affect
each other, so two kinds of reader suffice, and three events are one more than a
page. In `federation_patient` a log of five to eight events needs several pages
of two; a retry, a cancel and a crash meet in one behaviour, and each turn can
end in either of two ways; `MaxLog` bounds only the deltas, never a turn's end.
`remote_openings` has one remote session more than the operation that is retried
needs, so that a second one can appear, and a second caller to close what the
first opens, before or after it is linked. In `requests_mirrored` one caller can
decide a row that the other has yet to link, and three home rows let a request
be inserted again after a crash or beside an overlapping read. Two clients queue for the flock
while a third daemon is run by hand. A ring of two is the smallest that the
adapter works with, so that everything that can be lost is. `latest_output` has
one event more than its window. The proofs of section 6 remove the bounds
for most of the safety properties.

### What is assumed of the foreground

Some properties hold only of a foreground that keeps to what is said here. The
code enforces none of it, and without it they fail.

* `federation_patient`: one call on the session at a time (`OneCaller`), and the
  next send when no turn is active (`Patient`). With two calls a send may move
  the cursor past, or a read may mirror, the end of a turn whose link is not
  stored yet, and two reads mirror the same page. An impatient send moves the
  cursor past the earlier turn's verdict. `MirroredOnce` also excludes crashes:
  one between the page and the cursor repeats the page. The theorems ask less of
  it: only that sends and reads do not overlap (section 6).
* `remote_openings`: one call per operation id at a time. `RetryYieldsOneSession`
  excludes crashes. `ClosedAtBothEnds` leaves out the rows in `wsApart` and
  `seApart`, which the run does produce.
* `requests_mirrored`: nothing. `DecidedThere` leaves out the rows that a decision
  found without a link (`unlinked`), which the run does produce, and does not say
  that the decision is the same at both ends, which after an expiry or another
  decision it is not. `RequestReachesInbox` leaves out requests raised under a
  turn, which never arrive.
* `daemons`: nobody starts while somebody stops (`StopsApart`), and the
  properties are claimed until a client abandons a daemon that is starting
  (`orphans = {}`).
* `copilot_stream`: what a send promises it promises if it overlaps no other and
  begins when the agent is quiet (`mixed`). `SendEnds` is about sends that the
  SDK accepted (its `send` has no time-out), and excuses those whose agent works
  on for ever: the hour (CP:403) starts again with each event.
* `ssh_hosts`: `StatusAgrees` is claimed after calls that overlapped no other.

Each property of a passing run is paired in `PROJECT.json` with a mutated
definition that breaks it. It is kept beside the original, marked "Mutant".

### The violated run

**A worktree is deleted under its session.** The count of active sessions is read
before git is awaited. Without any second foreground call, a session closed while
the backend still creates it is counted as inactive and then bound; with a second
call, a session may be created in between. The property is also broken by strictly
sequential calls, in a longer behaviour: a delete of a workspace that is deleted
already, after its path was used for a new worktree, counts the sessions of the
old id and removes the new directory.

### Observed, and not in a run

Where the models part from a document or from what a reader may expect. `B` is
`src/crates/singleton-broker/src/lib.rs`, `CP` is
`src/crates/singleton-copilot/src/lib.rs`.

* A request stored while `cancel_turn` awaits the backend outlives its cancelled
  turn (B:615; spec/tests.md:425). It is answered at its own deadline.
* A session that cannot be resumed is marked degraded and then set idle by the
  clean-up of its own active turn (spec/spec.md:319).
* The failed status of an interrupted turn is stored before the sweep and the
  event: a crash between them hides the turn from the next start-up
  (spec/spec.md:415).
* A page is cut before the type filter is applied and an empty answer returns the
  request's cursor: a filtered reader behind a full page of other events starves
  (spec/tests.md:325).
* A send to a remote session skips the verdict of an earlier turn that no read
  has mirrored (spec/user_flows.md:453); the retry of one whose reply was lost
  does the work twice (spec/tests.md:214).
* `turn.completed` is logged before the turn's status is stored (B:1911): who reads
  it and asks for the latest output may be told of an older turn
  (spec/user_flows.md:300, 313).
* A close that names a remote workspace by its `resource_uri` stays local (B:651,
  685; docs/remote-host-fast-follow.md:54–55).
* After a crash between the row of a remote workspace and its link, a delete of it
  works on the home host (B:976; docs/remote-host-fast-follow.md:30).
* A request raised under a remote turn never reaches the home inbox (CP:152,
  B:1386, 1463); one whose parent is the session is mirrored with the session's
  local id as its turn (B:1461–1487).
* A remote request that expired is shown as pending, and a late decision is shown
  as taken, although the remote broker is canonical (B:494, CP:173;
  docs/remote-host-fast-follow.md:30); one resolved between its row and its link,
  or after a crash in between, is decided here only (B:1489).
* A send whose agent never pauses, or whose SDK call never answers, does not
  return (CP:390, 403).
* A project's `target` that begins with `-` reaches ssh as an option
  (`singleton-remote/src/lib.rs:212`); the models keep `target` opaque.
* A client that reaches its ten seconds, or is killed, drops the flock that its
  daemon relies on: two daemons may bind (spec/spec.md:42). A stop that races a
  start removes the files of the new daemon. `serve --daemon` by hand recovers
  the store, and so fails running turns, before it looks for another daemon.
* With overlapping sends, or the `session.idle` left over from the last turn, the
  adapter ends the wrong turn.
* Of two overlapping SSH calls the older row may be the one that stays stored.
* `cancel_turn` accepts a turn of another session (B:541). A cancel that comes late
  turns a completed turn into a cancelled one. A turn that ends after its session
  was archived makes the session idle again. `fail_backend_turn` leaves the turn's
  requests in the inbox (B:1946).

## 5. Fairness

`FairSpec` of `TurnLifecycle` asks of each thread that it goes on (weak fairness of
the thread's actions taken together): tokio runs ready tasks; the backend ends its
turns (Copilot's stream errors, closes, or times out when silent; that its agent
does not work on for ever is an assumption); a request
handler polls and has a deadline; recovery is one sequential function. There is no
fairness on client calls, crashes or restarts. `TurnSettles` therefore excuses
turns whose process goes down and turns the backend parked.

| Module | What must go on | Why |
|---|---|---|
| `EventReads` | an agent that began to read calls again; a call polls until it answers | a 25 ms loop; nobody has to append |
| `RemoteFederation` | a started call goes on to its return, an idle foreground reads again, remote turns end | each call is one async function with time-outs; sends, cancels, lost replies and crashes need not happen |
| `RemoteRequests` | a started call goes on, an idle foreground reads again | the same |
| `WorkspaceLifecycle` | a call that was begun goes on; a *forced* delete that failed or was cut off is repeated | the repetition is what spec/tests.md 3.5 calls a retry; without it a delete that loses a race can leave the row ready and the directory gone |
| `DaemonLifecycle` | each client and daemon, strongly | flock does not queue in order: a process that waits for it finds it free again and again, not for good. Clients have a deadline, daemons no reason to stop |
| `RemoteHosts` | the warm-up takes the next host, a call goes on | spawn, initialize and the answer have time-outs; ssh ends once its input is closed |
| `CopilotStream` | a send that the SDK accepted goes on in its loop | its task runs and the hour of silence passes; that the SDK accepts a message, and that the agent ends, pauses or says anything, is not assumed |

`RemoteResources` and `LatestOutput` state no liveness, and no fairness.

## 6. Proofs

All for arbitrary values of the constants, from each module's one named assumption
on them and the assumptions of section 4 where the theorem names them.

* **`TurnLifecycleProofs`.** `TypeInvariant` and `TypeCorrect`: `TypeOK` alone is
  not inductive, since `StoreOutcome` writes the status its thread holds and
  `RecoverReattach` starts a thread for a turn of a worklist; `TypeInv` has one
  part per actor that says which rows a thread's session, turn and request name.
  `NoOrphan` needs `OrphanInv`: where an active turn is while recovery runs (its
  worklist, the turn at hand, a thread, or parked), and that a thread about to
  finish has settled its turn. `CompletedHistory` needs `HistoryInv`: what a
  thread has logged at each point of its program. `RequestContractKept` is the
  refinement: every step is one of the contract's or leaves `decision` and `told`
  alone. `SettledTurnsStaySettled` and `InboxDelivers` are for backends that
  end their turns (`EndsItsTurns`), from `SettledInv`: what a thread's backend
  returned is one of `Outcomes`, and unread turns are settled. `RunningIsRun`
  adds `RunningInv`: who will set a running session idle while recovery runs.
  `CallsAreQuiet`, `AskIsQuiet` and `RecoveryIsQuiet` say once which steps cannot
  affect turns.
* **`EventLogProofs`**, of the three modules that read the event log for somebody.
  * `EventReads`: `PagingIsGapFree` and `RepliesAreInOrder`, for any readers,
    targets, filters and page size. `PagingInv` adds to `GapFree` that a reader's
    first cursor is not past its present one. Two facts carry it: a page is a
    *prefix* of what matches (`PageIsPrefix`), so whatever of it the filter drops
    before the last event returned was not wanted; and an append does not change
    what matches up to a cursor (`AppendKeepsMatching`).
  * `LatestOutput`: `OutputMissesNothing` and `OutputOfFinishedTurnIsFinal`, for
    any turns, callers and window. `OutputInv` says that only a turn's finished
    task completes or fails its row (`RowFollowsTask`), that a call which has seen
    such a row is about a turn whose task adds no more texts (`HoldsOutput`: the
    row is read before the events and written after them), and states the two
    properties, caller by caller. The windows are of arbitrary finite size, so
    the proof counts: what is later than a text in a window that does not show it
    is a whole window (`FiniteSetTheorems`).
  * `RemoteRequests`: `DecisionsReachRemote`, for any number of callers, and no
    further condition. `DecidedInv` says that a row whose decision is about to be
    stored is decided at the remote broker, or was found without a link
    (`DecidedFor`), that what the log or a link names was asked there (`Asked`),
    and that a row gets its link once, from the read that inserted it
    (`Linking`). What the property leaves out is needed: TLC finds the decision
    that stays at home.
* **`WorkspaceProofs`.** `RowsHaveTrees` and `DeletesAreDone`, from what each call
  knows at each point (`Knows`): whose tree was added, what a delete has seen and
  removed, although other calls and git work in between.
* **`RemoteFederationProofs`.** `TypeCorrect` for any foreground. The other two
  are about any number of callers, under a condition on how their calls overlap
  that one call at a time meets (`OneCallerMirrorsOnce`, `OneCallerSeesRemote`).
  * `MirrorsOnce`, while no two calls are between reading the cursor and storing
    it (`CursorApart`): `OnceInv` says that what was mirrored lies behind the
    cursor (`Behind`), or is the oldest event of the page that is being mirrored.
    Two reads that overlap do mirror an event twice.
  * `ReflectsRemote`, while sends and reads follow one another (`SyncsApart`);
    cancels may overlap them and each other. `ReflectInv` says what a linked row
    shows (`Reflects`), that links are injective (`Linking`), that a send, up to
    its link, is the only running turn's and that its remote turn's events are
    ahead of the cursor (`SendHolds`), that a page has every verdict on a running
    turn that its cursor will pass (`ReadHolds`), and that a cancel's verdict is
    in the remote log before it is in the row (`CancelHolds`). `Patient` is
    needed: a send moves the cursor past what no read has mirrored, and so past
    the verdict on a turn that was active when it was made.
* **`RemoteResourcesProofs`.** `IInv` has the parts `Opened` (what each call has
  opened, at each point), `OneCall`, `Closings` (what a close has still to do, at
  which end), `Rowed` (a row is linked, or a call is about to link it, or it is
  apart) and `Once`. `Rowed` is what lets a close that finds no link know that its
  row is apart, and `Steady` what keeps a row's link under a close that is in
  progress. `RetriesYieldOne` and `ClosesBoth` need no assumption on the
  foreground beyond the model's own.
* **`DaemonProofs`.** `IInv`: `Places` (a client past the lock has it, the pid file is
  written last), `Separate` (`StopsApart`) and, until a client gives up, `Serial`:
  who holds the flock for a starting daemon (`Kept`), that none serves meanwhile
  (`Vacant`), that the files lead to the one that listens (`Found`), and what a
  stop knows before it removes a file (`Stopping`).
* **`RemoteHostsProofs`.** `Connecting`: a host in `connecting` has a call in
  flight. `OneCall`: while calls to a host do not overlap, the row it holds is the
  cache's. `PrecedenceHolds`, `ProjectHostsArePlain` and `ServersServeAlike` are
  about `Configuration`, for any set of inputs that `resolve_effective_config` can
  be given (`Findable`) and not only those that the run enumerates. They are
  proved of `Load` itself: what a merge of two layers says of a field
  (`MergeField`), what the merged profile says (`ProfileField`) and so what is
  loaded (`LoadedSettings`, `StrongestField`); that a path, once expanded, is not
  changed by a second expansion (`ExpandAgain`), which is why a server that is
  given the resolved database settles on the same one (`ServerLoadsAlike`).
* **`CopilotStreamProofs`.** `NoGapUnnamed`, and `ContractKept`: `CopilotStream`
  implements `BackendContract`. `Agent` relates the agent's queue to the stream;
  `Apart` says of a send that overlaps no other that it has the agent to itself,
  that only progress is ahead of it before its message ends, and that afterwards
  the event that says how is within the ring, followed by `session.idle` at most.

The assumptions say nothing of the system but these. `RegistryAssumption` takes
configurations that are `Findable`: of the settings the flags name the backend
and the database only (`resolve_effective_config` sets no other override), paths
are not empty, and `HOME` does not begin with `~`, which would be expanded a
second time by the server. `OutputAssumption` keeps `"session"`, the scope of
events outside a turn, apart from the turns.

Every invariant and every action property that a run checks is so stated by a
theorem, and so are both refinements. Only model-checked are the ten liveness
properties (`TurnSettles`, `RecoveryEnds`, `AskerIsAnswered`,
`UnfilteredReaderIsServed`, `HomeTurnSettles`, `RequestReachesInbox`,
`ForcedDeleteConverges`, `StartEnds`, `SendEnds`, `EveryHostIsChecked`): they hold
under fairness, which the prover cannot reason about.

## 7. Not modelled

* **MCP facade**: one stateless call-through per tool.
* **Self update**, **plugin launcher and installers**: sequential programs whose
  matter is I/O, with nothing that runs beside them.
* **Copilot adapter**: that two calls at once may each start the SDK's client,
  and sessions after a restart; the SDK and the agent are external.
* **Workspaces**: those without a path, and what git records besides the
  directory.
* **Inbox**: how `get_inbox` assembles its items, which is a read of one moment
  per query.
* **Text**: wording, formatting, previews, JSON-RPC framing, redaction, migrations
  of the schema.

`PROJECT.json` has each component's status.
