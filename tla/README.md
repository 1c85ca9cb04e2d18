# A verification development of Unreal-MCP

Unreal-MCP lets an AI agent work inside an Unreal editor or game. A C++ plugin
lives in the engine's process; a .NET *sidecar* (the bridge) is its child
process and holds the SignalR link to an MCP server. The two talk over one
loopback TCP connection in newline-delimited JSON. The modules here model the
parts of that system whose correctness depends on how threads, messages and
failures interleave, nine in all; TLC checks them on small instances, and TLAPS
proves the safety of every one of them for all instances.

Run from this directory, for instance `tlc -config BridgeLink.cfg BridgeLink.tla`
and `tlapm BridgeLinkProofs.tla`.

## 1. Inventory

Paths: `RT` is `src/UnrealMCP/Source/UnrealMcpRuntime/Private`, `ED` is
`src/UnrealMCP/Source/UnrealMcpEditor/Private`, `BR` is `src/bridge/src`.

| Component | State it keeps | Operations | What is hard | What makes it correct |
|---|---|---|---|---|
| Bridge server link, `RT/Bridge` | the one connection (socket, authenticated flag, generation, activity time), parked sockets, accumulator, heartbeat thread, effective configuration | accept, read, handshake, ping, push config, drop, Shutdown | five threads on one connection; a peer that redials; a destructor that joins | no socket freed in use, the gate belongs to one connection, lines are whole, the peer ends up with the current configuration, Shutdown ends |
| Call dispatch, `RT/Bridge` + `RT/Dispatch` | queue of jobs, watchdog entries, promises, cancel flags, in-flight count | dispatch, cancel, run, retry, expire, deliver, drain | game thread against watchdog; late `Next()`; shared request ids; engine pre-exit; free on shutdown | one response per call, cancel hits its own call, arrival order, exact count |
| Sidecar IPC client, `BR/Ipc` | stream, ack gate, write lock, three pending registries, backoff | dial, handshake, serve, clean up, round trip, cancel | callers on pool threads against a run loop that tears the link down; cancellation in the middle of a write | no call waits on a dead link, every call ends, cancel follows call, frames are whole |
| Sidecar host: transitions, `BR/Host/SidecarHost.cs` | configuration, first-connect latch, chain of transitions, cancellation source | apply ack, apply push, connect, disconnect, re-dial | three threads submit; a dial may never return | the last submission wins, a disconnect is carried out, the link follows the host |
| Sidecar host: status and roster | roster, last observed connection state | emit, seed, clear | stale emission after a supersede; lost when IPC is down | the editor finally shows the real state |
| Sidecar host: sign-in, `BR/Auth`; the window's view model, `ED/UI` | flow's cancellation source, credential slots, the window's state | start, poll, cancel, commit, revoke, change of mode | cancel racing commit; a lost link between the two | the slot follows the mode, every flow settles |
| Manifests, `BR/Tools` and `RT/Tools`, `Prompts`, `Resources`, `Extensions` | registered entries, revision; applied entries, last revision | register, unregister, enable, push, diff, apply, reset | reconnects, revisions counted anew, a sink that throws half way | after the last push the proxies are the registry |
| Supervision (plugin), `RT/UnrealMcpSupervisedProcess.cpp`, `RT/Sidecar` | watchdog future, stop flag, crash window, backoff index | start, stop, poll, respawn, give up | stop during a respawn; restart after giving up | a running child is watched, no child is created after stop, a dead child is replaced or given up |
| Supervision (sidecar), `BR/Sidecar`, `Program.cs` | rejections in a row, last success, parent identity | record, poll, exit | rejections racing a success | an orphan exits, an accepted sidecar does not |
| Local server manager, `ED/Server` | child handle, pid file, download state, port | download, verify, start, attach, stop | a start beside a relaunch, both freeing the port; a server of an earlier session | the server the manager holds is not killed when the port is freed |
| Configuration, `RT/Config` | layered settings | resolve, save | precedence | the resolved value is the most specific one |
| Editor coordinator, module, session | owners of the above | start, pre-exit, shut down | order of shutdown | nothing used after it is freed |
| Editor UI and view model, `ED/UI` | last status, latches | messages in, commands out | stale latches | shows the last status |
| Bridge downloader, `ED/Sidecar`, and the resolver in `RT/Sidecar` | a cache directory that editors share, its marker; a download in progress | resolve, spawn, relaunch, download, verify, publish, cancel | two editors publishing one directory file by file; a result posted beside a shutdown | the marker tells the truth, only verified builds run, a complete directory is kept |
| Extension installer, `ED/Extensions`, and `src/cli` install-extension | the plugin's directory, its staging and backup, the .uproject | decide, stage, back up, swap, roll back, check, enable | copies and deletions that fail half-way; a death between two of them | restored or a copy survives; what is reported as placed is whole |
| NDJSON framing | accumulator | push, drain, encode | split lines, a cap on their length | what is encoded is decoded |
| Tools, RQL engine, agent configuration, the rest of the cli, extensions, scripts | none between calls | sequential functions | -- | tests reach them |

How they interact. The editor coordinator (or the runtime subsystem, in a game)
owns the bridge server and the supervised sidecar. The server's listener and
reader threads take lines from the sidecar; a call is handed to the dispatcher,
whose queue is drained by the game thread at the end of a frame and whose
watchdog completes what takes too long; the response goes out through the
server's one send path. In the sidecar, `IpcClient` reads lines and raises
events on its reader thread; `SidecarHost` turns them into configuration and
connection transitions; the proxies of tools, prompts and resources, called by
SignalR, go back through `IpcClient.RoundTripAsync`.

## 2. Modules and how they correspond to the code

### BridgeLink (`UnrealMcpBridgeServer.cpp`, the link)

One variable per piece of shared state: the slot (`client` is `ClientSocket`,
`gen` `ConnectionGeneration`, `handshakeOk` `bHandshakeOk`), the sockets
`parked` for destruction and those `freed`, the heartbeat's stop flag, the
effective configuration `cfg`; and one program counter per thread (`acc`, `rpc`,
`hb`, `wpc`, `sd`) with what it holds in local variables: `rGen`, the
generation the reader snapshotted, what Recv returned, the lines left to handle,
the configuration it is about to send. A socket is named by the generation it
was accepted with, so "the bytes of connection n" and "a request honoured for
connection n" are facts a property can state. What a thread does while it holds
`ConnectionMutex` is one action, and the code between two critical sections is
the boundary between two. A send under the mutex can fail, and then the link is
dropped in the same step (`SendFramed`). `WriteMutex` is `WriteMutexFree`: the
reader holds it over the manifests and the configuration. `quiet` and `mute`
are time and the peer: fifteen seconds of silence, and a peer that is dead
without having closed. Every message but the handshake is a `request`; what a
request does is CallDispatch. `lastCfg`, `shook` and `ran` are history.

### CallContract and CallDispatch (`UnrealMcpGameThreadDispatcher.cpp`, calls in the server)

CallContract is the abstract specification, from the header's promise: a call
is accepted, may be cancelled, its body may run, and its future is completed
once, with what the body returned or with why it did not. CallDispatch is the
code: `ReceiveCall` registers the flag and counts the call in, `Dispatch`
queues a job and a watchdog entry, the game thread drains the queue, the body
returns or puts itself off, the watchdog snapshots, expires and completes, and
the continuation runs either on the completing thread or on the thread that
attaches it. The map from the first to the second is in
`Contract == INSTANCE CallContract WITH ...`. Two calls can have the same
request id, as the code cannot exclude it. Engine pre-exit and Shutdown are
actions, and Shutdown ends in freeing the server: what a later step does to the
freed server sets `dangling`.

### SidecarCalls and RoundTrip (`IpcClient.cs`, `PendingCallRegistry.cs`)

SidecarCalls is the abstract specification, from what `ToolCallChannel` and the
registry tell a proxy: a call begins, is refused unsent or put on the link, waits
there, and ends with that link's answer, by giving up, or when the link is lost,
which every waiting call hears at once. RoundTrip implements it: the link is
up while the client holds a stream; the caller's state (`CallerAt`) is read off
its program counter and its task; a request is "coming" to the plugin while it is
whole on the wire and "serving" while the plugin works on it (`PluginOf`).

In RoundTrip, the run loop is `loop`; a round trip is `pc[c]`, its
`TaskCompletionSource` `task[c]`, the registry `pending`. A message waits in
`waiters` for the write lock with the stream its sender captured, as
`SendAsync` captures it before `WaitAsync`, and `writer` holds the lock. The
plugin's side is what BridgeLink says of it in brief: it accepts a request only
after the handshake. The three registries are one, as they share all the code.

### ConfigTransitions (`SidecarHost.cs`)

`want` is the plugin's effective configuration, `wire` what is under way to the
reader. The ack's continuation (`ack`, `ackConnects`) and the reader's
`OnConfigReceived` (`push`) are two threads that write `config`, each in the
steps a thread switch can separate. `transitions` is the chain of
`_connectionTransition`; the head runs, a submission cancels the last one. The
SignalR client is external: Disconnect tears down, Connect on a live link does
nothing, a failing dial is retried until its token is cancelled, a lost
transport comes back by itself; a Connect that throws with nothing to cancel it ends
its transition with the link down (`DialThrows`, `last = "failed"`). The token, the auth option and the mode travel
with the host and are compared with it by the same disjunction, so the host
stands for all of them. `held`, `last` and `rewritten` are history variables:
no guard reads them.

### Supervision (`UnrealMcpSupervisedProcess.cpp`, the two managers)

One supervised process, owned by the local server's manager or by the sidecar's
(`owner`): what both do is one definition, and what only the server's does
(pid file, reattaching to a server of an earlier editor, freeing the port) is
guarded by `IsServer`. The game thread (`gpc`) starts, stops and restarts; the
watchdog (`wd`) polls, counts deaths, backs off, frees the port and relaunches;
`future` is `WatchdogFuture`'s validity, `stop` the flag, `crashes` and `window`
the breaker; `tries` is history, the relaunches tried in this window. A start and a relaunch look at the process, free the port and
spawn in three steps, so the two threads can overlap in them as they do in the
code. A process is a number and its life is in `proc`; the operating system ends
children, and on an editor's crash kills the server or not (the job object). A
sidecar's own exits (rejected handshakes, its deadline, its two-second poll of its
parent) are deaths at any moment: when Program.cs takes them is not modelled.

### ManifestSync, MCManifestSync (registry, extension manager, registrar)

`features`, `disabled` and `hidden` are what the user and the modules decide;
`entries` and `revision` are the registry; `gpc` and `todo` the steps of
`RebuildFromProviders`; a rebuild asked for during a rebuild is `pending`.
A manifest is built and put on the `channel` by the game thread's push or by the
reader's answer to a handshake, which may come in the middle of a rebuild. In
the sidecar `work` is the difference being applied, one entry of it a step, on
two surfaces (`proxies`, `routed`), and a sink that throws can have taken a route
away and left its proxy (`SinkThrows`). The tool manager behind the sinks is a
library; that it refuses a tool is not modelled, as the one name it would refuse is
that of the sidecar's own tool, which the plugin does not use. `applied` and `last`
are the registrar's, reset on a new connection. `newest` is history. Tools stand for prompts and
resources, which go through the same template and the same base class.
MCManifestSync gives the tables of providers their values.

### SignIn (`UnrealMcpEditorViewModel.cpp`, `SidecarHost.cs`, `DeviceCodeAuthenticator.cs`)

`ui` is the window's state with its latches, `config` the mode and the token the
plugin holds, `slot` the sidecar's bearer slot, `flow` the device-code flows and
`current` the one that `_authCts` cancels. Frames travel both ways and are lost
when there is no link. A flow's look at its cancellation and its write of the
slot are two steps, as they are in `CommitAuthorizedSessionAsync`. A flow that
applied its token may re-dial and then waits in `dial` for `plugin.Connect`;
`newest` is the flow whose dial is the newest connection transition, or 0 when
another party's is (`OtherTransition`). ConfigTransitions has that chain in full. The provider
and the machine's credential store are external: Initiate, Poll and Commit choose
among their outcomes, and the retries of a commit are one of the outcomes.

### BridgeCache, BridgeDownload, MCBridgeDownload (`UnrealMcpBridgeDownloader.cpp`, `UnrealMcpSidecarManager.cpp`, the coordinator)

BridgeCache is the abstract specification of the directory, from the comment of
`ExtractBridgeZip`: a binary comes in whole, marked, and over none; it is never
exchanged in place or marked later, only taken away; and a sidecar runs what the
cache held. BridgeDownload implements it with the binary on disk, the marker's
agreement with it, and the builds of the processes that run.

The cache directory all editors of one plugin version share is `present` and
`file` (the binary and the `.verified` marker). `game` is the step an editor's
game thread is at between the resolution of the binary and its spawn, in a
finished download's callback, and in Shutdown; `worker` is the download, from the
request to the posted result; `side` the process it runs and `watched` what the
watchdog would relaunch. A build stands for its bytes and for their digest, and
two plugins of one version may ship different builds. Publication is the code's
loop in its steps: the move, which is one rename and fails on a directory that is
not empty, the look, the listing, the deletion file by file, the next attempt;
editors interleave between any two. `overtaken` is history. The bundled binary,
the override and the Fab build need no download and are left out, and so is the
process that a start beside a relaunch may orphan: that is Supervision's
subject. MCBridgeDownload adds the symmetry of editors and builds.

### ExtensionInstall, MCExtensionInstall (`UnrealMcpExtensionInstaller.cpp`, `install-extension.ts`)

`disk` holds three directories, each a function from files to the version they
are of: the plugin's, the staging and the backup. A run (`run.by`) is the
editor's or the cli's; what both decide alike (IsMaterializeNeeded,
ComputeOutcome, the check of the name) is one definition. A copy or a deletion
goes file by file and can stop at any point; the editor's PlacePluginDir backs
up, deletes without a look at the result, copies and rolls back, the cli's
placePlugin deletes and renames. Crash ends a run at any step; what it abandons
is `leftover`, and so is what the cleaning of a run that returned could not delete.
What a release is worth as a source (no version, a failed download, a checksum)
is Refuse; the editor does not compare an archive with the release it asked for,
the cli does. `prior` is history. MCExtensionInstall gives each version its files.

### The proof modules

BridgeLinkProofs, CallDispatchProofs, RoundTripProofs, ConfigTransitionsProofs,
SupervisionProofs, ManifestSyncProofs and SignInProofs each extend the module they
are about. DownloadInstallProofs extends both BridgeDownload and ExtensionInstall,
which is why the latter's Init, Next, Spec and TypeOK bear the prefix Install
(section 6).

## 3. Runs

| Run | Module | Checks | Bounds |
|---|---|---|---|
| bridge_link | BridgeLink | SocketOwnership, HandshakeBelongsToLink, LineIntegrity, HeartbeatGuardsLink, ConfigConverges, ShutdownReleasesSockets, DeadPeerDropped, ParkedIsFreed, ShutdownTerminates | 2 dials, an editor's configuration and 1 edit, 1 line a batch, peers may hang |
| call_dispatch | CallDispatch | OneAnswer, CancelHitsItsOwner, InFlightIsExact, ArrivalOrder, KeepsContract, EveryCallAnswered | 2 calls, 1 id and the empty one |
| call_dispatch_free | CallDispatch | NoUseAfterFree: violated | 1 call |
| round_trip | RoundTrip | NoOrphanedCall, CancelFollowsRequest, KeepsPromise, EveryCallEnds | 2 calls, 2 dials |
| config_transitions | ConfigTransitions | LastSubmissionWins, PushedHostIsDialled, DisconnectIsCarriedOut | 2 hosts, 1 edit, 2 dials, 1 sign-in |
| config_redial | ConfigTransitions | LinkFollowsHost: violated | 2 hosts, 1 edit, 2 dials |
| supervision | Supervision | RunningIsWatched, BreakerIsExact, StopIsFinal, KeepsItsOwnServer, DeadChildIsReplaced | both owners, 4 processes, 2 editor sessions, 2 relaunches a window |
| supervision_start | Supervision | StartedIsWatched: violated | the server's owner, the same |
| manifest_sync | MCManifestSync | QuietMirrors, NoStrayProxy, NeverOlder | 2 names, 3 providers, 2 changes, 1 lost link, 1 sink that throws |
| sign_in | SignIn | SlotFollowsMode, EverySignInSettles | 2 flows, 2 events, 1 report under way, 1 poll |
| bridge_download | MCBridgeDownload | MarkerTellsTheTruth, OnlyOvertakenDelete, ShutDownStaysDown, KeepsCache | 2 editors, 2 builds, 2 attempts |
| extension_install | MCExtensionInstall | EditorFailureRestores, ACopySurvives, PlacedIsWhole, CliPlacesAtOnce | 3 files, 3 versions, any number of runs |

The type invariants are proved (section 6), and the runs leave them to the proofs.

What they show:

- **bridge_link**: whatever the five threads do, the listener's replacement of a
  connection neither frees a socket the reader is using nor lets the bytes or
  the token of the old connection count for the new one; an authenticated link
  always has a heartbeat that will notice its death; and the configuration last
  delivered is the current one when nothing is left to send. A mute peer is dropped
  (before the handshake by the deadline, after it by the heartbeat), parked sockets
  are freed, and the joins of Shutdown end.
- **call_dispatch**: the dispatcher implements its contract; one response per
  call; two calls that share an id do not take each other's flag or count; jobs
  run in the order they came; every call is answered unless the engine exits or
  the server is shut down.
- **round_trip**: a call never waits on a link the loop has given up; the cancel
  of a call is not on the wire before the call; the sidecar implements
  SidecarCalls: a call goes out on one link, at most once, hears only that link's
  answer, and was not sent if it is told so; every call ends although nothing is
  assumed of the plugin.
- **config_transitions**: when the chain is empty the link is what the last
  submission asked for; a host pushed in a config message is dialled; a
  disconnect cannot be pinned behind a dial that never succeeds.
- **supervision**: between operations of the game thread a running child has a
  watchdog that was not told to stop, and lives unless it has given up since the
  last Stop; it gives up after exactly the allowed number of relaunches of one
  window; nothing is created between Stop's join and the next Start; freeing the
  port does not kill the process just adopted or spawned; a dead child is replaced
  or the watchdog ends.
- **manifest_sync**: when nothing is under way the client has what the editor
  promises, on the right surface; at every step of an application each proxy is
  where the registrar believes it is, also after a sink that throws; no
  older manifest is applied after a newer one.
- **sign_in**: outside Cloud mode the sidecar holds the user's own token, however
  late a sign-in completes; every flow comes to its end, or is in a dial that
  nothing has superseded, which is the one wait the code leaves unbounded.
- **bridge_download**: however publications and deletions of two editors cross, a
  marker beside a binary is that binary's, so a directory of mixed builds is never
  trusted; the directory implements BridgeCache, so a binary is never exchanged
  beneath its marker, and only what a plugin ships is cached or run; a directory that is
  complete for a worker's own build is deleted only if it came after the worker
  looked; after Shutdown's cancel no posted result starts a sidecar.
- **extension_install**: an editor's placement that fails, short of the message
  that asks for a repair, leaves all that was installed; a whole copy of the old or
  of the new version survives every crash of the editor; what either program
  reports as placed is whole and bears the plugin's name, whatever its deletion
  left; the cli never shows a part of a version.

Three runs show a comment of the code violated:

- **call_dispatch_free**: DrainInFlightCalls waits on the game thread for jobs
  only the game thread can run; the wait can only run out for a queued call, and
  where the engine goes on, a later frame uses the freed server.
- **config_redial**: a host edited while the IPC link is down arrives in the ack,
  which installs it without re-dialling; the config message behind it compares
  equal, and SignalR stays on the old host.
- **supervision_start**: after the watchdog has given up, `WatchdogFuture` stays
  valid, so the next Start spawns a child but launches no watchdog and resets no
  window, against "Watchdog.Start resets the crash window"
  (`UnrealMcpServerManager.cpp:336`, and `UnrealMcpSidecarManager.cpp:348`); the child is
  unwatched until a Stop, and IsWatching says true, documented as "True while the
  watchdog thread is live" (`UnrealMcpSupervisedProcess.h:47`). RunningIsWatched
  excepts such children.

Some other places are modelled as they are and have no run of their own; the
properties above hold with them:

- Shutdown joins the heartbeat before the reader, and the reader can start another
  one in between, against "this thread is the sole owner of the connection state"
  (`UnrealMcpBridgeServer.cpp:1295`).
- The reader's look at the generation after Recv is not repeated under the lock of
  the close behind it: the end of an old connection, learnt just before it was
  replaced, closes the new one (`UnrealMcpBridgeServer.cpp:310-323`). LineIntegrity is
  about bytes only.
- In Cloud mode a sign-out between a flow's look at its cancellation and its write
  of the slot is followed by the write, against "storing it now would resurrect a
  bearer the user just cancelled/revoked" (`SidecarHost.cs:1618`). SlotFollowsMode is
  about the other mode.
- A request cancelled during its WriteAsync leaves part of a frame, and the next
  message continues that line (`IpcClient.cs:564`).
- Between a downloader's look at the target and its deletion another editor can
  move a complete directory in, which is then deleted, against "its complete dir is
  kept" (`UnrealMcpBridgeDownloader.h:70`); OnlyOvertakenDelete says that this is
  the only way.
- The watchdog relaunches from a path without a look at the marker: by then the
  directory may hold another plugin's build of the same version.
- The cli deletes before it renames and keeps no backup: when either fails the
  prior install is lost, against "a failed install never corrupts an existing one"
  (`docs/EXTENSIONS.md:527`).
- An install whose name check failed leaves its files, and the next one finds the
  version it wants and reports success; so does one after a crash that left a fresh
  install half-copied.

## 4. Bounds

Two dials give one connection replaced by another in every state of the reader
and the heartbeat; a third adds no new pair of connections. One edit of the
configuration that an editor starts with is one that races the ack, the first
configuration message or the push of it; a game's server, which starts without one,
is StartCfg = 0. One line a batch leaves out a second line behind a handshake in the
same read. More of these, with the liveness properties, is beyond the time a run may take; the proofs cover every number of
dials, edits and lines for the six safety properties. Two calls
are the least for a shared id, an order of arrival, and one call's job running
while the other's entry expires. One edit and two IPC connections are the least
for a configuration that changes between two acks; a second edit was left out
for the size of the state space, and the transition chain still grows to four
(connect, push, re-push, sign-in).

Supervision: four processes are two for each of two editor sessions, enough for
a relaunch beside a start and for a server that an earlier session left behind.
The breaker allows MaxCrashes relaunches in a window: two here, five in the
code, none in the Fab build; a start after a give-up, and a window that ages
between two deaths, both happen. The code's backoffs sum to less than the
window's 300 s, so the delays never age a window by themselves and are steps
without a length. Process numbers are never reused, the count of restarts that
the window shows and the downloads are left out.

ManifestSync: three providers, two of which share an extension id, all of
which claim one name and one of which also claims a built-in's, are the least for
a name that is refused, freed and taken over. Two changes give one made while the other is being
rebuilt. The whitelist (`Enabled`) is left out; prompts and resources are
represented by tools. One sink that throws and one lost link are each enough to
leave a half-applied manifest behind.

SignIn: two flows are the least for one replaced by another; an event is a
change of mode, a sign-out, a loss of the link or a report of the account by itself,
at any point of both flows, and two of them let a sign-out meet a change of mode. One
report under way is the least; the proof of SlotFollowsMode covers more of everything.
A poll more only repeats the first. Whether a completed sign-in re-dials is left open,
as keepConnected is not in the model. A sign-in may start in either mode, as neither
the view model nor the sidecar asks.

BridgeDownload: two editors are the least whose steps cross; a third adds a second
deletion beside a publication, which the proofs cover. Two builds are one that is
shipped and one of another plugin. Two attempts give one that fails and is
repeated, and one that is the last; the code makes five. Corrupt stands for all
bytes that no plugin ships. The cache starts as any earlier run may have left it.

ExtensionInstall: three files are a descriptor, the descriptor of another plugin
and one that is neither; of the three versions one drops a file and one is
misnamed, so an update may leave a file of the old version behind a deletion that
failed. One run at a time: the editor's is a function of its game thread, and a
cli run beside it is left out. Only the last run's abandoned directories are kept
in `leftover`, which ACopySurvives asks about and nothing else does.

Counters are capped in the guards and named
as constants. The proofs of section 6 do not depend on the bounds.

## 5. Fairness

Fairness is assumed only of what the process itself schedules: threads and pool
tasks run, a lock that is free is taken, a timer fires, a blocking call on a
socket returns or fails. Nothing is assumed of the peer, the network or the
user. It is weak but for two actions that read a clock, each strongly fair
because the thread comes back to it in every turn of its loop and at some turn
the deadline is over: BridgeLink's `PreHandshakeDeadline`, and CallDispatch's
scan that finds a given entry expired. In BridgeLink the reader's Wait is
bounded, so the reader never blocks; in CallDispatch the game thread ticks until
pre-exit and bodies return; in RoundTrip a write returns or throws, since a peer
that stops reading is dropped by the heartbeat, which disposes the stream; in
ConfigTransitions a teardown and a cancelled dial return, and a dial that is not
cancelled need not, as the comment at `SidecarHost.cs:1786` says; in Supervision
the watchdog thread runs and a start or stop under way goes on (each is a function
of the game thread that has been called), but no child is ever obliged to live or to
die; in SignIn the view model's messages are handled and each flow's task runs, a
poll may answer "pending" until the deadline, and a dial must return only once it is
superseded (`MustGoOn`). ManifestSync, BridgeDownload and ExtensionInstall have safety
only: pushes are events of the editor, and QuietMirrors says what holds whenever
they pause; downloads and installs end or are given up by the user.

CHECK_DEADLOCK is off where the system may stop: after Shutdown, after the last
bounded dial or edit, or with every call ended.

## 6. Proofs

Each theorem is proved for every value of the constants that the module's named
assumptions allow (any number of calls, dials, edits, processes, providers or
flows), and rests on those assumptions alone. All are `Spec => []property`, or
`Spec => property` for an action property and for the three refinements
(ExtensionInstall's specification is called InstallSpec).

| Module | Theorem | Property |
|---|---|---|
| BridgeLinkProofs | TypeCorrect | TypeOK |
| | NoSocketFreedInUse | SocketOwnership |
| | GateBelongsToLink | HandshakeBelongsToLink |
| | LinesAreWhole | LineIntegrity |
| | LinkIsGuarded | HeartbeatGuardsLink |
| | ConfigIsDelivered | ConfigConverges |
| | EverySocketIsReleased | ShutdownReleasesSockets |
| CallDispatchProofs | TypeCorrect | TypeOK |
| | AnsweredOnce | OneAnswer |
| | CancelReachesOwner | CancelHitsItsOwner |
| | CountIsExact | InFlightIsExact |
| | FirstAttemptsInOrder | ArrivalOrder |
| | DispatcherKeepsContract | KeepsContract (CallDispatch implements CallContract) |
| RoundTripProofs | TypeCorrect | TypeOK |
| | NoOrphan | NoOrphanedCall |
| | CancelAfterRequest | CancelFollowsRequest |
| | CallsAreKept | KeepsPromise (RoundTrip implements SidecarCalls) |
| | RefusedIsUnheard | NotSentIsUnheard |
| ConfigTransitionsProofs | TypeCorrect | TypeOK |
| | LastWins | LastSubmissionWins |
| | PushedHostWins | PushedHostIsDialled |
| SupervisionProofs | TypeCorrect | TypeOK |
| | ChildIsWatched | RunningIsWatched |
| | BreakerHolds | BreakerIsExact |
| | NoRelaunchAfterStop | StopIsFinal |
| | OwnServerIsKept | KeepsItsOwnServer |
| ManifestSyncProofs | TypeCorrect | TypeOK |
| | BuiltInsStay | CoreAlwaysThere |
| | OneSurface | NoStrayProxy |
| | NeverBackwards | NeverOlder |
| | QuietIsMirrored | QuietMirrors |
| SignInProofs | TypeCorrect | TypeOK |
| | SlotIsTheUsers | SlotFollowsMode |
| DownloadInstallProofs | TypeCorrect | TypeOK |
| | OnlyBuildsRun | NothingUnverifiedRuns |
| | MarkerIsTrue | MarkerTellsTheTruth |
| | CompleteIsKept | OnlyOvertakenDelete |
| | ShutDownIsFinal | ShutDownStaysDown |
| | CacheIsKept | KeepsCache (BridgeDownload implements BridgeCache) |
| | InstallTypeCorrect | InstallTypeOK |
| | FailedPlacementRestores | EditorFailureRestores |
| | SomeCopySurvives | ACopySurvives |
| | ReportedIsWhole | PlacedIsWhole |
| | CliInstallsAtOnce | CliPlacesAtOnce |

In every module the types are split into Booleans and the rest, which the
provers treat by different means, and the invariants build on one another, each
proved one action at a time.

**BridgeLink.** SocketOwnership alone is not inductive: that the reader's socket
is not freed depends on the reader never running ahead of the slot and on
Shutdown freeing nothing before the reader has exited. OwnershipInv adds both,
and that the slot holds the newest connection or nothing. HandshakeInv adds
`shook <= gen`: the connection that shook hands last is not newer than the
slot's. LineIntegrity speaks of the moments when bytes may be joined;
AccumulatorInv says at every moment that the accumulator holds bytes of the
reader's own connection. HeartbeatGuardsLink is inductive given FlagsOK: whoever
raises the stop flag closes the slot in the same step, is about to, or is the
reader inside StartHeartbeat. ConfigInv looks into the handshake's bundle: when
the configuration frame is about to go out it is the current one, unless an edit
waits to be pushed behind it. ReleaseInv follows Shutdown to its end: once the
listener is joined nothing is accepted, once the slot is closed it stays empty,
and nothing is parked behind the last drain.

**CallDispatch.** KnownInv: whatever a queue, the watchdog or a thread holds is a
call that has arrived, and before its continuation is attached it has not been
delivered. AnswerInv ties the number of answers to the stage of the delivery, and
the stage to the outcome: this is what makes the three racers (body, watchdog,
late attachment) exclude each other. Two lemmas about the continuation
(ContinueKeepsOwners, ContinueCounts) carry the other two invariants, one of
them by the cardinality of the set of calls that are not over. The refinement
needs KnownInv and CancelHitsItsOwner: what is run, expired or cancelled is a call
that the contract has accepted. For ArrivalOrder, InputInv: the reader takes a
call once, and the call it is handing over is the last it took; OrderInv: no call
that is not a retry stands behind a later one within Due, within Pending, or
across the two, of which Drain only leaves behind what is delayed, and that is a
retry.

**RoundTrip.** LinkInv: the stream belongs to the newest connection and is there
while the loop serves it; the one write of a handshake is made while the loop
waits for it, which is what lets the result of a write move the loop. RequestInv:
a request is written at most once and only while its caller is sending. CallInv:
the registry is exactly the set of open tasks. From these, OrphanInv: a call
begins to wait only by a write on an open stream, and the clean-up fails it
after closing the stream. CancelInv: a cancel exists, in the queue or on the wire,
only for a call that is over; such a call's request cannot acquire the lock any
more, so nothing can follow the cancel.

The refinement rests on AskedInv: a request is whole on the wire at most once, not
while the plugin serves it, and no part of it before its caller has left the gate
with a task. So the write that puts it there is SidecarCalls' Ask and happens to a
call that the plugin has never heard of. A dial begins with an empty wire and, by OrphanInv,
nobody waiting, which is Connect's guard; the clean-up ends all waiters in the step
that closes the stream, which is FailAll. NotSentIsUnheard is AskedInv read the
other way: a call that got no task has nothing on the wire.

**ConfigTransitions.** QueueOK: the chain has one shape (only the head has begun,
only the newest is not cancelled, the client dials exactly if the head does).
OutcomeInv says what the link is when the chain is empty and what the last
transition is about to make of it; LastSubmissionWins follows. For
PushedHostIsDialled: AckInv, FirstInv and RaceInv order the ack, its continuation
and the pushes on one link; FreshInv describes the host before the first connect;
BoundInv says that the chain is going to bind the link to the configured host,
and the cases that may break it are what `rewritten` records.

**Supervision.** GameInv: between the game thread's operations there is either a
watchdog that was not told to stop or no handle. LoopInv ties the count to the
relaunches tried: equal while the watchdog sleeps, one more from a death to its
relaunch; so it gives up exactly at the limit, and ends by that or by a stop. OwnerInv: the handle of
the server's manager is the process it recorded, and only that manager frees a
port.

**ManifestSync.** RevisionInv: revisions are applied in the order in which they
were built, across the channel, the application in progress and the reset. CoreInv
adds to CoreAlwaysThere that no extension with the reserved id is registered or
visited. WorkInv says what the sets of a difference mean with respect to what is
applied at that moment; PlacedInv, that a proxy is as Applied has it and, but for a
throw, where its route is; with ProxyInv (below), NoStrayProxy follows.

QuietMirrors relates the two ends of the whole path, and is proved by one
invariant for each stage. RebuildInv: in a rebuild the registry holds, of each
name, the tool of the smallest id among the providers visited so far, everything
that is not built in is remembered as registered, and a change in the middle is
pending. DeliveredInv: when the game thread is idle and the handshake answered,
the last manifest on its way has the registry's revision. ViewInv: what has the
registry's revision has the registry's view, which is why only the numbers have to
be followed. DiffInv: what is not in what is left of a difference is equal on both
sides. ProxyInv: a proxy is on its tool's surface, and without a fault no tool that is
applied is without its proxy.
That a name that is offered has a first provider at all is the well-foundedness of
the ids.

**SignIn.** OwnFrames: a configuration frame of another mode than Cloud carries
the user's own token, so reading it re-establishes SlotFollowsMode, and a flow's
write is guarded by the mode it re-reads. StartsInv counts the flows started, the
starts unread and the one queued against what the user asked for; without it the
number of a new flow could not be typed.

**BridgeDownload.** BytesOK: from the verification on, what a worker has staged is
the build its own plugin ships, so only builds are ever in the cache, and nothing
else can be spawned from it. MarkerTellsTheTruth is inductive over the types: the
directory appears whole, over no files, and deletions only take away. HasLooked:
a worker between its look and the end of its deletion knows that the directory is
not complete for its build, until another worker publishes; with it
OnlyOvertakenDelete holds of every step. StaysDown needs no invariant but the
types. For the refinement, only two actions touch the directory: Publish, whose
rename finds it empty and puts both files at once, and DeleteFile, one file at a
time; BytesOK gives the build that Publish brings.

**ExtensionInstall.** Each phase hands on what the phase before has made.
ProgramInv: which program is at which step, that a placement has a body, and when
an outcome may be there. StagingInv: the staging is a part of the new version
while it is copied and all of it from there to the swap. BackupInv: the plugin's
directory is untouched until the editor's backup is whole, and the backup stays
whole through the deletion, the copy and the roll-back; that a deletion may leave
some of it does not matter, as the roll-back copies over what is left. PlacedInv:
what the swap ends with is whole until it is reported. CliInv: before its rename the
cli's directory is a part of the prior version, after it all of the new one. A copy
survives because, while a run is under way, the directory or the backup holds one,
and what a crash abandons is remembered in `leftover` (SurvivesIdle).

Proved and not run: CoreAlwaysThere (a built-in tool is in the registry at every
moment of a rebuild), NothingUnverifiedRuns (KeepsCache implies the most of it),
NotSentIsUnheard and the type invariants.

Model-checked only: the liveness properties, as the prover does not reason about
fairness or ENABLED. What a recursive definition computes is not proved either;
the modules with theorems have none.

## 7. What is left out, and the plan

Left out of the modelled parts: the text of messages; the length cap of a line;
the dispatcher's inline branch (it is never called on the game thread); the
sidecar's status feed and roster; the registries' whitelist and validation; the
delays of the backoffs, which only say when a step happens.

Not modelled. Most of the code by volume is not concurrent and keeps no state
between calls: the tools' bodies are sequences of calls into the engine's API;
the RQL engine is a vendored compiler and its adapters over reflection data; the
agent configuration, the rest of the cli and the release scripts edit files in sequence; the
specs are tests. A model of those would repeat them line by line, and their unit
tests reach what they do. The credential store with its lock and the SignalR
client are libraries outside the repository, modelled by their outcomes where
they matter.

Next, in this order:

1. **Status feed and roster** on top of ConfigTransitions: the status the editor
   shows last is the state of the link, with frames lost while IPC is down.
2. **Installs that overlap**: an editor's and a cli's run in one project, and the
   search for what a crash abandoned, which the code does not do.
3. **A call from end to end**: SidecarCalls over a link whose far side is
   CallContract, so that the plugin's one answer is the sidecar's one result.
4. **Configuration layers**: the resolution of a setting against a reference
   definition.
