----------------------------- MODULE BridgeLink -----------------------------
(***************************************************************************)
(* The plugin's end of the loopback link to the sidecar process:           *)
(* FUnrealMcpBridgeServer of UnrealMcpBridgeServer.cpp.  One TCP client is *)
(* served at a time.  Five kinds of thread share the link:                 *)
(*   - the listener's accept thread, which swaps a fresh dial in;          *)
(*   - the reader thread, the only one that reads and frees sockets;       *)
(*   - the heartbeat thread, which pings and drops a silent peer;          *)
(*   - the game thread, which pushes configuration and runs Shutdown;      *)
(*   - any thread that finishes a call and sends its response.             *)
(* The mutexes are modelled by what they make atomic.  The socket accepted *)
(* as connection generation g is named g; 0 is nullptr.  bClientConnected  *)
(* changes only together with ClientSocket, so it is client # None.        *)
(***************************************************************************)
EXTENDS Integers, Sequences

CONSTANTS
  MaxGen,    (* how many dials the listener accepts: a bound               *)
  MaxCfg,    (* how many configurations the game thread stores: a bound    *)
  StartCfg,  (* what Start is given: 0 is none (a game), 1 an editor's     *)
  MaxLines,  (* how many lines one Recv can complete: a bound              *)
  MayHang    (* whether a peer may die without closing                     *)

ASSUME BoundsAssumption ==
  /\ MaxGen   \in Nat \ {0}
  /\ MaxCfg   \in Nat
  /\ StartCfg \in {0, 1} \cap 0..MaxCfg
  /\ MaxLines \in Nat \ {0}

ASSUME MayHangAssumption == MayHang \in BOOLEAN

VARIABLES
  client,      (* ClientSocket: the connection in the single slot, or None *)
  gen,         (* ConnectionGeneration                                     *)
  handshakeOk, (* bHandshakeOk                                             *)
  parked,      (* SocketsPendingDestroy                                    *)
  freed,       (* the sockets closed and destroyed                         *)
  acc,         (* accept thread: "idle", or "stamp" before LastActivity    *)
  rpc,         (* reader thread: where it is in Run or HandleHandshake     *)
  rGen,        (* reader: ServedGeneration, the one this turn reads for    *)
  partial,     (* reader: generations whose bytes the accumulator holds    *)
  rRes,        (* reader: what Recv returned, before the re-check          *)
  lines,       (* reader: the lines still to handle                        *)
  rCfg,        (* reader: the configuration about to be sent               *)
  hb,          (* heartbeat thread: "off", "loop" or "close"               *)
  hbStop,      (* bHeartbeatStop                                           *)
  quiet,       (* LastActivity is older than HeartbeatTimeoutSeconds       *)
  mute,        (* the current peer is dead and has not closed              *)
  cfg,         (* EffectiveConfig, as an edit number; 0 is none            *)
  wpc,         (* game thread in SetEffectiveConfig: idle, check or push   *)
  sd,          (* Shutdown's progress; not "up" is bStopRequested          *)
  lastCfg,     (* history: last configuration delivered to the client      *)
  shook,       (* history: last generation whose handshake was accepted    *)
  ran          (* history: last generation a request was honoured for      *)

slot   == <<client, gen, handshakeOk>>
socks  == <<parked, freed>>
reader == <<rGen, partial, rRes, lines, rCfg>>
time   == <<quiet, mute>>
game   == <<cfg, wpc, sd>>
hist   == <<shook, ran>>
vars   == <<slot, socks, acc, rpc, reader, hb, hbStop, time, game, lastCfg, hist>>

None == 0
Gens == 1..MaxGen

(* What a peer can send: a handshake with the right or a wrong token, or   *)
(* any other message.                                                      *)
LineKinds == {"handshake", "badToken", "request"}
Batches == UNION {[1..n -> LineKinds] : n \in 0..MaxLines}

stopRequested == sd # "up"
clientConnected == client # None

(* The reader holds WriteMutex while it sends the manifests and config.    *)
BundlePcs == {"manifests", "cfgBuild", "cfgSend"}
HandshakePcs == {"ackBuild", "ackSend", "hbStop", "hbJoin"} \cup BundlePcs
ReaderPcs == {"top", "snap", "deadline", "recv", "recheck", "close", "closeLocked",
              "lines", "exited"} \cup HandshakePcs
WriteMutexFree == rpc \notin BundlePcs

Init ==
  /\ client = None /\ gen = 0 /\ handshakeOk = FALSE
  /\ parked = {} /\ freed = {}
  /\ acc = "idle"
  /\ rpc = "top" /\ rGen = 0 /\ partial = {} /\ rRes = "none" /\ lines = <<>> /\ rCfg = 0
  /\ hb = "off" /\ hbStop = FALSE
  /\ quiet = FALSE /\ mute = FALSE
  /\ cfg = StartCfg /\ wpc = "idle" /\ sd = "up"
  /\ lastCfg = 0 /\ shook = 0 /\ ran = 0

-----------------------------------------------------------------------------
(* Closing and sending, under ConnectionMutex.                             *)

(* Mutant: the socket is freed at once.                                    *)
FreeClient ==
  /\ freed' = IF client = None THEN freed ELSE freed \cup {client}
  /\ UNCHANGED parked

(* Parking never frees: the reader may be inside Recv on this socket.      *)
ParkClient ==
  /\ parked' = IF client = None THEN parked ELSE parked \cup {client}
  /\ UNCHANGED freed

(* The locked half of CloseActiveConnection.  Whatever is in the slot by   *)
(* now is closed, even if the caller meant an earlier connection.          *)
CloseActiveLocked ==
  /\ ParkClient
  /\ client' = None
  /\ handshakeOk' = FALSE
  /\ UNCHANGED gen

DropConnectionLocked ==
  /\ ParkClient
  /\ client' = None
  /\ handshakeOk' = FALSE
  /\ hbStop' = TRUE
  /\ UNCHANGED gen

(* SendFramedLocked: nothing without a client; otherwise the frame goes    *)
(* out, carrying configuration c unless c = 0, or the send fails and the   *)
(* connection is dropped.                                                  *)
SendFramed(c) ==
  \/ /\ clientConnected
     /\ lastCfg' = IF c = 0 THEN lastCfg ELSE c
     /\ UNCHANGED <<slot, socks, hbStop>>
  \/ clientConnected /\ DropConnectionLocked /\ UNCHANGED lastCfg
  \/ ~clientConnected /\ UNCHANGED <<slot, socks, hbStop, lastCfg>>

-----------------------------------------------------------------------------
(* The accept thread.                                                      *)

HandleConnectionAccepted ==
  /\ acc = "idle" /\ gen < MaxGen
  /\ sd \in {"up", "bye", "stopHb", "joinHb", "stopAccept"}
  /\ ParkClient
  /\ gen' = gen + 1
  /\ client' = gen + 1
  /\ handshakeOk' = FALSE
  /\ hbStop' = TRUE
  /\ acc' = "stamp"
  /\ mute' = FALSE
  /\ lastCfg' = 0
  /\ UNCHANGED <<rpc, reader, hb, quiet, game, hist>>

(* LastActivitySeconds is set after ConnectionMutex is released.           *)
StampAccepted ==
  /\ acc = "stamp"
  /\ acc' = "idle"
  /\ quiet' = FALSE
  /\ UNCHANGED <<slot, socks, rpc, reader, hb, hbStop, mute, game, lastCfg, hist>>

-----------------------------------------------------------------------------
(* The reader thread: Run.                                                 *)

(* Mutants: parked sockets are left to Shutdown; the stop flag is not      *)
(* looked at.                                                              *)
DrainNothing ==
  /\ rpc = "top"
  /\ rpc' = IF stopRequested THEN "exited" ELSE "snap"
  /\ UNCHANGED <<slot, socks, acc, reader, hb, hbStop, time, game, lastCfg, hist>>

DrainForEver ==
  /\ rpc = "top"
  /\ rpc' = "snap" /\ freed' = freed \cup parked /\ parked' = {}
  /\ UNCHANGED <<slot, acc, reader, hb, hbStop, time, game, lastCfg, hist>>

(* The top of the loop: stop, or free what was parked.                     *)
DrainPendingDestroy ==
  /\ rpc = "top"
  /\ \/ stopRequested /\ rpc' = "exited" /\ UNCHANGED socks
     \/ ~stopRequested /\ rpc' = "snap" /\ freed' = freed \cup parked /\ parked' = {}
  /\ UNCHANGED <<slot, acc, reader, hb, hbStop, time, game, lastCfg, hist>>

(* Mutant: the accumulator is not reset.                                   *)
SnapshotKeepsBytes ==
  /\ rpc = "snap"
  /\ rGen' = gen
  /\ rpc' = IF client = None THEN "top" ELSE "deadline"
  /\ UNCHANGED <<slot, socks, acc, partial, rRes, lines, rCfg, hb, hbStop, time, game,
                 lastCfg, hist>>

(* Snapshot the connection; a new generation resets the accumulator.       *)
SnapshotConnection ==
  /\ rpc = "snap"
  /\ rGen' = gen
  /\ partial' = IF gen # rGen THEN {} ELSE partial
  /\ rpc' = IF client = None THEN "top" ELSE "deadline"
  /\ UNCHANGED <<slot, socks, acc, rRes, lines, rCfg, hb, hbStop, time, game, lastCfg,
                 hist>>

(* Mutant: there is no deadline.                                           *)
NoDeadline ==
  /\ rpc = "deadline" /\ ~handshakeOk
  /\ rpc' = "recv"
  /\ UNCHANGED <<slot, socks, acc, reader, hb, hbStop, time, game, lastCfg, hist>>

(* A connection without a handshake may be over its ten seconds, or not.   *)
PreHandshakeDeadline ==
  /\ rpc = "deadline" /\ ~handshakeOk
  /\ rpc' = "close"
  /\ UNCHANGED <<slot, socks, acc, reader, hb, hbStop, time, game, lastCfg, hist>>

WithinDeadline ==
  /\ rpc = "deadline"
  /\ rpc' = "recv"
  /\ UNCHANGED <<slot, socks, acc, reader, hb, hbStop, time, game, lastCfg, hist>>

(* Wait and Recv on the snapshot's socket, with no lock held: no data yet, *)
(* an error or end of stream, or data that completes some lines and may    *)
(* leave a partial one.                                                    *)
Recv ==
  /\ rpc = "recv"
  /\ \/ rpc' = "top" /\ UNCHANGED <<rRes, lines>>
     \/ /\ ~(mute /\ rGen = gen)
        /\ rpc' = "recheck"
        /\ \/ rRes' = "dead" /\ UNCHANGED lines
           \/ rRes' = "whole" /\ lines' \in Batches \ {<<>>}
           \/ rRes' = "partial" /\ lines' \in Batches
  /\ UNCHANGED <<slot, socks, acc, rGen, partial, rCfg, hb, hbStop, time, game, lastCfg,
                 hist>>

(* The generation is looked at again before the bytes are believed; a      *)
(* frame over the size cap ends like a dead peer, but counts as activity.  *)
RecheckGeneration ==
  /\ rpc = "recheck"
  /\ rRes' = "none"
  /\ \/ /\ gen # rGen
        /\ rpc' = "top"
        /\ lines' = <<>>
        /\ UNCHANGED <<partial, quiet>>
     \/ /\ gen = rGen /\ rRes = "dead"
        /\ rpc' = "close"
        /\ lines' = <<>>
        /\ quiet' \in {quiet, FALSE}
        /\ UNCHANGED partial
     \/ /\ gen = rGen /\ rRes # "dead"
        /\ rpc' = "lines"
        /\ quiet' = FALSE
        /\ partial' = (IF lines = <<>> THEN partial ELSE {})
                        \cup (IF rRes = "partial" THEN {rGen} ELSE {})
        /\ UNCHANGED lines
  /\ UNCHANGED <<slot, socks, acc, rGen, rCfg, hb, hbStop, mute, game, lastCfg,
                 hist>>

(* CloseActiveConnection on the reader: the heartbeat's flag first, ...    *)
ReaderClose ==
  /\ rpc = "close"
  /\ hbStop' = TRUE
  /\ rpc' = "closeLocked"
  /\ UNCHANGED <<slot, socks, acc, reader, hb, time, game, lastCfg, hist>>

(* ... then the slot, under the mutex.                                     *)
ReaderCloseLocked ==
  /\ rpc = "closeLocked"
  /\ CloseActiveLocked
  /\ rpc' = "lines"
  /\ UNCHANGED <<acc, reader, hb, hbStop, time, game, lastCfg, hist>>

-----------------------------------------------------------------------------
(* The reader thread: HandleLine and HandleHandshake.                      *)

NextLine(kind) == rpc = "lines" /\ lines # <<>> /\ Head(lines) = kind /\ lines' = Tail(lines)

LinesDone ==
  /\ rpc = "lines" /\ lines = <<>>
  /\ rpc' = "top"
  /\ UNCHANGED <<slot, socks, acc, reader, hb, hbStop, time, game, lastCfg, hist>>

(* Anything but a handshake: dropped by the gate, or honoured.             *)
HandleRequest ==
  /\ NextLine("request")
  /\ ran' = IF handshakeOk THEN rGen ELSE ran
  /\ UNCHANGED <<slot, socks, acc, rpc, rGen, partial, rRes, rCfg, hb, hbStop, time, game,
                 lastCfg, shook>>

RejectHandshake ==
  /\ NextLine("badToken")
  /\ rpc' = "close"
  /\ UNCHANGED <<slot, socks, acc, rGen, partial, rRes, rCfg, hb, hbStop, time, game,
                 lastCfg, hist>>

(* Mutant: the generation is not looked at again.                          *)
AcceptAnyHandshake ==
  /\ NextLine("handshake")
  /\ handshakeOk' = TRUE
  /\ shook' = rGen
  /\ rpc' = "ackBuild"
  /\ UNCHANGED <<client, gen, socks, acc, rGen, partial, rRes, rCfg, hb, hbStop, time,
                 game, lastCfg, ran>>

(* A valid token flips bHandshakeOk under ConnectionMutex, unless another  *)
(* connection has taken the slot since the line was read.                  *)
AcceptHandshake ==
  /\ NextLine("handshake")
  /\ \/ gen # rGen /\ UNCHANGED <<handshakeOk, rpc, shook>>
     \/ /\ gen = rGen
        /\ handshakeOk' = TRUE
        /\ shook' = rGen
        /\ rpc' = "ackBuild"
  /\ UNCHANGED <<client, gen, socks, acc, rGen, partial, rRes, rCfg, hb, hbStop, time,
                 game, lastCfg, ran>>

(* SendHandshakeAck takes the configuration under ConfigMutex and only     *)
(* then waits for WriteMutex.                                              *)
BuildHandshakeAck ==
  /\ rpc = "ackBuild"
  /\ rCfg' = cfg
  /\ rpc' = "ackSend"
  /\ UNCHANGED <<slot, socks, acc, rGen, partial, rRes, lines, hb, hbStop, time, game,
                 lastCfg, hist>>

SendHandshakeAck ==
  /\ rpc = "ackSend"
  /\ SendFramed(rCfg)
  /\ rCfg' = 0
  /\ rpc' = "manifests"
  /\ UNCHANGED <<acc, rGen, partial, rRes, lines, hb, time, game, hist>>

(* WriteMutex is taken for the three manifests and the configuration;      *)
(* ConnectionMutex is released between the frames.                         *)
SendManifestsLocked ==
  /\ rpc = "manifests"
  /\ SendFramed(0)
  /\ rpc' = "cfgBuild"
  /\ UNCHANGED <<acc, reader, hb, time, game, hist>>

(* Mutant: the configuration of the ack is thought enough.                 *)
SkipConfig ==
  /\ rpc = "cfgBuild"
  /\ rCfg' = cfg
  /\ rpc' = "hbStop"
  /\ UNCHANGED <<slot, socks, acc, rGen, partial, rRes, lines, hb, hbStop, time, game,
                 lastCfg, hist>>

(* SendConfigLocked: nothing when there is no configuration.               *)
BuildConfig ==
  /\ rpc = "cfgBuild"
  /\ rCfg' = cfg
  /\ rpc' = IF cfg = 0 THEN "hbStop" ELSE "cfgSend"
  /\ UNCHANGED <<slot, socks, acc, rGen, partial, rRes, lines, hb, hbStop, time, game,
                 lastCfg, hist>>

SendConfigLocked ==
  /\ rpc = "cfgSend"
  /\ SendFramed(rCfg)
  /\ rCfg' = 0
  /\ rpc' = "hbStop"
  /\ UNCHANGED <<acc, rGen, partial, rRes, lines, hb, time, game, hist>>

(* StartHeartbeat: stop the previous thread, join it, launch a new one.    *)
RetireHeartbeat ==
  /\ rpc = "hbStop"
  /\ hbStop' = TRUE
  /\ rpc' = "hbJoin"
  /\ UNCHANGED <<slot, socks, acc, reader, hb, time, game, lastCfg, hist>>

(* Mutant: the flag that retired the previous thread stays up.             *)
StartStopped ==
  /\ rpc = "hbJoin" /\ hb = "off"
  /\ hb' = "loop"
  /\ rpc' = "lines"
  /\ UNCHANGED <<slot, socks, acc, reader, hbStop, time, game, lastCfg, hist>>

StartHeartbeat ==
  /\ rpc = "hbJoin" /\ hb = "off"
  /\ hbStop' = FALSE
  /\ hb' = "loop"
  /\ rpc' = "lines"
  /\ UNCHANGED <<slot, socks, acc, reader, time, game, lastCfg, hist>>

-----------------------------------------------------------------------------
(* The heartbeat thread, one half-second tick at a time.                   *)

HeartbeatExit ==
  /\ hb = "loop" /\ (hbStop \/ stopRequested)
  /\ hb' = "off"
  /\ UNCHANGED <<slot, socks, acc, rpc, reader, hbStop, time, game, lastCfg, hist>>

HeartbeatLooks ==
  hb = "loop" /\ ~hbStop /\ ~stopRequested /\ clientConnected /\ handshakeOk

(* Silent for too long: CloseActiveConnection, flag first ...              *)
HeartbeatDrop ==
  /\ HeartbeatLooks /\ quiet
  /\ hbStop' = TRUE
  /\ hb' = "close"
  /\ UNCHANGED <<slot, socks, acc, rpc, reader, time, game, lastCfg, hist>>

(* ... then the slot; the thread ends.                                     *)
HeartbeatCloseLocked ==
  /\ hb = "close"
  /\ CloseActiveLocked
  /\ hb' = "off"
  /\ UNCHANGED <<acc, rpc, reader, hbStop, time, game, lastCfg, hist>>

HeartbeatPing ==
  /\ HeartbeatLooks /\ ~quiet /\ WriteMutexFree
  /\ SendFramed(0)
  /\ UNCHANGED <<acc, rpc, reader, hb, time, game, hist>>

-----------------------------------------------------------------------------
(* The game thread and the threads that answer calls.                      *)

(* SetEffectiveConfig stores the new configuration, then pushes it.        *)
SetEffectiveConfig ==
  /\ wpc = "idle" /\ sd = "up" /\ cfg < MaxCfg
  /\ cfg' = cfg + 1
  /\ wpc' = "check"
  /\ UNCHANGED <<slot, socks, acc, rpc, reader, hb, hbStop, time, sd, lastCfg, hist>>

(* PushConfig looks at the flags without a lock ...                        *)
PushConfigCheck ==
  /\ wpc = "check"
  /\ wpc' = IF clientConnected /\ handshakeOk THEN "push" ELSE "idle"
  /\ UNCHANGED <<slot, socks, acc, rpc, reader, hb, hbStop, time, cfg, sd, lastCfg, hist>>

(* ... and sends under WriteMutex, to whichever client is there by then.   *)
PushConfig ==
  /\ wpc = "push" /\ WriteMutexFree
  /\ SendFramed(cfg)
  /\ wpc' = "idle"
  /\ UNCHANGED <<acc, rpc, reader, hb, time, cfg, sd, hist>>

(* Every other sender: a call's response, a manifest push, an auth or an   *)
(* agent-config request.  Their unlocked look at the flags guards nothing  *)
(* by the time they send, so a send may come at any moment.                *)
SendMessage ==
  /\ WriteMutexFree
  /\ SendFramed(0)
  /\ UNCHANGED <<acc, rpc, reader, hb, time, game, hist>>

-----------------------------------------------------------------------------
(* Shutdown, on the game thread.                                           *)

ShutdownStep(from, to) ==
  /\ sd = from
  /\ sd' = to
  /\ UNCHANGED <<acc, rpc, reader, hb, time, cfg, wpc, hist>>

BeginShutdown ==
  /\ wpc = "idle"
  /\ ShutdownStep("up", "bye")
  /\ UNCHANGED <<slot, socks, hbStop, lastCfg>>

SendBye ==
  /\ ShutdownStep("bye", "stopHb")
  /\ \/ clientConnected /\ handshakeOk /\ WriteMutexFree /\ SendFramed(0)
     \/ ~(clientConnected /\ handshakeOk) /\ UNCHANGED <<slot, socks, hbStop, lastCfg>>

(* StopHeartbeat: the flag, then the join.                                 *)
ShutdownStopHeartbeat ==
  /\ ShutdownStep("stopHb", "joinHb")
  /\ hbStop' = TRUE
  /\ UNCHANGED <<slot, socks, lastCfg>>

ShutdownJoinHeartbeat ==
  /\ hb = "off"
  /\ ShutdownStep("joinHb", "stopAccept")
  /\ UNCHANGED <<slot, socks, hbStop, lastCfg>>

(* Deleting the listener joins its accept thread.                          *)
ShutdownStopAccept ==
  /\ acc = "idle"
  /\ ShutdownStep("stopAccept", "joinReader")
  /\ UNCHANGED <<slot, socks, hbStop, lastCfg>>

(* Mutant: the reader is not waited for.                                   *)
ForgetReader ==
  /\ ShutdownStep("joinReader", "close")
  /\ UNCHANGED <<slot, socks, hbStop, lastCfg>>

ShutdownJoinReader ==
  /\ rpc = "exited"
  /\ ShutdownStep("joinReader", "close")
  /\ UNCHANGED <<slot, socks, hbStop, lastCfg>>

(* CloseActiveConnection, after the in-flight calls have been waited for   *)
(* (module CallDispatch).                                                  *)
ShutdownClose ==
  /\ ShutdownStep("close", "drain")
  /\ hbStop' = TRUE
  /\ CloseActiveLocked
  /\ UNCHANGED lastCfg

ShutdownDrain ==
  /\ ShutdownStep("drain", "done")
  /\ freed' = freed \cup parked
  /\ parked' = {}
  /\ UNCHANGED <<slot, hbStop, lastCfg>>

-----------------------------------------------------------------------------
(* Time and the peer.                                                      *)

FifteenSecondsSilent ==
  /\ ~quiet /\ clientConnected
  /\ quiet' = TRUE
  /\ UNCHANGED <<slot, socks, acc, rpc, reader, hb, hbStop, mute, game, lastCfg,
                 hist>>

(* The peer hangs, or its machine sleeps: nothing more is ever received.   *)
PeerGoesMute ==
  /\ MayHang /\ clientConnected /\ ~mute
  /\ mute' = TRUE
  /\ UNCHANGED <<slot, socks, acc, rpc, reader, hb, hbStop, quiet, game, lastCfg,
                 hist>>

-----------------------------------------------------------------------------
Accept == HandleConnectionAccepted \/ StampAccepted

Reader ==
  \/ DrainPendingDestroy \/ SnapshotConnection \/ PreHandshakeDeadline
  \/ WithinDeadline \/ Recv
  \/ RecheckGeneration \/ ReaderClose \/ ReaderCloseLocked
  \/ LinesDone \/ HandleRequest \/ RejectHandshake \/ AcceptHandshake
  \/ BuildHandshakeAck \/ SendHandshakeAck \/ SendManifestsLocked \/ BuildConfig
  \/ SendConfigLocked \/ RetireHeartbeat \/ StartHeartbeat

Heartbeat == HeartbeatExit \/ HeartbeatDrop \/ HeartbeatCloseLocked \/ HeartbeatPing

ConfigPush == PushConfigCheck \/ PushConfig

Shutdown ==
  \/ SendBye \/ ShutdownStopHeartbeat \/ ShutdownJoinHeartbeat \/ ShutdownStopAccept
  \/ ShutdownJoinReader \/ ShutdownClose \/ ShutdownDrain

Next ==
  \/ Accept \/ Reader \/ Heartbeat
  \/ SetEffectiveConfig \/ ConfigPush \/ SendMessage
  \/ BeginShutdown \/ Shutdown
  \/ FifteenSecondsSilent \/ PeerGoesMute

Spec == Init /\ [][Next]_vars

(* Threads keep running and time passes, so that a connection that never   *)
(* handshakes is over its deadline at some turn of the reader's loop;      *)
(* nobody has to dial, to configure, to shut down or to die.               *)
Fairness ==
  /\ WF_vars(StampAccepted) /\ WF_vars(Reader) /\ WF_vars(Heartbeat)
  /\ WF_vars(Shutdown)
  /\ WF_vars(FifteenSecondsSilent) /\ SF_vars(PreHandshakeDeadline)

FairSpec == Spec /\ Fairness

-----------------------------------------------------------------------------
(* Properties.                                                             *)

TypeOK ==
  /\ client \in 0..MaxGen /\ gen \in 0..MaxGen /\ handshakeOk \in BOOLEAN
  /\ parked \subseteq Gens /\ freed \subseteq Gens
  /\ acc \in {"idle", "stamp"}
  /\ rpc \in ReaderPcs
  /\ rGen \in 0..MaxGen /\ partial \subseteq 0..MaxGen
  /\ rRes \in {"none", "dead", "whole", "partial"}
  /\ lines \in Seq(LineKinds)
  /\ rCfg \in 0..MaxCfg
  /\ hb \in {"off", "loop", "close"} /\ hbStop \in BOOLEAN
  /\ quiet \in BOOLEAN /\ mute \in BOOLEAN
  /\ cfg \in 0..MaxCfg /\ wpc \in {"idle", "check", "push"}
  /\ sd \in {"up", "bye", "stopHb", "joinHb", "stopAccept", "joinReader", "close",
             "drain", "done"}
  /\ lastCfg \in 0..MaxCfg
  /\ shook \in 0..MaxGen /\ ran \in 0..MaxGen

(* A socket is never freed under a thread that uses it: neither the one in *)
(* the slot, which any sender may be writing to, nor the one the reader is *)
(* in Wait or Recv on; and every accepted socket is in the slot, parked or *)
(* freed, so none leaks (the second-connection use-after-free of           *)
(* UnrealMcpBridgeServer.h:239).                                           *)
SocketOwnership ==
  /\ client \notin freed \cup parked
  /\ rpc \in {"deadline", "recv"} => rGen \notin freed
  /\ parked \cap freed = {}
  /\ 1..gen = parked \cup freed \cup ({client} \ {None})

(* The link counts as authenticated only while the connection that         *)
(* presented the token is still the newest one, and a request is honoured  *)
(* only for a connection that presented it (HandleLine's gate and          *)
(* HandleHandshake's re-check of the generation).                          *)
HandshakeBelongsToLink ==
  /\ handshakeOk => shook = gen
  /\ ran <= shook

(* Bytes are pushed into the accumulator only after bytes of the same      *)
(* connection, so no line is spliced from two of them (Run's reset).       *)
LineIntegrity == rpc \in {"recv", "recheck"} => partial \subseteq {rGen}

(* Once a handshake is through, the link has a heartbeat thread that has   *)
(* not been told to stop, unless some thread is just closing the link: a   *)
(* link without one would never notice that its peer hung (the flag        *)
(* bHeartbeatStop is written by every thread, in both directions).         *)
HeartbeatGuardsLink ==
  (clientConnected /\ handshakeOk /\ ~stopRequested /\ rpc \notin HandshakePcs)
    => \/ hb = "loop" /\ ~hbStop
       \/ hb = "close"
       \/ rpc = "closeLocked"

(* Whenever no configuration is on its way, the last one delivered on an   *)
(* authenticated link is the current one, however edits, handshakes and    *)
(* reconnects interleave (SetEffectiveConfig, SendHandshakeAck and         *)
(* SendConfigLocked).                                                      *)
ConfigConverges ==
  (clientConnected /\ handshakeOk /\ cfg > 0 /\ wpc = "idle" /\ rpc \notin HandshakePcs)
    => lastCfg = cfg

(* When Shutdown returns, the reader is gone and every socket is freed.    *)
ShutdownReleasesSockets ==
  sd = "done" => rpc = "exited" /\ acc = "idle" /\ client = None /\ freed = 1..gen

(* A peer that died silently does not hold the single slot for ever,       *)
(* whether it died before its handshake or after.                          *)
DeadPeerDropped == []<>~(clientConnected /\ mute)

(* A closed or replaced socket is given back to the system in the end,     *)
(* through the reader or through Shutdown: none stays parked, and with     *)
(* SocketOwnership what is neither parked nor in the slot is freed.        *)
ParkedIsFreed == \A g \in Gens : []<>(g \notin parked)

(* Shutdown's joins never wait on one another: once begun, it returns.     *)
ShutdownTerminates == []<>(sd \in {"up", "done"})

=============================================================================
