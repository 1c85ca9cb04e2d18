------------------------- MODULE ConfigTransitions -------------------------
(***************************************************************************)
(* The sidecar's SignalR link and the configuration that commands it       *)
(* (bridge/src/Host/SidecarHost.cs).                                       *)
(*                                                                         *)
(* The plugin holds the configuration the user wants.  Over the IPC link   *)
(* it travels twice: inside the handshake ack, and as a `config` message   *)
(* after every handshake and every edit.  The reader loop handles `config` *)
(* messages; the ack is handled by a continuation on another thread.  Both *)
(* write the host's one copy of the configuration, and both (with the      *)
(* sign-in flow) submit connection transitions, which run one at a time,   *)
(* each submission cancelling the one before it.                           *)
(*                                                                         *)
(* Bounds: MaxEdits user edits, MaxDials IPC connections, MaxSignIns       *)
(* completed sign-ins.                                                     *)
(***************************************************************************)
EXTENDS Naturals, Sequences, SequencesExt

CONSTANTS Hosts, Unset, SavedKeep, MaxEdits, MaxDials, MaxSignIns

ASSUME HostsAssumption == Hosts # {} /\ Unset \notin Hosts /\ SavedKeep \subseteq BOOLEAN /\ SavedKeep # {}
ASSUME BoundsAssumption ==
    MaxEdits \in Nat /\ MaxDials \in Nat /\ MaxSignIns \in Nat

\* No message carries it: Unset is the host before any configuration arrived.
NoConfig == [keep |-> FALSE, host |-> Unset]

Configs == [keep : BOOLEAN, host : Hosts]

Kinds == {"connect", "reconnect", "disconnect"}

VARIABLES
    want,           \* the plugin's effective configuration
    ipc,            \* the IPC link: "down", "dialed" or "up"
    wire,           \* what the plugin has sent on it and the reader has not read
    ack,            \* the configuration of a dispatched ack, NoConfig after its continuation applied it
    ackConnects,    \* the continuation has applied it and has not yet reached the connect
    push,           \* OnConfigReceived in progress on the reader thread
    signIn,         \* CommitAuthorizedSessionAsync in progress: "none" or "armed"
    config,         \* the host's _config
    connectStarted, \* _signalRConnectStarted
    transitions,    \* the unfinished transitions, in submission order
    link,           \* the McpPlugin client
    last,           \* history: the kind submitted last, "none" before the first, "failed" when its dial threw
    held,           \* history: the hosts _config has held since that submission
    rewritten,      \* history: an ack raced a push, or changed the configuration of a live host
    edits, dials, signIns

ipcVars == <<want, ipc, wire>>
hostVars == <<ack, ackConnects, push, signIn, config, connectStarted>>
queueVars == <<transitions, last>>
history == <<held, rewritten>>
counters == <<edits, dials, signIns>>
vars == <<ipcVars, hostVars, queueVars, link, history, counters>>

Idle == [at |-> "idle", new |-> NoConfig, prior |-> NoConfig]

Init ==
    /\ want \in [keep : SavedKeep, host : Hosts]
    /\ ipc = "down" /\ wire = <<>>
    /\ ack = NoConfig /\ ackConnects = FALSE /\ push = Idle /\ signIn = "none"
    /\ config = [keep |-> TRUE, host |-> Unset] /\ connectStarted = FALSE
    /\ transitions = <<>> /\ last = "none" /\ held = {Unset} /\ rewritten = FALSE
    /\ link = [state |-> "down", host |-> Unset]
    /\ edits = 0 /\ dials = 0 /\ signIns = 0

----------------------------------------------------------------------------
(* The plugin and the IPC link.                                            *)

\* SetEffectiveConfig, then PushConfig, which drops the message when no
\* sidecar is authenticated.
PluginEdits ==
    /\ edits < MaxEdits /\ edits' = edits + 1
    /\ want' \in Configs \ {want}
    /\ wire' = IF ipc = "up" THEN Append(wire, [type |-> "config", config |-> want']) ELSE wire
    /\ UNCHANGED <<ipc, hostVars, queueVars, link, history, dials, signIns>>

\* The next dial: the previous connection's reader and continuation are over.
IpcDial ==
    /\ ipc = "down" /\ dials < MaxDials /\ dials' = dials + 1
    /\ ack = NoConfig /\ ~ackConnects /\ push = Idle
    /\ ipc' = "dialed"
    /\ UNCHANGED <<want, wire, hostVars, queueVars, link, history, edits, signIns>>

\* The plugin accepts the handshake: the ack, then the configuration again.
PluginAccepts ==
    /\ ipc = "dialed"
    /\ ipc' = "up"
    /\ wire' = <<[type |-> "ack", config |-> want], [type |-> "config", config |-> want]>>
    /\ UNCHANGED <<want, hostVars, queueVars, link, history, counters>>

\* The socket is lost, with whatever the reader has not read.
IpcDrops ==
    /\ ipc # "down"
    /\ ipc' = "down" /\ wire' = <<>>
    /\ UNCHANGED <<want, hostVars, queueVars, link, history, counters>>

----------------------------------------------------------------------------
(* Transitions: RunConnectionTransition and the bodies it runs.            *)

LeaveLast(ts) == ts
\* The in-flight transition is cancelled, never the new one.
CancelLast(ts) == [i \in DOMAIN ts |-> IF i = Len(ts) THEN [ts[i] EXCEPT !.cancelled = TRUE] ELSE ts[i]]

Submit(kind) ==
    /\ transitions' = Append(CancelLast(transitions), [kind |-> kind, cancelled |-> FALSE, at |-> "queued"])
    /\ last' = kind
    /\ held' = {config.host} /\ UNCHANGED rewritten

NoSubmit == UNCHANGED <<transitions, last, history>>

RunsAtOnce(i) == TRUE
\* Each transition continues the previous one's task.
Runnable(i) == i = 1

Goto(i, where) == transitions' = [transitions EXCEPT ![i].at = where]
Finish(i) == transitions' = RemoveAt(transitions, i)

Begin(i) ==
    /\ Runnable(i) /\ transitions[i].at = "queued"
    /\ Goto(i, IF transitions[i].kind = "connect" THEN "connect" ELSE "disconnect")
    /\ UNCHANGED <<ipcVars, hostVars, link, last, history, counters>>

\* plugin.Disconnect(ct): a cancelled token may stop it before it tears down.
PluginDisconnect(i) ==
    /\ transitions[i].at = "disconnect"
    /\ link' \in {[state |-> "down", host |-> Unset]}
                 \cup (IF transitions[i].cancelled THEN {link} ELSE {})
    /\ IF transitions[i].kind = "disconnect" THEN Finish(i) ELSE Goto(i, "connect")
    /\ UNCHANGED <<ipcVars, hostVars, last, history, counters>>

\* plugin.Connect(ct): at once on a live link, false on a cancelled token,
\* else the connection loop dials the host the configuration now has.
PluginConnect(i) ==
    /\ transitions[i].at = "connect"
    /\ IF transitions[i].cancelled \/ link.state # "down"
         THEN Finish(i) /\ UNCHANGED link
         ELSE Goto(i, "dialing") /\ link' = [state |-> "dialing", host |-> config.host]
    /\ UNCHANGED <<ipcVars, hostVars, last, history, counters>>

\* The connection is made, or Connect returns false and the client keeps retrying.
DialReturns(i) ==
    /\ transitions[i].at = "dialing" /\ link.state = "dialing"
    /\ \E state \in {"up", "lost"} : link' = [link EXCEPT !.state = state]
    /\ Finish(i)
    /\ UNCHANGED <<ipcVars, hostVars, last, history, counters>>

\* The loop's next attempt, against the host the configuration has by then.
DialRetries(i) ==
    /\ transitions[i].at = "dialing" /\ ~transitions[i].cancelled
    /\ link.state = "dialing" /\ link.host # config.host
    /\ link' = [link EXCEPT !.host = config.host]
    /\ UNCHANGED <<ipcVars, hostVars, queueVars, history, counters>>

DialAbandoned(i) ==
    /\ transitions[i].at = "dialing" /\ transitions[i].cancelled
    /\ link' = [state |-> "down", host |-> Unset]
    /\ Finish(i)
    /\ UNCHANGED <<ipcVars, hostVars, last, history, counters>>

\* Connect throws though nothing cancelled it: logged, and nothing dials again.
DialThrows(i) ==
    /\ transitions[i].at = "dialing" /\ ~transitions[i].cancelled
    /\ link' = [state |-> "down", host |-> Unset]
    /\ Finish(i) /\ last' = "failed"
    /\ UNCHANGED <<ipcVars, hostVars, history, counters>>

\* The transport drops; the client redials the same host by itself.
TransportDrops ==
    /\ link.state = "up"
    /\ link' = [link EXCEPT !.state = "lost"]
    /\ UNCHANGED <<ipcVars, hostVars, queueVars, history, counters>>

TransportRecovers ==
    /\ link.state = "lost"
    /\ link' = [link EXCEPT !.state = "up"]
    /\ UNCHANGED <<ipcVars, hostVars, queueVars, history, counters>>

Step(i) ==
    \/ Begin(i) \/ PluginDisconnect(i) \/ PluginConnect(i)
    \/ DialReturns(i) \/ DialRetries(i) \/ DialAbandoned(i) \/ DialThrows(i)

----------------------------------------------------------------------------
(* The handshake ack: dispatched by the reader, handled elsewhere.         *)

ReadAck ==
    /\ push = Idle /\ wire # <<>> /\ Head(wire).type = "ack"
    /\ ack' = Head(wire).config
    /\ wire' = Tail(wire)
    /\ UNCHANGED <<want, ipc, ackConnects, push, signIn, config, connectStarted, queueVars, link, history, counters>>

ApplyConnectionConfig(c) ==
    /\ config' = c
    /\ held' = held \cup {c.host}

AckApplies ==
    /\ ack # NoConfig
    /\ ApplyConnectionConfig(ack)
    /\ rewritten' = (rewritten \/ (connectStarted /\ ack # config))
    /\ ack' = NoConfig /\ ackConnects' = TRUE
    /\ UNCHANGED <<ipcVars, push, signIn, connectStarted, queueVars, link, counters>>

\* Only the first ack connects, whatever keepConnected says.
OnHandshakeAccepted ==
    /\ ackConnects /\ ackConnects' = FALSE
    /\ connectStarted' = TRUE
    /\ IF connectStarted THEN NoSubmit ELSE Submit("connect")
    /\ UNCHANGED <<ipcVars, ack, push, signIn, config, link, counters>>

----------------------------------------------------------------------------
(* A `config` message: OnConfigReceived, on the reader thread.             *)

ReadConfig ==
    /\ push = Idle /\ wire # <<>> /\ Head(wire).type = "config"
    /\ push' = [at |-> "apply", new |-> Head(wire).config, prior |-> config]
    /\ wire' = Tail(wire)
    /\ rewritten' = (rewritten \/ ack # NoConfig \/ ackConnects)
    /\ UNCHANGED <<want, ipc, ack, ackConnects, signIn, config, connectStarted, queueVars, link, held, counters>>

PushApplies ==
    /\ push.at = "apply"
    /\ ApplyConnectionConfig(push.new) /\ UNCHANGED rewritten
    /\ push' = [push EXCEPT !.at = "decide"]
    /\ UNCHANGED <<ipcVars, ack, ackConnects, signIn, connectStarted, queueVars, link, counters>>

EdgeOnly(was, now) ==
    IF was.keep /\ ~now.keep THEN "disconnect"
    ELSE IF ~was.keep /\ now.keep THEN "reconnect"
    ELSE "none"

DecideConfigTransition(was, now) ==
    IF was.keep /\ ~now.keep THEN "disconnect"
    ELSE IF now.keep /\ (~was.keep \/ was.host # now.host) THEN "reconnect"
    ELSE "none"

OnConfigReceived ==
    /\ push.at = "decide"
    /\ push' = Idle
    /\ LET kind == DecideConfigTransition(push.prior, config)
       IN  IF kind = "none" THEN NoSubmit ELSE Submit(kind)
    /\ UNCHANGED <<ipcVars, ack, ackConnects, signIn, config, connectStarted, link, counters>>

----------------------------------------------------------------------------
(* A completed sign-in or sign-out re-dials, on a task of its own.         *)

\* ReconnectAndEmitStatusAsync looks at keepConnected first: disarmed, it
\* does not dial.  The flow is started by a message behind the first `config`.
SignInLooks ==
    /\ signIn = "none" /\ signIns < MaxSignIns /\ signIns' = signIns + 1
    /\ config.keep /\ config.host # Unset
    /\ signIn' = "armed"
    /\ UNCHANGED <<ipcVars, ack, ackConnects, push, config, connectStarted, queueVars, link, history, edits, dials>>

SignInRedials ==
    /\ signIn = "armed" /\ signIn' = "none"
    /\ Submit("reconnect")
    /\ UNCHANGED <<ipcVars, ack, ackConnects, push, config, connectStarted, link, counters>>

----------------------------------------------------------------------------
Handlers ==
    ReadAck \/ AckApplies \/ OnHandshakeAccepted \/ ReadConfig \/ PushApplies \/ OnConfigReceived \/ SignInRedials

Next ==
    \/ PluginEdits \/ IpcDial \/ PluginAccepts \/ IpcDrops
    \/ Handlers \/ SignInLooks
    \/ TransportDrops \/ TransportRecovers
    \/ \E i \in DOMAIN transitions : Step(i)

Spec == Init /\ [][Next]_vars

\* The thread pool runs the handlers and the transitions' continuations, and a
\* teardown or a cancelled dial returns; a dial need never succeed.
FairSpec ==
    /\ Spec
    /\ WF_vars(Handlers)
    /\ WF_vars(\E i \in DOMAIN transitions : Begin(i) \/ PluginDisconnect(i) \/ PluginConnect(i))
    /\ WF_vars(\E i \in DOMAIN transitions : DialAbandoned(i))

----------------------------------------------------------------------------
(* Properties.                                                             *)

Transition == [kind : Kinds, cancelled : BOOLEAN, at : {"queued", "disconnect", "connect", "dialing"}]

HeldConfigs == [keep : BOOLEAN, host : Hosts \cup {Unset}]

\* Every variable keeps to its type, and only the newest transition is not cancelled.
TypeOK ==
    /\ want \in Configs
    /\ ipc \in {"down", "dialed", "up"}
    /\ wire \in Seq([type : {"ack", "config"}, config : Configs])
    /\ ack \in Configs \cup {NoConfig} /\ ackConnects \in BOOLEAN
    /\ push \in [at : {"idle", "apply", "decide"}, new : Configs \cup {NoConfig},
                 prior : HeldConfigs \cup {NoConfig}]
    /\ signIn \in {"none", "armed"}
    /\ config \in HeldConfigs /\ connectStarted \in BOOLEAN
    /\ transitions \in Seq(Transition)
    /\ \A i \in DOMAIN transitions : transitions[i].cancelled <=> i # Len(transitions)
    /\ link \in [state : {"down", "dialing", "up", "lost"}, host : Hosts \cup {Unset}]
    /\ last \in Kinds \cup {"none", "failed"} /\ held \subseteq Hosts \cup {Unset} /\ rewritten \in BOOLEAN
    /\ edits \in 0..MaxEdits /\ dials \in 0..MaxDials
    /\ signIns \in 0..MaxSignIns

\* RunConnectionTransition is last-write-wins: when every transition has ended,
\* a disconnect submitted last has left no link, and a re-dial submitted last
\* has left a link (live, or being retried) to a host the configuration has
\* held since the submission, never to one a superseded transition dialled;
\* when its own dial threw (SidecarHost.cs:1766-1770), none is left.
LastSubmissionWins ==
    transitions = <<>> =>
        /\ last \in {"disconnect", "failed"} => link.state = "down"
        /\ last = "reconnect" => link.state \in {"up", "lost"} /\ link.host \in held

\* A user's disconnect is not pinned behind a dial that never succeeds: it is
\* carried out, unless a newer transition supersedes it.
DisconnectIsCarriedOut == last = "disconnect" ~> link.state = "down" \/ last # "disconnect"

Settled ==
    /\ transitions = <<>> /\ wire = <<>> /\ push = Idle
    /\ ack = NoConfig /\ ~ackConnects /\ signIn = "none"

\* A change of host that arrives as a `config` message reaches SignalR: once
\* everything has settled a live link is to the host the configuration holds,
\* unless an ack raced a push or replaced the configuration without re-dialling.
PushedHostIsDialled ==
    Settled /\ ~rewritten /\ config.keep /\ link.state = "up" => link.host = config.host

\* The comment at SidecarHost.cs:813-815: a host change while armed must not
\* leave "SignalR bound to the stale endpoint".
LinkFollowsHost ==
    Settled /\ ipc = "up" /\ want.keep /\ link.state = "up" => link.host = want.host

============================================================================
