------------------------------- MODULE SignIn -------------------------------
(***************************************************************************)
(* Signing in to the account from the editor.  The window's view model     *)
(* (FUnrealMcpEditorViewModel, game thread) sends auth-start, auth-cancel, *)
(* auth-revoke and the configuration over the link; the sidecar's reader   *)
(* (SidecarHost.HandleAuthMessage, ApplyConnectionConfig) starts and       *)
(* cancels device-code flows, each of which runs on a task of its own      *)
(* (DeviceCodeAuthenticator.AuthorizeAsync, CommitAuthorizedSessionAsync)  *)
(* and reports back in device-auth and status frames.                      *)
(*                                                                         *)
(* The authorization server, the user in the browser and the machine       *)
(* credential store (a library) are the choices of Initiate, Poll, Commit  *)
(* and AccountReports.  A flow's number stands for the token it is issued. *)
(***************************************************************************)
EXTENDS Integers, Sequences

CONSTANTS
    MaxFlows,    \* device-code flows, the assisted one included
    MaxEvents,   \* bound: cancels, sign-outs, mode changes, losses of the link, account reports
    MaxBacklog,  \* bound: reports on their way to the view model; a sender waits
    MaxPolls     \* expires_in over the polling interval

ASSUME SignInAssumption ==
    /\ MaxFlows \in Nat \ {0} /\ MaxPolls \in Nat \ {0}
    /\ MaxEvents \in Nat /\ MaxBacklog \in Nat \ {0}

VARIABLES
    ui,         \* DeviceAuthState, bAuthStartQueued, bAccountSignedIn, AssistedAuthAttemptedReasons
    config,     \* Config.ConnectionMode and Config.CloudToken
    link,       \* the link is up and the handshake done
    toSidecar,  \* frames on their way to the sidecar's reader
    toPlugin,   \* frames on their way to the view model
    slot,       \* SidecarHost._isCloudMode and BearerToken
    flow,       \* the flows: where each task is, and what it carries
    current,    \* _authCts: the flow that auth-cancel cancels, 0 for none
    newest,     \* _transitionCts: the flow whose re-dial is the newest transition, else 0
    used        \* how much of each bound is spent

vars == <<ui, config, link, toSidecar, toPlugin, slot, flow, current, newest, used>>
editor == <<ui, config>>
host == <<slot, flow, current, newest>>

Flows == 1..MaxFlows
Modes == {"Cloud", "Custom"}
NoToken == 0
CustomToken == -1        \* the user's own token of Custom mode
Tokens == {NoToken} \cup Flows

Untouched == [pc |-> "none", cancelled |-> FALSE, polls |-> 0, claim |-> FALSE]

Frames == {[type |-> t] : t \in {"auth-start", "auth-cancel", "auth-revoke"}}
              \cup [type: {"config"}, mode: Modes, token: Tokens \cup {CustomToken}]
Reports == {[type |-> t] : t \in {"handshake", "pending", "failed"}}
              \cup [type: {"authorized"}, token: Flows]
              \cup [type: {"status"}, claim: {"Authorized", "SignInRequired"}]

Init ==
    /\ config = [mode |-> "Cloud", token |-> NoToken]  \* the sign-in row is shown in Cloud mode
    /\ ui = [state |-> "Idle", queued |-> FALSE, signedIn |-> FALSE, assisted |-> FALSE]
    /\ link = TRUE
    /\ toSidecar = <<>> /\ toPlugin = <<>>
    /\ slot = [cloud |-> TRUE, token |-> NoToken]
    /\ flow = [f \in Flows |-> Untouched]
    /\ current = 0 /\ newest = 0
    /\ used = [starts |-> 0, events |-> 0]

-----------------------------------------------------------------------------
(* The view model, on the game thread *)

\* SendToPlugin drops a frame when no link is up.
Report(frame) ==
    /\ Len(toPlugin) < MaxBacklog
    /\ toPlugin' = IF link THEN Append(toPlugin, frame) ELSE toPlugin

\* BuildEffectiveConnectionConfig: the mode and the token that goes with it, in one frame.
ConfigFrame(c) ==
    [type |-> "config", mode |-> c.mode,
     token |-> IF c.mode = "Cloud" THEN c.token ELSE CustomToken]

\* The frames one handler sends; without a link they are lost (SetEffectiveConfig
\* keeps the configuration for the next handshake).
Send(frames) == toSidecar' = IF link THEN toSidecar \o frames ELSE toSidecar

Start == [type |-> "auth-start"]
UiAt(s) == [ui EXCEPT !.state = s, !.queued = FALSE]

\* Authorize: at once when the link is up, else queued for the next handshake
\* while the sidecar is started, else failed because there is no sidecar to start.  The
\* window offers it in Cloud mode only; the view model and the control server do not ask.
Authorize ==
    /\ used.starts < MaxFlows
    /\ used' = [used EXCEPT !.starts = @ + 1]
    /\ Send(<<Start>>)
    /\ \/ link /\ ui' = UiAt("Pending")
       \/ ~link /\ ui' = [UiAt("Connecting") EXCEPT !.queued = TRUE]
       \/ ~link /\ ui' = UiAt("Failed")
    /\ UNCHANGED <<config, link, toPlugin, host>>

\* CancelAuth: back to Authorized when a token is stored, else to Idle.
CancelAuth ==
    /\ used.events < MaxEvents
    /\ used' = [used EXCEPT !.events = @ + 1]
    /\ ui' = UiAt(IF config.token = NoToken THEN "Idle" ELSE "Authorized")
    /\ Send(<<[type |-> "auth-cancel"]>>)
    /\ UNCHANGED <<config, link, toPlugin, host>>

\* Revoke: drops the stored token; the configuration follows only if there was one.
Revoke ==
    /\ used.events < MaxEvents
    /\ used' = [used EXCEPT !.events = @ + 1]
    /\ config' = [config EXCEPT !.token = NoToken]
    /\ ui' = [ui EXCEPT !.state = "Idle", !.signedIn = FALSE]
    /\ Send(<<[type |-> "auth-revoke"]>>
              \o IF config.token = NoToken THEN <<>> ELSE <<ConfigFrame(config')>>)
    /\ UNCHANGED <<link, toPlugin, host>>

SetConnectionMode(m) ==
    /\ m # config.mode
    /\ used.events < MaxEvents
    /\ used' = [used EXCEPT !.events = @ + 1]
    /\ config' = [config EXCEPT !.mode = m]
    /\ Send(<<ConfigFrame(config')>>)
    /\ UNCHANGED <<ui, link, toPlugin, host>>

\* NotifySidecarHandshakeComplete: a queued auth-start goes out.
OnHandshake ==
    IF ui.state = "Connecting" /\ ui.queued /\ link
    THEN ui' = UiAt("Pending") /\ Send(<<Start>>)
    ELSE UNCHANGED <<ui, toSidecar>>

\* TickAuthTimeout: the wait for a handshake is bounded.
TickAuthTimeout ==
    /\ ui.state = "Connecting"
    /\ ui' = UiAt("Failed")
    /\ UNCHANGED <<config, link, toSidecar, toPlugin, host, used>>

\* A flow in progress owns the indicator; the assisted sign-in is tried once a
\* session (a start past the bound counts as one that could not be sent).
HandleSignInRequired ==
    IF ui.state \in {"Pending", "Connecting"}
    THEN UNCHANGED <<ui, toSidecar, used>>
    ELSE LET assist == config.mode = "Cloud" /\ ~ui.assisted
             sent == assist /\ link /\ used.starts < MaxFlows
         IN
         /\ ui' = [ui EXCEPT !.state = IF sent THEN "Pending" ELSE "SignInRequired",
                             !.signedIn = FALSE,
                             !.assisted = @ \/ assist]
         /\ IF sent THEN Send(<<Start>>) ELSE UNCHANGED toSidecar
         /\ used' = [used EXCEPT !.starts = IF sent THEN @ + 1 ELSE @]

ApplyStatus(claim) ==
    /\ UNCHANGED config
    /\ IF claim = "Authorized"
       THEN /\ ui' = [ui EXCEPT !.state = "Authorized", !.signedIn = TRUE]
            /\ UNCHANGED <<toSidecar, used>>
       ELSE HandleSignInRequired

\* ApplyDeviceAuth, "authorized": ignored in Idle; the token is stored and
\* pushed only while the connection is still in Cloud mode.
ApplyAuthorized(token) ==
    IF ui.state = "Idle"
    THEN UNCHANGED <<editor, toSidecar>>
    ELSE /\ ui' = [ui EXCEPT !.state = "Authorized", !.signedIn = TRUE]
         /\ IF config.mode = "Cloud" /\ config.token # token
            THEN /\ config' = [config EXCEPT !.token = token]
                 /\ Send(<<ConfigFrame(config')>>)
            ELSE UNCHANGED <<config, toSidecar>>

ApplyReport ==
    /\ toPlugin # <<>>
    /\ toPlugin' = Tail(toPlugin)
    /\ UNCHANGED <<link, host>>
    /\ LET report == Head(toPlugin) IN
       \/ report.type = "handshake" /\ OnHandshake /\ UNCHANGED <<config, used>>
       \/ report.type = "status" /\ ApplyStatus(report.claim)
       \/ report.type = "authorized" /\ ApplyAuthorized(report.token) /\ UNCHANGED used
       \/ /\ report.type \in {"pending", "failed"}
          /\ ui' = [ui EXCEPT !.state = IF report.type = "pending" THEN "Pending" ELSE "Failed"]
          /\ UNCHANGED <<config, toSidecar, used>>

-----------------------------------------------------------------------------
(* The link *)

\* What the sidecar has not read is lost; of its reports a prefix has arrived.
LinkDrops ==
    /\ link /\ used.events < MaxEvents
    /\ link' = FALSE
    /\ used' = [used EXCEPT !.events = @ + 1]
    /\ toSidecar' = <<>>
    /\ \E n \in 0..Len(toPlugin) : toPlugin' = SubSeq(toPlugin, 1, n)
    /\ UNCHANGED <<editor, host>>

\* The next handshake brings the configuration and tells the view model.
LinkUp ==
    /\ ~link
    /\ link' = TRUE
    /\ toSidecar' = <<ConfigFrame(config)>>
    /\ toPlugin' = Append(toPlugin, [type |-> "handshake"])
    /\ UNCHANGED <<editor, host, used>>

-----------------------------------------------------------------------------
(* The sidecar's reader *)

\* ApplyConnectionConfig: mode and token change together, under the slot's lock.
ApplyConnectionConfig(frame) ==
    /\ slot' = [cloud |-> frame.mode = "Cloud", token |-> frame.token]
    /\ UNCHANGED <<flow, current, newest>>

\* Cancelling a flow that is over does nothing.
CancelFlow(f) ==
    [g \in Flows |-> IF g = f /\ flow[g].pc # "done" THEN [flow[g] EXCEPT !.cancelled = TRUE]
                                                    ELSE flow[g]]

\* StartDeviceAuth: the previous flow is cancelled and replaced.
StartDeviceAuth ==
    LET f == current + 1 IN
    /\ flow' = [CancelFlow(current) EXCEPT ![f].pc = "initiate"]
    /\ current' = f
    /\ UNCHANGED <<slot, newest>>

\* auth-revoke: cancel, and forget the Cloud token; a Custom one is the user's own.  The
\* machine-wide sign-out runs on a task that touches nothing else modelled here.
RevokeAccount ==
    /\ flow' = CancelFlow(current)
    /\ slot' = IF slot.cloud THEN [slot EXCEPT !.token = NoToken] ELSE slot
    /\ UNCHANGED <<current, newest>>

ReadFrame ==
    /\ toSidecar # <<>>
    /\ toSidecar' = Tail(toSidecar)
    /\ UNCHANGED <<editor, link, toPlugin, used>>
    /\ LET frame == Head(toSidecar) IN
       \/ frame.type = "config" /\ ApplyConnectionConfig(frame)
       \/ frame.type = "auth-start" /\ StartDeviceAuth
       \/ frame.type = "auth-revoke" /\ RevokeAccount
       \/ /\ frame.type = "auth-cancel"
          /\ flow' = CancelFlow(current)
          /\ UNCHANGED <<slot, current, newest>>

\* Everybody else who re-dials or disconnects, and so supersedes a flow's re-dial: a
\* configuration that changed the host, the token or keepConnected, the first dial of a
\* handshake, the task of a sign-out.
OtherTransition ==
    /\ newest # 0 /\ newest' = 0
    /\ UNCHANGED <<editor, link, toSidecar, toPlugin, slot, flow, current, used>>

-----------------------------------------------------------------------------
(* One device-code flow, on its own task *)

At(f, pc) == flow[f].pc = pc
Goto(f, pc) == flow' = [flow EXCEPT ![f].pc = pc]
Ended == [Untouched EXCEPT !.pc = "done"]
End(f) == flow' = [flow EXCEPT ![f] = Ended]

\* Every wait of a flow looks at its cancellation; a cancelled flow reports nothing.
FlowCancelled(f) ==
    /\ flow[f].cancelled
    /\ flow[f].pc \in {"initiate", "poll", "commit", "check"}
    /\ End(f)
    /\ UNCHANGED <<toPlugin, slot, newest>>

\* InitiateAsync: the code and the page to verify it on, or a failure.
Initiate(f) ==
    /\ At(f, "initiate")
    /\ \/ Goto(f, "poll") /\ Report([type |-> "pending"])
       \/ ~flow[f].cancelled /\ End(f) /\ Report([type |-> "failed"])
    /\ UNCHANGED <<slot, newest>>

\* Mutant: the deadline is set again when it is reached.
PollAnew(f) ==
    /\ At(f, "poll") /\ ~flow[f].cancelled
    /\ flow' = [flow EXCEPT ![f].polls = (@ + 1) % (MaxPolls + 1)]
    /\ UNCHANGED <<toPlugin, slot, newest>>

\* One turn of the polling loop.  The deadline is computed once, from expires_in: every
\* answer that decides nothing (authorization_pending, slow_down, a transport error)
\* brings it nearer.  An answer on its way when the flow is cancelled is still taken.
Poll(f) ==
    /\ At(f, "poll")
    /\ UNCHANGED <<slot, newest>>
    /\ \/ /\ flow[f].polls < MaxPolls                 \* a token: "authorized" goes out at once
          /\ Goto(f, "commit")
          /\ Report([type |-> "authorized", token |-> f])
       \/ /\ flow[f].polls < MaxPolls                 \* undecided, or a transport error
          /\ ~flow[f].cancelled
          /\ flow' = [flow EXCEPT ![f].polls = @ + 1]
          /\ UNCHANGED toPlugin
       \/ /\ End(f)                                   \* denied, expired, unknown, deadline
          /\ Report([type |-> "failed"])

\* CommitAuthorizedSessionAsync and CommitLoginFamiliesAsync, with at most three
\* repetitions: both families are committed to the machine store, at once or after
\* failures that were reported, or the failure stands and only this session gets the token.
Commit(f) ==
    /\ At(f, "commit")
    /\ \E full \in BOOLEAN :
        /\ flow' = [flow EXCEPT ![f].pc = "check", ![f].claim = full]
        /\ (full /\ UNCHANGED toPlugin) \/ Report([type |-> "failed"])
    /\ UNCHANGED <<slot, newest>>

\* The look at the cancellation and the write of the slot are two steps.
CheckCancelled(f) ==
    /\ At(f, "check") /\ ~flow[f].cancelled
    /\ Goto(f, "apply")
    /\ UNCHANGED <<toPlugin, slot, newest>>

\* Mutant: the mode at completion is not looked at.
ApplyAnyway(f) ==
    /\ At(f, "apply")
    /\ slot' = [slot EXCEPT !.token = f] /\ Goto(f, "redial")
    /\ UNCHANGED <<toPlugin, newest>>

\* Under the slot's lock: the account's token enters the slot only in Cloud mode.
\* Outside it the flow is over, or a Custom link to this machine that signs in with the
\* account re-dials, which claims nothing.
ApplyToken(f) ==
    /\ At(f, "apply")
    /\ \/ slot.cloud /\ slot' = [slot EXCEPT !.token = f] /\ Goto(f, "redial")
       \/ ~slot.cloud /\ UNCHANGED slot /\ End(f)
       \/ /\ ~slot.cloud /\ UNCHANGED slot
          /\ flow' = [flow EXCEPT ![f].pc = "redial", ![f].claim = FALSE]
    /\ UNCHANGED <<toPlugin, newest>>

ReportStatus(f) ==
    IF flow[f].claim THEN Report([type |-> "status", claim |-> "Authorized"])
                     ELSE UNCHANGED toPlugin

\* ReconnectAndEmitStatusAsync: disarmed, it only reports; armed, its dial becomes the
\* newest transition, which cancels the one before.
Redial(f) ==
    /\ At(f, "redial")
    /\ \/ End(f) /\ ReportStatus(f) /\ UNCHANGED newest
       \/ Goto(f, "dial") /\ newest' = f /\ UNCHANGED toPlugin
    /\ UNCHANGED slot

\* The dial returns.  A superseded one reports nothing, unless it was past its last look.
DialReturns(f) ==
    /\ At(f, "dial")
    /\ End(f)
    /\ newest' = IF newest = f THEN 0 ELSE newest
    /\ ReportStatus(f) \/ (newest # f /\ UNCHANGED toPlugin)
    /\ UNCHANGED slot

FlowStep(f) ==
    /\ UNCHANGED <<editor, link, toSidecar, used, current>>
    /\ \/ FlowCancelled(f) \/ Initiate(f) \/ Poll(f) \/ Commit(f)
       \/ CheckCancelled(f) \/ ApplyToken(f) \/ Redial(f) \/ DialReturns(f)

\* The machine credential speaks for itself: the first dial reports a signed-in
\* provider or a token in the slot, and a refresh that fails for good reports that too.
AccountReports ==
    /\ used.events < MaxEvents
    /\ used' = [used EXCEPT !.events = @ + 1]
    /\ \E claim \in {"Authorized", "SignInRequired"} : Report([type |-> "status", claim |-> claim])
    /\ UNCHANGED <<editor, link, toSidecar, host>>

Next ==
    \/ Authorize \/ CancelAuth \/ Revoke \/ TickAuthTimeout \/ ApplyReport
    \/ \E m \in Modes : SetConnectionMode(m)
    \/ LinkDrops \/ LinkUp
    \/ ReadFrame \/ OtherTransition
    \/ \E f \in Flows : FlowStep(f)
    \/ AccountReports

\* plugin.Connect may never return on its own, but does once its token is cancelled
\* (SidecarHost.cs:1786): a dial has to end only when it is superseded.
MustGoOn(f) == FlowStep(f) /\ (At(f, "dial") => newest # f)

\* The flows' tasks and the game thread keep running; the user, the link, the account
\* and the hub that is dialled need not.
Fairness ==
    /\ WF_vars(ApplyReport)
    /\ \A f \in Flows : WF_vars(MustGoOn(f))

Spec == Init /\ [][Next]_vars
FairSpec == Spec /\ Fairness

-----------------------------------------------------------------------------
(* Properties *)

\* One type invariant: a flow polls no longer than its code lives, and starts are numbered.
TypeOK ==
    /\ ui \in [state: {"Idle", "Connecting", "Pending", "Authorized", "Failed", "SignInRequired"},
               queued: BOOLEAN, signedIn: BOOLEAN, assisted: BOOLEAN]
    /\ config \in [mode: Modes, token: Tokens]
    /\ link \in BOOLEAN
    /\ toSidecar \in Seq(Frames) /\ toPlugin \in Seq(Reports)
    /\ slot \in [cloud: BOOLEAN, token: Tokens \cup {CustomToken}]
    /\ flow \in [Flows -> [pc: {"none", "initiate", "poll", "commit", "check", "apply", "redial", "dial", "done"},
                           cancelled: BOOLEAN, polls: 0..MaxPolls, claim: BOOLEAN]]
    /\ current \in 0..MaxFlows /\ newest \in 0..MaxFlows
    /\ used \in [starts: 0..MaxFlows, events: 0..MaxEvents]

\* docs/ARCHITECTURE.md:1089-1102: outside Cloud mode the slot holds the user's own token,
\* whatever sign-in completes, is cancelled or revoked meanwhile.
SlotFollowsMode == ~slot.cloud => slot.token = CustomToken

\* DeviceCodeAuthenticator.cs:139-142, SidecarHost.cs:1783-1793: every flow that starts
\* ends, by an answer, its cancellation, its deadline or the end of its re-dial, whatever
\* the user and the link do meanwhile; only the dial that nothing has superseded may go on
\* for as long as the hub does not answer, so one task at most is ever held.
EverySignInSettles ==
    []<>(\A f \in Flows : \/ flow[f].pc \in {"none", "done"}
                          \/ flow[f].pc = "dial" /\ newest = f)
=============================================================================
