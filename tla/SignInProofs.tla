----------------------------- MODULE SignInProofs -----------------------------
(***************************************************************************)
(* What holds of SignIn for any number of flows, of polls and of reports:  *)
(* the types, with the bound on the flows that are started, and the rule   *)
(* that outside Cloud mode the slot holds the user's own token.  That      *)
(* every sign-in settles stays with the model checker.                     *)
(***************************************************************************)
EXTENDS SignIn, FiniteSetTheorems, SequenceTheorems, TLAPS

(* The view model's state, and the link.                                   *)
UiOK ==
  /\ ui \in [state: {"Idle", "Connecting", "Pending", "Authorized", "Failed", "SignInRequired"},
             queued: BOOLEAN, signedIn: BOOLEAN, assisted: BOOLEAN]
  /\ link \in BOOLEAN

LEMMA UiCorrect == Spec => []UiOK
<1> USE DEF UiOK, editor, host
<1>1. Init => UiOK
  BY DEF Init
<1>2. UiOK /\ [Next]_vars => UiOK'
  <2> SUFFICES ASSUME UiOK, [Next]_vars PROVE UiOK'
    OBVIOUS
  <2>1. ASSUME NEW m \in Modes, SetConnectionMode(m) PROVE UiOK'
    BY <2>1 DEF SetConnectionMode, Send, Start, UiAt, ConfigFrame
  <2>2. ASSUME NEW f \in Flows, FlowStep(f) PROVE UiOK'
    BY <2>2 DEF FlowStep, FlowCancelled, Initiate, Poll, Commit, CheckCancelled, ApplyToken, Redial, DialReturns, ReportStatus, At, Goto, Ended, End, Untouched, Report
  <2>3. CASE Authorize
    BY <2>3 DEF Authorize, Send, Start, UiAt, ConfigFrame
  <2>4. CASE CancelAuth
    BY <2>4 DEF CancelAuth, Send, Start, UiAt, ConfigFrame
  <2>5. CASE Revoke
    BY <2>5 DEF Revoke, Send, Start, UiAt, ConfigFrame
  <2>6. CASE TickAuthTimeout
    BY <2>6 DEF TickAuthTimeout, UiAt
  <2>7. CASE ApplyReport
    BY <2>7 DEF ApplyReport, OnHandshake, ApplyStatus, HandleSignInRequired, ApplyAuthorized, Send, Start, UiAt, ConfigFrame
  <2>8. CASE LinkDrops
    BY <2>8 DEF LinkDrops
  <2>9. CASE LinkUp
    BY <2>9 DEF LinkUp
  <2>10. CASE ReadFrame
    BY <2>10 DEF ReadFrame, ApplyConnectionConfig, StartDeviceAuth, RevokeAccount, CancelFlow
  <2>11. CASE AccountReports
    BY <2>11 DEF AccountReports, Report
  <2>12. CASE UNCHANGED vars
    BY <2>12 DEF vars
  <2>13. CASE OtherTransition
    BY <2>13, SignInAssumption DEF OtherTransition
  <2> QED
    BY <2>1, <2>2, <2>3, <2>4, <2>5, <2>6, <2>7, <2>8, <2>9, <2>10, <2>11, <2>12, <2>13
    DEF Next
<1> QED
  BY <1>1, <1>2, PTL DEF Spec

(* The flows poll no longer than their codes live.                         *)
Tasks == [pc: {"none", "initiate", "poll", "commit", "check", "apply", "redial", "dial", "done"},
          cancelled: BOOLEAN, polls: 0..MaxPolls, claim: BOOLEAN]

FlowsOK == flow \in [Flows -> Tasks]

LEMMA FlowsCorrect == Spec => []FlowsOK
<1> USE DEF FlowsOK, editor, host
<1>1. Init => FlowsOK
  BY SignInAssumption DEF Init, Untouched, Tasks
<1>2. FlowsOK /\ [Next]_vars => FlowsOK'
  <2> SUFFICES ASSUME FlowsOK, [Next]_vars PROVE FlowsOK'
    OBVIOUS
  <2>1. ASSUME NEW m \in Modes, SetConnectionMode(m) PROVE FlowsOK'
    BY <2>1 DEF SetConnectionMode, Send, Start, UiAt, ConfigFrame
  <2>2. ASSUME NEW f \in Flows, FlowStep(f) PROVE FlowsOK'
    <3>1. Ended \in Tasks
      <4>1. 0 \in 0 .. MaxPolls
        BY SignInAssumption
      <4>2. Untouched \in Tasks
        BY <4>1 DEF Untouched, Tasks
      <4> QED
        BY <4>2 DEF Ended, Tasks
    <3>2. flow[f] \in Tasks
      OBVIOUS
    <3>3. CASE End(f)
      BY <3>1, <3>3 DEF End
    <3>4. CASE \E pc \in {"poll", "commit", "apply", "redial", "dial"} : Goto(f, pc)
      BY <3>2, <3>4 DEF Goto, Tasks
    <3>5. CASE flow[f].polls < MaxPolls /\ flow' = [flow EXCEPT ![f].polls = @ + 1]
      <4>1. [flow[f] EXCEPT !.polls = @ + 1] \in Tasks
        BY <3>2, <3>5, SignInAssumption DEF Tasks
      <4> QED
        BY <3>5, <4>1
    <3>6. CASE \E full \in BOOLEAN : flow' = [flow EXCEPT ![f].pc = "check", ![f].claim = full]
      <4>1. PICK full \in BOOLEAN : flow' = [flow EXCEPT ![f].pc = "check", ![f].claim = full]
        BY <3>6
      <4>2. flow' = [flow EXCEPT ![f] = [flow[f] EXCEPT !.pc = "check", !.claim = full]]
        BY <4>1
      <4>3. [flow[f] EXCEPT !.pc = "check", !.claim = full] \in Tasks
        BY <3>2 DEF Tasks
      <4> QED
        BY <4>2, <4>3
    <3>7. CASE flow' = [flow EXCEPT ![f].pc = "redial", ![f].claim = FALSE]
      <4>1. flow' = [flow EXCEPT ![f] = [flow[f] EXCEPT !.pc = "redial", !.claim = FALSE]]
        BY <3>7
      <4>2. [flow[f] EXCEPT !.pc = "redial", !.claim = FALSE] \in Tasks
        BY <3>2 DEF Tasks
      <4> QED
        BY <4>1, <4>2
    <3> QED
      BY <2>2, <3>3, <3>4, <3>5, <3>6, <3>7 DEF FlowStep, FlowCancelled, Initiate, Poll, Commit, CheckCancelled, ApplyToken, Redial, DialReturns, ReportStatus
  <2>3. CASE Authorize
    BY <2>3 DEF Authorize, Send, Start, UiAt, ConfigFrame
  <2>4. CASE CancelAuth
    BY <2>4 DEF CancelAuth, Send, Start, UiAt, ConfigFrame
  <2>5. CASE Revoke
    BY <2>5 DEF Revoke, Send, Start, UiAt, ConfigFrame
  <2>6. CASE TickAuthTimeout
    BY <2>6 DEF TickAuthTimeout, UiAt
  <2>7. CASE ApplyReport
    BY <2>7 DEF ApplyReport, OnHandshake, ApplyStatus, HandleSignInRequired, ApplyAuthorized, Send, Start, UiAt, ConfigFrame
  <2>8. CASE LinkDrops
    BY <2>8 DEF LinkDrops
  <2>9. CASE LinkUp
    BY <2>9 DEF LinkUp
  <2>10. CASE ReadFrame
    <3>1. CancelFlow(current) \in [Flows -> Tasks]
      BY DEF CancelFlow, Tasks
    <3>2. CASE ApplyConnectionConfig(Head(toSidecar))
      BY <3>2 DEF ApplyConnectionConfig
    <3>3. CASE StartDeviceAuth
      BY <3>1, <3>3 DEF StartDeviceAuth, Tasks
    <3>4. CASE flow' = CancelFlow(current)
      BY <3>1, <3>4
    <3> QED
      BY <2>10, <3>2, <3>3, <3>4 DEF ReadFrame, RevokeAccount
  <2>11. CASE AccountReports
    BY <2>11 DEF AccountReports, Report
  <2>12. CASE UNCHANGED vars
    BY <2>12 DEF vars
  <2>13. CASE OtherTransition
    BY <2>13, SignInAssumption DEF OtherTransition
  <2> QED
    BY <2>1, <2>2, <2>3, <2>4, <2>5, <2>6, <2>7, <2>8, <2>9, <2>10, <2>11, <2>12, <2>13
    DEF Next
<1> QED
  BY <1>1, <1>2, PTL DEF Spec

(* What the bounds count.                                                  *)
UsedOK == used \in [starts: 0..MaxFlows, events: 0..MaxEvents]

LEMMA UsedCorrect == Spec => []UsedOK
<1> USE DEF UsedOK, editor, host
<1>1. Init => UsedOK
  BY SignInAssumption DEF Init
<1>2. UsedOK /\ [Next]_vars => UsedOK'
  <2> SUFFICES ASSUME UsedOK, [Next]_vars PROVE UsedOK'
    OBVIOUS
  <2>1. ASSUME NEW m \in Modes, SetConnectionMode(m) PROVE UsedOK'
    BY <2>1, SignInAssumption DEF SetConnectionMode, Send, Start, UiAt, ConfigFrame
  <2>2. ASSUME NEW f \in Flows, FlowStep(f) PROVE UsedOK'
    BY <2>2, SignInAssumption DEF FlowStep, FlowCancelled, Initiate, Poll, Commit, CheckCancelled, ApplyToken, Redial, DialReturns, ReportStatus, At, Goto, Ended, End, Untouched, Report
  <2>3. CASE Authorize
    BY <2>3, SignInAssumption DEF Authorize, Send, Start, UiAt, ConfigFrame
  <2>4. CASE CancelAuth
    BY <2>4, SignInAssumption DEF CancelAuth, Send, Start, UiAt, ConfigFrame
  <2>5. CASE Revoke
    BY <2>5, SignInAssumption DEF Revoke, Send, Start, UiAt, ConfigFrame
  <2>6. CASE TickAuthTimeout
    BY <2>6, SignInAssumption DEF TickAuthTimeout, UiAt
  <2>7. CASE ApplyReport
    BY <2>7, SignInAssumption DEF ApplyReport, OnHandshake, ApplyStatus, HandleSignInRequired, ApplyAuthorized, Send, Start, UiAt, ConfigFrame
  <2>8. CASE LinkDrops
    BY <2>8, SignInAssumption DEF LinkDrops
  <2>9. CASE LinkUp
    BY <2>9, SignInAssumption DEF LinkUp
  <2>10. CASE ReadFrame
    BY <2>10, SignInAssumption DEF ReadFrame, ApplyConnectionConfig, StartDeviceAuth, RevokeAccount, CancelFlow
  <2>11. CASE AccountReports
    BY <2>11, SignInAssumption DEF AccountReports, Report
  <2>12. CASE UNCHANGED vars
    BY <2>12 DEF vars
  <2>13. CASE OtherTransition
    BY <2>13, SignInAssumption DEF OtherTransition
  <2> QED
    BY <2>1, <2>2, <2>3, <2>4, <2>5, <2>6, <2>7, <2>8, <2>9, <2>10, <2>11, <2>12, <2>13
    DEF Next
<1> QED
  BY <1>1, <1>2, PTL DEF Spec

(* The frames as they are sent: a frame of another mode carries its token.  *)
OwnFrames == {frame \in Frames : frame.type = "config" /\ frame.mode # "Cloud" => frame.token = CustomToken}

(* The frames the view model sends, and what a configuration frame carries.  *)
LEMMA FramesAreTyped ==
  /\ \A t \in {"auth-start", "auth-cancel", "auth-revoke"} : <<[type |-> t]>> \in Seq(OwnFrames)
  /\ \A c \in [mode: Modes, token: Tokens] : ConfigFrame(c) \in OwnFrames /\ <<ConfigFrame(c)>> \in Seq(OwnFrames)
<1>1. ASSUME NEW t \in {"auth-start", "auth-cancel", "auth-revoke"} PROVE <<[type |-> t]>> \in Seq(OwnFrames)
  <2>1. [type |-> t] \in OwnFrames
    BY DEF Frames, OwnFrames
  <2> QED
    BY <2>1
<1>2. ASSUME NEW c \in [mode: Modes, token: Tokens] PROVE ConfigFrame(c) \in OwnFrames
  <2>1. c.mode \in Modes /\ (IF c.mode = "Cloud" THEN c.token ELSE CustomToken) \in Tokens \cup {CustomToken}
    OBVIOUS
  <2> QED
    BY <2>1 DEF ConfigFrame, Frames, OwnFrames
<1> QED
  BY <1>1, <1>2

LEMMA ConfigFramesCarryTokens ==
  ASSUME NEW frame \in OwnFrames, frame.type = "config"
  PROVE  frame.mode \in Modes /\ frame.token \in Tokens \cup {CustomToken} /\ (frame.mode # "Cloud" => frame.token = CustomToken)
  BY DEF Frames, OwnFrames

LEMMA ReportsAreTyped ==
  /\ \A t \in {"handshake", "pending", "failed"} : [type |-> t] \in Reports
  /\ \A f \in Flows : [type |-> "authorized", token |-> f] \in Reports
  /\ \A c \in {"Authorized", "SignInRequired"} : [type |-> "status", claim |-> c] \in Reports
  /\ \A r \in Reports : r.type = "authorized" => r.token \in Flows
  BY DEF Reports

(* The configuration, what travels on the link, and the slot.              *)
WiresOK ==
  /\ config \in [mode: Modes, token: Tokens]
  /\ toSidecar \in Seq(OwnFrames) /\ toPlugin \in Seq(Reports)
  /\ slot \in [cloud: BOOLEAN, token: Tokens \cup {CustomToken}]
  /\ ~slot.cloud => slot.token = CustomToken
  /\ current \in Nat /\ newest \in 0..MaxFlows

LEMMA SendIsTyped ==
  ASSUME WiresOK, NEW frames \in Seq(OwnFrames), Send(frames) PROVE toSidecar' \in Seq(OwnFrames)
  BY ConcatProperties DEF WiresOK, Send

LEMMA ReportIsTyped ==
  ASSUME WiresOK, NEW frame \in Reports, Report(frame) PROVE toPlugin' \in Seq(Reports)
  BY AppendProperties DEF WiresOK, Report

LEMMA WiresCorrect == Spec => []WiresOK
<1> USE DEF WiresOK, editor, host
<1>1. Init => WiresOK
  BY EmptySeq, SignInAssumption DEF Init, Modes, Tokens
<1>2. WiresOK /\ [Next]_vars => WiresOK'
  <2> SUFFICES ASSUME WiresOK, [Next]_vars PROVE WiresOK'
    OBVIOUS
  <2>1. ASSUME NEW m \in Modes, SetConnectionMode(m) PROVE WiresOK'
    <3>1. config' \in [mode: Modes, token: Tokens]
      BY <2>1 DEF SetConnectionMode
    <3>2. toSidecar' \in Seq(OwnFrames)
      BY <2>1, <3>1, FramesAreTyped, SendIsTyped DEF SetConnectionMode
    <3> QED
      BY <2>1, <3>1, <3>2 DEF SetConnectionMode
  <2>2. ASSUME NEW f \in Flows, FlowStep(f) PROVE WiresOK'
    <3>1. toPlugin' \in Seq(Reports)
      <4>1. CASE UNCHANGED toPlugin
        BY <4>1
      <4>2. CASE \E r \in Reports : Report(r)
        BY <4>2, ReportIsTyped
      <4> QED
        BY <2>2, <4>1, <4>2, ReportsAreTyped
        DEF FlowStep, FlowCancelled, Initiate, Poll, Commit, CheckCancelled, ApplyToken, Redial, DialReturns, ReportStatus
    <3>2. slot' \in [cloud: BOOLEAN, token: Tokens \cup {CustomToken}]
      BY <2>2
      DEF FlowStep, FlowCancelled, Initiate, Poll, Commit, CheckCancelled, ApplyToken, Redial, DialReturns, ReportStatus, Tokens
    <3>3. ~slot'.cloud => slot'.token = CustomToken
      BY <2>2
      DEF FlowStep, FlowCancelled, Initiate, Poll, Commit, CheckCancelled, ApplyToken, Redial, DialReturns, ReportStatus
    <3>4. newest' \in 0..MaxFlows
      BY <2>2, SignInAssumption
      DEF FlowStep, FlowCancelled, Initiate, Poll, Commit, CheckCancelled, ApplyToken, Redial, DialReturns, Flows
    <3> QED
      BY <2>2, <3>1, <3>2, <3>3, <3>4 DEF FlowStep
  <2>3. CASE Authorize
    <3>1. <<Start>> \in Seq(OwnFrames)
      BY FramesAreTyped DEF Start
    <3>2. toSidecar' \in Seq(OwnFrames)
      BY <2>3, <3>1, SendIsTyped DEF Authorize
    <3> QED
      BY <2>3, <3>2 DEF Authorize
  <2>4. CASE CancelAuth
    <3>1. <<[type |-> "auth-cancel"]>> \in Seq(OwnFrames)
      BY FramesAreTyped
    <3>2. toSidecar' \in Seq(OwnFrames)
      BY <2>4, <3>1, SendIsTyped DEF CancelAuth
    <3> QED
      BY <2>4, <3>2 DEF CancelAuth
  <2>5. CASE Revoke
    <3>1. config' \in [mode: Modes, token: Tokens]
      BY <2>5 DEF Revoke, Tokens
    <3>2. <<ConfigFrame(config')>> \in Seq(OwnFrames) /\ <<[type |-> "auth-revoke"]>> \in Seq(OwnFrames)
      BY <3>1, FramesAreTyped
    <3> DEFINE frames == <<[type |-> "auth-revoke"]>> \o IF config.token = NoToken THEN <<>> ELSE <<ConfigFrame(config')>>
    <3>3. frames \in Seq(OwnFrames)
      BY <3>2, ConcatProperties, EmptySeq
    <3>4. Send(frames)
      BY <2>5 DEF Revoke
    <3> HIDE DEF frames
    <3>5. toSidecar' \in Seq(OwnFrames)
      BY <3>3, <3>4, SendIsTyped
    <3> QED
      BY <2>5, <3>1, <3>5 DEF Revoke
  <2>6. CASE TickAuthTimeout
    BY <2>6 DEF TickAuthTimeout, UiAt
  <2>7. CASE ApplyReport
    <3>1. Head(toPlugin) \in Reports /\ Tail(toPlugin) \in Seq(Reports)
      BY <2>7, HeadTailProperties DEF ApplyReport
    <3>2. <<Start>> \in Seq(OwnFrames)
      BY FramesAreTyped DEF Start
    <3>3. CASE (UNCHANGED toSidecar \/ Send(<<Start>>)) /\ UNCHANGED config
      <4>1. toSidecar' \in Seq(OwnFrames)
        BY <3>2, <3>3, SendIsTyped
      <4> QED
        BY <2>7, <3>1, <3>3, <4>1 DEF ApplyReport
    <3>4. CASE Head(toPlugin).type = "authorized" /\ ApplyAuthorized(Head(toPlugin).token)
      <4>1. config' \in [mode: Modes, token: Tokens]
        BY <3>1, <3>4, ReportsAreTyped DEF ApplyAuthorized, Tokens
      <4>2. <<ConfigFrame(config')>> \in Seq(OwnFrames)
        BY <4>1, FramesAreTyped
      <4>3. toSidecar' \in Seq(OwnFrames)
        BY <3>4, <4>2, SendIsTyped DEF ApplyAuthorized
      <4> QED
        BY <2>7, <3>1, <4>1, <4>3 DEF ApplyReport
    <3> QED
      BY <2>7, <3>3, <3>4 DEF ApplyReport, OnHandshake, ApplyStatus, HandleSignInRequired
  <2>8. CASE LinkDrops
    <3>1. PICK n \in 0 .. Len(toPlugin) : toPlugin' = SubSeq(toPlugin, 1, n)
      BY <2>8 DEF LinkDrops
    <3>2. n \in Int /\ \A k \in 1 .. n : toPlugin[k] \in Reports
      BY ElementOfSeq, LenProperties
    <3>3. toPlugin' \in Seq(Reports)
      BY <3>1, <3>2, SubSeqProperties
    <3> QED
      BY <2>8, <3>3, EmptySeq DEF LinkDrops
  <2>9. CASE LinkUp
    <3>1. toPlugin' \in Seq(Reports)
      BY <2>9, ReportsAreTyped, AppendProperties DEF LinkUp
    <3>2. toSidecar' \in Seq(OwnFrames)
      BY <2>9, FramesAreTyped DEF LinkUp
    <3> QED
      BY <2>9, <3>1, <3>2 DEF LinkUp
  <2>10. CASE ReadFrame
    <3>1. Head(toSidecar) \in OwnFrames /\ Tail(toSidecar) \in Seq(OwnFrames)
      BY <2>10, HeadTailProperties DEF ReadFrame
    <3>2. CASE Head(toSidecar).type = "config" /\ ApplyConnectionConfig(Head(toSidecar))
      <4>1. Head(toSidecar).token \in Tokens \cup {CustomToken} /\ (Head(toSidecar).mode = "Cloud") \in BOOLEAN
        BY <3>1, <3>2, ConfigFramesCarryTokens
      <4>3. ~slot'.cloud => slot'.token = CustomToken
        BY <3>1, <3>2, ConfigFramesCarryTokens DEF ApplyConnectionConfig
      <4>2. slot' \in [cloud: BOOLEAN, token: Tokens \cup {CustomToken}] /\ UNCHANGED <<current, newest>>
        BY <3>2, <4>1 DEF ApplyConnectionConfig
      <4> QED
        BY <2>10, <3>1, <4>2, <4>3 DEF ReadFrame
    <3>3. CASE StartDeviceAuth
      BY <2>10, <3>1, <3>3 DEF ReadFrame, StartDeviceAuth
    <3>4. CASE RevokeAccount
      BY <2>10, <3>1, <3>4 DEF ReadFrame, RevokeAccount, Tokens
    <3>5. CASE UNCHANGED <<slot, current, newest>>
      BY <2>10, <3>1, <3>5 DEF ReadFrame
    <3> QED
      BY <2>10, <3>2, <3>3, <3>4, <3>5 DEF ReadFrame
  <2>11. CASE AccountReports
    <3>1. toPlugin' \in Seq(Reports)
      BY <2>11, ReportsAreTyped, ReportIsTyped DEF AccountReports
    <3> QED
      BY <2>11, <3>1 DEF AccountReports
  <2>12. CASE UNCHANGED vars
    BY <2>12 DEF vars
  <2>13. CASE OtherTransition
    BY <2>13, SignInAssumption DEF OtherTransition
  <2> QED
    BY <2>1, <2>2, <2>3, <2>4, <2>5, <2>6, <2>7, <2>8, <2>9, <2>10, <2>11, <2>12, <2>13
    DEF Next
<1> QED
  BY <1>1, <1>2, PTL DEF Spec

(* The places of the requests to start that the reader has not read.        *)
Starts(s) == {i \in 1 .. Len(s) : s[i].type = "auth-start"}

LEMMA StartsAreFinite ==
  ASSUME NEW S, NEW s \in Seq(S) PROVE IsFiniteSet(Starts(s)) /\ Cardinality(Starts(s)) \in Nat
<1>1. IsFiniteSet(1 .. Len(s))
  BY FS_Interval, LenProperties
<1>2. Starts(s) \in SUBSET (1 .. Len(s))
  BY DEF Starts
<1> QED
  BY <1>1, <1>2, FS_Subset, FS_CardinalityType

(* One more request is one more place, and other frames are none.           *)
LEMMA StartsOfConcat ==
  ASSUME NEW S, NEW s \in Seq(S), NEW t \in Seq(S), Starts(t) = {} PROVE Starts(s \o t) = Starts(s)
<1>1. /\ Len(s) \in Nat /\ Len(t) \in Nat /\ Len(s \o t) = Len(s) + Len(t)
      /\ \A i \in 1 .. Len(s) + Len(t) : (s \o t)[i] = IF i <= Len(s) THEN s[i] ELSE t[i - Len(s)]
  BY ConcatProperties, LenProperties
<1>2. \A i \in 1 .. Len(t) : t[i].type # "auth-start"
  BY DEF Starts
<1>3. ASSUME NEW i \in 1 .. Len(s) + Len(t) PROVE i \in Starts(s \o t) <=> i \in Starts(s)
  <2>1. CASE i <= Len(s)
    BY <1>1, <2>1 DEF Starts
  <2>2. CASE ~(i <= Len(s))
    <3>1. i - Len(s) \in 1 .. Len(t)
      BY <1>1, <2>2
    <3> QED
      BY <1>1, <1>2, <2>2, <3>1 DEF Starts
  <2> QED
    BY <2>1, <2>2
<1>4. Starts(s \o t) \subseteq 1 .. Len(s) + Len(t) /\ Starts(s) \subseteq 1 .. Len(s) + Len(t)
  BY <1>1 DEF Starts
<1> QED
  BY <1>3, <1>4

LEMMA StartsOfStart ==
  ASSUME NEW S, NEW s \in Seq(S), Start \in S
  PROVE  Cardinality(Starts(s \o <<Start>>)) = Cardinality(Starts(s)) + 1
<1> DEFINE n == Len(s) + 1
<1>1. /\ Len(s) \in Nat /\ Len(s \o <<Start>>) = n
      /\ \A i \in 1 .. n : (s \o <<Start>>)[i] = IF i <= Len(s) THEN s[i] ELSE <<Start>>[i - Len(s)]
  BY ConcatProperties, LenProperties
<1>2. n \in 1 .. n /\ n - Len(s) = 1 /\ ~(n <= Len(s))
  BY <1>1
<1>3. (s \o <<Start>>)[n] = Start
  BY <1>1, <1>2
<1>4. Start.type = "auth-start"
  BY DEF Start
<1>5. Starts(s \o <<Start>>) = Starts(s) \cup {n}
  <2>1. ASSUME NEW i \in 1 .. n PROVE i \in Starts(s \o <<Start>>) <=> i \in Starts(s) \cup {n}
    <3>1. CASE i = n
      BY <1>1, <1>2, <1>3, <1>4, <3>1 DEF Starts
    <3>2. CASE i \in 1 .. Len(s)
      BY <1>1, <3>2 DEF Starts
    <3> QED
      BY <1>1, <3>1, <3>2
  <2>2. Starts(s \o <<Start>>) \subseteq 1 .. n /\ Starts(s) \cup {n} \subseteq 1 .. n
    BY <1>1, <1>2 DEF Starts
  <2> QED
    BY <2>1, <2>2
<1>6. n \notin Starts(s)
  BY <1>1 DEF Starts
<1> QED
  BY <1>5, <1>6, StartsAreFinite, FS_AddElement

(* What is read is one place less, when it was a request to start.          *)
LEMMA StartsOfTail ==
  ASSUME NEW S, NEW s \in Seq(S), s # <<>>
  PROVE  Cardinality(Starts(Tail(s))) + (IF Head(s).type = "auth-start" THEN 1 ELSE 0) <= Cardinality(Starts(s))
<1>1. /\ Len(s) \in Nat \ {0} /\ Head(s) = s[1]
      /\ Tail(s) \in Seq(S) /\ Len(Tail(s)) = Len(s) - 1
      /\ \A i \in 1 .. Len(Tail(s)) : Tail(s)[i] = s[i + 1]
  BY HeadTailProperties, EmptySeq, LenProperties
<1> DEFINE f == [i \in Starts(Tail(s)) |-> i + 1]
           rest == Starts(s) \ {1}
<1>2. ASSUME NEW i \in Starts(Tail(s)) PROVE i + 1 \in rest
  <2>1. i \in 1 .. Len(Tail(s)) /\ Tail(s)[i].type = "auth-start"
    BY DEF Starts
  <2>2. i + 1 \in 1 .. Len(s) /\ i + 1 # 1
    BY <1>1, <2>1
  <2> QED
    BY <1>1, <2>1, <2>2 DEF Starts
<1>3. f \in [Starts(Tail(s)) -> rest]
  BY <1>2
<1>4. \A a, b \in Starts(Tail(s)) : f[a] = f[b] => a = b
  BY DEF Starts
<1>5. f \in Injection(Starts(Tail(s)), rest)
  BY <1>3, <1>4 DEF Injection, IsInjective
<1>6. /\ IsFiniteSet(Starts(s)) /\ Cardinality(Starts(s)) \in Nat
      /\ IsFiniteSet(rest) /\ Cardinality(rest) = IF 1 \in Starts(s) THEN Cardinality(Starts(s)) - 1 ELSE Cardinality(Starts(s))
  BY StartsAreFinite, FS_RemoveElement
<1>7. Cardinality(Starts(Tail(s))) <= Cardinality(rest)
  BY <1>5, <1>6, FS_Injection
<1>8. 1 \in Starts(s) <=> Head(s).type = "auth-start"
  BY <1>1 DEF Starts
<1>9. Cardinality(Starts(Tail(s))) \in Nat
  BY <1>1, StartsAreFinite
<1> QED
  BY <1>6, <1>7, <1>8, <1>9

(* A flow started, a request to start on its way and a request queued for   *)
(* the next handshake each have their place in the count of requests.       *)
Unread == Cardinality(Starts(toSidecar))

StartsInv == current + Unread + (IF ui.queued THEN 1 ELSE 0) <= used.starts

LEMMA OtherFramesAreNoStarts ==
  /\ Starts(<<>>) = {} /\ Cardinality(Starts(<<>>)) = 0
  /\ \A t \in {"auth-cancel", "auth-revoke"} : Starts(<<[type |-> t]>>) = {}
  /\ \A c \in [mode: Modes, token: Tokens] : Starts(<<ConfigFrame(c)>>) = {}
  BY FS_EmptySet DEF Starts, ConfigFrame

LEMMA SendsNoStart ==
  ASSUME WiresOK, NEW frames \in Seq(OwnFrames), Starts(frames) = {}, Send(frames) PROVE Unread' = Unread
  BY StartsOfConcat DEF WiresOK, Send, Unread

LEMMA SendsStart ==
  ASSUME WiresOK, Send(<<Start>>) PROVE Unread' = Unread + (IF link THEN 1 ELSE 0)
<1>1. Start \in OwnFrames
  BY DEF Start, OwnFrames, Frames
<1>2. Unread \in Nat
  BY StartsAreFinite DEF WiresOK, Unread
<1> QED
  BY <1>1, <1>2, StartsOfStart DEF WiresOK, Send, Unread

LEMMA StartsCorrect == Spec => []StartsInv
<1> USE DEF StartsInv, editor, host
<1>1. Init => StartsInv
  BY OtherFramesAreNoStarts DEF Init, Unread
<1>2. StartsInv /\ UiOK /\ UsedOK /\ WiresOK /\ UiOK' /\ UsedOK' /\ WiresOK' /\ [Next]_vars => StartsInv'
  <2> SUFFICES ASSUME StartsInv, UiOK, UsedOK, WiresOK, UiOK', UsedOK', WiresOK', [Next]_vars PROVE StartsInv'
    OBVIOUS
  <2>1. ASSUME NEW m \in Modes, SetConnectionMode(m) PROVE StartsInv'
    <3>1. Unread \in Nat /\ Unread' \in Nat /\ current \in Nat /\ used.starts \in Nat
      BY StartsAreFinite, SignInAssumption DEF Unread, WiresOK, UsedOK
    <3>2. <<ConfigFrame(config')>> \in Seq(OwnFrames) /\ Starts(<<ConfigFrame(config')>>) = {}
      BY FramesAreTyped, OtherFramesAreNoStarts DEF WiresOK
    <3>3. Unread' = Unread
      BY <2>1, <3>2, SendsNoStart DEF SetConnectionMode
    <3> QED
      BY <2>1, <3>1, <3>3 DEF SetConnectionMode
  <2>2. ASSUME NEW f \in Flows, FlowStep(f) PROVE StartsInv'
    <3>1. Unread \in Nat /\ Unread' \in Nat /\ current \in Nat /\ used.starts \in Nat
      BY StartsAreFinite, SignInAssumption DEF Unread, WiresOK, UsedOK
    <3>2. Unread' = Unread
      BY <2>2 DEF FlowStep, Unread
    <3> QED
      BY <2>2, <3>1, <3>2 DEF FlowStep, UsedOK
  <2>3. CASE Authorize
    <3>1. Unread \in Nat /\ Unread' \in Nat /\ current \in Nat /\ used.starts \in Nat
      BY StartsAreFinite, SignInAssumption DEF Unread, WiresOK, UsedOK
    <3>2. Unread' = Unread + (IF link THEN 1 ELSE 0) /\ used'.starts = used.starts + 1 /\ UNCHANGED current
      BY <2>3, SendsStart DEF Authorize, UsedOK
    <3>3. link => ~ui'.queued
      BY <2>3 DEF Authorize, UiAt, UiOK
    <3> QED
      BY <3>1, <3>2, <3>3
  <2>4. CASE CancelAuth
    <3>1. Unread \in Nat /\ Unread' \in Nat /\ current \in Nat /\ used.starts \in Nat
      BY StartsAreFinite, SignInAssumption DEF Unread, WiresOK, UsedOK
    <3>2. <<[type |-> "auth-cancel"]>> \in Seq(OwnFrames) /\ Starts(<<[type |-> "auth-cancel"]>>) = {}
      BY FramesAreTyped, OtherFramesAreNoStarts
    <3>3. Unread' = Unread
      BY <2>4, <3>2, SendsNoStart DEF CancelAuth
    <3> QED
      BY <2>4, <3>1, <3>3 DEF CancelAuth, UiAt, UiOK, UsedOK
  <2>5. CASE Revoke
    <3>1. Unread \in Nat /\ Unread' \in Nat /\ current \in Nat /\ used.starts \in Nat
      BY StartsAreFinite, SignInAssumption DEF Unread, WiresOK, UsedOK
    <3> DEFINE frames == <<[type |-> "auth-revoke"]>> \o IF config.token = NoToken THEN <<>> ELSE <<ConfigFrame(config')>>
               rest == IF config.token = NoToken THEN <<>> ELSE <<ConfigFrame(config')>>
    <3>2. /\ <<ConfigFrame(config')>> \in Seq(OwnFrames) /\ Starts(<<ConfigFrame(config')>>) = {}
          /\ <<[type |-> "auth-revoke"]>> \in Seq(OwnFrames) /\ Starts(<<[type |-> "auth-revoke"]>>) = {}
      BY FramesAreTyped, OtherFramesAreNoStarts DEF WiresOK
    <3>3. rest \in Seq(OwnFrames) /\ Starts(rest) = {}
      BY <3>2, EmptySeq, OtherFramesAreNoStarts
    <3> HIDE DEF rest
    <3>4. frames \in Seq(OwnFrames) /\ Starts(frames) = {}
      BY <3>2, <3>3, ConcatProperties, StartsOfConcat DEF rest
    <3>5. Send(frames)
      BY <2>5 DEF Revoke
    <3> HIDE DEF frames
    <3>6. Unread' = Unread
      BY <3>4, <3>5, SendsNoStart
    <3> QED
      BY <2>5, <3>1, <3>6 DEF Revoke, UiOK, UsedOK
  <2>6. CASE TickAuthTimeout
    <3>1. Unread \in Nat /\ Unread' \in Nat /\ current \in Nat /\ used.starts \in Nat
      BY StartsAreFinite, SignInAssumption DEF Unread, WiresOK, UsedOK
    <3>2. Unread' = Unread
      BY <2>6 DEF TickAuthTimeout, Unread
    <3> QED
      BY <2>6, <3>1, <3>2 DEF TickAuthTimeout, UiAt, UiOK
  <2>7. CASE ApplyReport
    <3>1. Unread \in Nat /\ Unread' \in Nat /\ current \in Nat /\ used.starts \in Nat
      BY StartsAreFinite, SignInAssumption DEF Unread, WiresOK, UsedOK
    <3>2. UNCHANGED <<link, current>>
      BY <2>7 DEF ApplyReport
    <3>3. CASE ui.queued /\ link /\ ui' = UiAt("Pending") /\ Send(<<Start>>) /\ UNCHANGED used
      BY <3>1, <3>2, <3>3, SendsStart DEF UiAt, UiOK
    <3>4. CASE Send(<<Start>>) /\ link /\ used' = [used EXCEPT !.starts = @ + 1] /\ UNCHANGED ui.queued
      BY <3>1, <3>2, <3>4, SendsStart DEF UsedOK
    <3>5. CASE UNCHANGED <<toSidecar, used, ui.queued>>
      BY <3>1, <3>2, <3>5 DEF Unread
    <3>6. CASE ApplyAuthorized(Head(toPlugin).token) /\ UNCHANGED used
      <4>1. UNCHANGED ui.queued
        BY <3>6 DEF ApplyAuthorized, UiOK
      <4>2. <<ConfigFrame(config')>> \in Seq(OwnFrames) /\ Starts(<<ConfigFrame(config')>>) = {}
        BY FramesAreTyped, OtherFramesAreNoStarts DEF WiresOK
      <4>3. UNCHANGED toSidecar \/ Send(<<ConfigFrame(config')>>)
        BY <3>6 DEF ApplyAuthorized
      <4>4. Unread' = Unread
        BY <4>2, <4>3, SendsNoStart DEF Unread
      <4> QED
        BY <3>1, <3>2, <3>6, <4>1, <4>4
    <3>7. CASE OnHandshake /\ UNCHANGED used
      BY <3>3, <3>5, <3>7 DEF OnHandshake
    <3>8. CASE HandleSignInRequired
      BY <3>4, <3>5, <3>8, ZenonT(30) DEF HandleSignInRequired, UiOK, UsedOK
    <3>9. CASE /\ \E s \in {"Authorized", "Pending", "Failed"} : ui' = [ui EXCEPT !.state = s] \/ ui' = [ui EXCEPT !.state = s, !.signedIn = TRUE]
               /\ UNCHANGED <<toSidecar, used>>
      BY <3>5, <3>9 DEF UiOK
    <3> QED
      BY <2>7, <3>6, <3>7, <3>8, <3>9 DEF ApplyReport, ApplyStatus
  <2>8. CASE LinkDrops
    <3>1. Unread \in Nat /\ Unread' \in Nat /\ current \in Nat /\ used.starts \in Nat
      BY StartsAreFinite, SignInAssumption DEF Unread, WiresOK, UsedOK
    <3>2. Unread' = 0
      BY <2>8, OtherFramesAreNoStarts DEF LinkDrops, Unread
    <3> QED
      BY <2>8, <3>1, <3>2 DEF LinkDrops, UsedOK
  <2>9. CASE LinkUp
    <3>1. Unread \in Nat /\ Unread' \in Nat /\ current \in Nat /\ used.starts \in Nat
      BY StartsAreFinite, SignInAssumption DEF Unread, WiresOK, UsedOK
    <3>2. Starts(<<ConfigFrame(config)>>) = {}
      BY OtherFramesAreNoStarts DEF WiresOK
    <3>3. Unread' = 0
      BY <2>9, <3>2, FS_EmptySet DEF LinkUp, Unread
    <3> QED
      BY <2>9, <3>1, <3>3 DEF LinkUp
  <2>10. CASE ReadFrame
    <3>1. Unread \in Nat /\ Unread' \in Nat /\ current \in Nat /\ used.starts \in Nat
      BY StartsAreFinite, SignInAssumption DEF Unread, WiresOK, UsedOK
    <3>2. Unread' + (IF Head(toSidecar).type = "auth-start" THEN 1 ELSE 0) <= Unread
      BY <2>10, StartsOfTail DEF ReadFrame, Unread, WiresOK
    <3>3. current' = IF Head(toSidecar).type = "auth-start" THEN current + 1 ELSE current
      BY <2>10 DEF ReadFrame, ApplyConnectionConfig, StartDeviceAuth, RevokeAccount
    <3> QED
      <4>1. UNCHANGED <<ui, used>>
        BY <2>10 DEF ReadFrame
      <4>2. current' \in Nat
        BY DEF WiresOK
      <4>3. \A c, d, u, v, n \in Nat, b \in {0, 1} : v + b <= u /\ d = c + b => (c + u + n <= used.starts => d + v + n <= used.starts)
        BY <3>1
      <4>4. \E b \in {0, 1} : Unread' + b <= Unread /\ current' = current + b
        <5>1. CASE Head(toSidecar).type = "auth-start"
          <6>1. Unread' + 1 <= Unread
            BY <3>2, <5>1
          <6> QED
            BY <3>3, <5>1, <6>1
        <5>2. CASE Head(toSidecar).type # "auth-start"
          <6>1. Unread' + 0 <= Unread
            BY <3>2, <5>2
          <6>2. current' = current + 0
            BY <3>1, <3>3, <5>2
          <6> QED
            BY <6>1, <6>2
        <5> QED
          BY <5>1, <5>2
      <4>5. (IF ui.queued THEN 1 ELSE 0) \in Nat
        OBVIOUS
      <4> QED
        BY <3>1, <4>1, <4>2, <4>3, <4>4, <4>5
  <2>11. CASE AccountReports
    <3>1. Unread \in Nat /\ Unread' \in Nat /\ current \in Nat /\ used.starts \in Nat
      BY StartsAreFinite, SignInAssumption DEF Unread, WiresOK, UsedOK
    <3>2. Unread' = Unread
      BY <2>11 DEF AccountReports, Unread
    <3> QED
      BY <2>11, <3>1, <3>2 DEF AccountReports, UsedOK
  <2>12. CASE UNCHANGED vars
    BY <2>12 DEF vars, Unread
  <2>13. CASE OtherTransition
    BY <2>13 DEF OtherTransition, Unread
  <2> QED
    BY <2>1, <2>2, <2>3, <2>4, <2>5, <2>6, <2>7, <2>8, <2>9, <2>10, <2>11, <2>12, <2>13
    DEF Next
<1> QED
  BY <1>1, <1>2, UiCorrect, UsedCorrect, WiresCorrect, PTL DEF Spec

(* Every variable keeps to its type: no more flows are started than were    *)
(* asked for (SidecarHost.StartDeviceAuth), and none polls longer than its  *)
(* code lives (DeviceCodeAuthenticator.AuthorizeAsync).                     *)
THEOREM TypeCorrect == Spec => []TypeOK
<1>1. UiOK /\ FlowsOK /\ UsedOK /\ WiresOK /\ StartsInv => TypeOK
  <2> SUFFICES ASSUME UiOK, FlowsOK, UsedOK, WiresOK, StartsInv PROVE TypeOK
    OBVIOUS
  <2>1. current \in 0 .. MaxFlows
    <3>1. Unread \in Nat /\ current \in Nat /\ used.starts \in 0 .. MaxFlows
      BY StartsAreFinite DEF Unread, WiresOK, UsedOK
    <3> QED
      BY <3>1, SignInAssumption DEF StartsInv
  <2>2. toSidecar \in Seq(Frames)
    <3>1. toSidecar \in Seq(OwnFrames) /\ OwnFrames \subseteq Frames
      BY DEF WiresOK, OwnFrames
    <3> QED
      BY <3>1
  <2> QED
    BY <2>1, <2>2 DEF TypeOK, UiOK, FlowsOK, Tasks, UsedOK, WiresOK
<1> QED
  BY <1>1, UiCorrect, FlowsCorrect, UsedCorrect, WiresCorrect, StartsCorrect, PTL

(* Outside Cloud mode the slot holds the user's own token, whatever sign-in *)
(* completes, is cancelled or revoked meanwhile (ApplyConnectionConfig and  *)
(* CommitAuthorizedSessionAsync write mode and token under one lock).       *)
THEOREM SlotIsTheUsers == Spec => []SlotFollowsMode
<1>1. WiresOK => SlotFollowsMode
  BY DEF WiresOK, SlotFollowsMode
<1> QED
  BY <1>1, WiresCorrect, PTL

===============================================================================
