------------------------ MODULE ConfigTransitionsProofs ------------------------
(***************************************************************************)
(* What holds of ConfigTransitions for any hosts, and any number of edits, *)
(* dials and sign-ins: the types, that the transition submitted last       *)
(* decides the link, and that a pushed host is dialled.  That a disconnect *)
(* is carried out in the end stays with the model checker.                 *)
(***************************************************************************)
EXTENDS ConfigTransitions, SequenceTheorems, TLAPS

(* The flags.                                                              *)
FlagsOK == ackConnects \in BOOLEAN /\ connectStarted \in BOOLEAN /\ rewritten \in BOOLEAN

LEMMA FlagsCorrect == Spec => []FlagsOK
<1> USE DEF FlagsOK, ipcVars, hostVars, queueVars, history, counters
<1>1. Init => FlagsOK
  BY DEF Init
<1>2. FlagsOK /\ [Next]_vars => FlagsOK'
  <2> SUFFICES ASSUME FlagsOK, [Next]_vars PROVE FlagsOK'
    OBVIOUS
  <2>1. CASE PluginEdits
    BY <2>1 DEF PluginEdits
  <2>2. CASE IpcDial
    BY <2>2 DEF IpcDial
  <2>3. CASE PluginAccepts
    BY <2>3 DEF PluginAccepts
  <2>4. CASE IpcDrops
    BY <2>4 DEF IpcDrops
  <2>5. CASE SignInLooks
    BY <2>5 DEF SignInLooks
  <2>6. CASE TransportDrops
    BY <2>6 DEF TransportDrops
  <2>7. CASE TransportRecovers
    BY <2>7 DEF TransportRecovers
  <2>8. CASE ReadAck
    BY <2>8 DEF ReadAck
  <2>9. CASE AckApplies
    BY <2>9 DEF AckApplies, ApplyConnectionConfig
  <2>10. CASE OnHandshakeAccepted
    BY <2>10 DEF OnHandshakeAccepted, Submit, NoSubmit
  <2>11. CASE ReadConfig
    BY <2>11 DEF ReadConfig
  <2>12. CASE PushApplies
    BY <2>12 DEF PushApplies, ApplyConnectionConfig
  <2>13. CASE OnConfigReceived
    BY <2>13 DEF OnConfigReceived, Submit, NoSubmit
  <2>14. CASE SignInRedials
    BY <2>14 DEF SignInRedials, Submit
  <2>15. ASSUME NEW i \in DOMAIN transitions, Begin(i) PROVE FlagsOK'
    BY <2>15 DEF Begin, Goto, Runnable
  <2>16. ASSUME NEW i \in DOMAIN transitions, PluginDisconnect(i) PROVE FlagsOK'
    BY <2>16 DEF PluginDisconnect, Goto, Finish
  <2>17. ASSUME NEW i \in DOMAIN transitions, PluginConnect(i) PROVE FlagsOK'
    BY <2>17 DEF PluginConnect, Goto, Finish
  <2>18. ASSUME NEW i \in DOMAIN transitions, DialReturns(i) PROVE FlagsOK'
    BY <2>18 DEF DialReturns, Finish
  <2>19. ASSUME NEW i \in DOMAIN transitions, DialRetries(i) PROVE FlagsOK'
    BY <2>19 DEF DialRetries
  <2>20. ASSUME NEW i \in DOMAIN transitions, DialAbandoned(i) PROVE FlagsOK'
    BY <2>20 DEF DialAbandoned, Finish
  <2>21. ASSUME NEW i \in DOMAIN transitions, DialThrows(i) PROVE FlagsOK'
    BY <2>21 DEF DialThrows, Finish
  <2>22. CASE UNCHANGED vars
    BY <2>22 DEF vars
  <2> QED
    BY <2>1, <2>2, <2>3, <2>4, <2>5, <2>6, <2>7, <2>8, <2>9, <2>10, <2>11, <2>12, <2>13, <2>14, <2>15, <2>16, <2>17, <2>18, <2>19, <2>20, <2>21, <2>22
    DEF Next, Handlers, Step
<1> QED
  BY <1>1, <1>2, PTL DEF Spec

(* What the bounds count.                                                  *)
CountsOK == edits \in 0..MaxEdits /\ dials \in 0..MaxDials /\ signIns \in 0..MaxSignIns

LEMMA CountsCorrect == Spec => []CountsOK
<1> USE DEF CountsOK, ipcVars, hostVars, queueVars, history, counters
<1>1. Init => CountsOK
  BY BoundsAssumption DEF Init
<1>2. CountsOK /\ [Next]_vars => CountsOK'
  <2> SUFFICES ASSUME CountsOK, [Next]_vars PROVE CountsOK'
    OBVIOUS
  <2>1. CASE PluginEdits
    BY <2>1, BoundsAssumption DEF PluginEdits
  <2>2. CASE IpcDial
    BY <2>2, BoundsAssumption DEF IpcDial
  <2>3. CASE PluginAccepts
    BY <2>3, BoundsAssumption DEF PluginAccepts
  <2>4. CASE IpcDrops
    BY <2>4, BoundsAssumption DEF IpcDrops
  <2>5. CASE SignInLooks
    BY <2>5, BoundsAssumption DEF SignInLooks
  <2>6. CASE TransportDrops
    BY <2>6, BoundsAssumption DEF TransportDrops
  <2>7. CASE TransportRecovers
    BY <2>7, BoundsAssumption DEF TransportRecovers
  <2>8. CASE ReadAck
    BY <2>8, BoundsAssumption DEF ReadAck
  <2>9. CASE AckApplies
    BY <2>9, BoundsAssumption DEF AckApplies, ApplyConnectionConfig
  <2>10. CASE OnHandshakeAccepted
    BY <2>10, BoundsAssumption DEF OnHandshakeAccepted, Submit, NoSubmit
  <2>11. CASE ReadConfig
    BY <2>11, BoundsAssumption DEF ReadConfig
  <2>12. CASE PushApplies
    BY <2>12, BoundsAssumption DEF PushApplies, ApplyConnectionConfig
  <2>13. CASE OnConfigReceived
    BY <2>13, BoundsAssumption DEF OnConfigReceived, Submit, NoSubmit
  <2>14. CASE SignInRedials
    BY <2>14, BoundsAssumption DEF SignInRedials, Submit
  <2>15. ASSUME NEW i \in DOMAIN transitions, Begin(i) PROVE CountsOK'
    BY <2>15, BoundsAssumption DEF Begin, Goto, Runnable
  <2>16. ASSUME NEW i \in DOMAIN transitions, PluginDisconnect(i) PROVE CountsOK'
    BY <2>16, BoundsAssumption DEF PluginDisconnect, Goto, Finish
  <2>17. ASSUME NEW i \in DOMAIN transitions, PluginConnect(i) PROVE CountsOK'
    BY <2>17, BoundsAssumption DEF PluginConnect, Goto, Finish
  <2>18. ASSUME NEW i \in DOMAIN transitions, DialReturns(i) PROVE CountsOK'
    BY <2>18, BoundsAssumption DEF DialReturns, Finish
  <2>19. ASSUME NEW i \in DOMAIN transitions, DialRetries(i) PROVE CountsOK'
    BY <2>19, BoundsAssumption DEF DialRetries
  <2>20. ASSUME NEW i \in DOMAIN transitions, DialAbandoned(i) PROVE CountsOK'
    BY <2>20, BoundsAssumption DEF DialAbandoned, Finish
  <2>21. ASSUME NEW i \in DOMAIN transitions, DialThrows(i) PROVE CountsOK'
    BY <2>21, BoundsAssumption DEF DialThrows, Finish
  <2>22. CASE UNCHANGED vars
    BY <2>22 DEF vars
  <2> QED
    BY <2>1, <2>2, <2>3, <2>4, <2>5, <2>6, <2>7, <2>8, <2>9, <2>10, <2>11, <2>12, <2>13, <2>14, <2>15, <2>16, <2>17, <2>18, <2>19, <2>20, <2>21, <2>22
    DEF Next, Handlers, Step
<1> QED
  BY <1>1, <1>2, PTL DEF Spec

(* The configuration, from the plugin to the host.                         *)
Wires == [type : {"ack", "config"}, config : Configs]

HostOK ==
  /\ want \in Configs
  /\ ipc \in {"down", "dialed", "up"}
  /\ wire \in Seq(Wires)
  /\ ack \in Configs \cup {NoConfig}
  /\ push \in [at : {"idle", "apply", "decide"}, new : Configs \cup {NoConfig},
               prior : HeldConfigs \cup {NoConfig}]
  /\ push.at # "idle" => push.new \in Configs
  /\ signIn \in {"none", "armed"}
  /\ config \in HeldConfigs
  /\ held \subseteq Hosts \cup {Unset}

LEMMA HostCorrect == Spec => []HostOK
<1> USE DEF HostOK, Configs, HeldConfigs, NoConfig, Idle, ipcVars, hostVars, queueVars, history, counters
<1>1. Init => HostOK
  BY HostsAssumption, EmptySeq DEF Init
<1>2. HostOK /\ [Next]_vars => HostOK'
  <2> SUFFICES ASSUME HostOK, [Next]_vars PROVE HostOK'
    OBVIOUS
  <2>1. CASE PluginEdits
    <3>1. want' \in Configs
      BY <2>1 DEF PluginEdits
    <3>2. [type |-> "config", config |-> want'] \in Wires
      BY <3>1 DEF Wires
    <3>3. wire' \in Seq(Wires)
      BY <2>1, <3>2, AppendProperties DEF PluginEdits
    <3> QED
      BY <2>1, <3>1, <3>3 DEF PluginEdits
  <2>2. CASE IpcDial
    BY <2>2 DEF IpcDial
  <2>3. CASE PluginAccepts
    <3>1. [type |-> "config", config |-> want] \in Wires /\ [type |-> "ack", config |-> want] \in Wires
      BY DEF Wires
    <3>2. wire' \in Seq(Wires)
      BY <2>3, <3>1 DEF PluginAccepts
    <3> QED
      BY <2>3, <3>2 DEF PluginAccepts
  <2>4. CASE IpcDrops
    BY <2>4 DEF IpcDrops
  <2>5. CASE SignInLooks
    BY <2>5 DEF SignInLooks
  <2>6. CASE TransportDrops
    BY <2>6 DEF TransportDrops
  <2>7. CASE TransportRecovers
    BY <2>7 DEF TransportRecovers
  <2>8. CASE ReadAck
    <3>1. Head(wire) \in Wires /\ wire' \in Seq(Wires)
      BY <2>8, HeadTailProperties DEF ReadAck
    <3> QED
      BY <2>8, <3>1 DEF ReadAck, Wires
  <2>9. CASE AckApplies
    BY <2>9 DEF AckApplies, ApplyConnectionConfig
  <2>10. CASE OnHandshakeAccepted
    BY <2>10 DEF OnHandshakeAccepted, Submit, NoSubmit
  <2>11. CASE ReadConfig
    <3>1. Head(wire) \in Wires /\ wire' \in Seq(Wires)
      BY <2>11, HeadTailProperties DEF ReadConfig
    <3> QED
      BY <2>11, <3>1 DEF ReadConfig, Wires
  <2>12. CASE PushApplies
    BY <2>12 DEF PushApplies, ApplyConnectionConfig
  <2>13. CASE OnConfigReceived
    BY <2>13 DEF OnConfigReceived, Submit, NoSubmit
  <2>14. CASE SignInRedials
    BY <2>14 DEF SignInRedials, Submit
  <2>15. ASSUME NEW i \in DOMAIN transitions, Begin(i) PROVE HostOK'
    BY <2>15 DEF Begin, Goto, Runnable
  <2>16. ASSUME NEW i \in DOMAIN transitions, PluginDisconnect(i) PROVE HostOK'
    BY <2>16 DEF PluginDisconnect, Goto, Finish
  <2>17. ASSUME NEW i \in DOMAIN transitions, PluginConnect(i) PROVE HostOK'
    BY <2>17 DEF PluginConnect, Goto, Finish
  <2>18. ASSUME NEW i \in DOMAIN transitions, DialReturns(i) PROVE HostOK'
    BY <2>18 DEF DialReturns, Finish
  <2>19. ASSUME NEW i \in DOMAIN transitions, DialRetries(i) PROVE HostOK'
    BY <2>19 DEF DialRetries
  <2>20. ASSUME NEW i \in DOMAIN transitions, DialAbandoned(i) PROVE HostOK'
    BY <2>20 DEF DialAbandoned, Finish
  <2>21. ASSUME NEW i \in DOMAIN transitions, DialThrows(i) PROVE HostOK'
    BY <2>21 DEF DialThrows, Finish
  <2>22. CASE UNCHANGED vars
    BY <2>22 DEF vars
  <2> QED
    BY <2>1, <2>2, <2>3, <2>4, <2>5, <2>6, <2>7, <2>8, <2>9, <2>10, <2>11, <2>12, <2>13, <2>14, <2>15, <2>16, <2>17, <2>18, <2>19, <2>20, <2>21, <2>22
    DEF Next, Handlers, Step
<1> QED
  BY <1>1, <1>2, PTL DEF Spec

(* What the queue of transitions becomes: a submission cancels the last one  *)
(* and adds its own, a step moves one transition on, an end takes one away.  *)
LEMMA SubmitAdds ==
  ASSUME NEW ts \in Seq(Transition), NEW kind \in Kinds
  PROVE  LET new == [kind |-> kind, cancelled |-> FALSE, at |-> "queued"]
             next == Append(CancelLast(ts), new)
         IN /\ next \in Seq(Transition) /\ Len(next) = Len(ts) + 1
            /\ next[Len(ts) + 1] = new
            /\ \A i \in 1 .. Len(ts) : next[i].kind = ts[i].kind /\ next[i].at = ts[i].at
            /\ \A i \in 1 .. Len(ts) : i = Len(ts) => next[i].cancelled = TRUE
            /\ \A i \in 1 .. Len(ts) : i # Len(ts) => next[i].cancelled = ts[i].cancelled
<1> DEFINE new == [kind |-> kind, cancelled |-> FALSE, at |-> "queued"]
           old == CancelLast(ts)
           next == Append(old, new)
<1>1. /\ DOMAIN ts = 1 .. Len(ts) /\ Len(ts) \in Nat
      /\ \A i \in 1 .. Len(ts) : ts[i] \in Transition
  BY LenProperties, ElementOfSeq
<1>2. \A i \in 1 .. Len(ts) : old[i] = IF i = Len(ts) THEN [ts[i] EXCEPT !.cancelled = TRUE] ELSE ts[i]
  BY <1>1 DEF CancelLast
<1>3. \A i \in 1 .. Len(ts) : old[i] \in Transition
  BY <1>1, <1>2 DEF Transition
<1>4. old \in [1 .. Len(ts) -> Transition]
  BY <1>1, <1>3 DEF CancelLast
<1>5. old \in Seq(Transition) /\ Len(old) = Len(ts)
  BY <1>1, <1>4
<1>6. new \in Transition
  BY DEF Transition
<1> HIDE DEF new, old
<1>7. /\ next \in Seq(Transition) /\ Len(next) = Len(ts) + 1
      /\ next[Len(ts) + 1] = new
      /\ \A i \in 1 .. Len(ts) : next[i] = old[i]
  BY <1>5, <1>6, AppendProperties
<1> HIDE DEF next
<1>8. ASSUME NEW i \in 1 .. Len(ts)
      PROVE  /\ next[i].kind = ts[i].kind /\ next[i].at = ts[i].at
             /\ i = Len(ts) => next[i].cancelled = TRUE
             /\ i # Len(ts) => next[i].cancelled = ts[i].cancelled
  BY <1>1, <1>2, <1>7, ZenonT(30) DEF Transition
<1> QED
  BY <1>7, <1>8, ZenonT(30) DEF next, old, new

LEMMA GotoMoves ==
  ASSUME NEW ts \in Seq(Transition), Len(ts) > 0, NEW where \in {"queued", "disconnect", "connect", "dialing"}
  PROVE  LET next == [ts EXCEPT ![1].at = where]
         IN /\ next \in Seq(Transition) /\ Len(next) = Len(ts)
            /\ \A j \in 1 .. Len(ts) : next[j].kind = ts[j].kind /\ next[j].cancelled = ts[j].cancelled
            /\ \A j \in 1 .. Len(ts) : next[j].at = IF j = 1 THEN where ELSE ts[j].at
<1> DEFINE next == [ts EXCEPT ![1].at = where]
<1>1. /\ DOMAIN ts = 1 .. Len(ts) /\ Len(ts) \in Nat
      /\ \A j \in 1 .. Len(ts) : ts[j] \in Transition
  BY LenProperties, ElementOfSeq
<1>7. 1 \in 1 .. Len(ts)
  BY <1>1
<1>2. \A j \in 1 .. Len(ts) : next[j] = IF j = 1 THEN [ts[j] EXCEPT !.at = where] ELSE ts[j]
  BY <1>1, <1>7
<1>3. \A j \in 1 .. Len(ts) : next[j] \in Transition
  BY <1>1, <1>2 DEF Transition
<1>4. next \in [1 .. Len(ts) -> Transition]
  BY <1>1, <1>3
<1>5. next \in Seq(Transition) /\ Len(next) = Len(ts)
  BY <1>1, <1>4
<1> HIDE DEF next
<1>6. \A j \in 1 .. Len(ts) : /\ next[j].kind = ts[j].kind /\ next[j].cancelled = ts[j].cancelled
                             /\ next[j].at = IF j = 1 THEN where ELSE ts[j].at
  BY <1>1, <1>2 DEF Transition
<1> QED
  BY <1>5, <1>6 DEF next

LEMMA FinishRemoves ==
  ASSUME NEW ts \in Seq(Transition), ts # <<>>
  PROVE  LET next == RemoveAt(ts, 1)
         IN /\ next \in Seq(Transition) /\ Len(next) = Len(ts) - 1
            /\ \A j \in 1 .. Len(ts) - 1 : next[j] = ts[j + 1]
<1> DEFINE front == SubSeq(ts, 1, 0)
           rest == SubSeq(ts, 2, Len(ts))
<1>1. Len(ts) \in Nat \ {0} /\ \A j \in 1 .. Len(ts) : ts[j] \in Transition
  BY LenProperties, ElementOfSeq, EmptySeq
<1>2. front = <<>>
  BY SubSeqEmpty
<1>3. /\ rest \in Seq(Transition) /\ Len(rest) = Len(ts) - 1
      /\ \A j \in 1 .. Len(ts) - 1 : rest[j] = ts[j + 1]
  <2>1. \A j \in 2 .. Len(ts) : ts[j] \in Transition
    BY <1>1
  <2>2. /\ rest \in Seq(Transition)
        /\ Len(rest) = IF 2 <= Len(ts) THEN Len(ts) - 2 + 1 ELSE 0
        /\ \A j \in 1 .. Len(ts) - 2 + 1 : rest[j] = ts[2 + j - 1]
    BY <1>1, <2>1, SubSeqProperties
  <2> HIDE DEF rest
  <2>3. Len(rest) = Len(ts) - 1
    <3>1. CASE Len(ts) = 1
      BY <2>2, <3>1
    <3>2. CASE 2 <= Len(ts)
      <4>1. Len(rest) = Len(ts) - 2 + 1
        BY <2>2, <3>2
      <4> QED
        BY <1>1, <4>1
    <3>3. Len(ts) = 1 \/ 2 <= Len(ts)
      <4>1. \A n \in Nat : n # 0 => n = 1 \/ 2 <= n
        OBVIOUS
      <4> QED
        BY <1>1, <4>1
    <3> QED
      BY <3>1, <3>2, <3>3
  <2>4. ASSUME NEW j \in 1 .. Len(ts) - 1 PROVE rest[j] = ts[j + 1]
    <3>1. j \in 1 .. Len(ts) - 2 + 1 /\ 2 + j - 1 = j + 1
      BY <1>1
    <3> QED
      BY <2>2, <3>1
  <2> QED
    BY <2>2, <2>3, <2>4
<1>4. RemoveAt(ts, 1) = front \o rest
  BY DEF RemoveAt
<1> HIDE DEF front, rest
<1>5. RemoveAt(ts, 1) = rest
  BY <1>2, <1>3, <1>4, ConcatEmptySeq
<1> QED
  BY <1>3, <1>5

(* The newest transition, and no other, is not cancelled; the first, and no *)
(* other, has begun; the client dials exactly when the first does.          *)
Shaped(ts, newest) ==
  /\ \A i \in 1 .. Len(ts) :
       /\ i # Len(ts) => ts[i].cancelled = TRUE
       /\ i = Len(ts) => ts[i].cancelled = FALSE /\ ts[i].kind = newest
       /\ i # 1 => ts[i].at = "queued"
       /\ ts[i].kind = "disconnect" => ts[i].at \in {"queued", "disconnect"}

Dials(ts) == Len(ts) > 0 /\ ts[1].at = "dialing"

QueueOK ==
  /\ transitions \in Seq(Transition) /\ Shaped(transitions, last)
  /\ link \in [state : {"down", "dialing", "up", "lost"}, host : Hosts \cup {Unset}]
  /\ last \in Kinds \cup {"none", "failed"}
  /\ last = "none" => link.state = "down" /\ transitions = <<>>
  /\ link.state = "dialing" <=> Dials(transitions)

LEMMA SubmitKeepsShape ==
  ASSUME NEW ts \in Seq(Transition), NEW newest, Shaped(ts, newest), NEW kind \in Kinds
  PROVE  LET next == Append(CancelLast(ts), [kind |-> kind, cancelled |-> FALSE, at |-> "queued"])
         IN next \in Seq(Transition) /\ Shaped(next, kind) /\ (Dials(next) <=> Dials(ts))
            /\ Len(next) = Len(ts) + 1 /\ (Len(ts) = 0 => next[1].at = "queued")
<1> DEFINE new == [kind |-> kind, cancelled |-> FALSE, at |-> "queued"]
           next == Append(CancelLast(ts), new)
<1>1. new.kind = kind /\ new.cancelled = FALSE /\ new.at = "queued"
  OBVIOUS
<1>2. /\ next \in Seq(Transition) /\ Len(next) = Len(ts) + 1
      /\ next[Len(ts) + 1] = new
      /\ \A i \in 1 .. Len(ts) : next[i].kind = ts[i].kind /\ next[i].at = ts[i].at
      /\ \A i \in 1 .. Len(ts) : i = Len(ts) => next[i].cancelled = TRUE
      /\ \A i \in 1 .. Len(ts) : i # Len(ts) => next[i].cancelled = ts[i].cancelled
  BY SubmitAdds
<1> HIDE DEF new, next
<1>3. Len(ts) \in Nat
  BY LenProperties
<1>4. ASSUME NEW i \in 1 .. Len(ts)
      PROVE  /\ next[i].cancelled = TRUE /\ i # Len(next)
             /\ i # 1 => next[i].at = "queued"
             /\ next[i].kind = "disconnect" => next[i].at \in {"queued", "disconnect"}
  BY <1>2, <1>3 DEF Shaped
<1>5. Shaped(next, kind)
  <2> SUFFICES ASSUME NEW i \in 1 .. Len(ts) + 1
               PROVE  /\ i # Len(next) => next[i].cancelled = TRUE
                      /\ i = Len(next) => next[i].cancelled = FALSE /\ next[i].kind = kind
                      /\ i # 1 => next[i].at = "queued"
                      /\ next[i].kind = "disconnect" => next[i].at \in {"queued", "disconnect"}
    BY <1>2 DEF Shaped
  <2>1. CASE i = Len(ts) + 1
    BY <1>1, <1>2, <2>1
  <2>2. CASE i \in 1 .. Len(ts)
    BY <1>4, <2>2
  <2>3. i = Len(ts) + 1 \/ i \in 1 .. Len(ts)
    BY <1>3
  <2> QED
    BY <2>1, <2>2, <2>3
<1>6. Dials(next) <=> Dials(ts)
  <2>1. CASE Len(ts) = 0
    BY <1>1, <1>2, <2>1 DEF Dials
  <2>2. CASE Len(ts) > 0
    <3>1. 1 \in 1 .. Len(ts)
      BY <1>3, <2>2
    <3> QED
      BY <1>2, <1>3, <2>2, <3>1 DEF Dials
  <2> QED
    BY <1>3, <2>1, <2>2
<1>7. Len(ts) = 0 => next[1].at = "queued"
  BY <1>1, <1>2
<1> QED
  BY <1>2, <1>5, <1>6, <1>7 DEF next, new

LEMMA GotoKeepsShape ==
  ASSUME NEW ts \in Seq(Transition), NEW newest, Shaped(ts, newest), Len(ts) > 0,
         NEW where \in {"disconnect", "connect", "dialing"},
         ts[1].kind = "disconnect" => where = "disconnect"
  PROVE  LET next == [ts EXCEPT ![1].at = where]
         IN next \in Seq(Transition) /\ Shaped(next, newest) /\ (Dials(next) <=> where = "dialing")
            /\ Len(next) = Len(ts) /\ next[1].at = where
<1> DEFINE next == [ts EXCEPT ![1].at = where]
<1>1. Len(ts) \in Nat /\ DOMAIN ts = 1 .. Len(ts) /\ 1 \in 1 .. Len(ts)
  <2>1. Len(ts) \in Nat /\ DOMAIN ts = 1 .. Len(ts)
    BY LenProperties
  <2> QED
    BY <2>1
<1>2. /\ next \in Seq(Transition) /\ Len(next) = Len(ts)
      /\ \A j \in 1 .. Len(ts) : next[j].kind = ts[j].kind /\ next[j].cancelled = ts[j].cancelled
      /\ \A j \in 1 .. Len(ts) : next[j].at = IF j = 1 THEN where ELSE ts[j].at
  <2>1. where \in {"queued", "disconnect", "connect", "dialing"}
    OBVIOUS
  <2> QED
    BY <2>1, GotoMoves, ZenonT(30)
<1> HIDE DEF next
<1>3. Shaped(next, newest)
  BY <1>1, <1>2 DEF Shaped
<1>4. next[1].at = where /\ (Dials(next) <=> where = "dialing")
  BY <1>1, <1>2 DEF Dials
<1> QED
  BY <1>2, <1>3, <1>4 DEF next

LEMMA FinishKeepsShape ==
  ASSUME NEW ts \in Seq(Transition), NEW newest, Shaped(ts, newest), ts # <<>>
  PROVE  LET next == RemoveAt(ts, 1)
         IN next \in Seq(Transition) /\ Shaped(next, newest) /\ ~Dials(next)
            /\ Len(next) = Len(ts) - 1 /\ (Len(next) > 0 => next[1].at = "queued")
<1> DEFINE next == RemoveAt(ts, 1)
<1>1. Len(ts) \in Nat \ {0}
  BY LenProperties, EmptySeq
<1>2. /\ next \in Seq(Transition) /\ Len(next) = Len(ts) - 1
      /\ \A j \in 1 .. Len(ts) - 1 : next[j] = ts[j + 1]
  BY FinishRemoves
<1> HIDE DEF next
<1>3. ASSUME NEW j \in 1 .. Len(next)
      PROVE  /\ j # Len(next) => next[j].cancelled = TRUE
             /\ j = Len(next) => next[j].cancelled = FALSE /\ next[j].kind = newest
             /\ next[j].at = "queued"
  <2>1. j + 1 \in 1 .. Len(ts) /\ j + 1 # 1 /\ (j = Len(next) <=> j + 1 = Len(ts)) /\ next[j] = ts[j + 1]
    BY <1>1, <1>2
  <2> QED
    BY <2>1 DEF Shaped
<1>4. Shaped(next, newest)
  BY <1>3 DEF Shaped
<1>5. Len(next) > 0 => next[1].at = "queued"
  <2> SUFFICES ASSUME Len(next) > 0 PROVE next[1].at = "queued"
    OBVIOUS
  <2>1. 1 \in 1 .. Len(next)
    BY <1>1, <1>2
  <2> QED
    BY <1>3, <2>1
<1> QED
  BY <1>2, <1>4, <1>5 DEF Dials, next

(* A submission, in place of the two forms it has.                         *)
LEMMA SubmitIsTyped ==
  ASSUME QueueOK, NEW kind \in Kinds, Submit(kind), UNCHANGED link PROVE QueueOK'
<1>1. /\ transitions' \in Seq(Transition) /\ Shaped(transitions', last')
      /\ Dials(transitions') <=> Dials(transitions)
  BY SubmitKeepsShape DEF QueueOK, Submit
<1> QED
  BY <1>1 DEF QueueOK, Submit, Kinds

LEMMA NothingIsTyped == ASSUME QueueOK, UNCHANGED <<transitions, last, link>> PROVE QueueOK'
  BY DEF QueueOK, Shaped, Dials

(* The head of the queue, and the transition that has begun, are one.       *)
LEMMA HeadRuns ==
  ASSUME QueueOK, NEW i \in DOMAIN transitions, i = 1 \/ transitions[i].at # "queued"
  PROVE  /\ i = 1 /\ Len(transitions) \in Nat /\ Len(transitions) > 0
         /\ Len(transitions) = 1 => transitions[1].cancelled = FALSE /\ transitions[1].kind = last
         /\ Len(transitions) # 1 => transitions[1].cancelled = TRUE
         /\ transitions[1].kind = "disconnect" => transitions[1].at \in {"queued", "disconnect"}
         /\ last # "none" /\ last # "failed"
<1>1. i \in 1 .. Len(transitions) /\ Len(transitions) \in Nat
  BY LenProperties DEF QueueOK
<1>2. i = 1 /\ Len(transitions) > 0 /\ 1 \in 1 .. Len(transitions)
  BY <1>1 DEF QueueOK, Shaped
<1>3. transitions # <<>> /\ Len(transitions) \in 1 .. Len(transitions)
  BY <1>1, <1>2, EmptySeq
<1>4. transitions[Len(transitions)] \in Transition
  BY <1>3, ElementOfSeq DEF QueueOK
<1>5. transitions[Len(transitions)].kind \in Kinds
  BY <1>4 DEF Transition
<1>6. last \in Kinds
  BY <1>3, <1>5 DEF QueueOK, Shaped
<1> QED
  BY <1>1, <1>2, <1>3, <1>6 DEF QueueOK, Shaped, Kinds

LEMMA QueueCorrect == Spec => []QueueOK
<1> USE DEF ipcVars, hostVars, queueVars, history, counters
<1>1. Init => QueueOK
  BY EmptySeq DEF Init, QueueOK, Shaped, Dials
<1>2. QueueOK /\ HostOK /\ [Next]_vars => QueueOK'
  <2> SUFFICES ASSUME QueueOK, HostOK, [Next]_vars PROVE QueueOK'
    OBVIOUS
  <2>1. CASE PluginEdits
    BY <2>1, NothingIsTyped DEF PluginEdits
  <2>2. CASE IpcDial
    BY <2>2, NothingIsTyped DEF IpcDial
  <2>3. CASE PluginAccepts
    BY <2>3, NothingIsTyped DEF PluginAccepts
  <2>4. CASE IpcDrops
    BY <2>4, NothingIsTyped DEF IpcDrops
  <2>5. CASE SignInLooks
    BY <2>5, NothingIsTyped DEF SignInLooks
  <2>6. CASE TransportDrops
    <3>1. UNCHANGED <<transitions, last>>
      BY <2>6 DEF TransportDrops
    <3>2. link'.state # "dialing" /\ link'.state # "down" /\ link.state # "dialing" /\ link.state # "down"
      BY <2>6 DEF TransportDrops, QueueOK
    <3>3. link' \in [state : {"down", "dialing", "up", "lost"}, host : Hosts \cup {Unset}]
      BY <2>6 DEF TransportDrops, QueueOK
    <3> QED
      BY <3>1, <3>2, <3>3 DEF QueueOK, Shaped, Dials
  <2>7. CASE TransportRecovers
    <3>1. UNCHANGED <<transitions, last>>
      BY <2>7 DEF TransportRecovers
    <3>2. link'.state # "dialing" /\ link'.state # "down" /\ link.state # "dialing" /\ link.state # "down"
      BY <2>7 DEF TransportRecovers, QueueOK
    <3>3. link' \in [state : {"down", "dialing", "up", "lost"}, host : Hosts \cup {Unset}]
      BY <2>7 DEF TransportRecovers, QueueOK
    <3> QED
      BY <3>1, <3>2, <3>3 DEF QueueOK, Shaped, Dials
  <2>8. CASE ReadAck
    BY <2>8, NothingIsTyped DEF ReadAck
  <2>9. CASE AckApplies
    BY <2>9, NothingIsTyped DEF AckApplies
  <2>10. CASE OnHandshakeAccepted
    <3>1. CASE Submit("connect")
      BY <2>10, <3>1, SubmitIsTyped DEF OnHandshakeAccepted, Kinds
    <3>2. CASE NoSubmit
      BY <2>10, <3>2, NothingIsTyped DEF OnHandshakeAccepted, NoSubmit
    <3> QED
      BY <2>10, <3>1, <3>2 DEF OnHandshakeAccepted
  <2>11. CASE ReadConfig
    BY <2>11, NothingIsTyped DEF ReadConfig
  <2>12. CASE PushApplies
    BY <2>12, NothingIsTyped DEF PushApplies
  <2>13. CASE OnConfigReceived
    <3> DEFINE kind == DecideConfigTransition(push.prior, config)
    <3>1. CASE kind # "none" /\ Submit(kind)
      <4>1. kind \in Kinds
        BY <3>1 DEF DecideConfigTransition, Kinds
      <4> QED
        BY <2>13, <3>1, <4>1, SubmitIsTyped DEF OnConfigReceived
    <3>2. CASE NoSubmit
      BY <2>13, <3>2, NothingIsTyped DEF OnConfigReceived, NoSubmit
    <3> QED
      BY <2>13, <3>1, <3>2 DEF OnConfigReceived
  <2>14. CASE SignInRedials
    BY <2>14, SubmitIsTyped DEF SignInRedials, Kinds
  <2>15. ASSUME NEW i \in DOMAIN transitions, Begin(i) PROVE QueueOK'
    <3>1. i \in 1 .. Len(transitions) /\ Len(transitions) \in Nat /\ transitions # <<>> /\ Len(transitions) > 0
      BY LenProperties, EmptySeq DEF QueueOK
    <3>2. i = 1
      BY <2>15, <3>1 DEF Begin, Runnable, QueueOK, Shaped
    <3> DEFINE where == IF transitions[1].kind = "connect" THEN "connect" ELSE "disconnect"
    <3>3. where \in {"disconnect", "connect", "dialing"} /\ (transitions[1].kind = "disconnect" => where = "disconnect") /\ where # "dialing"
      OBVIOUS
    <3>4. transitions' = [transitions EXCEPT ![1].at = where] /\ UNCHANGED <<link, last>> /\ transitions[1].at = "queued"
      BY <2>15, <3>2 DEF Begin, Goto
    <3> HIDE DEF where
    <3>5. transitions' \in Seq(Transition) /\ Shaped(transitions', last') /\ ~Dials(transitions')
      BY <3>1, <3>3, <3>4, GotoKeepsShape DEF QueueOK
    <3>6. ~Dials(transitions) /\ last # "none"
      BY <3>1, <3>4 DEF Dials, QueueOK
    <3> QED
      BY <3>4, <3>5, <3>6 DEF QueueOK
  <2>16. ASSUME NEW i \in DOMAIN transitions, PluginDisconnect(i) PROVE QueueOK'
    <3>1. i \in 1 .. Len(transitions) /\ Len(transitions) \in Nat /\ transitions # <<>> /\ Len(transitions) > 0
      BY LenProperties, EmptySeq DEF QueueOK
    <3>2. i = 1
      BY <2>16, <3>1 DEF PluginDisconnect, Runnable, QueueOK, Shaped
    <3>3. link' \in {[state |-> "down", host |-> Unset], link} /\ UNCHANGED last
      BY <2>16 DEF PluginDisconnect
    <3>4. ~Dials(transitions) /\ last # "none" /\ link.state # "dialing"
      BY <2>16, <3>1, <3>2 DEF PluginDisconnect, Dials, QueueOK
    <3>5. transitions' \in Seq(Transition) /\ Shaped(transitions', last') /\ ~Dials(transitions')
      <4>1. CASE transitions' = RemoveAt(transitions, 1)
        BY <3>1, <3>3, <4>1, FinishKeepsShape DEF QueueOK
      <4>2. CASE transitions[1].kind # "disconnect" /\ transitions' = [transitions EXCEPT ![1].at = "connect"]
        BY <3>1, <3>3, <4>2, GotoKeepsShape DEF QueueOK
      <4> QED
        BY <2>16, <3>2, <4>1, <4>2 DEF PluginDisconnect, Finish, Goto
    <3> QED
      BY <3>3, <3>4, <3>5 DEF QueueOK
  <2>17. ASSUME NEW i \in DOMAIN transitions, PluginConnect(i) PROVE QueueOK'
    <3>1. i \in 1 .. Len(transitions) /\ Len(transitions) \in Nat /\ transitions # <<>> /\ Len(transitions) > 0
      BY LenProperties, EmptySeq DEF QueueOK
    <3>2. i = 1
      BY <2>17, <3>1 DEF PluginConnect, Runnable, QueueOK, Shaped
    <3>3. last # "none" /\ UNCHANGED last
      BY <2>17, <3>1 DEF PluginConnect, QueueOK
    <3>4. CASE transitions' = RemoveAt(transitions, 1) /\ UNCHANGED link
      <4>1. ~Dials(transitions)
        BY <2>17, <3>2 DEF PluginConnect, Dials
      <4>2. transitions' \in Seq(Transition) /\ Shaped(transitions', last') /\ ~Dials(transitions')
        BY <3>1, <3>3, <3>4, FinishKeepsShape DEF QueueOK
      <4> QED
        BY <3>3, <3>4, <4>1, <4>2 DEF QueueOK
    <3>5. CASE transitions' = [transitions EXCEPT ![1].at = "dialing"] /\ link' = [state |-> "dialing", host |-> config.host]
      <4>1. transitions[1].kind # "disconnect"
        BY <2>17, <3>1, <3>2 DEF PluginConnect, QueueOK, Shaped
      <4>2. transitions' \in Seq(Transition) /\ Shaped(transitions', last') /\ Dials(transitions')
        BY <3>1, <3>3, <3>5, <4>1, GotoKeepsShape DEF QueueOK
      <4>3. config.host \in Hosts \cup {Unset}
        BY DEF HostOK, HeldConfigs
      <4> QED
        BY <3>3, <3>5, <4>2, <4>3 DEF QueueOK
    <3> QED
      BY <2>17, <3>2, <3>4, <3>5 DEF PluginConnect, Finish, Goto
  <2>18. ASSUME NEW i \in DOMAIN transitions, DialReturns(i) PROVE QueueOK'
    <3>1. i \in 1 .. Len(transitions) /\ Len(transitions) \in Nat /\ transitions # <<>> /\ Len(transitions) > 0
      BY LenProperties, EmptySeq DEF QueueOK
    <3>2. i = 1
      BY <2>18, <3>1 DEF DialReturns, Runnable, QueueOK, Shaped
    <3>3. last # "none" /\ UNCHANGED last /\ transitions' = RemoveAt(transitions, 1)
      BY <2>18, <3>1, <3>2 DEF DialReturns, Finish, QueueOK
    <3>4. link' \in [state : {"down", "dialing", "up", "lost"}, host : Hosts \cup {Unset}] /\ link'.state # "dialing"
      BY <2>18 DEF DialReturns, QueueOK
    <3>5. transitions' \in Seq(Transition) /\ Shaped(transitions', last') /\ ~Dials(transitions')
      BY <3>1, <3>3, FinishKeepsShape DEF QueueOK
    <3> QED
      BY <3>3, <3>4, <3>5 DEF QueueOK
  <2>19. ASSUME NEW i \in DOMAIN transitions, DialRetries(i) PROVE QueueOK'
    <3>1. UNCHANGED <<transitions, last>> /\ link.state = "dialing" /\ link'.state = "dialing"
      BY <2>19 DEF DialRetries, QueueOK
    <3>2. config.host \in Hosts \cup {Unset}
      BY DEF HostOK, HeldConfigs
    <3>3. link' \in [state : {"down", "dialing", "up", "lost"}, host : Hosts \cup {Unset}]
      BY <2>19, <3>2 DEF DialRetries, QueueOK
    <3> QED
      BY <3>1, <3>3 DEF QueueOK, Shaped, Dials
  <2>20. ASSUME NEW i \in DOMAIN transitions, DialAbandoned(i) PROVE QueueOK'
    <3>1. i \in 1 .. Len(transitions) /\ Len(transitions) \in Nat /\ transitions # <<>> /\ Len(transitions) > 0
      BY LenProperties, EmptySeq DEF QueueOK
    <3>2. i = 1
      BY <2>20, <3>1 DEF DialAbandoned, Runnable, QueueOK, Shaped
    <3>3. last # "none" /\ UNCHANGED last /\ transitions' = RemoveAt(transitions, 1)
      BY <2>20, <3>1, <3>2 DEF DialAbandoned, Finish, QueueOK
    <3>4. link' \in [state : {"down", "dialing", "up", "lost"}, host : Hosts \cup {Unset}] /\ link'.state # "dialing"
      BY <2>20 DEF DialAbandoned, QueueOK
    <3>5. transitions' \in Seq(Transition) /\ Shaped(transitions', last') /\ ~Dials(transitions')
      BY <3>1, <3>3, FinishKeepsShape DEF QueueOK
    <3> QED
      BY <3>3, <3>4, <3>5 DEF QueueOK
  <2>21. ASSUME NEW i \in DOMAIN transitions, DialThrows(i) PROVE QueueOK'
    <3>0. i = 1 \/ transitions[i].at # "queued"
      BY <2>21 DEF DialThrows
    <3>1. /\ i = 1 /\ Len(transitions) = 1 /\ last # "none" /\ transitions \in Seq(Transition)
          /\ Shaped(transitions, last) /\ transitions # <<>>
      <4>1. /\ i = 1 /\ Len(transitions) > 0 /\ last # "none"
            /\ Len(transitions) # 1 => transitions[1].cancelled = TRUE
        BY <3>0, HeadRuns
      <4>2. Len(transitions) = 1 /\ transitions # <<>>
        BY <2>21, <4>1, EmptySeq DEF DialThrows
      <4> QED
        BY <4>1, <4>2 DEF QueueOK
    <3>2. transitions' = RemoveAt(transitions, 1) /\ last' = "failed" /\ link' = [state |-> "down", host |-> Unset]
      BY <2>21, <3>1 DEF DialThrows, Finish
    <3>3. transitions' \in Seq(Transition) /\ Len(transitions') = 0 /\ ~Dials(transitions')
      BY <3>1, <3>2, FinishKeepsShape
    <3>4. Shaped(transitions', last')
      BY <3>3 DEF Shaped
    <3> QED
      BY <3>2, <3>3, <3>4 DEF QueueOK
  <2>22. CASE UNCHANGED vars
    BY <2>22 DEF vars, QueueOK, Shaped, Dials
  <2> QED
    BY <2>1, <2>2, <2>3, <2>4, <2>5, <2>6, <2>7, <2>8, <2>9, <2>10, <2>11, <2>12, <2>13, <2>14, <2>15, <2>16, <2>17, <2>18, <2>19, <2>20, <2>21, <2>22
    DEF Next, Handlers, Step
<1> QED
  BY <1>1, <1>2, HostCorrect, PTL DEF Spec

(* The host of the configuration has been held since the last submission.  *)
HeldInv == config.host \in held

LEMMA HeldCorrect == Spec => []HeldInv
<1> USE DEF HeldInv, ipcVars, hostVars, queueVars, history, counters
<1>1. Init => HeldInv
  BY DEF Init
<1>2. HeldInv /\ [Next]_vars => HeldInv'
  <2> SUFFICES ASSUME HeldInv, [Next]_vars PROVE HeldInv'
    OBVIOUS
  <2>1. CASE PluginEdits
    BY <2>1 DEF PluginEdits
  <2>2. CASE IpcDial
    BY <2>2 DEF IpcDial
  <2>3. CASE PluginAccepts
    BY <2>3 DEF PluginAccepts
  <2>4. CASE IpcDrops
    BY <2>4 DEF IpcDrops
  <2>5. CASE SignInLooks
    BY <2>5 DEF SignInLooks
  <2>6. CASE TransportDrops
    BY <2>6 DEF TransportDrops
  <2>7. CASE TransportRecovers
    BY <2>7 DEF TransportRecovers
  <2>8. CASE ReadAck
    BY <2>8 DEF ReadAck
  <2>9. CASE AckApplies
    BY <2>9 DEF AckApplies, ApplyConnectionConfig
  <2>10. CASE OnHandshakeAccepted
    BY <2>10 DEF OnHandshakeAccepted, Submit, NoSubmit
  <2>11. CASE ReadConfig
    BY <2>11 DEF ReadConfig
  <2>12. CASE PushApplies
    BY <2>12 DEF PushApplies, ApplyConnectionConfig
  <2>13. CASE OnConfigReceived
    BY <2>13 DEF OnConfigReceived, Submit, NoSubmit
  <2>14. CASE SignInRedials
    BY <2>14 DEF SignInRedials, Submit
  <2>15. ASSUME NEW i \in DOMAIN transitions, Begin(i) PROVE HeldInv'
    BY <2>15 DEF Begin, Goto, Runnable
  <2>16. ASSUME NEW i \in DOMAIN transitions, PluginDisconnect(i) PROVE HeldInv'
    BY <2>16 DEF PluginDisconnect, Goto, Finish
  <2>17. ASSUME NEW i \in DOMAIN transitions, PluginConnect(i) PROVE HeldInv'
    BY <2>17 DEF PluginConnect, Goto, Finish
  <2>18. ASSUME NEW i \in DOMAIN transitions, DialReturns(i) PROVE HeldInv'
    BY <2>18 DEF DialReturns, Finish
  <2>19. ASSUME NEW i \in DOMAIN transitions, DialRetries(i) PROVE HeldInv'
    BY <2>19 DEF DialRetries
  <2>20. ASSUME NEW i \in DOMAIN transitions, DialAbandoned(i) PROVE HeldInv'
    BY <2>20 DEF DialAbandoned, Finish
  <2>21. ASSUME NEW i \in DOMAIN transitions, DialThrows(i) PROVE HeldInv'
    BY <2>21 DEF DialThrows, Finish
  <2>22. CASE UNCHANGED vars
    BY <2>22 DEF vars
  <2> QED
    BY <2>1, <2>2, <2>3, <2>4, <2>5, <2>6, <2>7, <2>8, <2>9, <2>10, <2>11, <2>12, <2>13, <2>14, <2>15, <2>16, <2>17, <2>18, <2>19, <2>20, <2>21, <2>22
    DEF Next, Handlers, Step
<1> QED
  BY <1>1, <1>2, PTL DEF Spec

(* What is left when the queue is empty, and what its last transition does. *)
OutcomeInv ==
  /\ transitions = <<>> /\ last \in {"disconnect", "failed"} => link.state = "down"
  /\ transitions = <<>> /\ last = "reconnect" => link.state \in {"up", "lost"} /\ link.host \in held
  /\ Len(transitions) = 1 /\ last = "reconnect" /\ transitions[1].at = "connect" => link.state = "down"
  /\ Len(transitions) = 1 /\ transitions[1].at = "dialing" => link.host \in held

LEMMA SubmitLeavesOutcome ==
  ASSUME QueueOK, NEW kind \in Kinds, Submit(kind) PROVE OutcomeInv'
<1>1. /\ Len(transitions') = Len(transitions) + 1 /\ Len(transitions) \in Nat
      /\ Len(transitions) = 0 => transitions'[1].at = "queued"
  BY SubmitKeepsShape, LenProperties DEF Submit, QueueOK
<1>2. Len(transitions') # 0 /\ (Len(transitions') = 1 => Len(transitions) = 0)
  BY <1>1
<1>3. transitions' # <<>>
  BY <1>2
<1> QED
  BY <1>1, <1>2, <1>3 DEF OutcomeInv

(* What the end of the head leaves to be said.                              *)
LEMMA FinishLeaves ==
  ASSUME QueueOK, Len(transitions) > 0, transitions' = RemoveAt(transitions, 1),
         Len(transitions) = 1 => /\ last' \in {"disconnect", "failed"} => link'.state = "down"
                                 /\ last' = "reconnect" => link'.state \in {"up", "lost"} /\ link'.host \in held'
  PROVE  OutcomeInv'
<1>1. Len(transitions) \in Nat /\ transitions # <<>> /\ transitions \in Seq(Transition)
  BY LenProperties, EmptySeq DEF QueueOK
<1>2. Len(transitions') = Len(transitions) - 1 /\ (Len(transitions') > 0 => transitions'[1].at = "queued")
  BY <1>1, FinishKeepsShape DEF QueueOK
<1>3. transitions' = <<>> => Len(transitions) = 1
  <2> SUFFICES ASSUME transitions' = <<>> PROVE Len(transitions) = 1
    OBVIOUS
  <2>1. Len(transitions') = 0
    OBVIOUS
  <2> QED
    BY <1>1, <1>2, <2>1
<1>4. Len(transitions') = 1 => transitions'[1].at = "queued"
  BY <1>2
<1> QED
  BY <1>3, <1>4 DEF OutcomeInv

LEMMA OutcomeCorrect == Spec => []OutcomeInv
<1> USE DEF ipcVars, hostVars, queueVars, history, counters
<1>1. Init => OutcomeInv
  BY EmptySeq DEF Init, OutcomeInv
<1>2. OutcomeInv /\ QueueOK /\ HeldInv /\ [Next]_vars => OutcomeInv'
  <2> SUFFICES ASSUME OutcomeInv, QueueOK, HeldInv, [Next]_vars PROVE OutcomeInv'
    OBVIOUS
  <2>1. CASE PluginEdits
    BY <2>1 DEF PluginEdits, OutcomeInv
  <2>2. CASE IpcDial
    BY <2>2 DEF IpcDial, OutcomeInv
  <2>3. CASE PluginAccepts
    BY <2>3 DEF PluginAccepts, OutcomeInv
  <2>4. CASE IpcDrops
    BY <2>4 DEF IpcDrops, OutcomeInv
  <2>5. CASE SignInLooks
    BY <2>5 DEF SignInLooks, OutcomeInv
  <2>6. CASE TransportDrops
    <3>1. UNCHANGED <<transitions, last, held>> /\ link.state \in {"up", "lost"} /\ link'.state \in {"up", "lost"} /\ link'.host = link.host
      BY <2>6 DEF TransportDrops, QueueOK
    <3> QED
      BY <3>1 DEF OutcomeInv
  <2>7. CASE TransportRecovers
    <3>1. UNCHANGED <<transitions, last, held>> /\ link.state \in {"up", "lost"} /\ link'.state \in {"up", "lost"} /\ link'.host = link.host
      BY <2>7 DEF TransportRecovers, QueueOK
    <3> QED
      BY <3>1 DEF OutcomeInv
  <2>8. CASE ReadAck
    BY <2>8 DEF ReadAck, OutcomeInv
  <2>9. CASE AckApplies
    BY <2>9 DEF AckApplies, ApplyConnectionConfig, OutcomeInv
  <2>10. CASE OnHandshakeAccepted
    <3>1. CASE Submit("connect")
      BY <3>1, SubmitLeavesOutcome DEF Kinds
    <3>2. CASE NoSubmit
      BY <2>10, <3>2 DEF OnHandshakeAccepted, NoSubmit, OutcomeInv
    <3> QED
      BY <2>10, <3>1, <3>2 DEF OnHandshakeAccepted
  <2>11. CASE ReadConfig
    BY <2>11 DEF ReadConfig, OutcomeInv
  <2>12. CASE PushApplies
    BY <2>12 DEF PushApplies, ApplyConnectionConfig, OutcomeInv
  <2>13. CASE OnConfigReceived
    <3> DEFINE kind == DecideConfigTransition(push.prior, config)
    <3>1. CASE kind # "none" /\ Submit(kind)
      <4>1. kind \in Kinds
        BY <3>1 DEF DecideConfigTransition, Kinds
      <4> QED
        BY <3>1, <4>1, SubmitLeavesOutcome
    <3>2. CASE NoSubmit
      BY <2>13, <3>2 DEF OnConfigReceived, NoSubmit, OutcomeInv
    <3> QED
      BY <2>13, <3>1, <3>2 DEF OnConfigReceived
  <2>14. CASE SignInRedials
    BY <2>14, SubmitLeavesOutcome DEF SignInRedials, Kinds
  <2>15. ASSUME NEW i \in DOMAIN transitions, Begin(i) PROVE OutcomeInv'
    <3>1. /\ i = 1 /\ Len(transitions) \in Nat /\ Len(transitions) > 0 /\ UNCHANGED <<last, held>>
          /\ Len(transitions) = 1 => transitions[1].cancelled = FALSE /\ transitions[1].kind = last
          /\ Len(transitions) # 1 => transitions[1].cancelled = TRUE
          /\ transitions[1].kind = "disconnect" => transitions[1].at \in {"queued", "disconnect"}
      BY <2>15, HeadRuns DEF Begin, Runnable
    <3>2. transitions # <<>> /\ transitions \in Seq(Transition) /\ Shaped(transitions, last)
      BY <3>1, EmptySeq DEF QueueOK
    <3> DEFINE where == IF transitions[1].kind = "connect" THEN "connect" ELSE "disconnect"
    <3>3. /\ where \in {"disconnect", "connect", "dialing"} /\ (transitions[1].kind = "disconnect" => where = "disconnect")
          /\ where # "dialing" /\ (transitions[1].kind = "reconnect" => where # "connect")
      OBVIOUS
    <3>4. transitions' = [transitions EXCEPT ![1].at = where]
      BY <2>15, <3>1 DEF Begin, Goto
    <3> HIDE DEF where
    <3>5. Len(transitions') = Len(transitions) /\ transitions'[1].at = where
      BY <3>1, <3>2, <3>3, <3>4, GotoKeepsShape
    <3>6. transitions' # <<>>
      BY <3>1, <3>5
    <3> QED
      BY <3>1, <3>3, <3>5, <3>6 DEF OutcomeInv
  <2>16. ASSUME NEW i \in DOMAIN transitions, PluginDisconnect(i) PROVE OutcomeInv'
    <3>1. /\ i = 1 /\ Len(transitions) \in Nat /\ Len(transitions) > 0 /\ UNCHANGED <<last, held>>
          /\ Len(transitions) = 1 => transitions[1].cancelled = FALSE /\ transitions[1].kind = last
          /\ Len(transitions) # 1 => transitions[1].cancelled = TRUE
          /\ transitions[1].kind = "disconnect" => transitions[1].at \in {"queued", "disconnect"}
      BY <2>16, HeadRuns DEF PluginDisconnect, Runnable
    <3>2. transitions # <<>> /\ transitions \in Seq(Transition) /\ Shaped(transitions, last)
      BY <3>1, EmptySeq DEF QueueOK
    <3>3. Len(transitions) = 1 => link'.state = "down"
      BY <2>16, <3>1 DEF PluginDisconnect
    <3>4. CASE transitions[1].kind = "disconnect" /\ transitions' = RemoveAt(transitions, 1)
      BY <3>1, <3>3, <3>4, FinishLeaves
    <3>5. CASE transitions[1].kind # "disconnect" /\ transitions' = [transitions EXCEPT ![1].at = "connect"]
      <4>1. Len(transitions') = Len(transitions) /\ transitions'[1].at = "connect"
        BY <3>1, <3>2, <3>5, GotoKeepsShape
      <4>2. transitions' # <<>>
        BY <3>1, <4>1
      <4> QED
        BY <3>1, <3>3, <4>1, <4>2 DEF OutcomeInv
    <3> QED
      BY <2>16, <3>1, <3>4, <3>5 DEF PluginDisconnect, Finish, Goto
  <2>17. ASSUME NEW i \in DOMAIN transitions, PluginConnect(i) PROVE OutcomeInv'
    <3>1. /\ i = 1 /\ Len(transitions) \in Nat /\ Len(transitions) > 0 /\ UNCHANGED <<last, held>>
          /\ Len(transitions) = 1 => transitions[1].cancelled = FALSE /\ transitions[1].kind = last
          /\ Len(transitions) # 1 => transitions[1].cancelled = TRUE
          /\ transitions[1].kind = "disconnect" => transitions[1].at \in {"queued", "disconnect"}
      BY <2>17, HeadRuns DEF PluginConnect, Runnable
    <3>2. transitions # <<>> /\ transitions \in Seq(Transition) /\ Shaped(transitions, last)
      BY <3>1, EmptySeq DEF QueueOK
    <3>3. transitions[1].at = "connect"
      BY <2>17, <3>1 DEF PluginConnect
    <3>4. CASE transitions' = RemoveAt(transitions, 1) /\ (transitions[1].cancelled \/ link.state # "down")
      <4>1. Len(transitions) = 1 => last \notin {"disconnect", "failed"} /\ last # "reconnect"
        BY <2>17, <3>1, <3>3, <3>4, HeadRuns DEF OutcomeInv
      <4> QED
        BY <3>1, <3>4, <4>1, FinishLeaves
    <3>5. CASE transitions' = [transitions EXCEPT ![1].at = "dialing"] /\ link' = [state |-> "dialing", host |-> config.host]
      <4>1. Len(transitions') = Len(transitions) /\ transitions'[1].at = "dialing"
        BY <3>1, <3>2, <3>3, <3>5, GotoKeepsShape
      <4>2. transitions' # <<>> /\ link'.host \in held'
        BY <3>1, <3>5, <4>1 DEF HeldInv
      <4> QED
        BY <4>1, <4>2 DEF OutcomeInv
    <3> QED
      BY <2>17, <3>1, <3>4, <3>5 DEF PluginConnect, Finish, Goto
  <2>18. ASSUME NEW i \in DOMAIN transitions, DialReturns(i) PROVE OutcomeInv'
    <3>1. /\ i = 1 /\ Len(transitions) \in Nat /\ Len(transitions) > 0 /\ UNCHANGED <<last, held>>
          /\ Len(transitions) = 1 => transitions[1].cancelled = FALSE /\ transitions[1].kind = last
          /\ Len(transitions) # 1 => transitions[1].cancelled = TRUE
          /\ transitions[1].kind = "disconnect" => transitions[1].at \in {"queued", "disconnect"}
      BY <2>18, HeadRuns DEF DialReturns, Runnable
    <3>2. transitions # <<>> /\ transitions \in Seq(Transition) /\ Shaped(transitions, last)
      BY <3>1, EmptySeq DEF QueueOK
    <3>3. transitions[1].at = "dialing" /\ transitions' = RemoveAt(transitions, 1)
      BY <2>18, <3>1 DEF DialReturns, Finish
    <3>4. link'.state \in {"up", "lost"} /\ link'.host = link.host
      BY <2>18 DEF DialReturns, QueueOK
    <3>5. Len(transitions) = 1 => last \notin {"disconnect", "failed"} /\ link.host \in held
      BY <2>18, <3>1, <3>3, HeadRuns DEF OutcomeInv
    <3> QED
      BY <3>1, <3>3, <3>4, <3>5, FinishLeaves
  <2>19. ASSUME NEW i \in DOMAIN transitions, DialRetries(i) PROVE OutcomeInv'
    <3>1. link'.state = link.state /\ link'.state = "dialing" /\ link'.host \in held' /\ UNCHANGED <<transitions, last>>
      BY <2>19 DEF DialRetries, HeldInv, QueueOK
    <3> QED
      BY <3>1 DEF OutcomeInv
  <2>20. ASSUME NEW i \in DOMAIN transitions, DialAbandoned(i) PROVE OutcomeInv'
    <3>1. /\ i = 1 /\ Len(transitions) \in Nat /\ Len(transitions) > 0 /\ UNCHANGED <<last, held>>
          /\ Len(transitions) = 1 => transitions[1].cancelled = FALSE /\ transitions[1].kind = last
          /\ Len(transitions) # 1 => transitions[1].cancelled = TRUE
          /\ transitions[1].kind = "disconnect" => transitions[1].at \in {"queued", "disconnect"}
      BY <2>20, HeadRuns DEF DialAbandoned, Runnable
    <3>2. transitions # <<>> /\ transitions \in Seq(Transition) /\ Shaped(transitions, last)
      BY <3>1, EmptySeq DEF QueueOK
    <3>3. transitions[1].cancelled /\ transitions' = RemoveAt(transitions, 1)
      BY <2>20, <3>1 DEF DialAbandoned, Finish
    <3> QED
      BY <3>1, <3>3, FinishLeaves
  <2>21. ASSUME NEW i \in DOMAIN transitions, DialThrows(i) PROVE OutcomeInv'
    <3>1. i = 1 /\ Len(transitions) > 0
      BY <2>21, HeadRuns DEF DialThrows, Runnable
    <3>2. transitions' = RemoveAt(transitions, 1) /\ last' = "failed" /\ link'.state = "down"
      BY <2>21, <3>1 DEF DialThrows, Finish
    <3> QED
      BY <3>1, <3>2, FinishLeaves
  <2>22. CASE UNCHANGED vars
    BY <2>22 DEF vars, OutcomeInv
  <2> QED
    BY <2>1, <2>2, <2>3, <2>4, <2>5, <2>6, <2>7, <2>8, <2>9, <2>10, <2>11, <2>12, <2>13, <2>14, <2>15, <2>16, <2>17, <2>18, <2>19, <2>20, <2>21, <2>22
    DEF Next, Handlers, Step
<1> QED
  BY <1>1, <1>2, QueueCorrect, HeldCorrect, PTL DEF Spec

(* Every variable keeps to its type, and only the newest transition is not  *)
(* cancelled: RunConnectionTransition cancels the one in flight, never the  *)
(* one it submits.                                                          *)
THEOREM TypeCorrect == Spec => []TypeOK
<1>1. FlagsOK /\ CountsOK /\ HostOK /\ QueueOK => TypeOK
  <2> SUFFICES ASSUME FlagsOK, CountsOK, HostOK, QueueOK PROVE TypeOK
    OBVIOUS
  <2>1. \A i \in DOMAIN transitions : transitions[i].cancelled <=> i # Len(transitions)
    BY LenProperties DEF QueueOK, Shaped
  <2> QED
    BY <2>1 DEF TypeOK, FlagsOK, CountsOK, HostOK, QueueOK, Wires
<1> QED
  BY <1>1, FlagsCorrect, CountsCorrect, HostCorrect, QueueCorrect, PTL

(* RunConnectionTransition is last-write-wins: when every transition has    *)
(* ended, the link is what the one submitted last asked for, and to a host  *)
(* the configuration has held since.                                        *)
THEOREM LastWins == Spec => []LastSubmissionWins
<1>1. OutcomeInv => LastSubmissionWins
  BY DEF OutcomeInv, LastSubmissionWins
<1> QED
  BY <1>1, OutcomeCorrect, PTL

(* The ack is the first message of its link, and is dealt with on the link. *)
AckInv ==
  /\ ipc = "down" => wire = <<>>
  /\ ipc = "dialed" => wire = <<>> /\ ack = NoConfig /\ ~ackConnects /\ push.at = "idle"
  /\ \A i \in 1 .. Len(wire) : wire[i].type = "ack" => i = 1 /\ ack = NoConfig /\ ~ackConnects /\ push.at = "idle"
  /\ ack # NoConfig => ~ackConnects

LEMMA AckCorrect == Spec => []AckInv
<1> USE DEF ipcVars, hostVars, queueVars, history, counters
<1>1. Init => AckInv
  BY EmptySeq DEF Init, AckInv
<1>2. AckInv /\ HostOK /\ [Next]_vars => AckInv'
  <2> SUFFICES ASSUME AckInv, HostOK, [Next]_vars PROVE AckInv'
    OBVIOUS
  <2>1. CASE PluginEdits
    <3>1. CASE UNCHANGED wire
      BY <2>1, <3>1 DEF PluginEdits, AckInv
    <3>2. CASE ipc = "up" /\ wire' = Append(wire, [type |-> "config", config |-> want'])
      <4>1. [type |-> "config", config |-> want'] \in Wires
        BY <2>1 DEF PluginEdits, Wires
      <4>2. /\ Len(wire') = Len(wire) + 1 /\ Len(wire) \in Nat
            /\ \A j \in 1 .. Len(wire) : wire'[j] = wire[j]
            /\ wire'[Len(wire) + 1] = [type |-> "config", config |-> want']
        BY <3>2, <4>1, AppendProperties, LenProperties DEF HostOK
      <4>3. ASSUME NEW j \in 1 .. Len(wire'), wire'[j].type = "ack" PROVE j \in 1 .. Len(wire) /\ wire[j].type = "ack"
        <5>1. j # Len(wire) + 1
          BY <4>2, <4>3
        <5>2. j \in 1 .. Len(wire)
          BY <4>2, <5>1
        <5> QED
          BY <4>2, <4>3, <5>2
      <4> QED
        BY <2>1, <3>2, <4>3 DEF PluginEdits, AckInv
    <3> QED
      BY <2>1, <3>1, <3>2 DEF PluginEdits
  <2>2. CASE IpcDial
    BY <2>2, EmptySeq DEF IpcDial, AckInv, Idle
  <2>3. CASE PluginAccepts
    <3>1. /\ wire'[1].type = "ack" /\ wire'[2].type = "config" /\ Len(wire') = 2
          /\ ipc' = "up" /\ ack' = NoConfig /\ ~ackConnects' /\ push'.at = "idle"
      BY <2>3 DEF PluginAccepts, AckInv
    <3>2. \A j \in 1 .. Len(wire') : j = 1 \/ j = 2
      BY <3>1
    <3> QED
      BY <3>1, <3>2 DEF AckInv
  <2>4. CASE IpcDrops
    BY <2>4, EmptySeq DEF IpcDrops, AckInv, Idle
  <2>5. CASE SignInLooks
    BY <2>5, EmptySeq DEF SignInLooks, AckInv, Idle
  <2>6. CASE TransportDrops
    BY <2>6, EmptySeq DEF TransportDrops, AckInv, Idle
  <2>7. CASE TransportRecovers
    BY <2>7, EmptySeq DEF TransportRecovers, AckInv, Idle
  <2>8. CASE ReadAck
    <3>1. /\ Len(wire) \in Nat \ {0} /\ Head(wire) = wire[1] /\ Len(wire') = Len(wire) - 1
          /\ \A j \in 1 .. Len(wire') : wire'[j] = wire[j + 1]
      BY <2>8, HeadTailProperties, LenProperties, EmptySeq DEF ReadAck, HostOK
    <3>2. ASSUME NEW j \in 1 .. Len(wire') PROVE wire'[j].type # "ack"
      <4>1. j + 1 \in 1 .. Len(wire) /\ j + 1 # 1
        BY <3>1
      <4> QED
        BY <3>1, <4>1 DEF AckInv
    <3>3. ipc = "up"
      BY <2>8 DEF ReadAck, AckInv, HostOK
    <3>4. ~ackConnects \/ ack' = ack
      <4>1. 1 \in 1 .. Len(wire)
        BY <3>1
      <4> QED
        BY <2>8, <3>1, <4>1 DEF ReadAck, AckInv
    <3> QED
      BY <2>8, <3>2, <3>3, <3>4 DEF ReadAck, AckInv
  <2>9. CASE AckApplies
    BY <2>9, EmptySeq DEF AckApplies, ApplyConnectionConfig, AckInv, Idle
  <2>10. CASE OnHandshakeAccepted
    BY <2>10 DEF OnHandshakeAccepted, AckInv
  <2>11. CASE ReadConfig
    <3>1. /\ Len(wire) \in Nat \ {0} /\ Head(wire) = wire[1] /\ Len(wire') = Len(wire) - 1
          /\ \A j \in 1 .. Len(wire') : wire'[j] = wire[j + 1]
      BY <2>11, HeadTailProperties, LenProperties, EmptySeq DEF ReadConfig, HostOK
    <3>2. ASSUME NEW j \in 1 .. Len(wire') PROVE wire'[j].type # "ack"
      <4>1. j + 1 \in 1 .. Len(wire) /\ j + 1 # 1
        BY <3>1
      <4> QED
        BY <3>1, <4>1 DEF AckInv
    <3>3. ipc = "up"
      BY <2>11 DEF ReadConfig, AckInv, HostOK
    <3>4. ~ackConnects \/ ack' = ack
      <4>1. 1 \in 1 .. Len(wire)
        BY <3>1
      <4> QED
        BY <2>11, <3>1, <4>1 DEF ReadConfig, AckInv
    <3> QED
      BY <2>11, <3>2, <3>3, <3>4 DEF ReadConfig, AckInv
  <2>12. CASE PushApplies
    BY <2>12, EmptySeq DEF PushApplies, ApplyConnectionConfig, AckInv, Idle
  <2>13. CASE OnConfigReceived
    BY <2>13 DEF OnConfigReceived, AckInv, Idle
  <2>14. CASE SignInRedials
    BY <2>14 DEF SignInRedials, AckInv
  <2>15. ASSUME NEW i \in DOMAIN transitions, Begin(i) PROVE AckInv'
    BY <2>15 DEF Begin, AckInv
  <2>16. ASSUME NEW i \in DOMAIN transitions, PluginDisconnect(i) PROVE AckInv'
    BY <2>16 DEF PluginDisconnect, AckInv
  <2>17. ASSUME NEW i \in DOMAIN transitions, PluginConnect(i) PROVE AckInv'
    BY <2>17 DEF PluginConnect, AckInv
  <2>18. ASSUME NEW i \in DOMAIN transitions, DialReturns(i) PROVE AckInv'
    BY <2>18 DEF DialReturns, AckInv
  <2>19. ASSUME NEW i \in DOMAIN transitions, DialRetries(i) PROVE AckInv'
    BY <2>19 DEF DialRetries, AckInv
  <2>20. ASSUME NEW i \in DOMAIN transitions, DialAbandoned(i) PROVE AckInv'
    BY <2>20 DEF DialAbandoned, AckInv
  <2>21. ASSUME NEW i \in DOMAIN transitions, DialThrows(i) PROVE AckInv'
    BY <2>21 DEF DialThrows, AckInv
  <2>22. CASE UNCHANGED vars
    BY <2>22 DEF vars, AckInv
  <2> QED
    BY <2>1, <2>2, <2>3, <2>4, <2>5, <2>6, <2>7, <2>8, <2>9, <2>10, <2>11, <2>12, <2>13, <2>14, <2>15, <2>16, <2>17, <2>18, <2>19, <2>20, <2>21, <2>22
    DEF Next, Handlers, Step
<1> QED
  BY <1>1, <1>2, HostCorrect, PTL DEF Spec

(* Before the first ack is dealt with, it is what the reader meets first.   *)
FirstInv ==
  ~connectStarted /\ ack = NoConfig /\ ~ackConnects /\ ipc = "up" => wire # <<>> /\ wire[1].type = "ack"

LEMMA FirstCorrect == Spec => []FirstInv
<1> USE DEF ipcVars, hostVars, queueVars, history, counters
<1>1. Init => FirstInv
  BY DEF Init, FirstInv
<1>2. FirstInv /\ HostOK /\ AckInv /\ [Next]_vars => FirstInv'
  <2> SUFFICES ASSUME FirstInv, HostOK, AckInv, [Next]_vars PROVE FirstInv'
    OBVIOUS
  <2>1. CASE PluginEdits
    <3>1. CASE UNCHANGED wire
      BY <2>1, <3>1 DEF PluginEdits, FirstInv
    <3>2. CASE wire # <<>> /\ wire' = Append(wire, [type |-> "config", config |-> want'])
      <4>1. [type |-> "config", config |-> want'] \in Wires
        BY <2>1 DEF PluginEdits, Wires
      <4>2. wire' # <<>> /\ 1 \in 1 .. Len(wire) /\ \A j \in 1 .. Len(wire) : wire'[j] = wire[j]
        <5>1. Len(wire) \in Nat \ {0}
          BY <3>2, LenProperties, EmptySeq DEF HostOK
        <5> QED
          BY <3>2, <4>1, <5>1, AppendProperties DEF HostOK
      <4> QED
        BY <2>1, <4>2 DEF PluginEdits, FirstInv
    <3>3. CASE wire = <<>>
      BY <2>1, <3>3 DEF PluginEdits, FirstInv
    <3> QED
      BY <2>1, <3>1, <3>2, <3>3 DEF PluginEdits
  <2>2. CASE IpcDial
    BY <2>2 DEF IpcDial, FirstInv, AckInv
  <2>3. CASE PluginAccepts
    <3>1. wire'[1].type = "ack" /\ wire' # <<>>
      BY <2>3 DEF PluginAccepts
    <3> QED
      BY <3>1 DEF FirstInv
  <2>4. CASE IpcDrops
    BY <2>4 DEF IpcDrops, FirstInv, AckInv
  <2>5. CASE SignInLooks
    BY <2>5 DEF SignInLooks, FirstInv, AckInv
  <2>6. CASE TransportDrops
    BY <2>6 DEF TransportDrops, FirstInv, AckInv
  <2>7. CASE TransportRecovers
    BY <2>7 DEF TransportRecovers, FirstInv, AckInv
  <2>8. CASE ReadAck
    <3>1. Head(wire) \in Wires
      BY <2>8, HeadTailProperties DEF ReadAck, HostOK
    <3>2. ack' # NoConfig
      BY <2>8, <3>1, HostsAssumption DEF ReadAck, Wires, Configs, NoConfig
    <3> QED
      BY <3>2 DEF FirstInv
  <2>9. CASE AckApplies
    BY <2>9 DEF AckApplies, FirstInv, AckInv
  <2>10. CASE OnHandshakeAccepted
    BY <2>10 DEF OnHandshakeAccepted, FirstInv, AckInv
  <2>11. CASE ReadConfig
    <3>1. ipc = "up" /\ Head(wire) = wire[1]
      BY <2>11 DEF ReadConfig, AckInv, HostOK
    <3> QED
      BY <2>11, <3>1 DEF ReadConfig, FirstInv
  <2>12. CASE PushApplies
    BY <2>12 DEF PushApplies, FirstInv, AckInv
  <2>13. CASE OnConfigReceived
    BY <2>13 DEF OnConfigReceived, FirstInv, AckInv
  <2>14. CASE SignInRedials
    BY <2>14 DEF SignInRedials, FirstInv, AckInv
  <2>15. ASSUME NEW i \in DOMAIN transitions, Begin(i) PROVE FirstInv'
    BY <2>15 DEF Begin, FirstInv, AckInv
  <2>16. ASSUME NEW i \in DOMAIN transitions, PluginDisconnect(i) PROVE FirstInv'
    BY <2>16 DEF PluginDisconnect, FirstInv, AckInv
  <2>17. ASSUME NEW i \in DOMAIN transitions, PluginConnect(i) PROVE FirstInv'
    BY <2>17 DEF PluginConnect, FirstInv, AckInv
  <2>18. ASSUME NEW i \in DOMAIN transitions, DialReturns(i) PROVE FirstInv'
    BY <2>18 DEF DialReturns, FirstInv, AckInv
  <2>19. ASSUME NEW i \in DOMAIN transitions, DialRetries(i) PROVE FirstInv'
    BY <2>19 DEF DialRetries, FirstInv, AckInv
  <2>20. ASSUME NEW i \in DOMAIN transitions, DialAbandoned(i) PROVE FirstInv'
    BY <2>20 DEF DialAbandoned, FirstInv, AckInv
  <2>21. ASSUME NEW i \in DOMAIN transitions, DialThrows(i) PROVE FirstInv'
    BY <2>21 DEF DialThrows, FirstInv, AckInv
  <2>22. CASE UNCHANGED vars
    BY <2>22 DEF vars, FirstInv
  <2> QED
    BY <2>1, <2>2, <2>3, <2>4, <2>5, <2>6, <2>7, <2>8, <2>9, <2>10, <2>11, <2>12, <2>13, <2>14, <2>15, <2>16, <2>17, <2>18, <2>19, <2>20, <2>21, <2>22
    DEF Next, Handlers, Step
<1> QED
  BY <1>1, <1>2, HostCorrect, AckCorrect, PTL DEF Spec

(* A push that no ack races starts from the configuration it replaces.      *)
RaceInv ==
  ~rewritten =>
    /\ push.at # "idle" => ack = NoConfig /\ ~ackConnects /\ connectStarted
    /\ push.at = "apply" => push.prior = config

LEMMA RaceCorrect == Spec => []RaceInv
<1> USE DEF ipcVars, hostVars, queueVars, history, counters
<1>1. Init => RaceInv
  BY DEF Init, RaceInv, Idle
<1>2. RaceInv /\ HostOK /\ FlagsOK /\ AckInv /\ FirstInv /\ [Next]_vars => RaceInv'
  <2> SUFFICES ASSUME RaceInv, HostOK, FlagsOK, AckInv, FirstInv, [Next]_vars PROVE RaceInv'
    OBVIOUS
  <2>1. CASE PluginEdits
    BY <2>1 DEF PluginEdits, RaceInv, FlagsOK
  <2>2. CASE IpcDial
    BY <2>2 DEF IpcDial, RaceInv, FlagsOK
  <2>3. CASE PluginAccepts
    BY <2>3 DEF PluginAccepts, RaceInv, FlagsOK
  <2>4. CASE IpcDrops
    BY <2>4 DEF IpcDrops, RaceInv, FlagsOK
  <2>5. CASE SignInLooks
    BY <2>5 DEF SignInLooks, RaceInv, FlagsOK
  <2>6. CASE TransportDrops
    BY <2>6 DEF TransportDrops, RaceInv, FlagsOK
  <2>7. CASE TransportRecovers
    BY <2>7 DEF TransportRecovers, RaceInv, FlagsOK
  <2>8. CASE ReadAck
    BY <2>8 DEF ReadAck, RaceInv, Idle
  <2>9. CASE AckApplies
    BY <2>9 DEF AckApplies, ApplyConnectionConfig, RaceInv, FlagsOK
  <2>10. CASE OnHandshakeAccepted
    <3>1. rewritten' = rewritten
      BY <2>10 DEF OnHandshakeAccepted, Submit, NoSubmit
    <3> QED
      BY <2>10, <3>1 DEF OnHandshakeAccepted, RaceInv
  <2>11. CASE ReadConfig
    <3>1. ipc = "up" /\ Head(wire) = wire[1]
      BY <2>11 DEF ReadConfig, AckInv, HostOK
    <3>2. push'.prior = config' /\ UNCHANGED <<ack, ackConnects, connectStarted>>
      BY <2>11 DEF ReadConfig
    <3>3. ~rewritten' => ack = NoConfig /\ ~ackConnects
      BY <2>11 DEF ReadConfig
    <3>4. ack = NoConfig /\ ~ackConnects => connectStarted
      BY <2>11, <3>1 DEF ReadConfig, FirstInv
    <3> QED
      BY <3>2, <3>3, <3>4 DEF RaceInv
  <2>12. CASE PushApplies
    <3>1. push'.at = "decide" /\ UNCHANGED <<ack, ackConnects, connectStarted, rewritten>>
      BY <2>12 DEF PushApplies, HostOK
    <3> QED
      BY <2>12, <3>1 DEF PushApplies, RaceInv
  <2>13. CASE OnConfigReceived
    BY <2>13 DEF OnConfigReceived, RaceInv, Idle
  <2>14. CASE SignInRedials
    BY <2>14 DEF SignInRedials, Submit, RaceInv
  <2>15. ASSUME NEW i \in DOMAIN transitions, Begin(i) PROVE RaceInv'
    BY <2>15 DEF Begin, RaceInv, FlagsOK
  <2>16. ASSUME NEW i \in DOMAIN transitions, PluginDisconnect(i) PROVE RaceInv'
    BY <2>16 DEF PluginDisconnect, RaceInv, FlagsOK
  <2>17. ASSUME NEW i \in DOMAIN transitions, PluginConnect(i) PROVE RaceInv'
    BY <2>17 DEF PluginConnect, RaceInv, FlagsOK
  <2>18. ASSUME NEW i \in DOMAIN transitions, DialReturns(i) PROVE RaceInv'
    BY <2>18 DEF DialReturns, RaceInv, FlagsOK
  <2>19. ASSUME NEW i \in DOMAIN transitions, DialRetries(i) PROVE RaceInv'
    BY <2>19 DEF DialRetries, RaceInv, FlagsOK
  <2>20. ASSUME NEW i \in DOMAIN transitions, DialAbandoned(i) PROVE RaceInv'
    BY <2>20 DEF DialAbandoned, RaceInv, FlagsOK
  <2>21. ASSUME NEW i \in DOMAIN transitions, DialThrows(i) PROVE RaceInv'
    BY <2>21 DEF DialThrows, RaceInv, FlagsOK
  <2>22. CASE UNCHANGED vars
    BY <2>22 DEF vars, RaceInv
  <2> QED
    BY <2>1, <2>2, <2>3, <2>4, <2>5, <2>6, <2>7, <2>8, <2>9, <2>10, <2>11, <2>12, <2>13, <2>14, <2>15, <2>16, <2>17, <2>18, <2>19, <2>20, <2>21, <2>22
    DEF Next, Handlers, Step
<1> QED
  BY <1>1, <1>2, HostCorrect, FlagsCorrect, AckCorrect, FirstCorrect, PTL DEF Spec

(* Until the first ack has been applied nothing is dialled, and until it    *)
(* has connected only its host is.                                          *)
FreshInv ==
  /\ ~connectStarted /\ ~ackConnects /\ ~rewritten =>
       config.host = Unset /\ link.state = "down" /\ transitions = <<>> /\ signIn = "none" /\ last = "none"
  /\ ~connectStarted /\ ~rewritten /\ link.state # "down" => link.host = config.host

LEMMA FreshCorrect == Spec => []FreshInv
<1> USE DEF ipcVars, hostVars, queueVars, history, counters
<1>1. Init => FreshInv
  BY DEF Init, FreshInv
<1>2. FreshInv /\ HostOK /\ FlagsOK /\ QueueOK /\ AckInv /\ RaceInv /\ [Next]_vars => FreshInv'
  <2> SUFFICES ASSUME FreshInv, HostOK, FlagsOK, QueueOK, AckInv, RaceInv, [Next]_vars PROVE FreshInv'
    OBVIOUS
  <2>1. CASE PluginEdits
    BY <2>1 DEF PluginEdits, FreshInv, FlagsOK
  <2>2. CASE IpcDial
    BY <2>2 DEF IpcDial, FreshInv, FlagsOK
  <2>3. CASE PluginAccepts
    BY <2>3 DEF PluginAccepts, FreshInv, FlagsOK
  <2>4. CASE IpcDrops
    BY <2>4 DEF IpcDrops, FreshInv
  <2>5. CASE SignInLooks
    BY <2>5 DEF SignInLooks, FreshInv, FlagsOK
  <2>6. CASE TransportDrops
    <3>1. link.state # "down" /\ link'.state # "down" /\ link'.host = link.host
      BY <2>6 DEF TransportDrops, QueueOK
    <3> QED
      BY <2>6, <3>1 DEF TransportDrops, FreshInv
  <2>7. CASE TransportRecovers
    <3>1. link.state # "down" /\ link'.state # "down" /\ link'.host = link.host
      BY <2>7 DEF TransportRecovers, QueueOK
    <3> QED
      BY <2>7, <3>1 DEF TransportRecovers, FreshInv
  <2>8. CASE ReadAck
    BY <2>8 DEF ReadAck, FreshInv, FlagsOK
  <2>9. CASE AckApplies
    <3>1. ackConnects' /\ ~ackConnects /\ UNCHANGED <<link, connectStarted>> /\ (~rewritten' => ~rewritten)
      BY <2>9 DEF AckApplies, AckInv
    <3> QED
      BY <3>1 DEF FreshInv
  <2>10. CASE OnHandshakeAccepted
    BY <2>10 DEF OnHandshakeAccepted, FreshInv
  <2>11. CASE ReadConfig
    BY <2>11 DEF ReadConfig, FreshInv, FlagsOK
  <2>12. CASE PushApplies
    <3>1. UNCHANGED <<rewritten, connectStarted>> /\ push.at = "apply"
      BY <2>12 DEF PushApplies
    <3> QED
      BY <3>1 DEF FreshInv, RaceInv
  <2>13. CASE OnConfigReceived
    <3>1. UNCHANGED <<rewritten, connectStarted>> /\ push.at = "decide"
      BY <2>13 DEF OnConfigReceived, Submit, NoSubmit
    <3> QED
      BY <3>1 DEF FreshInv, RaceInv
  <2>14. CASE SignInRedials
    <3>1. UNCHANGED <<rewritten, connectStarted, ackConnects, config, link>> /\ signIn = "armed"
      BY <2>14 DEF SignInRedials, Submit
    <3> QED
      BY <3>1 DEF FreshInv
  <2>15. ASSUME NEW i \in DOMAIN transitions, Begin(i) PROVE FreshInv'
    <3>1. transitions # <<>> /\ UNCHANGED <<rewritten, connectStarted, ackConnects, config>>
      <4>1. UNCHANGED <<rewritten, connectStarted, ackConnects, config>>
        BY <2>15 DEF Begin
      <4>2. i = 1 /\ Len(transitions) > 0
        BY <2>15, HeadRuns DEF Begin, Runnable
      <4> QED
        BY <4>1, <4>2
    <3>2. link'.state # "down" => (link.state # "down" /\ link'.host = link.host) \/ link'.host = config.host
      BY <2>15 DEF Begin, QueueOK
    <3> QED
      BY <3>1, <3>2 DEF FreshInv
  <2>16. ASSUME NEW i \in DOMAIN transitions, PluginDisconnect(i) PROVE FreshInv'
    <3>1. transitions # <<>> /\ UNCHANGED <<rewritten, connectStarted, ackConnects, config>>
      <4>1. UNCHANGED <<rewritten, connectStarted, ackConnects, config>>
        BY <2>16 DEF PluginDisconnect
      <4>2. i = 1 /\ Len(transitions) > 0
        BY <2>16, HeadRuns DEF PluginDisconnect, Runnable
      <4> QED
        BY <4>1, <4>2
    <3>2. link'.state # "down" => (link.state # "down" /\ link'.host = link.host) \/ link'.host = config.host
      BY <2>16 DEF PluginDisconnect, QueueOK
    <3> QED
      BY <3>1, <3>2 DEF FreshInv
  <2>17. ASSUME NEW i \in DOMAIN transitions, PluginConnect(i) PROVE FreshInv'
    <3>1. transitions # <<>> /\ UNCHANGED <<rewritten, connectStarted, ackConnects, config>>
      <4>1. UNCHANGED <<rewritten, connectStarted, ackConnects, config>>
        BY <2>17 DEF PluginConnect
      <4>2. i = 1 /\ Len(transitions) > 0
        BY <2>17, HeadRuns DEF PluginConnect, Runnable
      <4> QED
        BY <4>1, <4>2
    <3>2. link'.state # "down" => (link.state # "down" /\ link'.host = link.host) \/ link'.host = config.host
      BY <2>17 DEF PluginConnect, QueueOK
    <3> QED
      BY <3>1, <3>2 DEF FreshInv
  <2>18. ASSUME NEW i \in DOMAIN transitions, DialReturns(i) PROVE FreshInv'
    <3>1. transitions # <<>> /\ UNCHANGED <<rewritten, connectStarted, ackConnects, config>>
      <4>1. UNCHANGED <<rewritten, connectStarted, ackConnects, config>>
        BY <2>18 DEF DialReturns
      <4>2. i = 1 /\ Len(transitions) > 0
        BY <2>18, HeadRuns DEF DialReturns, Runnable
      <4> QED
        BY <4>1, <4>2
    <3>2. link'.state # "down" => (link.state # "down" /\ link'.host = link.host) \/ link'.host = config.host
      BY <2>18 DEF DialReturns, QueueOK
    <3> QED
      BY <3>1, <3>2 DEF FreshInv
  <2>19. ASSUME NEW i \in DOMAIN transitions, DialRetries(i) PROVE FreshInv'
    <3>1. transitions # <<>> /\ UNCHANGED <<rewritten, connectStarted, ackConnects, config>>
      <4>1. UNCHANGED <<rewritten, connectStarted, ackConnects, config>>
        BY <2>19 DEF DialRetries
      <4>2. i = 1 /\ Len(transitions) > 0
        BY <2>19, HeadRuns DEF DialRetries, Runnable
      <4> QED
        BY <4>1, <4>2
    <3>2. link'.state # "down" => (link.state # "down" /\ link'.host = link.host) \/ link'.host = config.host
      BY <2>19 DEF DialRetries, QueueOK
    <3> QED
      BY <3>1, <3>2 DEF FreshInv
  <2>20. ASSUME NEW i \in DOMAIN transitions, DialAbandoned(i) PROVE FreshInv'
    <3>1. transitions # <<>> /\ UNCHANGED <<rewritten, connectStarted, ackConnects, config>>
      <4>1. UNCHANGED <<rewritten, connectStarted, ackConnects, config>>
        BY <2>20 DEF DialAbandoned
      <4>2. i = 1 /\ Len(transitions) > 0
        BY <2>20, HeadRuns DEF DialAbandoned, Runnable
      <4> QED
        BY <4>1, <4>2
    <3>2. link'.state # "down" => (link.state # "down" /\ link'.host = link.host) \/ link'.host = config.host
      BY <2>20 DEF DialAbandoned, QueueOK
    <3> QED
      BY <3>1, <3>2 DEF FreshInv
  <2>21. ASSUME NEW i \in DOMAIN transitions, DialThrows(i) PROVE FreshInv'
    <3>1. transitions # <<>> /\ UNCHANGED <<rewritten, connectStarted, ackConnects, config>>
      <4>1. UNCHANGED <<rewritten, connectStarted, ackConnects, config>>
        BY <2>21 DEF DialThrows
      <4>2. i = 1 /\ Len(transitions) > 0
        BY <2>21, HeadRuns DEF DialThrows, Runnable
      <4> QED
        BY <4>1, <4>2
    <3>2. link'.state # "down" => (link.state # "down" /\ link'.host = link.host) \/ link'.host = config.host
      BY <2>21 DEF DialThrows, QueueOK
    <3> QED
      BY <3>1, <3>2 DEF FreshInv
  <2>22. CASE UNCHANGED vars
    BY <2>22 DEF vars, FreshInv
  <2> QED
    BY <2>1, <2>2, <2>3, <2>4, <2>5, <2>6, <2>7, <2>8, <2>9, <2>10, <2>11, <2>12, <2>13, <2>14, <2>15, <2>16, <2>17, <2>18, <2>19, <2>20, <2>21, <2>22
    DEF Next, Handlers, Step
<1> QED
  BY <1>1, <1>2, HostCorrect, FlagsCorrect, QueueCorrect, AckCorrect, RaceCorrect, PTL DEF Spec

(* What the newest transition binds the link to, unless a push is about to  *)
(* submit another: the host of the configuration.                           *)
Bound(h) ==
  /\ last = "reconnect" /\ (transitions = <<>> \/ (Len(transitions) = 1 /\ transitions[1].at = "dialing")) => link.host = h
  /\ last \in {"none", "connect"} /\ link.state # "down" => link.host = h

Armed == \/ push.at # "decide" /\ config.keep
         \/ push.at = "decide" /\ push.prior.keep /\ push.prior.host = config.host

BoundInv == ~rewritten /\ Armed => Bound(config.host)

LEMMA SubmitBinds ==
  ASSUME QueueOK, NEW kind \in {"disconnect", "reconnect"}, Submit(kind)
  PROVE  last' = kind /\ transitions' # <<>> /\ ~(Len(transitions') = 1 /\ transitions'[1].at = "dialing")
<1>1. /\ Len(transitions') = Len(transitions) + 1 /\ Len(transitions) \in Nat
      /\ Len(transitions) = 0 => transitions'[1].at = "queued"
  BY SubmitKeepsShape, LenProperties DEF Submit, QueueOK, Kinds
<1>2. Len(transitions') # 0 /\ (Len(transitions') = 1 => Len(transitions) = 0)
  BY <1>1
<1>3. transitions' # <<>>
  BY <1>2
<1> QED
  BY <1>1, <1>2, <1>3 DEF Submit

(* The end of the head binds what it has left to the host it has dialled.   *)
LEMMA FinishBinds ==
  ASSUME QueueOK, NEW h, Len(transitions) > 0, transitions' = RemoveAt(transitions, 1), UNCHANGED last,
         Len(transitions) = 1 /\ last = "reconnect" => link'.host = h,
         last \in {"none", "connect"} /\ link'.state # "down" => link'.host = h
  PROVE  /\ last' = "reconnect" /\ (transitions' = <<>> \/ (Len(transitions') = 1 /\ transitions'[1].at = "dialing")) => link'.host = h
         /\ last' \in {"none", "connect"} /\ link'.state # "down" => link'.host = h
<1>1. Len(transitions) \in Nat /\ transitions # <<>> /\ transitions \in Seq(Transition)
  BY LenProperties, EmptySeq DEF QueueOK
<1>2. Len(transitions') = Len(transitions) - 1 /\ (Len(transitions') > 0 => transitions'[1].at = "queued")
  BY <1>1, FinishKeepsShape DEF QueueOK
<1>3. transitions' = <<>> => Len(transitions) = 1
  <2> SUFFICES ASSUME transitions' = <<>> PROVE Len(transitions) = 1
    OBVIOUS
  <2>1. Len(transitions') = 0
    OBVIOUS
  <2> QED
    BY <1>1, <1>2, <2>1
<1>4. Len(transitions') = 1 => transitions'[1].at = "queued"
  BY <1>2
<1> QED
  BY <1>3, <1>4

LEMMA BoundCorrect == Spec => []BoundInv
<1> USE DEF ipcVars, hostVars, queueVars, history, counters
<1>1. Init => BoundInv
  BY DEF Init, BoundInv, Bound
<1>2. BoundInv /\ HostOK /\ FlagsOK /\ QueueOK /\ OutcomeInv /\ AckInv /\ RaceInv /\ FreshInv /\ [Next]_vars => BoundInv'
  <2> SUFFICES ASSUME BoundInv, HostOK, FlagsOK, QueueOK, OutcomeInv, AckInv, RaceInv, FreshInv, [Next]_vars PROVE BoundInv'
    OBVIOUS
  <2>1. CASE PluginEdits
    <3>1. Bound(config.host) => Bound(config.host)'
      BY <2>1 DEF PluginEdits, Bound
    <3>2. ~rewritten' /\ Armed' => ~rewritten /\ Armed
      BY <2>1 DEF PluginEdits, Armed
    <3> QED
      BY <3>1, <3>2 DEF BoundInv
  <2>2. CASE IpcDial
    <3>1. Bound(config.host) => Bound(config.host)'
      BY <2>2 DEF IpcDial, Bound
    <3>2. ~rewritten' /\ Armed' => ~rewritten /\ Armed
      BY <2>2 DEF IpcDial, Armed
    <3> QED
      BY <3>1, <3>2 DEF BoundInv
  <2>3. CASE PluginAccepts
    <3>1. Bound(config.host) => Bound(config.host)'
      BY <2>3 DEF PluginAccepts, Bound
    <3>2. ~rewritten' /\ Armed' => ~rewritten /\ Armed
      BY <2>3 DEF PluginAccepts, Armed
    <3> QED
      BY <3>1, <3>2 DEF BoundInv
  <2>4. CASE IpcDrops
    <3>1. Bound(config.host) => Bound(config.host)'
      BY <2>4 DEF IpcDrops, Bound
    <3>2. ~rewritten' /\ Armed' => ~rewritten /\ Armed
      BY <2>4 DEF IpcDrops, Armed
    <3> QED
      BY <3>1, <3>2 DEF BoundInv
  <2>5. CASE SignInLooks
    <3>1. Bound(config.host) => Bound(config.host)'
      BY <2>5 DEF SignInLooks, Bound
    <3>2. ~rewritten' /\ Armed' => ~rewritten /\ Armed
      BY <2>5 DEF SignInLooks, Armed
    <3> QED
      BY <3>1, <3>2 DEF BoundInv
  <2>6. CASE TransportDrops
    <3>1. link.state # "down" /\ link'.host = link.host
      BY <2>6 DEF TransportDrops, QueueOK
    <3> QED
      BY <2>6, <3>1 DEF TransportDrops, BoundInv, Bound, Armed
  <2>7. CASE TransportRecovers
    <3>1. link.state # "down" /\ link'.host = link.host
      BY <2>7 DEF TransportRecovers, QueueOK
    <3> QED
      BY <2>7, <3>1 DEF TransportRecovers, BoundInv, Bound, Armed
  <2>8. CASE ReadAck
    <3>1. Bound(config.host) => Bound(config.host)'
      BY <2>8 DEF ReadAck, Bound
    <3>2. ~rewritten' /\ Armed' => ~rewritten /\ Armed
      BY <2>8 DEF ReadAck, Armed
    <3> QED
      BY <3>1, <3>2 DEF BoundInv
  <2>9. CASE AckApplies
    <3>1. UNCHANGED <<push, transitions, last, link, connectStarted>> /\ config' = ack /\ ack # NoConfig /\ ~ackConnects
      BY <2>9 DEF AckApplies, ApplyConnectionConfig, AckInv
    <3>2. ~rewritten' => ~rewritten /\ (connectStarted => ack = config)
      BY <2>9 DEF AckApplies
    <3>3. CASE connectStarted
      <4>1. ~rewritten' => config' = config
        BY <3>1, <3>2, <3>3
      <4> QED
        BY <3>1, <3>2, <4>1 DEF BoundInv, Bound, Armed
    <3>4. CASE ~connectStarted
      <4>1. ~rewritten => link.state = "down" /\ last = "none"
        BY <3>1, <3>4 DEF FreshInv
      <4>2. ~rewritten' => Bound(config.host)'
        BY <3>1, <3>2, <4>1 DEF Bound
      <4> QED
        BY <4>2 DEF BoundInv
    <3> QED
      BY <3>3, <3>4
  <2>10. CASE OnHandshakeAccepted
    <3>1. UNCHANGED <<push, config, link, rewritten>>
      BY <2>10 DEF OnHandshakeAccepted, Submit, NoSubmit
    <3>2. CASE NoSubmit
      BY <3>1, <3>2 DEF BoundInv, Bound, Armed, NoSubmit
    <3>3. CASE ~connectStarted /\ Submit("connect")
      <4>1. last' = "connect" /\ (~rewritten /\ link.state # "down" => link.host = config.host)
        BY <3>3 DEF Submit, FreshInv
      <4>2. ~rewritten' => Bound(config.host)'
        BY <3>1, <4>1 DEF Bound
      <4> QED
        BY <4>2 DEF BoundInv
    <3> QED
      BY <2>10, <3>2, <3>3 DEF OnHandshakeAccepted
  <2>11. CASE ReadConfig
    <3>1. UNCHANGED <<config, link, transitions, last>> /\ (~rewritten' => ~rewritten) /\ push'.at = "apply" /\ push.at = "idle"
      BY <2>11 DEF ReadConfig, Idle
    <3> QED
      BY <3>1 DEF BoundInv, Bound, Armed
  <2>12. CASE PushApplies
    <3>1. UNCHANGED <<link, transitions, last, rewritten>> /\ push.at = "apply" /\ push'.at = "decide" /\ push'.prior = push.prior
      BY <2>12 DEF PushApplies, HostOK
    <3>2. ~rewritten => push.prior = config
      BY <3>1 DEF RaceInv
    <3>3. ~rewritten' /\ Armed' => ~rewritten /\ Armed /\ config'.host = config.host
      BY <3>1, <3>2 DEF Armed
    <3> QED
      BY <3>1, <3>3 DEF BoundInv, Bound
  <2>13. CASE OnConfigReceived
    <3> DEFINE kind == DecideConfigTransition(push.prior, config)
    <3>1. UNCHANGED <<config, link, rewritten>> /\ push.at = "decide"
      BY <2>13 DEF OnConfigReceived, Submit, NoSubmit
    <3>2. CASE kind # "none" /\ Submit(kind)
      <4>1. kind \in {"disconnect", "reconnect"}
        BY <3>2 DEF DecideConfigTransition
      <4>2. Bound(config.host)'
        BY <3>2, <4>1, SubmitBinds DEF Bound
      <4> QED
        BY <4>2 DEF BoundInv
    <3>3. CASE kind = "none" /\ NoSubmit
      <4>1. config.keep => push.prior.keep /\ push.prior.host = config.host
        BY <3>3 DEF DecideConfigTransition, HostOK
      <4>2. push'.at # "decide"
        BY <2>13 DEF OnConfigReceived, Idle
      <4> QED
        BY <3>1, <3>3, <4>1, <4>2 DEF BoundInv, Bound, Armed, NoSubmit
    <3> QED
      BY <2>13, <3>2, <3>3 DEF OnConfigReceived
  <2>14. CASE SignInRedials
    <3>1. Bound(config.host)'
      BY <2>14, SubmitBinds DEF SignInRedials, Bound
    <3> QED
      BY <3>1 DEF BoundInv
  <2>15. ASSUME NEW i \in DOMAIN transitions, Begin(i) PROVE BoundInv'
    <3>1. /\ i = 1 /\ Len(transitions) \in Nat /\ Len(transitions) > 0 /\ UNCHANGED <<last, held>>
          /\ Len(transitions) = 1 => transitions[1].cancelled = FALSE /\ transitions[1].kind = last
          /\ Len(transitions) # 1 => transitions[1].cancelled = TRUE
          /\ transitions[1].kind = "disconnect" => transitions[1].at \in {"queued", "disconnect"}
      BY <2>15, HeadRuns DEF Begin, Runnable
    <3>2. transitions # <<>> /\ transitions \in Seq(Transition) /\ Shaped(transitions, last)
      BY <3>1, EmptySeq DEF QueueOK
    <3>0. UNCHANGED <<config, push, rewritten>>
      BY <2>15 DEF Begin
    <3>8. SUFFICES ASSUME Bound(config.host) PROVE Bound(config.host)'
      BY <3>0 DEF BoundInv, Armed
    <3> DEFINE where == IF transitions[1].kind = "connect" THEN "connect" ELSE "disconnect"
    <3>3. where \in {"disconnect", "connect", "dialing"} /\ (transitions[1].kind = "disconnect" => where = "disconnect") /\ where # "dialing"
      OBVIOUS
    <3>4. transitions' = [transitions EXCEPT ![1].at = where] /\ UNCHANGED link
      BY <2>15, <3>1 DEF Begin, Goto
    <3> HIDE DEF where
    <3>5. Len(transitions') = Len(transitions) /\ transitions'[1].at # "dialing"
      BY <3>1, <3>2, <3>3, <3>4, GotoKeepsShape
    <3>6. transitions' # <<>>
      BY <3>1, <3>5
    <3> QED
      BY <3>0, <3>1, <3>4, <3>5, <3>6, <3>8 DEF Bound
  <2>16. ASSUME NEW i \in DOMAIN transitions, PluginDisconnect(i) PROVE BoundInv'
    <3>1. /\ i = 1 /\ Len(transitions) \in Nat /\ Len(transitions) > 0 /\ UNCHANGED <<last, held>>
          /\ Len(transitions) = 1 => transitions[1].cancelled = FALSE /\ transitions[1].kind = last
          /\ Len(transitions) # 1 => transitions[1].cancelled = TRUE
          /\ transitions[1].kind = "disconnect" => transitions[1].at \in {"queued", "disconnect"}
      BY <2>16, HeadRuns DEF PluginDisconnect, Runnable
    <3>2. transitions # <<>> /\ transitions \in Seq(Transition) /\ Shaped(transitions, last)
      BY <3>1, EmptySeq DEF QueueOK
    <3>0. UNCHANGED <<config, push, rewritten>>
      BY <2>16 DEF PluginDisconnect
    <3>8. SUFFICES ASSUME Bound(config.host) PROVE Bound(config.host)'
      BY <3>0 DEF BoundInv, Armed
    <3>3. link'.state = "down" \/ link' = link
      BY <2>16 DEF PluginDisconnect
    <3>4. CASE transitions[1].kind = "disconnect" /\ transitions' = RemoveAt(transitions, 1)
      <4>1. Len(transitions) = 1 => last = "disconnect"
        BY <3>1, <3>4
      <4>2. last \in {"none", "connect"} /\ link'.state # "down" => link'.host = config.host
        BY <3>3, <3>8 DEF Bound
      <4>8. /\ last' = "reconnect" /\ (transitions' = <<>> \/ (Len(transitions') = 1 /\ transitions'[1].at = "dialing")) => link'.host = config.host
            /\ last' \in {"none", "connect"} /\ link'.state # "down" => link'.host = config.host
        BY <3>1, <3>4, <4>1, <4>2, FinishBinds
      <4> QED
        BY <3>0, <4>8 DEF Bound
    <3>5. CASE transitions[1].kind # "disconnect" /\ transitions' = [transitions EXCEPT ![1].at = "connect"]
      <4>1. Len(transitions') = Len(transitions) /\ transitions'[1].at = "connect"
        BY <3>1, <3>2, <3>5, GotoKeepsShape
      <4>2. transitions' # <<>>
        BY <3>1, <4>1
      <4> QED
        BY <3>0, <3>1, <3>3, <3>8, <4>1, <4>2 DEF Bound
    <3> QED
      BY <2>16, <3>1, <3>4, <3>5 DEF PluginDisconnect, Finish, Goto
  <2>17. ASSUME NEW i \in DOMAIN transitions, PluginConnect(i) PROVE BoundInv'
    <3>1. /\ i = 1 /\ Len(transitions) \in Nat /\ Len(transitions) > 0 /\ UNCHANGED <<last, held>>
          /\ Len(transitions) = 1 => transitions[1].cancelled = FALSE /\ transitions[1].kind = last
          /\ Len(transitions) # 1 => transitions[1].cancelled = TRUE
          /\ transitions[1].kind = "disconnect" => transitions[1].at \in {"queued", "disconnect"}
      BY <2>17, HeadRuns DEF PluginConnect, Runnable
    <3>2. transitions # <<>> /\ transitions \in Seq(Transition) /\ Shaped(transitions, last)
      BY <3>1, EmptySeq DEF QueueOK
    <3>0. UNCHANGED <<config, push, rewritten>>
      BY <2>17 DEF PluginConnect
    <3>8. SUFFICES ASSUME Bound(config.host) PROVE Bound(config.host)'
      BY <3>0 DEF BoundInv, Armed
    <3>3. transitions[1].at = "connect"
      BY <2>17, <3>1 DEF PluginConnect
    <3>4. CASE transitions' = RemoveAt(transitions, 1) /\ UNCHANGED link /\ (transitions[1].cancelled \/ link.state # "down")
      <4>1. Len(transitions) = 1 => last # "reconnect"
        BY <3>1, <3>3, <3>4 DEF OutcomeInv
      <4>2. last \in {"none", "connect"} /\ link'.state # "down" => link'.host = config.host
        BY <3>4, <3>8 DEF Bound
      <4>8. /\ last' = "reconnect" /\ (transitions' = <<>> \/ (Len(transitions') = 1 /\ transitions'[1].at = "dialing")) => link'.host = config.host
            /\ last' \in {"none", "connect"} /\ link'.state # "down" => link'.host = config.host
        BY <3>1, <3>4, <4>1, <4>2, FinishBinds
      <4> QED
        BY <3>0, <4>8 DEF Bound
    <3>5. CASE link' = [state |-> "dialing", host |-> config.host]
      BY <3>0, <3>5 DEF Bound
    <3> QED
      BY <2>17, <3>1, <3>4, <3>5 DEF PluginConnect, Finish, Goto
  <2>18. ASSUME NEW i \in DOMAIN transitions, DialReturns(i) PROVE BoundInv'
    <3>1. /\ i = 1 /\ Len(transitions) \in Nat /\ Len(transitions) > 0 /\ UNCHANGED <<last, held>>
          /\ Len(transitions) = 1 => transitions[1].cancelled = FALSE /\ transitions[1].kind = last
          /\ Len(transitions) # 1 => transitions[1].cancelled = TRUE
          /\ transitions[1].kind = "disconnect" => transitions[1].at \in {"queued", "disconnect"}
      BY <2>18, HeadRuns DEF DialReturns, Runnable
    <3>2. transitions # <<>> /\ transitions \in Seq(Transition) /\ Shaped(transitions, last)
      BY <3>1, EmptySeq DEF QueueOK
    <3>0. UNCHANGED <<config, push, rewritten>>
      BY <2>18 DEF DialReturns
    <3>8. SUFFICES ASSUME Bound(config.host) PROVE Bound(config.host)'
      BY <3>0 DEF BoundInv, Armed
    <3>3. transitions[1].at = "dialing" /\ transitions' = RemoveAt(transitions, 1) /\ link.state = "dialing" /\ link'.host = link.host
      BY <2>18, <3>1 DEF DialReturns, Finish, QueueOK
    <3>4. /\ Len(transitions) = 1 /\ last = "reconnect" => link'.host = config.host
          /\ last \in {"none", "connect"} => link'.host = config.host
      BY <3>3, <3>8 DEF Bound
    <3>5. /\ last' = "reconnect" /\ (transitions' = <<>> \/ (Len(transitions') = 1 /\ transitions'[1].at = "dialing")) => link'.host = config.host
          /\ last' \in {"none", "connect"} /\ link'.state # "down" => link'.host = config.host
      BY <3>1, <3>3, <3>4, FinishBinds
    <3> QED
      BY <3>0, <3>5 DEF Bound
  <2>19. ASSUME NEW i \in DOMAIN transitions, DialRetries(i) PROVE BoundInv'
    <3>0. UNCHANGED <<config, push, rewritten>>
      BY <2>19 DEF DialRetries
    <3>1. link'.host = config'.host
      BY <2>19 DEF DialRetries, QueueOK
    <3> QED
      BY <3>1 DEF BoundInv, Bound
  <2>20. ASSUME NEW i \in DOMAIN transitions, DialAbandoned(i) PROVE BoundInv'
    <3>1. /\ i = 1 /\ Len(transitions) \in Nat /\ Len(transitions) > 0 /\ UNCHANGED <<last, held>>
          /\ Len(transitions) = 1 => transitions[1].cancelled = FALSE /\ transitions[1].kind = last
          /\ Len(transitions) # 1 => transitions[1].cancelled = TRUE
          /\ transitions[1].kind = "disconnect" => transitions[1].at \in {"queued", "disconnect"}
      BY <2>20, HeadRuns DEF DialAbandoned, Runnable
    <3>2. transitions # <<>> /\ transitions \in Seq(Transition) /\ Shaped(transitions, last)
      BY <3>1, EmptySeq DEF QueueOK
    <3>0. UNCHANGED <<config, push, rewritten>>
      BY <2>20 DEF DialAbandoned
    <3>8. SUFFICES ASSUME Bound(config.host) PROVE Bound(config.host)'
      BY <3>0 DEF BoundInv, Armed
    <3>3. transitions[1].cancelled /\ transitions' = RemoveAt(transitions, 1) /\ link'.state = "down"
      BY <2>20, <3>1 DEF DialAbandoned, Finish
    <3>5. /\ last' = "reconnect" /\ (transitions' = <<>> \/ (Len(transitions') = 1 /\ transitions'[1].at = "dialing")) => link'.host = config.host
          /\ last' \in {"none", "connect"} /\ link'.state # "down" => link'.host = config.host
      BY <3>1, <3>3, FinishBinds
    <3> QED
      BY <3>0, <3>5 DEF Bound
  <2>21. ASSUME NEW i \in DOMAIN transitions, DialThrows(i) PROVE BoundInv'
    BY <2>21 DEF DialThrows, BoundInv, Bound, Armed
  <2>22. CASE UNCHANGED vars
    BY <2>22 DEF vars, BoundInv, Bound, Armed
  <2> QED
    BY <2>1, <2>2, <2>3, <2>4, <2>5, <2>6, <2>7, <2>8, <2>9, <2>10, <2>11, <2>12, <2>13, <2>14, <2>15, <2>16, <2>17, <2>18, <2>19, <2>20, <2>21, <2>22
    DEF Next, Handlers, Step
<1> QED
  BY <1>1, <1>2, HostCorrect, FlagsCorrect, QueueCorrect, OutcomeCorrect, AckCorrect, RaceCorrect, FreshCorrect, PTL DEF Spec

(* A change of host that arrives as a `config` message reaches SignalR      *)
(* (DecideConfigTransition): once everything has settled a live link is to  *)
(* the host the configuration holds, unless an ack raced a push.            *)
THEOREM PushedHostWins == Spec => []PushedHostIsDialled
<1>1. QueueOK /\ OutcomeInv /\ BoundInv => PushedHostIsDialled
  <2> SUFFICES ASSUME QueueOK, OutcomeInv, BoundInv, Settled, ~rewritten, config.keep, link.state = "up"
               PROVE  link.host = config.host
    BY DEF PushedHostIsDialled
  <2>1. transitions = <<>> /\ push.at = "idle"
    BY DEF Settled, Idle
  <2>2. Bound(config.host)
    BY <2>1 DEF BoundInv, Armed
  <2>3. last # "disconnect" /\ last # "failed"
    BY <2>1 DEF OutcomeInv
  <2>4. last \in {"reconnect", "none", "connect"}
    BY <2>3 DEF QueueOK, Kinds
  <2> QED
    BY <2>1, <2>2, <2>4 DEF Bound
<1> QED
  BY <1>1, QueueCorrect, OutcomeCorrect, BoundCorrect, PTL

================================================================================
