------------------------- MODULE RoundTripProofs -------------------------
(***************************************************************************)
(* What holds of RoundTrip for any calls and any number of connections:    *)
(* the types, that a call is failed when its link drops, that the plugin   *)
(* never hears of a cancel before the call, and that RoundTrip implements  *)
(* SidecarCalls.  That every call ends stays with the model checker.       *)
(***************************************************************************)
EXTENDS RoundTrip, SequenceTheorems, TLAPS

(* The three messages are told apart.                                      *)

LEMMA MessageKinds ==
  /\ \A c : Handshake # Request(c)
  /\ \A c : Handshake # ToolCancel(c)
  /\ \A c, d : Request(c) # ToolCancel(d)
  /\ \A c, d : Request(c) = Request(d) => c = d
  /\ \A c, d : ToolCancel(c) = ToolCancel(d) => c = d
  /\ \A c : Request(c).kind = "request"
  /\ \A c : Request(c).call = c
  /\ \A c : ToolCancel(c).kind # "request"
  /\ Handshake.kind # "request"
<1>1. \A c, d : Handshake # Request(c) /\ Handshake # ToolCancel(c)
  <2> TAKE c, d
  <2>1. Handshake.kind = "handshake" /\ Request(c).kind = "request" /\ ToolCancel(c).kind = "cancel"
    BY DEF Handshake, Request, ToolCancel
  <2> QED
    BY <2>1
<1>2. \A c, d : Request(c) # ToolCancel(d)
  <2> TAKE c, d
  <2>1. Request(c).kind = "request" /\ ToolCancel(d).kind = "cancel"
    BY DEF Request, ToolCancel
  <2> QED
    BY <2>1
<1>3. \A c : /\ Request(c).kind = "request" /\ Request(c).call = c
            /\ ToolCancel(c).kind # "request" /\ ToolCancel(c).call = c
  BY DEF Request, ToolCancel
<1>4. Handshake.kind # "request"
  BY DEF Handshake
<1>5. \A c, d : /\ Request(c) = Request(d) => c = d
               /\ ToolCancel(c) = ToolCancel(d) => c = d
  <2> TAKE c, d
  <2>1. Request(c).call = c /\ Request(d).call = d
    BY <1>3
  <2>2. ToolCancel(c).call = c /\ ToolCancel(d).call = d
    BY <1>3
  <2> QED
    BY <2>1, <2>2
<1> QED
  BY <1>1, <1>2, <1>3, <1>4, <1>5

LEMMA MessageTypes ==
  /\ Handshake \in Messages
  /\ \A c \in Calls : Request(c) \in Messages /\ ToolCancel(c) \in Messages
  BY DEF Messages

LEMMA RequestOf ==
  ASSUME NEW m \in Messages, m.kind = "request"
  PROVE  m.call \in Calls /\ m = Request(m.call)
<1>1. m = Handshake \/ (\E c \in Calls : m = Request(c)) \/ (\E c \in Calls : m = ToolCancel(c))
  BY DEF Messages
<1>2. m # Handshake
  BY MessageKinds
<1>3. \A c \in Calls : m # ToolCancel(c)
  BY MessageKinds
<1>4. PICK c \in Calls : m = Request(c)
  BY <1>1, <1>2, <1>3
<1>5. m.call = c
  BY <1>4, MessageKinds
<1> QED
  BY <1>4, <1>5

(* Where the link is, and the one write of a handshake.                    *)
LinkInv ==
  /\ loop \in {"backoff", "handshake", "sending", "awaitAck", "serve", "close", "failAll", "exited"}
  /\ dials \in 0..MaxDials
  /\ stream = 0 \/ (stream = dials /\ dials # 0)
  /\ stream # 0 => loop \in {"handshake", "sending", "awaitAck", "serve", "close"}
  /\ loop \in {"handshake", "sending", "awaitAck", "serve"} => stream # 0
  /\ waiters \subseteq Writes
  /\ writer \in Writes \cup {NoWrite}
  /\ \A w \in waiters : w.message = Handshake =>
       loop = "sending" /\ w.stream = stream /\ (writer = NoWrite \/ writer.message # Handshake)
  /\ writer # NoWrite /\ writer.message = Handshake => loop = "sending"

LEMMA LinkCorrect == Spec => []LinkInv
<1> USE DEF LinkInv, loopVars, writeVars, pluginVars, callVars
<1>1. Init => LinkInv
  BY MaxDialsAssumption, MessageKinds, MessageTypes DEF Init
<1>2. LinkInv /\ [Next]_vars => LinkInv'
  <2> SUFFICES ASSUME LinkInv, [Next]_vars PROVE LinkInv'
    OBVIOUS
  <2>1. CASE DialFails
    BY <2>1, MaxDialsAssumption, MessageKinds, MessageTypes DEF DialFails
  <2>2. CASE Dial
    BY <2>2, MaxDialsAssumption, MessageKinds, MessageTypes DEF Dial
  <2>3. CASE SendHandshake
    <3>1. stream \in 1..MaxDials
      BY <2>3, MaxDialsAssumption DEF SendHandshake
    <3>2. [message |-> Handshake, stream |-> stream] \in Writes
      BY <3>1, MessageTypes DEF Writes
    <3> QED
      BY <2>3, <3>2 DEF SendHandshake, Enqueue
  <2>4. CASE AcceptAck
    BY <2>4, MaxDialsAssumption, MessageKinds, MessageTypes DEF AcceptAck
  <2>5. CASE LinkDrops
    BY <2>5, MaxDialsAssumption, MessageKinds, MessageTypes DEF LinkDrops
  <2>6. CASE CleanUp
    BY <2>6, MaxDialsAssumption, MessageKinds, MessageTypes DEF CleanUp, Finally, CloseConnection, FailAll, Complete
  <2>7. CASE ExitLoop
    BY <2>7, MaxDialsAssumption, MessageKinds, MessageTypes DEF ExitLoop
  <2>8. CASE WriteFrame
    BY <2>8, MaxDialsAssumption, MessageKinds, MessageTypes DEF WriteFrame, Resume, Frame, Complete, Return
  <2>9. CASE WriteFails
    BY <2>9, MaxDialsAssumption, MessageKinds, MessageTypes DEF WriteFails, Resume, Complete, Return
  <2>10. CASE WriteCancelled
    BY <2>10, MaxDialsAssumption, MessageKinds, MessageTypes DEF WriteCancelled, Frame, Return
  <2>11. ASSUME NEW w \in waiters, AcquireLock(w) PROVE LinkInv'
    <3>1. \A v \in waiters : v.message = Handshake /\ w.message = Handshake => v = w
      BY DEF Writes
    <3> QED
      BY <2>11, <3>1 DEF AcquireLock
  <2>12. CASE PluginReads
    BY <2>12, MaxDialsAssumption, MessageKinds, MessageTypes DEF PluginReads
  <2>13. ASSUME NEW c \in Calls, Gate(c) PROVE LinkInv'
    BY <2>13, MaxDialsAssumption, MessageKinds, MessageTypes DEF Gate, Return
  <2>14. ASSUME NEW c \in Calls, Register(c) PROVE LinkInv'
    BY <2>14, MaxDialsAssumption, MessageKinds, MessageTypes DEF Register
  <2>15. ASSUME NEW c \in Calls, ArmCancellation(c) PROVE LinkInv'
    <3>1. stream # 0 => [message |-> ToolCancel(c), stream |-> stream] \in Writes
      BY MaxDialsAssumption, MessageTypes DEF Writes
    <3>2. ToolCancel(c) # Handshake
      BY MessageKinds
    <3> QED
      BY <2>15, <3>1, <3>2 DEF ArmCancellation, CancelAndFail, SendCancel, Enqueue, Complete
  <2>16. ASSUME NEW c \in Calls, CancelCallback(c) PROVE LinkInv'
    <3>1. stream # 0 => [message |-> ToolCancel(c), stream |-> stream] \in Writes
      BY MaxDialsAssumption, MessageTypes DEF Writes
    <3>2. ToolCancel(c) # Handshake
      BY MessageKinds
    <3> QED
      BY <2>16, <3>1, <3>2 DEF CancelCallback, CancelAndFail, SendCancel, Enqueue, Complete
  <2>17. ASSUME NEW c \in Calls, Send(c) PROVE LinkInv'
    <3>1. stream # 0 => [message |-> Request(c), stream |-> stream] \in Writes
      BY MaxDialsAssumption, MessageTypes DEF Writes
    <3>2. Request(c) # Handshake
      BY MessageKinds
    <3> QED
      BY <2>17, <3>1, <3>2 DEF Send, Enqueue, Complete, Return
  <2>18. ASSUME NEW c \in Calls, SendCancelled(c) PROVE LinkInv'
    BY <2>18, MaxDialsAssumption, MessageKinds, MessageTypes DEF SendCancelled, Return
  <2>19. ASSUME NEW c \in Calls, TaskEnds(c) PROVE LinkInv'
    BY <2>19, MaxDialsAssumption, MessageKinds, MessageTypes DEF TaskEnds, Return
  <2>20. ASSUME NEW c \in Calls, Backstop(c) PROVE LinkInv'
    <3>1. stream # 0 => [message |-> ToolCancel(c), stream |-> stream] \in Writes
      BY MaxDialsAssumption, MessageTypes DEF Writes
    <3>2. ToolCancel(c) # Handshake
      BY MessageKinds
    <3> QED
      BY <2>20, <3>1, <3>2 DEF Backstop, SendCancel, Enqueue, Complete, Return
  <2>21. ASSUME NEW c \in Calls, CallerCancels(c) PROVE LinkInv'
    BY <2>21, MaxDialsAssumption, MessageKinds, MessageTypes DEF CallerCancels
  <2>22. ASSUME NEW c \in Calls, ReadResponse(c) PROVE LinkInv'
    BY <2>22, MaxDialsAssumption, MessageKinds, MessageTypes DEF ReadResponse, Complete
  <2>23. CASE UNCHANGED vars
    BY <2>23 DEF vars
  <2> QED
    BY <2>1, <2>2, <2>3, <2>4, <2>5, <2>6, <2>7, <2>8, <2>9, <2>10, <2>11, <2>12, <2>13, <2>14, <2>15, <2>16, <2>17, <2>18, <2>19, <2>20, <2>21, <2>22, <2>23
    DEF Next, RunLoop, Write, Caller
<1> QED
  BY <1>1, <1>2, PTL DEF Spec

(* The values of the other variables.                                      *)
Frames == [message : Messages, whole : BOOLEAN]

ValuesOK ==
  /\ ackAccepted \in BOOLEAN /\ authed \in BOOLEAN /\ open \in BOOLEAN
  /\ open <=> stream # 0
  /\ wire \in Seq(Frames)
  /\ serving \subseteq Calls
  /\ pc \in [Calls -> {"idle", "gated", "registered", "armed", "sending", "waiting", "done"}]
  /\ task \in [Calls -> {"none", "open", "ended"}]
  /\ cancelled \in [Calls -> BOOLEAN] /\ calledBack \in [Calls -> BOOLEAN]

LEMMA ValuesCorrect == Spec => []ValuesOK
<1> USE DEF ValuesOK, loopVars, writeVars, pluginVars, callVars
<1>1. Init => ValuesOK
  BY EmptySeq DEF Init
<1>2. ValuesOK /\ LinkInv /\ LinkInv' /\ [Next]_vars => ValuesOK'
  <2> SUFFICES ASSUME ValuesOK, LinkInv, LinkInv', [Next]_vars PROVE ValuesOK'
    OBVIOUS
  <2>1. CASE DialFails
    BY <2>1 DEF DialFails
  <2>2. CASE Dial
    <3>1. stream' # 0 /\ open'
      <4>1. dials \in Nat /\ stream' = dials + 1 /\ open' = TRUE
        BY <2>2, MaxDialsAssumption DEF Dial, LinkInv
      <4> QED
        BY <4>1
    <3>2. wire' \in Seq(Frames) /\ authed' \in BOOLEAN /\ serving' \subseteq Calls
      BY <2>2, EmptySeq DEF Dial
    <3>3. open' \in BOOLEAN
      BY <2>2 DEF Dial
    <3> QED
      BY <2>2, <3>1, <3>2, <3>3 DEF Dial
  <2>3. CASE SendHandshake
    BY <2>3 DEF SendHandshake, Enqueue
  <2>4. CASE AcceptAck
    BY <2>4 DEF AcceptAck
  <2>5. CASE LinkDrops
    BY <2>5 DEF LinkDrops
  <2>6. CASE CleanUp
    <3>1. open' \in BOOLEAN /\ ackAccepted' \in BOOLEAN
      BY <2>6 DEF CleanUp, Finally, CloseConnection
    <3>2. open' <=> stream' # 0
      BY <2>6 DEF CleanUp, Finally, CloseConnection
    <3>3. task' \in [Calls -> {"none", "open", "ended"}]
      BY <2>6 DEF CleanUp, Finally, FailAll, Complete
    <3> QED
      BY <2>6, <3>1, <3>2, <3>3 DEF CleanUp
  <2>7. CASE ExitLoop
    BY <2>7 DEF ExitLoop
  <2>8. CASE WriteFrame
    <3>1. writer.message \in Messages
      BY <2>8 DEF WriteFrame, LinkInv, Writes
    <3>2. Frame(TRUE) \in Frames
      BY <3>1 DEF Frame, Frames
    <3>3. wire' \in Seq(Frames)
      BY <2>8, <3>2, AppendProperties DEF WriteFrame
    <3> QED
      BY <2>8, <3>3 DEF WriteFrame, Resume, Return, Complete
  <2>9. CASE WriteFails
    BY <2>9 DEF WriteFails, Resume, Complete, Return
  <2>10. CASE WriteCancelled
    <3>1. writer.message \in Messages
      BY <2>10 DEF WriteCancelled, LinkInv, Writes
    <3>2. Frame(FALSE) \in Frames
      BY <3>1 DEF Frame, Frames
    <3>3. Append(wire, Frame(FALSE)) \in Seq(Frames)
      BY <3>2, AppendProperties
    <3>4. wire' \in Seq(Frames)
      BY <2>10, <3>3 DEF WriteCancelled
    <3> QED
      BY <2>10, <3>4 DEF WriteCancelled, Return
  <2>11. ASSUME NEW w \in waiters, AcquireLock(w) PROVE ValuesOK'
    BY <2>11 DEF AcquireLock, MayWrite
  <2>12. CASE PluginReads
    <3>1. PICK n \in DOMAIN wire :
             /\ wire' = SubSeq(wire, n + 1, Len(wire))
             /\ authed' = (authed \/ (n = 1 /\ wire[n].message = Handshake))
             /\ serving' = IF (n = 1) /\ authed /\ wire[n].message.kind = "request"
                           THEN serving \cup {wire[n].message.call} ELSE serving
      BY <2>12 DEF PluginReads
    <3>2. n \in 1..Len(wire) /\ wire[n] \in Frames
      BY ElementOfSeq
    <3>3. wire[n].message \in Messages
      BY <3>2 DEF Frames
    <3>4. wire' \in Seq(Frames)
      <4>1. n + 1 \in Int /\ Len(wire) \in Int /\ n + 1 >= 1
        BY <3>2
      <4>2. \A k \in n + 1..Len(wire) : wire[k] \in Frames
        BY <3>2
      <4> QED
        BY <3>1, <4>1, <4>2, SubSeqProperties
    <3>5. serving' \subseteq Calls
      <4>1. wire[n].message.kind = "request" => wire[n].message.call \in Calls
        BY <3>3, RequestOf
      <4> QED
        BY <3>1, <4>1
    <3>6. authed' \in BOOLEAN
      BY <3>1
    <3> QED
      BY <2>12, <3>4, <3>5, <3>6 DEF PluginReads
  <2>13. ASSUME NEW c \in Calls, Gate(c) PROVE ValuesOK'
    BY <2>13 DEF Gate, Return
  <2>14. ASSUME NEW c \in Calls, Register(c) PROVE ValuesOK'
    BY <2>14 DEF Register
  <2>15. ASSUME NEW c \in Calls, ArmCancellation(c) PROVE ValuesOK'
    BY <2>15 DEF ArmCancellation, CancelAndFail, SendCancel, Enqueue, Complete
  <2>16. ASSUME NEW c \in Calls, CancelCallback(c) PROVE ValuesOK'
    BY <2>16 DEF CancelCallback, CancelAndFail, SendCancel, Enqueue, Complete
  <2>17. ASSUME NEW c \in Calls, Send(c) PROVE ValuesOK'
    BY <2>17 DEF Send, Enqueue, Complete, Return
  <2>18. ASSUME NEW c \in Calls, SendCancelled(c) PROVE ValuesOK'
    BY <2>18 DEF SendCancelled, Return
  <2>19. ASSUME NEW c \in Calls, TaskEnds(c) PROVE ValuesOK'
    BY <2>19 DEF TaskEnds, Return
  <2>20. ASSUME NEW c \in Calls, Backstop(c) PROVE ValuesOK'
    BY <2>20 DEF Backstop, SendCancel, Enqueue, Complete, Return
  <2>21. ASSUME NEW c \in Calls, CallerCancels(c) PROVE ValuesOK'
    BY <2>21 DEF CallerCancels
  <2>22. ASSUME NEW c \in Calls, ReadResponse(c) PROVE ValuesOK'
    BY <2>22 DEF ReadResponse, Complete
  <2>23. CASE UNCHANGED vars
    BY <2>23 DEF vars
  <2> QED
    BY <2>1, <2>2, <2>3, <2>4, <2>5, <2>6, <2>7, <2>8, <2>9, <2>10, <2>11, <2>12, <2>13, <2>14, <2>15, <2>16, <2>17, <2>18, <2>19, <2>20, <2>21, <2>22, <2>23
    DEF Next, RunLoop, Write, Caller
<1> QED
  BY <1>1, <1>2, LinkCorrect, PTL DEF Spec

(* A call's request is written once, while its caller is sending.          *)
RequestInv ==
  \A c \in Calls :
    /\ \A w \in waiters : w.message = Request(c) =>
         pc[c] = "sending" /\ (writer = NoWrite \/ writer.message # Request(c))
    /\ \A v, w \in waiters : v.message = Request(c) /\ w.message = Request(c) => v = w
    /\ writer # NoWrite /\ writer.message = Request(c) => pc[c] = "sending"

LEMMA RequestCorrect == Spec => []RequestInv
<1> USE DEF RequestInv, loopVars, writeVars, pluginVars, callVars
<1>1. Init => RequestInv
  BY DEF Init
<1>2. RequestInv /\ LinkInv /\ ValuesOK /\ [Next]_vars => RequestInv'
  <2> SUFFICES ASSUME RequestInv, LinkInv, ValuesOK, [Next]_vars PROVE RequestInv'
    OBVIOUS
  <2>1. CASE DialFails
    BY <2>1 DEF DialFails
  <2>2. CASE Dial
    BY <2>2 DEF Dial
  <2>3. CASE SendHandshake
    <3>1. \A d : Handshake # Request(d)
      BY MessageKinds
    <3> QED
      BY <2>3, <3>1 DEF SendHandshake, Enqueue
  <2>4. CASE AcceptAck
    BY <2>4 DEF AcceptAck
  <2>5. CASE LinkDrops
    BY <2>5 DEF LinkDrops
  <2>6. CASE CleanUp
    BY <2>6 DEF CleanUp, Finally, CloseConnection, FailAll, Complete
  <2>7. CASE ExitLoop
    BY <2>7 DEF ExitLoop
  <2>8. CASE WriteFrame
    <3>1. ASSUME writer.message.kind = "request"
          PROVE  writer.message.call \in Calls /\ writer.message = Request(writer.message.call)
      BY <2>8, <3>1, RequestOf DEF WriteFrame, LinkInv, Writes
    <3>2. \A d \in Calls : pc'[d] # pc[d] => writer.message = Request(d)
      BY <2>8, <3>1 DEF WriteFrame, Resume, Return, ValuesOK
    <3>3. waiters' = waiters /\ writer' = NoWrite
      BY <2>8 DEF WriteFrame
    <3> QED
      BY <2>8, <3>2, <3>3 DEF WriteFrame
  <2>9. CASE WriteFails
    <3>1. ASSUME writer.message.kind = "request"
          PROVE  writer.message.call \in Calls /\ writer.message = Request(writer.message.call)
      BY <2>9, <3>1, RequestOf DEF WriteFails, LinkInv, Writes
    <3>2. \A d \in Calls : pc'[d] # pc[d] => writer.message = Request(d)
      BY <2>9, <3>1 DEF WriteFails, Resume, Return, ValuesOK
    <3>3. waiters' = waiters /\ writer' = NoWrite
      BY <2>9 DEF WriteFails
    <3> QED
      BY <2>9, <3>2, <3>3 DEF WriteFails
  <2>10. CASE WriteCancelled
    <3>1. writer.message.call \in Calls /\ writer.message = Request(writer.message.call)
      BY <2>10, RequestOf DEF WriteCancelled, LinkInv, Writes
    <3>2. \A d \in Calls : pc'[d] # pc[d] => writer.message = Request(d)
      BY <2>10, <3>1 DEF WriteCancelled, Return, ValuesOK
    <3>3. waiters' = waiters /\ writer' = NoWrite /\ writer # NoWrite
      BY <2>10 DEF WriteCancelled
    <3> QED
      BY <2>10, <3>2, <3>3
  <2>11. ASSUME NEW w \in waiters, AcquireLock(w) PROVE RequestInv'
    BY <2>11 DEF AcquireLock, MayWrite
  <2>12. CASE PluginReads
    BY <2>12 DEF PluginReads
  <2>13. ASSUME NEW c \in Calls, Gate(c) PROVE RequestInv'
    <3>1. \A d \in Calls : pc'[d] # pc[d] => pc[d] # "sending"
      BY <2>13 DEF Gate, ValuesOK, Return
    <3> QED
      BY <2>13, <3>1 DEF Gate
  <2>14. ASSUME NEW c \in Calls, Register(c) PROVE RequestInv'
    <3>1. \A d \in Calls : pc'[d] # pc[d] => pc[d] # "sending"
      BY <2>14 DEF Register, ValuesOK, Return
    <3> QED
      BY <2>14, <3>1 DEF Register
  <2>15. ASSUME NEW c \in Calls, ArmCancellation(c) PROVE RequestInv'
    <3>1. \A d : ToolCancel(c) # Request(d)
      BY MessageKinds
    <3>2. \A d \in Calls : pc'[d] # pc[d] => pc[d] # "sending"
      BY <2>15 DEF ArmCancellation, ValuesOK, Return
    <3>3. \A w \in waiters' : w \in waiters \/ w.message = ToolCancel(c)
      BY <2>15 DEF ArmCancellation, CancelAndFail, SendCancel, Enqueue
    <3>4. writer' = writer
      BY <2>15 DEF ArmCancellation
    <3> QED
      BY <3>1, <3>2, <3>3, <3>4
  <2>16. ASSUME NEW c \in Calls, CancelCallback(c) PROVE RequestInv'
    <3>1. \A d : ToolCancel(c) # Request(d)
      BY MessageKinds
    <3>2. \A d \in Calls : pc'[d] # pc[d] => pc[d] # "sending"
      BY <2>16 DEF CancelCallback, ValuesOK, Return
    <3>3. \A w \in waiters' : w \in waiters \/ w.message = ToolCancel(c)
      BY <2>16 DEF CancelCallback, CancelAndFail, SendCancel, Enqueue
    <3>4. writer' = writer
      BY <2>16 DEF CancelCallback
    <3> QED
      BY <3>1, <3>2, <3>3, <3>4
  <2>17. ASSUME NEW c \in Calls, Send(c) PROVE RequestInv'
    <3>1. \A d \in Calls : pc'[d] # pc[d] => d = c /\ pc[d] = "armed"
      BY <2>17 DEF Send, ValuesOK, Return
    <3>2. waiters' = waiters \/ (waiters' = waiters \cup {[message |-> Request(c), stream |-> stream]} /\ pc'[c] = "sending")
      BY <2>17 DEF Send, ValuesOK, Enqueue
    <3>3. \A d : Request(d) = Request(c) => d = c
      BY MessageKinds
    <3>4. writer' = writer
      BY <2>17 DEF Send
    <3>5. pc[c] = "armed"
      BY <2>17 DEF Send
    <3>6. CASE waiters' = waiters
      BY <3>1, <3>4, <3>6
    <3>7. CASE waiters' = waiters \cup {[message |-> Request(c), stream |-> stream]} /\ pc'[c] = "sending"
      <4>1. \A w \in waiters : w.message # Request(c)
        BY <3>5
      <4>2. writer = NoWrite \/ writer.message # Request(c)
        BY <3>5
      <4>3. \A w \in waiters' : w \in waiters \/ w = [message |-> Request(c), stream |-> stream]
        BY <3>7
      <4> QED
        BY <3>1, <3>3, <3>4, <3>5, <3>7, <4>1, <4>2, <4>3
    <3> QED
      BY <3>2, <3>6, <3>7
  <2>18. ASSUME NEW c \in Calls, SendCancelled(c) PROVE RequestInv'
    <3>1. PICK w \in waiters : w.message = Request(c) /\ waiters' = waiters \ {w}
      BY <2>18 DEF SendCancelled
    <3>2. \A d \in Calls : pc'[d] # pc[d] => d = c
      BY <2>18 DEF SendCancelled, ValuesOK, Return
    <3>3. writer' = writer /\ (writer = NoWrite \/ writer.message # Request(c))
      BY <2>18, <3>1 DEF SendCancelled
    <3>4. \A v \in waiters' : v.message # Request(c)
      BY <3>1
    <3> QED
      BY <3>1, <3>2, <3>3, <3>4
  <2>19. ASSUME NEW c \in Calls, TaskEnds(c) PROVE RequestInv'
    <3>1. \A d \in Calls : pc'[d] # pc[d] => pc[d] # "sending"
      BY <2>19 DEF TaskEnds, ValuesOK, Return
    <3> QED
      BY <2>19, <3>1 DEF TaskEnds
  <2>20. ASSUME NEW c \in Calls, Backstop(c) PROVE RequestInv'
    <3>1. \A d : ToolCancel(c) # Request(d)
      BY MessageKinds
    <3>2. \A d \in Calls : pc'[d] # pc[d] => pc[d] # "sending"
      BY <2>20 DEF Backstop, ValuesOK, Return
    <3>3. \A w \in waiters' : w \in waiters \/ w.message = ToolCancel(c)
      BY <2>20 DEF Backstop, SendCancel, Enqueue, Return
    <3>4. writer' = writer
      BY <2>20 DEF Backstop
    <3> QED
      BY <3>1, <3>2, <3>3, <3>4
  <2>21. ASSUME NEW c \in Calls, CallerCancels(c) PROVE RequestInv'
    BY <2>21 DEF CallerCancels
  <2>22. ASSUME NEW c \in Calls, ReadResponse(c) PROVE RequestInv'
    BY <2>22 DEF ReadResponse, Complete
  <2>23. CASE UNCHANGED vars
    BY <2>23 DEF vars
  <2> QED
    BY <2>1, <2>2, <2>3, <2>4, <2>5, <2>6, <2>7, <2>8, <2>9, <2>10, <2>11, <2>12, <2>13, <2>14, <2>15, <2>16, <2>17, <2>18, <2>19, <2>20, <2>21, <2>22, <2>23
    DEF Next, RunLoop, Write, Caller
<1> QED
  BY <1>1, <1>2, LinkCorrect, ValuesCorrect, PTL DEF Spec

(* The registry and the state of each call.                                *)
CallInv ==
  /\ pending = {c \in Calls : task[c] = "open"}
  /\ \A c \in Calls :
       /\ pc[c] \in {"idle", "gated"} => task[c] = "none"
       /\ pc[c] \in {"registered", "armed", "sending", "waiting"} => task[c] # "none"
       /\ pc[c] = "done" /\ task[c] = "open" => cancelled[c]
       /\ calledBack[c] => cancelled[c]

LEMMA CallCorrect == Spec => []CallInv
<1> USE DEF CallInv, loopVars, writeVars, pluginVars, callVars
<1>1. Init => CallInv
  BY DEF Init
<1>2. CallInv /\ LinkInv /\ ValuesOK /\ RequestInv /\ [Next]_vars => CallInv'
  <2> SUFFICES ASSUME CallInv, LinkInv, ValuesOK, RequestInv, [Next]_vars PROVE CallInv'
    OBVIOUS
  <2>1. CASE DialFails
    BY <2>1 DEF DialFails
  <2>2. CASE Dial
    BY <2>2 DEF Dial
  <2>3. CASE SendHandshake
    BY <2>3 DEF SendHandshake, Enqueue
  <2>4. CASE AcceptAck
    BY <2>4 DEF AcceptAck
  <2>5. CASE LinkDrops
    BY <2>5 DEF LinkDrops
  <2>6. CASE CleanUp
    <3>1. CASE loop = "close"
      BY <2>6, <3>1 DEF CleanUp, Finally
    <3>2. CASE loop = "failAll" /\ FailAll
      <4>1. pending' = {} /\ task' = [c \in Calls |-> IF c \in pending THEN "ended" ELSE task[c]]
        BY <3>2 DEF FailAll, Complete
      <4> QED
        BY <2>6, <4>1 DEF CleanUp, ValuesOK
    <3> QED
      BY <2>6, <3>1, <3>2 DEF CleanUp, Finally
  <2>7. CASE ExitLoop
    BY <2>7 DEF ExitLoop
  <2>8. CASE WriteFrame
    <3>1. ASSUME writer.message.kind = "request"
          PROVE  writer.message.call \in Calls /\ writer.message = Request(writer.message.call)
      BY <2>8, <3>1, RequestOf DEF WriteFrame, LinkInv, Writes
    <3>2. CASE writer.message.kind = "request"
      BY <2>8, <3>1, <3>2 DEF WriteFrame, Resume, RequestInv, ValuesOK
    <3>3. CASE writer.message.kind # "request"
      BY <2>8, <3>3 DEF WriteFrame, Resume
    <3> QED
      BY <3>2, <3>3
  <2>9. CASE WriteFails
    <3>1. ASSUME writer.message.kind = "request"
          PROVE  writer.message.call \in Calls /\ writer.message = Request(writer.message.call)
      BY <2>9, <3>1, RequestOf DEF WriteFails, LinkInv, Writes
    <3>2. CASE writer.message.kind = "request"
      BY <2>9, <3>1, <3>2 DEF WriteFails, Resume, Complete, Return, ValuesOK
    <3>3. CASE writer.message.kind # "request"
      BY <2>9, <3>3 DEF WriteFails, Resume
    <3> QED
      BY <3>2, <3>3
  <2>10. CASE WriteCancelled
    <3>1. writer.message.call \in Calls
      BY <2>10, RequestOf DEF WriteCancelled, LinkInv, Writes
    <3> QED
      BY <2>10, <3>1 DEF WriteCancelled, Return, ValuesOK
  <2>11. ASSUME NEW w \in waiters, AcquireLock(w) PROVE CallInv'
    BY <2>11 DEF AcquireLock, MayWrite
  <2>12. CASE PluginReads
    BY <2>12 DEF PluginReads
  <2>13. ASSUME NEW c \in Calls, Gate(c) PROVE CallInv'
    BY <2>13 DEF ValuesOK, Gate, Return
  <2>14. ASSUME NEW c \in Calls, Register(c) PROVE CallInv'
    BY <2>14 DEF ValuesOK, Register
  <2>15. ASSUME NEW c \in Calls, ArmCancellation(c) PROVE CallInv'
    BY <2>15 DEF ValuesOK, ArmCancellation, CancelAndFail, SendCancel, Enqueue, Complete
  <2>16. ASSUME NEW c \in Calls, CancelCallback(c) PROVE CallInv'
    BY <2>16 DEF ValuesOK, CancelCallback, CancelAndFail, SendCancel, Enqueue, Complete
  <2>17. ASSUME NEW c \in Calls, Send(c) PROVE CallInv'
    BY <2>17 DEF ValuesOK, Send, Enqueue, Complete, Return
  <2>18. ASSUME NEW c \in Calls, SendCancelled(c) PROVE CallInv'
    BY <2>18 DEF ValuesOK, SendCancelled, Return
  <2>19. ASSUME NEW c \in Calls, TaskEnds(c) PROVE CallInv'
    BY <2>19 DEF ValuesOK, TaskEnds, Return
  <2>20. ASSUME NEW c \in Calls, Backstop(c) PROVE CallInv'
    BY <2>20 DEF ValuesOK, Backstop, SendCancel, Enqueue, Complete, Return
  <2>21. ASSUME NEW c \in Calls, CallerCancels(c) PROVE CallInv'
    BY <2>21 DEF ValuesOK, CallerCancels
  <2>22. ASSUME NEW c \in Calls, ReadResponse(c) PROVE CallInv'
    BY <2>22 DEF ValuesOK, ReadResponse, Complete
  <2>23. CASE UNCHANGED vars
    BY <2>23 DEF vars
  <2> QED
    BY <2>1, <2>2, <2>3, <2>4, <2>5, <2>6, <2>7, <2>8, <2>9, <2>10, <2>11, <2>12, <2>13, <2>14, <2>15, <2>16, <2>17, <2>18, <2>19, <2>20, <2>21, <2>22, <2>23
    DEF Next, RunLoop, Write, Caller
<1> QED
  BY <1>1, <1>2, LinkCorrect, ValuesCorrect, RequestCorrect, PTL DEF Spec

(* Nobody waits on a link that is gone.                                     *)
OrphanInv == loop \in {"backoff", "exited"} => \A c \in Calls : ~Waiting(c)

LEMMA OrphanCorrect == Spec => []OrphanInv
<1> USE DEF OrphanInv, loopVars, writeVars, pluginVars, callVars
<1>1. Init => OrphanInv
  BY DEF Init, Waiting
<1>2. OrphanInv /\ LinkInv /\ ValuesOK /\ CallInv /\ [Next]_vars => OrphanInv'
  <2> SUFFICES ASSUME OrphanInv, LinkInv, ValuesOK, CallInv, [Next]_vars PROVE OrphanInv'
    OBVIOUS
  <2>1. CASE DialFails
    BY <2>1 DEF DialFails
  <2>2. CASE Dial
    BY <2>2 DEF Dial
  <2>3. CASE SendHandshake
    BY <2>3 DEF SendHandshake
  <2>4. CASE AcceptAck
    BY <2>4 DEF AcceptAck
  <2>5. CASE LinkDrops
    BY <2>5 DEF LinkDrops
  <2>6. CASE CleanUp
    <3>1. CASE loop = "close"
      BY <2>6, <3>1 DEF CleanUp, Finally
    <3>2. CASE loop = "failAll" /\ FailAll
      <4>1. \A c \in Calls : task'[c] # "open"
        BY <3>2 DEF FailAll, Complete, CallInv, ValuesOK
      <4> QED
        BY <4>1 DEF Waiting
    <3> QED
      BY <2>6, <3>1, <3>2 DEF CleanUp, Finally
  <2>7. CASE ExitLoop
    BY <2>7 DEF ExitLoop, Waiting
  <2>8. CASE WriteFrame
    <3>1. loop' \notin {"backoff", "exited"}
      BY <2>8 DEF WriteFrame, Resume, LinkInv, ValuesOK
    <3> QED
      BY <3>1
  <2>9. CASE WriteFails
    <3>1. ASSUME writer.message.kind = "request"
          PROVE  writer.message.call \in Calls /\ writer.message = Request(writer.message.call)
      BY <2>9, <3>1, RequestOf DEF WriteFails, LinkInv, Writes
    <3>2. \A d \in Calls : Waiting(d)' => Waiting(d)
      BY <2>9, <3>1 DEF WriteFails, Resume, Complete, Return, Waiting, ValuesOK
    <3>3. loop' \in {"backoff", "exited"} => loop \in {"backoff", "exited"}
      BY <2>9 DEF WriteFails, Resume
    <3> QED
      BY <3>2, <3>3
  <2>10. CASE WriteCancelled
    <3>1. \A d \in Calls : Waiting(d)' => Waiting(d)
      <4>1. writer.message.call \in Calls
        BY <2>10, RequestOf DEF WriteCancelled, LinkInv, Writes
      <4> QED
        BY <2>10, <4>1 DEF WriteCancelled, Return, Waiting, ValuesOK
    <3>2. loop' = loop
      BY <2>10 DEF WriteCancelled
    <3> QED
      BY <3>1, <3>2
  <2>11. ASSUME NEW w \in waiters, AcquireLock(w) PROVE OrphanInv'
    BY <2>11 DEF AcquireLock, Waiting
  <2>12. CASE PluginReads
    BY <2>12 DEF PluginReads, Waiting
  <2>13. ASSUME NEW c \in Calls, Gate(c) PROVE OrphanInv'
    <3>1. \A d \in Calls : Waiting(d)' => Waiting(d)
      BY <2>13 DEF Gate, Return, Waiting, ValuesOK
    <3>2. loop' = loop
      BY <2>13 DEF Gate
    <3> QED
      BY <3>1, <3>2
  <2>14. ASSUME NEW c \in Calls, Register(c) PROVE OrphanInv'
    <3>1. \A d \in Calls : Waiting(d)' => Waiting(d)
      BY <2>14 DEF Register, Waiting, ValuesOK
    <3>2. loop' = loop
      BY <2>14 DEF Register
    <3> QED
      BY <3>1, <3>2
  <2>15. ASSUME NEW c \in Calls, ArmCancellation(c) PROVE OrphanInv'
    <3>1. \A d \in Calls : Waiting(d)' => Waiting(d)
      BY <2>15 DEF ArmCancellation, CancelAndFail, Complete, Waiting, ValuesOK
    <3>2. loop' = loop
      BY <2>15 DEF ArmCancellation
    <3> QED
      BY <3>1, <3>2
  <2>16. ASSUME NEW c \in Calls, CancelCallback(c) PROVE OrphanInv'
    <3>1. \A d \in Calls : Waiting(d)' => Waiting(d)
      BY <2>16 DEF CancelCallback, CancelAndFail, Complete, Waiting, ValuesOK
    <3>2. loop' = loop
      BY <2>16 DEF CancelCallback
    <3> QED
      BY <3>1, <3>2
  <2>17. ASSUME NEW c \in Calls, Send(c) PROVE OrphanInv'
    <3>1. \A d \in Calls : Waiting(d)' => Waiting(d)
      BY <2>17 DEF Send, Complete, Return, Waiting, ValuesOK
    <3>2. loop' = loop
      BY <2>17 DEF Send
    <3> QED
      BY <3>1, <3>2
  <2>18. ASSUME NEW c \in Calls, SendCancelled(c) PROVE OrphanInv'
    <3>1. \A d \in Calls : Waiting(d)' => Waiting(d)
      BY <2>18 DEF SendCancelled, Return, Waiting, ValuesOK
    <3>2. loop' = loop
      BY <2>18 DEF SendCancelled
    <3> QED
      BY <3>1, <3>2
  <2>19. ASSUME NEW c \in Calls, TaskEnds(c) PROVE OrphanInv'
    <3>1. \A d \in Calls : Waiting(d)' => Waiting(d)
      BY <2>19 DEF TaskEnds, Return, Waiting, ValuesOK
    <3>2. loop' = loop
      BY <2>19 DEF TaskEnds
    <3> QED
      BY <3>1, <3>2
  <2>20. ASSUME NEW c \in Calls, Backstop(c) PROVE OrphanInv'
    <3>1. \A d \in Calls : Waiting(d)' => Waiting(d)
      BY <2>20 DEF Backstop, Complete, Return, Waiting, ValuesOK
    <3>2. loop' = loop
      BY <2>20 DEF Backstop
    <3> QED
      BY <3>1, <3>2
  <2>21. ASSUME NEW c \in Calls, CallerCancels(c) PROVE OrphanInv'
    <3>1. \A d \in Calls : Waiting(d)' => Waiting(d)
      BY <2>21 DEF CallerCancels, Waiting, ValuesOK
    <3>2. loop' = loop
      BY <2>21 DEF CallerCancels
    <3> QED
      BY <3>1, <3>2
  <2>22. ASSUME NEW c \in Calls, ReadResponse(c) PROVE OrphanInv'
    <3>1. \A d \in Calls : Waiting(d)' => Waiting(d)
      BY <2>22 DEF ReadResponse, Complete, Waiting, ValuesOK
    <3>2. loop' = loop
      BY <2>22 DEF ReadResponse
    <3> QED
      BY <3>1, <3>2
  <2>23. CASE UNCHANGED vars
    BY <2>23 DEF vars, Waiting
  <2> QED
    BY <2>1, <2>2, <2>3, <2>4, <2>5, <2>6, <2>7, <2>8, <2>9, <2>10, <2>11, <2>12, <2>13, <2>14, <2>15, <2>16, <2>17, <2>18, <2>19, <2>20, <2>21, <2>22, <2>23
    DEF Next, RunLoop, Write, Caller
<1> QED
  BY <1>1, <1>2, LinkCorrect, ValuesCorrect, CallCorrect, PTL DEF Spec

(* A call is over once its callback has run or its caller has left.         *)
Over(c) == calledBack[c] \/ pc[c] = "done"

LEMMA OverStays ==
  ASSUME LinkInv, ValuesOK, RequestInv, [Next]_vars
  PROVE  \A d \in Calls : Over(d) => Over(d)'
<1> USE DEF Over
<1>0. SUFFICES ASSUME NEW d \in Calls, Over(d) PROVE Over(d)'
  OBVIOUS
<1>1. CASE DialFails
  BY <1>0, <1>1 DEF DialFails, ValuesOK, callVars
<1>2. CASE Dial
  BY <1>0, <1>2 DEF Dial, ValuesOK, callVars
<1>3. CASE SendHandshake
  BY <1>0, <1>3 DEF SendHandshake, ValuesOK, callVars
<1>4. CASE AcceptAck
  BY <1>0, <1>4 DEF AcceptAck, ValuesOK, callVars
<1>5. CASE LinkDrops
  BY <1>0, <1>5 DEF LinkDrops, ValuesOK, callVars
<1>6. CASE CleanUp
  BY <1>0, <1>6 DEF CleanUp, ValuesOK, callVars
<1>7. CASE ExitLoop
  BY <1>0, <1>7 DEF ExitLoop, ValuesOK, callVars
<1>8. CASE WriteFrame
  <2>1. \A e \in Calls : pc'[e] # pc[e] => pc[e] = "sending"
    <3>1. ASSUME writer.message.kind = "request"
          PROVE  writer.message.call \in Calls /\ writer.message = Request(writer.message.call)
      BY <1>8, <3>1, RequestOf DEF WriteFrame, LinkInv, Writes
    <3> QED
      BY <1>8, <3>1 DEF WriteFrame, Resume, Return, RequestInv, ValuesOK
  <2> QED
    BY <1>0, <1>8, <2>1 DEF WriteFrame
<1>9. CASE WriteFails
  <2>1. \A e \in Calls : pc'[e] # pc[e] => pc[e] = "sending"
    <3>1. ASSUME writer.message.kind = "request"
          PROVE  writer.message.call \in Calls /\ writer.message = Request(writer.message.call)
      BY <1>9, <3>1, RequestOf DEF WriteFails, LinkInv, Writes
    <3> QED
      BY <1>9, <3>1 DEF WriteFails, Resume, Return, RequestInv, ValuesOK
  <2> QED
    BY <1>0, <1>9, <2>1 DEF WriteFails
<1>10. CASE WriteCancelled
  BY <1>0, <1>10 DEF WriteCancelled, Return, ValuesOK, callVars
<1>11. ASSUME NEW w \in waiters, AcquireLock(w) PROVE Over(d)'
  BY <1>0, <1>11 DEF AcquireLock, MayWrite, ValuesOK, callVars
<1>12. CASE PluginReads
  BY <1>0, <1>12 DEF PluginReads, ValuesOK, callVars
<1>13. ASSUME NEW c \in Calls, Gate(c) PROVE Over(d)'
  BY <1>0, <1>13 DEF Gate, Return, ValuesOK, callVars
<1>14. ASSUME NEW c \in Calls, Register(c) PROVE Over(d)'
  BY <1>0, <1>14 DEF Register, ValuesOK, callVars
<1>15. ASSUME NEW c \in Calls, ArmCancellation(c) PROVE Over(d)'
  BY <1>0, <1>15 DEF ArmCancellation, CancelAndFail, ValuesOK, callVars
<1>16. ASSUME NEW c \in Calls, CancelCallback(c) PROVE Over(d)'
  BY <1>0, <1>16 DEF CancelCallback, CancelAndFail, ValuesOK, callVars
<1>17. ASSUME NEW c \in Calls, Send(c) PROVE Over(d)'
  BY <1>0, <1>17 DEF Send, Return, ValuesOK, callVars
<1>18. ASSUME NEW c \in Calls, SendCancelled(c) PROVE Over(d)'
  BY <1>0, <1>18 DEF SendCancelled, Return, ValuesOK, callVars
<1>19. ASSUME NEW c \in Calls, TaskEnds(c) PROVE Over(d)'
  BY <1>0, <1>19 DEF TaskEnds, Return, ValuesOK, callVars
<1>20. ASSUME NEW c \in Calls, Backstop(c) PROVE Over(d)'
  BY <1>0, <1>20 DEF Backstop, Return, ValuesOK, callVars
<1>21. ASSUME NEW c \in Calls, CallerCancels(c) PROVE Over(d)'
  BY <1>0, <1>21 DEF CallerCancels, ValuesOK, callVars
<1>22. ASSUME NEW c \in Calls, ReadResponse(c) PROVE Over(d)'
  BY <1>0, <1>22 DEF ReadResponse, ValuesOK, callVars
<1>23. CASE UNCHANGED vars
  BY <1>0, <1>23 DEF vars, loopVars, writeVars, pluginVars, callVars
<1> QED
  BY <1>0, <1>1, <1>2, <1>3, <1>4, <1>5, <1>6, <1>7, <1>8, <1>9, <1>10, <1>11, <1>12, <1>13, <1>14, <1>15, <1>16, <1>17, <1>18, <1>19, <1>20, <1>21, <1>22, <1>23
  DEF Next, RunLoop, Write, Caller

CancelInv ==
  \A c \in Calls :
    /\ \A w \in waiters : w.message = ToolCancel(c) => Over(c)
    /\ writer # NoWrite /\ writer.message = ToolCancel(c) => Over(c)
    /\ \A k \in 1..Len(wire) : wire[k].message = ToolCancel(c) =>
         Over(c) /\ (writer = NoWrite \/ writer.message # Request(c))
    /\ \A k, j \in 1..Len(wire) :
         wire[k].message = ToolCancel(c) /\ wire[j].message = Request(c) => j < k

(* Nothing reaches the wire, and what joins the queue is not a cancel, or is   *)
(* one of a call that is over.                                               *)
LEMMA NothingReachesTheWire ==
  ASSUME CancelInv, \A d \in Calls : Over(d) => Over(d)',
         writer' = writer \/ writer' = NoWrite,
         wire' = wire \/ wire' = <<>>,
         \A w \in waiters' : w \in waiters \/ \A d \in Calls : w.message = ToolCancel(d) => Over(d)'
  PROVE  CancelInv'
<1> SUFFICES ASSUME NEW c \in Calls
             PROVE  /\ \A w \in waiters' : w.message = ToolCancel(c) => Over(c)'
                    /\ writer' # NoWrite /\ writer'.message = ToolCancel(c) => Over(c)'
                    /\ \A k \in 1..Len(wire') : wire'[k].message = ToolCancel(c) =>
                         Over(c)' /\ (writer' = NoWrite \/ writer'.message # Request(c))
                    /\ \A k, j \in 1..Len(wire') :
                         wire'[k].message = ToolCancel(c) /\ wire'[j].message = Request(c) => j < k
  BY DEF CancelInv, Request, ToolCancel, NoWrite, Handshake
<1>1. /\ \A w \in waiters' : w.message = ToolCancel(c) => Over(c)'
      /\ writer' # NoWrite /\ writer'.message = ToolCancel(c) => Over(c)'
  BY DEF CancelInv
<1>2. CASE wire' = <<>>
  <2>1. 1..Len(wire') = {}
    BY <1>2
  <2> QED
    BY <1>1, <2>1
<1>3. CASE wire' = wire
  BY <1>1, <1>3 DEF CancelInv
<1> QED
  BY <1>2, <1>3

LEMMA CancelCorrect == Spec => []CancelInv
<1> USE DEF CancelInv, loopVars, writeVars, pluginVars, callVars
<1>1. Init => CancelInv
  <2>1. Init => 1..Len(wire) = {} /\ waiters = {} /\ writer = NoWrite
    BY DEF Init
  <2> QED
    BY <2>1
<1>2. CancelInv /\ LinkInv /\ ValuesOK /\ RequestInv /\ [Next]_vars => CancelInv'
  <2> SUFFICES ASSUME CancelInv, LinkInv, ValuesOK, RequestInv, [Next]_vars PROVE CancelInv'
    OBVIOUS
  <2>1. CASE DialFails
    <3>1. \A d \in Calls : Over(d) => Over(d)'
      BY OverStays
    <3>2. /\ writer' = writer \/ writer' = NoWrite
          /\ wire' = wire \/ wire' = <<>>
          /\ waiters' \subseteq waiters
      BY <2>1 DEF DialFails
    <3> QED
      BY <3>1, <3>2, NothingReachesTheWire
  <2>2. CASE Dial
    <3>1. \A d \in Calls : Over(d) => Over(d)'
      BY OverStays
    <3>2. /\ writer' = writer \/ writer' = NoWrite
          /\ wire' = wire \/ wire' = <<>>
          /\ waiters' \subseteq waiters
      BY <2>2 DEF Dial
    <3> QED
      BY <3>1, <3>2, NothingReachesTheWire
  <2>3. CASE SendHandshake
    <3>1. \A d \in Calls : Over(d) => Over(d)'
      BY OverStays
    <3>2. \A w \in waiters' : w \in waiters \/ w.message = Handshake
      BY <2>3 DEF SendHandshake, Enqueue
    <3>3. \A d \in Calls : Handshake # ToolCancel(d)
      BY MessageKinds
    <3>4. writer' = writer /\ wire' = wire
      BY <2>3 DEF SendHandshake
    <3> QED
      BY <3>1, <3>2, <3>3, <3>4, NothingReachesTheWire
  <2>4. CASE AcceptAck
    <3>1. \A d \in Calls : Over(d) => Over(d)'
      BY OverStays
    <3>2. /\ writer' = writer \/ writer' = NoWrite
          /\ wire' = wire \/ wire' = <<>>
          /\ waiters' \subseteq waiters
      BY <2>4 DEF AcceptAck
    <3> QED
      BY <3>1, <3>2, NothingReachesTheWire
  <2>5. CASE LinkDrops
    <3>1. \A d \in Calls : Over(d) => Over(d)'
      BY OverStays
    <3>2. /\ writer' = writer \/ writer' = NoWrite
          /\ wire' = wire \/ wire' = <<>>
          /\ waiters' \subseteq waiters
      BY <2>5 DEF LinkDrops
    <3> QED
      BY <3>1, <3>2, NothingReachesTheWire
  <2>6. CASE CleanUp
    <3>1. \A d \in Calls : Over(d) => Over(d)'
      BY OverStays
    <3>2. /\ writer' = writer \/ writer' = NoWrite
          /\ wire' = wire \/ wire' = <<>>
          /\ waiters' \subseteq waiters
      BY <2>6 DEF CleanUp, Finally
    <3> QED
      BY <3>1, <3>2, NothingReachesTheWire
  <2>7. CASE ExitLoop
    <3>1. \A d \in Calls : Over(d) => Over(d)'
      BY OverStays
    <3>2. /\ writer' = writer \/ writer' = NoWrite
          /\ wire' = wire \/ wire' = <<>>
          /\ waiters' \subseteq waiters
      BY <2>7 DEF ExitLoop
    <3> QED
      BY <3>1, <3>2, NothingReachesTheWire
  <2>8. CASE WriteFrame
    <3>1. \A d \in Calls : Over(d) => Over(d)'
      BY OverStays
    <3>2. writer # NoWrite /\ writer' = NoWrite /\ waiters' = waiters
      BY <2>8 DEF WriteFrame
    <3>3. CASE wire' = wire
      BY <3>1, <3>2, <3>3, NothingReachesTheWire
    <3>4. CASE wire' = Append(wire, Frame(TRUE))
      <4> DEFINE n == Len(wire)
      <4>1. /\ wire \in Seq(Frames)
            /\ Frame(TRUE) \in Frames
            /\ Frame(TRUE).message = writer.message
        BY <3>2 DEF Frame, Frames, ValuesOK, LinkInv, Writes
      <4>a. Len(wire') = n + 1 /\ \A k \in 1..n : wire'[k] = wire[k]
        BY <3>4, <4>1, AppendProperties
      <4>b. wire'[n + 1] = Frame(TRUE)
        BY <3>4, <4>1, AppendProperties
      <4>c. n \in Nat
        BY <4>1, LenProperties
      <4>2. /\ n \in Nat /\ Len(wire') = n + 1
            /\ \A k \in 1..n : wire'[k] = wire[k]
            /\ wire'[n + 1].message = writer.message
        BY <4>1, <4>a, <4>b, <4>c
      <4>3. \A k \in 1..n + 1 : k \in 1..n \/ k = n + 1
        BY <4>2
      <4>4. \A d \in Calls : Request(d) # ToolCancel(d)
        BY MessageKinds
      <4> HIDE DEF n
      <4>5. \A d \in Calls, k \in 1..n + 1 : wire'[k].message = ToolCancel(d) => Over(d)'
        BY <3>1, <3>2, <4>2, <4>3 DEF n
      <4>6. \A d \in Calls, k \in 1..n : wire'[k].message = ToolCancel(d) => writer.message # Request(d)
        BY <3>2, <4>2 DEF n
      <4>7. \A d \in Calls, k, j \in 1..n : wire'[k].message = ToolCancel(d) /\ wire'[j].message = Request(d) => j < k
        BY <4>2 DEF n
      <4>8. \A j \in 1..n : j < n + 1
        BY <4>2
      <4>9. \A d \in Calls, k, j \in 1..n + 1 : wire'[k].message = ToolCancel(d) /\ wire'[j].message = Request(d) => j < k
        BY <4>2, <4>3, <4>4, <4>6, <4>7, <4>8
      <4> QED
        BY <3>1, <3>2, <4>2, <4>5, <4>9
    <3> QED
      BY <2>8, <3>3, <3>4 DEF WriteFrame
  <2>9. CASE WriteFails
    <3>1. \A d \in Calls : Over(d) => Over(d)'
      BY OverStays
    <3>2. /\ writer' = writer \/ writer' = NoWrite
          /\ wire' = wire \/ wire' = <<>>
          /\ waiters' \subseteq waiters
      BY <2>9 DEF WriteFails
    <3> QED
      BY <3>1, <3>2, NothingReachesTheWire
  <2>10. CASE WriteCancelled
    <3>1. \A d \in Calls : Over(d) => Over(d)'
      BY OverStays
    <3>2. writer # NoWrite /\ writer' = NoWrite /\ waiters' = waiters
      BY <2>10 DEF WriteCancelled
    <3>3. CASE wire' = wire
      BY <3>1, <3>2, <3>3, NothingReachesTheWire
    <3>4. CASE wire' = Append(wire, Frame(FALSE))
      <4> DEFINE n == Len(wire)
      <4>1. /\ wire \in Seq(Frames)
            /\ Frame(FALSE) \in Frames
            /\ Frame(FALSE).message = writer.message
        BY <3>2 DEF Frame, Frames, ValuesOK, LinkInv, Writes
      <4>a. Len(wire') = n + 1 /\ \A k \in 1..n : wire'[k] = wire[k]
        BY <3>4, <4>1, AppendProperties
      <4>b. wire'[n + 1] = Frame(FALSE)
        BY <3>4, <4>1, AppendProperties
      <4>c. n \in Nat
        BY <4>1, LenProperties
      <4>2. /\ n \in Nat /\ Len(wire') = n + 1
            /\ \A k \in 1..n : wire'[k] = wire[k]
            /\ wire'[n + 1].message = writer.message
        BY <4>1, <4>a, <4>b, <4>c
      <4>3. \A k \in 1..n + 1 : k \in 1..n \/ k = n + 1
        BY <4>2
      <4>4. \A d \in Calls : Request(d) # ToolCancel(d)
        BY MessageKinds
      <4> HIDE DEF n
      <4>5. \A d \in Calls, k \in 1..n + 1 : wire'[k].message = ToolCancel(d) => Over(d)'
        BY <3>1, <3>2, <4>2, <4>3 DEF n
      <4>6. \A d \in Calls, k \in 1..n : wire'[k].message = ToolCancel(d) => writer.message # Request(d)
        BY <3>2, <4>2 DEF n
      <4>7. \A d \in Calls, k, j \in 1..n : wire'[k].message = ToolCancel(d) /\ wire'[j].message = Request(d) => j < k
        BY <4>2 DEF n
      <4>8. \A j \in 1..n : j < n + 1
        BY <4>2
      <4>9. \A d \in Calls, k, j \in 1..n + 1 : wire'[k].message = ToolCancel(d) /\ wire'[j].message = Request(d) => j < k
        BY <4>2, <4>3, <4>4, <4>6, <4>7, <4>8
      <4> QED
        BY <3>1, <3>2, <4>2, <4>5, <4>9
    <3> QED
      BY <2>10, <3>3, <3>4 DEF WriteCancelled
  <2>11. ASSUME NEW w \in waiters, AcquireLock(w) PROVE CancelInv'
    <3>1. \A d \in Calls : Over(d) => Over(d)'
      BY OverStays
    <3>2. writer' = w /\ waiters' = waiters \ {w} /\ wire' = wire
      BY <2>11 DEF AcquireLock
    <3>3. ASSUME NEW d \in Calls, w.message = Request(d) PROVE ~Over(d)
      <4>1. pc[d] = "sending"
        BY <3>3 DEF RequestInv
      <4>2. ~calledBack[d]
        BY <2>11, <3>3, MessageKinds DEF AcquireLock, MayWrite
      <4> QED
        BY <4>1, <4>2 DEF Over
    <3> QED
      BY <3>1, <3>2, <3>3
  <2>12. CASE PluginReads
    <3>1. \A d \in Calls : Over(d) => Over(d)'
      BY OverStays
    <3>2. writer' = writer /\ waiters' = waiters
      BY <2>12 DEF PluginReads
    <3>3. PICK n \in DOMAIN wire : wire' = SubSeq(wire, n + 1, Len(wire))
      BY <2>12 DEF PluginReads
    <3>4. n \in 1..Len(wire) /\ Len(wire) \in Nat /\ wire \in Seq(Frames)
      BY <3>3 DEF ValuesOK
    <3>5. \A k \in n + 1..Len(wire) : wire[k] \in Frames
      BY <3>4
    <3>6. /\ Len(wire') = Len(wire) - n
          /\ \A k \in 1..Len(wire) - n : wire'[k] = wire[k + n]
      BY <3>3, <3>4, <3>5, SubSeqProperties
    <3>7. \A k \in 1..Len(wire') : k + n \in 1..Len(wire) /\ wire'[k] = wire[k + n]
      BY <3>4, <3>6
    <3>8. \A k, j \in 1..Len(wire') : j + n < k + n => j < k
      BY <3>4, <3>6
    <3> QED
      BY <3>1, <3>2, <3>7, <3>8
  <2>13. ASSUME NEW c \in Calls, Gate(c) PROVE CancelInv'
    <3>1. \A d \in Calls : Over(d) => Over(d)'
      BY OverStays
    <3>2. /\ writer' = writer \/ writer' = NoWrite
          /\ wire' = wire \/ wire' = <<>>
          /\ waiters' \subseteq waiters
      BY <2>13 DEF Gate
    <3> QED
      BY <3>1, <3>2, NothingReachesTheWire
  <2>14. ASSUME NEW c \in Calls, Register(c) PROVE CancelInv'
    <3>1. \A d \in Calls : Over(d) => Over(d)'
      BY OverStays
    <3>2. /\ writer' = writer \/ writer' = NoWrite
          /\ wire' = wire \/ wire' = <<>>
          /\ waiters' \subseteq waiters
      BY <2>14 DEF Register
    <3> QED
      BY <3>1, <3>2, NothingReachesTheWire
  <2>15. ASSUME NEW c \in Calls, ArmCancellation(c) PROVE CancelInv'
    <3>1. \A d \in Calls : Over(d) => Over(d)'
      BY OverStays
    <3>2. \A w \in waiters' : w \in waiters \/ (w.message = ToolCancel(c) /\ Over(c)')
      BY <2>15 DEF ArmCancellation, CancelAndFail, SendCancel, Enqueue, Return, Over, ValuesOK
    <3>3. \A d \in Calls : ToolCancel(c) = ToolCancel(d) => d = c
      BY MessageKinds
    <3>4. writer' = writer /\ wire' = wire
      BY <2>15 DEF ArmCancellation
    <3> QED
      BY <3>1, <3>2, <3>3, <3>4, NothingReachesTheWire
  <2>16. ASSUME NEW c \in Calls, CancelCallback(c) PROVE CancelInv'
    <3>1. \A d \in Calls : Over(d) => Over(d)'
      BY OverStays
    <3>2. \A w \in waiters' : w \in waiters \/ (w.message = ToolCancel(c) /\ Over(c)')
      BY <2>16 DEF CancelCallback, CancelAndFail, SendCancel, Enqueue, Return, Over, ValuesOK
    <3>3. \A d \in Calls : ToolCancel(c) = ToolCancel(d) => d = c
      BY MessageKinds
    <3>4. writer' = writer /\ wire' = wire
      BY <2>16 DEF CancelCallback
    <3> QED
      BY <3>1, <3>2, <3>3, <3>4, NothingReachesTheWire
  <2>17. ASSUME NEW c \in Calls, Send(c) PROVE CancelInv'
    <3>1. \A d \in Calls : Over(d) => Over(d)'
      BY OverStays
    <3>2. \A w \in waiters' : w \in waiters \/ w.message = Request(c)
      BY <2>17 DEF Send, Enqueue
    <3>3. \A d \in Calls : Request(c) # ToolCancel(d)
      BY MessageKinds
    <3>4. writer' = writer /\ wire' = wire
      BY <2>17 DEF Send
    <3> QED
      BY <3>1, <3>2, <3>3, <3>4, NothingReachesTheWire
  <2>18. ASSUME NEW c \in Calls, SendCancelled(c) PROVE CancelInv'
    <3>1. \A d \in Calls : Over(d) => Over(d)'
      BY OverStays
    <3>2. /\ writer' = writer \/ writer' = NoWrite
          /\ wire' = wire \/ wire' = <<>>
          /\ waiters' \subseteq waiters
      BY <2>18 DEF SendCancelled
    <3> QED
      BY <3>1, <3>2, NothingReachesTheWire
  <2>19. ASSUME NEW c \in Calls, TaskEnds(c) PROVE CancelInv'
    <3>1. \A d \in Calls : Over(d) => Over(d)'
      BY OverStays
    <3>2. /\ writer' = writer \/ writer' = NoWrite
          /\ wire' = wire \/ wire' = <<>>
          /\ waiters' \subseteq waiters
      BY <2>19 DEF TaskEnds
    <3> QED
      BY <3>1, <3>2, NothingReachesTheWire
  <2>20. ASSUME NEW c \in Calls, Backstop(c) PROVE CancelInv'
    <3>1. \A d \in Calls : Over(d) => Over(d)'
      BY OverStays
    <3>2. \A w \in waiters' : w \in waiters \/ (w.message = ToolCancel(c) /\ Over(c)')
      BY <2>20 DEF Backstop, SendCancel, Enqueue, Return, Over, ValuesOK
    <3>3. \A d \in Calls : ToolCancel(c) = ToolCancel(d) => d = c
      BY MessageKinds
    <3>4. writer' = writer /\ wire' = wire
      BY <2>20 DEF Backstop
    <3> QED
      BY <3>1, <3>2, <3>3, <3>4, NothingReachesTheWire
  <2>21. ASSUME NEW c \in Calls, CallerCancels(c) PROVE CancelInv'
    <3>1. \A d \in Calls : Over(d) => Over(d)'
      BY OverStays
    <3>2. /\ writer' = writer \/ writer' = NoWrite
          /\ wire' = wire \/ wire' = <<>>
          /\ waiters' \subseteq waiters
      BY <2>21 DEF CallerCancels
    <3> QED
      BY <3>1, <3>2, NothingReachesTheWire
  <2>22. ASSUME NEW c \in Calls, ReadResponse(c) PROVE CancelInv'
    <3>1. \A d \in Calls : Over(d) => Over(d)'
      BY OverStays
    <3>2. /\ writer' = writer \/ writer' = NoWrite
          /\ wire' = wire \/ wire' = <<>>
          /\ waiters' \subseteq waiters
      BY <2>22 DEF ReadResponse
    <3> QED
      BY <3>1, <3>2, NothingReachesTheWire
  <2>23. CASE UNCHANGED vars
    BY <2>23 DEF vars, Over
  <2> QED
    BY <2>1, <2>2, <2>3, <2>4, <2>5, <2>6, <2>7, <2>8, <2>9, <2>10, <2>11, <2>12, <2>13, <2>14, <2>15, <2>16, <2>17, <2>18, <2>19, <2>20, <2>21, <2>22, <2>23
    DEF Next, RunLoop, Write, Caller
<1> QED
  BY <1>1, <1>2, LinkCorrect, ValuesCorrect, RequestCorrect, PTL DEF Spec

(***************************************************************************)
(* Every variable keeps to its type, and what is pending is what nobody     *)
(* has completed.                                                          *)
(***************************************************************************)
THEOREM TypeCorrect == Spec => []TypeOK
<1>1. LinkInv /\ ValuesOK /\ CallInv => TypeOK
  <2> SUFFICES ASSUME LinkInv, ValuesOK, CallInv PROVE TypeOK
    OBVIOUS
  <2>1. stream \in 0..MaxDials /\ open = (stream # 0)
    BY MaxDialsAssumption DEF LinkInv, ValuesOK
  <2>2. wire \in Seq([message : Messages, whole : BOOLEAN])
    BY DEF ValuesOK, Frames
  <2>3. \A c \in pending : pc[c] = "done" => cancelled[c]
    BY DEF CallInv
  <2> QED
    BY <2>1, <2>2, <2>3 DEF TypeOK, LinkInv, ValuesOK, CallInv
<1> QED
  BY <1>1, LinkCorrect, ValuesCorrect, CallCorrect, PTL

(***************************************************************************)
(* A call is failed when its link drops, not left to its timeout            *)
(* (IpcClient.RunAsync's finally and PendingCallRegistry.FailAll).          *)
(***************************************************************************)
THEOREM NoOrphan == Spec => []NoOrphanedCall
<1>1. OrphanInv => NoOrphanedCall
  BY DEF OrphanInv, NoOrphanedCall
<1> QED
  BY <1>1, OrphanCorrect, PTL

(***************************************************************************)
(* The plugin never hears of a cancel before the call it cancels            *)
(* (IpcClient.RoundTripAsync's callback and the write lock).                *)
(***************************************************************************)
THEOREM CancelAfterRequest == Spec => []CancelFollowsRequest
<1>1. ValuesOK /\ CancelInv => CancelFollowsRequest
  <2> SUFFICES ASSUME ValuesOK, CancelInv PROVE CancelFollowsRequest
    OBVIOUS
  <2>1. DOMAIN wire = 1..Len(wire)
    BY DEF ValuesOK
  <2> QED
    BY <2>1 DEF CancelInv, CancelFollowsRequest
<1> QED
  BY <1>1, ValuesCorrect, CancelCorrect, PTL

(***************************************************************************)
(* What the code implements (SidecarCalls): a call is asked at most once.  *)
(***************************************************************************)

(* The request has left for the plugin, or never will.                     *)
Asked(c) == pc[c] \in {"waiting", "done"} /\ task[c] # "none"

LEMMA WriterCalls ==
  ASSUME LinkInv, writer # NoWrite, writer.message.kind = "request"
  PROVE  writer.message.call \in Calls /\ writer.message = Request(writer.message.call)
BY RequestOf DEF LinkInv, Writes

(* Only the sender whose write is over, or who has not been asked, moves.  *)
LEMMA WriteMovesSender ==
  ASSUME LinkInv, ValuesOK, RequestInv, CallInv, WriteFrame \/ WriteFails \/ WriteCancelled
  PROVE  \A d \in Calls : pc'[d] # pc[d] \/ task'[d] # task[d] =>
           writer.message = Request(d) /\ pc[d] = "sending" /\ task'[d] # "none"
<1>1. writer # NoWrite
  BY DEF WriteFrame, WriteFails, WriteCancelled
<1>2. CASE writer.message.kind = "request"
  <2> DEFINE c == writer.message.call
  <2>1. c \in Calls /\ writer.message = Request(c)
    BY <1>1, <1>2, WriterCalls
  <2>2. pc[c] = "sending" /\ task[c] # "none"
    BY <1>1, <2>1 DEF RequestInv, CallInv
  <2> HIDE DEF c
  <2>3. \A d \in Calls \ {c} : pc'[d] = pc[d] /\ task'[d] = task[d]
    BY <1>2, <2>1 DEF WriteFrame, WriteFails, WriteCancelled, Resume, Complete, Return, ValuesOK, c
  <2>4. task'[c] \in {task[c], "ended"}
    BY <1>2, <2>1 DEF WriteFrame, WriteFails, WriteCancelled, Resume, Complete, Return, ValuesOK, c
  <2> QED
    BY <2>1, <2>2, <2>3, <2>4
<1>3. CASE writer.message.kind # "request"
  BY <1>3 DEF WriteFrame, WriteFails, WriteCancelled, Resume
<1> QED
  BY <1>2, <1>3

LEMMA AskedStays ==
  ASSUME LinkInv, ValuesOK, RequestInv, CallInv, [Next]_vars, NEW d \in Calls, Asked(d)
  PROVE  Asked(d)'
<1> USE DEF Asked
<1>1. CASE UNCHANGED <<pc, task>>
  BY <1>1
<1>2. CASE CleanUp
  BY <1>2 DEF CleanUp, Finally, FailAll, Complete, ValuesOK
<1>3. CASE WriteFrame \/ WriteFails \/ WriteCancelled
  BY <1>3, WriteMovesSender
<1>4. ASSUME NEW c \in Calls, Caller(c) PROVE Asked(d)'
  <2>1. CASE Gate(c) \/ Register(c) \/ ArmCancellation(c) \/ Send(c)
    BY <2>1 DEF Gate, Register, ArmCancellation, CancelAndFail, Send, Complete, Return, ValuesOK
  <2>2. CASE CancelCallback(c) \/ TaskEnds(c) \/ Backstop(c)
    BY <2>2 DEF CancelCallback, CancelAndFail, TaskEnds, Backstop, Complete, Return, ValuesOK
  <2>3. CASE SendCancelled(c)
    BY <2>3 DEF SendCancelled, Return, ValuesOK
  <2> QED
    BY <1>4, <2>1, <2>2, <2>3 DEF Caller
<1>5. ASSUME NEW c \in Calls, ReadResponse(c) PROVE Asked(d)'
  BY <1>5 DEF ReadResponse, Complete, ValuesOK
<1>6. CASE DialFails \/ Dial \/ SendHandshake \/ AcceptAck \/ LinkDrops \/ ExitLoop \/ PluginReads
  BY <1>1, <1>6 DEF DialFails, Dial, SendHandshake, AcceptAck, LinkDrops, ExitLoop, PluginReads, callVars
<1>7. ASSUME NEW w \in waiters, AcquireLock(w) PROVE Asked(d)'
  BY <1>1, <1>7 DEF AcquireLock, callVars
<1>8. ASSUME NEW c \in Calls, CallerCancels(c) PROVE Asked(d)'
  BY <1>1, <1>8 DEF CallerCancels
<1>9. CASE UNCHANGED vars
  BY <1>1, <1>9 DEF vars, callVars
<1> QED
  BY <1>2, <1>3, <1>4, <1>5, <1>6, <1>7, <1>8, <1>9 DEF Next, RunLoop, Write

(* A request is whole on the wire once, or taken, and then it is neither   *)
(* to be written nor to be asked again.                                    *)
AskedInv ==
  \A c \in Calls :
    /\ \A n \in 1..Len(wire) : wire[n].message = Request(c) => Asked(c)
    /\ \A n \in 1..Len(wire) : Asks(n, c) => c \notin serving
    /\ \A m, n \in 1..Len(wire) : Asks(m, c) /\ Asks(n, c) => m = n
    /\ c \in serving => Asked(c)

(* Nothing but a request that was never asked joins what the plugin has.   *)
LEMMA NothingAsked ==
  ASSUME AskedInv, \A d \in Calls : Asked(d) => Asked(d)',
         wire' = wire \/ wire' = <<>>, serving' \subseteq serving
  PROVE  AskedInv'
<1>1. CASE wire' = <<>>
  <2>1. 1..Len(wire') = {}
    BY <1>1
  <2> QED
    BY <2>1 DEF AskedInv
<1>2. CASE wire' = wire
  BY <1>2 DEF AskedInv, Asks
<1> QED
  BY <1>1, <1>2

(* A write of a request puts it on the wire, where it has never been.      *)
LEMMA WriteAsksOnce ==
  ASSUME LinkInv, ValuesOK, RequestInv, AskedInv, \A d \in Calls : Asked(d) => Asked(d)',
         writer # NoWrite, NEW whole \in BOOLEAN, wire' = Append(wire, Frame(whole)),
         serving' = serving,
         \A c \in Calls : writer.message = Request(c) => Asked(c)'
  PROVE  AskedInv'
<1>1. wire \in Seq(Frames) /\ Frame(whole) \in Frames
  BY DEF Frame, Frames, ValuesOK, LinkInv, Writes
<1> PICK n \in Nat : n = Len(wire)
  BY <1>1, LenProperties
<1>2. Len(wire') = n + 1 /\ (\A k \in 1..n : wire'[k] = wire[k]) /\ wire'[n + 1] = Frame(whole)
  BY <1>1, AppendProperties
<1>3. \A k \in 1..n + 1 : k \in 1..n \/ k = n + 1
  BY <1>1
<1>4. Frame(whole).whole = whole /\ Frame(whole).message = writer.message
  BY DEF Frame
<1>5. \A c \in Calls, k \in 1..n : Asks(k, c)' <=> Asks(k, c)
  BY <1>2 DEF Asks
<1>6. \A c \in Calls : Asks(n + 1, c)' => whole /\ writer.message = Request(c)
  BY <1>2, <1>4 DEF Asks
<1>7. \A c \in Calls : writer.message = Request(c) => ~Asked(c)
  BY DEF RequestInv, Asked
<1>8. \A c \in Calls, k \in 1..n : Asks(k, c) => Asked(c) /\ c \notin serving
  BY DEF AskedInv, Asks
<1>10. \A c \in Calls, k \in 1..n : wire[k].message = Request(c) => Asked(c)
  BY DEF AskedInv
<1>9. ASSUME NEW c \in Calls
      PROVE  /\ \A k \in 1..Len(wire') : wire'[k].message = Request(c) => Asked(c)'
             /\ \A k \in 1..Len(wire') : Asks(k, c)' => c \notin serving'
             /\ \A j, k \in 1..Len(wire') : Asks(j, c)' /\ Asks(k, c)' => j = k
             /\ c \in serving' => Asked(c)'
  <2>1. c \in serving => Asked(c)
    BY DEF AskedInv
  <2>2. \A j, k \in 1..n : Asks(j, c) /\ Asks(k, c) => j = k
    BY DEF AskedInv
  <2>3. \A k \in 1..n + 1 : Asks(k, c)' => c \notin serving'
    BY <1>3, <1>5, <1>6, <1>7, <1>8, <2>1
  <2>5. \A k \in 1..n + 1 : wire'[k].message = Request(c) => Asked(c)'
    <3>1. Asked(c) => Asked(c)'
      BY DEF Asked
    <3>2. \A k \in 1..n : wire'[k].message = Request(c) => Asked(c)'
      BY <1>2, <1>10, <3>1
    <3>3. wire'[n + 1].message = Request(c) => Asked(c)'
      BY <1>2, <1>4
    <3> QED
      BY <1>3, <3>2, <3>3
  <2>4. \A j, k \in 1..n + 1 : Asks(j, c)' /\ Asks(k, c)' => j = k
    BY <1>3, <1>5, <1>6, <1>7, <1>8, <2>2
  <2> QED
    BY <1>2, <2>1, <2>3, <2>4, <2>5
<1> QED
  BY <1>9 DEF AskedInv

(* What the plugin takes from the wire: one line, and its request if it    *)
(* understands it.                                                         *)
LEMMA ReadTakes ==
  ASSUME ValuesOK, PluginReads
  PROVE  \E n \in 1..Len(wire) :
           /\ Len(wire') = Len(wire) - n
           /\ \A k \in 1..Len(wire') : k + n \in 1..Len(wire) /\ wire'[k] = wire[k + n]
           /\ wire[n].whole /\ \A j \in 1..n-1 : ~wire[j].whole
           /\ \/ serving' = serving
              \/ \E c \in Calls : wire[n].message = Request(c) /\ serving' = serving \cup {c}
<1>1. PICK n \in DOMAIN wire :
        /\ LineEnd(n)
        /\ wire' = SubSeq(wire, n + 1, Len(wire))
        /\ serving' = IF (n = 1) /\ authed /\ wire[n].message.kind = "request"
                        THEN serving \cup {wire[n].message.call} ELSE serving
  BY DEF PluginReads
<1>2. n \in 1..Len(wire) /\ Len(wire) \in Nat /\ wire \in Seq(Frames) /\ wire[n].message \in Messages
  <2>1. wire \in Seq(Frames) /\ n \in 1..Len(wire) /\ Len(wire) \in Nat
    BY DEF ValuesOK
  <2>2. wire[n] \in Frames
    BY <2>1, ElementOfSeq
  <2> QED
    BY <2>1, <2>2 DEF Frames
<1>3. \A k \in n + 1..Len(wire) : wire[k] \in Frames
  BY <1>2
<1>4. /\ Len(wire') = Len(wire) - n
      /\ \A k \in 1..Len(wire) - n : wire'[k] = wire[k + n]
  BY <1>1, <1>2, <1>3, SubSeqProperties
<1>5. \A k \in 1..Len(wire') : k + n \in 1..Len(wire) /\ wire'[k] = wire[k + n]
  <2>1. n \in 1..Len(wire) /\ Len(wire) \in Nat
    BY <1>2
  <2> QED
    BY <1>4, <2>1
<1>6. ASSUME serving' # serving
      PROVE  \E c \in Calls : wire[n].message = Request(c) /\ serving' = serving \cup {c}
  BY <1>1, <1>2, <1>6, RequestOf
<1> QED
  BY <1>1, <1>2, <1>4, <1>5, <1>6 DEF LineEnd

LEMMA ReadTakesOnce ==
  ASSUME ValuesOK, AskedInv, \A d \in Calls : Asked(d) => Asked(d)', PluginReads
  PROVE  AskedInv'
<1>1. PICK n \in 1..Len(wire) :
        /\ \A k \in 1..Len(wire') : k + n \in 1..Len(wire) /\ wire'[k] = wire[k + n]
        /\ wire[n].whole
        /\ \/ serving' = serving
           \/ \E c \in Calls : wire[n].message = Request(c) /\ serving' = serving \cup {c}
  BY ReadTakes
<1>2. \A c \in Calls, k \in 1..Len(wire') : Asks(k, c)' => Asks(k + n, c)
  BY <1>1 DEF Asks
<1>3. \A c \in serving' : c \in serving \/ Asks(n, c)
  BY <1>1 DEF Asks
<1>4. n \in Nat /\ Len(wire') \in Nat
  BY <1>1 DEF PluginReads, ValuesOK
<1>5. ASSUME NEW c \in Calls
      PROVE  /\ \A k \in 1..Len(wire') : wire'[k].message = Request(c) => Asked(c)'
             /\ \A k \in 1..Len(wire') : Asks(k, c)' => c \notin serving'
             /\ \A j, k \in 1..Len(wire') : Asks(j, c)' /\ Asks(k, c)' => j = k
             /\ c \in serving' => Asked(c)'
  <2>1. \A j, k \in 1..Len(wire) : Asks(j, c) /\ Asks(k, c) => j = k
    BY DEF AskedInv
  <2>2. \A k \in 1..Len(wire) : Asks(k, c) => Asked(c) /\ c \notin serving
    BY DEF AskedInv, Asks
  <2>3. c \in serving => Asked(c)
    BY DEF AskedInv
  <2>4. \A k \in 1..Len(wire') : k \in Nat /\ k >= 1 /\ k + n # n /\ k + n \in 1..Len(wire)
    BY <1>1, <1>4
  <2>5. \A k \in 1..Len(wire') : Asks(k, c)' => c \notin serving'
    BY <1>2, <1>3, <2>1, <2>2, <2>4
  <2>6. \A j, k \in 1..Len(wire') : Asks(j, c)' /\ Asks(k, c)' => j + n = k + n
    BY <1>2, <2>1, <2>4
  <2>7. \A j, k \in 1..Len(wire') : j + n = k + n => j = k
    BY <1>4
  <2>8. \A k \in 1..Len(wire') : wire'[k].message = Request(c) => Asked(c)'
    BY <1>1 DEF AskedInv
  <2> QED
    BY <1>3, <2>2, <2>3, <2>5, <2>6, <2>7, <2>8
<1> QED
  BY <1>5 DEF AskedInv

LEMMA AskedCorrect == Spec => []AskedInv
<1> USE DEF pluginVars, callVars
<1>1. Init => AskedInv
  <2>1. Init => 1..Len(wire) = {} /\ serving = {}
    BY DEF Init
  <2> QED
    BY <2>1 DEF AskedInv
<1>2. AskedInv /\ LinkInv /\ ValuesOK /\ RequestInv /\ CallInv /\ [Next]_vars => AskedInv'
  <2> SUFFICES ASSUME AskedInv, LinkInv, ValuesOK, RequestInv, CallInv, [Next]_vars
               PROVE  AskedInv'
    OBVIOUS
  <2>1. \A d \in Calls : Asked(d) => Asked(d)'
    BY AskedStays
  <2>2. CASE UNCHANGED pluginVars
    BY <2>1, <2>2, NothingAsked
  <2>3. CASE Dial
    BY <2>1, <2>3, NothingAsked DEF Dial
  <2>4. CASE WriteFrame
    <3>1. writer # NoWrite /\ wire' = Append(wire, Frame(TRUE)) /\ serving' = serving
      BY <2>4 DEF WriteFrame
    <3>2. ASSUME NEW c \in Calls, writer.message = Request(c) PROVE Asked(c)'
      <4>1. task[c] # "none"
        BY <3>1, <3>2 DEF RequestInv, CallInv
      <4>2. pc'[c] = "waiting" /\ task' = task
        BY <2>4, <3>2, MessageKinds DEF WriteFrame, Resume, ValuesOK
      <4> QED
        BY <4>1, <4>2 DEF Asked
    <3> QED
      BY <2>1, <3>1, <3>2, WriteAsksOnce
  <2>5. CASE WriteCancelled
    <3>1. /\ writer # NoWrite /\ serving' = serving
          /\ wire' = wire \/ wire' = Append(wire, Frame(FALSE))
      BY <2>5 DEF WriteCancelled
    <3>2. ASSUME NEW c \in Calls, writer.message = Request(c) PROVE Asked(c)'
      <4>1. task[c] # "none"
        BY <3>1, <3>2 DEF RequestInv, CallInv
      <4>2. pc'[c] = "done" /\ task' = task
        BY <2>5, <3>2, MessageKinds DEF WriteCancelled, Return, ValuesOK
      <4> QED
        BY <4>1, <4>2 DEF Asked
    <3> QED
      BY <2>1, <3>1, <3>2, NothingAsked, WriteAsksOnce
  <2>6. CASE PluginReads
    BY <2>1, <2>6, ReadTakesOnce
  <2>7. ASSUME NEW c \in Calls, ReadResponse(c) PROVE AskedInv'
    BY <2>1, <2>7, NothingAsked DEF ReadResponse
  <2>8. CASE DialFails \/ SendHandshake \/ AcceptAck \/ LinkDrops \/ CleanUp \/ ExitLoop
    BY <2>2, <2>8 DEF DialFails, SendHandshake, AcceptAck, LinkDrops, CleanUp, ExitLoop
  <2>9. CASE WriteFails \/ \E w \in waiters : AcquireLock(w)
    BY <2>2, <2>9 DEF WriteFails, AcquireLock
  <2>10. ASSUME NEW c \in Calls, Caller(c) \/ CallerCancels(c) PROVE AskedInv'
    BY <2>2, <2>10 DEF Caller, Gate, Register, ArmCancellation, CancelCallback, Send, SendCancelled,
       TaskEnds, Backstop, CallerCancels
  <2>11. CASE UNCHANGED vars
    BY <2>2, <2>11 DEF vars
  <2> QED
    BY <2>3, <2>4, <2>5, <2>6, <2>7, <2>8, <2>9, <2>10, <2>11 DEF Next, RunLoop, Write
<1> QED
  BY <1>1, <1>2, LinkCorrect, ValuesCorrect, RequestCorrect, CallCorrect, PTL DEF Spec

(* The refinement: steps that move one caller, or what the plugin has of   *)
(* one call.                                                               *)

LEMMA CallerStages ==
  /\ \A t : CallerAt("idle", t) = "idle"
  /\ \A t : \A p \in {"gated", "registered", "armed", "sending"} : CallerAt(p, t) = "asking"
  /\ CallerAt("waiting", "open") = "waiting" /\ CallerAt("waiting", "ended") = "over"
  /\ CallerAt("done", "none") = "notSent"
  /\ \A t : t # "none" => CallerAt("done", t) = "over"
BY DEF CallerAt

LEMMA OnlyWaitingWait ==
  ASSUME NEW c \in Calls, CallerOf(c) = "waiting"
  PROVE  Waiting(c)
BY DEF CallerOf, CallerAt, Waiting

LEMMA CallersStand ==
  ASSUME NEW c \in Calls, pc'[c] = pc[c], task'[c] = task[c]
  PROVE  CallerOf(c)' = CallerOf(c)
BY DEF CallerOf

LEMMA PluginStands ==
  ASSUME UNCHANGED <<wire, serving>>
  PROVE  \A c \in Calls : PluginOf(c)' = PluginOf(c)
BY DEF PluginOf, Asks

LEMMA PromiseStutters ==
  ASSUME UNCHANGED stream, \A c \in Calls : CallerOf(c)' = CallerOf(c),
         \A c \in Calls : PluginOf(c)' = PluginOf(c)
  PROVE  UNCHANGED Promise!sidecarVars
BY DEF Promise!sidecarVars

LEMMA OneCallerMoves ==
  ASSUME NEW c \in Calls, NEW s, CallerOf(c)' = s,
         \A d \in Calls \ {c} : CallerOf(d)' = CallerOf(d)
  PROVE  [d \in Calls |-> CallerOf(d)]' = [[d \in Calls |-> CallerOf(d)] EXCEPT ![c] = s]
OBVIOUS

LEMMA OnePluginMoves ==
  ASSUME NEW c \in Calls, NEW s, PluginOf(c)' = s,
         \A d \in Calls \ {c} : PluginOf(d)' = PluginOf(d)
  PROVE  [d \in Calls |-> PluginOf(d)]' = [[d \in Calls |-> PluginOf(d)] EXCEPT ![c] = s]
OBVIOUS

(* A caller's own step: it begins, is refused, gives up or stands.         *)
LEMMA CallerMoves ==
  ASSUME UNCHANGED stream, \A d \in Calls : PluginOf(d)' = PluginOf(d), NEW c \in Calls,
         \A d \in Calls \ {c} : pc'[d] = pc[d] /\ task'[d] = task[d],
         \/ CallerOf(c)' = CallerOf(c)
         \/ CallerOf(c) = "idle" /\ stream # 0 /\ CallerOf(c)' = "asking"
         \/ CallerOf(c) = "idle" /\ CallerOf(c)' = "notSent"
         \/ CallerOf(c) \in {"asking", "waiting"} /\ CallerOf(c)' = "over"
  PROVE  [Promise!Next]_(Promise!sidecarVars)
<1>1. \A d \in Calls \ {c} : CallerOf(d)' = CallerOf(d)
  BY CallersStand
<1>2. \A d \in Calls : PluginOf(d)' = PluginOf(d)
  OBVIOUS
<1>3. CASE CallerOf(c)' = CallerOf(c)
  BY <1>1, <1>2, <1>3, PromiseStutters
<1>4. CASE CallerOf(c) = "idle" /\ stream # 0 /\ CallerOf(c)' = "asking"
  <2>1. Promise!Begin(c)
    BY <1>1, <1>2, <1>4, OneCallerMoves DEF Promise!Begin
  <2> QED
    BY <2>1 DEF Promise!Next
<1>5. CASE CallerOf(c) = "idle" /\ CallerOf(c)' = "notSent"
  <2>1. Promise!Refuse(c)
    BY <1>1, <1>2, <1>5, OneCallerMoves DEF Promise!Refuse
  <2> QED
    BY <2>1 DEF Promise!Next
<1>6. CASE CallerOf(c) \in {"asking", "waiting"} /\ CallerOf(c)' = "over"
  <2>1. Promise!GiveUp(c)
    BY <1>1, <1>2, <1>6 DEF Promise!GiveUp
  <2> QED
    BY <2>1 DEF Promise!Next
<1> QED
  BY <1>3, <1>4, <1>5, <1>6

LEMMA CallerKeepsPromise ==
  ASSUME LinkInv, ValuesOK, CallInv, RequestInv, NEW c \in Calls, Caller(c)
  PROVE  [Promise!Next]_(Promise!sidecarVars)
<1> USE DEF loopVars, pluginVars
<1>1. UNCHANGED stream /\ \A d \in Calls : PluginOf(d)' = PluginOf(d)
  <2>1. UNCHANGED <<stream, wire, serving>>
    BY DEF Caller, Gate, Register, ArmCancellation, CancelCallback, Send, SendCancelled, TaskEnds, Backstop
  <2> QED
    BY <2>1, PluginStands
<1>2. \A d \in Calls \ {c} : pc'[d] = pc[d] /\ task'[d] = task[d]
  BY DEF Caller, Gate, Register, ArmCancellation, CancelCallback, CancelAndFail, Send, SendCancelled,
     TaskEnds, Backstop, Complete, Return, ValuesOK
<1>3. CASE Gate(c)
  <2>1. pc[c] = "idle" /\ task'[c] = "none"
    BY <1>3 DEF Gate, CallInv
  <2>2. (pc'[c] = "gated" /\ stream # 0) \/ pc'[c] = "done"
    BY <1>3 DEF Gate, Return, ValuesOK
  <2>3. CallerOf(c) = "idle"
    BY <2>1, CallerStages DEF CallerOf
  <2>4. (CallerOf(c)' = "asking" /\ stream # 0) \/ CallerOf(c)' = "notSent"
    BY <2>1, <2>2, CallerStages DEF CallerOf
  <2> QED
    BY <1>1, <1>2, <2>3, <2>4, CallerMoves
<1>4. CASE Register(c) \/ ArmCancellation(c)
  <2>1. /\ pc[c] \in {"gated", "registered"}
        /\ pc'[c] \in {"registered", "armed"}
    BY <1>4 DEF Register, ArmCancellation, ValuesOK
  <2>2. CallerOf(c) = "asking" /\ CallerOf(c)' = "asking"
    BY <2>1, CallerStages DEF CallerOf
  <2> QED
    BY <1>1, <1>2, <2>2, CallerMoves
<1>5. CASE CancelCallback(c)
  <2>1. pc'[c] = pc[c] /\ task[c] # "none" /\ task'[c] \in {task[c], "ended"}
    BY <1>5 DEF CancelCallback, CancelAndFail, Complete, CallInv, ValuesOK
  <2>2. pc[c] \in {"armed", "sending", "waiting"} /\ task[c] \in {"open", "ended"}
    BY <1>5, <2>1 DEF CancelCallback, ValuesOK
  <2>3. CallerOf(c)' = CallerOf(c) \/ (CallerOf(c) = "waiting" /\ CallerOf(c)' = "over")
    BY <2>1, <2>2, CallerStages DEF CallerOf
  <2> QED
    BY <1>1, <1>2, <2>3, CallerMoves
<1>6. CASE Send(c) \/ SendCancelled(c)
  <2>1. pc[c] \in {"armed", "sending"} /\ task[c] # "none" /\ task'[c] \in {task[c], "ended"}
    <3>1. SendCancelled(c) => pc[c] = "sending"
      BY DEF SendCancelled, RequestInv
    <3> QED
      BY <1>6, <3>1 DEF Send, SendCancelled, Complete, CallInv, ValuesOK
  <2>2. pc'[c] \in {"sending", "done"}
    BY <1>6 DEF Send, SendCancelled, Return, ValuesOK
  <2>3. CallerOf(c) = "asking"
    BY <2>1, CallerStages DEF CallerOf
  <2>4. CallerOf(c)' \in {"asking", "over"}
    BY <2>1, <2>2, CallerStages DEF CallerOf
  <2> QED
    BY <1>1, <1>2, <2>3, <2>4, CallerMoves
<1>7. CASE TaskEnds(c) \/ Backstop(c)
  <2>1. pc[c] = "waiting" /\ pc'[c] = "done" /\ task[c] \in {"open", "ended"}
    BY <1>7 DEF TaskEnds, Backstop, Return, CallInv, ValuesOK
  <2>2. task'[c] \in {task[c], "ended"}
    BY <1>7 DEF TaskEnds, Backstop, Complete, ValuesOK
  <2>3. CallerOf(c) \in {"waiting", "over"} /\ CallerOf(c)' = "over"
    BY <2>1, <2>2, CallerStages DEF CallerOf
  <2> QED
    BY <1>1, <1>2, <2>3, CallerMoves
<1> QED
  BY <1>3, <1>4, <1>5, <1>6, <1>7 DEF Caller

(* A frame that is no whole request asks nothing of the plugin; a whole    *)
(* one asks for its call.                                                  *)
LEMMA FrameAsks ==
  ASSUME LinkInv, ValuesOK, writer # NoWrite, NEW whole \in BOOLEAN,
         wire' = Append(wire, Frame(whole)), serving' = serving
  PROVE  \A d \in Calls :
           IF whole /\ writer.message = Request(d)
             THEN d \notin serving => PluginOf(d)' = "coming"
             ELSE PluginOf(d)' = PluginOf(d)
<1>1. wire \in Seq(Frames) /\ Frame(whole) \in Frames
  BY DEF Frame, Frames, ValuesOK, LinkInv, Writes
<1> PICK n \in Nat : n = Len(wire)
  BY <1>1, LenProperties
<1>2. /\ Len(wire') = n + 1
      /\ \A k \in 1..n : wire'[k] = wire[k]
      /\ wire'[n + 1] = Frame(whole) /\ wire' \in Seq(Frames)
  BY <1>1, AppendProperties
<1>3. DOMAIN wire = 1..n /\ DOMAIN wire' = 1..n + 1
  BY <1>1, <1>2
<1>4. \A k \in 1..n + 1 : k \in 1..n \/ k = n + 1
  OBVIOUS
<1>5. n + 1 \in 1..n + 1 /\ 1..n \subseteq 1..n + 1
  OBVIOUS
<1>6. \A d \in Calls, k \in 1..n : Asks(k, d)' <=> Asks(k, d)
  BY <1>2 DEF Asks
<1>7. \A d \in Calls : Asks(n + 1, d)' <=> whole /\ writer.message = Request(d)
  BY <1>2 DEF Asks, Frame
<1>8. ASSUME NEW d \in Calls, whole, writer.message = Request(d), d \notin serving
      PROVE  PluginOf(d)' = "coming"
  <2>1. Asks(n + 1, d)'
    BY <1>7, <1>8
  <2> QED
    BY <1>3, <1>5, <1>8, <2>1 DEF PluginOf
<1>9. ASSUME NEW d \in Calls, ~(whole /\ writer.message = Request(d))
      PROVE  PluginOf(d)' = PluginOf(d)
  <2>1. (\E k \in DOMAIN wire' : Asks(k, d)') <=> \E k \in DOMAIN wire : Asks(k, d)
    BY <1>3, <1>4, <1>5, <1>6, <1>7, <1>9
  <2> QED
    BY <2>1 DEF PluginOf
<1> QED
  BY <1>8, <1>9

LEMMA WriteKeepsPromise ==
  ASSUME LinkInv, ValuesOK, CallInv, RequestInv, AskedInv, WriteFrame \/ WriteFails \/ WriteCancelled
  PROVE  [Promise!Next]_(Promise!sidecarVars)
<1>1. writer # NoWrite /\ serving' = serving /\ UNCHANGED stream
  BY DEF WriteFrame, WriteFails, WriteCancelled, pluginVars, loopVars
<1>2. CASE WriteFrame
  <2>1. wire' = Append(wire, Frame(TRUE)) /\ stream # 0
    BY <1>2 DEF WriteFrame, ValuesOK
  <2>2. CASE writer.message.kind = "request"
    <3>1. PICK c \in Calls : writer.message = Request(c) /\ writer.message.call = c
      BY <1>1, <2>2, WriterCalls
    <3>2. pc[c] = "sending" /\ task[c] \in {"open", "ended"}
      BY <1>1, <3>1 DEF RequestInv, CallInv, ValuesOK
    <3>3. pc' = [pc EXCEPT ![c] = "waiting"] /\ task' = task
      BY <1>2, <2>2, <3>1 DEF WriteFrame, Resume
    <3>4. CallerOf(c) = "asking"
      BY <3>2, CallerStages DEF CallerOf
    <3>5. CallerOf(c)' \in {"waiting", "over"}
      BY <3>1, <3>2, <3>3, CallerStages DEF CallerOf, ValuesOK
    <3>6. \A d \in Calls \ {c} : CallerOf(d)' = CallerOf(d)
      BY <3>3, CallersStand DEF ValuesOK
    <3>7. \A d \in Calls \ {c} : PluginOf(d)' = PluginOf(d)
      BY <1>1, <2>1, <3>1, FrameAsks, MessageKinds
    <3>8. c \notin serving /\ \A n \in DOMAIN wire : ~Asks(n, c)
      BY <3>1, <3>2 DEF AskedInv, Asked, Asks, ValuesOK
    <3>9. PluginOf(c) = "none" /\ PluginOf(c)' = "coming"
      BY <1>1, <2>1, <3>1, <3>8, FrameAsks DEF PluginOf
    <3>10. Promise!Ask(c)
      <4>1. [d \in Calls |-> CallerOf(d)]' = [[d \in Calls |-> CallerOf(d)] EXCEPT ![c] = CallerOf(c)']
        BY <3>1, <3>6, OneCallerMoves
      <4>2. [d \in Calls |-> PluginOf(d)]' = [[d \in Calls |-> PluginOf(d)] EXCEPT ![c] = "coming"]
        BY <3>1, <3>7, <3>9, OnePluginMoves
      <4> QED
        BY <1>1, <2>1, <3>1, <3>4, <3>5, <3>9, <4>1, <4>2 DEF Promise!Ask
    <3> QED
      BY <3>1, <3>10 DEF Promise!Next
  <2>3. CASE writer.message.kind # "request"
    <3>1. \A d \in Calls : PluginOf(d)' = PluginOf(d)
      BY <1>1, <2>1, <2>3, FrameAsks, MessageKinds
    <3>2. \A d \in Calls : CallerOf(d)' = CallerOf(d)
      BY <1>2, <2>3, CallersStand DEF WriteFrame, Resume
    <3> QED
      BY <1>1, <3>1, <3>2, PromiseStutters
  <2> QED
    BY <2>2, <2>3
<1>3. CASE WriteFails \/ WriteCancelled
  <2>1. \A d \in Calls : PluginOf(d)' = PluginOf(d)
    <3>1. wire' = wire \/ wire' = Append(wire, Frame(FALSE))
      BY <1>3 DEF WriteFails, WriteCancelled, pluginVars
    <3> QED
      BY <1>1, <3>1, FrameAsks, PluginStands
  <2>2. CASE writer.message.kind = "request"
    <3>1. PICK c \in Calls : writer.message = Request(c) /\ writer.message.call = c
      BY <1>1, <2>2, WriterCalls
    <3>2. pc[c] = "sending" /\ task[c] # "none"
      BY <1>1, <3>1 DEF RequestInv, CallInv
    <3>3. pc' = [pc EXCEPT ![c] = "done"]
      BY <1>3, <2>2, <3>1 DEF WriteFails, WriteCancelled, Resume, Return
    <3>4. task'[c] # "none" /\ \A d \in Calls \ {c} : task'[d] = task[d]
      BY <1>3, <2>2, <3>1, <3>2 DEF WriteFails, WriteCancelled, Resume, Complete, ValuesOK
    <3>5. pc'[c] = "done" /\ \A d \in Calls \ {c} : pc'[d] = pc[d]
      BY <3>1, <3>3 DEF ValuesOK
    <3>6. CallerOf(c) = "asking" /\ CallerOf(c)' = "over"
      BY <3>2, <3>4, <3>5, CallerStages DEF CallerOf
    <3> QED
      BY <1>1, <2>1, <3>1, <3>4, <3>5, <3>6, CallerMoves
  <2>3. CASE writer.message.kind # "request"
    <3>1. \A d \in Calls : CallerOf(d)' = CallerOf(d)
      BY <1>3, <2>3, CallersStand DEF WriteFails, WriteCancelled, Resume
    <3> QED
      BY <1>1, <2>1, <3>1, PromiseStutters
  <2> QED
    BY <2>2, <2>3
<1> QED
  BY <1>2, <1>3

(* The plugin hears of the call whose line it reads, and of no other.      *)
LEMMA PluginHears ==
  ASSUME LinkInv, ValuesOK, AskedInv, PluginReads
  PROVE  [Promise!Next]_(Promise!sidecarVars)
<1>1. PICK n \in 1..Len(wire) :
        /\ Len(wire') = Len(wire) - n
        /\ \A k \in 1..Len(wire') : k + n \in 1..Len(wire) /\ wire'[k] = wire[k + n]
        /\ wire[n].whole /\ \A j \in 1..n-1 : ~wire[j].whole
        /\ \/ serving' = serving
           \/ \E c \in Calls : wire[n].message = Request(c) /\ serving' = serving \cup {c}
  BY ReadTakes
<1>2. n \in Nat /\ Len(wire) \in Nat /\ DOMAIN wire = 1..Len(wire)
  BY <1>1 DEF ValuesOK
<1>3. DOMAIN wire' = 1..Len(wire')
  <2>1. wire' \in Seq(Frames)
    <3>1. PICK m \in DOMAIN wire : wire' = SubSeq(wire, m + 1, Len(wire))
      BY DEF PluginReads
    <3>2. \A k \in m + 1..Len(wire) : wire[k] \in Frames
      BY <1>2, <3>1 DEF ValuesOK
    <3> QED
      BY <1>2, <3>1, <3>2, SubSeqProperties
  <2> QED
    BY <2>1
<1>4. UNCHANGED stream /\ stream # 0 /\ \A d \in Calls : CallerOf(d)' = CallerOf(d)
  BY CallersStand DEF PluginReads, loopVars, callVars, ValuesOK
<1>5. \A d \in Calls, k \in 1..Len(wire') : Asks(k, d)' <=> Asks(k + n, d)
  BY <1>1 DEF Asks
<1>6. \A d \in Calls, k \in 1..Len(wire) : Asks(k, d) => k = n \/ k - n \in 1..Len(wire')
  BY <1>1, <1>2 DEF Asks
<1>7. ASSUME NEW d \in Calls, ~Asks(n, d) PROVE PluginOf(d)' = PluginOf(d)
  <2>1. (\E k \in 1..Len(wire') : Asks(k, d)') <=> \E k \in 1..Len(wire) : Asks(k, d)
    <3>1. ASSUME NEW k \in 1..Len(wire), Asks(k, d) PROVE \E j \in 1..Len(wire') : Asks(j, d)'
      <4>1. k - n \in 1..Len(wire') /\ (k - n) + n = k
        BY <1>2, <1>6, <1>7, <3>1
      <4> QED
        BY <1>5, <3>1, <4>1
    <3>2. ASSUME NEW k \in 1..Len(wire'), Asks(k, d)' PROVE \E j \in 1..Len(wire) : Asks(j, d)
      BY <1>1, <1>5, <3>2
    <3> QED
      BY <3>1, <3>2
  <2>2. d \in serving' <=> d \in serving
    BY <1>1, <1>7 DEF Asks
  <2> QED
    BY <1>2, <1>3, <2>1, <2>2 DEF PluginOf
<1>8. CASE \A d \in Calls : ~Asks(n, d)
  BY <1>4, <1>7, <1>8, PromiseStutters
<1>9. ASSUME NEW c \in Calls, Asks(n, c) PROVE [Promise!Next]_(Promise!sidecarVars)
  <2>1. \A d \in Calls \ {c} : PluginOf(d)' = PluginOf(d)
    BY <1>7, <1>9, MessageKinds DEF Asks
  <2>2. PluginOf(c) = "coming"
    BY <1>2, <1>9 DEF PluginOf, AskedInv
  <2>3. \A k \in 1..Len(wire') : ~Asks(k, c)'
    <3>1. \A k \in 1..Len(wire') : k \in Nat /\ k >= 1 /\ k + n # n
      BY <1>1, <1>2
    <3> QED
      BY <1>1, <1>5, <1>9, <3>1 DEF AskedInv
  <2>4. PluginOf(c)' \in {"serving", "none"}
    BY <1>3, <2>3 DEF PluginOf
  <2>5. [d \in Calls |-> PluginOf(d)]' = [[d \in Calls |-> PluginOf(d)] EXCEPT ![c] = PluginOf(c)']
    BY <2>1, OnePluginMoves
  <2>6. Promise!Hear(c)
    BY <1>4, <2>2, <2>4, <2>5 DEF Promise!Hear
  <2> QED
    BY <2>6 DEF Promise!Next
<1> QED
  BY <1>8, <1>9

(* An answer ends its own call.                                            *)
LEMMA AnswerEnds ==
  ASSUME LinkInv, ValuesOK, CallInv, AskedInv, NEW c \in Calls, ReadResponse(c)
  PROVE  [Promise!Next]_(Promise!sidecarVars)
<1>1. /\ c \in serving /\ serving' = serving \ {c} /\ wire' = wire
      /\ UNCHANGED stream /\ stream # 0 /\ pc' = pc
      /\ task' = [d \in Calls |-> IF d \in {c} \cap pending THEN "ended" ELSE task[d]]
  BY DEF ReadResponse, Complete, LinkInv, loopVars
<1>2. Asked(c) /\ \A n \in DOMAIN wire : ~Asks(n, c)
  BY <1>1 DEF AskedInv, ValuesOK
<1>3. task'[c] = "ended" /\ \A d \in Calls \ {c} : task'[d] = task[d]
  BY <1>1, <1>2 DEF CallInv, Asked, ValuesOK
<1>4. CallerOf(c)' = "over"
  BY <1>1, <1>2, <1>3, CallerStages DEF CallerOf, Asked
<1>5. \A d \in Calls \ {c} : CallerOf(d)' = CallerOf(d)
  BY <1>1, <1>3, CallersStand
<1>6. PluginOf(c) = "serving" /\ PluginOf(c)' = "none"
  BY <1>1, <1>2 DEF PluginOf, Asks
<1>7. \A d \in Calls \ {c} : PluginOf(d)' = PluginOf(d)
  BY <1>1 DEF PluginOf, Asks
<1>8. Promise!Answer(c)
  <2>1. [d \in Calls |-> CallerOf(d)]' = [[d \in Calls |-> CallerOf(d)] EXCEPT ![c] = "over"]
    BY <1>4, <1>5, OneCallerMoves
  <2>2. [d \in Calls |-> PluginOf(d)]' = [[d \in Calls |-> PluginOf(d)] EXCEPT ![c] = "none"]
    BY <1>6, <1>7, OnePluginMoves
  <2> QED
    BY <1>1, <1>6, <2>1, <2>2 DEF Promise!Answer
<1> QED
  BY <1>8 DEF Promise!Next

(* A link begins with no call on it; it ends before its calls are failed.  *)
LEMMA DialConnects ==
  ASSUME LinkInv, ValuesOK, OrphanInv, Dial
  PROVE  [Promise!Next]_(Promise!sidecarVars)
<1>1. stream = 0 /\ stream' # 0
  <2>1. dials \in Nat /\ stream' = dials + 1 /\ loop = "backoff"
    BY MaxDialsAssumption DEF Dial, LinkInv
  <2> QED
    BY <2>1 DEF LinkInv
<1>2. \A d \in Calls : CallerOf(d)' = CallerOf(d)
  BY CallersStand DEF Dial, callVars
<1>3. \A d \in Calls : CallerOf(d) # "waiting"
  BY OnlyWaitingWait DEF Dial, OrphanInv
<1>4. \A d \in Calls : PluginOf(d)' = "none"
  <2>1. DOMAIN wire' = {} /\ serving' = {}
    BY DEF Dial
  <2> QED
    BY <2>1 DEF PluginOf
<1>5. Promise!Connect
  BY <1>1, <1>2, <1>3, <1>4 DEF Promise!Connect
<1> QED
  BY <1>5 DEF Promise!Next

LEMMA CleanUpFailsAll ==
  ASSUME LinkInv, ValuesOK, CallInv, CleanUp
  PROVE  [Promise!Next]_(Promise!sidecarVars)
<1>1. pc' = pc /\ \A d \in Calls : PluginOf(d)' = PluginOf(d)
  BY PluginStands DEF CleanUp, pluginVars
<1>2. CASE loop = "close"
  <2>1. stream' = 0 /\ \A d \in Calls : CallerOf(d)' = CallerOf(d)
    BY <1>1, <1>2, CallersStand DEF CleanUp, Finally, CloseConnection
  <2>2. CASE stream = 0
    BY <1>1, <2>1, <2>2, PromiseStutters
  <2>3. CASE stream # 0
    <3>1. Promise!Drop
      BY <1>1, <2>1, <2>3 DEF Promise!Drop
    <3> QED
      BY <3>1 DEF Promise!Next
  <2> QED
    BY <2>2, <2>3
<1>3. CASE loop = "failAll"
  <2>1. stream = 0 /\ stream' = 0
    BY <1>3 DEF CleanUp, Finally, LinkInv
  <2>2. \A d \in Calls : task'[d] = IF task[d] = "open" THEN "ended" ELSE task[d]
    BY <1>3 DEF CleanUp, Finally, FailAll, Complete, CallInv
  <2>3. \A d \in Calls : CallerOf(d)' = IF CallerOf(d) = "waiting" THEN "over" ELSE CallerOf(d)
    <3> SUFFICES ASSUME NEW d \in Calls
                 PROVE  CallerOf(d)' = IF CallerOf(d) = "waiting" THEN "over" ELSE CallerOf(d)
      OBVIOUS
    <3>1. CASE task[d] # "open"
      <4>1. CallerOf(d)' = CallerOf(d)
        BY <1>1, <2>2, <3>1, CallersStand
      <4>2. CallerOf(d) # "waiting"
        BY <3>1, OnlyWaitingWait DEF Waiting
      <4> QED
        BY <4>1, <4>2
    <3>2. CASE task[d] = "open" /\ pc[d] \in {"waiting", "done"}
      <4>1. CallerOf(d)' = "over"
        BY <1>1, <2>2, <3>2, CallerStages DEF CallerOf
      <4>2. CallerOf(d) \in {"waiting", "over"}
        BY <3>2, CallerStages DEF CallerOf
      <4> QED
        BY <4>1, <4>2
    <3>3. CASE pc[d] \in {"gated", "registered", "armed", "sending"}
      <4>1. CallerOf(d)' = "asking" /\ CallerOf(d) = "asking"
        BY <1>1, <3>3, CallerStages DEF CallerOf
      <4> QED
        BY <4>1
    <3>4. CASE pc[d] = "idle"
      <4>1. CallerOf(d)' = "idle" /\ CallerOf(d) = "idle"
        BY <1>1, <3>4, CallerStages DEF CallerOf
      <4> QED
        BY <4>1
    <3> QED
      BY <3>1, <3>2, <3>3, <3>4 DEF ValuesOK
  <2>4. Promise!FailAll
    BY <1>1, <2>1, <2>3 DEF Promise!FailAll
  <2> QED
    BY <2>4 DEF Promise!Next
<1> QED
  BY <1>2, <1>3 DEF CleanUp, Finally

LEMMA PromiseInitially == Init => Promise!Init
<1> SUFFICES ASSUME Init PROVE Promise!Init
  OBVIOUS
<1>1. \A c \in Calls : CallerOf(c) = "idle"
  BY CallerStages DEF Init, CallerOf
<1>2. \A c \in Calls : PluginOf(c) = "none"
  BY DEF Init, PluginOf
<1> QED
  BY <1>1, <1>2 DEF Init, Promise!Init

LEMMA StepsKeepPromise ==
  ASSUME LinkInv, ValuesOK, CallInv, RequestInv, AskedInv, OrphanInv, [Next]_vars
  PROVE  [Promise!Next]_(Promise!sidecarVars)
<1>1. ASSUME UNCHANGED <<stream, pluginVars, pc, task>>
      PROVE  [Promise!Next]_(Promise!sidecarVars)
  BY <1>1, CallersStand, PluginStands, PromiseStutters DEF pluginVars
<1>2. CASE DialFails \/ SendHandshake \/ AcceptAck \/ LinkDrops \/ ExitLoop
  BY <1>1, <1>2 DEF DialFails, SendHandshake, AcceptAck, LinkDrops, ExitLoop, callVars
<1>3. CASE Dial
  BY <1>3, DialConnects
<1>4. CASE CleanUp
  BY <1>4, CleanUpFailsAll
<1>5. CASE WriteFrame \/ WriteFails \/ WriteCancelled
  BY <1>5, WriteKeepsPromise
<1>6. CASE \E w \in waiters : AcquireLock(w)
  BY <1>1, <1>6 DEF AcquireLock, loopVars, callVars
<1>7. CASE PluginReads
  BY <1>7, PluginHears
<1>8. ASSUME NEW c \in Calls, Caller(c) PROVE [Promise!Next]_(Promise!sidecarVars)
  BY <1>8, CallerKeepsPromise
<1>9. ASSUME NEW c \in Calls, CallerCancels(c) PROVE [Promise!Next]_(Promise!sidecarVars)
  BY <1>1, <1>9 DEF CallerCancels, loopVars
<1>10. ASSUME NEW c \in Calls, ReadResponse(c) PROVE [Promise!Next]_(Promise!sidecarVars)
  BY <1>10, AnswerEnds
<1>11. CASE UNCHANGED vars
  BY <1>1, <1>11 DEF vars, loopVars, callVars
<1> QED
  BY <1>2, <1>3, <1>4, <1>5, <1>6, <1>7, <1>8, <1>9, <1>10, <1>11 DEF Next, RunLoop, Write

(***************************************************************************)
(* What is reported as not sent was not, so that it is safe to send again  *)
(* (IpcDisconnectedException.NotSent).                                     *)
(***************************************************************************)
THEOREM RefusedIsUnheard == Spec => []NotSentIsUnheard
<1>1. ValuesOK /\ AskedInv => NotSentIsUnheard
  BY DEF ValuesOK, AskedInv, Asked, NotSentIsUnheard
<1> QED
  BY <1>1, ValuesCorrect, AskedCorrect, PTL

(***************************************************************************)
(* IpcClient keeps what the sidecar promises of a call: it is asked at     *)
(* most once, never waits across two links, and is answered by its own.    *)
(***************************************************************************)
THEOREM CallsAreKept == Spec => KeepsPromise
<1>1. LinkInv /\ ValuesOK /\ CallInv /\ RequestInv /\ AskedInv /\ OrphanInv /\ [Next]_vars
        => [Promise!Next]_(Promise!sidecarVars)
  BY StepsKeepPromise
<1> QED
  BY <1>1, PromiseInitially, LinkCorrect, ValuesCorrect, CallCorrect, RequestCorrect, AskedCorrect,
     OrphanCorrect, PTL DEF Spec, KeepsPromise, Promise!Spec

============================================================================
