-------------------------- MODULE BridgeLinkProofs --------------------------
(***************************************************************************)
(* The safety properties of BridgeLink, for any number of dials, edits and *)
(* lines.  The invariants build on one another: the types, then which      *)
(* sockets are alive, then whose handshake opened the gate.  Each is       *)
(* proved one action at a time.                                            *)
(***************************************************************************)
EXTENDS BridgeLink, SequenceTheorems, TLAPS

(* The four flags are Booleans.  Stated apart from the other types: the    *)
(* provers treat Booleans and numbers by different means.                  *)
FlagsOK ==
  handshakeOk \in BOOLEAN /\ hbStop \in BOOLEAN /\ quiet \in BOOLEAN /\ mute \in BOOLEAN

LEMMA FlagsCorrect == Spec => []FlagsOK
<1> USE DEF FlagsOK, slot, socks, reader, time, game, hist
<1>1. Init => FlagsOK
  BY DEF Init
<1>2. FlagsOK /\ [Next]_vars => FlagsOK'
  <2> SUFFICES ASSUME FlagsOK, [Next]_vars PROVE FlagsOK'
    OBVIOUS
  <2>1. CASE HandleConnectionAccepted
    BY <2>1 DEF HandleConnectionAccepted, ParkClient
  <2>2. CASE StampAccepted
    BY <2>2 DEF StampAccepted
  <2>3. CASE DrainPendingDestroy
    BY <2>3 DEF DrainPendingDestroy
  <2>4. CASE SnapshotConnection
    BY <2>4 DEF SnapshotConnection
  <2>5. CASE PreHandshakeDeadline
    BY <2>5 DEF PreHandshakeDeadline
  <2>6. CASE WithinDeadline
    BY <2>6 DEF WithinDeadline
  <2>7. CASE Recv
    BY <2>7 DEF Recv
  <2>8. CASE RecheckGeneration
    BY <2>8 DEF RecheckGeneration
  <2>9. CASE ReaderClose
    BY <2>9 DEF ReaderClose
  <2>10. CASE ReaderCloseLocked
    BY <2>10 DEF ReaderCloseLocked, CloseActiveLocked, ParkClient
  <2>11. CASE LinesDone
    BY <2>11 DEF LinesDone
  <2>12. CASE HandleRequest
    BY <2>12 DEF HandleRequest, NextLine
  <2>13. CASE RejectHandshake
    BY <2>13 DEF RejectHandshake, NextLine
  <2>14. CASE AcceptHandshake
    BY <2>14 DEF AcceptHandshake, NextLine
  <2>15. CASE BuildHandshakeAck
    BY <2>15 DEF BuildHandshakeAck
  <2>16. CASE SendHandshakeAck
    BY <2>16 DEF SendHandshakeAck, SendFramed, DropConnectionLocked, ParkClient
  <2>17. CASE SendManifestsLocked
    BY <2>17 DEF SendManifestsLocked, SendFramed, DropConnectionLocked, ParkClient
  <2>18. CASE BuildConfig
    BY <2>18 DEF BuildConfig
  <2>19. CASE SendConfigLocked
    BY <2>19 DEF SendConfigLocked, SendFramed, DropConnectionLocked, ParkClient
  <2>20. CASE RetireHeartbeat
    BY <2>20 DEF RetireHeartbeat
  <2>21. CASE StartHeartbeat
    BY <2>21 DEF StartHeartbeat
  <2>22. CASE HeartbeatExit
    BY <2>22 DEF HeartbeatExit
  <2>23. CASE HeartbeatDrop
    BY <2>23 DEF HeartbeatDrop, HeartbeatLooks
  <2>24. CASE HeartbeatCloseLocked
    BY <2>24 DEF HeartbeatCloseLocked, CloseActiveLocked, ParkClient
  <2>25. CASE HeartbeatPing
    BY <2>25 DEF HeartbeatPing, HeartbeatLooks, SendFramed, DropConnectionLocked, ParkClient
  <2>26. CASE SetEffectiveConfig
    BY <2>26 DEF SetEffectiveConfig
  <2>27. CASE PushConfigCheck
    BY <2>27 DEF PushConfigCheck
  <2>28. CASE PushConfig
    BY <2>28 DEF PushConfig, SendFramed, DropConnectionLocked, ParkClient
  <2>29. CASE SendMessage
    BY <2>29 DEF SendMessage, SendFramed, DropConnectionLocked, ParkClient
  <2>30. CASE BeginShutdown
    BY <2>30 DEF BeginShutdown, ShutdownStep
  <2>31. CASE SendBye
    BY <2>31 DEF SendBye, ShutdownStep, SendFramed, DropConnectionLocked, ParkClient
  <2>32. CASE ShutdownStopHeartbeat
    BY <2>32 DEF ShutdownStopHeartbeat, ShutdownStep
  <2>33. CASE ShutdownJoinHeartbeat
    BY <2>33 DEF ShutdownJoinHeartbeat, ShutdownStep
  <2>34. CASE ShutdownStopAccept
    BY <2>34 DEF ShutdownStopAccept, ShutdownStep
  <2>35. CASE ShutdownJoinReader
    BY <2>35 DEF ShutdownJoinReader, ShutdownStep
  <2>36. CASE ShutdownClose
    BY <2>36 DEF ShutdownClose, ShutdownStep, CloseActiveLocked, ParkClient
  <2>37. CASE ShutdownDrain
    BY <2>37 DEF ShutdownDrain, ShutdownStep
  <2>38. CASE FifteenSecondsSilent
    BY <2>38 DEF FifteenSecondsSilent
  <2>39. CASE PeerGoesMute
    BY <2>39 DEF PeerGoesMute
  <2>40. CASE UNCHANGED vars
    BY <2>40 DEF vars
  <2>. QED
    BY <2>1, <2>2, <2>3, <2>4, <2>5, <2>6, <2>7, <2>8, <2>9, <2>10,
       <2>11, <2>12, <2>13, <2>14, <2>15, <2>16, <2>17, <2>18, <2>19,
       <2>20, <2>21, <2>22, <2>23, <2>24, <2>25, <2>26, <2>27, <2>28,
       <2>29, <2>30, <2>31, <2>32, <2>33, <2>34, <2>35, <2>36, <2>37,
       <2>38, <2>39, <2>40
       DEF Next, Accept, Reader, Heartbeat, ConfigPush, Shutdown
<1>. QED
  BY <1>1, <1>2, PTL DEF Spec

(* What one Recv completes is a sequence of the peer's lines.              *)
LEMMA BatchesAreSequences == Batches \subseteq Seq(LineKinds)
  BY BoundsAssumption DEF Batches

(* Handling a line leaves a sequence of lines.                             *)
LEMMA TailOfLines ==
  ASSUME NEW s \in Seq(LineKinds), s # <<>>
  PROVE  Tail(s) \in Seq(LineKinds)
  BY HeadTailProperties

(* Parking moves a connection, not something else, to the parked sockets.  *)
LEMMA ParkingTypes ==
  ASSUME client \in 0..MaxGen, parked \subseteq Gens, freed \subseteq Gens, ParkClient
  PROVE  parked' \subseteq Gens /\ freed' \subseteq Gens
  BY BoundsAssumption DEF ParkClient, Gens, None

(* The other variables.                                                    *)
ValuesOK ==
  /\ client \in 0..MaxGen /\ gen \in 0..MaxGen
  /\ parked \subseteq Gens /\ freed \subseteq Gens
  /\ acc \in {"idle", "stamp"}
  /\ rpc \in ReaderPcs
  /\ rGen \in 0..MaxGen /\ partial \subseteq 0..MaxGen
  /\ rRes \in {"none", "dead", "whole", "partial"}
  /\ lines \in Seq(LineKinds)
  /\ rCfg \in 0..MaxCfg
  /\ hb \in {"off", "loop", "close"}
  /\ cfg \in 0..MaxCfg /\ wpc \in {"idle", "check", "push"}
  /\ sd \in {"up", "bye", "stopHb", "joinHb", "stopAccept", "joinReader", "close",
             "drain", "done"}
  /\ lastCfg \in 0..MaxCfg
  /\ shook \in 0..MaxGen /\ ran \in 0..MaxGen

LEMMA ValuesCorrect == Spec => []ValuesOK
<1> USE BoundsAssumption DEF ValuesOK, None, slot, socks, reader, time, game, hist,
        ReaderPcs, HandshakePcs, BundlePcs
<1>1. Init => ValuesOK
  BY BoundsAssumption DEF Init
<1>2. ValuesOK /\ [Next]_vars => ValuesOK'
  <2> SUFFICES ASSUME ValuesOK, [Next]_vars PROVE ValuesOK'
    OBVIOUS
  <2>1. CASE HandleConnectionAccepted
    BY <2>1, ParkingTypes DEF HandleConnectionAccepted, Gens
  <2>2. CASE StampAccepted
    BY <2>2 DEF StampAccepted
  <2>3. CASE DrainPendingDestroy
    BY <2>3, ZenonT(30) DEF DrainPendingDestroy, Gens
  <2>4. CASE SnapshotConnection
    BY <2>4 DEF SnapshotConnection, Gens
  <2>5. CASE PreHandshakeDeadline
    BY <2>5 DEF PreHandshakeDeadline
  <2>6. CASE WithinDeadline
    BY <2>6 DEF WithinDeadline
  <2>7. CASE Recv
    BY <2>7, BatchesAreSequences DEF Recv
  <2>8. CASE RecheckGeneration
    <3>1. partial' \in {partial, {}, {rGen}, partial \cup {rGen}}
      BY <2>8 DEF RecheckGeneration
    <3>2. partial' \subseteq 0..MaxGen
      BY <3>1
    <3>3. lines' = <<>> \/ lines' = lines
      BY <2>8, Zenon DEF RecheckGeneration
    <3>4. lines' \in Seq(LineKinds)
      BY <3>3, EmptySeq
    <3>5. rpc' \in {"top", "close", "lines"} /\ rRes' = "none"
      BY <2>8 DEF RecheckGeneration
    <3>6. UNCHANGED <<slot, socks, acc, rGen, rCfg, hb, hbStop, mute, game, lastCfg, hist>>
      BY <2>8 DEF RecheckGeneration
    <3>. QED
      BY <3>2, <3>4, <3>5, <3>6
  <2>9. CASE ReaderClose
    BY <2>9 DEF ReaderClose
  <2>10. CASE ReaderCloseLocked
    BY <2>10, ParkingTypes DEF ReaderCloseLocked, CloseActiveLocked
  <2>11. CASE LinesDone
    BY <2>11 DEF LinesDone
  <2>12. CASE HandleRequest
    BY <2>12, TailOfLines DEF HandleRequest, NextLine
  <2>13. CASE RejectHandshake
    BY <2>13, TailOfLines DEF RejectHandshake, NextLine
  <2>14. CASE AcceptHandshake
    BY <2>14, TailOfLines DEF AcceptHandshake, NextLine
  <2>15. CASE BuildHandshakeAck
    BY <2>15 DEF BuildHandshakeAck
  <2>16. CASE SendHandshakeAck
    BY <2>16, ParkingTypes DEF SendHandshakeAck, SendFramed, DropConnectionLocked
  <2>17. CASE SendManifestsLocked
    BY <2>17, ParkingTypes DEF SendManifestsLocked, SendFramed, DropConnectionLocked
  <2>18. CASE BuildConfig
    BY <2>18 DEF BuildConfig
  <2>19. CASE SendConfigLocked
    BY <2>19, ParkingTypes DEF SendConfigLocked, SendFramed, DropConnectionLocked
  <2>20. CASE RetireHeartbeat
    BY <2>20 DEF RetireHeartbeat
  <2>21. CASE StartHeartbeat
    BY <2>21 DEF StartHeartbeat
  <2>22. CASE HeartbeatExit
    BY <2>22 DEF HeartbeatExit
  <2>23. CASE HeartbeatDrop
    BY <2>23 DEF HeartbeatDrop
  <2>24. CASE HeartbeatCloseLocked
    BY <2>24, ParkingTypes DEF HeartbeatCloseLocked, CloseActiveLocked
  <2>25. CASE HeartbeatPing
    BY <2>25, ParkingTypes DEF HeartbeatPing, SendFramed, DropConnectionLocked
  <2>26. CASE SetEffectiveConfig
    BY <2>26 DEF SetEffectiveConfig
  <2>27. CASE PushConfigCheck
    BY <2>27 DEF PushConfigCheck
  <2>28. CASE PushConfig
    BY <2>28, ParkingTypes DEF PushConfig, SendFramed, DropConnectionLocked
  <2>29. CASE SendMessage
    BY <2>29, ParkingTypes DEF SendMessage, SendFramed, DropConnectionLocked
  <2>30. CASE BeginShutdown
    BY <2>30 DEF BeginShutdown, ShutdownStep
  <2>31. CASE SendBye
    BY <2>31, ParkingTypes DEF SendBye, ShutdownStep, SendFramed, DropConnectionLocked
  <2>32. CASE ShutdownStopHeartbeat
    BY <2>32 DEF ShutdownStopHeartbeat, ShutdownStep
  <2>33. CASE ShutdownJoinHeartbeat
    BY <2>33 DEF ShutdownJoinHeartbeat, ShutdownStep
  <2>34. CASE ShutdownStopAccept
    BY <2>34 DEF ShutdownStopAccept, ShutdownStep
  <2>35. CASE ShutdownJoinReader
    BY <2>35 DEF ShutdownJoinReader, ShutdownStep
  <2>36. CASE ShutdownClose
    BY <2>36, ParkingTypes DEF ShutdownClose, ShutdownStep, CloseActiveLocked
  <2>37. CASE ShutdownDrain
    BY <2>37 DEF ShutdownDrain, ShutdownStep, Gens
  <2>38. CASE FifteenSecondsSilent
    BY <2>38 DEF FifteenSecondsSilent
  <2>39. CASE PeerGoesMute
    BY <2>39 DEF PeerGoesMute
  <2>40. CASE UNCHANGED vars
    BY <2>40 DEF vars
  <2>. QED
    BY <2>1, <2>2, <2>3, <2>4, <2>5, <2>6, <2>7, <2>8, <2>9, <2>10,
       <2>11, <2>12, <2>13, <2>14, <2>15, <2>16, <2>17, <2>18, <2>19,
       <2>20, <2>21, <2>22, <2>23, <2>24, <2>25, <2>26, <2>27, <2>28,
       <2>29, <2>30, <2>31, <2>32, <2>33, <2>34, <2>35, <2>36, <2>37,
       <2>38, <2>39, <2>40
       DEF Next, Accept, Reader, Heartbeat, ConfigPush, Shutdown
<1>. QED
  BY <1>1, <1>2, PTL DEF Spec

(* Every variable of the link keeps to its type.                           *)
THEOREM TypeCorrect == Spec => []TypeOK
<1>1. FlagsOK /\ ValuesOK => TypeOK
  BY DEF FlagsOK, ValuesOK, TypeOK
<1>. QED
  BY <1>1, FlagsCorrect, ValuesCorrect, PTL

(* What keeps sockets alive: only the newest connection is in the slot,    *)
(* the reader never runs ahead of it, and Shutdown frees nothing until the *)
(* reader has exited.                                                      *)
OwnershipInv ==
  /\ client \in {None, gen}
  /\ rGen <= gen
  /\ sd \in {"close", "drain", "done"} => rpc = "exited"
  /\ SocketOwnership

(* It is inductive.                                                        *)
LEMMA OwnershipInductive == Spec => []OwnershipInv
<1> USE BoundsAssumption DEF ValuesOK, OwnershipInv, SocketOwnership, Gens,
        slot, socks, reader, time, game, hist, None
<1>1. Init => OwnershipInv
  BY DEF Init
<1>2. ValuesOK /\ OwnershipInv /\ [Next]_vars => OwnershipInv'
  <2> SUFFICES ASSUME ValuesOK, OwnershipInv, [Next]_vars
               PROVE  OwnershipInv'
    OBVIOUS
  <2>1. CASE HandleConnectionAccepted
    BY <2>1 DEF
          HandleConnectionAccepted, ParkClient
  <2>2. CASE StampAccepted
    BY <2>2 DEF StampAccepted
  <2>3. CASE DrainPendingDestroy
    BY <2>3 DEF DrainPendingDestroy
  <2>4. CASE SnapshotConnection
    BY <2>4 DEF SnapshotConnection
  <2>5. CASE PreHandshakeDeadline
    BY <2>5 DEF PreHandshakeDeadline
  <2>6. CASE WithinDeadline
    BY <2>6 DEF WithinDeadline
  <2>7. CASE Recv
    BY <2>7 DEF Recv
  <2>8. CASE RecheckGeneration
    BY <2>8 DEF RecheckGeneration
  <2>9. CASE ReaderClose
    BY <2>9 DEF ReaderClose
  <2>10. CASE ReaderCloseLocked
    BY <2>10 DEF ReaderCloseLocked,
          CloseActiveLocked, ParkClient
  <2>11. CASE LinesDone
    BY <2>11 DEF LinesDone
  <2>12. CASE HandleRequest
    BY <2>12 DEF HandleRequest, NextLine
  <2>13. CASE RejectHandshake
    BY <2>13 DEF RejectHandshake, NextLine
  <2>14. CASE AcceptHandshake
    BY <2>14 DEF AcceptHandshake, NextLine
  <2>15. CASE BuildHandshakeAck
    BY <2>15 DEF BuildHandshakeAck
  <2>16. CASE SendHandshakeAck
    BY <2>16 DEF SendHandshakeAck,
          SendFramed, DropConnectionLocked, ParkClient
  <2>17. CASE SendManifestsLocked
    BY <2>17 DEF SendManifestsLocked,
          SendFramed, DropConnectionLocked, ParkClient
  <2>18. CASE BuildConfig
    BY <2>18 DEF BuildConfig
  <2>19. CASE SendConfigLocked
    BY <2>19 DEF SendConfigLocked,
          SendFramed, DropConnectionLocked, ParkClient
  <2>20. CASE RetireHeartbeat
    BY <2>20 DEF RetireHeartbeat
  <2>21. CASE StartHeartbeat
    BY <2>21 DEF StartHeartbeat
  <2>22. CASE HeartbeatExit
    BY <2>22 DEF HeartbeatExit
  <2>23. CASE HeartbeatDrop
    BY <2>23 DEF HeartbeatDrop, HeartbeatLooks
  <2>24. CASE HeartbeatCloseLocked
    BY <2>24 DEF HeartbeatCloseLocked,
          CloseActiveLocked, ParkClient
  <2>25. CASE HeartbeatPing
    BY <2>25 DEF HeartbeatPing, SendFramed,
          DropConnectionLocked, ParkClient
  <2>26. CASE SetEffectiveConfig
    BY <2>26 DEF SetEffectiveConfig
  <2>27. CASE PushConfigCheck
    BY <2>27 DEF PushConfigCheck
  <2>28. CASE PushConfig
    BY <2>28 DEF PushConfig, SendFramed,
          DropConnectionLocked, ParkClient
  <2>29. CASE SendMessage
    BY <2>29 DEF SendMessage, SendFramed,
          DropConnectionLocked, ParkClient
  <2>30. CASE BeginShutdown
    BY <2>30 DEF BeginShutdown, ShutdownStep
  <2>31. CASE SendBye
    BY <2>31 DEF SendBye, ShutdownStep, SendFramed,
          DropConnectionLocked, ParkClient
  <2>32. CASE ShutdownStopHeartbeat
    BY <2>32 DEF ShutdownStopHeartbeat,
          ShutdownStep
  <2>33. CASE ShutdownJoinHeartbeat
    BY <2>33 DEF ShutdownJoinHeartbeat,
          ShutdownStep
  <2>34. CASE ShutdownStopAccept
    BY <2>34 DEF ShutdownStopAccept,
          ShutdownStep
  <2>35. CASE ShutdownJoinReader
    BY <2>35 DEF ShutdownJoinReader,
          ShutdownStep
  <2>36. CASE ShutdownClose
    BY <2>36 DEF ShutdownClose, ShutdownStep,
          CloseActiveLocked, ParkClient
  <2>37. CASE ShutdownDrain
    BY <2>37 DEF ShutdownDrain, ShutdownStep
  <2>38. CASE FifteenSecondsSilent
    BY <2>38 DEF FifteenSecondsSilent
  <2>39. CASE PeerGoesMute
    BY <2>39 DEF PeerGoesMute
  <2>40. CASE UNCHANGED vars
    BY <2>40 DEF vars
  <2>. QED
    BY <2>1, <2>2, <2>3, <2>4, <2>5, <2>6, <2>7, <2>8, <2>9, <2>10, <2>11,
       <2>12, <2>13, <2>14, <2>15, <2>16, <2>17, <2>18, <2>19, <2>20, <2>21,
       <2>22, <2>23, <2>24, <2>25, <2>26, <2>27, <2>28, <2>29, <2>30, <2>31,
       <2>32, <2>33, <2>34, <2>35, <2>36, <2>37, <2>38, <2>39, <2>40
       DEF Next, Accept, Reader, Heartbeat, ConfigPush, Shutdown
<1>. QED
  BY <1>1, <1>2, ValuesCorrect, PTL DEF Spec

(* No socket is freed under a thread that uses it, and none leaks, for any *)
(* number of dials.                                                        *)
THEOREM NoSocketFreedInUse == Spec => []SocketOwnership
<1>1. OwnershipInv => SocketOwnership
  BY DEF OwnershipInv
<1>. QED
  BY <1>1, OwnershipInductive, PTL

(* The token that opened the gate was presented on the connection in the   *)
(* slot, which is never behind the reader.                                 *)
HandshakeInv == HandshakeBelongsToLink /\ shook <= gen

(* The gate opens only for the connection that presented the token.        *)
THEOREM GateBelongsToLink == Spec => []HandshakeBelongsToLink
<1> USE  DEF ValuesOK, OwnershipInv, HandshakeInv, HandshakeBelongsToLink,
        slot, socks, reader, time, game, hist, None
<1>1. Init => HandshakeInv
  BY DEF Init
<1>2. ValuesOK /\ OwnershipInv /\ HandshakeInv /\ [Next]_vars => HandshakeInv'
  <2> SUFFICES ASSUME ValuesOK, OwnershipInv, HandshakeInv, [Next]_vars
               PROVE  HandshakeInv'
    OBVIOUS
  <2>1. CASE HandleConnectionAccepted
    BY <2>1 DEF
          HandleConnectionAccepted
  <2>2. CASE StampAccepted
    BY <2>2 DEF StampAccepted
  <2>3. CASE DrainPendingDestroy
    BY <2>3 DEF DrainPendingDestroy
  <2>4. CASE SnapshotConnection
    BY <2>4 DEF SnapshotConnection
  <2>5. CASE PreHandshakeDeadline
    BY <2>5 DEF PreHandshakeDeadline
  <2>6. CASE WithinDeadline
    BY <2>6 DEF WithinDeadline
  <2>7. CASE Recv
    BY <2>7 DEF Recv
  <2>8. CASE RecheckGeneration
    BY <2>8 DEF RecheckGeneration
  <2>9. CASE ReaderClose
    BY <2>9 DEF ReaderClose
  <2>10. CASE ReaderCloseLocked
    BY <2>10 DEF ReaderCloseLocked,
          CloseActiveLocked
  <2>11. CASE LinesDone
    BY <2>11 DEF LinesDone
  <2>12. CASE HandleRequest
    BY <2>12 DEF HandleRequest, NextLine
  <2>13. CASE RejectHandshake
    BY <2>13 DEF RejectHandshake, NextLine
  <2>14. CASE AcceptHandshake
    BY <2>14 DEF AcceptHandshake, NextLine
  <2>15. CASE BuildHandshakeAck
    BY <2>15 DEF BuildHandshakeAck
  <2>16. CASE SendHandshakeAck
    BY <2>16 DEF SendHandshakeAck,
          SendFramed, DropConnectionLocked
  <2>17. CASE SendManifestsLocked
    BY <2>17 DEF SendManifestsLocked,
          SendFramed, DropConnectionLocked
  <2>18. CASE BuildConfig
    BY <2>18 DEF BuildConfig
  <2>19. CASE SendConfigLocked
    BY <2>19 DEF SendConfigLocked,
          SendFramed, DropConnectionLocked
  <2>20. CASE RetireHeartbeat
    BY <2>20 DEF RetireHeartbeat
  <2>21. CASE StartHeartbeat
    BY <2>21 DEF StartHeartbeat
  <2>22. CASE HeartbeatExit
    BY <2>22 DEF HeartbeatExit
  <2>23. CASE HeartbeatDrop
    BY <2>23 DEF HeartbeatDrop, HeartbeatLooks
  <2>24. CASE HeartbeatCloseLocked
    BY <2>24 DEF HeartbeatCloseLocked,
          CloseActiveLocked
  <2>25. CASE HeartbeatPing
    BY <2>25 DEF HeartbeatPing, SendFramed,
          DropConnectionLocked
  <2>26. CASE SetEffectiveConfig
    BY <2>26 DEF SetEffectiveConfig
  <2>27. CASE PushConfigCheck
    BY <2>27 DEF PushConfigCheck
  <2>28. CASE PushConfig
    BY <2>28 DEF PushConfig, SendFramed,
          DropConnectionLocked
  <2>29. CASE SendMessage
    BY <2>29 DEF SendMessage, SendFramed,
          DropConnectionLocked
  <2>30. CASE BeginShutdown
    BY <2>30 DEF BeginShutdown, ShutdownStep
  <2>31. CASE SendBye
    BY <2>31 DEF SendBye, ShutdownStep, SendFramed,
          DropConnectionLocked
  <2>32. CASE ShutdownStopHeartbeat
    BY <2>32 DEF ShutdownStopHeartbeat,
          ShutdownStep
  <2>33. CASE ShutdownJoinHeartbeat
    BY <2>33 DEF ShutdownJoinHeartbeat,
          ShutdownStep
  <2>34. CASE ShutdownStopAccept
    BY <2>34 DEF ShutdownStopAccept,
          ShutdownStep
  <2>35. CASE ShutdownJoinReader
    BY <2>35 DEF ShutdownJoinReader,
          ShutdownStep
  <2>36. CASE ShutdownClose
    BY <2>36 DEF ShutdownClose, ShutdownStep,
          CloseActiveLocked
  <2>37. CASE ShutdownDrain
    BY <2>37 DEF ShutdownDrain, ShutdownStep
  <2>38. CASE FifteenSecondsSilent
    BY <2>38 DEF FifteenSecondsSilent
  <2>39. CASE PeerGoesMute
    BY <2>39 DEF PeerGoesMute
  <2>40. CASE UNCHANGED vars
    BY <2>40 DEF vars
  <2>. QED
    BY <2>1, <2>2, <2>3, <2>4, <2>5, <2>6, <2>7, <2>8, <2>9, <2>10, <2>11,
       <2>12, <2>13, <2>14, <2>15, <2>16, <2>17, <2>18, <2>19, <2>20, <2>21,
       <2>22, <2>23, <2>24, <2>25, <2>26, <2>27, <2>28, <2>29, <2>30, <2>31,
       <2>32, <2>33, <2>34, <2>35, <2>36, <2>37, <2>38, <2>39, <2>40
       DEF Next, Accept, Reader, Heartbeat, ConfigPush, Shutdown
<1>3. HandshakeInv => HandshakeBelongsToLink
  BY DEF HandshakeInv
<1>. QED
  BY <1>1, <1>2, <1>3, ValuesCorrect, OwnershipInductive, PTL DEF Spec

(* The accumulator never holds bytes of another connection than the one    *)
(* the reader serves.                                                      *)
AccumulatorInv == partial \subseteq {rGen}

(* No line is spliced from the bytes of two connections.                   *)
THEOREM LinesAreWhole == Spec => []LineIntegrity
<1> USE  DEF AccumulatorInv,
        slot, socks, reader, time, game, hist, None
<1>1. Init => AccumulatorInv
  BY DEF Init
<1>2. AccumulatorInv /\ [Next]_vars => AccumulatorInv'
  <2> SUFFICES ASSUME AccumulatorInv, [Next]_vars
               PROVE  AccumulatorInv'
    OBVIOUS
  <2>1. CASE HandleConnectionAccepted
    BY <2>1 DEF
          HandleConnectionAccepted
  <2>2. CASE StampAccepted
    BY <2>2 DEF StampAccepted
  <2>3. CASE DrainPendingDestroy
    BY <2>3 DEF DrainPendingDestroy
  <2>4. CASE SnapshotConnection
    BY <2>4 DEF SnapshotConnection
  <2>5. CASE PreHandshakeDeadline
    BY <2>5 DEF PreHandshakeDeadline
  <2>6. CASE WithinDeadline
    BY <2>6 DEF WithinDeadline
  <2>7. CASE Recv
    BY <2>7 DEF Recv
  <2>8. CASE RecheckGeneration
    BY <2>8 DEF RecheckGeneration
  <2>9. CASE ReaderClose
    BY <2>9 DEF ReaderClose
  <2>10. CASE ReaderCloseLocked
    BY <2>10 DEF ReaderCloseLocked,
          CloseActiveLocked
  <2>11. CASE LinesDone
    BY <2>11 DEF LinesDone
  <2>12. CASE HandleRequest
    BY <2>12 DEF HandleRequest, NextLine
  <2>13. CASE RejectHandshake
    BY <2>13 DEF RejectHandshake, NextLine
  <2>14. CASE AcceptHandshake
    BY <2>14 DEF AcceptHandshake, NextLine
  <2>15. CASE BuildHandshakeAck
    BY <2>15 DEF BuildHandshakeAck
  <2>16. CASE SendHandshakeAck
    BY <2>16 DEF SendHandshakeAck,
          SendFramed, DropConnectionLocked
  <2>17. CASE SendManifestsLocked
    BY <2>17 DEF SendManifestsLocked,
          SendFramed, DropConnectionLocked
  <2>18. CASE BuildConfig
    BY <2>18 DEF BuildConfig
  <2>19. CASE SendConfigLocked
    BY <2>19 DEF SendConfigLocked,
          SendFramed, DropConnectionLocked
  <2>20. CASE RetireHeartbeat
    BY <2>20 DEF RetireHeartbeat
  <2>21. CASE StartHeartbeat
    BY <2>21 DEF StartHeartbeat
  <2>22. CASE HeartbeatExit
    BY <2>22 DEF HeartbeatExit
  <2>23. CASE HeartbeatDrop
    BY <2>23 DEF HeartbeatDrop, HeartbeatLooks
  <2>24. CASE HeartbeatCloseLocked
    BY <2>24 DEF HeartbeatCloseLocked,
          CloseActiveLocked
  <2>25. CASE HeartbeatPing
    BY <2>25 DEF HeartbeatPing, SendFramed,
          DropConnectionLocked
  <2>26. CASE SetEffectiveConfig
    BY <2>26 DEF SetEffectiveConfig
  <2>27. CASE PushConfigCheck
    BY <2>27 DEF PushConfigCheck
  <2>28. CASE PushConfig
    BY <2>28 DEF PushConfig, SendFramed,
          DropConnectionLocked
  <2>29. CASE SendMessage
    BY <2>29 DEF SendMessage, SendFramed,
          DropConnectionLocked
  <2>30. CASE BeginShutdown
    BY <2>30 DEF BeginShutdown, ShutdownStep
  <2>31. CASE SendBye
    BY <2>31 DEF SendBye, ShutdownStep, SendFramed,
          DropConnectionLocked
  <2>32. CASE ShutdownStopHeartbeat
    BY <2>32 DEF ShutdownStopHeartbeat,
          ShutdownStep
  <2>33. CASE ShutdownJoinHeartbeat
    BY <2>33 DEF ShutdownJoinHeartbeat,
          ShutdownStep
  <2>34. CASE ShutdownStopAccept
    BY <2>34 DEF ShutdownStopAccept,
          ShutdownStep
  <2>35. CASE ShutdownJoinReader
    BY <2>35 DEF ShutdownJoinReader,
          ShutdownStep
  <2>36. CASE ShutdownClose
    BY <2>36 DEF ShutdownClose, ShutdownStep,
          CloseActiveLocked
  <2>37. CASE ShutdownDrain
    BY <2>37 DEF ShutdownDrain, ShutdownStep
  <2>38. CASE FifteenSecondsSilent
    BY <2>38 DEF FifteenSecondsSilent
  <2>39. CASE PeerGoesMute
    BY <2>39 DEF PeerGoesMute
  <2>40. CASE UNCHANGED vars
    BY <2>40 DEF vars
  <2>. QED
    BY <2>1, <2>2, <2>3, <2>4, <2>5, <2>6, <2>7, <2>8, <2>9, <2>10, <2>11,
       <2>12, <2>13, <2>14, <2>15, <2>16, <2>17, <2>18, <2>19, <2>20, <2>21,
       <2>22, <2>23, <2>24, <2>25, <2>26, <2>27, <2>28, <2>29, <2>30, <2>31,
       <2>32, <2>33, <2>34, <2>35, <2>36, <2>37, <2>38, <2>39, <2>40
       DEF Next, Accept, Reader, Heartbeat, ConfigPush, Shutdown
<1>3. AccumulatorInv => LineIntegrity
  BY DEF AccumulatorInv, LineIntegrity
<1>. QED
  BY <1>1, <1>2, <1>3, PTL DEF Spec

(* An authenticated link is never left without a heartbeat.  The property  *)
(* is inductive as it stands.                                              *)
THEOREM LinkIsGuarded == Spec => []HeartbeatGuardsLink
<1> USE  DEF FlagsOK, HeartbeatGuardsLink, stopRequested, clientConnected,
        HandshakePcs, BundlePcs,
        slot, socks, reader, time, game, hist, None
<1>1. Init => HeartbeatGuardsLink
  BY DEF Init
<1>2. FlagsOK /\ HeartbeatGuardsLink /\ [Next]_vars => HeartbeatGuardsLink'
  <2> SUFFICES ASSUME FlagsOK, HeartbeatGuardsLink, [Next]_vars
               PROVE  HeartbeatGuardsLink'
    OBVIOUS
  <2>1. CASE HandleConnectionAccepted
    BY <2>1 DEF
          HandleConnectionAccepted
  <2>2. CASE StampAccepted
    BY <2>2 DEF StampAccepted
  <2>3. CASE DrainPendingDestroy
    BY <2>3 DEF DrainPendingDestroy
  <2>4. CASE SnapshotConnection
    BY <2>4 DEF SnapshotConnection
  <2>5. CASE PreHandshakeDeadline
    BY <2>5 DEF PreHandshakeDeadline
  <2>6. CASE WithinDeadline
    BY <2>6 DEF WithinDeadline
  <2>7. CASE Recv
    BY <2>7 DEF Recv
  <2>8. CASE RecheckGeneration
    BY <2>8 DEF RecheckGeneration
  <2>9. CASE ReaderClose
    BY <2>9 DEF ReaderClose
  <2>10. CASE ReaderCloseLocked
    BY <2>10 DEF ReaderCloseLocked,
          CloseActiveLocked
  <2>11. CASE LinesDone
    BY <2>11 DEF LinesDone
  <2>12. CASE HandleRequest
    BY <2>12 DEF HandleRequest, NextLine
  <2>13. CASE RejectHandshake
    BY <2>13 DEF RejectHandshake, NextLine
  <2>14. CASE AcceptHandshake
    BY <2>14 DEF AcceptHandshake, NextLine
  <2>15. CASE BuildHandshakeAck
    BY <2>15 DEF BuildHandshakeAck
  <2>16. CASE SendHandshakeAck
    BY <2>16 DEF SendHandshakeAck,
          SendFramed, DropConnectionLocked
  <2>17. CASE SendManifestsLocked
    BY <2>17 DEF SendManifestsLocked,
          SendFramed, DropConnectionLocked
  <2>18. CASE BuildConfig
    BY <2>18 DEF BuildConfig
  <2>19. CASE SendConfigLocked
    BY <2>19 DEF SendConfigLocked,
          SendFramed, DropConnectionLocked
  <2>20. CASE RetireHeartbeat
    BY <2>20 DEF RetireHeartbeat
  <2>21. CASE StartHeartbeat
    BY <2>21 DEF StartHeartbeat
  <2>22. CASE HeartbeatExit
    BY <2>22 DEF HeartbeatExit
  <2>23. CASE HeartbeatDrop
    BY <2>23 DEF HeartbeatDrop, HeartbeatLooks
  <2>24. CASE HeartbeatCloseLocked
    BY <2>24 DEF HeartbeatCloseLocked,
          CloseActiveLocked
  <2>25. CASE HeartbeatPing
    BY <2>25 DEF HeartbeatPing, SendFramed,
          DropConnectionLocked
  <2>26. CASE SetEffectiveConfig
    BY <2>26 DEF SetEffectiveConfig
  <2>27. CASE PushConfigCheck
    BY <2>27 DEF PushConfigCheck
  <2>28. CASE PushConfig
    BY <2>28 DEF PushConfig, SendFramed,
          DropConnectionLocked
  <2>29. CASE SendMessage
    BY <2>29 DEF SendMessage, SendFramed,
          DropConnectionLocked
  <2>30. CASE BeginShutdown
    BY <2>30 DEF BeginShutdown, ShutdownStep
  <2>31. CASE SendBye
    BY <2>31 DEF SendBye, ShutdownStep, SendFramed,
          DropConnectionLocked
  <2>32. CASE ShutdownStopHeartbeat
    BY <2>32 DEF ShutdownStopHeartbeat,
          ShutdownStep
  <2>33. CASE ShutdownJoinHeartbeat
    BY <2>33 DEF ShutdownJoinHeartbeat,
          ShutdownStep
  <2>34. CASE ShutdownStopAccept
    BY <2>34 DEF ShutdownStopAccept,
          ShutdownStep
  <2>35. CASE ShutdownJoinReader
    BY <2>35 DEF ShutdownJoinReader,
          ShutdownStep
  <2>36. CASE ShutdownClose
    BY <2>36 DEF ShutdownClose, ShutdownStep,
          CloseActiveLocked
  <2>37. CASE ShutdownDrain
    BY <2>37 DEF ShutdownDrain, ShutdownStep
  <2>38. CASE FifteenSecondsSilent
    BY <2>38 DEF FifteenSecondsSilent
  <2>39. CASE PeerGoesMute
    BY <2>39 DEF PeerGoesMute
  <2>40. CASE UNCHANGED vars
    BY <2>40 DEF vars
  <2>. QED
    BY <2>1, <2>2, <2>3, <2>4, <2>5, <2>6, <2>7, <2>8, <2>9, <2>10, <2>11,
       <2>12, <2>13, <2>14, <2>15, <2>16, <2>17, <2>18, <2>19, <2>20, <2>21,
       <2>22, <2>23, <2>24, <2>25, <2>26, <2>27, <2>28, <2>29, <2>30, <2>31,
       <2>32, <2>33, <2>34, <2>35, <2>36, <2>37, <2>38, <2>39, <2>40
       DEF Next, Accept, Reader, Heartbeat, ConfigPush, Shutdown
<1>. QED
  BY <1>1, <1>2, FlagsCorrect, PTL DEF Spec

(* While the handshake's bundle is under way the link may hold an older    *)
(* configuration, but the one at the end of the bundle is current unless a *)
(* push is queued behind it on WriteMutex.                                 *)
ConfigInv ==
  (clientConnected /\ handshakeOk /\ cfg > 0 /\ wpc = "idle") =>
    /\ rpc = "cfgSend" => rCfg = cfg
    /\ rpc \notin {"ackBuild", "ackSend"} \cup BundlePcs => lastCfg = cfg

(* Whatever the interleaving of edits, handshakes and reconnects, the      *)
(* sidecar ends up with the current configuration.                         *)
THEOREM ConfigIsDelivered == Spec => []ConfigConverges
<1> USE  DEF ValuesOK, ConfigInv, clientConnected, BundlePcs,
        slot, socks, reader, time, game, hist, None
<1>1. Init => ConfigInv
  BY DEF Init
<1>2. ValuesOK /\ ConfigInv /\ [Next]_vars => ConfigInv'
  <2> SUFFICES ASSUME ValuesOK, ConfigInv, [Next]_vars
               PROVE  ConfigInv'
    OBVIOUS
  <2>1. CASE HandleConnectionAccepted
    BY <2>1 DEF
          HandleConnectionAccepted
  <2>2. CASE StampAccepted
    BY <2>2 DEF StampAccepted
  <2>3. CASE DrainPendingDestroy
    BY <2>3 DEF DrainPendingDestroy
  <2>4. CASE SnapshotConnection
    BY <2>4 DEF SnapshotConnection
  <2>5. CASE PreHandshakeDeadline
    BY <2>5 DEF PreHandshakeDeadline
  <2>6. CASE WithinDeadline
    BY <2>6 DEF WithinDeadline
  <2>7. CASE Recv
    BY <2>7 DEF Recv
  <2>8. CASE RecheckGeneration
    BY <2>8 DEF RecheckGeneration
  <2>9. CASE ReaderClose
    BY <2>9 DEF ReaderClose
  <2>10. CASE ReaderCloseLocked
    BY <2>10 DEF ReaderCloseLocked,
          CloseActiveLocked
  <2>11. CASE LinesDone
    BY <2>11 DEF LinesDone
  <2>12. CASE HandleRequest
    BY <2>12 DEF HandleRequest, NextLine
  <2>13. CASE RejectHandshake
    BY <2>13 DEF RejectHandshake, NextLine
  <2>14. CASE AcceptHandshake
    BY <2>14 DEF AcceptHandshake, NextLine
  <2>15. CASE BuildHandshakeAck
    BY <2>15 DEF BuildHandshakeAck
  <2>16. CASE SendHandshakeAck
    BY <2>16 DEF SendHandshakeAck,
          SendFramed, DropConnectionLocked
  <2>17. CASE SendManifestsLocked
    BY <2>17 DEF SendManifestsLocked,
          SendFramed, DropConnectionLocked
  <2>18. CASE BuildConfig
    BY <2>18 DEF BuildConfig
  <2>19. CASE SendConfigLocked
    <3>1. rpc = "cfgSend" /\ rpc' = "hbStop" /\ UNCHANGED <<cfg, wpc>>
      BY <2>19 DEF SendConfigLocked, WriteMutexFree
    <3>2. \/ client' = None
          \/ lastCfg' = (IF rCfg = 0 THEN lastCfg ELSE rCfg) /\ UNCHANGED <<client, handshakeOk>>
      BY <2>19 DEF SendConfigLocked, SendFramed, DropConnectionLocked
    <3>3. CASE client' = None
      BY <3>3
    <3>4. CASE UNCHANGED <<client, handshakeOk>> /\ lastCfg' = (IF rCfg = 0 THEN lastCfg ELSE rCfg)
      BY <3>1, <3>4
    <3>. QED
      BY <3>2, <3>3, <3>4
  <2>20. CASE RetireHeartbeat
    BY <2>20 DEF RetireHeartbeat
  <2>21. CASE StartHeartbeat
    BY <2>21 DEF StartHeartbeat
  <2>22. CASE HeartbeatExit
    BY <2>22 DEF HeartbeatExit
  <2>23. CASE HeartbeatDrop
    BY <2>23 DEF HeartbeatDrop, HeartbeatLooks
  <2>24. CASE HeartbeatCloseLocked
    BY <2>24 DEF HeartbeatCloseLocked,
          CloseActiveLocked
  <2>25. CASE HeartbeatPing
    BY <2>25 DEF HeartbeatPing, HeartbeatLooks,
          SendFramed, DropConnectionLocked, WriteMutexFree
  <2>26. CASE SetEffectiveConfig
    BY <2>26 DEF SetEffectiveConfig
  <2>27. CASE PushConfigCheck
    BY <2>27 DEF PushConfigCheck
  <2>28. CASE PushConfig
    <3>1. rpc \notin BundlePcs /\ UNCHANGED <<rpc, cfg, rCfg>>
      BY <2>28 DEF PushConfig, WriteMutexFree
    <3>2. \/ client' = None
          \/ lastCfg' = (IF cfg = 0 THEN lastCfg ELSE cfg) /\ UNCHANGED <<client, handshakeOk>>
      BY <2>28 DEF PushConfig, SendFramed, DropConnectionLocked
    <3>3. CASE client' = None
      BY <3>3
    <3>4. CASE UNCHANGED <<client, handshakeOk>> /\ lastCfg' = (IF cfg = 0 THEN lastCfg ELSE cfg)
      BY <3>1, <3>4
    <3>. QED
      BY <3>2, <3>3, <3>4
  <2>29. CASE SendMessage
    BY <2>29 DEF SendMessage, SendFramed,
          DropConnectionLocked, WriteMutexFree
  <2>30. CASE BeginShutdown
    BY <2>30 DEF BeginShutdown, ShutdownStep
  <2>31. CASE SendBye
    BY <2>31 DEF SendBye, ShutdownStep, SendFramed,
          DropConnectionLocked, WriteMutexFree
  <2>32. CASE ShutdownStopHeartbeat
    BY <2>32 DEF ShutdownStopHeartbeat,
          ShutdownStep
  <2>33. CASE ShutdownJoinHeartbeat
    BY <2>33 DEF ShutdownJoinHeartbeat,
          ShutdownStep
  <2>34. CASE ShutdownStopAccept
    BY <2>34 DEF ShutdownStopAccept,
          ShutdownStep
  <2>35. CASE ShutdownJoinReader
    BY <2>35 DEF ShutdownJoinReader,
          ShutdownStep
  <2>36. CASE ShutdownClose
    BY <2>36 DEF ShutdownClose, ShutdownStep,
          CloseActiveLocked
  <2>37. CASE ShutdownDrain
    BY <2>37 DEF ShutdownDrain, ShutdownStep
  <2>38. CASE FifteenSecondsSilent
    BY <2>38 DEF FifteenSecondsSilent
  <2>39. CASE PeerGoesMute
    BY <2>39 DEF PeerGoesMute
  <2>40. CASE UNCHANGED vars
    BY <2>40 DEF vars
  <2>. QED
    BY <2>1, <2>2, <2>3, <2>4, <2>5, <2>6, <2>7, <2>8, <2>9, <2>10, <2>11,
       <2>12, <2>13, <2>14, <2>15, <2>16, <2>17, <2>18, <2>19, <2>20, <2>21,
       <2>22, <2>23, <2>24, <2>25, <2>26, <2>27, <2>28, <2>29, <2>30, <2>31,
       <2>32, <2>33, <2>34, <2>35, <2>36, <2>37, <2>38, <2>39, <2>40
       DEF Next, Accept, Reader, Heartbeat, ConfigPush, Shutdown
<1>3. ConfigInv => ConfigConverges
  BY DEF ConfigInv, ConfigConverges, HandshakePcs
<1>. QED
  BY <1>1, <1>2, <1>3, ValuesCorrect, PTL DEF Spec

(* Once the listener's thread is joined nothing is accepted, once the slot  *)
(* is closed it stays empty, and nothing is parked behind the last drain.   *)
ReleaseInv ==
  /\ sd \in {"joinReader", "close", "drain", "done"} => acc = "idle"
  /\ sd \in {"drain", "done"} => client = None
  /\ sd = "done" => parked = {}

(* When Shutdown returns, the reader is gone and no socket is left open,    *)
(* for any number of dials and whatever the heartbeat still does.           *)
THEOREM EverySocketIsReleased == Spec => []ShutdownReleasesSockets
<1> USE  DEF ValuesOK, OwnershipInv, ReleaseInv,
        slot, socks, reader, time, game, hist
<1>1. Init => ReleaseInv
  BY DEF Init
<1>2. ValuesOK /\ OwnershipInv /\ ReleaseInv /\ [Next]_vars => ReleaseInv'
  <2> SUFFICES ASSUME ValuesOK, OwnershipInv, ReleaseInv, [Next]_vars
               PROVE  ReleaseInv'
    OBVIOUS
  <2>1. CASE HandleConnectionAccepted
    BY <2>1 DEF
          HandleConnectionAccepted, ParkClient
  <2>2. CASE StampAccepted
    BY <2>2 DEF StampAccepted
  <2>3. CASE DrainPendingDestroy
    BY <2>3 DEF DrainPendingDestroy
  <2>4. CASE SnapshotConnection
    BY <2>4 DEF SnapshotConnection
  <2>5. CASE PreHandshakeDeadline
    BY <2>5 DEF PreHandshakeDeadline
  <2>6. CASE WithinDeadline
    BY <2>6 DEF WithinDeadline
  <2>7. CASE Recv
    BY <2>7 DEF Recv
  <2>8. CASE RecheckGeneration
    BY <2>8 DEF RecheckGeneration
  <2>9. CASE ReaderClose
    BY <2>9 DEF ReaderClose
  <2>10. CASE ReaderCloseLocked
    BY <2>10 DEF ReaderCloseLocked,
          CloseActiveLocked, ParkClient
  <2>11. CASE LinesDone
    BY <2>11 DEF LinesDone
  <2>12. CASE HandleRequest
    BY <2>12 DEF HandleRequest, NextLine
  <2>13. CASE RejectHandshake
    BY <2>13 DEF RejectHandshake, NextLine
  <2>14. CASE AcceptHandshake
    BY <2>14 DEF AcceptHandshake, NextLine
  <2>15. CASE BuildHandshakeAck
    BY <2>15 DEF BuildHandshakeAck
  <2>16. CASE SendHandshakeAck
    BY <2>16 DEF SendHandshakeAck,
          SendFramed, DropConnectionLocked, ParkClient
  <2>17. CASE SendManifestsLocked
    BY <2>17 DEF SendManifestsLocked,
          SendFramed, DropConnectionLocked, ParkClient
  <2>18. CASE BuildConfig
    BY <2>18 DEF BuildConfig
  <2>19. CASE SendConfigLocked
    BY <2>19 DEF SendConfigLocked,
          SendFramed, DropConnectionLocked, ParkClient
  <2>20. CASE RetireHeartbeat
    BY <2>20 DEF RetireHeartbeat
  <2>21. CASE StartHeartbeat
    BY <2>21 DEF StartHeartbeat
  <2>22. CASE HeartbeatExit
    BY <2>22 DEF HeartbeatExit
  <2>23. CASE HeartbeatDrop
    BY <2>23 DEF HeartbeatDrop, HeartbeatLooks
  <2>24. CASE HeartbeatCloseLocked
    BY <2>24 DEF HeartbeatCloseLocked,
          CloseActiveLocked, ParkClient
  <2>25. CASE HeartbeatPing
    BY <2>25 DEF HeartbeatPing, SendFramed,
          DropConnectionLocked, ParkClient
  <2>26. CASE SetEffectiveConfig
    BY <2>26 DEF SetEffectiveConfig
  <2>27. CASE PushConfigCheck
    BY <2>27 DEF PushConfigCheck
  <2>28. CASE PushConfig
    BY <2>28 DEF PushConfig, SendFramed,
          DropConnectionLocked, ParkClient
  <2>29. CASE SendMessage
    BY <2>29 DEF SendMessage, SendFramed,
          DropConnectionLocked, ParkClient
  <2>30. CASE BeginShutdown
    BY <2>30 DEF BeginShutdown, ShutdownStep
  <2>31. CASE SendBye
    BY <2>31 DEF SendBye, ShutdownStep, SendFramed,
          DropConnectionLocked, ParkClient
  <2>32. CASE ShutdownStopHeartbeat
    BY <2>32 DEF ShutdownStopHeartbeat,
          ShutdownStep
  <2>33. CASE ShutdownJoinHeartbeat
    BY <2>33 DEF ShutdownJoinHeartbeat,
          ShutdownStep
  <2>34. CASE ShutdownStopAccept
    BY <2>34 DEF ShutdownStopAccept,
          ShutdownStep
  <2>35. CASE ShutdownJoinReader
    BY <2>35 DEF ShutdownJoinReader,
          ShutdownStep
  <2>36. CASE ShutdownClose
    BY <2>36 DEF ShutdownClose, ShutdownStep,
          CloseActiveLocked, ParkClient
  <2>37. CASE ShutdownDrain
    BY <2>37 DEF ShutdownDrain, ShutdownStep
  <2>38. CASE FifteenSecondsSilent
    BY <2>38 DEF FifteenSecondsSilent
  <2>39. CASE PeerGoesMute
    BY <2>39 DEF PeerGoesMute
  <2>40. CASE UNCHANGED vars
    BY <2>40 DEF vars
  <2>. QED
    BY <2>1, <2>2, <2>3, <2>4, <2>5, <2>6, <2>7, <2>8, <2>9, <2>10, <2>11,
       <2>12, <2>13, <2>14, <2>15, <2>16, <2>17, <2>18, <2>19, <2>20, <2>21,
       <2>22, <2>23, <2>24, <2>25, <2>26, <2>27, <2>28, <2>29, <2>30, <2>31,
       <2>32, <2>33, <2>34, <2>35, <2>36, <2>37, <2>38, <2>39, <2>40
       DEF Next, Accept, Reader, Heartbeat, ConfigPush, Shutdown
<1>3. OwnershipInv /\ ReleaseInv => ShutdownReleasesSockets
  BY DEF SocketOwnership, ShutdownReleasesSockets
<1>. QED
  BY <1>1, <1>2, <1>3, ValuesCorrect, OwnershipInductive, PTL DEF Spec
=============================================================================
