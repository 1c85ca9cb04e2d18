-------------------------- MODULE CallDispatchProofs --------------------------
(***************************************************************************)
(* What holds of CallDispatch for any set of calls and request ids: the    *)
(* types, one answer a call, the cancel flags' owners, the exact count in  *)
(* flight, the order of the bodies, and the dispatcher's contract          *)
(* (CallContract).  The liveness stays with the model checker.             *)
(***************************************************************************)
EXTENDS CallDispatch, SequenceTheorems, FiniteSetTheorems, TLAPS

(* The elements of a sequence are of its type, and Append adds one.        *)
LEMMA ElementsAreTyped == ASSUME NEW S, NEW s \in Seq(S) PROVE Elements(s) \subseteq S
  BY ElementOfSeq DEF Elements

LEMMA ElementsOfAppend ==
  ASSUME NEW S, NEW s \in Seq(S), NEW e \in S PROVE Elements(Append(s, e)) = Elements(s) \cup {e}
<1> DEFINE t == Append(s, e)
<1>1. /\ Len(s) \in Nat /\ Len(t) = Len(s) + 1
      /\ \A i \in 1 .. Len(s) : t[i] = s[i]
      /\ t[Len(s) + 1] = e
  BY AppendProperties, LenProperties
<1> HIDE DEF t
<1>2. ASSUME NEW x \in Elements(t) PROVE x \in Elements(s) \cup {e}
  <2>1. PICK i \in 1 .. Len(t) : x = t[i]
    BY DEF Elements
  <2>2. CASE i = Len(s) + 1
    BY <1>1, <2>1, <2>2
  <2>3. CASE i \in 1 .. Len(s)
    BY <1>1, <2>1, <2>3 DEF Elements
  <2> QED
    BY <1>1, <2>1, <2>2, <2>3
<1>3. ASSUME NEW x \in Elements(s) PROVE x \in Elements(t)
  <2>1. PICK i \in 1 .. Len(s) : x = s[i]
    BY DEF Elements
  <2>2. i \in 1 .. Len(t) /\ t[i] = x
    BY <1>1, <2>1
  <2> QED
    BY <2>2 DEF Elements
<1>4. e \in Elements(t)
  <2>1. Len(s) + 1 \in 1 .. Len(t)
    BY <1>1
  <2> QED
    BY <1>1, <2>1 DEF Elements
<1> QED
  BY <1>2, <1>3, <1>4 DEF t

(* A sequence loses its head.                                              *)
LEMMA ElementsOfTail ==
  ASSUME NEW S, NEW s \in Seq(S), s # <<>>
  PROVE  Tail(s) \in Seq(S) /\ Head(s) \in Elements(s) /\ Elements(Tail(s)) \subseteq Elements(s)
<1>1. /\ Len(s) \in Nat \ {0} /\ Head(s) = s[1]
      /\ Tail(s) \in Seq(S) /\ Len(Tail(s)) = Len(s) - 1
      /\ \A i \in 1 .. Len(Tail(s)) : Tail(s)[i] = s[i + 1]
  BY HeadTailProperties, EmptySeq, LenProperties
<1>2. Head(s) \in Elements(s)
  <2>1. 1 \in 1 .. Len(s)
    BY <1>1
  <2> QED
    BY <1>1, <2>1 DEF Elements
<1>3. ASSUME NEW i \in 1 .. Len(Tail(s)) PROVE Tail(s)[i] \in Elements(s)
  <2>1. i + 1 \in 1 .. Len(s)
    BY <1>1
  <2> QED
    BY <1>1, <2>1 DEF Elements
<1> QED
  BY <1>1, <1>2, <1>3 DEF Elements

(* What is picked from a sequence in order is a sequence of its elements.  *)
LEMMA PicksAreTyped ==
  ASSUME NEW S, NEW s \in Seq(S), NEW I \in SUBSET DOMAIN s, NEW f \in InOrder(I)
  PROVE  LET t == [i \in DOMAIN f |-> s[f[i]]] IN t \in Seq(S) /\ Elements(t) \subseteq Elements(s)
<1> DEFINE t == [i \in DOMAIN f |-> s[f[i]]]
<1>1. DOMAIN s = 1 .. Len(s) /\ Len(s) \in Nat
  BY LenProperties
<1>2. Cardinality(I) \in Nat
  <2>1. IsFiniteSet(1 .. Len(s))
    BY <1>1, FS_Interval
  <2>2. I \subseteq 1 .. Len(s)
    BY <1>1
  <2>3. IsFiniteSet(I)
    BY <2>1, <2>2, FS_Subset
  <2> QED
    BY <2>3, FS_CardinalityType
<1>3. f \in [1 .. Cardinality(I) -> I]
  BY DEF InOrder
<1>4. \A i \in 1 .. Cardinality(I) : t[i] \in S /\ t[i] \in Elements(s)
  <2> SUFFICES ASSUME NEW i \in 1 .. Cardinality(I) PROVE t[i] \in S /\ t[i] \in Elements(s)
    OBVIOUS
  <2>1. f[i] \in 1 .. Len(s)
    BY <1>1, <1>3
  <2>2. t[i] = s[f[i]]
    BY <1>3
  <2> QED
    BY <2>1, <2>2, ElementOfSeq DEF Elements
<1>5. t \in [1 .. Cardinality(I) -> S]
  BY <1>3, <1>4
<1>6. t \in Seq(S) /\ Len(t) = Cardinality(I)
  BY <1>2, <1>5
<1> QED
  BY <1>4, <1>6 DEF Elements

(* The flags.                                                              *)
FlagsOK == preExit \in BOOLEAN /\ dangling \in BOOLEAN

LEMMA FlagsCorrect == Spec => []FlagsOK
<1> USE DEF FlagsOK, ids, promise, reader, watchdog, frames, game, server
<1>1. Init => FlagsOK
  BY DEF Init
<1>2. FlagsOK /\ [Next]_vars => FlagsOK'
  <2> SUFFICES ASSUME FlagsOK, [Next]_vars PROVE FlagsOK'
    OBVIOUS
  <2>1. ASSUME NEW c \in Calls, NEW i \in Ids \cup {NoId}, ReceiveCall(c, i) PROVE FlagsOK'
    BY <2>1 DEF ReceiveCall
  <2>2. ASSUME NEW i \in Ids, HandleToolCancel(i) PROVE FlagsOK'
    BY <2>2 DEF HandleToolCancel
  <2>3. ASSUME NEW c \in Calls, RetryDelayElapses(c) PROVE FlagsOK'
    BY <2>3 DEF RetryDelayElapses
  <2>4. ASSUME NEW c \in Calls, ExpireEntry(c) PROVE FlagsOK'
    BY <2>4 DEF ExpireEntry
  <2>5. CASE Watch
    BY <2>5 DEF Watch
  <2>6. CASE Schedule
    BY <2>6 DEF Schedule
  <2>7. CASE AttachContinuation
    BY <2>7 DEF AttachContinuation
  <2>8. CASE ReaderDelivers
    BY <2>8 DEF ReaderDelivers, Continue, SendResponse, RemoveFlag, CountOut
  <2>9. CASE ScanEntries
    BY <2>9 DEF ScanEntries
  <2>10. CASE CompleteExpired
    BY <2>10 DEF CompleteExpired, Complete
  <2>11. CASE WatchdogDelivers
    BY <2>11 DEF WatchdogDelivers, Continue, SendResponse, RemoveFlag, CountOut
  <2>12. CASE EndBatch
    BY <2>12 DEF EndBatch
  <2>13. CASE Drain
    BY <2>13 DEF Drain
  <2>14. CASE SkipJob
    BY <2>14 DEF SkipJob, Complete
  <2>15. CASE RunBody
    BY <2>15 DEF RunBody
  <2>16. CASE BodyReturns
    BY <2>16 DEF BodyReturns, Complete
  <2>17. CASE BodyRetries
    BY <2>17 DEF BodyRetries
  <2>18. CASE GameDelivers
    BY <2>18 DEF GameDelivers, Continue, SendResponse, RemoveFlag, CountOut
  <2>19. CASE EnginePreExit
    BY <2>19 DEF EnginePreExit
  <2>20. CASE BeginShutdown
    BY <2>20 DEF BeginShutdown, ShutdownStep
  <2>21. CASE JoinReader
    BY <2>21 DEF JoinReader, ShutdownStep
  <2>22. CASE CancelAllInFlight
    BY <2>22 DEF CancelAllInFlight, ShutdownStep
  <2>23. CASE DrainInFlightCalls
    BY <2>23 DEF DrainInFlightCalls, ShutdownStep
  <2>24. CASE GraceExpires
    BY <2>24 DEF GraceExpires, ShutdownStep
  <2>25. CASE UseFreedServer
    BY <2>25 DEF UseFreedServer
  <2>26. CASE UNCHANGED vars
    BY <2>26 DEF vars
  <2> QED
    BY <2>1, <2>2, <2>3, <2>4, <2>5, <2>6, <2>7, <2>8, <2>9, <2>10, <2>11, <2>12, <2>13, <2>14, <2>15, <2>16, <2>17, <2>18, <2>19, <2>20, <2>21, <2>22, <2>23, <2>24, <2>25, <2>26
    DEF Next, Reader, Watchdog, Game, Shutdown
<1> QED
  BY <1>1, <1>2, PTL DEF Spec

(* TypeOK without them; and a thread that is at work has its call.         *)
QueuesOK == arrived \in Seq(Calls) /\ queue \in Seq(Calls) /\ due \in Seq(Calls)

ValuesOK ==
  /\ id \in [Calls -> Ids \cup {NoId}]
  /\ tracked \subseteq Calls /\ flags \in [Ids -> Calls \cup {None}]
  /\ cancelled \subseteq Calls /\ inFlight \in Int
  /\ outcome \in [Calls -> {"open", "result", "notRun", "timeout"}]
  /\ stage \in [Calls -> Stages] /\ answers \in [Calls -> Nat]
  /\ rpc \in {"idle", "watch", "schedule", "attach", "deliver", "exited"}
  /\ rcall \in Calls \cup {None} /\ (rpc \in {"watch", "schedule", "attach", "deliver"} => rcall \in Calls)
  /\ watch \subseteq Calls /\ expired \subseteq Calls
  /\ wpc \in {"scan", "expire", "complete", "deliver", "stopped"}
  /\ wcall \in Calls \cup {None} /\ (wpc \in {"complete", "deliver"} => wcall \in Calls)
  /\ gpc \in {"idle", "body", "deliver"}
  /\ gcall \in Calls \cup {None} /\ (gpc \in {"body", "deliver"} => gcall \in Calls)
  /\ delayed \subseteq retried /\ retried \subseteq Calls
  /\ sd \in {"up", "join", "cancel", "drain", "freed"}
  /\ QueuesOK

(* The continuation's steps keep the types of what they write.            *)
LEMMA ContinueIsTyped ==
  ASSUME ValuesOK, NEW c \in Calls, Continue(c)
  PROVE  /\ stage' \in [Calls -> Stages] /\ answers' \in [Calls -> Nat]
         /\ inFlight' \in Int /\ flags' \in [Ids -> Calls \cup {None}]
<1>1. CASE SendResponse(c)
  BY <1>1 DEF SendResponse, ValuesOK, Stages
<1>2. CASE RemoveFlag(c)
  BY <1>2 DEF RemoveFlag, ValuesOK, Stages
<1>3. CASE CountOut(c)
  BY <1>3 DEF CountOut, ValuesOK, Stages
<1> QED
  BY <1>1, <1>2, <1>3 DEF Continue


LEMMA ValuesCorrect == Spec => []ValuesOK
<1> USE DEF Stages, ids, promise, reader, watchdog, frames, game, server
<1>1. Init => ValuesOK
  BY EmptySeq DEF Init, ValuesOK, QueuesOK
<1>2. ValuesOK /\ [Next]_vars => ValuesOK'
  <2> SUFFICES ASSUME ValuesOK, [Next]_vars PROVE ValuesOK'
    OBVIOUS
  <2>1. ASSUME NEW c \in Calls, NEW i \in Ids \cup {NoId}, ReceiveCall(c, i) PROVE ValuesOK'
    <3>1. QueuesOK'
      BY <2>1 DEF ReceiveCall, ValuesOK, QueuesOK
    <3>2. inFlight' \in Int /\ id' \in [Calls -> Ids \cup {NoId}]
      BY <2>1 DEF ReceiveCall, ValuesOK
    <3>3. tracked' \subseteq Calls /\ flags' \in [Ids -> Calls \cup {None}]
      BY <2>1 DEF ReceiveCall, ValuesOK
    <3>4. UNCHANGED <<cancelled, outcome, stage, answers, watch, expired, wpc, wcall, delayed, retried, gpc, gcall, sd>>
      BY <2>1 DEF ReceiveCall
    <3>5. rpc' = "watch" /\ rcall' = c
      BY <2>1 DEF ReceiveCall
    <3> QED
      BY <3>1, <3>2, <3>3, <3>4, <3>5 DEF ValuesOK
  <2>2. ASSUME NEW i \in Ids, HandleToolCancel(i) PROVE ValuesOK'
    <3>1. QueuesOK'
      BY <2>2 DEF HandleToolCancel, ValuesOK, QueuesOK
    <3> QED
      BY <2>2, <3>1 DEF HandleToolCancel, ValuesOK, QueuesOK
  <2>3. ASSUME NEW c \in Calls, RetryDelayElapses(c) PROVE ValuesOK'
    <3>1. QueuesOK'
      BY <2>3 DEF RetryDelayElapses, ValuesOK, QueuesOK
    <3> QED
      BY <2>3, <3>1 DEF RetryDelayElapses, ValuesOK, QueuesOK
  <2>4. ASSUME NEW c \in Calls, ExpireEntry(c) PROVE ValuesOK'
    <3>1. QueuesOK'
      BY <2>4 DEF ExpireEntry, ValuesOK, QueuesOK
    <3> QED
      BY <2>4, <3>1 DEF ExpireEntry, ValuesOK, QueuesOK
  <2>5. CASE Watch
    <3>1. QueuesOK'
      BY <2>5 DEF Watch, ValuesOK, QueuesOK
    <3> QED
      BY <2>5, <3>1 DEF Watch, ValuesOK, QueuesOK
  <2>6. CASE Schedule
    <3>1. QueuesOK'
      BY <2>6 DEF Schedule, ValuesOK, QueuesOK
    <3> QED
      BY <2>6, <3>1 DEF Schedule, ValuesOK, QueuesOK
  <2>7. CASE AttachContinuation
    <3>1. QueuesOK'
      BY <2>7 DEF AttachContinuation, ValuesOK, QueuesOK
    <3> QED
      BY <2>7, <3>1, ZenonT(30) DEF AttachContinuation, ValuesOK, QueuesOK
  <2>8. CASE ReaderDelivers
    <3>1. QueuesOK'
      BY <2>8 DEF ReaderDelivers, Continue, SendResponse, RemoveFlag, CountOut, ValuesOK, QueuesOK
    <3>2. rcall \in Calls /\ Continue(rcall)
      BY <2>8 DEF ReaderDelivers, ValuesOK
    <3>3. /\ stage' \in [Calls -> Stages] /\ answers' \in [Calls -> Nat]
          /\ inFlight' \in Int /\ flags' \in [Ids -> Calls \cup {None}]
      BY <3>2, ContinueIsTyped
    <3>4. UNCHANGED <<id, tracked, cancelled, outcome, watch, expired, delayed, retried, sd>>
      BY <3>2 DEF Continue
    <3> QED
      BY <2>8, <3>1, <3>3, <3>4 DEF ReaderDelivers, ValuesOK
  <2>9. CASE ScanEntries
    <3>1. QueuesOK'
      BY <2>9 DEF ScanEntries, ValuesOK, QueuesOK
    <3> QED
      BY <2>9, <3>1 DEF ScanEntries, ValuesOK, QueuesOK
  <2>10. CASE CompleteExpired
    <3>1. QueuesOK'
      BY <2>10 DEF CompleteExpired, Complete, ValuesOK, QueuesOK
    <3> QED
      BY <2>10, <3>1 DEF CompleteExpired, Complete, ValuesOK, QueuesOK
  <2>11. CASE WatchdogDelivers
    <3>1. QueuesOK'
      BY <2>11 DEF WatchdogDelivers, Continue, SendResponse, RemoveFlag, CountOut, ValuesOK, QueuesOK
    <3>2. wcall \in Calls /\ Continue(wcall)
      BY <2>11 DEF WatchdogDelivers, ValuesOK
    <3>3. /\ stage' \in [Calls -> Stages] /\ answers' \in [Calls -> Nat]
          /\ inFlight' \in Int /\ flags' \in [Ids -> Calls \cup {None}]
      BY <3>2, ContinueIsTyped
    <3>4. UNCHANGED <<id, tracked, cancelled, outcome, watch, expired, delayed, retried, sd>>
      BY <3>2 DEF Continue
    <3> QED
      BY <2>11, <3>1, <3>3, <3>4 DEF WatchdogDelivers, ValuesOK
  <2>12. CASE EndBatch
    <3>1. QueuesOK'
      BY <2>12 DEF EndBatch, ValuesOK, QueuesOK
    <3> QED
      BY <2>12, <3>1 DEF EndBatch, ValuesOK, QueuesOK
  <2>13. CASE Drain
    <3>1. PICK take \in InOrder(Ready), leave \in InOrder(DOMAIN queue \ Ready) :
            /\ due' = [i \in DOMAIN take |-> queue[take[i]]]
            /\ queue' = [i \in DOMAIN leave |-> queue[leave[i]]]
      BY <2>13 DEF Drain
    <3>2. Ready \subseteq DOMAIN queue /\ (DOMAIN queue \ Ready) \subseteq DOMAIN queue /\ queue \in Seq(Calls)
      BY DEF Ready, ValuesOK, QueuesOK
    <3>3. due' \in Seq(Calls) /\ queue' \in Seq(Calls)
      BY <3>1, <3>2, PicksAreTyped
    <3>4. QueuesOK'
      BY <2>13, <3>3 DEF Drain, ValuesOK, QueuesOK
    <3> QED
      BY <2>13, <3>4 DEF Drain, ValuesOK
  <2>14. CASE SkipJob
    <3>1. due # <<>> /\ due \in Seq(Calls)
      BY <2>14 DEF SkipJob, ValuesOK, QueuesOK
    <3>2. Tail(due) \in Seq(Calls) /\ Head(due) \in Calls
      BY <3>1, ElementsOfTail, ElementsAreTyped
    <3>3. QueuesOK'
      BY <2>14, <3>2 DEF SkipJob, ValuesOK, QueuesOK
    <3> QED
      BY <2>14, <3>2, <3>3 DEF SkipJob, Complete, ValuesOK
  <2>15. CASE RunBody
    <3>1. due # <<>> /\ due \in Seq(Calls)
      BY <2>15 DEF RunBody, ValuesOK, QueuesOK
    <3>2. Tail(due) \in Seq(Calls) /\ Head(due) \in Calls
      BY <3>1, ElementsOfTail, ElementsAreTyped
    <3>3. QueuesOK'
      BY <2>15, <3>2 DEF RunBody, ValuesOK, QueuesOK
    <3> QED
      BY <2>15, <3>2, <3>3 DEF RunBody, ValuesOK
  <2>16. CASE BodyReturns
    <3>1. QueuesOK'
      BY <2>16 DEF BodyReturns, Complete, ValuesOK, QueuesOK
    <3> QED
      BY <2>16, <3>1 DEF BodyReturns, Complete, ValuesOK, QueuesOK
  <2>17. CASE BodyRetries
    <3>1. QueuesOK'
      BY <2>17 DEF BodyRetries, ValuesOK, QueuesOK
    <3> QED
      BY <2>17, <3>1 DEF BodyRetries, ValuesOK, QueuesOK
  <2>18. CASE GameDelivers
    <3>1. QueuesOK'
      BY <2>18 DEF GameDelivers, Continue, SendResponse, RemoveFlag, CountOut, ValuesOK, QueuesOK
    <3>2. gcall \in Calls /\ Continue(gcall)
      BY <2>18 DEF GameDelivers, ValuesOK
    <3>3. /\ stage' \in [Calls -> Stages] /\ answers' \in [Calls -> Nat]
          /\ inFlight' \in Int /\ flags' \in [Ids -> Calls \cup {None}]
      BY <3>2, ContinueIsTyped
    <3>4. UNCHANGED <<id, tracked, cancelled, outcome, watch, expired, delayed, retried, sd>>
      BY <3>2 DEF Continue
    <3> QED
      BY <2>18, <3>1, <3>3, <3>4 DEF GameDelivers, ValuesOK
  <2>19. CASE EnginePreExit
    <3>1. QueuesOK'
      BY <2>19 DEF EnginePreExit, ValuesOK, QueuesOK
    <3> QED
      BY <2>19, <3>1 DEF EnginePreExit, ValuesOK, QueuesOK
  <2>20. CASE BeginShutdown
    <3>1. QueuesOK'
      BY <2>20 DEF BeginShutdown, ShutdownStep, ValuesOK, QueuesOK
    <3> QED
      BY <2>20, <3>1 DEF BeginShutdown, ShutdownStep, ValuesOK, QueuesOK
  <2>21. CASE JoinReader
    <3>1. QueuesOK'
      BY <2>21 DEF JoinReader, ShutdownStep, ValuesOK, QueuesOK
    <3> QED
      BY <2>21, <3>1 DEF JoinReader, ShutdownStep, ValuesOK, QueuesOK
  <2>22. CASE CancelAllInFlight
    <3>1. QueuesOK'
      BY <2>22 DEF CancelAllInFlight, ShutdownStep, ValuesOK, QueuesOK
    <3> QED
      BY <2>22, <3>1 DEF CancelAllInFlight, ShutdownStep, ValuesOK, QueuesOK
  <2>23. CASE DrainInFlightCalls
    <3>1. QueuesOK'
      BY <2>23 DEF DrainInFlightCalls, ShutdownStep, ValuesOK, QueuesOK
    <3> QED
      BY <2>23, <3>1 DEF DrainInFlightCalls, ShutdownStep, ValuesOK, QueuesOK
  <2>24. CASE GraceExpires
    <3>1. QueuesOK'
      BY <2>24 DEF GraceExpires, ShutdownStep, ValuesOK, QueuesOK
    <3> QED
      BY <2>24, <3>1 DEF GraceExpires, ShutdownStep, ValuesOK, QueuesOK
  <2>25. CASE UseFreedServer
    <3>1. QueuesOK'
      BY <2>25 DEF UseFreedServer, ValuesOK, QueuesOK
    <3> QED
      BY <2>25, <3>1 DEF UseFreedServer, ValuesOK, QueuesOK
  <2>26. CASE UNCHANGED vars
    BY <2>26 DEF vars, ValuesOK, QueuesOK
  <2> QED
    BY <2>1, <2>2, <2>3, <2>4, <2>5, <2>6, <2>7, <2>8, <2>9, <2>10, <2>11, <2>12, <2>13, <2>14, <2>15, <2>16, <2>17, <2>18, <2>19, <2>20, <2>21, <2>22, <2>23, <2>24, <2>25, <2>26
    DEF Next, Reader, Watchdog, Game, Shutdown
<1> QED
  BY <1>1, <1>2, PTL DEF Spec

(* What any thread works on has arrived; the reader has the calls whose   *)
(* continuation is not attached; a call that expires was cancelled first.  *)
KnownInv ==
  /\ \A c \in Calls : c \notin Elements(arrived) => stage[c] = "none"
  /\ tracked \cup watch \cup expired \cup Elements(queue) \cup Elements(due) \subseteq Elements(arrived)
  /\ \A c \in tracked : id[c] \in Ids
  /\ rpc \in {"watch", "schedule", "attach"} => rcall \in Elements(arrived) /\ stage[rcall] = "none"
  /\ wpc = "complete" => wcall \in Elements(arrived) /\ wcall \in cancelled
  /\ gpc = "body" => gcall \in Elements(arrived)

LEMMA KnownCorrect == Spec => []KnownInv
<1> USE DEF KnownInv, ids, promise, reader, watchdog, frames, game, server
<1>1. Init => KnownInv
  <2>1. Elements(<<>>) = {}
    BY DEF Elements
  <2> QED
    BY <2>1 DEF Init
<1>2. KnownInv /\ ValuesOK /\ [Next]_vars => KnownInv'
  <2> SUFFICES ASSUME KnownInv, ValuesOK, [Next]_vars PROVE KnownInv'
    OBVIOUS
  <2>1. ASSUME NEW c \in Calls, NEW i \in Ids \cup {NoId}, ReceiveCall(c, i) PROVE KnownInv'
    <3>1. arrived' = Append(arrived, c) /\ arrived \in Seq(Calls)
      BY <2>1 DEF ReceiveCall, ValuesOK, QueuesOK
    <3>2. Elements(arrived') = Elements(arrived) \cup {c}
      BY <3>1, ElementsOfAppend
    <3>3. c \notin Elements(arrived) /\ rpc' = "watch" /\ rcall' = c /\ tracked' \subseteq tracked \cup {c}
      BY <2>1 DEF ReceiveCall
    <3>4. UNCHANGED <<stage, cancelled, watchdog, frames, game>>
      BY <2>1 DEF ReceiveCall
    <3>5. id' = [id EXCEPT ![c] = i] /\ c \notin tracked /\ (c \in tracked' => i \in Ids)
      BY <2>1, <3>3 DEF ReceiveCall
    <3>6. \A d \in tracked' : id'[d] \in Ids
      BY <3>3, <3>5 DEF ValuesOK
    <3> QED
      BY <3>2, <3>3, <3>4, <3>6
  <2>2. ASSUME NEW i \in Ids, HandleToolCancel(i) PROVE KnownInv'
    BY <2>2 DEF HandleToolCancel, RunsContinuation, ValuesOK
  <2>3. ASSUME NEW c \in Calls, RetryDelayElapses(c) PROVE KnownInv'
    BY <2>3 DEF RetryDelayElapses, RunsContinuation, ValuesOK
  <2>4. ASSUME NEW c \in Calls, ExpireEntry(c) PROVE KnownInv'
    BY <2>4 DEF ExpireEntry, RunsContinuation, ValuesOK
  <2>5. CASE Watch
    BY <2>5 DEF Watch, RunsContinuation, ValuesOK
  <2>6. CASE Schedule
    <3>1. queue' = Append(queue, rcall) /\ rcall \in Calls /\ queue \in Seq(Calls)
      BY <2>6 DEF Schedule, ValuesOK, QueuesOK
    <3>2. Elements(queue') = Elements(queue) \cup {rcall}
      BY <3>1, ElementsOfAppend
    <3> QED
      BY <2>6, <3>2 DEF Schedule
  <2>7. CASE AttachContinuation
    BY <2>7 DEF AttachContinuation, RunsContinuation, ValuesOK
  <2>8. CASE ReaderDelivers
    BY <2>8 DEF ReaderDelivers, Continue, SendResponse, RemoveFlag, CountOut, RunsContinuation, ValuesOK
  <2>9. CASE ScanEntries
    BY <2>9 DEF ScanEntries, RunsContinuation, ValuesOK
  <2>10. CASE CompleteExpired
    BY <2>10 DEF CompleteExpired, Complete, RunsContinuation, ValuesOK
  <2>11. CASE WatchdogDelivers
    BY <2>11 DEF WatchdogDelivers, Continue, SendResponse, RemoveFlag, CountOut, RunsContinuation, ValuesOK
  <2>12. CASE EndBatch
    BY <2>12 DEF EndBatch, RunsContinuation, ValuesOK
  <2>13. CASE Drain
    <3>1. PICK take \in InOrder(Ready), leave \in InOrder(DOMAIN queue \ Ready) :
            /\ due' = [i \in DOMAIN take |-> queue[take[i]]]
            /\ queue' = [i \in DOMAIN leave |-> queue[leave[i]]]
      BY <2>13 DEF Drain
    <3>2. Ready \subseteq DOMAIN queue /\ (DOMAIN queue \ Ready) \subseteq DOMAIN queue /\ queue \in Seq(Calls)
      BY DEF Ready, ValuesOK, QueuesOK
    <3>3. Elements(due') \subseteq Elements(queue) /\ Elements(queue') \subseteq Elements(queue)
      BY <3>1, <3>2, PicksAreTyped
    <3> QED
      BY <2>13, <3>3 DEF Drain
  <2>14. CASE SkipJob
    <3>1. due # <<>> /\ due \in Seq(Calls)
      BY <2>14 DEF SkipJob, ValuesOK, QueuesOK
    <3>2. Elements(Tail(due)) \subseteq Elements(due) /\ Head(due) \in Elements(due)
      BY <3>1, ElementsOfTail
    <3> QED
      BY <2>14, <3>2 DEF SkipJob, Complete, RunsContinuation, ValuesOK
  <2>15. CASE RunBody
    <3>1. due # <<>> /\ due \in Seq(Calls)
      BY <2>15 DEF RunBody, ValuesOK, QueuesOK
    <3>2. Elements(Tail(due)) \subseteq Elements(due) /\ Head(due) \in Elements(due)
      BY <3>1, ElementsOfTail
    <3> QED
      BY <2>15, <3>2 DEF RunBody, ValuesOK
  <2>16. CASE BodyReturns
    BY <2>16 DEF BodyReturns, Complete, RunsContinuation, ValuesOK
  <2>17. CASE BodyRetries
    <3>1. queue' = Append(queue, gcall) /\ gcall \in Calls /\ queue \in Seq(Calls)
      BY <2>17 DEF BodyRetries, ValuesOK, QueuesOK
    <3>2. Elements(queue') = Elements(queue) \cup {gcall}
      BY <3>1, ElementsOfAppend
    <3> QED
      BY <2>17, <3>2 DEF BodyRetries
  <2>18. CASE GameDelivers
    BY <2>18 DEF GameDelivers, Continue, SendResponse, RemoveFlag, CountOut, RunsContinuation, ValuesOK
  <2>19. CASE EnginePreExit
    BY <2>19 DEF EnginePreExit, RunsContinuation, ValuesOK
  <2>20. CASE BeginShutdown
    BY <2>20 DEF BeginShutdown, ShutdownStep, RunsContinuation, ValuesOK
  <2>21. CASE JoinReader
    BY <2>21 DEF JoinReader, ShutdownStep, RunsContinuation, ValuesOK
  <2>22. CASE CancelAllInFlight
    BY <2>22 DEF CancelAllInFlight, ShutdownStep, RunsContinuation, ValuesOK
  <2>23. CASE DrainInFlightCalls
    BY <2>23 DEF DrainInFlightCalls, ShutdownStep, RunsContinuation, ValuesOK
  <2>24. CASE GraceExpires
    BY <2>24 DEF GraceExpires, ShutdownStep, RunsContinuation, ValuesOK
  <2>25. CASE UseFreedServer
    BY <2>25 DEF UseFreedServer, RunsContinuation, ValuesOK
  <2>26. CASE UNCHANGED vars
    BY <2>26 DEF vars
  <2> QED
    BY <2>1, <2>2, <2>3, <2>4, <2>5, <2>6, <2>7, <2>8, <2>9, <2>10, <2>11, <2>12, <2>13, <2>14, <2>15, <2>16, <2>17, <2>18, <2>19, <2>20, <2>21, <2>22, <2>23, <2>24, <2>25, <2>26
    DEF Next, Reader, Watchdog, Game, Shutdown
<1> QED
  BY <1>1, <1>2, ValuesCorrect, PTL DEF Spec

(* A response is given by the first step of the continuation, which only  *)
(* the decision of the call starts.                                        *)
AnswerInv ==
  \A c \in Calls :
    /\ answers[c] = IF stage[c] \in {"untrack", "retire", "done"} THEN 1 ELSE 0
    /\ stage[c] = "attached" => outcome[c] = "open"
    /\ stage[c] \in {"respond", "untrack", "retire", "done"} => outcome[c] # "open"

LEMMA AnswersCorrect == Spec => []AnswerInv
<1> USE DEF AnswerInv, KnownInv, Stages, ids, promise, reader, watchdog, frames, game, server
<1>1. Init => AnswerInv
  BY DEF Init
<1>2. AnswerInv /\ ValuesOK /\ KnownInv /\ [Next]_vars => AnswerInv'
  <2> SUFFICES ASSUME AnswerInv, ValuesOK, KnownInv, [Next]_vars PROVE AnswerInv'
    OBVIOUS
  <2>1. ASSUME NEW c \in Calls, NEW i \in Ids \cup {NoId}, ReceiveCall(c, i) PROVE AnswerInv'
    BY <2>1 DEF ReceiveCall, RunsContinuation, Wins, ValuesOK
  <2>2. ASSUME NEW i \in Ids, HandleToolCancel(i) PROVE AnswerInv'
    BY <2>2 DEF HandleToolCancel, RunsContinuation, Wins, ValuesOK
  <2>3. ASSUME NEW c \in Calls, RetryDelayElapses(c) PROVE AnswerInv'
    BY <2>3 DEF RetryDelayElapses, RunsContinuation, Wins, ValuesOK
  <2>4. ASSUME NEW c \in Calls, ExpireEntry(c) PROVE AnswerInv'
    BY <2>4 DEF ExpireEntry, RunsContinuation, Wins, ValuesOK
  <2>5. CASE Watch
    BY <2>5 DEF Watch, RunsContinuation, Wins, ValuesOK
  <2>6. CASE Schedule
    BY <2>6 DEF Schedule, RunsContinuation, Wins, ValuesOK
  <2>7. CASE AttachContinuation
    BY <2>7 DEF AttachContinuation, RunsContinuation, Wins, ValuesOK
  <2>8. CASE ReaderDelivers
    BY <2>8 DEF ReaderDelivers, Continue, SendResponse, RemoveFlag, CountOut, RunsContinuation, Wins, ValuesOK
  <2>9. CASE ScanEntries
    BY <2>9 DEF ScanEntries, RunsContinuation, Wins, ValuesOK
  <2>10. CASE CompleteExpired
    BY <2>10 DEF CompleteExpired, Complete, RunsContinuation, Wins, ValuesOK
  <2>11. CASE WatchdogDelivers
    BY <2>11 DEF WatchdogDelivers, Continue, SendResponse, RemoveFlag, CountOut, RunsContinuation, Wins, ValuesOK
  <2>12. CASE EndBatch
    BY <2>12 DEF EndBatch, RunsContinuation, Wins, ValuesOK
  <2>13. CASE Drain
    BY <2>13 DEF Drain, RunsContinuation, Wins, ValuesOK
  <2>14. CASE SkipJob
    BY <2>14 DEF SkipJob, Complete, RunsContinuation, Wins, ValuesOK
  <2>15. CASE RunBody
    BY <2>15 DEF RunBody, RunsContinuation, Wins, ValuesOK
  <2>16. CASE BodyReturns
    BY <2>16 DEF BodyReturns, Complete, RunsContinuation, Wins, ValuesOK
  <2>17. CASE BodyRetries
    BY <2>17 DEF BodyRetries, RunsContinuation, Wins, ValuesOK
  <2>18. CASE GameDelivers
    BY <2>18 DEF GameDelivers, Continue, SendResponse, RemoveFlag, CountOut, RunsContinuation, Wins, ValuesOK
  <2>19. CASE EnginePreExit
    BY <2>19 DEF EnginePreExit, RunsContinuation, Wins, ValuesOK
  <2>20. CASE BeginShutdown
    BY <2>20 DEF BeginShutdown, ShutdownStep, RunsContinuation, Wins, ValuesOK
  <2>21. CASE JoinReader
    BY <2>21 DEF JoinReader, ShutdownStep, RunsContinuation, Wins, ValuesOK
  <2>22. CASE CancelAllInFlight
    BY <2>22 DEF CancelAllInFlight, ShutdownStep, RunsContinuation, Wins, ValuesOK
  <2>23. CASE DrainInFlightCalls
    BY <2>23 DEF DrainInFlightCalls, ShutdownStep, RunsContinuation, Wins, ValuesOK
  <2>24. CASE GraceExpires
    BY <2>24 DEF GraceExpires, ShutdownStep, RunsContinuation, Wins, ValuesOK
  <2>25. CASE UseFreedServer
    BY <2>25 DEF UseFreedServer, RunsContinuation, Wins, ValuesOK
  <2>26. CASE UNCHANGED vars
    BY <2>26 DEF vars
  <2> QED
    BY <2>1, <2>2, <2>3, <2>4, <2>5, <2>6, <2>7, <2>8, <2>9, <2>10, <2>11, <2>12, <2>13, <2>14, <2>15, <2>16, <2>17, <2>18, <2>19, <2>20, <2>21, <2>22, <2>23, <2>24, <2>25, <2>26
    DEF Next, Reader, Watchdog, Game, Shutdown
<1> QED
  BY <1>1, <1>2, ValuesCorrect, KnownCorrect, PTL DEF Spec

(* The continuation gives up the flag of its own call only.                *)
LEMMA ContinueKeepsOwners ==
  ASSUME ValuesOK, KnownInv, CancelHitsItsOwner, NEW c \in Calls, Continue(c)
  PROVE  CancelHitsItsOwner'
<1> USE DEF CancelHitsItsOwner, ValuesOK, KnownInv
<1>0. UNCHANGED <<id, tracked>>
  BY DEF Continue
<1>1. CASE SendResponse(c)
  BY <1>0, <1>1 DEF SendResponse
<1>2. CASE RemoveFlag(c)
  <2>1. stage[c] = "untrack" /\ stage' = [stage EXCEPT ![c] = "retire"]
    BY <1>2 DEF RemoveFlag
  <2>2. CASE c \in tracked
    <3>1. flags' = [flags EXCEPT ![id[c]] = None] /\ id[c] \in Ids /\ flags[id[c]] = c
      BY <1>2, <2>1, <2>2 DEF RemoveFlag
    <3>2. ASSUME NEW i \in Ids, flags'[i] # None
          PROVE  flags'[i] \in tracked' /\ id'[flags'[i]] = i /\ stage'[flags'[i]] \notin {"retire", "done"}
      <4>1. i # id[c] /\ flags'[i] = flags[i]
        BY <3>1, <3>2
      <4>2. flags[i] \in tracked /\ id[flags[i]] = i /\ stage[flags[i]] \notin {"retire", "done"}
        BY <3>2, <4>1
      <4>3. flags[i] # c
        BY <4>1, <4>2
      <4> QED
        BY <1>0, <2>1, <4>1, <4>2, <4>3
    <3>3. ASSUME NEW d \in tracked', stage'[d] \notin {"retire", "done"} PROVE flags'[id'[d]] = d
      <4>1. d # c /\ d \in Calls
        BY <1>0, <2>1, <3>3
      <4>2. flags[id[d]] = d /\ id[d] \in Ids
        BY <1>0, <2>1, <3>3, <4>1
      <4>3. id[d] # id[c]
        BY <3>1, <4>1, <4>2
      <4> QED
        BY <1>0, <3>1, <4>2, <4>3
    <3> QED
      BY <3>2, <3>3
  <2>3. CASE c \notin tracked
    BY <1>0, <1>2, <2>1, <2>3 DEF RemoveFlag
  <2> QED
    BY <2>2, <2>3
<1>3. CASE CountOut(c)
  BY <1>0, <1>3 DEF CountOut
<1> QED
  BY <1>1, <1>2, <1>3 DEF Continue

(* A flag belongs to the live call whose id names it.                      *)
LEMMA OwnersCorrect == Spec => []CancelHitsItsOwner
<1> USE DEF CancelHitsItsOwner, KnownInv, ids, promise, reader, watchdog, frames, game, server
<1>1. Init => CancelHitsItsOwner
  BY CallsAssumption DEF Init
<1>2. CancelHitsItsOwner /\ ValuesOK /\ KnownInv /\ [Next]_vars => CancelHitsItsOwner'
  <2> SUFFICES ASSUME CancelHitsItsOwner, ValuesOK, KnownInv, [Next]_vars PROVE CancelHitsItsOwner'
    OBVIOUS
  <2>1. ASSUME NEW c \in Calls, NEW i \in Ids \cup {NoId}, ReceiveCall(c, i) PROVE CancelHitsItsOwner'
    <3>1. /\ c \notin tracked /\ stage[c] = "none" /\ \A j \in Ids : flags[j] # c
          /\ id' = [id EXCEPT ![c] = i] /\ stage' = stage
      BY <2>1, CallsAssumption DEF ReceiveCall
    <3>2. CASE i \in Ids /\ flags[i] = None
      <4>1. flags' = [flags EXCEPT ![i] = c] /\ tracked' = tracked \cup {c}
        BY <2>1, <3>2 DEF ReceiveCall
      <4>2. ASSUME NEW j \in Ids, flags'[j] # None
            PROVE  flags'[j] \in tracked' /\ id'[flags'[j]] = j /\ stage'[flags'[j]] \notin {"retire", "done"}
        BY <3>1, <3>2, <4>1, <4>2 DEF ValuesOK
      <4>3. ASSUME NEW d \in tracked', stage'[d] \notin {"retire", "done"} PROVE flags'[id'[d]] = d
        <5>1. CASE d = c
          BY <3>1, <3>2, <4>1, <5>1 DEF ValuesOK
        <5>2. CASE d # c
          <6>1. d \in tracked /\ d \in Calls /\ id'[d] = id[d] /\ id[d] \in Ids /\ flags[id[d]] = d
            BY <3>1, <4>1, <4>3, <5>2 DEF ValuesOK
          <6>2. id[d] # i
            BY <3>2, <6>1, CallsAssumption
          <6> QED
            BY <4>1, <6>1, <6>2 DEF ValuesOK
        <5> QED
          BY <5>1, <5>2
      <4> QED
        BY <4>2, <4>3
    <3>3. CASE ~(i \in Ids /\ flags[i] = None)
      <4>1. flags' = flags /\ tracked' = tracked
        BY <2>1, <3>3 DEF ReceiveCall
      <4> QED
        BY <3>1, <4>1 DEF ValuesOK
    <3> QED
      BY <3>2, <3>3
  <2>2. ASSUME NEW i \in Ids, HandleToolCancel(i) PROVE CancelHitsItsOwner'
    BY <2>2, CallsAssumption DEF HandleToolCancel, RunsContinuation, ValuesOK
  <2>3. ASSUME NEW c \in Calls, RetryDelayElapses(c) PROVE CancelHitsItsOwner'
    BY <2>3, CallsAssumption DEF RetryDelayElapses, RunsContinuation, ValuesOK
  <2>4. ASSUME NEW c \in Calls, ExpireEntry(c) PROVE CancelHitsItsOwner'
    BY <2>4, CallsAssumption DEF ExpireEntry, RunsContinuation, ValuesOK
  <2>5. CASE Watch
    BY <2>5, CallsAssumption DEF Watch, RunsContinuation, ValuesOK
  <2>6. CASE Schedule
    BY <2>6, CallsAssumption DEF Schedule, RunsContinuation, ValuesOK
  <2>7. CASE AttachContinuation
    BY <2>7, CallsAssumption DEF AttachContinuation, RunsContinuation, ValuesOK
  <2>8. CASE ReaderDelivers
    <3>1. rcall \in Calls /\ Continue(rcall)
      BY <2>8 DEF ReaderDelivers, ValuesOK
    <3> QED
      BY <3>1, ContinueKeepsOwners
  <2>9. CASE ScanEntries
    BY <2>9, CallsAssumption DEF ScanEntries, RunsContinuation, ValuesOK
  <2>10. CASE CompleteExpired
    BY <2>10, CallsAssumption DEF CompleteExpired, Complete, RunsContinuation, ValuesOK
  <2>11. CASE WatchdogDelivers
    <3>1. wcall \in Calls /\ Continue(wcall)
      BY <2>11 DEF WatchdogDelivers, ValuesOK
    <3> QED
      BY <3>1, ContinueKeepsOwners
  <2>12. CASE EndBatch
    BY <2>12, CallsAssumption DEF EndBatch, RunsContinuation, ValuesOK
  <2>13. CASE Drain
    BY <2>13, CallsAssumption DEF Drain, RunsContinuation, ValuesOK
  <2>14. CASE SkipJob
    BY <2>14, CallsAssumption DEF SkipJob, Complete, RunsContinuation, ValuesOK
  <2>15. CASE RunBody
    BY <2>15, CallsAssumption DEF RunBody, RunsContinuation, ValuesOK
  <2>16. CASE BodyReturns
    BY <2>16, CallsAssumption DEF BodyReturns, Complete, RunsContinuation, ValuesOK
  <2>17. CASE BodyRetries
    BY <2>17, CallsAssumption DEF BodyRetries, RunsContinuation, ValuesOK
  <2>18. CASE GameDelivers
    <3>1. gcall \in Calls /\ Continue(gcall)
      BY <2>18 DEF GameDelivers, ValuesOK
    <3> QED
      BY <3>1, ContinueKeepsOwners
  <2>19. CASE EnginePreExit
    BY <2>19, CallsAssumption DEF EnginePreExit, RunsContinuation, ValuesOK
  <2>20. CASE BeginShutdown
    BY <2>20, CallsAssumption DEF BeginShutdown, ShutdownStep, RunsContinuation, ValuesOK
  <2>21. CASE JoinReader
    BY <2>21, CallsAssumption DEF JoinReader, ShutdownStep, RunsContinuation, ValuesOK
  <2>22. CASE CancelAllInFlight
    BY <2>22, CallsAssumption DEF CancelAllInFlight, ShutdownStep, RunsContinuation, ValuesOK
  <2>23. CASE DrainInFlightCalls
    BY <2>23, CallsAssumption DEF DrainInFlightCalls, ShutdownStep, RunsContinuation, ValuesOK
  <2>24. CASE GraceExpires
    BY <2>24, CallsAssumption DEF GraceExpires, ShutdownStep, RunsContinuation, ValuesOK
  <2>25. CASE UseFreedServer
    BY <2>25, CallsAssumption DEF UseFreedServer, RunsContinuation, ValuesOK
  <2>26. CASE UNCHANGED vars
    BY <2>26 DEF vars
  <2> QED
    BY <2>1, <2>2, <2>3, <2>4, <2>5, <2>6, <2>7, <2>8, <2>9, <2>10, <2>11, <2>12, <2>13, <2>14, <2>15, <2>16, <2>17, <2>18, <2>19, <2>20, <2>21, <2>22, <2>23, <2>24, <2>25, <2>26
    DEF Next, Reader, Watchdog, Game, Shutdown
<1> QED
  BY <1>1, <1>2, ValuesCorrect, KnownCorrect, PTL DEF Spec

(* The calls that are not over.                                            *)
Unfinished == {c \in Elements(arrived) : stage[c] # "done"}

(* They are finitely many, and so can be counted.                          *)
LEMMA UnfinishedIsFinite == ASSUME ValuesOK PROVE IsFiniteSet(Unfinished)
  BY CallsAssumption, FS_Subset, ElementsAreTyped DEF Unfinished, ValuesOK, QueuesOK

(* The continuation counts its call out when it ends it.                   *)
LEMMA ContinueCounts ==
  ASSUME ValuesOK, KnownInv, InFlightIsExact, NEW c \in Calls, Continue(c)
  PROVE  InFlightIsExact'
<1>0. arrived' = arrived /\ c \in Elements(arrived) /\ stage \in [Calls -> Stages] /\ Elements(arrived) \subseteq Calls
  BY ElementsAreTyped DEF Continue, SendResponse, RemoveFlag, CountOut, KnownInv, ValuesOK, QueuesOK
<1>1. CASE SendResponse(c) \/ RemoveFlag(c)
  <2>1. Unfinished' = Unfinished /\ inFlight' = inFlight
    BY <1>0, <1>1 DEF SendResponse, RemoveFlag, Unfinished
  <2> QED
    BY <2>1 DEF Unfinished, InFlightIsExact
<1>2. CASE CountOut(c)
  <2>1. Unfinished' = Unfinished \ {c} /\ c \in Unfinished /\ inFlight' = inFlight - 1
    BY <1>0, <1>2 DEF CountOut, Unfinished
  <2>2. Cardinality(Unfinished') = Cardinality(Unfinished) - 1
    BY <2>1, UnfinishedIsFinite, FS_RemoveElement
  <2> QED
    BY <2>1, <2>2 DEF Unfinished, InFlightIsExact
<1> QED
  BY <1>1, <1>2 DEF Continue

(* The count is exact.                                                     *)
LEMMA CountCorrect == Spec => []InFlightIsExact
<1> USE DEF InFlightIsExact, ids, promise, reader, watchdog, frames, game, server
<1>1. Init => InFlightIsExact
  <2> SUFFICES ASSUME Init PROVE InFlightIsExact
    OBVIOUS
  <2>1. {c \in Elements(arrived) : stage[c] # "done"} = {}
    BY DEF Init, Elements
  <2> QED
    BY <2>1, FS_EmptySet DEF Init
<1>2. InFlightIsExact /\ ValuesOK /\ KnownInv /\ [Next]_vars => InFlightIsExact'
  <2> SUFFICES ASSUME InFlightIsExact, ValuesOK, KnownInv, [Next]_vars PROVE InFlightIsExact'
    OBVIOUS
  <2>1. ASSUME NEW c \in Calls, NEW i \in Ids \cup {NoId}, ReceiveCall(c, i) PROVE InFlightIsExact'
    <3>1. arrived' = Append(arrived, c) /\ arrived \in Seq(Calls) /\ c \notin Elements(arrived)
      BY <2>1 DEF ReceiveCall, ValuesOK, QueuesOK
    <3>2. Elements(arrived') = Elements(arrived) \cup {c}
      BY <3>1, ElementsOfAppend
    <3>3. stage' = stage /\ stage[c] = "none" /\ inFlight' = inFlight + 1
      BY <2>1, <3>1 DEF ReceiveCall, KnownInv
    <3>4. Unfinished' = Unfinished \cup {c} /\ c \notin Unfinished
      BY <3>1, <3>2, <3>3 DEF Unfinished
    <3>5. Cardinality(Unfinished') = Cardinality(Unfinished) + 1
      BY <3>4, UnfinishedIsFinite, FS_AddElement
    <3> QED
      BY <3>3, <3>5 DEF Unfinished
  <2>2. ASSUME NEW i \in Ids, HandleToolCancel(i) PROVE InFlightIsExact'
    <3>1. Unfinished' = Unfinished /\ inFlight' = inFlight
      BY <2>2 DEF HandleToolCancel, Unfinished, RunsContinuation, ValuesOK
    <3> QED
      BY <3>1 DEF Unfinished
  <2>3. ASSUME NEW c \in Calls, RetryDelayElapses(c) PROVE InFlightIsExact'
    <3>1. Unfinished' = Unfinished /\ inFlight' = inFlight
      BY <2>3 DEF RetryDelayElapses, Unfinished, RunsContinuation, ValuesOK
    <3> QED
      BY <3>1 DEF Unfinished
  <2>4. ASSUME NEW c \in Calls, ExpireEntry(c) PROVE InFlightIsExact'
    <3>1. Unfinished' = Unfinished /\ inFlight' = inFlight
      BY <2>4 DEF ExpireEntry, Unfinished, RunsContinuation, ValuesOK
    <3> QED
      BY <3>1 DEF Unfinished
  <2>5. CASE Watch
    <3>1. Unfinished' = Unfinished /\ inFlight' = inFlight
      BY <2>5 DEF Watch, Unfinished, RunsContinuation, ValuesOK
    <3> QED
      BY <3>1 DEF Unfinished
  <2>6. CASE Schedule
    <3>1. Unfinished' = Unfinished /\ inFlight' = inFlight
      BY <2>6 DEF Schedule, Unfinished, RunsContinuation, ValuesOK
    <3> QED
      BY <3>1 DEF Unfinished
  <2>7. CASE AttachContinuation
    <3>1. /\ stage \in [Calls -> Stages] /\ Elements(arrived) \subseteq Calls
          /\ stage[rcall] = "none" /\ UNCHANGED <<arrived, inFlight>>
          /\ \E x \in {"attached", "respond"} : stage' = [stage EXCEPT ![rcall] = x]
      BY <2>7, ElementsAreTyped DEF AttachContinuation, KnownInv, ValuesOK, QueuesOK
    <3>2. \A c \in Calls : stage'[c] = "done" <=> stage[c] = "done"
      BY <3>1
    <3>3. Unfinished' = Unfinished /\ inFlight' = inFlight
      BY <3>1, <3>2 DEF Unfinished
    <3> QED
      BY <3>3 DEF Unfinished
  <2>8. CASE ReaderDelivers
    <3>1. rcall \in Calls /\ Continue(rcall)
      BY <2>8 DEF ReaderDelivers, ValuesOK
    <3> QED
      BY <3>1, ContinueCounts
  <2>9. CASE ScanEntries
    <3>1. Unfinished' = Unfinished /\ inFlight' = inFlight
      BY <2>9 DEF ScanEntries, Unfinished, RunsContinuation, ValuesOK
    <3> QED
      BY <3>1 DEF Unfinished
  <2>10. CASE CompleteExpired
    <3>1. Unfinished' = Unfinished /\ inFlight' = inFlight
      BY <2>10 DEF CompleteExpired, Complete, Unfinished, RunsContinuation, ValuesOK
    <3> QED
      BY <3>1 DEF Unfinished
  <2>11. CASE WatchdogDelivers
    <3>1. wcall \in Calls /\ Continue(wcall)
      BY <2>11 DEF WatchdogDelivers, ValuesOK
    <3> QED
      BY <3>1, ContinueCounts
  <2>12. CASE EndBatch
    <3>1. Unfinished' = Unfinished /\ inFlight' = inFlight
      BY <2>12 DEF EndBatch, Unfinished, RunsContinuation, ValuesOK
    <3> QED
      BY <3>1 DEF Unfinished
  <2>13. CASE Drain
    <3>1. Unfinished' = Unfinished /\ inFlight' = inFlight
      BY <2>13 DEF Drain, Unfinished, RunsContinuation, ValuesOK
    <3> QED
      BY <3>1 DEF Unfinished
  <2>14. CASE SkipJob
    <3>1. Unfinished' = Unfinished /\ inFlight' = inFlight
      BY <2>14 DEF SkipJob, Complete, Unfinished, RunsContinuation, ValuesOK
    <3> QED
      BY <3>1 DEF Unfinished
  <2>15. CASE RunBody
    <3>1. Unfinished' = Unfinished /\ inFlight' = inFlight
      BY <2>15 DEF RunBody, Unfinished, RunsContinuation, ValuesOK
    <3> QED
      BY <3>1 DEF Unfinished
  <2>16. CASE BodyReturns
    <3>1. Unfinished' = Unfinished /\ inFlight' = inFlight
      BY <2>16 DEF BodyReturns, Complete, Unfinished, RunsContinuation, ValuesOK
    <3> QED
      BY <3>1 DEF Unfinished
  <2>17. CASE BodyRetries
    <3>1. Unfinished' = Unfinished /\ inFlight' = inFlight
      BY <2>17 DEF BodyRetries, Unfinished, RunsContinuation, ValuesOK
    <3> QED
      BY <3>1 DEF Unfinished
  <2>18. CASE GameDelivers
    <3>1. gcall \in Calls /\ Continue(gcall)
      BY <2>18 DEF GameDelivers, ValuesOK
    <3> QED
      BY <3>1, ContinueCounts
  <2>19. CASE EnginePreExit
    <3>1. Unfinished' = Unfinished /\ inFlight' = inFlight
      BY <2>19 DEF EnginePreExit, Unfinished, RunsContinuation, ValuesOK
    <3> QED
      BY <3>1 DEF Unfinished
  <2>20. CASE BeginShutdown
    <3>1. Unfinished' = Unfinished /\ inFlight' = inFlight
      BY <2>20 DEF BeginShutdown, ShutdownStep, Unfinished, RunsContinuation, ValuesOK
    <3> QED
      BY <3>1 DEF Unfinished
  <2>21. CASE JoinReader
    <3>1. Unfinished' = Unfinished /\ inFlight' = inFlight
      BY <2>21 DEF JoinReader, ShutdownStep, Unfinished, RunsContinuation, ValuesOK
    <3> QED
      BY <3>1 DEF Unfinished
  <2>22. CASE CancelAllInFlight
    <3>1. Unfinished' = Unfinished /\ inFlight' = inFlight
      BY <2>22 DEF CancelAllInFlight, ShutdownStep, Unfinished, RunsContinuation, ValuesOK
    <3> QED
      BY <3>1 DEF Unfinished
  <2>23. CASE DrainInFlightCalls
    <3>1. Unfinished' = Unfinished /\ inFlight' = inFlight
      BY <2>23 DEF DrainInFlightCalls, ShutdownStep, Unfinished, RunsContinuation, ValuesOK
    <3> QED
      BY <3>1 DEF Unfinished
  <2>24. CASE GraceExpires
    <3>1. Unfinished' = Unfinished /\ inFlight' = inFlight
      BY <2>24 DEF GraceExpires, ShutdownStep, Unfinished, RunsContinuation, ValuesOK
    <3> QED
      BY <3>1 DEF Unfinished
  <2>25. CASE UseFreedServer
    <3>1. Unfinished' = Unfinished /\ inFlight' = inFlight
      BY <2>25 DEF UseFreedServer, Unfinished, RunsContinuation, ValuesOK
    <3> QED
      BY <3>1 DEF Unfinished
  <2>26. CASE UNCHANGED vars
    BY <2>26 DEF vars
  <2> QED
    BY <2>1, <2>2, <2>3, <2>4, <2>5, <2>6, <2>7, <2>8, <2>9, <2>10, <2>11, <2>12, <2>13, <2>14, <2>15, <2>16, <2>17, <2>18, <2>19, <2>20, <2>21, <2>22, <2>23, <2>24, <2>25, <2>26
    DEF Next, Reader, Watchdog, Game, Shutdown
<1> QED
  BY <1>1, <1>2, ValuesCorrect, KnownCorrect, PTL DEF Spec

(* Every step of the threads is a step of the contract, or none of its business. *)
LEMMA StepsKeepContract ==
  ASSUME ValuesOK, KnownInv, CancelHitsItsOwner, [Next]_vars
  PROVE  [Contract!Next]_(Contract!contractVars)
<1> USE DEF ids, promise, reader, watchdog, frames, game, server
<1>1. ASSUME NEW c \in Calls, NEW i \in Ids \cup {NoId}, ReceiveCall(c, i) PROVE [Contract!Next]_(Contract!contractVars)
  <2>1. arrived' = Append(arrived, c) /\ arrived \in Seq(Calls) /\ c \notin Elements(arrived)
    BY <1>1 DEF ReceiveCall, ValuesOK, QueuesOK
  <2>2. Elements(arrived') = Elements(arrived) \cup {c}
    BY <2>1, ElementsOfAppend
  <2>3. Contract!Accept(c)
    BY <1>1, <2>1, <2>2 DEF ReceiveCall, Contract!Accept
  <2> QED
    BY <2>3 DEF Contract!Next
<1>2. ASSUME NEW i \in Ids, HandleToolCancel(i) PROVE [Contract!Next]_(Contract!contractVars)
  <2>1. {flags[i]} \in SUBSET Calls /\ {flags[i]} \subseteq Elements(arrived)
    BY <1>2 DEF HandleToolCancel, CancelHitsItsOwner, ValuesOK, KnownInv
  <2>2. Contract!Cancel({flags[i]})
    BY <1>2, <2>1 DEF HandleToolCancel, Contract!Cancel
  <2> QED
    BY <2>1, <2>2 DEF Contract!Next
<1>3. ASSUME NEW c \in Calls, RetryDelayElapses(c) PROVE [Contract!Next]_(Contract!contractVars)
  <2>1. UNCHANGED <<arrived, cancelled, outcome>> /\ (gpc = "body" => UNCHANGED gcall) /\ (gpc' = "body" <=> gpc = "body")
    BY <1>3 DEF RetryDelayElapses
  <2> QED
    BY <2>1 DEF Contract!contractVars
<1>4. ASSUME NEW c \in Calls, ExpireEntry(c) PROVE [Contract!Next]_(Contract!contractVars)
  <2>1. {c} \in SUBSET Calls /\ {c} \subseteq Elements(arrived)
    BY <1>4 DEF ExpireEntry, KnownInv
  <2>2. Contract!Cancel({c})
    BY <1>4, <2>1 DEF ExpireEntry, Contract!Cancel
  <2> QED
    BY <2>1, <2>2 DEF Contract!Next
<1>5. CASE Watch
  <2>1. UNCHANGED <<arrived, cancelled, outcome>> /\ (gpc = "body" => UNCHANGED gcall) /\ (gpc' = "body" <=> gpc = "body")
    BY <1>5 DEF Watch
  <2> QED
    BY <2>1 DEF Contract!contractVars
<1>6. CASE Schedule
  <2>1. UNCHANGED <<arrived, cancelled, outcome>> /\ (gpc = "body" => UNCHANGED gcall) /\ (gpc' = "body" <=> gpc = "body")
    BY <1>6 DEF Schedule
  <2> QED
    BY <2>1 DEF Contract!contractVars
<1>7. CASE AttachContinuation
  <2>1. UNCHANGED <<arrived, cancelled, outcome>> /\ (gpc = "body" => UNCHANGED gcall) /\ (gpc' = "body" <=> gpc = "body")
    BY <1>7 DEF AttachContinuation
  <2> QED
    BY <2>1 DEF Contract!contractVars
<1>8. CASE ReaderDelivers
  <2>1. UNCHANGED <<arrived, cancelled, outcome>> /\ (gpc = "body" => UNCHANGED gcall) /\ (gpc' = "body" <=> gpc = "body")
    BY <1>8 DEF ReaderDelivers, Continue, SendResponse, RemoveFlag, CountOut
  <2> QED
    BY <2>1 DEF Contract!contractVars
<1>9. CASE ScanEntries
  <2>1. UNCHANGED <<arrived, cancelled, outcome>> /\ (gpc = "body" => UNCHANGED gcall) /\ (gpc' = "body" <=> gpc = "body")
    BY <1>9 DEF ScanEntries
  <2> QED
    BY <2>1 DEF Contract!contractVars
<1>10. CASE CompleteExpired
  <2>1. wcall \in Calls /\ wcall \in Elements(arrived) /\ wcall \in cancelled
    BY <1>10 DEF CompleteExpired, ValuesOK, KnownInv
  <2>2. CASE Wins(wcall)
    <3>1. Contract!Decide(wcall)
      BY <1>10, <2>1, <2>2 DEF CompleteExpired, Complete, Wins, Contract!Decide
    <3> QED
      BY <2>1, <3>1 DEF Contract!Next
  <2>3. CASE ~Wins(wcall)
    BY <1>10, <2>3 DEF CompleteExpired, Complete, Contract!contractVars
  <2> QED
    BY <2>2, <2>3
<1>11. CASE WatchdogDelivers
  <2>1. UNCHANGED <<arrived, cancelled, outcome>> /\ (gpc = "body" => UNCHANGED gcall) /\ (gpc' = "body" <=> gpc = "body")
    BY <1>11 DEF WatchdogDelivers, Continue, SendResponse, RemoveFlag, CountOut
  <2> QED
    BY <2>1 DEF Contract!contractVars
<1>12. CASE EndBatch
  <2>1. UNCHANGED <<arrived, cancelled, outcome>> /\ (gpc = "body" => UNCHANGED gcall) /\ (gpc' = "body" <=> gpc = "body")
    BY <1>12 DEF EndBatch
  <2> QED
    BY <2>1 DEF Contract!contractVars
<1>13. CASE Drain
  <2>1. UNCHANGED <<arrived, cancelled, outcome>> /\ (gpc = "body" => UNCHANGED gcall) /\ (gpc' = "body" <=> gpc = "body")
    BY <1>13 DEF Drain
  <2> QED
    BY <2>1 DEF Contract!contractVars
<1>14. CASE SkipJob
  <2> DEFINE c == Head(due)
  <2>1. due # <<>> /\ due \in Seq(Calls)
    BY <1>14 DEF SkipJob, ValuesOK, QueuesOK
  <2>2. c \in Elements(due) /\ Elements(due) \subseteq Calls
    BY <2>1, ElementsOfTail, ElementsAreTyped
  <2>3. c \in Calls /\ c \in Elements(arrived)
    BY <2>2 DEF KnownInv
  <2>4. /\ Skips(c) /\ Complete(c, "notRun") /\ gpc = "idle" /\ gpc' # "body"
        /\ UNCHANGED <<arrived, cancelled>>
    BY <1>14 DEF SkipJob
  <2> HIDE DEF c
  <2>5. CASE Wins(c)
    <3>1. Contract!Decide(c)
      BY <2>3, <2>4, <2>5 DEF Complete, Skips, Wins, Contract!Decide
    <3> QED
      BY <2>3, <3>1 DEF Contract!Next
  <2>6. CASE ~Wins(c)
    BY <2>4, <2>6 DEF Complete, Contract!contractVars
  <2> QED
    BY <2>5, <2>6
<1>15. CASE RunBody
  <2> DEFINE c == Head(due)
  <2>1. due # <<>> /\ due \in Seq(Calls)
    BY <1>15 DEF RunBody, ValuesOK, QueuesOK
  <2>2. c \in Elements(due) /\ Elements(due) \subseteq Calls
    BY <2>1, ElementsOfTail, ElementsAreTyped
  <2>3. c \in Calls /\ c \in Elements(arrived)
    BY <2>2 DEF KnownInv
  <2>4. /\ ~Skips(c) /\ gpc = "idle" /\ gpc' = "body" /\ gcall' = c
        /\ UNCHANGED <<arrived, cancelled, outcome>>
    BY <1>15 DEF RunBody
  <2> HIDE DEF c
  <2>5. Contract!Begin(c)
    BY <2>3, <2>4 DEF Skips, Contract!Begin
  <2> QED
    BY <2>3, <2>5 DEF Contract!Next
<1>16. CASE BodyReturns
  <2>1. /\ gpc = "body" /\ gpc' # "body" /\ Complete(gcall, "result")
        /\ UNCHANGED <<arrived, cancelled>>
    BY <1>16 DEF BodyReturns
  <2>2. Contract!Return
    BY <2>1 DEF Complete, Wins, Contract!Return
  <2> QED
    BY <2>2 DEF Contract!Next
<1>17. CASE BodyRetries
  <2>1. gpc = "body" /\ gpc' # "body" /\ UNCHANGED <<arrived, cancelled, outcome>>
    BY <1>17 DEF BodyRetries
  <2>2. Contract!Return
    BY <2>1 DEF Contract!Return
  <2> QED
    BY <2>2 DEF Contract!Next
<1>18. CASE GameDelivers
  <2>1. UNCHANGED <<arrived, cancelled, outcome>> /\ (gpc = "body" => UNCHANGED gcall) /\ (gpc' = "body" <=> gpc = "body")
    BY <1>18 DEF GameDelivers, Continue, SendResponse, RemoveFlag, CountOut
  <2> QED
    BY <2>1 DEF Contract!contractVars
<1>19. CASE EnginePreExit
  <2>1. UNCHANGED <<arrived, cancelled, outcome>> /\ (gpc = "body" => UNCHANGED gcall) /\ (gpc' = "body" <=> gpc = "body")
    BY <1>19 DEF EnginePreExit
  <2> QED
    BY <2>1 DEF Contract!contractVars
<1>20. CASE BeginShutdown
  <2>1. UNCHANGED <<arrived, cancelled, outcome>> /\ (gpc = "body" => UNCHANGED gcall) /\ (gpc' = "body" <=> gpc = "body")
    BY <1>20 DEF BeginShutdown, ShutdownStep
  <2> QED
    BY <2>1 DEF Contract!contractVars
<1>21. CASE JoinReader
  <2>1. UNCHANGED <<arrived, cancelled, outcome>> /\ (gpc = "body" => UNCHANGED gcall) /\ (gpc' = "body" <=> gpc = "body")
    BY <1>21 DEF JoinReader, ShutdownStep
  <2> QED
    BY <2>1 DEF Contract!contractVars
<1>22. CASE CancelAllInFlight
  <2> DEFINE S == {flags[i] : i \in Ids} \ {None}
  <2>1. S \in SUBSET Calls /\ S \subseteq Elements(arrived)
    BY DEF CancelHitsItsOwner, ValuesOK, KnownInv
  <2>2. Contract!Cancel(S)
    BY <1>22, <2>1 DEF CancelAllInFlight, ShutdownStep, Contract!Cancel
  <2> HIDE DEF S
  <2> QED
    BY <2>1, <2>2 DEF Contract!Next
<1>23. CASE DrainInFlightCalls
  <2>1. UNCHANGED <<arrived, cancelled, outcome>> /\ (gpc = "body" => UNCHANGED gcall) /\ (gpc' = "body" <=> gpc = "body")
    BY <1>23 DEF DrainInFlightCalls, ShutdownStep
  <2> QED
    BY <2>1 DEF Contract!contractVars
<1>24. CASE GraceExpires
  <2>1. UNCHANGED <<arrived, cancelled, outcome>> /\ (gpc = "body" => UNCHANGED gcall) /\ (gpc' = "body" <=> gpc = "body")
    BY <1>24 DEF GraceExpires, ShutdownStep
  <2> QED
    BY <2>1 DEF Contract!contractVars
<1>25. CASE UseFreedServer
  <2>1. UNCHANGED <<arrived, cancelled, outcome>> /\ (gpc = "body" => UNCHANGED gcall) /\ (gpc' = "body" <=> gpc = "body")
    BY <1>25 DEF UseFreedServer
  <2> QED
    BY <2>1 DEF Contract!contractVars
<1>26. CASE UNCHANGED vars
  BY <1>26 DEF vars, Contract!contractVars
<1> QED
  BY <1>1, <1>2, <1>3, <1>4, <1>5, <1>6, <1>7, <1>8, <1>9, <1>10, <1>11, <1>12, <1>13, <1>14, <1>15, <1>16, <1>17, <1>18, <1>19, <1>20, <1>21, <1>22, <1>23, <1>24, <1>25, <1>26
  DEF Next, Reader, Watchdog, Game, Shutdown

-----------------------------------------------------------------------------
(* Types, and an in-flight count that is never negative.                   *)
THEOREM TypeCorrect == Spec => []TypeOK
<1>1. ValuesOK /\ FlagsOK /\ InFlightIsExact => TypeOK
  <2> SUFFICES ASSUME ValuesOK, FlagsOK, InFlightIsExact PROVE TypeOK
    OBVIOUS
  <2>1. inFlight \in Nat
    BY UnfinishedIsFinite, FS_CardinalityType DEF InFlightIsExact, Unfinished
  <2> QED
    BY <2>1 DEF TypeOK, ValuesOK, QueuesOK, FlagsOK
<1> QED
  BY <1>1, ValuesCorrect, FlagsCorrect, CountCorrect, PTL

(* A call is answered once, by the continuation of its decision.           *)
THEOREM AnsweredOnce == Spec => []OneAnswer
<1>1. AnswerInv => OneAnswer
  BY DEF AnswerInv, OneAnswer
<1> QED
  BY <1>1, AnswersCorrect, PTL

(* A cancel reaches the live call that owns the request id.                *)
THEOREM CancelReachesOwner == Spec => []CancelHitsItsOwner
  BY OwnersCorrect, PTL

(* DrainInFlightCalls reads the number of calls that are not over.         *)
THEOREM CountIsExact == Spec => []InFlightIsExact
  BY CountCorrect, PTL

(* Queue, watchdog and continuation together keep the dispatcher's contract. *)
THEOREM DispatcherKeepsContract == Spec => KeepsContract
<1>1. Init => Contract!Init
  <2>1. Elements(<<>>) = {}
    BY DEF Elements
  <2> QED
    BY <2>1 DEF Init, Contract!Init
<1>2. ValuesOK /\ KnownInv /\ CancelHitsItsOwner /\ [Next]_vars => [Contract!Next]_(Contract!contractVars)
  BY StepsKeepContract
<1> QED
  BY <1>1, <1>2, ValuesCorrect, KnownCorrect, OwnersCorrect, PTL DEF Spec, KeepsContract, Contract!Spec

(* The order of the bodies.  In a, the calls taken, c comes before d.      *)
Before(a, c, d) == \E p, q \in 1 .. Len(a) : p < q /\ a[p] = c /\ a[q] = d

(* The reader takes a call once, and hands over the one it took last.      *)
InputInv ==
  /\ \A p, q \in 1 .. Len(arrived) : arrived[p] = arrived[q] => p = q
  /\ rpc \in {"watch", "schedule"} => Len(arrived) > 0 /\ arrived[Len(arrived)] = rcall

(* Only a retry stands behind a call that the reader took later: in Due,   *)
(* in Pending, and in Pending behind one of Due.                           *)
OrderedIn(s, a, r) ==
  \A i, j \in 1 .. Len(s) : i < j /\ s[j] \notin r => ~Before(a, s[j], s[i])

OrderInv ==
  /\ OrderedIn(due, arrived, retried) /\ OrderedIn(queue, arrived, retried)
  /\ \A i \in 1 .. Len(due), j \in 1 .. Len(queue) :
       queue[j] \notin retried => ~Before(arrived, queue[j], due[i])

(* Nothing the reader took is before what it takes now.                    *)
LEMMA BeforeIsStable ==
  ASSUME ValuesOK, NEW c \in Calls, arrived' = Append(arrived, c), c \notin Elements(arrived),
         NEW x \in Elements(arrived), NEW y \in Elements(arrived), Before(arrived', x, y)
  PROVE  Before(arrived, x, y)
<1>1. arrived \in Seq(Calls) /\ Len(arrived) \in Nat
  BY LenProperties DEF ValuesOK, QueuesOK
<1>2. /\ Len(arrived') = Len(arrived) + 1
      /\ \A i \in 1 .. Len(arrived) : arrived'[i] = arrived[i]
      /\ arrived'[Len(arrived) + 1] = c
  BY <1>1, AppendProperties
<1>3. PICK p, q \in 1 .. Len(arrived') : p < q /\ arrived'[p] = x /\ arrived'[q] = y
  BY DEF Before
<1>4. y # c
  OBVIOUS
<1>5. q \in 1 .. Len(arrived) /\ p \in 1 .. Len(arrived)
  BY <1>1, <1>2, <1>3, <1>4
<1> QED
  BY <1>2, <1>3, <1>5 DEF Before

(* What was taken last is before nothing.                                  *)
LEMMA LastIsBeforeNothing ==
  ASSUME ValuesOK, InputInv, rpc \in {"watch", "schedule"}, NEW y
  PROVE  ~Before(arrived, rcall, y)
<1>1. Len(arrived) \in Nat
  BY LenProperties DEF ValuesOK, QueuesOK
<1>2. Len(arrived) \in 1 .. Len(arrived) /\ arrived[Len(arrived)] = rcall
  BY <1>1 DEF InputInv
<1> SUFFICES ASSUME NEW p \in 1 .. Len(arrived), NEW q \in 1 .. Len(arrived),
                    p < q, arrived[p] = rcall
             PROVE  FALSE
  BY DEF Before
<1>3. p = Len(arrived)
  BY <1>2 DEF InputInv
<1> QED
  BY <1>1, <1>3

LEMMA InputCorrect == Spec => []InputInv
<1> USE DEF InputInv, ids, reader
<1>1. Init => InputInv
  BY DEF Init
<1>2. InputInv /\ ValuesOK /\ [Next]_vars => InputInv'
  <2> SUFFICES ASSUME InputInv, ValuesOK, [Next]_vars PROVE InputInv'
    OBVIOUS
  <2>1. ASSUME NEW c \in Calls, NEW i \in Ids \cup {NoId}, ReceiveCall(c, i) PROVE InputInv'
    <3>1. arrived \in Seq(Calls) /\ arrived' = Append(arrived, c) /\ c \notin Elements(arrived)
      BY <2>1 DEF ReceiveCall, ValuesOK, QueuesOK
    <3>2. /\ Len(arrived) \in Nat /\ Len(arrived') = Len(arrived) + 1
          /\ \A k \in 1 .. Len(arrived) : arrived'[k] = arrived[k]
          /\ arrived'[Len(arrived) + 1] = c
      BY <3>1, AppendProperties, LenProperties
    <3>3. \A k \in 1 .. Len(arrived) : arrived[k] # c
      BY <3>1 DEF Elements
    <3>4. ASSUME NEW p \in 1 .. Len(arrived'), NEW q \in 1 .. Len(arrived'),
                 arrived'[p] = arrived'[q]
          PROVE  p = q
      <4>1. CASE p \in 1 .. Len(arrived) /\ q \in 1 .. Len(arrived)
        BY <3>2, <3>4, <4>1
      <4>2. CASE p = Len(arrived) + 1 /\ q \in 1 .. Len(arrived)
        BY <3>2, <3>3, <3>4, <4>2
      <4>3. CASE p \in 1 .. Len(arrived) /\ q = Len(arrived) + 1
        BY <3>2, <3>3, <3>4, <4>3
      <4>4. CASE p = Len(arrived) + 1 /\ q = Len(arrived) + 1
        BY <4>4
      <4> QED
        BY <3>2, <4>1, <4>2, <4>3, <4>4
    <3>5. rcall' = c
      BY <2>1 DEF ReceiveCall
    <3>6. Len(arrived') > 0 /\ arrived'[Len(arrived')] = rcall'
      BY <3>2, <3>5
    <3> QED
      BY <3>4, <3>6
  <2>2. ASSUME NEW i \in Ids, HandleToolCancel(i) PROVE InputInv'
    BY <2>2 DEF HandleToolCancel
  <2>3. ASSUME NEW c \in Calls, RetryDelayElapses(c) PROVE InputInv'
    BY <2>3 DEF RetryDelayElapses
  <2>4. ASSUME NEW c \in Calls, ExpireEntry(c) PROVE InputInv'
    BY <2>4 DEF ExpireEntry
  <2>5. CASE Watch
    BY <2>5 DEF Watch
  <2>6. CASE Schedule
    BY <2>6 DEF Schedule
  <2>7. CASE AttachContinuation
    BY <2>7 DEF AttachContinuation
  <2>8. CASE ReaderDelivers
    BY <2>8 DEF ReaderDelivers, Continue
  <2>9. CASE ScanEntries
    BY <2>9 DEF ScanEntries
  <2>10. CASE CompleteExpired
    BY <2>10 DEF CompleteExpired
  <2>11. CASE WatchdogDelivers
    BY <2>11 DEF WatchdogDelivers, Continue
  <2>12. CASE EndBatch
    BY <2>12 DEF EndBatch
  <2>13. CASE Drain
    BY <2>13 DEF Drain
  <2>14. CASE SkipJob
    BY <2>14 DEF SkipJob
  <2>15. CASE RunBody
    BY <2>15 DEF RunBody
  <2>16. CASE BodyReturns
    BY <2>16 DEF BodyReturns
  <2>17. CASE BodyRetries
    BY <2>17 DEF BodyRetries
  <2>18. CASE GameDelivers
    BY <2>18 DEF GameDelivers, Continue
  <2>19. CASE EnginePreExit
    BY <2>19 DEF EnginePreExit
  <2>20. CASE BeginShutdown
    BY <2>20 DEF BeginShutdown, ShutdownStep
  <2>21. CASE JoinReader
    BY <2>21 DEF JoinReader, ShutdownStep
  <2>22. CASE CancelAllInFlight
    BY <2>22 DEF CancelAllInFlight, ShutdownStep
  <2>23. CASE DrainInFlightCalls
    BY <2>23 DEF DrainInFlightCalls, ShutdownStep
  <2>24. CASE GraceExpires
    BY <2>24 DEF GraceExpires, ShutdownStep
  <2>25. CASE UseFreedServer
    BY <2>25 DEF UseFreedServer
  <2>26. CASE UNCHANGED vars
    BY <2>26 DEF vars
  <2> QED
    BY <2>1, <2>2, <2>3, <2>4, <2>5, <2>6, <2>7, <2>8, <2>9, <2>10, <2>11,
       <2>12, <2>13, <2>14, <2>15, <2>16, <2>17, <2>18, <2>19, <2>20, <2>21,
       <2>22, <2>23, <2>24, <2>25, <2>26
       DEF Next, Reader, Watchdog, Game, Shutdown
<1> QED
  BY <1>1, <1>2, ValuesCorrect, PTL DEF Spec

(* A sequence that loses its head stays ordered, and so does one that is   *)
(* picked in order from an ordered one.                                    *)
LEMMA TailIsOrdered ==
  ASSUME NEW s \in Seq(Calls), NEW a, NEW r, s # <<>>, OrderedIn(s, a, r)
  PROVE  OrderedIn(Tail(s), a, r)
<1>1. /\ Len(s) \in Nat \ {0} /\ Len(Tail(s)) = Len(s) - 1
      /\ \A i \in 1 .. Len(Tail(s)) : Tail(s)[i] = s[i + 1]
  BY HeadTailProperties, EmptySeq, LenProperties
<1> SUFFICES ASSUME NEW i \in 1 .. Len(Tail(s)), NEW j \in 1 .. Len(Tail(s)),
                    i < j, Tail(s)[j] \notin r
             PROVE  ~Before(a, Tail(s)[j], Tail(s)[i])
  BY DEF OrderedIn
<1>2. i + 1 \in 1 .. Len(s) /\ j + 1 \in 1 .. Len(s) /\ i + 1 < j + 1
  BY <1>1
<1> QED
  BY <1>1, <1>2 DEF OrderedIn

LEMMA PicksAreOrdered ==
  ASSUME NEW s \in Seq(Calls), NEW a, NEW r, OrderedIn(s, a, r),
         NEW I \in SUBSET DOMAIN s, NEW f \in InOrder(I)
  PROVE  OrderedIn([i \in DOMAIN f |-> s[f[i]]], a, r)
<1> DEFINE t == [i \in DOMAIN f |-> s[f[i]]]
<1>1. DOMAIN s = 1 .. Len(s) /\ Len(s) \in Nat
  BY LenProperties
<1>2. f \in [1 .. Cardinality(I) -> I] /\ \A i, j \in DOMAIN f : i < j => f[i] < f[j]
  BY DEF InOrder
<1>3. t \in Seq(Calls)
  BY PicksAreTyped
<1>4. 1 .. Len(t) = DOMAIN f
  BY <1>3, LenProperties
<1>5. ASSUME NEW i \in 1 .. Len(t), NEW j \in 1 .. Len(t), i < j, t[j] \notin r
      PROVE  ~Before(a, t[j], t[i])
  <2>1. f[i] \in 1 .. Len(s) /\ f[j] \in 1 .. Len(s) /\ f[i] < f[j]
    BY <1>1, <1>2, <1>4, <1>5
  <2>2. t[i] = s[f[i]] /\ t[j] = s[f[j]]
    BY <1>4
  <2> QED
    BY <1>5, <2>1, <2>2 DEF OrderedIn
<1> QED
  BY <1>5 DEF OrderedIn

LEMMA OrderCorrect == Spec => []OrderInv
<1> USE DEF ids, frames
<1>1. Init => OrderInv
  BY DEF Init, OrderInv, OrderedIn
<1>2. OrderInv /\ InputInv /\ KnownInv /\ ValuesOK /\ [Next]_vars => OrderInv'
  <2> SUFFICES ASSUME OrderInv, InputInv, KnownInv, ValuesOK, [Next]_vars PROVE OrderInv'
    OBVIOUS
  <2>a. /\ queue \in Seq(Calls) /\ due \in Seq(Calls)
        /\ Len(queue) \in Nat /\ Len(due) \in Nat
    BY LenProperties DEF ValuesOK, QueuesOK
  <2>b. UNCHANGED <<arrived, queue, due, retried>> => OrderInv'
    BY DEF OrderInv
  <2>1. ASSUME NEW c \in Calls, NEW i \in Ids \cup {NoId}, ReceiveCall(c, i) PROVE OrderInv'
    <3>1. /\ arrived' = Append(arrived, c) /\ c \notin Elements(arrived)
          /\ UNCHANGED <<queue, due, retried>>
      BY <2>1 DEF ReceiveCall
    <3>2. /\ \A k \in 1 .. Len(queue) : queue[k] \in Elements(arrived)
          /\ \A k \in 1 .. Len(due) : due[k] \in Elements(arrived)
      BY DEF KnownInv, Elements
    <3>3. \A x, y \in Elements(arrived) : Before(arrived', x, y) => Before(arrived, x, y)
      BY <3>1, BeforeIsStable
    <3> QED
      BY <3>1, <3>2, <3>3 DEF OrderInv, OrderedIn
  <2>6. CASE Schedule
    <3>1. /\ queue' = Append(queue, rcall) /\ rpc = "schedule" /\ rcall \in Calls
          /\ UNCHANGED <<arrived, due, retried>>
      BY <2>6 DEF Schedule, ValuesOK
    <3>2. /\ Len(queue') = Len(queue) + 1
          /\ \A k \in 1 .. Len(queue) : queue'[k] = queue[k]
          /\ queue'[Len(queue) + 1] = rcall
      BY <2>a, <3>1, AppendProperties
    <3>3. \A y : ~Before(arrived', rcall, y)
      BY <3>1, LastIsBeforeNothing
    <3>4. ASSUME NEW i \in 1 .. Len(queue'), NEW j \in 1 .. Len(queue'),
                 i < j, queue'[j] \notin retried'
          PROVE  ~Before(arrived', queue'[j], queue'[i])
      <4>1. CASE j = Len(queue) + 1
        BY <3>2, <3>3, <4>1
      <4>2. CASE j \in 1 .. Len(queue)
        <5>1. i \in 1 .. Len(queue)
          BY <2>a, <3>4, <4>2
        <5>2. ~Before(arrived, queue[j], queue[i])
          BY <3>1, <3>2, <3>4, <4>2, <5>1 DEF OrderInv, OrderedIn
        <5> QED
          BY <3>1, <3>2, <4>2, <5>1, <5>2
      <4> QED
        BY <2>a, <3>2, <4>1, <4>2
    <3>5. ASSUME NEW i \in 1 .. Len(due'), NEW j \in 1 .. Len(queue'), queue'[j] \notin retried'
          PROVE  ~Before(arrived', queue'[j], due'[i])
      <4>1. CASE j = Len(queue) + 1
        BY <3>2, <3>3, <4>1
      <4>2. CASE j \in 1 .. Len(queue)
        <5>1. ~Before(arrived, queue[j], due[i])
          BY <3>1, <3>2, <3>5, <4>2 DEF OrderInv
        <5> QED
          BY <3>1, <3>2, <4>2, <5>1
      <4> QED
        BY <2>a, <3>2, <4>1, <4>2
    <3>6. OrderedIn(due', arrived', retried')
      BY <3>1 DEF OrderInv, OrderedIn
    <3> QED
      BY <3>4, <3>5, <3>6 DEF OrderInv, OrderedIn
  <2>13. CASE Drain
    <3>1. PICK take \in InOrder(Ready), leave \in InOrder(DOMAIN queue \ Ready) :
            /\ due' = [i \in DOMAIN take |-> queue[take[i]]]
            /\ queue' = [i \in DOMAIN leave |-> queue[leave[i]]]
      BY <2>13 DEF Drain
    <3>2. UNCHANGED <<arrived, retried>>
      BY <2>13 DEF Drain
    <3>3. Ready \in SUBSET DOMAIN queue /\ (DOMAIN queue \ Ready) \in SUBSET DOMAIN queue
      BY DEF Ready
    <3>4. OrderedIn(queue, arrived, retried)
      BY DEF OrderInv
    <3>5. OrderedIn([i \in DOMAIN take |-> queue[take[i]]], arrived, retried)
      BY <2>a, <3>3, <3>4, PicksAreOrdered
    <3>6. OrderedIn([i \in DOMAIN leave |-> queue[leave[i]]], arrived, retried)
      BY <2>a, <3>3, <3>4, PicksAreOrdered
    <3>7. OrderedIn(due', arrived', retried') /\ OrderedIn(queue', arrived', retried')
      BY <3>1, <3>2, <3>5, <3>6
    <3>8. ASSUME NEW j \in 1 .. Len(queue') PROVE queue'[j] \in retried'
      <4>1. queue' \in Seq(Calls)
        BY <2>a, <3>1, <3>3, PicksAreTyped
      <4>2. j \in DOMAIN leave
        BY <3>1, <4>1, LenProperties
      <4>3. leave[j] \in DOMAIN queue \ Ready
        BY <4>2 DEF InOrder
      <4>4. queue[leave[j]] \in delayed
        BY <4>3 DEF Ready
      <4> QED
        BY <3>1, <3>2, <4>2, <4>4 DEF ValuesOK
    <3> QED
      BY <3>7, <3>8 DEF OrderInv
  <2>14. ASSUME due # <<>>, due' = Tail(due), UNCHANGED <<arrived, queue, retried>>
         PROVE  OrderInv'
    <3>1. OrderedIn(Tail(due), arrived, retried)
      BY <2>a, <2>14, TailIsOrdered DEF OrderInv
    <3>2. OrderedIn(due', arrived', retried') /\ OrderedIn(queue', arrived', retried')
      BY <2>14, <3>1 DEF OrderInv
    <3>3. /\ Len(due) \in Nat \ {0} /\ Len(Tail(due)) = Len(due) - 1
          /\ \A i \in 1 .. Len(Tail(due)) : Tail(due)[i] = due[i + 1]
      BY <2>a, <2>14, HeadTailProperties, EmptySeq, LenProperties
    <3>4. ASSUME NEW i \in 1 .. Len(due'), NEW j \in 1 .. Len(queue'), queue'[j] \notin retried'
          PROVE  ~Before(arrived', queue'[j], due'[i])
      <4>1. i + 1 \in 1 .. Len(due) /\ due'[i] = due[i + 1]
        BY <2>14, <3>3
      <4>2. ~Before(arrived, queue[j], due[i + 1])
        BY <2>14, <3>4, <4>1 DEF OrderInv
      <4> QED
        BY <2>14, <4>1, <4>2
    <3> QED
      BY <3>2, <3>4 DEF OrderInv
  <2>15. CASE SkipJob
    BY <2>14, <2>15 DEF SkipJob
  <2>16. CASE RunBody
    BY <2>14, <2>16 DEF RunBody
  <2>17. CASE BodyRetries
    <3>1. /\ queue' = Append(queue, gcall) /\ gcall \in Calls
          /\ retried' = retried \cup {gcall} /\ UNCHANGED <<arrived, due>>
      BY <2>17 DEF BodyRetries, ValuesOK
    <3>2. /\ Len(queue') = Len(queue) + 1
          /\ \A k \in 1 .. Len(queue) : queue'[k] = queue[k]
          /\ queue'[Len(queue) + 1] = gcall
      BY <2>a, <3>1, AppendProperties
    <3>3. ASSUME NEW j \in 1 .. Len(queue'), queue'[j] \notin retried'
          PROVE  j \in 1 .. Len(queue) /\ queue'[j] = queue[j] /\ queue[j] \notin retried
      BY <2>a, <3>1, <3>2, <3>3
    <3>4. ASSUME NEW i \in 1 .. Len(queue'), NEW j \in 1 .. Len(queue'),
                 i < j, queue'[j] \notin retried'
          PROVE  ~Before(arrived', queue'[j], queue'[i])
      <4>1. j \in 1 .. Len(queue) /\ queue'[j] = queue[j] /\ queue[j] \notin retried
        BY <3>3, <3>4
      <4>2. i \in 1 .. Len(queue) /\ queue'[i] = queue[i]
        BY <2>a, <3>2, <3>4, <4>1
      <4>3. ~Before(arrived, queue[j], queue[i])
        BY <3>4, <4>1, <4>2 DEF OrderInv, OrderedIn
      <4> QED
        BY <3>1, <4>1, <4>2, <4>3
    <3>5. ASSUME NEW i \in 1 .. Len(due'), NEW j \in 1 .. Len(queue'), queue'[j] \notin retried'
          PROVE  ~Before(arrived', queue'[j], due'[i])
      <4>1. j \in 1 .. Len(queue) /\ queue'[j] = queue[j] /\ queue[j] \notin retried
        BY <3>3, <3>5
      <4>2. ~Before(arrived, queue[j], due[i])
        BY <3>1, <4>1 DEF OrderInv
      <4> QED
        BY <3>1, <4>1, <4>2
    <3>6. OrderedIn(due', arrived', retried')
      BY <3>1 DEF OrderInv, OrderedIn
    <3> QED
      BY <3>4, <3>5, <3>6 DEF OrderInv, OrderedIn
  <2>18. ASSUME NEW i \in Ids, HandleToolCancel(i) PROVE OrderInv'
    BY <2>b, <2>18 DEF HandleToolCancel
  <2>19. ASSUME NEW c \in Calls, RetryDelayElapses(c) PROVE OrderInv'
    BY <2>b, <2>19 DEF RetryDelayElapses
  <2>20. ASSUME NEW c \in Calls, ExpireEntry(c) PROVE OrderInv'
    BY <2>b, <2>20 DEF ExpireEntry
  <2>21. CASE Watch
    BY <2>b, <2>21 DEF Watch
  <2>22. CASE AttachContinuation
    BY <2>b, <2>22 DEF AttachContinuation
  <2>23. CASE ReaderDelivers
    BY <2>b, <2>23 DEF ReaderDelivers, Continue
  <2>24. CASE ScanEntries
    BY <2>b, <2>24 DEF ScanEntries
  <2>25. CASE CompleteExpired
    BY <2>b, <2>25 DEF CompleteExpired
  <2>26. CASE WatchdogDelivers
    BY <2>b, <2>26 DEF WatchdogDelivers, Continue
  <2>27. CASE EndBatch
    BY <2>b, <2>27 DEF EndBatch
  <2>28. CASE BodyReturns
    BY <2>b, <2>28 DEF BodyReturns
  <2>29. CASE GameDelivers
    BY <2>b, <2>29 DEF GameDelivers, Continue
  <2>30. CASE EnginePreExit
    BY <2>b, <2>30 DEF EnginePreExit
  <2>31. CASE BeginShutdown
    BY <2>b, <2>31 DEF BeginShutdown, ShutdownStep
  <2>32. CASE JoinReader
    BY <2>b, <2>32 DEF JoinReader, ShutdownStep
  <2>33. CASE CancelAllInFlight
    BY <2>b, <2>33 DEF CancelAllInFlight, ShutdownStep
  <2>34. CASE DrainInFlightCalls
    BY <2>b, <2>34 DEF DrainInFlightCalls, ShutdownStep
  <2>35. CASE GraceExpires
    BY <2>b, <2>35 DEF GraceExpires, ShutdownStep
  <2>36. CASE UseFreedServer
    BY <2>b, <2>36 DEF UseFreedServer
  <2>37. CASE UNCHANGED vars
    BY <2>b, <2>37 DEF vars
  <2> QED
    BY <2>1, <2>6, <2>13, <2>15, <2>16, <2>17, <2>18, <2>19, <2>20, <2>21,
       <2>22, <2>23, <2>24, <2>25, <2>26, <2>27, <2>28, <2>29, <2>30, <2>31,
       <2>32, <2>33, <2>34, <2>35, <2>36, <2>37
       DEF Next, Reader, Watchdog, Game, Shutdown
<1> QED
  BY <1>1, <1>2, InputCorrect, KnownCorrect, ValuesCorrect, PTL DEF Spec

(* First attempts run in the order in which the reader took the calls,     *)
(* whatever is retried, skipped or timed out in between.                   *)
THEOREM FirstAttemptsInOrder == Spec => []ArrivalOrder
<1>1. ASSUME ValuesOK, KnownInv, OrderInv PROVE ArrivalOrder
  <2> DEFINE w == due \o queue
  <2>1. /\ due \in Seq(Calls) /\ queue \in Seq(Calls) /\ Len(due) \in Nat /\ Len(queue) \in Nat
    BY <1>1, LenProperties DEF ValuesOK, QueuesOK
  <2>2. Len(w) = Len(due) + Len(queue)
    BY <2>1, ConcatProperties
  <2>3. /\ \A k \in 1 .. Len(due) : w[k] = due[k]
        /\ \A k \in 1 .. Len(w) : k > Len(due) => k - Len(due) \in 1 .. Len(queue) /\ w[k] = queue[k - Len(due)]
    BY <2>1, <2>2, ConcatProperties
  <2> HIDE DEF w
  <2>4. \A c \in Elements(arrived) : Position(c) \in 1 .. Len(arrived) /\ arrived[Position(c)] = c
    BY DEF Position, Elements
  <2>5. \A c, d \in Elements(arrived) : Position(c) < Position(d) => Before(arrived, c, d)
    BY <2>4 DEF Before
  <2>6. \A k \in 1 .. Len(w) : w[k] \in Elements(arrived)
    <3>1. /\ \A k \in 1 .. Len(queue) : queue[k] \in Elements(arrived)
          /\ \A k \in 1 .. Len(due) : due[k] \in Elements(arrived)
      BY <1>1 DEF KnownInv, Elements
    <3> QED
      BY <2>1, <2>2, <2>3, <3>1
  <2>7. ASSUME NEW i \in 1 .. Len(w), NEW j \in 1 .. Len(w), i < j,
               Position(w[j]) < Position(w[i]), w[j] \notin retried
        PROVE  FALSE
    <3>1. Before(arrived, w[j], w[i])
      BY <2>5, <2>6, <2>7
    <3>2. CASE j \in 1 .. Len(due)
      <4>1. i \in 1 .. Len(due)
        BY <2>1, <2>7, <3>2
      <4> QED
        BY <1>1, <2>3, <2>7, <3>1, <3>2, <4>1 DEF OrderInv, OrderedIn
    <3>3. CASE i \in 1 .. Len(due) /\ j > Len(due)
      BY <1>1, <2>3, <2>7, <3>1, <3>3 DEF OrderInv
    <3>4. CASE i > Len(due) /\ j > Len(due)
      <4> DEFINE a == i - Len(due)
                 b == j - Len(due)
      <4>1. /\ a \in 1 .. Len(queue) /\ b \in 1 .. Len(queue) /\ a < b
            /\ w[i] = queue[a] /\ w[j] = queue[b]
        BY <2>1, <2>2, <2>3, <2>7, <3>4
      <4> HIDE DEF a, b
      <4> QED
        BY <1>1, <2>7, <3>1, <4>1 DEF OrderInv, OrderedIn
    <3> QED
      BY <2>1, <2>2, <2>7, <3>2, <3>3, <3>4
  <2> QED
    BY <2>7 DEF ArrivalOrder, w
<1> QED
  BY <1>1, ValuesCorrect, KnownCorrect, OrderCorrect, PTL
================================================================================
