--------------------------- MODULE SupervisionProofs ---------------------------
(***************************************************************************)
(* The safety properties of Supervision, for any number of processes,      *)
(* editors and crashes.  Types first (Booleans apart from the other        *)
(* values, as the provers treat the two by different means), then what the *)
(* watchdog's loop keeps, what the game thread keeps, and who owns what.   *)
(***************************************************************************)
EXTENDS Supervision, TLAPS

(* The flags are Booleans.                                                 *)
FlagsOK ==
  future \in BOOLEAN /\ stop \in BOOLEAN /\ reattached \in BOOLEAN

LEMMA FlagsCorrect == Spec => []FlagsOK
<1> USE DEF FlagsOK, osVars, wdVars, gameVars
<1>1. Init => FlagsOK
  BY DEF Init
<1>2. FlagsOK /\ [Next]_vars => FlagsOK'
  <2> SUFFICES ASSUME FlagsOK, [Next]_vars PROVE FlagsOK'
    OBVIOUS
  <2>1. CASE BeginStart
    BY <2>1 DEF BeginStart, FreesPortFirst
  <2>2. CASE StartFreesPort
    BY <2>2 DEF StartFreesPort, KillOrphanedServerOnPort
  <2>3. CASE EndStart
    BY <2>3 DEF EndStart, SpawnFails, SpawnProcess, StartWatchdog
  <2>4. CASE ReattachIfRunning
    BY <2>4 DEF ReattachIfRunning, StartWatchdog
  <2>5. CASE RequestStop
    BY <2>5 DEF RequestStop, Goals
  <2>6. CASE JoinWatchdog
    BY <2>6 DEF JoinWatchdog
  <2>7. CASE TerminateProcess
    BY <2>7 DEF TerminateProcess
  <2>8. CASE WatchdogStops
    BY <2>8 DEF WatchdogStops
  <2>9. CASE PollAlive
    BY <2>9 DEF PollAlive
  <2>10. CASE PollDead
    BY <2>10 DEF PollDead
  <2>11. CASE GiveUp
    BY <2>11 DEF GiveUp
  <2>12. CASE BackoffEnds
    BY <2>12 DEF BackoffEnds, FreesPortFirst
  <2>13. CASE RespawnFreesPort
    BY <2>13 DEF RespawnFreesPort, KillOrphanedServerOnPort
  <2>14. CASE Respawn
    BY <2>14 DEF Respawn, SpawnFails, SpawnProcess
  <2>15. CASE WindowAges
    BY <2>15 DEF WindowAges
  <2>16. CASE EditorCrashes
    BY <2>16 DEF EditorCrashes
  <2>17. CASE EditorStarts
    BY <2>17 DEF EditorStarts, EditorUp
  <2>18. ASSUME NEW p \in Pids, StartsServing(p) PROVE FlagsOK'
    BY <2>18 DEF StartsServing
  <2>19. ASSUME NEW p \in Pids, ChildExits(p) PROVE FlagsOK'
    BY <2>19 DEF ChildExits
  <2>21. CASE UNCHANGED vars
    BY <2>21 DEF vars
  <2> QED
    BY <2>1,<2>2,<2>3,<2>4,<2>5,<2>6,<2>7,<2>8,<2>9,<2>10,<2>11,<2>12,<2>13,<2>14,<2>15,<2>16,<2>17,<2>18,<2>19,<2>21
    DEF Next, GameThread, Watchdog
<1> QED
  BY <1>1, <1>2, PTL DEF Spec

(* TypeOK without them.                                                    *)
ValuesOK ==
  /\ owner \in Owners
  /\ session \in 1 .. MaxSessions /\ gpc \in GamePc /\ goal \in Goals
  /\ handle \in 0 .. MaxPid /\ procId \in 0 .. MaxPid /\ pidFile \in 0 .. MaxPid
  /\ wd \in WdPc /\ (future <=> wd # "none")
  /\ crashes \in Nat /\ tries \in Nat /\ window \in {"fresh", "open", "past"}
  /\ proc \in [Pids -> Life] /\ born \in [Pids -> 0 .. MaxSessions]

LEMMA ValuesCorrect == Spec => []ValuesOK
<1> USE DEF ValuesOK, FlagsOK, GamePc, WdPc, Life, Goals, Alive, IsRunning, IsServer, osVars, wdVars, gameVars
<1>1. Init => ValuesOK
  BY BoundsAssumption DEF Init, Pids, IsServer
<1>2. ValuesOK /\ FlagsOK /\ FlagsOK' /\ [Next]_vars => ValuesOK'
  <2> SUFFICES ASSUME ValuesOK, FlagsOK, FlagsOK', [Next]_vars PROVE ValuesOK'
    OBVIOUS
  <2>1. CASE BeginStart
    BY <2>1, BoundsAssumption DEF BeginStart, FreesPortFirst, Pids
  <2>2. CASE StartFreesPort
    BY <2>2, BoundsAssumption DEF StartFreesPort, KillOrphanedServerOnPort, Pids
  <2>3. CASE EndStart
    <3>1. CASE SpawnFails /\ UNCHANGED wdVars
      BY <2>3, <3>1, BoundsAssumption DEF EndStart, SpawnFails
    <3>2. CASE SpawnProcess /\ StartWatchdog
      <4> PICK p \in Pids : /\ proc' = [proc EXCEPT ![p] = "up"] /\ born' = [born EXCEPT ![p] = session]
                           /\ handle' = p /\ procId' = (IF IsServer THEN p ELSE procId)
                           /\ pidFile' = (IF IsServer THEN p ELSE pidFile)
        BY <3>2 DEF SpawnProcess
      <4>1. p \in 0 .. MaxPid /\ session \in 0 .. MaxSessions
        BY BoundsAssumption DEF Pids
      <4>2. proc' \in [Pids -> Life] /\ born' \in [Pids -> 0 .. MaxSessions]
        BY <4>1
      <4>3. (future' <=> wd' # "none") /\ wd' \in WdPc /\ window' \in {"fresh", "open", "past"} /\ crashes' \in Nat /\ tries' \in Nat
        BY <3>2, BoundsAssumption DEF StartWatchdog
      <4> QED
        BY <2>3, <4>1, <4>2, <4>3 DEF EndStart
    <3> QED
      BY <2>3, <3>1, <3>2 DEF EndStart
  <2>4. CASE ReattachIfRunning
    <3>1. (future' <=> wd' # "none") /\ wd' \in WdPc /\ window' \in {"fresh", "open", "past"} /\ crashes' \in Nat /\ tries' \in Nat
      BY <2>4, BoundsAssumption DEF ReattachIfRunning, StartWatchdog
    <3>2. handle' \in 0 .. MaxPid /\ procId' \in 0 .. MaxPid /\ pidFile' \in 0 .. MaxPid
      BY <2>4, BoundsAssumption DEF ReattachIfRunning
    <3> QED
      BY <2>4, <3>1, <3>2 DEF ReattachIfRunning
  <2>5. CASE RequestStop
    BY <2>5, BoundsAssumption DEF RequestStop, Goals, Pids
  <2>6. CASE JoinWatchdog
    BY <2>6, BoundsAssumption DEF JoinWatchdog, Pids
  <2>7. CASE TerminateProcess
    BY <2>7, BoundsAssumption DEF TerminateProcess, Pids
  <2>8. CASE WatchdogStops
    BY <2>8, BoundsAssumption DEF WatchdogStops, Pids
  <2>9. CASE PollAlive
    BY <2>9, BoundsAssumption DEF PollAlive, Pids
  <2>10. CASE PollDead
    <3>1. wd' \in {"giveUp", "backoff"} /\ UNCHANGED future
      BY <2>10 DEF PollDead
    <3>2. crashes' \in Nat /\ tries' \in Nat /\ window' \in {"fresh", "open", "past"}
      BY <2>10 DEF PollDead
    <3> QED
      BY <2>10, <3>1, <3>2 DEF PollDead
  <2>11. CASE GiveUp
    BY <2>11, BoundsAssumption DEF GiveUp, Pids
  <2>12. CASE BackoffEnds
    BY <2>12, BoundsAssumption DEF BackoffEnds, FreesPortFirst, Pids
  <2>13. CASE RespawnFreesPort
    BY <2>13, BoundsAssumption DEF RespawnFreesPort, KillOrphanedServerOnPort, Pids
  <2>14. CASE Respawn
    <3>1. CASE SpawnFails
      BY <2>14, <3>1, BoundsAssumption DEF Respawn, SpawnFails
    <3>2. CASE SpawnProcess
      <4> PICK p \in Pids : /\ proc' = [proc EXCEPT ![p] = "up"] /\ born' = [born EXCEPT ![p] = session]
                           /\ handle' = p /\ procId' = (IF IsServer THEN p ELSE procId)
                           /\ pidFile' = (IF IsServer THEN p ELSE pidFile)
        BY <3>2 DEF SpawnProcess
      <4>1. p \in 0 .. MaxPid /\ session \in 0 .. MaxSessions
        BY BoundsAssumption DEF Pids
      <4>2. proc' \in [Pids -> Life] /\ born' \in [Pids -> 0 .. MaxSessions]
        BY <4>1
      <4> QED
        BY <2>14, <4>1, <4>2 DEF Respawn
    <3> QED
      BY <2>14, <3>1, <3>2 DEF Respawn
  <2>15. CASE WindowAges
    BY <2>15, BoundsAssumption DEF WindowAges, Pids
  <2>16. CASE EditorCrashes
    BY <2>16, BoundsAssumption DEF EditorCrashes, Pids
  <2>17. CASE EditorStarts
    BY <2>17, BoundsAssumption DEF EditorStarts, EditorUp, Pids
  <2>18. ASSUME NEW p \in Pids, StartsServing(p) PROVE ValuesOK'
    BY <2>18, BoundsAssumption DEF StartsServing, Pids
  <2>19. ASSUME NEW p \in Pids, ChildExits(p) PROVE ValuesOK'
    BY <2>19, BoundsAssumption DEF ChildExits, Pids
  <2>21. CASE UNCHANGED vars
    BY <2>21 DEF vars
  <2> QED
    BY <2>1,<2>2,<2>3,<2>4,<2>5,<2>6,<2>7,<2>8,<2>9,<2>10,<2>11,<2>12,<2>13,<2>14,<2>15,<2>16,<2>17,<2>18,<2>19,<2>21
    DEF Next, GameThread, Watchdog
<1> QED
  BY <1>1, <1>2, FlagsCorrect, PTL DEF Spec

(* Outside a Stop, a watchdog that exists has not been told to stop, and   *)
(* without one there is no handle; after the join there is none.           *)
GameInv ==
  /\ gpc \in {"idle", "freePort", "spawn"} => IF future THEN ~stop ELSE handle = 0
  /\ gpc \in {"terminate", "closed", "crashed"} => ~future

LEMMA GameCorrect == Spec => []GameInv
<1> USE DEF GameInv, FlagsOK, ValuesOK, WdPc, GamePc, Goals, EditorUp, osVars, wdVars, gameVars
<1>1. Init => GameInv
  BY BoundsAssumption DEF Init, Pids, IsServer
<1>2. GameInv /\ FlagsOK /\ ValuesOK /\ FlagsOK' /\ ValuesOK' /\ [Next]_vars => GameInv'
  <2> SUFFICES ASSUME GameInv, FlagsOK, ValuesOK, FlagsOK', ValuesOK', [Next]_vars PROVE GameInv'
    OBVIOUS
  <2>1. CASE BeginStart
    BY <2>1 DEF BeginStart, FreesPortFirst
  <2>2. CASE StartFreesPort
    BY <2>2 DEF StartFreesPort, KillOrphanedServerOnPort
  <2>3. CASE EndStart
    BY <2>3 DEF EndStart, SpawnFails, SpawnProcess, StartWatchdog
  <2>4. CASE ReattachIfRunning
    BY <2>4 DEF ReattachIfRunning, StartWatchdog
  <2>5. CASE RequestStop
    BY <2>5 DEF RequestStop, Goals
  <2>6. CASE JoinWatchdog
    BY <2>6 DEF JoinWatchdog
  <2>7. CASE TerminateProcess
    <3>1. gpc' \in {"idle", "spawn", "closed"} /\ handle' = 0 /\ UNCHANGED future
      BY <2>7 DEF TerminateProcess
    <3> QED
      BY <2>7, <3>1 DEF TerminateProcess
  <2>8. CASE WatchdogStops
    BY <2>8 DEF WatchdogStops
  <2>9. CASE PollAlive
    BY <2>9 DEF PollAlive
  <2>10. CASE PollDead
    BY <2>10 DEF PollDead
  <2>11. CASE GiveUp
    BY <2>11 DEF GiveUp
  <2>12. CASE BackoffEnds
    BY <2>12 DEF BackoffEnds, FreesPortFirst
  <2>13. CASE RespawnFreesPort
    BY <2>13 DEF RespawnFreesPort, KillOrphanedServerOnPort
  <2>14. CASE Respawn
    BY <2>14 DEF Respawn, SpawnFails, SpawnProcess
  <2>15. CASE WindowAges
    BY <2>15 DEF WindowAges
  <2>16. CASE EditorCrashes
    BY <2>16 DEF EditorCrashes
  <2>17. CASE EditorStarts
    BY <2>17 DEF EditorStarts, EditorUp
  <2>18. ASSUME NEW p \in Pids, StartsServing(p) PROVE GameInv'
    BY <2>18 DEF StartsServing
  <2>19. ASSUME NEW p \in Pids, ChildExits(p) PROVE GameInv'
    BY <2>19 DEF ChildExits
  <2>21. CASE UNCHANGED vars
    BY <2>21 DEF vars
  <2> QED
    BY <2>1,<2>2,<2>3,<2>4,<2>5,<2>6,<2>7,<2>8,<2>9,<2>10,<2>11,<2>12,<2>13,<2>14,<2>15,<2>16,<2>17,<2>18,<2>19,<2>21
    DEF Next, GameThread, Watchdog
<1> QED
  BY <1>1, <1>2, FlagsCorrect, ValuesCorrect, PTL DEF Spec

(* The breaker: the count is the number of relaunches tried in the window, *)
(* and one more between a death and the relaunch; the loop goes on only up *)
(* to the limit, gives up only above it, and ends by a stop or by that.    *)
LoopInv ==
  /\ tries <= MaxCrashes
  /\ wd = "sleep" => crashes = tries
  /\ wd \in {"backoff", "freePort", "spawn"} => crashes = tries + 1 /\ tries < MaxCrashes
  /\ wd = "giveUp" => crashes = tries + 1 /\ tries = MaxCrashes
  /\ wd = "ended" => stop \/ tries = MaxCrashes
  /\ crashes <= tries + 1

LEMMA LoopCorrect == Spec => []LoopInv
<1> USE DEF LoopInv, GameInv, FlagsOK, ValuesOK, WdPc, osVars, wdVars, gameVars
<1>1. Init => LoopInv
  BY BoundsAssumption DEF Init, Pids, IsServer
<1>2. LoopInv /\ FlagsOK /\ ValuesOK /\ GameInv /\ FlagsOK' /\ ValuesOK' /\ GameInv' /\ [Next]_vars => LoopInv'
  <2> SUFFICES ASSUME LoopInv, FlagsOK, ValuesOK, GameInv, FlagsOK', ValuesOK', GameInv', [Next]_vars PROVE LoopInv'
    OBVIOUS
  <2>1. CASE BeginStart
    BY <2>1, BoundsAssumption DEF BeginStart, FreesPortFirst
  <2>2. CASE StartFreesPort
    BY <2>2, BoundsAssumption DEF StartFreesPort, KillOrphanedServerOnPort
  <2>s. CASE StartWatchdog
    <3>1. CASE future
      BY <2>s, <3>1 DEF StartWatchdog
    <3>2. CASE ~future
      BY <2>s, <3>2, BoundsAssumption DEF StartWatchdog
    <3> QED
      BY <3>1, <3>2
  <2>k. CASE UNCHANGED wdVars
    BY <2>k
  <2>3. CASE EndStart
    BY <2>3, <2>s, <2>k DEF EndStart
  <2>4. CASE ReattachIfRunning
    BY <2>4, <2>s, <2>k DEF ReattachIfRunning
  <2>5. CASE RequestStop
    BY <2>5, BoundsAssumption DEF RequestStop, Goals
  <2>6. CASE JoinWatchdog
    BY <2>6, BoundsAssumption DEF JoinWatchdog
  <2>7. CASE TerminateProcess
    BY <2>7, BoundsAssumption DEF TerminateProcess
  <2>8. CASE WatchdogStops
    BY <2>8, BoundsAssumption DEF WatchdogStops
  <2>9. CASE PollAlive
    BY <2>9, BoundsAssumption DEF PollAlive
  <2>10. CASE PollDead
    BY <2>10, BoundsAssumption DEF PollDead
  <2>11. CASE GiveUp
    BY <2>11, BoundsAssumption DEF GiveUp
  <2>12. CASE BackoffEnds
    BY <2>12, BoundsAssumption DEF BackoffEnds, FreesPortFirst
  <2>13. CASE RespawnFreesPort
    BY <2>13, BoundsAssumption DEF RespawnFreesPort, KillOrphanedServerOnPort
  <2>14. CASE Respawn
    BY <2>14, BoundsAssumption DEF Respawn, SpawnFails, SpawnProcess
  <2>15. CASE WindowAges
    BY <2>15, BoundsAssumption DEF WindowAges
  <2>16. CASE EditorCrashes
    BY <2>16, BoundsAssumption DEF EditorCrashes
  <2>17. CASE EditorStarts
    BY <2>17, BoundsAssumption DEF EditorStarts, EditorUp
  <2>18. ASSUME NEW p \in Pids, StartsServing(p) PROVE LoopInv'
    BY <2>18, BoundsAssumption DEF StartsServing
  <2>19. ASSUME NEW p \in Pids, ChildExits(p) PROVE LoopInv'
    BY <2>19, BoundsAssumption DEF ChildExits
  <2>21. CASE UNCHANGED vars
    BY <2>21 DEF vars
  <2> QED
    BY <2>1,<2>2,<2>3,<2>4,<2>5,<2>6,<2>7,<2>8,<2>9,<2>10,<2>11,<2>12,<2>13,<2>14,<2>15,<2>16,<2>17,<2>18,<2>19,<2>21
    DEF Next, GameThread, Watchdog
<1> QED
  BY <1>1, <1>2, FlagsCorrect, ValuesCorrect, GameCorrect, PTL DEF Spec

(* The server's handle and pid name the same process, and only the         *)
(* server's manager frees a port.                                          *)
OwnerInv ==
  /\ IsServer => handle \in {0, procId}
  /\ (wd = "freePort" \/ gpc = "freePort") => IsServer

LEMMA OwnersCorrect == Spec => []OwnerInv
<1> USE DEF OwnerInv, IsServer, EditorUp, osVars, wdVars, gameVars
<1>1. Init => OwnerInv
  BY BoundsAssumption DEF Init, Pids, IsServer
<1>2. OwnerInv /\ ValuesOK /\ ValuesOK' /\ [Next]_vars => OwnerInv'
  <2> SUFFICES ASSUME OwnerInv, ValuesOK, ValuesOK', [Next]_vars PROVE OwnerInv'
    OBVIOUS
  <2>1. CASE BeginStart
    BY <2>1 DEF BeginStart, FreesPortFirst
  <2>2. CASE StartFreesPort
    BY <2>2 DEF StartFreesPort, KillOrphanedServerOnPort
  <2>3. CASE EndStart
    BY <2>3 DEF EndStart, SpawnFails, SpawnProcess, StartWatchdog
  <2>4. CASE ReattachIfRunning
    BY <2>4 DEF ReattachIfRunning, StartWatchdog
  <2>5. CASE RequestStop
    BY <2>5 DEF RequestStop, Goals
  <2>6. CASE JoinWatchdog
    BY <2>6 DEF JoinWatchdog
  <2>7. CASE TerminateProcess
    BY <2>7 DEF TerminateProcess
  <2>8. CASE WatchdogStops
    BY <2>8 DEF WatchdogStops
  <2>9. CASE PollAlive
    BY <2>9 DEF PollAlive
  <2>10. CASE PollDead
    BY <2>10 DEF PollDead
  <2>11. CASE GiveUp
    BY <2>11 DEF GiveUp
  <2>12. CASE BackoffEnds
    BY <2>12 DEF BackoffEnds, FreesPortFirst
  <2>13. CASE RespawnFreesPort
    BY <2>13 DEF RespawnFreesPort, KillOrphanedServerOnPort
  <2>14. CASE Respawn
    BY <2>14 DEF Respawn, SpawnFails, SpawnProcess
  <2>15. CASE WindowAges
    BY <2>15 DEF WindowAges
  <2>16. CASE EditorCrashes
    BY <2>16 DEF EditorCrashes
  <2>17. CASE EditorStarts
    BY <2>17 DEF EditorStarts, EditorUp
  <2>18. ASSUME NEW p \in Pids, StartsServing(p) PROVE OwnerInv'
    BY <2>18 DEF StartsServing
  <2>19. ASSUME NEW p \in Pids, ChildExits(p) PROVE OwnerInv'
    BY <2>19 DEF ChildExits
  <2>21. CASE UNCHANGED vars
    BY <2>21 DEF vars
  <2> QED
    BY <2>1,<2>2,<2>3,<2>4,<2>5,<2>6,<2>7,<2>8,<2>9,<2>10,<2>11,<2>12,<2>13,<2>14,<2>15,<2>16,<2>17,<2>18,<2>19,<2>21
    DEF Next, GameThread, Watchdog
<1> QED
  BY <1>1, <1>2, ValuesCorrect, PTL DEF Spec

--------------------------------------------------------------------------------
(* Every variable keeps its type, for any number of processes and editors. *)
THEOREM TypeCorrect == Spec => []TypeOK
<1>1. FlagsOK /\ ValuesOK /\ LoopInv => TypeOK
  BY BoundsAssumption DEF FlagsOK, ValuesOK, LoopInv, TypeOK
<1> QED
  BY <1>1, FlagsCorrect, ValuesCorrect, LoopCorrect, PTL

(* A child that runs between the game thread's operations is watched by a  *)
(* thread that has not been told to stop, unless the breaker has tripped.  *)
THEOREM ChildIsWatched == Spec => []RunningIsWatched
<1>1. ValuesOK /\ LoopInv /\ GameInv => RunningIsWatched
  BY BoundsAssumption DEF ValuesOK, LoopInv, GameInv, RunningIsWatched, IsRunning, Alive, Pids
<1> QED
  BY <1>1, ValuesCorrect, LoopCorrect, GameCorrect, PTL

(* No window sees more relaunches than the limit, and none is given up     *)
(* before it has seen as many.                                             *)
THEOREM BreakerHolds == Spec => []BreakerIsExact
<1>1. LoopInv => BreakerIsExact
  BY DEF LoopInv, BreakerIsExact
<1> QED
  BY <1>1, LoopCorrect, PTL

(* After Stop has joined the watchdog no process appears before a Start.   *)
THEOREM NoRelaunchAfterStop == Spec => StopIsFinal
<1> DEFINE Spawned == \E p \in Pids : proc[p] = "unborn" /\ proc'[p] = "up"
<1>1. FlagsOK /\ ValuesOK /\ [Next]_vars => [Spawned => (gpc = "spawn" \/ future)]_vars
  <2> SUFFICES ASSUME FlagsOK, ValuesOK, Next, Spawned, gpc # "spawn" PROVE future
    OBVIOUS
  <2>1. proc' # proc
    OBVIOUS
  <2>2. CASE Respawn
    BY <2>2 DEF Respawn, FlagsOK, ValuesOK
  <2>3. CASE StartFreesPort \/ RespawnFreesPort
    BY <2>3 DEF StartFreesPort, RespawnFreesPort, KillOrphanedServerOnPort, osVars, ValuesOK
  <2>4. CASE TerminateProcess
    BY <2>4 DEF TerminateProcess
  <2>5. CASE EditorCrashes
    BY <2>5 DEF EditorCrashes
  <2>6. ASSUME NEW p \in Pids, StartsServing(p) \/ ChildExits(p) PROVE FALSE
    BY <2>6 DEF StartsServing, ChildExits, ValuesOK
  <2> QED
    BY <2>1, <2>2, <2>3, <2>4, <2>5, <2>6
    DEF Next, GameThread, Watchdog, BeginStart, EndStart, ReattachIfRunning, RequestStop, JoinWatchdog,
        WatchdogStops, PollAlive, PollDead, GiveUp, BackoffEnds, WindowAges, EditorStarts, osVars
<1> QED
  BY <1>1, FlagsCorrect, ValuesCorrect, PTL DEF Spec, StopIsFinal

(* Freeing the port never kills the process the manager holds.             *)
THEOREM OwnServerIsKept == Spec => KeepsItsOwnServer
<1> DEFINE Frees == (wd = "freePort" /\ wd' = "spawn") \/ (gpc = "freePort" /\ gpc' = "spawn")
<1>1. ValuesOK /\ OwnerInv /\ [Next]_vars => [IsRunning /\ Frees => Alive(handle)']_vars
  <2> SUFFICES ASSUME ValuesOK, OwnerInv, Next, IsRunning, Frees PROVE Alive(handle)'
    OBVIOUS
  <2>1. StartFreesPort \/ RespawnFreesPort
    <3> SUFFICES ASSUME ~StartFreesPort, ~RespawnFreesPort PROVE FALSE
      OBVIOUS
    <3> USE DEF wdVars, gameVars
    <3>1. ~(BeginStart \/ EndStart \/ ReattachIfRunning \/ RequestStop \/ JoinWatchdog \/ TerminateProcess)
      BY DEF BeginStart, EndStart, ReattachIfRunning, RequestStop, JoinWatchdog, TerminateProcess,
             StartWatchdog, SpawnFails, SpawnProcess
    <3>2. ~(WatchdogStops \/ PollAlive \/ PollDead \/ GiveUp \/ BackoffEnds \/ Respawn \/ WindowAges)
      BY DEF WatchdogStops, PollAlive, PollDead, GiveUp, BackoffEnds, Respawn, WindowAges, FreesPortFirst
    <3>3. ~(EditorCrashes \/ EditorStarts)
      BY DEF EditorCrashes, EditorStarts, EditorUp
    <3>4. ~(\E p \in Pids : StartsServing(p) \/ ChildExits(p))
      BY DEF StartsServing, ChildExits
    <3> QED
      BY <3>1, <3>2, <3>3, <3>4 DEF Next, GameThread, Watchdog
  <2>2. handle' = handle /\ handle = procId
    BY <2>1 DEF OwnerInv, IsRunning, Alive, Pids, StartFreesPort, RespawnFreesPort, gameVars
  <2> QED
    BY <2>1, <2>2 DEF StartFreesPort, RespawnFreesPort, KillOrphanedServerOnPort, osVars, Alive, IsRunning, ValuesOK
<1> QED
  BY <1>1, ValuesCorrect, OwnersCorrect, PTL DEF Spec, KeepsItsOwnServer

================================================================================
