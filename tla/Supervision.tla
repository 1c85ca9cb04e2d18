------------------------------ MODULE Supervision ------------------------------
(***************************************************************************)
(* The child processes of an editor and the thread that restarts them:     *)
(* FUnrealMcpSupervisedProcess, and its two owners, the manager of the     *)
(* local server and the manager of the sidecar.  Both give the same loop   *)
(* their own probe, relaunch and give-up; a behaviour is about one of      *)
(* them, named by owner.                                                   *)
(*                                                                         *)
(* Three parties move: the game thread (Start, Stop, Reattach, editor      *)
(* shutdown), the watchdog thread, and the operating system, which runs    *)
(* the children, ends them, and ends the editor.  Between two statements   *)
(* of one thread the others run: Start looks at the process, frees the     *)
(* port and spawns in three steps, and so does a relaunch.                 *)
(*                                                                         *)
(* A process is a number, given out in the order of creation; a number     *)
(* is never used twice.                                                    *)
(***************************************************************************)
EXTENDS Naturals

CONSTANTS
  Owners,        \* which managers are looked at: a subset of {"server", "sidecar"}
  MaxPid,        \* how many processes can be created (a bound of the model)
  MaxSessions,   \* how many times the editor starts (a bound of the model)
  MaxCrashes     \* SupervisedMaxCrashesPerWindow; 0 is the Fab build, which never relaunches

ASSUME OwnersAssumption == Owners \subseteq {"server", "sidecar"}
ASSUME BoundsAssumption == MaxPid \in Nat /\ MaxSessions \in Nat \ {0} /\ MaxCrashes \in Nat

VARIABLES
  owner,      \* the manager of this behaviour
  session,    \* the number of the current editor
  gpc,        \* the game thread of that editor, or how the editor ended
  goal,       \* what follows the Stop in progress
  handle,     \* ProcHandle: a process, or 0
  procId,     \* ProcId (local server only): the process last spawned or adopted, or 0
  future,     \* WatchdogFuture.IsValid()
  wd,         \* where the watchdog thread is
  stop,       \* bStopRequested
  crashes,    \* CrashesInWindow
  window,     \* the crash window: no live poll yet, one seen, or older than 300 s
  tries,      \* history: the relaunches the watchdog has tried in this window
  proc,       \* the life of each process
  born,       \* the editor that spawned it
  pidFile,    \* server.pid: a process, or 0
  reattached  \* the one reattach of this editor has been made (bLocalServerReattachAttempted)

osVars   == <<proc, born, pidFile>>
wdVars   == <<future, wd, stop, crashes, window, tries>>
gameVars == <<session, gpc, goal, handle, procId, reattached>>
vars     == <<owner, osVars, wdVars, gameVars>>

Pids      == 1 .. MaxPid
Goals     == {"idle", "restart", "exit"}
GamePc    == {"idle", "freePort", "spawn", "join", "terminate", "closed", "crashed"}
WdPc      == {"none", "sleep", "backoff", "freePort", "spawn", "giveUp", "ended"}
Life      == {"unborn", "up", "serving", "exited"}

\* One type invariant: all the state of FUnrealMcpSupervisedProcess and its owners.
TypeOK ==
  /\ owner \in Owners
  /\ session \in 1 .. MaxSessions /\ gpc \in GamePc /\ goal \in Goals
  /\ handle \in 0 .. MaxPid /\ procId \in 0 .. MaxPid /\ pidFile \in 0 .. MaxPid
  /\ future \in BOOLEAN /\ wd \in WdPc /\ stop \in BOOLEAN /\ reattached \in BOOLEAN
  /\ crashes \in 0 .. MaxCrashes + 1 /\ window \in {"fresh", "open", "past"}
  /\ tries \in 0 .. MaxCrashes + 1
  /\ proc \in [Pids -> Life] /\ born \in [Pids -> 0 .. MaxSessions]
  /\ (future = FALSE) = (wd = "none")

Init ==
  /\ owner \in Owners
  /\ session = 1 /\ gpc = "idle" /\ goal = "idle" /\ handle = 0 /\ procId = 0 /\ reattached = FALSE
  /\ future = FALSE /\ wd = "none" /\ stop = FALSE /\ crashes = 0 /\ window = "fresh"
  /\ tries = 0
  /\ proc = [p \in Pids |-> "unborn"] /\ born = [p \in Pids |-> 0] /\ pidFile = 0

EditorUp == gpc \notin {"closed", "crashed"}
Alive(p) == p \in Pids /\ proc[p] \in {"up", "serving"}
IsRunning == Alive(handle)
IsServer == owner = "server"

--------------------------------------------------------------------------------
(* What both threads do to the processes.                                  *)

(* Mutant: the listener is killed even when it is the manager's own.       *)
KillAnyServerOnPort ==
  \/ UNCHANGED osVars
  \/ \E p \in Pids :
       /\ proc[p] = "serving"
       /\ proc' = [proc EXCEPT ![p] = "exited"]
       /\ UNCHANGED <<born, pidFile>>

\* The process that listens on the port, unless it is the manager's own; the look
\* for it may fail, and then nothing is killed.
KillOrphanedServerOnPort ==
  \/ UNCHANGED osVars
  \/ \E p \in Pids :
       /\ proc[p] = "serving" /\ p # procId
       /\ proc' = [proc EXCEPT ![p] = "exited"]
       /\ UNCHANGED <<born, pidFile>>

\* No pipe, no binary or no process.  The sidecar's manager stores what CreateProc
\* returned, the invalid handle too; the server's only what is valid.
SpawnFails ==
  /\ handle' \in IF IsServer THEN {handle} ELSE {handle, 0}
  /\ UNCHANGED <<osVars, procId>>

SpawnProcess ==
  \E p \in Pids :
    /\ proc[p] = "unborn" /\ \A q \in 1 .. p - 1 : proc[q] # "unborn"
    /\ proc' = [proc EXCEPT ![p] = "up"]
    /\ born' = [born EXCEPT ![p] = session]
    /\ handle' = p
    /\ procId' = IF IsServer THEN p ELSE procId
    /\ pidFile' = IF IsServer THEN p ELSE pidFile

(* Mutant: the count of an earlier watchdog is kept.                       *)
StartKeepsCount ==
  IF future THEN UNCHANGED wdVars
  ELSE /\ future' = TRUE /\ wd' = "sleep" /\ stop' = FALSE
       /\ window' = "fresh" /\ tries' = 0
       /\ UNCHANGED crashes

\* Start is a no-op while the future is valid, which it is until Stop resets it: also
\* when the thread has given up and ended.
StartWatchdog ==
  IF future THEN UNCHANGED wdVars
  ELSE /\ future' = TRUE /\ wd' = "sleep" /\ stop' = FALSE
       /\ crashes' = 0 /\ window' = "fresh" /\ tries' = 0

FreesPortFirst == IF IsServer THEN "freePort" ELSE "spawn"

--------------------------------------------------------------------------------
(* The game thread.                                                        *)

\* Start, after IsRunning and bStarting; the sidecar's callers look at IsRunning themselves.
BeginStart ==
  /\ gpc = "idle" /\ ~IsRunning
  /\ gpc' = FreesPortFirst
  /\ UNCHANGED <<owner, osVars, wdVars, session, goal, handle, procId, reattached>>

StartFreesPort ==
  /\ gpc = "freePort"
  /\ KillOrphanedServerOnPort
  /\ gpc' = "spawn"
  /\ UNCHANGED <<owner, wdVars, session, goal, handle, procId, reattached>>

EndStart ==
  /\ gpc = "spawn" /\ gpc' = "idle"
  /\ \/ SpawnFails /\ UNCHANGED wdVars
     \/ SpawnProcess /\ StartWatchdog
  /\ UNCHANGED <<owner, session, goal, reattached>>

\* A live process named by the pid file becomes ours; otherwise the file is cleared and
\* ReattachOrStart goes on to Start.
ReattachIfRunning ==
  /\ gpc = "idle" /\ IsServer /\ ~reattached /\ reattached' = TRUE
  /\ IF Alive(pidFile)
     THEN /\ handle' = pidFile /\ procId' = pidFile
          /\ StartWatchdog
          /\ UNCHANGED <<osVars, gpc>>
     ELSE /\ pidFile' = 0
          /\ gpc' \in IF IsRunning THEN {"idle"} ELSE {"idle", "freePort"}
          /\ UNCHANGED <<proc, born, wdVars, handle, procId>>
  /\ UNCHANGED <<owner, session, goal>>

\* Stop, StopRestarts: the flag first, then the join.  "restart" is the Restart bridge button.
RequestStop ==
  /\ gpc = "idle" /\ gpc' = "join" /\ stop' = TRUE
  /\ goal' \in IF IsServer THEN {"idle", "exit"} ELSE Goals
  /\ UNCHANGED <<owner, osVars, future, wd, crashes, window, tries, session, handle, procId, reattached>>

(* Mutants: Stop sets the flag and forgets the thread; the future is kept. *)
DetachWatchdog ==
  /\ gpc = "join"
  /\ future' = FALSE
  /\ gpc' = "terminate"
  /\ UNCHANGED <<owner, osVars, wd, stop, crashes, window, tries, session, goal, handle, procId, reattached>>

KeepFuture ==
  /\ gpc = "join" /\ wd \in {"none", "ended"}
  /\ gpc' = "terminate"
  /\ UNCHANGED <<owner, osVars, wdVars, session, goal, handle, procId, reattached>>

JoinWatchdog ==
  /\ gpc = "join" /\ wd \in {"none", "ended"}
  /\ future' = FALSE /\ wd' = "none"
  /\ gpc' = "terminate"
  /\ UNCHANGED <<owner, osVars, stop, crashes, window, tries, session, goal, handle, procId, reattached>>

\* TerminateProcess, and what the owner does next.
TerminateProcess ==
  /\ gpc = "terminate"
  /\ proc' = [p \in Pids |-> IF p = handle /\ Alive(p) THEN "exited" ELSE proc[p]]
  /\ handle' = 0
  /\ procId' = IF IsServer THEN 0 ELSE procId
  /\ pidFile' = IF IsServer THEN 0 ELSE pidFile
  /\ gpc' = IF goal = "restart" THEN "spawn" ELSE IF goal = "exit" THEN "closed" ELSE "idle"
  /\ UNCHANGED <<owner, born, wdVars, session, goal, reattached>>

GameThread ==
  \/ BeginStart \/ StartFreesPort \/ EndStart \/ ReattachIfRunning
  \/ RequestStop \/ JoinWatchdog \/ TerminateProcess

--------------------------------------------------------------------------------
(* The watchdog thread.                                                    *)

WatchdogStops ==
  /\ stop /\ wd \in {"sleep", "backoff"}
  /\ wd' = "ended"
  /\ UNCHANGED <<owner, osVars, gameVars, future, stop, crashes, window, tries>>

PollAlive ==
  /\ wd = "sleep" /\ ~stop /\ IsRunning
  /\ window' = IF window = "fresh" THEN "open" ELSE window
  /\ UNCHANGED <<owner, osVars, gameVars, future, wd, stop, crashes, tries>>

(* Mutant: every death opens a window.                                     *)
PollDeadForgets ==
  /\ wd = "sleep" /\ ~stop /\ ~IsRunning
  /\ crashes' = 1 /\ window' = "fresh" /\ UNCHANGED tries
  /\ wd' = IF crashes' > MaxCrashes THEN "giveUp" ELSE "backoff"
  /\ UNCHANGED <<owner, osVars, gameVars, future, stop>>

\* The count restarts with a window older than 300 s; the sixth death of a window is the last.
PollDead ==
  /\ wd = "sleep" /\ ~stop /\ ~IsRunning
  /\ crashes' = IF window = "past" THEN 1 ELSE crashes + 1
  /\ window' = IF window = "past" THEN "fresh" ELSE window
  /\ tries' = IF window = "past" THEN 0 ELSE tries
  /\ wd' = IF crashes' > MaxCrashes THEN "giveUp" ELSE "backoff"
  /\ UNCHANGED <<owner, osVars, gameVars, future, stop>>

\* The window may grow old once the child has been seen alive: a run of failed
\* relaunches from a fresh window takes less than a minute (1+2+5+10+30 s and the polls).
WindowAges ==
  /\ wd \in {"sleep", "backoff"} /\ window = "open" /\ window' = "past"
  /\ UNCHANGED <<owner, osVars, gameVars, future, wd, stop, crashes, tries>>

GiveUp ==
  /\ wd = "giveUp" /\ wd' = "ended"
  /\ pidFile' = IF IsServer THEN 0 ELSE pidFile
  /\ UNCHANGED <<owner, proc, born, gameVars, future, stop, crashes, window, tries>>

\* Respawn, which does not look again at the process: it closes the handle,
BackoffEnds ==
  /\ wd = "backoff" /\ ~stop
  /\ handle' = 0 /\ wd' = FreesPortFirst
  /\ UNCHANGED <<owner, osVars, future, stop, crashes, window, tries, session, gpc, goal, procId, reattached>>

\* frees the port,
RespawnFreesPort ==
  /\ wd = "freePort" /\ wd' = "spawn"
  /\ KillOrphanedServerOnPort
  /\ UNCHANGED <<owner, gameVars, future, stop, crashes, window, tries>>

\* and spawns.
Respawn ==
  /\ wd = "spawn" /\ wd' = "sleep"
  /\ SpawnFails \/ SpawnProcess
  /\ tries' = IF tries > MaxCrashes THEN tries ELSE tries + 1  \* counts to one past the limit
  /\ UNCHANGED <<owner, session, gpc, goal, reattached, future, stop, crashes, window>>

Watchdog ==
  \/ WatchdogStops \/ PollAlive \/ PollDead \/ GiveUp
  \/ BackoffEnds \/ RespawnFreesPort \/ Respawn

--------------------------------------------------------------------------------
(* The children and the editor process.                                    *)

\* A server listens if the port is free; a sidecar is let in by the editor that spawned it.
StartsServing(p) ==
  /\ proc[p] = "up"
  /\ IF IsServer THEN \A q \in Pids : proc[q] # "serving" ELSE EditorUp /\ born[p] = session
  /\ proc' = [proc EXCEPT ![p] = "serving"]
  /\ UNCHANGED <<owner, born, pidFile, wdVars, gameVars>>

\* A crash, a port that is taken, three rejected handshakes, the deadline, the Bye, or
\* the two-second poll of a sidecar whose editor is gone: at any time, or never.
ChildExits(p) ==
  /\ Alive(p) /\ proc' = [proc EXCEPT ![p] = "exited"]
  /\ UNCHANGED <<owner, born, pidFile, wdVars, gameVars>>

\* The editor dies without Shutdown.  The servers go with it where a job object holds them.
EditorCrashes ==
  /\ EditorUp /\ gpc' = "crashed"
  /\ \/ UNCHANGED proc
     \/ IsServer /\ proc' = [p \in Pids |-> IF Alive(p) THEN "exited" ELSE proc[p]]
  /\ future' = FALSE /\ wd' = "none"
  /\ UNCHANGED <<owner, born, pidFile, stop, crashes, window, tries, session, goal, handle, procId, reattached>>

EditorStarts ==
  /\ ~EditorUp /\ session < MaxSessions
  /\ session' = session + 1 /\ gpc' = "idle" /\ goal' = "idle"
  /\ handle' = 0 /\ procId' = 0 /\ reattached' = FALSE
  /\ stop' = FALSE /\ crashes' = 0 /\ window' = "fresh" /\ tries' = 0
  /\ UNCHANGED <<owner, osVars, future, wd>>

Next ==
  \/ GameThread \/ Watchdog \/ WindowAges \/ EditorCrashes \/ EditorStarts
  \/ \E p \in Pids : StartsServing(p) \/ ChildExits(p)

Spec == Init /\ [][Next]_vars

\* Threads run, and a Start or Stop under way goes on; no child has to do anything.
FairSpec ==
  /\ Spec
  /\ WF_vars(Watchdog)
  /\ WF_vars(StartFreesPort \/ EndStart \/ JoinWatchdog \/ TerminateProcess)

--------------------------------------------------------------------------------
(* Properties.                                                             *)

\* While the game thread is between operations, a child that runs under a handle has a
\* watchdog that nobody has told to stop: a Stop, a restart and a new Start never leave
\* it with the thread of the run before.  That thread may have ended only by using up
\* the relaunches of a window.  The exception is as wide as the code makes it: it covers
\* every child started from then until the next Stop (StartedIsWatched, below).
RunningIsWatched ==
  (gpc = "idle" /\ IsRunning) =>
    /\ future /\ ~stop
    /\ wd = "ended" => tries = MaxCrashes

\* The circuit breaker (UnrealMcpSupervisedProcess.h:19) trips neither late nor early:
\* no window sees more than MaxCrashes relaunches, and the watchdog gives up only when
\* it has tried as many in this window, whatever an earlier run or window counted and
\* whatever the game thread starts and stops meanwhile.
BreakerIsExact ==
  /\ tries <= MaxCrashes
  /\ wd = "giveUp" => tries = MaxCrashes

\* A Stop is final: once it has joined the watchdog, no process is created until the
\* next Start, so the kill that follows cannot be undone by a relaunch.
StopIsFinal ==
  [][(\E p \in Pids : proc[p] = "unborn" /\ proc'[p] = "up")
       => (gpc = "spawn" \/ future)]_vars

\* Freeing the port never kills the process the manager holds, even when a Start and a
\* relaunch overlap and the new server already listens.
KeepsItsOwnServer ==
  [][(/\ IsRunning
       /\ \/ wd = "freePort" /\ wd' = "spawn"
          \/ gpc = "freePort" /\ gpc' = "spawn") => Alive(handle)']_vars

\* While the watchdog lives, a dead child is replaced by a live one or the watchdog
\* ends: given up after the sixth death of a window, or stopped.
DeadChildIsReplaced ==
  (wd \in WdPc \ {"none", "ended"} /\ ~IsRunning) ~> (IsRunning \/ wd \in {"none", "ended"})

--------------------------------------------------------------------------------
(* What the comments promise and the code does not keep.                   *)

\* UnrealMcpServerManager.cpp:336 and :372, "Watchdog.Start resets the crash window";
\* UnrealMcpSupervisedProcess.h:47, IsWatching is "True while the watchdog thread is
\* live": what is started is watched by a live thread.  After a give-up the future is
\* still valid, so Start launches no thread and resets nothing.
StartedIsWatched ==
  (gpc = "idle" /\ IsRunning) => (future /\ wd # "ended")

================================================================================
