----------------------------- MODULE BridgeDownload -----------------------------
(***************************************************************************)
(* How editors come by the sidecar's binary: FUnrealMcpBridgeDownloader,   *)
(* the resolver of FUnrealMcpSidecarManager and the coordinator that joins *)
(* them.  All editors of one plugin version share one cache directory. An  *)
(* editor trusts that directory when its marker records the digest its own *)
(* plugin ships and the binary is there; otherwise it downloads, unpacks   *)
(* beside the directory and moves the result into place.                   *)
(*                                                                         *)
(* A build stands for its bytes and their digest.  Two plugins of the same *)
(* version may ship different builds.  A worker's steps interleave with    *)
(* those of other editors file by file; a file in use may refuse to be     *)
(* deleted, and a move may fail without a reason (a virus scanner).        *)
(***************************************************************************)
EXTENDS Naturals

CONSTANTS
  Editors,      \* the editor processes that share the cache
  Builds,       \* the builds of the sidecar that plugins ship
  Corrupt,      \* bytes no plugin ships
  Nothing,      \* an absent file, a process that is not there
  MaxAttempts   \* how often a worker tries to publish: 5 in the code

ASSUME BuildsAssumption == Corrupt \notin Builds /\ Nothing \notin Builds \cup {Corrupt}
ASSUME AttemptsAssumption == MaxAttempts \in Nat \ {0}

VARIABLES
  ships,      \* the build each editor's plugin ships (SHA256SUMS)
  present,    \* the cache directory exists
  file,       \* its two files, the binary and the ".verified" marker
  game,       \* the game thread of each editor
  worker,     \* its download: none, at a step, or its result is posted (EState::Downloading)
  attempt,    \* the publication attempt the worker is at
  staged,     \* the bytes unpacked in its staging directory
  left,       \* the files a deletion has listed and not yet deleted
  overtaken,  \* another editor has moved its directory in since this worker looked
  side,       \* the build of the sidecar process it runs, or Nothing
  watched     \* its watchdog: none, or one that relaunches from BridgePath, which a start may empty

cache      == <<present, file>>
workerVars == <<worker, attempt, staged, left, overtaken>>
sideVars   == <<side, watched>>
vars       == <<ships, cache, game, workerVars, sideVars>>

Files == {"bin", "marker"}
Bytes == Builds \cup {Corrupt}
NoFiles == [f \in Files |-> Nothing]

\* One type invariant.  The cache may at first hold what an earlier run left.
TypeOK ==
  /\ ships \in [Editors -> Builds]
  /\ present \in BOOLEAN /\ file \in [Files -> Bytes \cup {Nothing}]
  /\ (present = FALSE) => (file = NoFiles)
  /\ game \in [Editors -> {"idle", "resolved", "unresolved", "callback", "joining", "closed"}]
  /\ worker \in [Editors -> {"none", "http", "move", "look", "list", "delete", "ok", "error"}]
  /\ attempt \in [Editors -> 0 .. MaxAttempts - 1]
  /\ staged \in [Editors -> Bytes \cup {Nothing}]
  /\ left \in [Editors -> SUBSET Files]
  /\ overtaken \in [Editors -> BOOLEAN]
  /\ side \in [Editors -> Bytes \cup {Nothing}]
  /\ watched \in [Editors -> {"none", "path", "empty"}]

Init ==
  /\ ships \in [Editors -> Builds]
  /\ present \in BOOLEAN
  /\ file \in [Files -> Builds \cup {Nothing}]
  /\ (present = FALSE) => (file = NoFiles)
  /\ file["bin"] = Nothing \/ file["marker"] \in {Nothing, file["bin"]}
  /\ game = [e \in Editors |-> "idle"]
  /\ worker = [e \in Editors |-> "none"]
  /\ attempt = [e \in Editors |-> 0] /\ staged = [e \in Editors |-> Nothing]
  /\ left = [e \in Editors |-> {}] /\ overtaken = [e \in Editors |-> FALSE]
  /\ side = [e \in Editors |-> Nothing] /\ watched = [e \in Editors |-> "none"]

\* What the watchdog relaunches from once BridgePath has been resolved anew.
Repath(e, resolved) ==
  watched' = [watched EXCEPT ![e] = IF @ = "none" THEN @ ELSE IF resolved THEN "path" ELSE "empty"]

\* IsCompleteDownloadedBridgeDir
IsComplete(build) == file["marker"] = build /\ file["bin"] # Nothing

--------------------------------------------------------------------------------
(* The game thread: StartSidecarOrDownload and what it calls.              *)

\* StartForPort resolves the binary.  Called at start-up, by Authorize when no sidecar
\* runs, and by "Restart bridge" after it has stopped the old one.
StartForPort(e) ==
  /\ game[e] = "idle" /\ side[e] = Nothing
  /\ Repath(e, IsComplete(ships[e]))
  /\ game' = [game EXCEPT ![e] = IF IsComplete(ships[e]) THEN "resolved" ELSE "unresolved"]
  /\ UNCHANGED <<ships, cache, workerVars, side>>

\* The process is made from whatever the path names now; that can fail.
SpawnProcess(e) ==
  /\ file["bin"] # Nothing
  /\ side' = [side EXCEPT ![e] = file["bin"]]
  /\ watched' = [watched EXCEPT ![e] = "path"]

SpawnResolved(e) ==
  /\ game[e] = "resolved"
  /\ \/ SpawnProcess(e) /\ game' = [game EXCEPT ![e] = "idle"]
     \/ game' = [game EXCEPT ![e] = "unresolved"] /\ UNCHANGED sideVars
  /\ UNCHANGED <<ships, cache, workerVars>>

\* The second look: with a binary there it is not a download case, and the answer is "no".
\* A download that is under way is joined.
DownloadUnlessResolved(e) ==
  /\ game[e] = "unresolved"
  /\ game' = [game EXCEPT ![e] = "idle"]
  /\ IF IsComplete(ships[e]) \/ worker[e] # "none"
     THEN UNCHANGED worker
     ELSE worker' = [worker EXCEPT ![e] = "http"]
  /\ UNCHANGED <<ships, cache, attempt, staged, left, overtaken, sideVars>>

\* Finish on the game thread: after a success the callback starts the sidecar unless one
\* runs, and resolves the binary anew.
Finish(e) ==
  LET starts == worker[e] = "ok" /\ side[e] = Nothing IN
  /\ worker[e] \in {"ok", "error"}
  /\ worker' = [worker EXCEPT ![e] = "none"]
  /\ IF starts THEN Repath(e, IsComplete(ships[e])) ELSE UNCHANGED watched
  /\ game' = [game EXCEPT ![e] = IF starts /\ IsComplete(ships[e]) THEN "callback" ELSE @]
  /\ UNCHANGED <<ships, cache, attempt, staged, left, overtaken, side>>

(* Mutant: the posted result does not look at bCancelled.                  *)
FinishCancelled(e) == game[e] \in {"idle", "joining", "closed"} /\ Finish(e)

FinishPosted(e) == game[e] = "idle" /\ Finish(e)

SpawnAfterDownload(e) ==
  /\ game[e] = "callback"
  /\ game' = [game EXCEPT ![e] = "idle"]
  /\ SpawnProcess(e) \/ UNCHANGED sideVars
  /\ UNCHANGED <<ships, cache, workerVars>>

\* Shutdown: Cancel drops the request and the posted result, and waits for the worker.
BeginShutdown(e) ==
  /\ game[e] = "idle"
  /\ game' = [game EXCEPT ![e] = "joining"]
  /\ worker' = [worker EXCEPT ![e] = IF @ = "http" THEN "none" ELSE @]
  /\ UNCHANGED <<ships, cache, attempt, staged, left, overtaken, sideVars>>

\* ... and after it the sidecar manager stops its process.  A result still posted finds
\* its downloader gone.
EndShutdown(e) ==
  /\ game[e] = "joining" /\ worker[e] \in {"none", "ok", "error"}
  /\ game' = [game EXCEPT ![e] = "closed"]
  /\ side' = [side EXCEPT ![e] = Nothing] /\ watched' = [watched EXCEPT ![e] = "none"]
  /\ UNCHANGED <<ships, cache, worker, attempt, staged, left, overtaken>>

StopSidecar(e) ==
  /\ game[e] = "idle" /\ watched[e] # "none"
  /\ side' = [side EXCEPT ![e] = Nothing] /\ watched' = [watched EXCEPT ![e] = "none"]
  /\ UNCHANGED <<ships, cache, game, workerVars>>

--------------------------------------------------------------------------------
(* The worker thread.                                                      *)

Step(e, from, to) == worker[e] = from /\ worker' = [worker EXCEPT ![e] = to]

(* Mutant: the bytes are not verified.                                     *)
AcceptAnyZip(e, body) == body \in Bytes

\* VerifyBridgeZip: the digest of the bytes against the manifest of the own plugin.
VerifyBridgeZip(e, body) == body = ships[e]

\* The request ends; the bytes are verified, unpacked and marked beside the cache
\* directory.  A failed request, a failed verification and a failed write end alike.
OnHttpComplete(e) ==
  /\ \E body \in Bytes :
       \/ /\ VerifyBridgeZip(e, body) /\ Step(e, "http", "move")
          /\ staged' = [staged EXCEPT ![e] = body]
       \/ Step(e, "http", "error") /\ UNCHANGED staged
  /\ UNCHANGED <<ships, cache, game, attempt, left, overtaken, sideVars>>

\* The staging directory goes with the worker's scope.
EndOfWork(e) ==
  /\ staged' = [staged EXCEPT ![e] = Nothing] /\ attempt' = [attempt EXCEPT ![e] = 0]

(* Mutant: the files are moved one by one over those of the directory, and *)
(* one in use is left as it is.                                            *)
MoveEachFile(e) ==
  /\ present' = TRUE
  /\ \E moved \in SUBSET Files :
       /\ \A f \in Files : file[f] = Nothing => f \in moved
       /\ file' = [f \in Files |-> IF f \in moved THEN staged[e] ELSE file[f]]

\* What the rename leaves: a directory moves over an absent or an empty one only.
MoveFile(e) ==
  /\ file = NoFiles
  /\ present' = TRUE /\ file' = [f \in Files |-> staged[e]]

Publish(e) ==
  /\ Step(e, "move", "ok") /\ MoveFile(e)
  /\ overtaken' = [d \in Editors |-> overtaken[d] \/ (d # e /\ worker[d] \in {"list", "delete"})]
  /\ EndOfWork(e)
  /\ UNCHANGED <<ships, game, left, sideVars>>

MoveFails(e) ==
  /\ Step(e, "move", "look")
  /\ UNCHANGED <<ships, cache, game, attempt, staged, left, overtaken, sideVars>>

(* Mutant: the directory is replaced without a look.                       *)
ReplaceAnyTarget(e) ==
  /\ Step(e, "look", "list")
  /\ UNCHANGED <<ships, cache, game, attempt, staged, left, overtaken, sideVars>>

\* A directory with the same digest is kept, and counts as published.
LookAtTarget(e) ==
  /\ \/ IsComplete(ships[e]) /\ Step(e, "look", "ok") /\ EndOfWork(e)
     \/ ~IsComplete(ships[e]) /\ Step(e, "look", "list") /\ UNCHANGED <<attempt, staged>>
  /\ UNCHANGED <<ships, cache, game, left, overtaken, sideVars>>

\* DeleteDirectory lists the files, deletes them one by one, then the directory.
ListTarget(e) ==
  /\ Step(e, "list", "delete")
  /\ left' = [left EXCEPT ![e] = {f \in Files : file[f] # Nothing}]
  /\ UNCHANGED <<ships, cache, game, attempt, staged, overtaken, sideVars>>

\* A file in use may stay.
DeleteFile(e) ==
  /\ worker[e] = "delete"
  /\ \E f \in left[e] :
       /\ left' = [left EXCEPT ![e] = @ \ {f}]
       /\ file' \in {file, [file EXCEPT ![f] = Nothing]}
  /\ UNCHANGED <<ships, present, game, worker, attempt, staged, overtaken, sideVars>>

\* ... and the next attempt, if there is one.
DeleteDirectory(e) ==
  /\ left[e] = {}
  /\ IF attempt[e] + 1 < MaxAttempts
     THEN /\ Step(e, "delete", "move")
          /\ attempt' = [attempt EXCEPT ![e] = @ + 1] /\ UNCHANGED staged
     ELSE Step(e, "delete", "error") /\ EndOfWork(e)
  /\ overtaken' = [overtaken EXCEPT ![e] = FALSE]
  /\ present' = (present /\ file # NoFiles)
  /\ UNCHANGED <<ships, file, game, left, sideVars>>

--------------------------------------------------------------------------------
(* The processes.                                                          *)

SidecarDies(e) ==
  /\ side[e] # Nothing
  /\ side' = [side EXCEPT ![e] = Nothing]
  /\ UNCHANGED <<ships, cache, game, workerVars, watched>>

\* The watchdog spawns from the path the last start found; it does not resolve it anew.
Relaunch(e) ==
  /\ watched[e] = "path" /\ side[e] = Nothing
  /\ SpawnProcess(e)
  /\ UNCHANGED <<ships, cache, game, workerVars>>

\* An editor that ends in any way leaves the cache as it is, and a new one may come.
Reset(e) ==
  /\ worker' = [worker EXCEPT ![e] = "none"]
  /\ attempt' = [attempt EXCEPT ![e] = 0] /\ staged' = [staged EXCEPT ![e] = Nothing]
  /\ left' = [left EXCEPT ![e] = {}] /\ overtaken' = [overtaken EXCEPT ![e] = FALSE]
  /\ side' = [side EXCEPT ![e] = Nothing]
  /\ watched' = [watched EXCEPT ![e] = "none"]
  /\ UNCHANGED <<ships, cache>>

EditorCrashes(e) ==
  /\ game[e] # "closed" /\ game' = [game EXCEPT ![e] = "closed"]
  /\ Reset(e)

EditorStarts(e) ==
  /\ game[e] = "closed" /\ game' = [game EXCEPT ![e] = "idle"]
  /\ Reset(e)

--------------------------------------------------------------------------------
GameThread(e) ==
  \/ StartForPort(e) \/ SpawnResolved(e) \/ DownloadUnlessResolved(e)
  \/ FinishPosted(e) \/ SpawnAfterDownload(e)
  \/ StopSidecar(e) \/ BeginShutdown(e) \/ EndShutdown(e)

Worker(e) ==
  \/ OnHttpComplete(e)
  \/ Publish(e) \/ MoveFails(e) \/ LookAtTarget(e)
  \/ ListTarget(e) \/ DeleteFile(e) \/ DeleteDirectory(e)

Next ==
  \E e \in Editors :
    \/ GameThread(e) \/ Worker(e)
    \/ SidecarDies(e) \/ Relaunch(e) \/ EditorCrashes(e) \/ EditorStarts(e)

Spec == Init /\ [][Next]_vars

--------------------------------------------------------------------------------
(* Properties.                                                             *)

\* A marker in the cache that sits beside a binary records that binary: whatever editors
\* and deletions cross, none leaves one build's marker beside another's binary
\* (ExtractBridgeZip marks in staging and renames).
MarkerTellsTheTruth ==
  file["marker"] # Nothing /\ file["bin"] # Nothing => file["marker"] = file["bin"]

\* Bytes that no plugin ships never reach the cache, and are never run, by whichever
\* editor and by whichever of its ways to a process (VerifyBridgeZip).
NothingUnverifiedRuns ==
  file["bin"] # Corrupt /\ \A e \in Editors : side[e] # Corrupt

\* A worker deletes from a directory complete for its own build only when another editor
\* has moved it in since the worker looked: an editor that comes later keeps it.
OnlyOvertakenDelete ==
  [][\A e \in Editors :
       worker[e] = "delete" /\ IsComplete(ships[e]) /\ ~overtaken[e] /\ left'[e] # left[e]
         => file' = file]_vars

\* Of an editor that has shut down, only a new one is left to come.
StaysDown(e) ==
  /\ game[e] = "joining" => game'[e] \in {"joining", "closed"}
  /\ game[e] = "closed" /\ game'[e] # "closed"
       => game'[e] = "idle" /\ worker'[e] = "none" /\ side'[e] = Nothing

\* An editor that has shut down starts no sidecar, whatever its worker had posted; what
\* comes after it is a new editor (Cancel, before the manager is stopped).
ShutDownStaysDown == [][\A e \in Editors : StaysDown(e)]_vars

\* The cache keeps its promise (BridgeCache) although it is filled, searched and emptied
\* file by file, by several editors at once.
Cache == INSTANCE BridgeCache WITH
  binary  <- file["bin"],
  trusted <- file["bin"] # Nothing /\ file["marker"] = file["bin"],
  running <- side

KeepsCache == Cache!Spec
================================================================================
