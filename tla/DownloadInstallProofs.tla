------------------------- MODULE DownloadInstallProofs -------------------------
(***************************************************************************)
(* The safety of what the plugin does to files on the disk: of             *)
(* BridgeDownload, for any number of editors, builds and attempts, and of  *)
(* ExtensionInstall, for any plugin, versions and archives.  The two share *)
(* no state; their proofs share this module.                               *)
(*                                                                         *)
(* BridgeDownload: types first (Booleans apart from the other values, as   *)
(* the provers treat the two by different means); then which bytes are     *)
(* where, that the marker is of the binary, what a worker knows of the     *)
(* directory it is about to delete, and that the cache keeps the promise   *)
(* BridgeCache states.                                                     *)
(*                                                                         *)
(* ExtensionInstall: what each step of a placement knows of the three      *)
(* directories, one after the other, and from it what holds when a run has *)
(* ended.                                                                  *)
(***************************************************************************)
EXTENDS BridgeDownload, ExtensionInstall, TLAPS

(***************************************************************************)
(* BridgeDownload.                                                         *)
(***************************************************************************)

(* A step is one editor's.                                                 *)
EditorStep(e) ==
  \/ GameThread(e) \/ Worker(e)
  \/ SidecarDies(e) \/ Relaunch(e) \/ EditorCrashes(e) \/ EditorStarts(e)

LEMMA EditorSteps ==
  ASSUME [Next]_vars PROVE (\E e \in Editors : EditorStep(e)) \/ UNCHANGED vars
BY DEF Next, EditorStep

(* The flags are Booleans.                                                 *)
FlagsOK == present \in BOOLEAN /\ overtaken \in [Editors -> BOOLEAN]

LEMMA FlagsCorrect == Spec => []FlagsOK
<1> USE DEF FlagsOK, cache, workerVars, sideVars
<1>1. Init => FlagsOK
  BY DEF Init
<1>2. FlagsOK /\ [Next]_vars => FlagsOK'
  <2> SUFFICES ASSUME FlagsOK, [Next]_vars PROVE FlagsOK'
    OBVIOUS
  <2>1. CASE UNCHANGED vars
    BY <2>1 DEF vars
  <2> SUFFICES ASSUME NEW e \in Editors, EditorStep(e) PROVE FlagsOK'
    BY <2>1, EditorSteps
  <2>2. CASE StartForPort(e)
    BY <2>2 DEF StartForPort, Repath
  <2>3. CASE SpawnResolved(e)
    BY <2>3 DEF SpawnResolved, SpawnProcess
  <2>4. CASE DownloadUnlessResolved(e)
    BY <2>4 DEF DownloadUnlessResolved
  <2>5. CASE FinishPosted(e)
    BY <2>5 DEF FinishPosted, Finish, Repath
  <2>6. CASE SpawnAfterDownload(e)
    BY <2>6 DEF SpawnAfterDownload, SpawnProcess
  <2>7. CASE StopSidecar(e)
    BY <2>7 DEF StopSidecar
  <2>8. CASE BeginShutdown(e)
    BY <2>8 DEF BeginShutdown
  <2>9. CASE EndShutdown(e)
    BY <2>9 DEF EndShutdown
  <2>10. CASE OnHttpComplete(e)
    BY <2>10 DEF OnHttpComplete, Step, VerifyBridgeZip
  <2>11. CASE Publish(e)
    BY <2>11 DEF Publish, Step, MoveFile, EndOfWork
  <2>12. CASE MoveFails(e)
    BY <2>12 DEF MoveFails, Step
  <2>13. CASE LookAtTarget(e)
    BY <2>13 DEF LookAtTarget, Step, EndOfWork
  <2>14. CASE ListTarget(e)
    BY <2>14 DEF ListTarget, Step
  <2>15. CASE DeleteFile(e)
    BY <2>15 DEF DeleteFile
  <2>16. CASE DeleteDirectory(e)
    BY <2>16 DEF DeleteDirectory, Step, EndOfWork
  <2>17. CASE SidecarDies(e)
    BY <2>17 DEF SidecarDies
  <2>18. CASE Relaunch(e)
    BY <2>18 DEF Relaunch, SpawnProcess
  <2>19. CASE EditorCrashes(e)
    BY <2>19 DEF EditorCrashes, Reset
  <2>20. CASE EditorStarts(e)
    BY <2>20 DEF EditorStarts, Reset
  <2> QED
    BY <2>2, <2>3, <2>4, <2>5, <2>6, <2>7, <2>8, <2>9, <2>10, <2>11, <2>12, <2>13, <2>14,
       <2>15, <2>16, <2>17, <2>18, <2>19, <2>20 DEF EditorStep, GameThread, Worker
<1> QED
  BY <1>1, <1>2, PTL DEF Spec

(* TypeOK without them.                                                    *)
ValuesOK ==
  /\ ships \in [Editors -> Builds]
  /\ file \in [Files -> Bytes \cup {Nothing}]
  /\ (present = FALSE) => (file = NoFiles)
  /\ game \in [Editors -> {"idle", "resolved", "unresolved", "callback", "joining", "closed"}]
  /\ worker \in [Editors -> {"none", "http", "move", "look", "list", "delete", "ok", "error"}]
  /\ attempt \in [Editors -> 0 .. MaxAttempts - 1]
  /\ staged \in [Editors -> Bytes \cup {Nothing}]
  /\ left \in [Editors -> SUBSET Files]
  /\ side \in [Editors -> Bytes \cup {Nothing}]
  /\ watched \in [Editors -> {"none", "path", "empty"}]

LEMMA ValuesCorrect == Spec => []ValuesOK
<1> USE DEF ValuesOK, Files, Bytes, NoFiles, cache, workerVars, sideVars
<1>1. Init => ValuesOK
  BY AttemptsAssumption DEF Init
<1>2. ValuesOK /\ FlagsOK /\ [Next]_vars => ValuesOK'
  <2> SUFFICES ASSUME ValuesOK, FlagsOK, [Next]_vars PROVE ValuesOK'
    OBVIOUS
  <2>1. CASE UNCHANGED vars
    BY <2>1 DEF vars
  <2> SUFFICES ASSUME NEW e \in Editors, EditorStep(e) PROVE ValuesOK'
    BY <2>1, EditorSteps
  <2>2. CASE StartForPort(e)
    BY <2>2, AttemptsAssumption DEF StartForPort, Repath
  <2>3. CASE SpawnResolved(e)
    BY <2>3, AttemptsAssumption DEF SpawnResolved, SpawnProcess
  <2>4. CASE DownloadUnlessResolved(e)
    BY <2>4, AttemptsAssumption DEF DownloadUnlessResolved
  <2>5. CASE FinishPosted(e)
    BY <2>5, AttemptsAssumption DEF FinishPosted, Finish, Repath
  <2>6. CASE SpawnAfterDownload(e)
    BY <2>6, AttemptsAssumption DEF SpawnAfterDownload, SpawnProcess
  <2>7. CASE StopSidecar(e)
    BY <2>7, AttemptsAssumption DEF StopSidecar
  <2>8. CASE BeginShutdown(e)
    BY <2>8, AttemptsAssumption DEF BeginShutdown
  <2>9. CASE EndShutdown(e)
    BY <2>9, AttemptsAssumption DEF EndShutdown
  <2>10. CASE OnHttpComplete(e)
    BY <2>10, AttemptsAssumption DEF OnHttpComplete, Step, VerifyBridgeZip
  <2>11. CASE Publish(e)
    BY <2>11, AttemptsAssumption DEF Publish, Step, MoveFile, EndOfWork
  <2>12. CASE MoveFails(e)
    BY <2>12, AttemptsAssumption DEF MoveFails, Step
  <2>13. CASE LookAtTarget(e)
    BY <2>13, AttemptsAssumption DEF LookAtTarget, Step, EndOfWork
  <2>14. CASE ListTarget(e)
    BY <2>14, AttemptsAssumption DEF ListTarget, Step
  <2>15. CASE DeleteFile(e)
    BY <2>15, AttemptsAssumption DEF DeleteFile
  <2>16. CASE DeleteDirectory(e)
    <3>1. present' = FALSE => file' = NoFiles
      BY <2>16, Zenon DEF DeleteDirectory, FlagsOK
    <3> QED
      BY <2>16, <3>1, AttemptsAssumption DEF DeleteDirectory, Step, EndOfWork
  <2>17. CASE SidecarDies(e)
    BY <2>17, AttemptsAssumption DEF SidecarDies
  <2>18. CASE Relaunch(e)
    BY <2>18, AttemptsAssumption DEF Relaunch, SpawnProcess
  <2>19. CASE EditorCrashes(e)
    BY <2>19, AttemptsAssumption DEF EditorCrashes, Reset
  <2>20. CASE EditorStarts(e)
    BY <2>20, AttemptsAssumption DEF EditorStarts, Reset
  <2> QED
    BY <2>2, <2>3, <2>4, <2>5, <2>6, <2>7, <2>8, <2>9, <2>10, <2>11, <2>12, <2>13, <2>14,
       <2>15, <2>16, <2>17, <2>18, <2>19, <2>20 DEF EditorStep, GameThread, Worker
<1> QED
  BY <1>1, <1>2, FlagsCorrect, PTL DEF Spec

(* Every variable keeps its type, and an absent directory has no files.    *)
THEOREM TypeCorrect == Spec => []TypeOK
<1>1. FlagsOK /\ ValuesOK => TypeOK
  BY DEF FlagsOK, ValuesOK, TypeOK
<1> QED
  BY <1>1, FlagsCorrect, ValuesCorrect, PTL

(* What is staged is what the own plugin ships; so the cache and the       *)
(* sidecars hold only builds that some plugin ships.                       *)
BytesOK ==
  /\ \A e \in Editors :
       /\ worker[e] \in {"move", "look", "list", "delete"} => staged[e] = ships[e]
       /\ side[e] \in Builds \cup {Nothing}
  /\ \A f \in Files : file[f] \in Builds \cup {Nothing}

LEMMA BytesCorrect == Spec => []BytesOK
<1> USE DEF ValuesOK, BytesOK, Files, cache, workerVars, sideVars
<1>1. Init => BytesOK
  BY DEF Init
<1>2. ValuesOK /\ BytesOK /\ [Next]_vars => BytesOK'
  <2> SUFFICES ASSUME ValuesOK, BytesOK, [Next]_vars PROVE BytesOK'
    OBVIOUS
  <2>1. CASE UNCHANGED vars
    BY <2>1 DEF vars
  <2> SUFFICES ASSUME NEW e \in Editors, EditorStep(e) PROVE BytesOK'
    BY <2>1, EditorSteps
  <2>2. CASE StartForPort(e)
    BY <2>2, ValuesOK DEF StartForPort, Repath
  <2>3. CASE SpawnResolved(e)
    BY <2>3, ValuesOK DEF SpawnResolved, SpawnProcess
  <2>4. CASE DownloadUnlessResolved(e)
    BY <2>4, ValuesOK DEF DownloadUnlessResolved
  <2>5. CASE FinishPosted(e)
    BY <2>5, ValuesOK DEF FinishPosted, Finish, Repath
  <2>6. CASE SpawnAfterDownload(e)
    BY <2>6, ValuesOK DEF SpawnAfterDownload, SpawnProcess
  <2>7. CASE StopSidecar(e)
    BY <2>7, ValuesOK DEF StopSidecar
  <2>8. CASE BeginShutdown(e)
    BY <2>8, ValuesOK DEF BeginShutdown
  <2>9. CASE EndShutdown(e)
    BY <2>9, ValuesOK DEF EndShutdown
  <2>10. CASE OnHttpComplete(e)
    BY <2>10, ValuesOK DEF OnHttpComplete, Step, VerifyBridgeZip
  <2>11. CASE Publish(e)
    BY <2>11, ValuesOK DEF Publish, Step, MoveFile, EndOfWork
  <2>12. CASE MoveFails(e)
    BY <2>12, ValuesOK DEF MoveFails, Step
  <2>13. CASE LookAtTarget(e)
    BY <2>13, ValuesOK DEF LookAtTarget, Step, EndOfWork
  <2>14. CASE ListTarget(e)
    BY <2>14, ValuesOK DEF ListTarget, Step
  <2>15. CASE DeleteFile(e)
    BY <2>15, ValuesOK DEF DeleteFile
  <2>16. CASE DeleteDirectory(e)
    BY <2>16, ValuesOK DEF DeleteDirectory, Step, EndOfWork
  <2>17. CASE SidecarDies(e)
    BY <2>17, ValuesOK DEF SidecarDies
  <2>18. CASE Relaunch(e)
    BY <2>18, ValuesOK DEF Relaunch, SpawnProcess
  <2>19. CASE EditorCrashes(e)
    BY <2>19, ValuesOK DEF EditorCrashes, Reset
  <2>20. CASE EditorStarts(e)
    BY <2>20, ValuesOK DEF EditorStarts, Reset
  <2> QED
    BY <2>2, <2>3, <2>4, <2>5, <2>6, <2>7, <2>8, <2>9, <2>10, <2>11, <2>12, <2>13, <2>14,
       <2>15, <2>16, <2>17, <2>18, <2>19, <2>20 DEF EditorStep, GameThread, Worker
<1> QED
  BY <1>1, <1>2, ValuesCorrect, PTL DEF Spec

(* Bytes no plugin ships are neither in the cache nor run: BytesOK says    *)
(* what is there instead (VerifyBridgeZip).                                *)
THEOREM OnlyBuildsRun == Spec => []NothingUnverifiedRuns
<1>1. BytesOK => NothingUnverifiedRuns
  BY BuildsAssumption DEF BytesOK, NothingUnverifiedRuns, Files
<1> QED
  BY <1>1, BytesCorrect, PTL

(* A marker that sits beside a binary is that binary's: the directory      *)
(* appears whole, and deletions only take from it.                         *)
THEOREM MarkerIsTrue == Spec => []MarkerTellsTheTruth
<1> USE DEF ValuesOK, MarkerTellsTheTruth, Files, cache, workerVars, sideVars
<1>1. Init => MarkerTellsTheTruth
  BY DEF Init
<1>2. ValuesOK /\ MarkerTellsTheTruth /\ [Next]_vars => MarkerTellsTheTruth'
  <2> SUFFICES ASSUME ValuesOK, MarkerTellsTheTruth, [Next]_vars PROVE MarkerTellsTheTruth'
    OBVIOUS
  <2>1. CASE UNCHANGED vars
    BY <2>1 DEF vars
  <2> SUFFICES ASSUME NEW e \in Editors, EditorStep(e) PROVE MarkerTellsTheTruth'
    BY <2>1, EditorSteps
  <2>2. CASE StartForPort(e)
    BY <2>2 DEF StartForPort, Repath
  <2>3. CASE SpawnResolved(e)
    BY <2>3 DEF SpawnResolved, SpawnProcess
  <2>4. CASE DownloadUnlessResolved(e)
    BY <2>4 DEF DownloadUnlessResolved
  <2>5. CASE FinishPosted(e)
    BY <2>5 DEF FinishPosted, Finish, Repath
  <2>6. CASE SpawnAfterDownload(e)
    BY <2>6 DEF SpawnAfterDownload, SpawnProcess
  <2>7. CASE StopSidecar(e)
    BY <2>7 DEF StopSidecar
  <2>8. CASE BeginShutdown(e)
    BY <2>8 DEF BeginShutdown
  <2>9. CASE EndShutdown(e)
    BY <2>9 DEF EndShutdown
  <2>10. CASE OnHttpComplete(e)
    BY <2>10 DEF OnHttpComplete, Step, VerifyBridgeZip
  <2>11. CASE Publish(e)
    BY <2>11 DEF Publish, Step, MoveFile, EndOfWork
  <2>12. CASE MoveFails(e)
    BY <2>12 DEF MoveFails, Step
  <2>13. CASE LookAtTarget(e)
    BY <2>13 DEF LookAtTarget, Step, EndOfWork
  <2>14. CASE ListTarget(e)
    BY <2>14 DEF ListTarget, Step
  <2>15. CASE DeleteFile(e)
    BY <2>15 DEF DeleteFile
  <2>16. CASE DeleteDirectory(e)
    BY <2>16 DEF DeleteDirectory, Step, EndOfWork
  <2>17. CASE SidecarDies(e)
    BY <2>17 DEF SidecarDies
  <2>18. CASE Relaunch(e)
    BY <2>18 DEF Relaunch, SpawnProcess
  <2>19. CASE EditorCrashes(e)
    BY <2>19 DEF EditorCrashes, Reset
  <2>20. CASE EditorStarts(e)
    BY <2>20 DEF EditorStarts, Reset
  <2> QED
    BY <2>2, <2>3, <2>4, <2>5, <2>6, <2>7, <2>8, <2>9, <2>10, <2>11, <2>12, <2>13, <2>14,
       <2>15, <2>16, <2>17, <2>18, <2>19, <2>20 DEF EditorStep, GameThread, Worker
<1> QED
  BY <1>1, <1>2, ValuesCorrect, PTL DEF Spec

(* A worker on its way to a deletion has looked: the directory is not      *)
(* complete for its build, unless another has moved one in since.          *)
HasLooked ==
  \A e \in Editors :
    worker[e] \in {"list", "delete"} /\ ~overtaken[e] => ~IsComplete(ships[e])

LEMMA HasLookedCorrect == Spec => []HasLooked
<1> USE DEF ValuesOK, FlagsOK, HasLooked, IsComplete, Files, cache, workerVars, sideVars
<1>1. Init => HasLooked
  BY DEF Init
<1>2. ValuesOK /\ FlagsOK /\ HasLooked /\ [Next]_vars => HasLooked'
  <2> SUFFICES ASSUME ValuesOK, FlagsOK, HasLooked, [Next]_vars PROVE HasLooked'
    OBVIOUS
  <2>1. CASE UNCHANGED vars
    BY <2>1 DEF vars
  <2> SUFFICES ASSUME NEW e \in Editors, EditorStep(e) PROVE HasLooked'
    BY <2>1, EditorSteps
  <2>2. CASE StartForPort(e)
    BY <2>2, BuildsAssumption DEF StartForPort, Repath
  <2>3. CASE SpawnResolved(e)
    BY <2>3, BuildsAssumption DEF SpawnResolved, SpawnProcess
  <2>4. CASE DownloadUnlessResolved(e)
    BY <2>4, BuildsAssumption DEF DownloadUnlessResolved
  <2>5. CASE FinishPosted(e)
    BY <2>5, BuildsAssumption DEF FinishPosted, Finish, Repath
  <2>6. CASE SpawnAfterDownload(e)
    BY <2>6, BuildsAssumption DEF SpawnAfterDownload, SpawnProcess
  <2>7. CASE StopSidecar(e)
    BY <2>7, BuildsAssumption DEF StopSidecar
  <2>8. CASE BeginShutdown(e)
    BY <2>8, BuildsAssumption DEF BeginShutdown
  <2>9. CASE EndShutdown(e)
    BY <2>9, BuildsAssumption DEF EndShutdown
  <2>10. CASE OnHttpComplete(e)
    BY <2>10, BuildsAssumption DEF OnHttpComplete, Step, VerifyBridgeZip
  <2>11. CASE Publish(e)
    BY <2>11, BuildsAssumption DEF Publish, Step, MoveFile, EndOfWork
  <2>12. CASE MoveFails(e)
    BY <2>12, BuildsAssumption DEF MoveFails, Step
  <2>13. CASE LookAtTarget(e)
    BY <2>13, BuildsAssumption DEF LookAtTarget, Step, EndOfWork
  <2>14. CASE ListTarget(e)
    BY <2>14, BuildsAssumption DEF ListTarget, Step
  <2>15. CASE DeleteFile(e)
    BY <2>15, BuildsAssumption DEF DeleteFile
  <2>16. CASE DeleteDirectory(e)
    BY <2>16, BuildsAssumption DEF DeleteDirectory, Step, EndOfWork
  <2>17. CASE SidecarDies(e)
    BY <2>17, BuildsAssumption DEF SidecarDies
  <2>18. CASE Relaunch(e)
    BY <2>18, BuildsAssumption DEF Relaunch, SpawnProcess
  <2>19. CASE EditorCrashes(e)
    BY <2>19, BuildsAssumption DEF EditorCrashes, Reset
  <2>20. CASE EditorStarts(e)
    BY <2>20, BuildsAssumption DEF EditorStarts, Reset
  <2> QED
    BY <2>2, <2>3, <2>4, <2>5, <2>6, <2>7, <2>8, <2>9, <2>10, <2>11, <2>12, <2>13, <2>14,
       <2>15, <2>16, <2>17, <2>18, <2>19, <2>20 DEF EditorStep, GameThread, Worker
<1> QED
  BY <1>1, <1>2, ValuesCorrect, FlagsCorrect, PTL DEF Spec

(* So what a worker deletes from is complete only when it was overtaken    *)
(* (ExtractBridgeZip's look at the target, before the deletion).           *)
THEOREM CompleteIsKept == Spec => OnlyOvertakenDelete
<1>1. HasLooked /\ [Next]_vars =>
        [\A e \in Editors :
           worker[e] = "delete" /\ IsComplete(ships[e]) /\ ~overtaken[e] /\ left'[e] # left[e]
             => file' = file]_vars
  BY DEF HasLooked
<1> QED
  BY <1>1, HasLookedCorrect, PTL DEF Spec, OnlyOvertakenDelete

(* Once Shutdown has begun, only its own steps, an end of the process and  *)
(* a new editor are left to the game thread (Cancel before the join).      *)
THEOREM ShutDownIsFinal == Spec => ShutDownStaysDown
<1>1. ValuesOK /\ [Next]_vars => [\A e \in Editors : StaysDown(e)]_vars
  <2> SUFFICES ASSUME ValuesOK, [Next]_vars PROVE [\A d \in Editors : StaysDown(d)]_vars
    OBVIOUS
  <2> USE DEF ValuesOK, StaysDown, cache, workerVars, sideVars
  <2>1. CASE UNCHANGED vars
    BY <2>1 DEF vars
  <2> SUFFICES ASSUME NEW e \in Editors, EditorStep(e) PROVE [\A d \in Editors : StaysDown(d)]_vars
    BY <2>1, EditorSteps
  <2>2. CASE StartForPort(e)
    BY <2>2 DEF StartForPort, Repath
  <2>3. CASE SpawnResolved(e)
    BY <2>3 DEF SpawnResolved, SpawnProcess
  <2>4. CASE DownloadUnlessResolved(e)
    BY <2>4 DEF DownloadUnlessResolved
  <2>5. CASE FinishPosted(e)
    BY <2>5 DEF FinishPosted, Finish, Repath
  <2>6. CASE SpawnAfterDownload(e)
    BY <2>6 DEF SpawnAfterDownload, SpawnProcess
  <2>7. CASE StopSidecar(e)
    BY <2>7 DEF StopSidecar
  <2>8. CASE BeginShutdown(e)
    BY <2>8 DEF BeginShutdown
  <2>9. CASE EndShutdown(e)
    BY <2>9 DEF EndShutdown
  <2>10. CASE OnHttpComplete(e)
    BY <2>10 DEF OnHttpComplete, Step, VerifyBridgeZip
  <2>11. CASE Publish(e)
    BY <2>11 DEF Publish, Step, MoveFile, EndOfWork
  <2>12. CASE MoveFails(e)
    BY <2>12 DEF MoveFails, Step
  <2>13. CASE LookAtTarget(e)
    BY <2>13 DEF LookAtTarget, Step, EndOfWork
  <2>14. CASE ListTarget(e)
    BY <2>14 DEF ListTarget, Step
  <2>15. CASE DeleteFile(e)
    BY <2>15 DEF DeleteFile
  <2>16. CASE DeleteDirectory(e)
    BY <2>16 DEF DeleteDirectory, Step, EndOfWork
  <2>17. CASE SidecarDies(e)
    BY <2>17 DEF SidecarDies
  <2>18. CASE Relaunch(e)
    BY <2>18 DEF Relaunch, SpawnProcess
  <2>19. CASE EditorCrashes(e)
    BY <2>19 DEF EditorCrashes, Reset
  <2>20. CASE EditorStarts(e)
    BY <2>20 DEF EditorStarts, Reset
  <2> QED
    BY <2>2, <2>3, <2>4, <2>5, <2>6, <2>7, <2>8, <2>9, <2>10, <2>11, <2>12, <2>13, <2>14,
       <2>15, <2>16, <2>17, <2>18, <2>19, <2>20 DEF EditorStep, GameThread, Worker
<1> QED
  BY <1>1, ValuesCorrect, PTL DEF Spec, ShutDownStaysDown

(* BridgeDownload implements BridgeCache.  The steps that touch the cache  *)
(* are few: a publication, and the deletion of one file.                   *)
LEMMA CacheUntouched ==
  ASSUME UNCHANGED <<ships, file>>, UNCHANGED side
  PROVE  UNCHANGED Cache!cacheVars
BY DEF Cache!cacheVars

LEMMA CacheInitially == Init => Cache!Init
BY BuildsAssumption DEF Init, Cache!Init, Files

LEMMA SidecarStarts ==
  ASSUME NEW e \in Editors, SpawnProcess(e), UNCHANGED <<ships, file>>
  PROVE  Cache!Next
<1>1. Cache!Run(e)
  BY DEF SpawnProcess, Cache!Run
<1> QED
  BY <1>1 DEF Cache!Next

LEMMA SidecarEnds ==
  ASSUME NEW e \in Editors, side' = [side EXCEPT ![e] = Nothing], UNCHANGED <<ships, file>>
  PROVE  Cache!Next
<1>1. Cache!End(e)
  BY DEF Cache!End
<1> QED
  BY <1>1 DEF Cache!Next

(* A directory is moved in over no files, with the build it was staged of. *)
LEMMA PublishPlaces ==
  ASSUME ValuesOK, BytesOK, NEW e \in Editors, Publish(e)
  PROVE  Cache!Next
<1>1. file["bin"] = Nothing /\ file'["bin"] = ships[e] /\ file'["marker"] = ships[e]
  BY DEF Publish, MoveFile, Step, NoFiles, Files, BytesOK
<1>2. ships[e] # Nothing /\ UNCHANGED <<ships, side>>
  BY BuildsAssumption DEF Publish, sideVars, ValuesOK
<1>3. Cache!Place(e)
  BY <1>1, <1>2 DEF Cache!Place
<1> QED
  BY <1>3 DEF Cache!Next

(* One file less: the mark, the binary, or nothing when it is in use.      *)
LEMMA DeletionTakes ==
  ASSUME ValuesOK, NEW e \in Editors, DeleteFile(e)
  PROVE  [Cache!Next]_(Cache!cacheVars)
<1>1. UNCHANGED <<ships, side>>
  BY DEF DeleteFile, sideVars
<1>2. CASE UNCHANGED file
  BY <1>1, <1>2, CacheUntouched
<1>3. ASSUME NEW f \in Files, file' = [file EXCEPT ![f] = Nothing], file["bin"] # Nothing
      PROVE  Cache!Next
  <2>1. file'["bin"] \in {file["bin"], Nothing}
    BY <1>3 DEF ValuesOK, Files
  <2>2. ~(file'["bin"] # Nothing /\ file'["marker"] = file'["bin"])
    BY <1>3 DEF ValuesOK, Files
  <2>3. Cache!TakeAway
    BY <1>1, <1>3, <2>1, <2>2 DEF Cache!TakeAway
  <2> QED
    BY <2>3 DEF Cache!Next
<1>4. ASSUME NEW f \in Files, file' = [file EXCEPT ![f] = Nothing], file["bin"] = Nothing
      PROVE  UNCHANGED Cache!cacheVars
  <2>1. file'["bin"] = Nothing
    BY <1>4 DEF ValuesOK, Files
  <2> QED
    BY <1>1, <1>4, <2>1 DEF Cache!cacheVars
<1> QED
  BY <1>2, <1>3, <1>4 DEF DeleteFile, ValuesOK

LEMMA StepsKeepCache ==
  ASSUME ValuesOK, BytesOK, [Next]_vars
  PROVE  [Cache!Next]_(Cache!cacheVars)
<1> USE DEF cache, workerVars, sideVars
<1>1. CASE UNCHANGED vars
  BY <1>1, CacheUntouched DEF vars
<1> SUFFICES ASSUME NEW e \in Editors, EditorStep(e) PROVE [Cache!Next]_(Cache!cacheVars)
  BY <1>1, EditorSteps
<1>2. CASE StartForPort(e)
  BY <1>2, CacheUntouched DEF StartForPort
<1>3. CASE SpawnResolved(e)
  BY <1>3, SidecarStarts, CacheUntouched DEF SpawnResolved
<1>4. CASE DownloadUnlessResolved(e)
  BY <1>4, CacheUntouched DEF DownloadUnlessResolved
<1>5. CASE FinishPosted(e)
  BY <1>5, CacheUntouched DEF FinishPosted, Finish
<1>6. CASE SpawnAfterDownload(e)
  BY <1>6, SidecarStarts, CacheUntouched DEF SpawnAfterDownload
<1>7. CASE StopSidecar(e)
  BY <1>7, SidecarEnds DEF StopSidecar
<1>8. CASE BeginShutdown(e)
  BY <1>8, CacheUntouched DEF BeginShutdown
<1>9. CASE EndShutdown(e)
  BY <1>9, SidecarEnds DEF EndShutdown
<1>10. CASE OnHttpComplete(e) \/ MoveFails(e) \/ LookAtTarget(e) \/ ListTarget(e)
  BY <1>10, CacheUntouched DEF OnHttpComplete, MoveFails, LookAtTarget, ListTarget
<1>11. CASE Publish(e)
  BY <1>11, PublishPlaces
<1>12. CASE DeleteFile(e)
  BY <1>12, DeletionTakes
<1>13. CASE DeleteDirectory(e)
  BY <1>13, CacheUntouched DEF DeleteDirectory
<1>14. CASE SidecarDies(e)
  BY <1>14, SidecarEnds DEF SidecarDies
<1>15. CASE Relaunch(e)
  BY <1>15, SidecarStarts DEF Relaunch
<1>16. CASE EditorCrashes(e) \/ EditorStarts(e)
  BY <1>16, SidecarEnds DEF EditorCrashes, EditorStarts, Reset
<1> QED
  BY <1>2, <1>3, <1>4, <1>5, <1>6, <1>7, <1>8, <1>9, <1>10, <1>11, <1>12, <1>13, <1>14,
     <1>15, <1>16 DEF EditorStep, GameThread, Worker

(* The downloader, the resolver and the coordinator keep what the cache    *)
(* promises.                                                               *)
THEOREM CacheIsKept == Spec => KeepsCache
<1>1. ValuesOK /\ BytesOK /\ [Next]_vars => [Cache!Next]_(Cache!cacheVars)
  BY StepsKeepCache
<1> QED
  BY <1>1, CacheInitially, ValuesCorrect, BytesCorrect, PTL DEF Spec, KeepsCache, Cache!Spec

(***************************************************************************)
(* ExtensionInstall.                                                       *)
(***************************************************************************)

LEMMA EmptyIsTree == Empty \in Trees
BY DEF Empty, Trees

LEMMA TreeIsTree == ASSUME NEW v \in Versions \cup {0} PROVE Tree(v) \in Trees
BY DEF Tree, Trees

(* A step that sets one file of one directory keeps the directories'       *)
(* types, and touches nothing else on the disk.                            *)
LEMMA OneFileTypes ==
  ASSUME disk \in [Places -> Trees], NEW place \in Places, NEW f \in PluginFiles,
         NEW c \in Versions \cup {0}, disk' = [disk EXCEPT ![place][f] = c]
  PROVE  /\ disk' \in [Places -> Trees]
         /\ \A p \in Places \ {place} : disk'[p] = disk[p]
         /\ \A g \in PluginFiles : disk'[place][g] = IF g = f THEN c ELSE disk[place][g]
BY DEF Trees

LEMMA FoundVersions ==
  ASSUME NEW t \in Trees, NEW from \in FromVersions(t), FilesAssumption
  PROVE  from \in Versions \cup {0}
BY DEF FromVersions, Found, Trees, FilesAssumption

(* How the two programs begin, whatever they find: a run without a body    *)
(* places nothing, and one that places has a version to place.             *)
Began(by) ==
  /\ pc = "idle" /\ outcome' = "none" /\ leftover' = {} /\ prior' = disk["plugin"]
  /\ UNCHANGED <<disk, enabled>>
  /\ run' \in [by : {by}, from : Versions \cup {0}, body : Versions \cup {0},
               needed : BOOLEAN, had : BOOLEAN]
  /\ \/ run'.needed /\ run'.body # 0 /\ pc' = "stage"
     \/ ~run'.needed /\ pc' = "enable"
  /\ by = "editor" /\ ~run'.had => disk["plugin"] = Empty

LEMMA BeginBegan ==
  ASSUME NEW by, NEW from \in Versions \cup {0}, NEW body \in Versions \cup {0}, NEW needed,
         needed \in BOOLEAN, NEW had \in BOOLEAN, Begin(by, from, body, needed, had),
         needed => body # 0,
         by = "editor" /\ ~had => disk["plugin"] = Empty
  PROVE  Began(by)
<1>1. CASE needed = TRUE
  BY <1>1 DEF Begin, Began
<1>2. CASE needed = FALSE
  BY <1>2 DEF Begin, Began
<1> QED
  BY <1>1, <1>2

(* What a click begins, and what the cli does, or else it is refused.      *)
LEMMA ClickBegins ==
  ASSUME InstallTypeOK, InstallClicked PROVE Began("editor") \/ Refuse("editor")
<1> SUFFICES ASSUME ~Refuse("editor") PROVE Began("editor")
  OBVIOUS
<1>1. PICK force \in BOOLEAN, to \in Versions \cup {0}, from \in FromVersions(disk["plugin"]) :
        \E body \in IF IsMaterializeNeeded(force, from, to) THEN Versions ELSE {0},
           had \in IF disk["plugin"] = Empty THEN BOOLEAN ELSE {TRUE} :
          Begin("editor", from, body, IsMaterializeNeeded(force, from, to), had)
  BY DEF InstallClicked
<1>2. from \in Versions \cup {0}
  BY FoundVersions, FilesAssumption DEF InstallTypeOK, Places
<1>3. IsMaterializeNeeded(force, from, to) \in BOOLEAN
  BY DEF IsMaterializeNeeded
<1>4. PICK body \in IF IsMaterializeNeeded(force, from, to) THEN Versions ELSE {0},
           had \in IF disk["plugin"] = Empty THEN BOOLEAN ELSE {TRUE} :
          Begin("editor", from, body, IsMaterializeNeeded(force, from, to), had)
  BY <1>1
<1>5. /\ had \in BOOLEAN /\ body \in Versions \cup {0}
      /\ IsMaterializeNeeded(force, from, to) => body # 0
      /\ ~had => disk["plugin"] = Empty
  BY <1>4, VersionsAssumption
<1> QED
  BY <1>2, <1>3, <1>4, <1>5, BeginBegan

LEMMA CliBegins ==
  ASSUME InstallTypeOK, InstallExtension PROVE Began("cli") \/ Refuse("cli")
<1> SUFFICES ASSUME ~Refuse("cli") PROVE Began("cli")
  OBVIOUS
<1> DEFINE needed(channel, force, from, to) ==
             ~KeepsInstalled(channel, from, to) /\ IsMaterializeNeeded(force, from, to)
           bodies(channel, to, n) == IF ~n THEN {0}
                                     ELSE IF channel = "local" THEN Versions ELSE {to}
<1>1. PICK channel \in {"latest", "explicit", "local"}, force \in BOOLEAN,
           to \in Versions \cup {0}, from \in FromVersions(disk["plugin"]) :
        /\ channel # "local" => to # 0
        /\ \E body \in bodies(channel, to, needed(channel, force, from, to)) :
             /\ needed(channel, force, from, to) /\ channel # "local" => VerifiedArchive(to)
             /\ Begin("cli", from, body, needed(channel, force, from, to), FALSE)
  BY Zenon DEF InstallExtension
<1>2. from \in Versions \cup {0}
  BY FoundVersions, FilesAssumption DEF InstallTypeOK, Places
<1>3. needed(channel, force, from, to) \in BOOLEAN
  BY DEF IsMaterializeNeeded
<1>4. PICK body \in bodies(channel, to, needed(channel, force, from, to)) :
        Begin("cli", from, body, needed(channel, force, from, to), FALSE)
  BY <1>1
<1>5. body \in Versions \cup {0} /\ (needed(channel, force, from, to) => body # 0)
  <2> DEFINE n == needed(channel, force, from, to)
  <2>1. body \in bodies(channel, to, n)
    OBVIOUS
  <2> HIDE DEF n
  <2> QED
    BY <1>1, <2>1, VersionsAssumption
<1> QED
  BY <1>2, <1>3, <1>4, <1>5, BeginBegan

LEMMA BeganTypes ==
  ASSUME InstallTypeOK, NEW by \in {"editor", "cli"}, Began(by) \/ Refuse(by)
  PROVE  InstallTypeOK'
<1>1. CASE Refuse(by)
  BY <1>1 DEF InstallTypeOK, Refuse, Placing, Places
<1>2. CASE Began(by)
  <2>1. run' \in [by : {"editor", "cli"}, from : Versions \cup {0}, body : Versions \cup {0},
                  needed : BOOLEAN, had : BOOLEAN]
    BY <1>2 DEF Began
  <2> QED
    BY <1>2, <2>1 DEF InstallTypeOK, Began, Placing, Places
<1> QED
  BY <1>1, <1>2

(* Clean, and a crash, empty the two working directories.                  *)
LEMMA AbandonTypes ==
  ASSUME InstallTypeOK, disk' = [disk EXCEPT !["staging"] = Empty, !["backup"] = Empty],
         leftover' = leftover \cup Abandoned
  PROVE  /\ disk' \in [Places -> Trees] /\ leftover' \in SUBSET Trees
         /\ disk'["plugin"] = disk["plugin"]
         /\ disk'["staging"] = Empty /\ disk'["backup"] = Empty
BY EmptyIsTree DEF InstallTypeOK, Abandoned, Places

(* Every variable keeps its type, and no run ends without giving up its    *)
(* working directories.                                                    *)
THEOREM InstallTypeCorrect == InstallSpec => []InstallTypeOK
<1>1. InstallInit => InstallTypeOK
  <2> SUFFICES ASSUME InstallInit PROVE InstallTypeOK
    OBVIOUS
  <2>1. PICK t \in {Empty} \cup {Tree(v) : v \in Versions} :
          disk = [p \in Places |-> IF p = "plugin" THEN t ELSE Empty]
    BY DEF InstallInit
  <2>2. t \in Trees
    BY EmptyIsTree, TreeIsTree
  <2> QED
    BY <2>1, <2>2, EmptyIsTree DEF InstallInit, InstallTypeOK, Places, Placing
<1>2. InstallTypeOK /\ [InstallNext]_installVars => InstallTypeOK'
  <2> SUFFICES ASSUME InstallTypeOK, [InstallNext]_installVars PROVE InstallTypeOK'
    OBVIOUS
  <2> USE DEF Goto, Fail
  <2>0. \A from \in FromVersions(disk["plugin"]) : from \in Versions \cup {0}
    BY FoundVersions, FilesAssumption DEF InstallTypeOK, Places
  <2>1. CASE InstallClicked
    BY <2>1, ClickBegins, BeganTypes
  <2>2. CASE InstallExtension
    BY <2>2, CliBegins, BeganTypes
  <2>3. CASE Stage
    <3>1. Tree(run.body) \in Trees
      BY TreeIsTree DEF InstallTypeOK
    <3> QED
      BY <2>3, <3>1, OneFileTypes DEF Stage, Copying, Missing, InstallTypeOK, Placing, Places, Trees
  <2>4. CASE Backup
    BY <2>4, OneFileTypes DEF Backup, Copying, Missing, InstallTypeOK, Placing, Places, Trees
  <2>5. CASE Delete
    BY <2>5, OneFileTypes DEF Delete, Deleting, DeleteOneFile, InstallTypeOK, Placing, Places
  <2>6. CASE Copy
    BY <2>6, OneFileTypes DEF Copy, Copying, Missing, InstallTypeOK, Placing, Places, Trees
  <2>7. CASE RollDelete
    BY <2>7, OneFileTypes DEF RollDelete, Deleting, DeleteOneFile, InstallTypeOK, Placing, Places
  <2>8. CASE RollCopy
    BY <2>8, OneFileTypes DEF RollCopy, Copying, Missing, InstallTypeOK, Placing, Places, Trees
  <2>9. CASE Remove
    BY <2>9, OneFileTypes DEF Remove, Deleting, DeleteOneFile, InstallTypeOK, Placing, Places
  <2>10. CASE Rename
    BY <2>10, EmptyIsTree DEF Rename, InstallTypeOK, Placing, Places
  <2>11. CASE Clean
    <3>1. ASSUME NEW p \in {"staging", "backup"}, DeleteOneFile(p), pc = "clean"
          PROVE  InstallTypeOK'
      <4>1. PICK f \in PluginFiles : disk' = [disk EXCEPT ![p][f] = 0]
        BY <3>1 DEF DeleteOneFile
      <4>2. disk' \in [Places -> Trees]
        BY <4>1, OneFileTypes DEF InstallTypeOK, Places
      <4> QED
        BY <3>1, <4>2 DEF DeleteOneFile, InstallTypeOK, Placing
    <3> QED
      BY <2>11, <3>1, AbandonTypes DEF Clean, InstallTypeOK, Placing, Places
  <2>12. CASE CheckName
    BY <2>12 DEF CheckName, InstallTypeOK, Placing
  <2>13. CASE EnablePlugin
    BY <2>13 DEF EnablePlugin, ComputeOutcome, InstallTypeOK, Placing
  <2>14. CASE Crash
    BY <2>14, AbandonTypes DEF Crash, InstallTypeOK, Placing
  <2>15. CASE UNCHANGED installVars
    BY <2>15 DEF installVars, InstallTypeOK
  <2> QED
    BY <2>1, <2>2, <2>3, <2>4, <2>5, <2>6, <2>7, <2>8, <2>9, <2>10, <2>11, <2>12, <2>13, <2>14,
       <2>15 DEF InstallNext, PlacePluginDir, PlacePlugin
<1> QED
  BY <1>1, <1>2, PTL DEF InstallSpec

(* Which program is at which step, and with what: a placement has a body,  *)
(* and an outcome is not written before it ends.                           *)
ProgramInv ==
  /\ run.by = "editor" => pc \notin {"remove", "rename"}
  /\ run.by = "cli" => pc \notin {"backup", "delete", "copy", "rollDelete", "rollCopy"}
  /\ pc \in Placing \cup {"check"} => run.needed /\ run.body # 0
  /\ pc \in (Placing \ {"clean"}) \cup {"check", "enable"} => outcome = "none"
  /\ pc = "clean" => outcome \in {"none", "notPlaced", "repair"}
  /\ outcome = "repair" => run.by = "editor"

LEMMA ProgramCorrect == InstallSpec => []ProgramInv
<1>1. InstallInit => ProgramInv
  BY DEF InstallInit, ProgramInv, Placing
<1>2. ProgramInv /\ InstallTypeOK /\ [InstallNext]_installVars => ProgramInv'
  <2> SUFFICES ASSUME ProgramInv, InstallTypeOK, [InstallNext]_installVars PROVE ProgramInv'
    OBVIOUS
  <2> USE DEF Goto, Fail, ProgramInv, Placing
  <2>1. CASE InstallClicked
    BY <2>1, ClickBegins DEF Began, Refuse
  <2>2. CASE InstallExtension
    BY <2>2, CliBegins DEF Began, Refuse
  <2>3. CASE Stage
    BY <2>3 DEF Stage, Copying, InstallTypeOK
  <2>4. CASE Backup
    BY <2>4 DEF Backup, Copying, InstallTypeOK
  <2>5. CASE Delete
    BY <2>5 DEF Delete, Deleting, DeleteOneFile, InstallTypeOK
  <2>6. CASE Copy
    BY <2>6 DEF Copy, Copying, InstallTypeOK
  <2>7. CASE RollDelete
    BY <2>7 DEF RollDelete, Deleting, DeleteOneFile, InstallTypeOK
  <2>8. CASE RollCopy
    BY <2>8 DEF RollCopy, Copying, InstallTypeOK
  <2>9. CASE Remove
    BY <2>9 DEF Remove, Deleting, DeleteOneFile, InstallTypeOK
  <2>10. CASE Rename
    BY <2>10 DEF Rename, InstallTypeOK
  <2>11. CASE Clean
    BY <2>11 DEF Clean, DeleteOneFile, InstallTypeOK
  <2>12. CASE CheckName
    BY <2>12 DEF CheckName, InstallTypeOK
  <2>13. CASE EnablePlugin
    BY <2>13 DEF EnablePlugin, ComputeOutcome, InstallTypeOK
  <2>14. CASE Crash
    BY <2>14 DEF Crash, InstallTypeOK
  <2>15. CASE UNCHANGED installVars
    BY <2>15 DEF installVars
  <2> QED
    BY <2>1, <2>2, <2>3, <2>4, <2>5, <2>6, <2>7, <2>8, <2>9, <2>10, <2>11, <2>12, <2>13, <2>14,
       <2>15 DEF InstallNext, PlacePluginDir, PlacePlugin
<1> QED
  BY <1>1, <1>2, InstallTypeCorrect, PTL DEF InstallSpec

(* Only files of s are in t.                                               *)
PartOf(t, s) == \A f \in PluginFiles : t[f] \in {0, s[f]}

LEMMA WholePart ==
  ASSUME NEW t \in Trees, NEW s \in Trees, PartOf(t, s), Holds(t, s)
  PROVE  t = s
<1>1. \A f \in PluginFiles : t[f] = s[f]
  BY DEF PartOf, Holds
<1> QED
  BY <1>1 DEF Trees

LEMMA HoldsTransitive ==
  ASSUME NEW t \in Trees, NEW s \in Trees, NEW r \in Trees, Holds(t, s), Holds(s, r)
  PROVE  Holds(t, r)
BY DEF Holds

LEMMA NothingMissing ==
  ASSUME NEW src, NEW place, Missing(src, place) = {} PROVE Holds(disk[place], src)
BY DEF Missing, Holds

(* A copy, and a deletion, leaves a part of what it copies, or deletes.    *)
LEMMA OneFileParts ==
  ASSUME disk \in [Places -> Trees], NEW place \in Places, NEW s \in Trees,
         NEW f \in PluginFiles, NEW c \in {0, s[f]},
         disk' = [disk EXCEPT ![place][f] = c], PartOf(disk[place], s)
  PROVE  PartOf(disk'[place], s)
<1>1. c \in Versions \cup {0}
  BY DEF Trees
<1> QED
  BY <1>1, OneFileTypes DEF PartOf

(* What a step of a recursive copy does to the disk.                       *)
CopyStep(src, place) ==
  \E f \in Missing(src, place) : disk' = [disk EXCEPT ![place][f] = src[f]]

LEMMA CopyEffect ==
  ASSUME disk \in [Places -> Trees], NEW place \in Places, NEW src \in Trees,
         CopyStep(src, place)
  PROVE  /\ \A p \in Places \ {place} : disk'[p] = disk[p]
         /\ PartOf(disk[place], src) => PartOf(disk'[place], src)
<1>1. PICK f \in Missing(src, place) : disk' = [disk EXCEPT ![place][f] = src[f]]
  BY DEF CopyStep
<1>2. f \in PluginFiles /\ src[f] \in Versions \cup {0}
  BY DEF Missing, Trees
<1> QED
  BY <1>1, <1>2, OneFileTypes, OneFileParts

LEMMA DeleteEffect ==
  ASSUME disk \in [Places -> Trees], NEW place \in Places, DeleteOneFile(place)
  PROVE  /\ \A p \in Places \ {place} : disk'[p] = disk[p]
         /\ \A s \in Trees : PartOf(disk[place], s) => PartOf(disk'[place], s)
         /\ UNCHANGED <<leftover, enabled, pc, run, outcome, prior>>
<1>1. PICK f \in PluginFiles : disk' = [disk EXCEPT ![place][f] = 0]
  BY DEF DeleteOneFile
<1> QED
  BY <1>1, OneFileTypes, OneFileParts DEF DeleteOneFile

LEMMA TreesOnDisk ==
  ASSUME InstallTypeOK
  PROVE  /\ disk \in [Places -> Trees] /\ prior \in Trees /\ Tree(run.body) \in Trees
         /\ "plugin" \in Places /\ "staging" \in Places /\ "backup" \in Places
         /\ disk["plugin"] \in Trees /\ disk["staging"] \in Trees /\ disk["backup"] \in Trees
         /\ "plugin" # "staging" /\ "plugin" # "backup" /\ "staging" # "backup"
BY TreeIsTree DEF InstallTypeOK, Places

(* The staged copy only grows up to the new version and then stays.        *)
StagingInv ==
  /\ pc = "stage" => PartOf(disk["staging"], Tree(run.body))
  /\ pc \in {"backup", "delete", "copy", "remove", "rename"} =>
       disk["staging"] = Tree(run.body)

LEMMA StagingCorrect == InstallSpec => []StagingInv
<1>1. InstallInit => StagingInv
  BY DEF InstallInit, StagingInv
<1>2. StagingInv /\ ProgramInv /\ InstallTypeOK /\ [InstallNext]_installVars => StagingInv'
  <2> SUFFICES ASSUME StagingInv, ProgramInv, InstallTypeOK, [InstallNext]_installVars
               PROVE  StagingInv'
    OBVIOUS
  <2> USE DEF Goto, Fail, StagingInv
  <2>1. ASSUME NEW by, Began(by) PROVE StagingInv'
    <3>1. disk'["staging"] = Empty /\ pc' \in {"stage", "enable"}
      BY <2>1 DEF Began, InstallTypeOK, Placing
    <3> QED
      BY <3>1 DEF Empty, PartOf
  <2>2. ASSUME NEW by, Refuse(by) PROVE StagingInv'
    BY <2>2 DEF Refuse
  <2>3. CASE Stage
    <3>1. CASE CopyStep(Tree(run.body), "staging") /\ UNCHANGED <<pc, run>>
      BY TreesOnDisk, <2>3, <3>1, CopyEffect DEF Stage
    <3>2. CASE Missing(Tree(run.body), "staging") = {} /\ UNCHANGED <<disk, run>>
      <4>1. disk["staging"] = Tree(run.body)
        BY TreesOnDisk, <2>3, <3>2, NothingMissing, WholePart DEF Stage
      <4> QED
        BY <2>3, <3>2, <4>1 DEF Stage
    <3>3. CASE pc' = "clean"
      BY <3>3
    <3> QED
      BY <2>3, <3>1, <3>2, <3>3 DEF Stage, Copying, CopyStep
  <2>4. CASE Backup
    BY TreesOnDisk, <2>4, CopyEffect DEF Backup, Copying, CopyStep
  <2>5. CASE Delete
    BY TreesOnDisk, <2>5, DeleteEffect DEF Delete, Deleting
  <2>6. CASE Copy
    BY TreesOnDisk, <2>6, CopyEffect DEF Copy, Copying, CopyStep
  <2>7. CASE RollDelete
    BY <2>7 DEF RollDelete, Deleting, DeleteOneFile
  <2>8. CASE RollCopy
    BY <2>8 DEF RollCopy, Copying
  <2>9. CASE Remove
    BY TreesOnDisk, <2>9, DeleteEffect DEF Remove, Deleting
  <2>10. CASE Rename
    BY <2>10 DEF Rename
  <2>11. CASE Clean
    BY <2>11 DEF Clean, DeleteOneFile
  <2>12. CASE CheckName
    BY <2>12 DEF CheckName
  <2>13. CASE EnablePlugin
    BY <2>13 DEF EnablePlugin
  <2>14. CASE Crash
    BY <2>14 DEF Crash
  <2>15. CASE UNCHANGED installVars
    BY <2>15 DEF installVars, PartOf
  <2> QED
    BY <2>1, <2>2, <2>3, <2>4, <2>5, <2>6, <2>7, <2>8, <2>9, <2>10, <2>11, <2>12, <2>13, <2>14,
       <2>15, ClickBegins, CliBegins DEF InstallNext, PlacePluginDir, PlacePlugin
<1> QED
  BY <1>1, <1>2, InstallTypeCorrect, ProgramCorrect, PTL DEF InstallSpec

LEMMA HoldsItself == \A t : Holds(t, t)
BY DEF Holds

LEMMA HoldsEmpty == \A t : Holds(t, Empty)
BY DEF Holds, Empty

(* The backup is whole before the editor touches the plugin's directory,   *)
(* and until it is done with it.                                           *)
BackupInv ==
  /\ run.by = "editor" /\ pc \in {"stage", "backup"} => disk["plugin"] = prior
  /\ pc \in {"delete", "copy", "rollDelete", "rollCopy"} => Holds(disk["backup"], prior)
  /\ run.by = "editor" /\ pc \in Placing /\ ~run.had => prior = Empty
  /\ pc = "clean" /\ run.by = "editor" /\ outcome = "notPlaced" => Holds(disk["plugin"], prior)

LEMMA BackupCorrect == InstallSpec => []BackupInv
<1>1. InstallInit => BackupInv
  BY DEF InstallInit, BackupInv, Placing
<1>2. BackupInv /\ ProgramInv /\ InstallTypeOK /\ [InstallNext]_installVars => BackupInv'
  <2> SUFFICES ASSUME BackupInv, ProgramInv, InstallTypeOK, [InstallNext]_installVars
               PROVE  BackupInv'
    OBVIOUS
  <2> USE DEF Goto, Fail, BackupInv
  <2>1. ASSUME NEW by, Began(by) PROVE BackupInv'
    BY <2>1 DEF Began, Placing
  <2>2. ASSUME NEW by, Refuse(by) PROVE BackupInv'
    BY <2>2 DEF Refuse, Placing
  <2>3. CASE Stage
    BY TreesOnDisk, <2>3, CopyEffect, HoldsItself DEF Stage, Copying, CopyStep, Placing
  <2>4. CASE Backup
    BY TreesOnDisk, <2>4, CopyEffect, NothingMissing, HoldsItself
       DEF Backup, Copying, CopyStep, Placing, ProgramInv, InstallTypeOK
  <2>5. CASE Delete
    BY TreesOnDisk, <2>5, DeleteEffect DEF Delete, Deleting, Placing
  <2>6. CASE Copy
    BY TreesOnDisk, <2>6, CopyEffect, HoldsEmpty DEF Copy, Copying, CopyStep, ProgramInv, Placing
  <2>7. CASE RollDelete
    BY TreesOnDisk, <2>7, DeleteEffect DEF RollDelete, Deleting, Placing
  <2>8. CASE RollCopy
    BY TreesOnDisk, <2>8, CopyEffect, NothingMissing, HoldsTransitive
       DEF RollCopy, Copying, CopyStep, Placing
  <2>9. CASE Remove
    BY TreesOnDisk, <2>9, DeleteEffect DEF Remove, Deleting, ProgramInv
  <2>10. CASE Rename
    BY <2>10 DEF Rename, ProgramInv
  <2>11. CASE Clean
    <3>1. disk'["plugin"] = disk["plugin"]
      BY TreesOnDisk, <2>11, DeleteEffect, AbandonTypes DEF Clean
    <3> QED
      BY <2>11, <3>1 DEF Clean, DeleteOneFile, Placing
  <2>12. CASE CheckName
    BY <2>12 DEF CheckName, Placing
  <2>13. CASE EnablePlugin
    BY <2>13 DEF EnablePlugin, Placing
  <2>14. CASE Crash
    BY <2>14 DEF Crash, Placing
  <2>15. CASE UNCHANGED installVars
    BY <2>15 DEF installVars
  <2> QED
    BY <2>1, <2>2, <2>3, <2>4, <2>5, <2>6, <2>7, <2>8, <2>9, <2>10, <2>11, <2>12, <2>13, <2>14,
       <2>15, ClickBegins, CliBegins DEF InstallNext, PlacePluginDir, PlacePlugin
<1> QED
  BY <1>1, <1>2, InstallTypeCorrect, ProgramCorrect, PTL DEF InstallSpec

(* What is placed is whole from the end of the swap to the report.         *)
PlacedInv ==
  /\ pc = "clean" /\ outcome = "none" => Holds(disk["plugin"], Tree(run.body))
  /\ pc \in {"check", "enable"} /\ run.needed => Holds(disk["plugin"], Tree(run.body))
  /\ pc = "enable" /\ run.needed => run.body # 0 /\ disk["plugin"][Own] # 0
  /\ pc = "enable" /\ ~run.needed => disk["plugin"] = prior

LEMMA PlacedCorrect == InstallSpec => []PlacedInv
<1>1. InstallInit => PlacedInv
  BY DEF InstallInit, PlacedInv
<1>2. /\ PlacedInv /\ StagingInv /\ ProgramInv /\ InstallTypeOK
      /\ [InstallNext]_installVars
      => PlacedInv'
  <2> SUFFICES ASSUME PlacedInv, StagingInv, ProgramInv, InstallTypeOK,
                      [InstallNext]_installVars
               PROVE  PlacedInv'
    OBVIOUS
  <2> USE DEF Goto, Fail, PlacedInv
  <2>1. ASSUME NEW by, Began(by) PROVE PlacedInv'
    BY <2>1 DEF Began
  <2>2. ASSUME NEW by, Refuse(by) PROVE PlacedInv'
    BY <2>2 DEF Refuse
  <2>3. CASE Stage
    BY <2>3 DEF Stage, Copying
  <2>4. CASE Backup
    BY <2>4 DEF Backup, Copying
  <2>5. CASE Delete
    BY <2>5 DEF Delete, Deleting, DeleteOneFile
  <2>6. CASE Copy
    BY <2>6, NothingMissing DEF Copy, Copying, StagingInv
  <2>7. CASE RollDelete
    BY <2>7 DEF RollDelete, Deleting, DeleteOneFile
  <2>8. CASE RollCopy
    BY <2>8 DEF RollCopy, Copying
  <2>9. CASE Remove
    BY <2>9 DEF Remove, Deleting, DeleteOneFile
  <2>10. CASE Rename
    BY TreesOnDisk, <2>10, HoldsItself DEF Rename, StagingInv
  <2>11. CASE Clean
    <3>1. disk'["plugin"] = disk["plugin"]
      BY TreesOnDisk, <2>11, DeleteEffect, AbandonTypes DEF Clean
    <3> QED
      BY <2>11, <3>1 DEF Clean, DeleteOneFile
  <2>12. CASE CheckName
    BY <2>12 DEF CheckName, Found, ProgramInv
  <2>13. CASE EnablePlugin
    BY <2>13 DEF EnablePlugin
  <2>14. CASE Crash
    BY <2>14 DEF Crash
  <2>15. CASE UNCHANGED installVars
    BY <2>15 DEF installVars
  <2> QED
    BY <2>1, <2>2, <2>3, <2>4, <2>5, <2>6, <2>7, <2>8, <2>9, <2>10, <2>11, <2>12, <2>13, <2>14,
       <2>15, ClickBegins, CliBegins DEF InstallNext, PlacePluginDir, PlacePlugin
<1> QED
  BY <1>1, <1>2, InstallTypeCorrect, ProgramCorrect, StagingCorrect, PTL DEF InstallSpec

(* The cli has nothing of the new version in place before its rename, and  *)
(* nothing else after it.                                                  *)
CliInv ==
  /\ run.by = "cli" /\ pc \in {"stage", "remove", "rename"} => PartOf(disk["plugin"], prior)
  /\ CliPlacesAtOnce

LEMMA CliCorrect == InstallSpec => []CliInv
<1>1. InstallInit => CliInv
  BY DEF InstallInit, CliInv, CliPlacesAtOnce
<1>2. CliInv /\ StagingInv /\ ProgramInv /\ InstallTypeOK /\ [InstallNext]_installVars => CliInv'
  <2> SUFFICES ASSUME CliInv, StagingInv, ProgramInv, InstallTypeOK, [InstallNext]_installVars
               PROVE  CliInv'
    OBVIOUS
  <2> USE DEF Goto, Fail, CliInv, CliPlacesAtOnce
  <2>1. ASSUME NEW by, Began(by) PROVE CliInv'
    BY <2>1 DEF Began, PartOf
  <2>2. ASSUME NEW by, Refuse(by) PROVE CliInv'
    BY <2>2 DEF Refuse, PartOf
  <2>3. CASE Stage
    BY TreesOnDisk, <2>3, CopyEffect DEF Stage, Copying, CopyStep, PartOf
  <2>4. CASE PlacePluginDir
    BY <2>4 DEF PlacePluginDir, Backup, Delete, Copy, RollDelete, RollCopy, Copying, Deleting,
                DeleteOneFile, ProgramInv
  <2>5. CASE Remove
    BY TreesOnDisk, <2>5, DeleteEffect DEF Remove, Deleting, PartOf
  <2>6. CASE Rename
    BY TreesOnDisk, <2>6 DEF Rename, StagingInv, ProgramInv, Placing, PartOf
  <2>7. CASE Clean
    <3>1. disk'["plugin"] = disk["plugin"]
      BY TreesOnDisk, <2>7, DeleteEffect, AbandonTypes DEF Clean
    <3> QED
      BY <2>7, <3>1 DEF Clean, DeleteOneFile
  <2>8. CASE CheckName
    BY <2>8 DEF CheckName
  <2>9. CASE EnablePlugin
    BY <2>9 DEF EnablePlugin
  <2>10. CASE Crash
    BY <2>10, AbandonTypes DEF Crash
  <2>11. CASE UNCHANGED installVars
    BY <2>11 DEF installVars, PartOf
  <2> QED
    BY <2>1, <2>2, <2>3, <2>4, <2>5, <2>6, <2>7, <2>8, <2>9, <2>10, <2>11,
       ClickBegins, CliBegins DEF InstallNext, PlacePlugin
<1> QED
  BY <1>1, <1>2, InstallTypeCorrect, ProgramCorrect, StagingCorrect, PTL DEF InstallSpec

(* The whole invariant.                                                    *)
InstallInv ==
  InstallTypeOK /\ ProgramInv /\ StagingInv /\ BackupInv /\ PlacedInv /\ CliInv

LEMMA InstallInvCorrect == InstallSpec => []InstallInv
BY InstallTypeCorrect, ProgramCorrect, StagingCorrect, BackupCorrect, PlacedCorrect, CliCorrect,
   PTL DEF InstallInv

(* The cli never lets a part of a version be seen.                         *)
THEOREM CliInstallsAtOnce == InstallSpec => []CliPlacesAtOnce
<1>1. CliInv => CliPlacesAtOnce
  BY DEF CliInv
<1> QED
  BY <1>1, CliCorrect, PTL

(* A failed placement of the editor's gives back what it found.            *)
THEOREM FailedPlacementRestores == InstallSpec => []EditorFailureRestores
<1>1. InstallInit => EditorFailureRestores
  BY DEF InstallInit, EditorFailureRestores
<1>2. EditorFailureRestores /\ InstallInv /\ [InstallNext]_installVars => EditorFailureRestores'
  <2> SUFFICES ASSUME EditorFailureRestores, InstallInv, [InstallNext]_installVars
               PROVE  EditorFailureRestores'
    OBVIOUS
  <2> USE DEF InstallInv, EditorFailureRestores, Goto, Fail
  <2>1. ASSUME NEW by, Began(by) PROVE EditorFailureRestores'
    BY <2>1 DEF Began
  <2>2. ASSUME NEW by, Refuse(by) PROVE EditorFailureRestores'
    BY <2>2 DEF Refuse
  <2>3. CASE Stage \/ PlacePluginDir \/ PlacePlugin
    BY <2>3 DEF Stage, PlacePluginDir, Backup, Delete, Copy, RollDelete, RollCopy,
                PlacePlugin, Remove, Rename, Copying, Deleting, DeleteOneFile
  <2>4. CASE Clean
    BY <2>4, AbandonTypes DEF Clean, DeleteOneFile, BackupInv
  <2>5. CASE CheckName
    BY <2>5 DEF CheckName, ProgramInv
  <2>6. CASE EnablePlugin
    BY <2>6 DEF EnablePlugin, ComputeOutcome
  <2>7. CASE Crash
    BY <2>7 DEF Crash
  <2>8. CASE UNCHANGED installVars
    BY <2>8 DEF installVars
  <2> QED
    BY <2>1, <2>2, <2>3, <2>4, <2>5, <2>6, <2>7, <2>8, ClickBegins, CliBegins DEF InstallNext
<1> QED
  BY <1>1, <1>2, InstallInvCorrect, PTL DEF InstallSpec

LEMMA EnabledOnly ==
  ASSUME NEW changed, NEW hadPrevVersion
  PROVE  ComputeOutcome(changed, FALSE, hadPrevVersion) \in {"upToDate", "enabled"}
BY DEF ComputeOutcome

(* What is reported as placed is whole.                                    *)
THEOREM ReportedIsWhole == InstallSpec => []PlacedIsWhole
<1>1. InstallInit => PlacedIsWhole
  BY DEF InstallInit, PlacedIsWhole
<1>2. PlacedIsWhole /\ InstallInv /\ [InstallNext]_installVars => PlacedIsWhole'
  <2> SUFFICES ASSUME PlacedIsWhole, InstallInv, [InstallNext]_installVars
               PROVE  PlacedIsWhole'
    OBVIOUS
  <2> USE DEF InstallInv, PlacedIsWhole, Goto, Fail, Placing
  <2>1. ASSUME NEW by, Began(by) PROVE PlacedIsWhole'
    BY <2>1 DEF Began
  <2>2. ASSUME NEW by, Refuse(by) PROVE PlacedIsWhole'
    BY <2>2 DEF Refuse
  <2>3. CASE Stage \/ PlacePluginDir \/ PlacePlugin
    BY <2>3 DEF Stage, PlacePluginDir, Backup, Delete, Copy, RollDelete, RollCopy,
                PlacePlugin, Remove, Rename, Copying, Deleting, DeleteOneFile, ProgramInv
  <2>4. CASE Clean
    BY <2>4 DEF Clean, DeleteOneFile, ProgramInv
  <2>5. CASE CheckName
    BY <2>5 DEF CheckName, ProgramInv
  <2>6. CASE EnablePlugin
    <3>1. CASE run.needed
      BY <2>6, <3>1 DEF EnablePlugin, PlacedInv
    <3>2. CASE run.needed = FALSE
      BY <2>6, <3>2, EnabledOnly DEF EnablePlugin
    <3> QED
      BY <3>1, <3>2 DEF InstallTypeOK
  <2>7. CASE Crash
    BY <2>7 DEF Crash, ProgramInv
  <2>8. CASE UNCHANGED installVars
    BY <2>8 DEF installVars
  <2> QED
    BY <2>1, <2>2, <2>3, <2>4, <2>5, <2>6, <2>7, <2>8, ClickBegins, CliBegins DEF InstallNext
<1> QED
  BY <1>1, <1>2, InstallInvCorrect, PTL DEF InstallSpec

(* A directory that has all of what was installed or is being installed.   *)
Whole(t) == Holds(t, prior) \/ (run.body # 0 /\ Holds(t, Tree(run.body)))

(* While a run is under way the copy is in a place that is known.          *)
LEMMA CopyUnderWay ==
  ASSUME InstallInv, pc # "idle", run.by = "editor", outcome # "repair"
  PROVE  Whole(disk["plugin"]) \/ Whole(disk["backup"])
<1>1. CASE pc \in {"stage", "backup"}
  BY <1>1, HoldsItself DEF InstallInv, BackupInv, Whole
<1>2. CASE pc \in {"delete", "copy", "rollDelete", "rollCopy"}
  BY <1>2 DEF InstallInv, BackupInv, Whole
<1>3. CASE pc = "clean"
  BY <1>3 DEF InstallInv, ProgramInv, BackupInv, PlacedInv, Whole, Placing
<1>4. CASE pc \in {"check", "enable"}
  BY <1>4, HoldsItself DEF InstallInv, ProgramInv, PlacedInv, Whole
<1>5. CASE pc \in {"remove", "rename"}
  BY <1>5 DEF InstallInv, ProgramInv
<1> QED
  BY <1>1, <1>2, <1>3, <1>4, <1>5 DEF InstallInv, InstallTypeOK, Placing

(* ... and after it, among all that was left.                              *)
SurvivesIdle == pc = "idle" => ACopySurvives

LEMMA CopySurvivesIdle == InstallSpec => []SurvivesIdle
<1>1. InstallInit => SurvivesIdle
  <2> SUFFICES ASSUME InstallInit PROVE ACopySurvives
    BY DEF SurvivesIdle
  <2>1. Holds(disk["plugin"], prior) /\ "plugin" \in Places
    BY HoldsEmpty DEF InstallInit, Places
  <2> QED
    BY <2>1 DEF ACopySurvives
<1>2. SurvivesIdle /\ InstallInv /\ [InstallNext]_installVars => SurvivesIdle'
  <2> SUFFICES ASSUME SurvivesIdle, InstallInv, [InstallNext]_installVars, pc' = "idle"
               PROVE  ACopySurvives'
    BY DEF SurvivesIdle
  <2>0. "plugin" \in Places /\ "staging" \in Places /\ "backup" \in Places
    BY DEF Places
  <2> USE DEF Goto, Fail
  <2>1. ASSUME NEW by, Began(by) PROVE FALSE
    BY <2>1 DEF Began
  <2>2. ASSUME NEW by, Refuse(by) PROVE ACopySurvives'
    BY <2>0, <2>2, HoldsItself DEF Refuse, ACopySurvives
  <2>3. CASE Stage \/ PlacePluginDir \/ PlacePlugin
    BY <2>3 DEF Stage, PlacePluginDir, Backup, Delete, Copy, RollDelete, RollCopy,
                PlacePlugin, Remove, Rename, Copying, Deleting, DeleteOneFile
  <2>4. CASE Clean \/ CheckName \/ EnablePlugin \/ Crash
    <3>1. /\ pc # "idle" /\ UNCHANGED <<run, prior>>
          /\ outcome = "repair" => outcome' = "repair"
      BY <2>4 DEF Clean, CheckName, EnablePlugin, Crash, DeleteOneFile, InstallInv, ProgramInv
    <3>2. disk'["plugin"] = disk["plugin"]
      BY <2>4, AbandonTypes DEF Clean, CheckName, EnablePlugin, Crash, DeleteOneFile, InstallInv
    <3>3. disk["backup"] \in {disk'[p] : p \in Places} \cup leftover'
      BY <2>0, <2>4, AbandonTypes
         DEF Clean, CheckName, EnablePlugin, Crash, DeleteOneFile, InstallInv, Abandoned
    <3> SUFFICES ASSUME run.by = "editor", outcome # "repair"
                 PROVE  \E t \in {disk'[p] : p \in Places} \cup leftover' : Whole(t)
      BY <3>1 DEF ACopySurvives, Whole
    <3> QED
      BY <2>0, <3>1, <3>2, <3>3, CopyUnderWay
  <2>5. CASE UNCHANGED installVars
    BY <2>5 DEF installVars, SurvivesIdle, ACopySurvives
  <2> QED
    BY <2>1, <2>2, <2>3, <2>4, <2>5, ClickBegins, CliBegins DEF InstallNext, InstallInv
<1> QED
  BY <1>1, <1>2, InstallInvCorrect, PTL DEF InstallSpec

(* Some whole copy is on the disk throughout.                              *)
THEOREM SomeCopySurvives == InstallSpec => []ACopySurvives
<1>1. InstallInv /\ SurvivesIdle => ACopySurvives
  BY CopyUnderWay DEF SurvivesIdle, ACopySurvives, Whole, Places
<1> QED
  BY <1>1, InstallInvCorrect, CopySurvivesIdle, PTL
================================================================================
