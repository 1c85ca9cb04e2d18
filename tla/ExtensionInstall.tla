---------------------------- MODULE ExtensionInstall ----------------------------
(***************************************************************************)
(* An extension is installed into <project>/Plugins/<name> by two          *)
(* programs that must agree: FUnrealMcpExtensionInstaller in the editor    *)
(* and install-extension in the cli.  Each decides whether the files must  *)
(* be placed, stages them in a sibling directory, swaps them in, looks at  *)
(* what it has placed and enables the plugin in the .uproject.             *)
(*                                                                         *)
(* The editor copies into place and keeps a backup to roll back to; the    *)
(* cli deletes and renames.  Every copy and deletion goes file by file and *)
(* can fail (the editor holds the plugin's files open), and the process    *)
(* can die at every point.  Two installs do not run at the same time.      *)
(***************************************************************************)
EXTENDS Naturals

CONSTANTS
  PluginFiles,  \* the files of the plugin, under all its versions
  Descriptors,  \* those that are a .uplugin at its root
  Own,          \* the descriptor of the plugin's name
  Versions,     \* the versions that are released; 0 is none
  Contents      \* the files of each version's archive

ASSUME FilesAssumption == Own \in Descriptors /\ Descriptors \subseteq PluginFiles
ASSUME VersionsAssumption ==
  /\ Versions \subseteq Nat \ {0}
  /\ Contents \in [Versions -> SUBSET PluginFiles]
  /\ \A v \in Versions : Contents[v] \cap Descriptors # {}

VARIABLES
  disk,     \* what is in the plugin's directory, the staging and the backup
  leftover, \* the staging and backup directories that the last run abandoned
  enabled,  \* the plugin's entry in the .uproject
  pc,       \* the step the run is at
  run,      \* its locals: whose it is, what it found, what it installs
  outcome,  \* how it ended
  prior     \* history: what the plugin's directory held when the run began

installVars == <<disk, leftover, enabled, pc, run, outcome, prior>>

\* A directory maps each file to the version it is of; an empty one may also be absent.
Trees  == [PluginFiles -> Versions \cup {0}]
Empty  == [f \in PluginFiles |-> 0]
Places == {"plugin", "staging", "backup"}
Tree(v) == [f \in PluginFiles |-> IF f \in Contents[v] THEN v ELSE 0]

\* Every file of s is in t.
Holds(t, s) == \A f \in PluginFiles : s[f] # 0 => t[f] = s[f]

Placing == {"stage", "backup", "delete", "copy", "rollDelete", "rollCopy",
            "remove", "rename", "clean"}

\* One type invariant.  No run ends without giving up its working directories.
InstallTypeOK ==
  /\ disk \in [Places -> Trees]
  /\ leftover \in SUBSET Trees
  /\ enabled \in BOOLEAN
  /\ pc \in {"idle", "check", "enable"} \cup Placing
  /\ run \in [by : {"editor", "cli"}, from : Versions \cup {0}, body : Versions \cup {0},
              needed : BOOLEAN, had : BOOLEAN]
  /\ outcome \in {"none", "added", "updated", "enabled", "upToDate",
                  "refused", "notPlaced", "repair", "misnamed", "notEnabled", "crashed"}
  /\ prior \in Trees
  /\ pc \notin Placing => disk["staging"] = Empty /\ disk["backup"] = Empty

InstallInit ==
  /\ disk \in {[p \in Places |-> IF p = "plugin" THEN t ELSE Empty] :
                 t \in {Empty} \cup {Tree(v) : v \in Versions}}
  /\ leftover = {} /\ enabled \in BOOLEAN
  /\ pc = "idle" /\ outcome = "none" /\ prior = Empty
  /\ run = [by |-> "editor", from |-> 0, body |-> 0, needed |-> FALSE, had |-> FALSE]

--------------------------------------------------------------------------------
(* What both programs decide alike.                                        *)

\* FindUPluginFile takes whichever descriptor the directory lists first.
Found(t) == {d \in Descriptors : t[d] # 0}
FromVersions(t) == IF Found(t) = {} THEN {0} ELSE {t[d] : d \in Found(t)}

IsMaterializeNeeded(force, from, to) == force \/ from = 0 \/ (to # 0 /\ from # to)

ComputeOutcome(changed, needed, hadPrevVersion) ==
  IF ~changed THEN "upToDate"
  ELSE IF ~needed THEN "enabled"
  ELSE IF hadPrevVersion THEN "updated" ELSE "added"

Begin(by, from, body, needed, had) ==
  /\ pc = "idle"
  /\ pc' = IF needed THEN "stage" ELSE "enable"
  /\ run' = [by |-> by, from |-> from, body |-> body, needed |-> needed, had |-> had]
  /\ outcome' = "none" /\ leftover' = {} /\ prior' = disk["plugin"]
  /\ UNCHANGED <<disk, enabled>>

\* Without a source, or with an archive that does not verify, nothing is touched.
Refuse(by) ==
  /\ pc = "idle"
  /\ run' = [by |-> by, from |-> 0, body |-> 0, needed |-> TRUE, had |-> FALSE]
  /\ outcome' = "refused" /\ leftover' = {} /\ prior' = disk["plugin"]
  /\ UNCHANGED <<disk, enabled, pc>>

\* Install, called by a click on a row.  The row, and with it bForce, may be older than the
\* disk.  What is in a release's archive is not compared with the release.
InstallClicked ==
  \/ \E force \in BOOLEAN, to \in Versions \cup {0}, from \in FromVersions(disk["plugin"]) :
       LET needed == IsMaterializeNeeded(force, from, to) IN
       /\ needed => to # 0
       /\ \E body \in IF needed THEN Versions ELSE {0},
             had \in IF disk["plugin"] = Empty THEN BOOLEAN ELSE {TRUE} :
               Begin("editor", from, body, needed, had)
  \/ Refuse("editor")

\* The cli never downgrades unless it is told to, and looks into the archive of a release.
KeepsInstalled(channel, from, to) == channel = "latest" /\ to # 0 /\ from > to

VerifiedArchive(to) == Own \in Contents[to]

InstallExtension ==
  \/ \E channel \in {"latest", "explicit", "local"}, force \in BOOLEAN,
        to \in Versions \cup {0}, from \in FromVersions(disk["plugin"]) :
       LET needed == /\ ~KeepsInstalled(channel, from, to)
                     /\ IsMaterializeNeeded(force, from, to) IN
       /\ channel # "local" => to # 0
       /\ \E body \in IF ~needed THEN {0} ELSE IF channel = "local" THEN Versions ELSE {to} :
            /\ needed /\ channel # "local" => VerifiedArchive(to)
            /\ Begin("cli", from, body, needed, FALSE)
  \/ Refuse("cli")

--------------------------------------------------------------------------------
(* The steps of a placement.                                               *)

Goto(step) == pc' = step /\ UNCHANGED outcome
Fail(how)  == pc' = "clean" /\ outcome' = how

Missing(src, place) == {f \in PluginFiles : src[f] # 0 /\ disk[place][f] # src[f]}

\* A recursive copy, file by file, and what follows when it is done or has failed.
Copying(src, place, Done, Failed) ==
  /\ \/ /\ \E f \in Missing(src, place) : disk' = [disk EXCEPT ![place][f] = src[f]]
        /\ UNCHANGED <<pc, outcome>>
     \/ Missing(src, place) = {} /\ Done /\ UNCHANGED disk
     \/ Missing(src, place) # {} /\ Failed /\ UNCHANGED disk
  /\ UNCHANGED <<leftover, enabled, run, prior>>

\* A recursive deletion goes file by file, and a file in use may stop it at any point.
DeleteOneFile(place) ==
  /\ \E f \in PluginFiles : disk[place][f] # 0 /\ disk' = [disk EXCEPT ![place][f] = 0]
  /\ UNCHANGED <<leftover, enabled, pc, run, outcome, prior>>

Deleting(place, Ended) ==
  \/ DeleteOneFile(place)
  \/ Ended /\ UNCHANGED <<disk, leftover, enabled, run, prior>>

\* The filtered copy into the sibling directory.
Stage ==
  /\ pc = "stage"
  /\ Copying(Tree(run.body), "staging",
             Goto(IF run.by = "editor" THEN "backup" ELSE "remove"), Fail("notPlaced"))

(* Mutant: a backup is taken for good however much of it was copied.       *)
BackupAnyPart ==
  /\ pc = "backup"
  /\ Copying(disk["plugin"], "backup", Goto("delete"), Goto("delete"))

\* PlacePluginDir, in the editor: a backup, a deletion whose result is not looked at, a copy.
Backup ==
  /\ pc = "backup"
  /\ Copying(disk["plugin"], "backup", Goto("delete"), Fail("notPlaced"))

Delete == pc = "delete" /\ Deleting("plugin", Goto("copy"))

(* Mutant: a copy that fails is not rolled back.                           *)
CopyWithoutRollback ==
  /\ pc = "copy"
  /\ Copying(disk["staging"], "plugin", Goto("clean"), Fail("notPlaced"))

(* Mutant: the result of the copy is not looked at.                        *)
CopyAnyPart ==
  /\ pc = "copy"
  /\ Copying(disk["staging"], "plugin", Goto("clean"), Goto("clean"))

Copy ==
  /\ pc = "copy"
  /\ Copying(disk["staging"], "plugin", Goto("clean"),
             IF run.had THEN Goto("rollDelete") ELSE Fail("notPlaced"))

RollDelete == pc = "rollDelete" /\ Deleting("plugin", Goto("rollCopy"))

\* With both failed the user is told to repair by hand.
RollCopy ==
  /\ pc = "rollCopy"
  /\ Copying(disk["backup"], "plugin", Fail("notPlaced"), Fail("repair"))

\* placePlugin, in the cli: a deletion that must succeed, and a rename.
Remove ==
  /\ pc = "remove"
  /\ Deleting("plugin",
              IF disk["plugin"] = Empty THEN Goto("rename") ELSE Fail("notPlaced"))

(* Mutant: the cli copies into place as the editor does.                   *)
RenameByCopy ==
  /\ pc = "rename"
  /\ Copying(disk["staging"], "plugin", Goto("clean"), Fail("notPlaced"))

Rename ==
  /\ pc = "rename"
  /\ \/ /\ disk' = [disk EXCEPT !["plugin"] = disk["staging"], !["staging"] = Empty]
        /\ Goto("clean")
     \/ Fail("notPlaced") /\ UNCHANGED disk
  /\ UNCHANGED <<leftover, enabled, run, prior>>

\* What is in the working directories when a run lets go of them.
Abandoned == {disk[p] : p \in {"staging", "backup"}} \ {Empty}

\* The working directories are deleted as the placement returns, as far as that succeeds.
Clean ==
  /\ pc = "clean"
  /\ \/ \E p \in {"staging", "backup"} : DeleteOneFile(p)
     \/ /\ pc' = IF outcome = "none" THEN "check" ELSE "idle"
        /\ leftover' = leftover \cup Abandoned
        /\ disk' = [disk EXCEPT !["staging"] = Empty, !["backup"] = Empty]
        /\ UNCHANGED <<enabled, run, outcome, prior>>

\* The descriptor that is placed must have the plugin's name.
CheckName ==
  /\ pc = "check"
  /\ \/ Own \in Found(disk["plugin"]) /\ Goto("enable")
     \/ Found(disk["plugin"]) # {Own} /\ pc' = "idle" /\ outcome' = "misnamed"
  /\ UNCHANGED <<disk, leftover, enabled, run, prior>>

\* The .uproject is written only when the entry is not there; it may not be readable, or writable.
EnablePlugin ==
  /\ pc = "enable" /\ pc' = "idle"
  /\ \/ /\ enabled' = TRUE
        /\ outcome' = ComputeOutcome(run.needed \/ ~enabled, run.needed, run.from # 0)
     \/ outcome' = "notEnabled" /\ UNCHANGED enabled
  /\ UNCHANGED <<disk, leftover, run, prior>>

\* The process dies, and nothing is cleaned.
Crash ==
  /\ pc # "idle" /\ pc' = "idle"
  /\ outcome' = IF outcome = "repair" THEN outcome ELSE "crashed"
  /\ leftover' = leftover \cup Abandoned
  /\ disk' = [disk EXCEPT !["staging"] = Empty, !["backup"] = Empty]
  /\ UNCHANGED <<enabled, run, prior>>

--------------------------------------------------------------------------------
PlacePluginDir == Backup \/ Delete \/ Copy \/ RollDelete \/ RollCopy
PlacePlugin    == Remove \/ Rename

InstallNext ==
  \/ InstallClicked \/ InstallExtension
  \/ Stage \/ PlacePluginDir \/ PlacePlugin \/ Clean
  \/ CheckName \/ EnablePlugin \/ Crash

InstallSpec == InstallInit /\ [][InstallNext]_installVars

--------------------------------------------------------------------------------
(* Properties.                                                             *)

\* "Restore the prior install so a failed swap can't leave the project with no working
\* install" (UnrealMcpExtensionInstaller.cpp:450): after an editor's placement that failed
\* short of the message that asks for a repair, all that was installed is there again.
EditorFailureRestores ==
  pc = "idle" /\ run.by = "editor" /\ outcome = "notPlaced" => Holds(disk["plugin"], prior)

\* At every step of an editor's run, and whatever a crash in it leaves behind, a whole copy
\* of what was installed or of what is being installed is on the disk, unless the roll back
\* itself failed (the backup in PlacePluginDir).
ACopySurvives ==
  run.by = "editor" /\ outcome # "repair" =>
    \E t \in {disk[p] : p \in Places} \cup leftover :
      Holds(t, prior) \/ (run.body # 0 /\ Holds(t, Tree(run.body)))

\* An install that reports files as placed has placed all of them, under the plugin's own
\* descriptor, whichever program did it and whatever its deletion left (Install,
\* installExtension).
PlacedIsWhole ==
  outcome \in {"added", "updated"} =>
    Holds(disk["plugin"], Tree(run.body)) /\ disk["plugin"][Own] # 0

\* The cli swaps a directory in by a rename: at no step, and after no crash or failure, is
\* there a part of the new version in the plugin's directory (placePlugin).
CliPlacesAtOnce ==
  run.by = "cli" =>
    \/ run.body # 0 /\ disk["plugin"] = Tree(run.body)
    \/ \A f \in PluginFiles : disk["plugin"][f] \in {0, prior[f]}
================================================================================
