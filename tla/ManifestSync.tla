------------------------------ MODULE ManifestSync ------------------------------
(***************************************************************************)
(* How a change of the plugin's tools reaches the MCP client: the          *)
(* extension manager rebuilds the registry, the bridge server sends the    *)
(* whole registry as a manifest, and the sidecar's registrar turns the     *)
(* difference into added, removed and hidden proxies on two surfaces.      *)
(*                                                                         *)
(* Four parties: the game thread (changes of extensions and visibility,    *)
(* and the push), the plugin's reader thread (the manifest that answers a  *)
(* handshake), the sidecar's reader (the registrar), and the link.  The    *)
(* rebuild and the application of a manifest take many steps, and a        *)
(* manifest may be built, or the link lost, between any two of them.       *)
(*                                                                         *)
(* Prompts and resources go through the same code with other names.  All   *)
(* the names here pass the whitelist, and none is that of the sidecar's    *)
(* own tool: AddTool, given a name that no proxy has, does not refuse it.  *)
(***************************************************************************)
EXTENDS Integers, Sequences, SequencesExt

CONSTANTS
  Names,       \* tool names
  CoreNames,   \* those the plugin registers itself
  Providers,   \* the tool providers an editor may load
  IdOf,        \* the extension id of a provider: a number, in the order of the ids
  Offers,      \* the names a provider registers
  Startup,     \* the providers there may be when the editor starts, as sequences like features
  MaxChanges,  \* how many times the user or a module changes something (a bound of the model)
  MaxLinks,    \* how many times the link may be lost (a bound of the model)
  MaxFaults    \* how many times a sink may throw (a bound of the model)

CoreId   == 0
Ids      == {IdOf[p] : p \in Providers}
Surfaces == {"standard", "system"}
Absent   == [ext |-> -1, surface |-> "none", visible |-> FALSE]
Desc     == [ext : Ids \cup {CoreId}, surface : Surfaces, visible : BOOLEAN] \cup {Absent}
View     == [Names -> Desc]

ASSUME ProvidersAssumption ==
  /\ CoreNames \subseteq Names
  /\ IdOf \in [Providers -> Nat] /\ Offers \in [Providers -> SUBSET Names]
  /\ Startup \subseteq Seq([provider : Providers, surface : Surfaces])

VARIABLES
  features,    \* the providers registered as modular features, in that order, with their surface
  disabled,    \* DisabledExtensions
  hidden,      \* the retained Visible toggles
  entries,     \* the registry
  revision,
  registered,  \* RegisteredExtensionIds
  gpc,         \* the game thread
  todo,        \* the providers the rebuild has yet to visit
  pending,     \* bPendingRebuild
  link,        \* the connection; "dropped" is closed by the plugin, not yet seen by the sidecar
  channel,     \* the manifests the sidecar has not read
  applied,     \* the registrar's Applied
  last,        \* _lastAppliedRevision
  work,        \* the application of a manifest in progress
  proxies,     \* what each surface holds
  routed,      \* the surface SurfaceRoutingToolSink remembers
  newest,      \* the highest revision whose application has begun
  changes, links, faults  \* counters of the bounds

registryVars == <<features, disabled, hidden, entries, revision, registered>>
gameVars     == <<gpc, todo, pending, changes>>
linkVars     == <<link, channel, links>>
sidecarVars  == <<applied, last, work, proxies, routed, newest, faults>>
vars         == <<registryVars, gameVars, linkVars, sidecarVars>>

Idle == [rev |-> -1, view |-> [n \in Names |-> Absent],
         removed |-> {}, changed |-> {}, added |-> {}, toggled |-> {}]

\* One type invariant: a manifest is numbered by a revision the registry has had.
TypeOK ==
  /\ \A i \in 1 .. Len(features) : features[i] \in [provider : Providers, surface : Surfaces]
  /\ disabled \subseteq Ids /\ hidden \subseteq Names /\ registered \subseteq Ids
  /\ entries \in View /\ revision \in Nat
  /\ gpc \in {"idle", "clear", "register", "push", "write"} /\ pending \in BOOLEAN
  /\ link \in {"closed", "dialed", "ok", "ready", "dropped"}
  /\ \A i \in 1 .. Len(channel) : channel[i].view \in View /\ channel[i].rev \in 0 .. revision
  /\ applied \in View /\ last \in -1 .. revision /\ work.rev \in -1 .. revision
  /\ proxies \in [Surfaces -> View] /\ routed \in [Names -> Surfaces \cup {"none"}]

--------------------------------------------------------------------------------
(* The registry.                                                           *)

\* A provider's tools as they are committed: the first one has the name, and the
\* retained visibility holds at once.
Committed(es, f) ==
  [n \in Names |->
     IF n \in Offers[f.provider] /\ es[n] = Absent
     THEN [ext |-> IdOf[f.provider], surface |-> f.surface, visible |-> n \notin hidden]
     ELSE es[n]]

\* The providers a rebuild visits, in the order of their ids: the first to have its id,
\* unless that is the reserved one or is disabled.
Visited(fs, off) ==
  {fs[i] : i \in {i \in DOMAIN fs :
     /\ IdOf[fs[i].provider] \notin off \cup {CoreId}
     /\ \A j \in 1 .. i - 1 : IdOf[fs[j].provider] # IdOf[fs[i].provider]}}

\* Every change of the registry bumps the revision; a step here is one call into it.
Becomes(es) ==
  /\ entries' = es
  /\ revision' = IF es = entries THEN revision ELSE revision + 1

\* What the providers, the disabled extensions and the toggles say the client should see:
\* the core tools, and for any other name the tool of the smallest id that offers it.
Promised ==
  LET winner(n) == {f \in Visited(features, disabled) : n \in Offers[f.provider] /\
        \A g \in Visited(features, disabled) : n \in Offers[g.provider] => IdOf[f.provider] <= IdOf[g.provider]}
  IN  [n \in Names |->
         IF n \in CoreNames THEN [ext |-> CoreId, surface |-> "system", visible |-> n \notin hidden]
         ELSE IF winner(n) = {} THEN Absent
         ELSE LET f == CHOOSE f \in winner(n) : TRUE
              IN  [ext |-> IdOf[f.provider], surface |-> f.surface, visible |-> n \notin hidden]]

\* After Startup, whose rebuild tells nobody: the bridge does not accept yet.
Init ==
  /\ features \in Startup /\ disabled = {} /\ hidden = {}
  /\ registered = {IdOf[f.provider] : f \in Visited(features, disabled)}
  /\ entries = Promised /\ revision = 1
  /\ gpc = "idle" /\ todo = {} /\ pending = FALSE /\ changes = 0
  /\ link = "closed" /\ channel = <<>> /\ links = 0
  /\ applied = [n \in Names |-> Absent] /\ last = -1 /\ work = Idle
  /\ proxies = [s \in Surfaces |-> [n \in Names |-> Absent]] /\ routed = [n \in Names |-> "none"]
  /\ newest = -1 /\ faults = 0

--------------------------------------------------------------------------------
(* The game thread.                                                        *)

\* A module is loaded or unloaded: its provider comes last, or goes.
FeatureChange ==
  /\ changes < MaxChanges /\ changes' = changes + 1
  /\ \/ \E p \in Providers, s \in Surfaces :
          /\ \A i \in DOMAIN features : features[i].provider # p
          /\ features' = Append(features, [provider |-> p, surface |-> s])
     \/ \E i \in DOMAIN features : features' = RemoveAt(features, i)

\* OnFeatureRegistered, OnFeatureUnregistered outside a rebuild.
ModuleChange ==
  /\ gpc = "idle" /\ FeatureChange
  /\ gpc' = "clear"
  /\ UNCHANGED <<disabled, hidden, entries, revision, registered, todo, pending, linkVars, sidecarVars>>

SetExtensionEnabled(e) ==
  /\ gpc = "idle" /\ changes < MaxChanges /\ changes' = changes + 1
  /\ disabled' = IF e \in disabled THEN disabled \ {e} ELSE disabled \cup {e}
  /\ gpc' = "clear"
  /\ UNCHANGED <<features, hidden, entries, revision, registered, todo, pending, linkVars, sidecarVars>>

\* The Visible toggle: ApplyHiddenList, RecomputeEnablement, then the push.
ApplyHiddenTools(n) ==
  /\ gpc = "idle" /\ changes < MaxChanges /\ changes' = changes + 1
  /\ hidden' = IF n \in hidden THEN hidden \ {n} ELSE hidden \cup {n}
  /\ Becomes([m \in Names |-> IF entries[m] = Absent THEN Absent
                              ELSE [entries[m] EXCEPT !.visible = m \notin hidden']])
  /\ gpc' = "push"
  /\ UNCHANGED <<features, disabled, registered, todo, pending, linkVars, sidecarVars>>

(* Mutant: what is removed takes the revision with it.                     *)
RebuildStartsOver ==
  /\ gpc = "clear"
  /\ \E e \in registered :
       /\ registered' = registered \ {e}
       /\ entries' = [n \in Names |-> IF entries[n].ext = e THEN Absent ELSE entries[n]]
       /\ revision' = 0
  /\ UNCHANGED <<features, disabled, hidden, gameVars, linkVars, sidecarVars>>

\* A rebuild first removes what the last one registered, id by id,
RebuildClears ==
  /\ gpc = "clear"
  /\ \E e \in registered :
       /\ \A d \in registered : e <= d
       /\ registered' = registered \ {e}
       /\ Becomes([n \in Names |-> IF entries[n].ext = e THEN Absent ELSE entries[n]])
  /\ UNCHANGED <<features, disabled, hidden, gameVars, linkVars, sidecarVars>>

\* and sorts the providers it will visit.
RebuildSorts ==
  /\ gpc = "clear" /\ registered = {} /\ gpc' = "register"
  /\ todo' = Visited(features, disabled)
  /\ UNCHANGED <<registryVars, pending, changes, linkVars, sidecarVars>>

(* Mutant: a feature change in the middle of a rebuild is forgotten.       *)
RegisterExtensionOnce ==
  /\ gpc = "register"
  /\ \E f \in todo :
       /\ \A g \in todo : IdOf[f.provider] <= IdOf[g.provider]
       /\ todo' = todo \ {f}
       /\ Becomes(Committed(entries, f))
       /\ registered' = registered \cup {IdOf[f.provider]}
  /\ UNCHANGED pending /\ (UNCHANGED <<features, changes>> \/ FeatureChange)
  /\ UNCHANGED <<disabled, hidden, gpc, linkVars, sidecarVars>>

\* A provider may load or unload a module while it registers; that asks for another rebuild.
RegisterExtension ==
  /\ gpc = "register"
  /\ \E f \in todo :
       /\ \A g \in todo : IdOf[f.provider] <= IdOf[g.provider]
       /\ todo' = todo \ {f}
       /\ Becomes(Committed(entries, f))
       /\ registered' = registered \cup {IdOf[f.provider]}
  /\ \/ UNCHANGED <<features, changes, pending>>
     \/ FeatureChange /\ pending' = TRUE
  /\ UNCHANGED <<disabled, hidden, gpc, linkVars, sidecarVars>>

\* OnChanged, after the last provider.
RebuildNotifies ==
  /\ gpc = "register" /\ todo = {}
  /\ gpc' = "push"
  /\ UNCHANGED <<registryVars, todo, pending, changes, linkVars, sidecarVars>>

\* What follows the push: the deferred rebuild, or nothing.
PushDone == gpc' = (IF pending THEN "clear" ELSE "idle") /\ pending' = FALSE

\* PushManifest looks at the connection (which may have been lost unseen) without the lock,
PushManifest ==
  /\ gpc = "push"
  /\ \/ link \notin {"dialed", "dropped"} /\ gpc' = "write" /\ UNCHANGED pending
     \/ link \notin {"ok", "ready"} /\ PushDone
  /\ UNCHANGED <<registryVars, todo, changes, linkVars, sidecarVars>>

\* SendManifestLocked: built and written under WriteMutex, to the connection of that moment.
SendManifestLocked ==
  channel' = IF link \in {"dialed", "ok", "ready"}
             THEN Append(channel, [rev |-> revision, view |-> entries]) ELSE channel

PushWrites ==
  /\ gpc = "write" /\ PushDone
  /\ SendManifestLocked
  /\ UNCHANGED <<registryVars, todo, changes, link, links, sidecarVars>>

GameThread ==
  \/ ModuleChange \/ RebuildClears \/ RebuildSorts \/ RegisterExtension \/ RebuildNotifies
  \/ PushManifest \/ PushWrites
  \/ \E e \in Ids : SetExtensionEnabled(e)
  \/ \E n \in Names : ApplyHiddenTools(n)

--------------------------------------------------------------------------------
(* The link, and the plugin's reader thread.                               *)

Dial ==
  /\ link = "closed" /\ link' = "dialed"
  /\ UNCHANGED <<registryVars, gameVars, channel, links, sidecarVars>>

\* HandleHandshake opens the gate,
HandshakeOk ==
  /\ link = "dialed" /\ link' = "ok"
  /\ UNCHANGED <<registryVars, gameVars, channel, links, sidecarVars>>

\* and sends the manifest: on the reader thread, whatever the game thread is doing.
HandshakeManifest ==
  /\ link = "ok" /\ link' = "ready"
  /\ SendManifestLocked
  /\ UNCHANGED <<registryVars, gameVars, links, sidecarVars>>

PluginDrops ==
  /\ link \in {"dialed", "ok", "ready"} /\ links < MaxLinks
  /\ link' = "dropped" /\ links' = links + 1
  /\ UNCHANGED <<registryVars, gameVars, channel, sidecarVars>>

\* TryConnectAndServeAsync's finally: what was not read is lost, ResetForReconnect.
ConnectionEnds ==
  /\ link # "closed" /\ work = Idle
  /\ \/ link = "dropped" /\ UNCHANGED links
     \/ link # "dropped" /\ links < MaxLinks /\ links' = links + 1
  /\ link' = "closed" /\ channel' = <<>>
  /\ last' = -1
  /\ UNCHANGED <<registryVars, gameVars, applied, work, proxies, routed, newest, faults>>

Link == Dial \/ HandshakeOk \/ HandshakeManifest \/ PluginDrops \/ ConnectionEnds

--------------------------------------------------------------------------------
(* The sidecar's reader: ApplyEntries, and the sinks.                      *)

Schema(d) == <<d.ext, d.surface>>

\* ManifestDiffer.Compute, against Applied.
ApplyManifest ==
  /\ work = Idle /\ channel # <<>> /\ channel' = Tail(channel)
  /\ LET m == Head(channel)
         kept == {n \in Names : m.view[n] # Absent /\ applied[n] # Absent}
     IN  IF m.rev <= last THEN UNCHANGED <<work, newest>>
         ELSE /\ newest' = m.rev
              /\ work' = [rev |-> m.rev, view |-> m.view,
                   removed |-> {n \in Names : applied[n] # Absent /\ m.view[n] = Absent},
                   changed |-> {n \in kept : Schema(m.view[n]) # Schema(applied[n])},
                   added   |-> {n \in Names : applied[n] = Absent /\ m.view[n] # Absent},
                   toggled |-> {n \in kept : /\ Schema(m.view[n]) = Schema(applied[n])
                                             /\ m.view[n].visible # applied[n].visible}]
  /\ UNCHANGED <<registryVars, gameVars, link, links, applied, last, proxies, routed, faults>>

\* RemoveTool, AddTool, SetToolVisible of SurfaceRoutingToolSink, on (proxies, routed).
WithoutTool(n) ==
  [s \in Surfaces |-> IF routed[n] \in {s, "none"} THEN [proxies[s] EXCEPT ![n] = Absent] ELSE proxies[s]]

WithTool(ps, n, d) == [ps EXCEPT ![d.surface][n] = d]

RemovedOne(n) ==
  /\ n \in work.removed
  /\ proxies' = WithoutTool(n) /\ routed' = [routed EXCEPT ![n] = "none"]
  /\ applied' = [applied EXCEPT ![n] = Absent]
  /\ work' = [work EXCEPT !.removed = @ \ {n}]

(* Mutant: the new surface is written, the old one never cleared.          *)
ChangedInPlace(n) ==
  /\ work.removed = {} /\ n \in work.changed
  /\ proxies' = WithTool(proxies, n, work.view[n])
  /\ routed' = [routed EXCEPT ![n] = work.view[n].surface]
  /\ applied' = [applied EXCEPT ![n] = work.view[n]]
  /\ work' = [work EXCEPT !.changed = @ \ {n}]

\* SinkRemove from the surface it was routed to, then SinkAdd.
ChangedOne(n) ==
  /\ work.removed = {} /\ n \in work.changed
  /\ proxies' = WithTool(WithoutTool(n), n, work.view[n])
  /\ routed' = [routed EXCEPT ![n] = work.view[n].surface]
  /\ applied' = [applied EXCEPT ![n] = work.view[n]]
  /\ work' = [work EXCEPT !.changed = @ \ {n}]

AddedOne(n) ==
  /\ work.removed = {} /\ work.changed = {} /\ n \in work.added
  /\ proxies' = WithTool(proxies, n, work.view[n])
  /\ routed' = [routed EXCEPT ![n] = work.view[n].surface]
  /\ applied' = [applied EXCEPT ![n] = work.view[n]]
  /\ work' = [work EXCEPT !.added = @ \ {n}]

ToggledOne(n) ==
  /\ work.removed = {} /\ work.changed = {} /\ work.added = {} /\ n \in work.toggled
  /\ proxies' = [s \in Surfaces |->
       IF routed[n] \in {s, "none"} /\ proxies[s][n] # Absent
       THEN [proxies[s] EXCEPT ![n].visible = work.view[n].visible] ELSE proxies[s]]
  /\ applied' = [applied EXCEPT ![n].visible = work.view[n].visible]
  /\ work' = [work EXCEPT !.toggled = @ \ {n}]
  /\ UNCHANGED routed

\* One entry of the diff: removed, then changed, then added, then toggled.
ApplyOne ==
  /\ \E n \in Names : RemovedOne(n) \/ ChangedOne(n) \/ AddedOne(n) \/ ToggledOne(n)
  /\ UNCHANGED <<registryVars, gameVars, linkVars, last, newest, faults>>

AppliedAll ==
  /\ work # Idle
  /\ work.removed = {} /\ work.changed = {} /\ work.added = {} /\ work.toggled = {}
  /\ last' = work.rev /\ work' = Idle
  /\ UNCHANGED <<registryVars, gameVars, linkVars, applied, proxies, routed, newest, faults>>

\* A sink throws: ReadLoopAsync ends, and with it the connection.  By then the tool that
\* was being removed, for good or to be changed, is no longer routed; it may still be on
\* its surface or gone from it, and it is still in Applied.
SinkThrows ==
  /\ work # Idle /\ faults < MaxFaults /\ faults' = faults + 1
  /\ \/ UNCHANGED <<proxies, routed>>
     \/ \E n \in work.removed \cup work.changed :
          /\ n \in work.removed \/ work.removed = {}
          /\ proxies' \in {proxies, WithoutTool(n)} /\ routed' = [routed EXCEPT ![n] = "none"]
  /\ work' = Idle /\ last' = -1
  /\ link' = "closed" /\ channel' = <<>>
  /\ UNCHANGED <<registryVars, gameVars, links, applied, newest>>

Sidecar == ApplyManifest \/ ApplyOne \/ AppliedAll \/ SinkThrows

Next == GameThread \/ Link \/ Sidecar

Spec == Init /\ [][Next]_vars

--------------------------------------------------------------------------------
(* Properties.                                                             *)

Served(s, n) == IF proxies[s][n] = Absent THEN Absent ELSE [proxies[s][n] EXCEPT !.surface = s]

Quiet == gpc = "idle" /\ link = "ready" /\ channel = <<>> /\ work = Idle

\* Once nothing is under way, the client sees exactly what the editor promises, on the
\* right surface, whatever rebuilds, pushes, handshakes and lost links came before; a
\* sink that threw may have left a tool out, never a wrong one.
QuietMirrors ==
  Quiet => \A n \in Names, s \in Surfaces :
    \/ Served(s, n) = IF Promised[n] # Absent /\ Promised[n].surface = s THEN Promised[n] ELSE Absent
    \/ faults > 0 /\ Served(s, n) = Absent

\* At every moment a tool is on its own surface only, and Applied has it as it is there;
\* the sink remembers which surface, or, after a throw, none, and then clears both: so
\* the next difference can remove it.
NoStrayProxy ==
  \A n \in Names, s \in Surfaces : proxies[s][n] # Absent =>
    /\ proxies[s][n] = applied[n] /\ applied[n].surface = s
    /\ routed[n] = s \/ (routed[n] = "none" /\ faults > 0)

\* No manifest is applied after a newer one, on this connection or on the next.
NeverOlder == [][newest' >= newest]_vars

\* A built-in tool is in the registry at every moment of a rebuild, and is never an
\* extension's: no manifest can be built without it.
CoreAlwaysThere ==
  \A n \in CoreNames : entries[n] # Absent /\ entries[n].ext = CoreId

================================================================================
