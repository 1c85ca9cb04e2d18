--------------------------- MODULE ManifestSyncProofs ---------------------------
(***************************************************************************)
(* The safety of ManifestSync for any names, providers, changes and faults: *)
(* the types, the built-in tools, the order of the revisions, and the      *)
(* sidecar's proxies.  Then what they add up to: once nothing is under     *)
(* way, the client sees what the editor promises.                          *)
(***************************************************************************)
EXTENDS ManifestSync, SequenceTheorems, WellFoundedInduction, TLAPS

(* A rebuild visits features.                                              *)
LEMMA VisitedIsTyped ==
  ASSUME NEW fs \in Seq([provider : Providers, surface : Surfaces]), NEW off
  PROVE  Visited(fs, off) \subseteq [provider : Providers, surface : Surfaces]
<1> SUFFICES ASSUME NEW f \in Visited(fs, off) PROVE f \in [provider : Providers, surface : Surfaces]
  OBVIOUS
<1>1. PICK i \in DOMAIN fs : f = fs[i]
  BY DEF Visited
<1>2. i \in 1 .. Len(fs)
  BY LenProperties
<1> QED
  BY <1>1, <1>2, ElementOfSeq

(* What the sources promise is a view.                                     *)
LEMMA PromisedIsView == ASSUME features \in Seq([provider : Providers, surface : Surfaces]) PROVE Promised \in View
<1> DEFINE V == Visited(features, disabled)
           W(n) == {f \in V : n \in Offers[f.provider] /\
                       \A g \in V : n \in Offers[g.provider] => IdOf[f.provider] <= IdOf[g.provider]}
           P(n) == IF n \in CoreNames THEN [ext |-> CoreId, surface |-> "system", visible |-> n \notin hidden]
                   ELSE IF W(n) = {} THEN Absent
                   ELSE LET f == CHOOSE f \in W(n) : TRUE
                        IN  [ext |-> IdOf[f.provider], surface |-> f.surface, visible |-> n \notin hidden]
<1>1. V \subseteq [provider : Providers, surface : Surfaces]
  BY VisitedIsTyped
<1>2. ASSUME NEW n \in Names PROVE P(n) \in Desc
  <2>1. CASE n \in CoreNames
    BY <2>1 DEF Desc, Surfaces
  <2>2. CASE n \notin CoreNames /\ W(n) = {}
    BY <2>2 DEF Desc
  <2>3. CASE n \notin CoreNames /\ W(n) # {}
    <3> DEFINE f == CHOOSE f \in W(n) : TRUE
    <3>1. f \in W(n)
      BY <2>3
    <3>2. f \in [provider : Providers, surface : Surfaces]
      BY <3>1, <1>1
    <3>3. IdOf[f.provider] \in Ids /\ f.surface \in Surfaces
      BY <3>2 DEF Ids
    <3> HIDE DEF f
    <3>4. P(n) = [ext |-> IdOf[f.provider], surface |-> f.surface, visible |-> n \notin hidden]
      BY <2>3 DEF f
    <3> QED
      BY <3>3, <3>4 DEF Desc
  <2> QED
    BY <2>1, <2>2, <2>3
<1>3. Promised = [n \in Names |-> P(n)]
  BY DEF Promised
<1> QED
  BY <1>2, <1>3 DEF View

(* The types of the registry and of the game thread.                        *)
RegistryOK ==
  /\ features \in Seq([provider : Providers, surface : Surfaces])
  /\ todo \subseteq [provider : Providers, surface : Surfaces]
  /\ disabled \subseteq Ids /\ hidden \subseteq Names /\ registered \subseteq Ids
  /\ entries \in View /\ revision \in Nat
  /\ gpc \in {"idle", "clear", "register", "push", "write"}

(* A sequence without one of its elements is a sequence of such elements.  *)
LEMMA RemovalIsSeq ==
  ASSUME NEW S, NEW s \in Seq(S), NEW i \in 1 .. Len(s)
  PROVE  RemoveAt(s, i) \in Seq(S)
<1>1. Len(s) \in Nat /\ \A j \in 1 .. Len(s) : s[j] \in S
  BY LenProperties, ElementOfSeq
<1>2. SubSeq(s, 1, i - 1) \in Seq(S)
  BY <1>1, SubSeqProperties
<1>3. SubSeq(s, i + 1, Len(s)) \in Seq(S)
  BY <1>1, SubSeqProperties
<1> QED
  BY <1>2, <1>3, ConcatProperties DEF RemoveAt

(* A module that comes or goes leaves a sequence of features.              *)
LEMMA FeatureIsSeq ==
  ASSUME features \in Seq([provider : Providers, surface : Surfaces]), FeatureChange
  PROVE  features' \in Seq([provider : Providers, surface : Surfaces])
<1>1. CASE \E p \in Providers, s \in Surfaces : features' = Append(features, [provider |-> p, surface |-> s])
  BY <1>1
<1>2. CASE \E i \in DOMAIN features : features' = RemoveAt(features, i)
  <2>1. PICK i \in 1 .. Len(features) : features' = RemoveAt(features, i)
    BY <1>2, LenProperties
  <2> QED
    BY <2>1, RemovalIsSeq
<1> QED
  BY <1>1, <1>2 DEF FeatureChange

LEMMA RegistryCorrect == Spec => []RegistryOK
<1> USE DEF RegistryOK, registryVars, gameVars, linkVars, sidecarVars
<1>1. Init => RegistryOK
  <2> SUFFICES ASSUME Init PROVE RegistryOK
    OBVIOUS
  <2>1. features \in Seq([provider : Providers, surface : Surfaces])
    BY ProvidersAssumption DEF Init
  <2>2. Visited(features, disabled) \subseteq [provider : Providers, surface : Surfaces]
    BY <2>1, VisitedIsTyped
  <2> QED
    BY <2>1, <2>2, PromisedIsView DEF Init, Ids
<1>2. RegistryOK /\ [Next]_vars => RegistryOK'
  <2> SUFFICES ASSUME RegistryOK, [Next]_vars PROVE RegistryOK'
    OBVIOUS
  <2>1. CASE ModuleChange
    BY <2>1, FeatureIsSeq DEF ModuleChange
  <2>2. CASE RebuildClears
    BY <2>2 DEF RebuildClears, Becomes, View, Desc
  <2>3. CASE RebuildSorts
    BY <2>3, VisitedIsTyped DEF RebuildSorts
  <2>4. CASE RegisterExtension
    <3> PICK f \in todo : /\ todo' = todo \ {f} /\ Becomes(Committed(entries, f))
                          /\ registered' = registered \cup {IdOf[f.provider]}
      BY <2>4 DEF RegisterExtension
    <3>1. IdOf[f.provider] \in Ids /\ f.surface \in Surfaces
      BY DEF Ids
    <3>2. Committed(entries, f) \in View
      BY <3>1 DEF Committed, View, Desc
    <3>3. features' \in Seq([provider : Providers, surface : Surfaces])
      BY <2>4, FeatureIsSeq DEF RegisterExtension
    <3> QED
      BY <2>4, <3>1, <3>2, <3>3 DEF RegisterExtension, Becomes
  <2>5. CASE RebuildNotifies
    BY <2>5 DEF RebuildNotifies
  <2>6. CASE PushManifest
    BY <2>6 DEF PushManifest, PushDone
  <2>7. CASE PushWrites
    BY <2>7 DEF PushWrites, PushDone, SendManifestLocked
  <2>8. ASSUME NEW e \in Ids, SetExtensionEnabled(e) PROVE RegistryOK'
    BY <2>8 DEF SetExtensionEnabled
  <2>9. ASSUME NEW n \in Names, ApplyHiddenTools(n) PROVE RegistryOK'
    <3> DEFINE E == [m \in Names |-> IF entries[m] = Absent THEN Absent
                                    ELSE [entries[m] EXCEPT !.visible = m \notin hidden']]
    <3>1. E \in View
      BY DEF View, Desc
    <3> QED
      BY <2>9, <3>1 DEF ApplyHiddenTools, Becomes
  <2>10. CASE Dial
    BY <2>10 DEF Dial
  <2>11. CASE HandshakeOk
    BY <2>11 DEF HandshakeOk
  <2>12. CASE HandshakeManifest
    BY <2>12 DEF HandshakeManifest, SendManifestLocked
  <2>13. CASE PluginDrops
    BY <2>13 DEF PluginDrops
  <2>14. CASE ConnectionEnds
    BY <2>14 DEF ConnectionEnds
  <2>15. CASE ApplyManifest
    BY <2>15 DEF ApplyManifest
  <2>16. ASSUME NEW n \in Names, RemovedOne(n), UNCHANGED <<registryVars, gameVars, linkVars, last, newest, faults>> PROVE RegistryOK'
    BY <2>16 DEF RemovedOne, WithoutTool
  <2>17. ASSUME NEW n \in Names, ChangedOne(n), UNCHANGED <<registryVars, gameVars, linkVars, last, newest, faults>> PROVE RegistryOK'
    BY <2>17 DEF ChangedOne, WithTool, WithoutTool
  <2>18. ASSUME NEW n \in Names, AddedOne(n), UNCHANGED <<registryVars, gameVars, linkVars, last, newest, faults>> PROVE RegistryOK'
    BY <2>18 DEF AddedOne, WithTool
  <2>19. ASSUME NEW n \in Names, ToggledOne(n), UNCHANGED <<registryVars, gameVars, linkVars, last, newest, faults>> PROVE RegistryOK'
    BY <2>19 DEF ToggledOne
  <2>20. CASE AppliedAll
    BY <2>20 DEF AppliedAll
  <2>21. CASE SinkThrows
    BY <2>21 DEF SinkThrows, WithoutTool
  <2>22. CASE UNCHANGED vars
    BY <2>22 DEF vars
  <2> QED
    BY <2>1, <2>2, <2>3, <2>4, <2>5, <2>6, <2>7, <2>8, <2>9, <2>10, <2>11, <2>12, <2>13, <2>14, <2>15, <2>16, <2>17, <2>18, <2>19, <2>20, <2>21, <2>22
    DEF Next, GameThread, Link, Sidecar, ApplyOne
<1> QED
  BY <1>1, <1>2, PTL DEF Spec

(* The flag of a deferred rebuild.                                         *)
FlagOK == pending \in BOOLEAN

LEMMA FlagCorrect == Spec => []FlagOK
<1> USE DEF FlagOK, registryVars, gameVars, linkVars, sidecarVars
<1>1. Init => FlagOK
  BY DEF Init
<1>2. FlagOK /\ [Next]_vars => FlagOK'
  <2> SUFFICES ASSUME FlagOK, [Next]_vars PROVE FlagOK'
    OBVIOUS
  <2>1. CASE ModuleChange
    BY <2>1 DEF ModuleChange, FeatureChange
  <2>2. CASE RebuildClears
    BY <2>2 DEF RebuildClears, Becomes
  <2>3. CASE RebuildSorts
    BY <2>3 DEF RebuildSorts
  <2>4. CASE RegisterExtension
    BY <2>4 DEF RegisterExtension, Becomes, Committed, FeatureChange
  <2>5. CASE RebuildNotifies
    BY <2>5 DEF RebuildNotifies
  <2>6. CASE PushManifest
    BY <2>6 DEF PushManifest, PushDone
  <2>7. CASE PushWrites
    BY <2>7 DEF PushWrites, PushDone, SendManifestLocked
  <2>8. ASSUME NEW e \in Ids, SetExtensionEnabled(e) PROVE FlagOK'
    BY <2>8 DEF SetExtensionEnabled
  <2>9. ASSUME NEW n \in Names, ApplyHiddenTools(n) PROVE FlagOK'
    BY <2>9 DEF ApplyHiddenTools, Becomes
  <2>10. CASE Dial
    BY <2>10 DEF Dial
  <2>11. CASE HandshakeOk
    BY <2>11 DEF HandshakeOk
  <2>12. CASE HandshakeManifest
    BY <2>12 DEF HandshakeManifest, SendManifestLocked
  <2>13. CASE PluginDrops
    BY <2>13 DEF PluginDrops
  <2>14. CASE ConnectionEnds
    BY <2>14 DEF ConnectionEnds
  <2>15. CASE ApplyManifest
    BY <2>15 DEF ApplyManifest
  <2>16. ASSUME NEW n \in Names, RemovedOne(n), UNCHANGED <<registryVars, gameVars, linkVars, last, newest, faults>> PROVE FlagOK'
    BY <2>16 DEF RemovedOne, WithoutTool
  <2>17. ASSUME NEW n \in Names, ChangedOne(n), UNCHANGED <<registryVars, gameVars, linkVars, last, newest, faults>> PROVE FlagOK'
    BY <2>17 DEF ChangedOne, WithTool, WithoutTool
  <2>18. ASSUME NEW n \in Names, AddedOne(n), UNCHANGED <<registryVars, gameVars, linkVars, last, newest, faults>> PROVE FlagOK'
    BY <2>18 DEF AddedOne, WithTool
  <2>19. ASSUME NEW n \in Names, ToggledOne(n), UNCHANGED <<registryVars, gameVars, linkVars, last, newest, faults>> PROVE FlagOK'
    BY <2>19 DEF ToggledOne
  <2>20. CASE AppliedAll
    BY <2>20 DEF AppliedAll
  <2>21. CASE SinkThrows
    BY <2>21 DEF SinkThrows, WithoutTool
  <2>22. CASE UNCHANGED vars
    BY <2>22 DEF vars
  <2> QED
    BY <2>1, <2>2, <2>3, <2>4, <2>5, <2>6, <2>7, <2>8, <2>9, <2>10, <2>11, <2>12, <2>13, <2>14, <2>15, <2>16, <2>17, <2>18, <2>19, <2>20, <2>21, <2>22
    DEF Next, GameThread, Link, Sidecar, ApplyOne
<1> QED
  BY <1>1, <1>2, PTL DEF Spec

(* The link's types.                                                       *)
LinkOK ==
  /\ link \in {"closed", "dialed", "ok", "ready", "dropped"}
  /\ channel \in Seq([rev : Nat, view : View])

LEMMA LinkCorrect == Spec => []LinkOK
<1> USE DEF LinkOK, RegistryOK, registryVars, gameVars, linkVars, sidecarVars
<1>1. Init => LinkOK
  BY DEF Init
<1>2. LinkOK /\ RegistryOK /\ RegistryOK' /\ [Next]_vars => LinkOK'
  <2> SUFFICES ASSUME LinkOK, RegistryOK, RegistryOK', [Next]_vars PROVE LinkOK'
    OBVIOUS
  <2>1. CASE ModuleChange
    BY <2>1 DEF ModuleChange, FeatureChange
  <2>2. CASE RebuildClears
    BY <2>2 DEF RebuildClears, Becomes
  <2>3. CASE RebuildSorts
    BY <2>3 DEF RebuildSorts
  <2>4. CASE RegisterExtension
    BY <2>4 DEF RegisterExtension, Becomes, Committed, FeatureChange
  <2>5. CASE RebuildNotifies
    BY <2>5 DEF RebuildNotifies
  <2>6. CASE PushManifest
    BY <2>6 DEF PushManifest, PushDone
  <2>7. CASE PushWrites
    <3>1. channel' \in Seq([rev : Nat, view : View])
      <4>1. [rev |-> revision, view |-> entries] \in [rev : Nat, view : View]
        OBVIOUS
      <4>2. channel' = channel \/ channel' = Append(channel, [rev |-> revision, view |-> entries])
        BY <2>7 DEF PushWrites, SendManifestLocked
      <4>3. Append(channel, [rev |-> revision, view |-> entries]) \in Seq([rev : Nat, view : View])
        BY <4>1, AppendProperties
      <4> QED
        BY <4>2, <4>3
    <3>2. link' = link
      BY <2>7 DEF PushWrites
    <3> QED
      BY <3>1, <3>2
  <2>8. ASSUME NEW e \in Ids, SetExtensionEnabled(e) PROVE LinkOK'
    BY <2>8 DEF SetExtensionEnabled
  <2>9. ASSUME NEW n \in Names, ApplyHiddenTools(n) PROVE LinkOK'
    BY <2>9 DEF ApplyHiddenTools, Becomes
  <2>10. CASE Dial
    BY <2>10 DEF Dial
  <2>11. CASE HandshakeOk
    BY <2>11 DEF HandshakeOk
  <2>12. CASE HandshakeManifest
    BY <2>12 DEF HandshakeManifest, SendManifestLocked
  <2>13. CASE PluginDrops
    BY <2>13 DEF PluginDrops
  <2>14. CASE ConnectionEnds
    BY <2>14 DEF ConnectionEnds
  <2>15. CASE ApplyManifest
    BY <2>15 DEF ApplyManifest
  <2>16. ASSUME NEW n \in Names, RemovedOne(n), UNCHANGED <<registryVars, gameVars, linkVars, last, newest, faults>> PROVE LinkOK'
    BY <2>16 DEF RemovedOne, WithoutTool
  <2>17. ASSUME NEW n \in Names, ChangedOne(n), UNCHANGED <<registryVars, gameVars, linkVars, last, newest, faults>> PROVE LinkOK'
    BY <2>17 DEF ChangedOne, WithTool, WithoutTool
  <2>18. ASSUME NEW n \in Names, AddedOne(n), UNCHANGED <<registryVars, gameVars, linkVars, last, newest, faults>> PROVE LinkOK'
    BY <2>18 DEF AddedOne, WithTool
  <2>19. ASSUME NEW n \in Names, ToggledOne(n), UNCHANGED <<registryVars, gameVars, linkVars, last, newest, faults>> PROVE LinkOK'
    BY <2>19 DEF ToggledOne
  <2>20. CASE AppliedAll
    BY <2>20 DEF AppliedAll
  <2>21. CASE SinkThrows
    BY <2>21 DEF SinkThrows, WithoutTool
  <2>22. CASE UNCHANGED vars
    BY <2>22 DEF vars
  <2> QED
    BY <2>1, <2>2, <2>3, <2>4, <2>5, <2>6, <2>7, <2>8, <2>9, <2>10, <2>11, <2>12, <2>13, <2>14, <2>15, <2>16, <2>17, <2>18, <2>19, <2>20, <2>21, <2>22
    DEF Next, GameThread, Link, Sidecar, ApplyOne
<1> QED
  BY <1>1, <1>2, RegistryCorrect, PTL DEF Spec


WorkOK ==
  /\ work \in [rev : Int, view : View, removed : SUBSET Names, changed : SUBSET Names,
               added : SUBSET Names, toggled : SUBSET Names]
  /\ applied \in View /\ proxies \in [Surfaces -> View] /\ routed \in [Names -> Surfaces \cup {"none"}]

(* The types of the sidecar's side.                                        *)
WorkInv ==
  /\ WorkOK
  /\ \A n \in work.removed : work.view[n] = Absent
  /\ \A n \in work.changed : applied[n] # Absent /\ work.view[n] # Absent
  /\ \A n \in work.added : applied[n] = Absent /\ work.view[n] # Absent
  /\ \A n \in work.toggled : applied[n] # Absent /\ work.view[n] # Absent /\ n \notin work.changed

(* Removing a tool leaves two views.                                       *)
LEMMA RemovalIsTyped == ASSUME proxies \in [Surfaces -> View], NEW n \in Names PROVE WithoutTool(n) \in [Surfaces -> View]
  BY DEF WithoutTool, View, Desc

LEMMA WorkCorrect == Spec => []WorkInv
<1> USE DEF WorkInv, WorkOK, LinkOK, registryVars, gameVars, linkVars, sidecarVars
<1>1. Init => WorkInv
  BY DEF Init, Idle, View, Desc, WorkInv
<1>2. WorkInv /\ RegistryOK /\ LinkOK /\ RegistryOK' /\ LinkOK' /\ [Next]_vars => WorkInv'
  <2> SUFFICES ASSUME WorkInv, RegistryOK, LinkOK, RegistryOK', LinkOK', [Next]_vars PROVE WorkInv'
    OBVIOUS
  <2>1. CASE ModuleChange
    BY <2>1 DEF ModuleChange, FeatureChange
  <2>2. CASE RebuildClears
    BY <2>2 DEF RebuildClears, Becomes
  <2>3. CASE RebuildSorts
    BY <2>3 DEF RebuildSorts
  <2>4. CASE RegisterExtension
    BY <2>4 DEF RegisterExtension, Becomes, Committed, FeatureChange
  <2>5. CASE RebuildNotifies
    BY <2>5 DEF RebuildNotifies
  <2>6. CASE PushManifest
    BY <2>6 DEF PushManifest, PushDone
  <2>7. CASE PushWrites
    BY <2>7 DEF PushWrites, PushDone, SendManifestLocked
  <2>8. ASSUME NEW e \in Ids, SetExtensionEnabled(e) PROVE WorkInv'
    BY <2>8 DEF SetExtensionEnabled
  <2>9. ASSUME NEW n \in Names, ApplyHiddenTools(n) PROVE WorkInv'
    BY <2>9 DEF ApplyHiddenTools, Becomes
  <2>10. CASE Dial
    BY <2>10 DEF Dial
  <2>11. CASE HandshakeOk
    BY <2>11 DEF HandshakeOk
  <2>12. CASE HandshakeManifest
    BY <2>12 DEF HandshakeManifest, SendManifestLocked
  <2>13. CASE PluginDrops
    BY <2>13 DEF PluginDrops
  <2>14. CASE ConnectionEnds
    BY <2>14 DEF ConnectionEnds
  <2>15. CASE ApplyManifest
    <3>1. Head(channel) \in [rev : Nat, view : View]
      <4>1. channel \in Seq([rev : Nat, view : View]) /\ channel # <<>>
        BY <2>15 DEF ApplyManifest
      <4> QED
        BY <4>1, HeadTailProperties
    <3>2. CASE Head(channel).rev <= last
      BY <2>15, <3>2 DEF ApplyManifest, WorkInv
    <3>3. CASE ~(Head(channel).rev <= last)
      <4> DEFINE m == Head(channel)
                 kept == {n \in Names : m.view[n] # Absent /\ applied[n] # Absent}
      <4>1. work' = [rev |-> m.rev, view |-> m.view,
                     removed |-> {n \in Names : applied[n] # Absent /\ m.view[n] = Absent},
                     changed |-> {n \in kept : Schema(m.view[n]) # Schema(applied[n])},
                     added   |-> {n \in Names : applied[n] = Absent /\ m.view[n] # Absent},
                     toggled |-> {n \in kept : /\ Schema(m.view[n]) = Schema(applied[n])
                                               /\ m.view[n].visible # applied[n].visible}]
        BY <2>15, <3>3 DEF ApplyManifest
      <4>2. m.rev \in Int /\ m.view \in View
        BY <3>1
      <4> HIDE DEF m
      <4>3. work' \in [rev : Int, view : View, removed : SUBSET Names, changed : SUBSET Names,
                       added : SUBSET Names, toggled : SUBSET Names]
        BY <4>1, <4>2
      <4>4. /\ \A n \in work'.removed : work'.view[n] = Absent
            /\ \A n \in work'.changed : applied[n] # Absent /\ work'.view[n] # Absent
            /\ \A n \in work'.added : applied[n] = Absent /\ work'.view[n] # Absent
            /\ \A n \in work'.toggled : applied[n] # Absent /\ work'.view[n] # Absent /\ n \notin work'.changed
        BY <4>1
      <4>5. UNCHANGED <<applied, proxies, routed>>
        BY <2>15 DEF ApplyManifest
      <4>6. WorkOK'
        BY <4>3, <4>5 DEF WorkInv
      <4> QED
        BY <4>4, <4>5, <4>6 DEF WorkInv
    <3> QED
      BY <3>2, <3>3
  <2>16. ASSUME NEW n \in Names, RemovedOne(n), UNCHANGED <<registryVars, gameVars, linkVars, last, newest, faults>> PROVE WorkInv'
    <3>8. WorkOK'
      BY <2>16, RemovalIsTyped DEF RemovedOne, View, Desc, WorkInv
    <3>9. /\ \A m \in work'.removed : work'.view[m] = Absent
          /\ \A m \in work'.changed : applied'[m] # Absent /\ work'.view[m] # Absent
          /\ \A m \in work'.added : applied'[m] = Absent /\ work'.view[m] # Absent
          /\ \A m \in work'.toggled : applied'[m] # Absent /\ work'.view[m] # Absent /\ m \notin work'.changed
      BY <2>16 DEF RemovedOne, WorkInv, View
    <3> QED
      BY <3>8, <3>9 DEF WorkInv
  <2>17. ASSUME NEW n \in Names, ChangedOne(n), UNCHANGED <<registryVars, gameVars, linkVars, last, newest, faults>> PROVE WorkInv'
    <3> DEFINE d == work.view[n]
    <3>1. d \in Desc /\ n \in work.changed
      BY <2>17 DEF ChangedOne, View, WorkInv
    <3>2. d.surface \in Surfaces
      BY <3>1, <2>17 DEF WorkInv, Desc
    <3>3. WithTool(WithoutTool(n), n, d) \in [Surfaces -> View]
      BY <3>1, <3>2, RemovalIsTyped DEF WithTool, View, WorkInv
    <3>8. WorkOK'
      BY <2>17, <3>1, <3>2, <3>3 DEF ChangedOne, View, WorkInv
    <3>9. /\ \A m \in work'.removed : work'.view[m] = Absent
          /\ \A m \in work'.changed : applied'[m] # Absent /\ work'.view[m] # Absent
          /\ \A m \in work'.added : applied'[m] = Absent /\ work'.view[m] # Absent
          /\ \A m \in work'.toggled : applied'[m] # Absent /\ work'.view[m] # Absent /\ m \notin work'.changed
      BY <2>17 DEF ChangedOne, WorkInv, View
    <3> QED
      BY <3>8, <3>9 DEF WorkInv
  <2>18. ASSUME NEW n \in Names, AddedOne(n), UNCHANGED <<registryVars, gameVars, linkVars, last, newest, faults>> PROVE WorkInv'
    <3> DEFINE d == work.view[n]
    <3>1. d \in Desc /\ n \in work.added
      BY <2>18 DEF AddedOne, View, WorkInv
    <3>2. d.surface \in Surfaces
      BY <3>1, <2>18 DEF WorkInv, Desc
    <3>3. WithTool(proxies, n, d) \in [Surfaces -> View]
      BY <3>1, <3>2 DEF WithTool, View, WorkInv
    <3>8. WorkOK'
      BY <2>18, <3>1, <3>2, <3>3 DEF AddedOne, View, WorkInv
    <3>9. /\ \A m \in work'.removed : work'.view[m] = Absent
          /\ \A m \in work'.changed : applied'[m] # Absent /\ work'.view[m] # Absent
          /\ \A m \in work'.added : applied'[m] = Absent /\ work'.view[m] # Absent
          /\ \A m \in work'.toggled : applied'[m] # Absent /\ work'.view[m] # Absent /\ m \notin work'.changed
      BY <2>18 DEF AddedOne, WorkInv, View
    <3> QED
      BY <3>8, <3>9 DEF WorkInv
  <2>19. ASSUME NEW n \in Names, ToggledOne(n), UNCHANGED <<registryVars, gameVars, linkVars, last, newest, faults>> PROVE WorkInv'
    <3> DEFINE b == work.view[n].visible
    <3>1. b \in BOOLEAN
      <4>1. work.view[n] \in Desc
        BY <2>19 DEF ToggledOne, View
      <4>2. ASSUME NEW d \in Desc PROVE d.visible \in BOOLEAN
        <5>1. CASE d = Absent
          BY <5>1 DEF Absent
        <5>2. CASE d \in [ext : Ids \cup {CoreId}, surface : Surfaces, visible : BOOLEAN]
          BY <5>2
        <5> QED
          BY <5>1, <5>2 DEF Desc
      <4> QED
        BY <4>1, <4>2
    <3>2. ASSUME NEW d \in Desc, d # Absent PROVE [d EXCEPT !.visible = b] \in Desc
      BY <3>1, <3>2 DEF Desc
    <3>3. proxies' \in [Surfaces -> View]
      <4> SUFFICES ASSUME NEW s \in Surfaces PROVE proxies'[s] \in View
        BY <2>19 DEF ToggledOne
      <4>1. CASE proxies'[s] = proxies[s]
        BY <4>1
      <4>2. CASE proxies[s][n] # Absent /\ proxies'[s] = [proxies[s] EXCEPT ![n].visible = b]
        BY <3>2, <4>2 DEF View
      <4> QED
        BY <2>19, <4>1, <4>2 DEF ToggledOne
    <3>4. applied' \in View
      BY <2>19, <3>2 DEF ToggledOne, View, WorkInv
    <3>8. WorkOK'
      BY <2>19, <3>3, <3>4 DEF ToggledOne, WorkInv
    <3>9. /\ \A m \in work'.removed : work'.view[m] = Absent
          /\ \A m \in work'.changed : applied'[m] # Absent /\ work'.view[m] # Absent
          /\ \A m \in work'.added : applied'[m] = Absent /\ work'.view[m] # Absent
          /\ \A m \in work'.toggled : applied'[m] # Absent /\ work'.view[m] # Absent /\ m \notin work'.changed
      BY <2>19 DEF ToggledOne, WorkInv, View
    <3> QED
      BY <3>8, <3>9 DEF WorkInv
  <2>20. CASE AppliedAll
    BY <2>20 DEF AppliedAll, Idle, View, Desc, WorkInv
  <2>21. CASE SinkThrows
    <3>1. work' = Idle /\ UNCHANGED applied
      BY <2>21 DEF SinkThrows
    <3>2. CASE UNCHANGED <<proxies, routed>>
      BY <3>1, <3>2 DEF Idle, View, Desc
    <3>3. CASE \E n \in Names : proxies' \in {proxies, WithoutTool(n)} /\ routed' = [routed EXCEPT ![n] = "none"]
      <4>1. PICK n \in Names : proxies' \in {proxies, WithoutTool(n)} /\ routed' = [routed EXCEPT ![n] = "none"]
        BY <3>3
      <4>2. proxies' \in [Surfaces -> View] /\ routed' \in [Names -> Surfaces \cup {"none"}]
        BY <4>1, RemovalIsTyped
      <4> QED
        BY <3>1, <4>2 DEF Idle, View, Desc
    <3> QED
      BY <2>21, <3>2, <3>3 DEF SinkThrows
  <2>22. CASE UNCHANGED vars
    BY <2>22 DEF vars
  <2> QED
    BY <2>1, <2>2, <2>3, <2>4, <2>5, <2>6, <2>7, <2>8, <2>9, <2>10, <2>11, <2>12, <2>13, <2>14, <2>15, <2>16, <2>17, <2>18, <2>19, <2>20, <2>21, <2>22
    DEF Next, GameThread, Link, Sidecar, ApplyOne
<1> QED
  BY <1>1, <1>2, RegistryCorrect, LinkCorrect, PTL DEF Spec

(* A rebuild in progress holds no extension with the reserved id.          *)
CoreInv ==
  /\ CoreAlwaysThere
  /\ CoreId \notin registered
  /\ \A f \in todo : IdOf[f.provider] # CoreId

LEMMA CoreCorrect == Spec => []CoreInv
<1> USE DEF CoreInv, CoreAlwaysThere, CoreId, Absent, registryVars, gameVars, linkVars, sidecarVars
<1>1. Init => CoreInv
  <2> SUFFICES ASSUME Init PROVE CoreInv
    OBVIOUS
  <2>1. CoreId \notin registered
    BY DEF Init, Visited
  <2>2. ASSUME NEW n \in CoreNames PROVE entries[n] = [ext |-> CoreId, surface |-> "system", visible |-> n \notin hidden]
    BY ProvidersAssumption DEF Init, Promised
  <2> QED
    BY <2>1, <2>2 DEF Init
<1>2. CoreInv /\ RegistryOK /\ RegistryOK' /\ [Next]_vars => CoreInv'
  <2> SUFFICES ASSUME CoreInv, RegistryOK, RegistryOK', [Next]_vars PROVE CoreInv'
    OBVIOUS
  <2>1. CASE ModuleChange
    BY <2>1, ProvidersAssumption DEF ModuleChange, FeatureChange
  <2>2. CASE RebuildClears
    BY <2>2, ProvidersAssumption DEF RebuildClears, Becomes
  <2>3. CASE RebuildSorts
    BY <2>3 DEF RebuildSorts, Visited
  <2>4. CASE RegisterExtension
    BY <2>4, ProvidersAssumption DEF RegisterExtension, Becomes, Committed, FeatureChange
  <2>5. CASE RebuildNotifies
    BY <2>5, ProvidersAssumption DEF RebuildNotifies
  <2>6. CASE PushManifest
    BY <2>6, ProvidersAssumption DEF PushManifest, PushDone
  <2>7. CASE PushWrites
    BY <2>7, ProvidersAssumption DEF PushWrites, PushDone, SendManifestLocked
  <2>8. ASSUME NEW e \in Ids, SetExtensionEnabled(e) PROVE CoreInv'
    BY <2>8, ProvidersAssumption DEF SetExtensionEnabled
  <2>9. ASSUME NEW n \in Names, ApplyHiddenTools(n) PROVE CoreInv'
    BY <2>9, ProvidersAssumption DEF ApplyHiddenTools, Becomes
  <2>10. CASE Dial
    BY <2>10, ProvidersAssumption DEF Dial
  <2>11. CASE HandshakeOk
    BY <2>11, ProvidersAssumption DEF HandshakeOk
  <2>12. CASE HandshakeManifest
    BY <2>12, ProvidersAssumption DEF HandshakeManifest, SendManifestLocked
  <2>13. CASE PluginDrops
    BY <2>13, ProvidersAssumption DEF PluginDrops
  <2>14. CASE ConnectionEnds
    BY <2>14, ProvidersAssumption DEF ConnectionEnds
  <2>15. CASE ApplyManifest
    BY <2>15, ProvidersAssumption DEF ApplyManifest
  <2>16. ASSUME NEW n \in Names, RemovedOne(n), UNCHANGED <<registryVars, gameVars, linkVars, last, newest, faults>> PROVE CoreInv'
    BY <2>16, ProvidersAssumption DEF RemovedOne, WithoutTool
  <2>17. ASSUME NEW n \in Names, ChangedOne(n), UNCHANGED <<registryVars, gameVars, linkVars, last, newest, faults>> PROVE CoreInv'
    BY <2>17, ProvidersAssumption DEF ChangedOne, WithTool, WithoutTool
  <2>18. ASSUME NEW n \in Names, AddedOne(n), UNCHANGED <<registryVars, gameVars, linkVars, last, newest, faults>> PROVE CoreInv'
    BY <2>18, ProvidersAssumption DEF AddedOne, WithTool
  <2>19. ASSUME NEW n \in Names, ToggledOne(n), UNCHANGED <<registryVars, gameVars, linkVars, last, newest, faults>> PROVE CoreInv'
    BY <2>19, ProvidersAssumption DEF ToggledOne
  <2>20. CASE AppliedAll
    BY <2>20, ProvidersAssumption DEF AppliedAll
  <2>21. CASE SinkThrows
    BY <2>21, ProvidersAssumption DEF SinkThrows, WithoutTool
  <2>22. CASE UNCHANGED vars
    BY <2>22 DEF vars
  <2> QED
    BY <2>1, <2>2, <2>3, <2>4, <2>5, <2>6, <2>7, <2>8, <2>9, <2>10, <2>11, <2>12, <2>13, <2>14, <2>15, <2>16, <2>17, <2>18, <2>19, <2>20, <2>21, <2>22
    DEF Next, GameThread, Link, Sidecar, ApplyOne
<1> QED
  BY <1>1, <1>2, RegistryCorrect, PTL DEF Spec

(* A manifest in the channel has a revision.                              *)
LEMMA RevisionsOfChannel ==
  ASSUME LinkOK PROVE \A k \in 1 .. Len(channel) : channel[k].rev \in Nat
<1> SUFFICES ASSUME NEW k \in 1 .. Len(channel) PROVE channel[k].rev \in Nat
  OBVIOUS
<1>1. channel[k] \in [rev : Nat, view : View]
  BY ElementOfSeq DEF LinkOK
<1> QED
  BY <1>1

(* Revisions reach the sidecar in the order they were built.               *)
RevisionInv ==
  /\ newest \in -1 .. revision /\ last \in -1 .. newest /\ work.rev \in -1 .. newest
  /\ \A i \in 1 .. Len(channel) : newest <= channel[i].rev /\ channel[i].rev <= revision
  /\ \A i, j \in 1 .. Len(channel) : i <= j => channel[i].rev <= channel[j].rev

(* A revision that grows, and a manifest of the current one that is sent,  *)
(* keep that order.                                                        *)
LEMMA RevisionGrows ==
  ASSUME RevisionInv, LinkOK, revision \in Nat, revision' \in Nat, revision <= revision',
         UNCHANGED <<newest, last, work, channel>>
  PROVE  RevisionInv'
<1>1. \A k \in 1 .. Len(channel) : channel[k].rev \in Nat
  BY RevisionsOfChannel
<1>2. newest \in Int /\ last \in Int
  BY DEF RevisionInv
<1> QED
  BY <1>1, <1>2 DEF RevisionInv

LEMMA RevisionIsSent ==
  ASSUME RevisionInv, LinkOK, revision \in Nat, UNCHANGED <<revision, newest, last, work>>,
         channel' = Append(channel, [rev |-> revision, view |-> entries])
  PROVE  RevisionInv'
<1> DEFINE n == Len(channel)
<1>1. n \in Nat /\ \A k \in 1 .. n : channel[k].rev \in Nat
  BY RevisionsOfChannel DEF LinkOK
<1>2. newest \in Int /\ newest <= revision
  BY DEF RevisionInv
<1>3. /\ Len(channel') = n + 1 /\ channel'[n + 1].rev = revision
      /\ \A k \in 1 .. n : channel'[k] = channel[k]
  BY DEF LinkOK
<1> HIDE DEF n
<1>4. \A k \in 1 .. n + 1 : k \in 1 .. n \/ k = n + 1
  BY <1>1
<1>5. \A k \in 1 .. n : newest <= channel[k].rev /\ channel[k].rev <= revision
  BY DEF RevisionInv, n
<1>6. \A k, l \in 1 .. n : k <= l => channel[k].rev <= channel[l].rev
  BY DEF RevisionInv, n
<1>7. \A k \in 1 .. n + 1 : newest <= channel'[k].rev /\ channel'[k].rev <= revision
  BY <1>1, <1>2, <1>3, <1>4, <1>5
<1>8. \A k, l \in 1 .. n + 1 : k <= l => channel'[k].rev <= channel'[l].rev
  <2> SUFFICES ASSUME NEW k \in 1 .. n + 1, NEW l \in 1 .. n + 1, k <= l
               PROVE  channel'[k].rev <= channel'[l].rev
    OBVIOUS
  <2>1. CASE l \in 1 .. n
    BY <1>1, <1>3, <1>6, <2>1
  <2>2. CASE l = n + 1
    BY <1>3, <1>7, <2>2
  <2> QED
    BY <1>4, <2>1, <2>2
<1> QED
  BY <1>3, <1>7, <1>8 DEF RevisionInv

(* Taking the first manifest leaves none that is older than it.            *)
LEMMA RevisionIsTaken ==
  ASSUME RevisionInv, LinkOK, revision \in Nat, channel # <<>>, channel' = Tail(channel)
  PROVE  /\ channel[1].rev \in newest .. revision /\ Head(channel) = channel[1]
         /\ \A k \in 1 .. Len(channel') : channel[1].rev <= channel'[k].rev /\ channel'[k].rev <= revision
         /\ \A k, l \in 1 .. Len(channel') : k <= l => channel'[k].rev <= channel'[l].rev
<1> DEFINE n == Len(channel)
<1>1. n \in Nat \ {0} /\ Head(channel) = channel[1] /\ Len(channel') = n - 1
  BY DEF LinkOK
<1>2. \A k \in 1 .. n - 1 : channel'[k] = channel[k + 1]
  BY DEF LinkOK
<1>3. \A k \in 1 .. n : channel[k].rev \in Nat
  BY RevisionsOfChannel
<1>4. \A k \in 1 .. n : newest <= channel[k].rev /\ channel[k].rev <= revision
  BY DEF RevisionInv
<1>5. \A k, l \in 1 .. n : k <= l => channel[k].rev <= channel[l].rev
  BY DEF RevisionInv
<1>6. newest \in Int
  BY DEF RevisionInv
<1> HIDE DEF n
<1>7. 1 \in 1 .. n /\ \A k \in 1 .. n - 1 : k + 1 \in 1 .. n /\ 1 <= k + 1
  BY <1>1
<1>8. channel[1].rev \in newest .. revision
  BY <1>3, <1>4, <1>6, <1>7
<1>9. \A k \in 1 .. n - 1 : channel[1].rev <= channel'[k].rev /\ channel'[k].rev <= revision
  BY <1>2, <1>4, <1>5, <1>7
<1>10. \A k, l \in 1 .. n - 1 : k <= l => channel'[k].rev <= channel'[l].rev
  <2> SUFFICES ASSUME NEW k \in 1 .. n - 1, NEW l \in 1 .. n - 1, k <= l
               PROVE  channel[k + 1].rev <= channel[l + 1].rev
    BY <1>2
  <2>1. k + 1 <= l + 1
    BY <1>1
  <2> QED
    BY <1>5, <1>7, <2>1
<1> QED
  BY <1>1, <1>8, <1>9, <1>10

LEMMA RevisionsCorrect == Spec => []RevisionInv
<1> USE DEF RevisionInv, RegistryOK, LinkOK, WorkOK, WorkInv, registryVars, gameVars, linkVars, sidecarVars
<1>1. Init => RevisionInv
  BY DEF Init, Idle
<1>2. RevisionInv /\ RegistryOK /\ LinkOK /\ WorkInv /\ RegistryOK' /\ LinkOK' /\ WorkInv' /\ [Next]_vars => RevisionInv'
  <2> SUFFICES ASSUME RevisionInv, RegistryOK, LinkOK, WorkInv, RegistryOK', LinkOK', WorkInv', [Next]_vars PROVE RevisionInv'
    OBVIOUS
  <2>1. CASE ModuleChange
    BY <2>1 DEF ModuleChange, FeatureChange
  <2>2. CASE RebuildClears
    <3>1. revision' \in Nat /\ revision <= revision'
      BY <2>2 DEF RebuildClears, Becomes
    <3>2. UNCHANGED <<newest, last, work, channel>>
      BY <2>2 DEF RebuildClears
    <3> HIDE DEF RevisionInv, LinkOK
    <3> QED
      BY <3>1, <3>2, RevisionGrows DEF RegistryOK
  <2>3. CASE RebuildSorts
    BY <2>3 DEF RebuildSorts
  <2>4. CASE RegisterExtension
    <3>1. revision' \in Nat /\ revision <= revision'
      BY <2>4 DEF RegisterExtension, Becomes
    <3>2. UNCHANGED <<newest, last, work, channel>>
      BY <2>4 DEF RegisterExtension
    <3> HIDE DEF RevisionInv, LinkOK
    <3> QED
      BY <3>1, <3>2, RevisionGrows DEF RegistryOK
  <2>5. CASE RebuildNotifies
    BY <2>5 DEF RebuildNotifies
  <2>6. CASE PushManifest
    BY <2>6 DEF PushManifest, PushDone
  <2>7. CASE PushWrites
    <3>1. CASE channel' = channel
      BY <2>7, <3>1 DEF PushWrites
    <3>2. CASE channel' = Append(channel, [rev |-> revision, view |-> entries])
      <4>1. UNCHANGED <<revision, newest, last, work>>
        BY <2>7 DEF PushWrites
      <4> HIDE DEF RevisionInv, LinkOK
      <4> QED
        BY <3>2, <4>1, RevisionIsSent DEF RegistryOK
    <3> QED
      BY <2>7, <3>1, <3>2 DEF PushWrites, SendManifestLocked
  <2>8. ASSUME NEW e \in Ids, SetExtensionEnabled(e) PROVE RevisionInv'
    BY <2>8 DEF SetExtensionEnabled
  <2>9. ASSUME NEW n \in Names, ApplyHiddenTools(n) PROVE RevisionInv'
    <3>1. revision' \in Nat /\ revision <= revision'
      BY <2>9 DEF ApplyHiddenTools, Becomes
    <3>2. UNCHANGED <<newest, last, work, channel>>
      BY <2>9 DEF ApplyHiddenTools
    <3> HIDE DEF RevisionInv, LinkOK
    <3> QED
      BY <3>1, <3>2, RevisionGrows DEF RegistryOK
  <2>10. CASE Dial
    BY <2>10 DEF Dial
  <2>11. CASE HandshakeOk
    BY <2>11 DEF HandshakeOk
  <2>12. CASE HandshakeManifest
    <3>1. CASE channel' = channel
      BY <2>12, <3>1 DEF HandshakeManifest
    <3>2. CASE channel' = Append(channel, [rev |-> revision, view |-> entries])
      <4>1. UNCHANGED <<revision, newest, last, work>>
        BY <2>12 DEF HandshakeManifest
      <4> HIDE DEF RevisionInv, LinkOK
      <4> QED
        BY <3>2, <4>1, RevisionIsSent DEF RegistryOK
    <3> QED
      BY <2>12, <3>1, <3>2 DEF HandshakeManifest, SendManifestLocked
  <2>13. CASE PluginDrops
    BY <2>13 DEF PluginDrops
  <2>14. CASE ConnectionEnds
    BY <2>14 DEF ConnectionEnds
  <2>15. CASE ApplyManifest
    <3>1. /\ channel # <<>> /\ channel' = Tail(channel) /\ Len(channel) \in Nat \ {0}
         /\ UNCHANGED <<revision, last>>
      BY <2>15 DEF ApplyManifest
    <3>2. /\ channel[1].rev \in newest .. revision /\ Head(channel) = channel[1]
          /\ \A k \in 1 .. Len(channel') : channel[1].rev <= channel'[k].rev /\ channel'[k].rev <= revision
          /\ \A k, l \in 1 .. Len(channel') : k <= l => channel'[k].rev <= channel'[l].rev
      <4> HIDE DEF RevisionInv, LinkOK
      <4> QED
        BY <3>1, RevisionIsTaken DEF RegistryOK
    <3>3. /\ newest \in Int /\ last \in Int /\ revision \in Nat
          /\ \A k \in 1 .. Len(channel') : channel'[k].rev \in Nat
      <4>1. ASSUME NEW k \in 1 .. Len(channel') PROVE channel'[k].rev \in Nat
        <5>1. channel'[k] \in [rev : Nat, view : View]
          BY ElementOfSeq
        <5> QED
          BY <5>1
      <4> QED
        BY <4>1
    <3>4. newest' \in newest .. channel[1].rev /\ work'.rev \in -1 .. newest' /\ UNCHANGED <<revision, last>>
      <4>1. CASE UNCHANGED <<work, newest>>
        BY <3>1, <3>2, <4>1
      <4>2. CASE newest' = channel[1].rev /\ work'.rev = channel[1].rev
        BY <3>1, <3>2, <4>2
      <4> QED
        BY <2>15, <3>1, <3>2, <4>1, <4>2 DEF ApplyManifest
    <3> HIDE DEF LinkOK, RegistryOK, WorkOK, WorkInv
    <3>5. \A k \in 1 .. Len(channel') : newest' <= channel'[k].rev /\ channel'[k].rev <= revision'
      BY <3>2, <3>3, <3>4
    <3>6. newest' \in -1 .. revision' /\ last' \in -1 .. newest'
      BY <3>2, <3>3, <3>4
    <3> QED
      BY <3>2, <3>4, <3>5, <3>6
  <2>16. ASSUME NEW n \in Names, RemovedOne(n), UNCHANGED <<registryVars, gameVars, linkVars, last, newest, faults>> PROVE RevisionInv'
    BY <2>16 DEF RemovedOne, WithoutTool
  <2>17. ASSUME NEW n \in Names, ChangedOne(n), UNCHANGED <<registryVars, gameVars, linkVars, last, newest, faults>> PROVE RevisionInv'
    BY <2>17 DEF ChangedOne, WithTool, WithoutTool
  <2>18. ASSUME NEW n \in Names, AddedOne(n), UNCHANGED <<registryVars, gameVars, linkVars, last, newest, faults>> PROVE RevisionInv'
    BY <2>18 DEF AddedOne, WithTool
  <2>19. ASSUME NEW n \in Names, ToggledOne(n), UNCHANGED <<registryVars, gameVars, linkVars, last, newest, faults>> PROVE RevisionInv'
    BY <2>19 DEF ToggledOne
  <2>20. CASE AppliedAll
    BY <2>20 DEF AppliedAll, Idle
  <2>21. CASE SinkThrows
    BY <2>21 DEF SinkThrows, Idle
  <2>22. CASE UNCHANGED vars
    BY <2>22 DEF vars
  <2> QED
    BY <2>1, <2>2, <2>3, <2>4, <2>5, <2>6, <2>7, <2>8, <2>9, <2>10, <2>11, <2>12, <2>13, <2>14, <2>15, <2>16, <2>17, <2>18, <2>19, <2>20, <2>21, <2>22
    DEF Next, GameThread, Link, Sidecar, ApplyOne
<1> QED
  BY <1>1, <1>2, RegistryCorrect, LinkCorrect, WorkCorrect, PTL DEF Spec

(* A proxy is what Applied says, on a surface its route names; a route that *)
(* is gone while its proxy is still there is the work of a throwing sink.   *)
PlacedInv ==
  /\ faults \in Nat
  /\ \A n \in Names, s \in Surfaces : proxies[s][n] # Absent =>
       /\ proxies[s][n] = applied[n]
       /\ routed[n] = s \/ (routed[n] = "none" /\ faults > 0)

LEMMA ProxiesCorrect == Spec => []PlacedInv
<1> USE DEF registryVars, gameVars, linkVars, sidecarVars
<1>1. Init => PlacedInv
  BY DEF Init, PlacedInv
<1>2. PlacedInv /\ WorkInv /\ WorkInv' /\ [Next]_vars => PlacedInv'
  <2> SUFFICES ASSUME PlacedInv, WorkInv, WorkInv', [Next]_vars PROVE PlacedInv'
    OBVIOUS
  <2>1. CASE ModuleChange
    <3>1. UNCHANGED <<applied, proxies, routed, faults>>
      BY <2>1 DEF ModuleChange
    <3> QED
      BY <3>1 DEF PlacedInv
  <2>2. CASE RebuildClears
    <3>1. UNCHANGED <<applied, proxies, routed, faults>>
      BY <2>2 DEF RebuildClears
    <3> QED
      BY <3>1 DEF PlacedInv
  <2>3. CASE RebuildSorts
    <3>1. UNCHANGED <<applied, proxies, routed, faults>>
      BY <2>3 DEF RebuildSorts
    <3> QED
      BY <3>1 DEF PlacedInv
  <2>4. CASE RegisterExtension
    <3>1. UNCHANGED <<applied, proxies, routed, faults>>
      BY <2>4 DEF RegisterExtension
    <3> QED
      BY <3>1 DEF PlacedInv
  <2>5. CASE RebuildNotifies
    <3>1. UNCHANGED <<applied, proxies, routed, faults>>
      BY <2>5 DEF RebuildNotifies
    <3> QED
      BY <3>1 DEF PlacedInv
  <2>6. CASE PushManifest
    <3>1. UNCHANGED <<applied, proxies, routed, faults>>
      BY <2>6 DEF PushManifest
    <3> QED
      BY <3>1 DEF PlacedInv
  <2>7. CASE PushWrites
    <3>1. UNCHANGED <<applied, proxies, routed, faults>>
      BY <2>7 DEF PushWrites
    <3> QED
      BY <3>1 DEF PlacedInv
  <2>8. ASSUME NEW e \in Ids, SetExtensionEnabled(e) PROVE PlacedInv'
    <3>1. UNCHANGED <<applied, proxies, routed, faults>>
      BY <2>8 DEF SetExtensionEnabled
    <3> QED
      BY <3>1 DEF PlacedInv
  <2>9. ASSUME NEW n \in Names, ApplyHiddenTools(n) PROVE PlacedInv'
    <3>1. UNCHANGED <<applied, proxies, routed, faults>>
      BY <2>9 DEF ApplyHiddenTools
    <3> QED
      BY <3>1 DEF PlacedInv
  <2>10. CASE Dial
    <3>1. UNCHANGED <<applied, proxies, routed, faults>>
      BY <2>10 DEF Dial
    <3> QED
      BY <3>1 DEF PlacedInv
  <2>11. CASE HandshakeOk
    <3>1. UNCHANGED <<applied, proxies, routed, faults>>
      BY <2>11 DEF HandshakeOk
    <3> QED
      BY <3>1 DEF PlacedInv
  <2>12. CASE HandshakeManifest
    <3>1. UNCHANGED <<applied, proxies, routed, faults>>
      BY <2>12 DEF HandshakeManifest
    <3> QED
      BY <3>1 DEF PlacedInv
  <2>13. CASE PluginDrops
    <3>1. UNCHANGED <<applied, proxies, routed, faults>>
      BY <2>13 DEF PluginDrops
    <3> QED
      BY <3>1 DEF PlacedInv
  <2>14. CASE ConnectionEnds
    <3>1. UNCHANGED <<applied, proxies, routed, faults>>
      BY <2>14 DEF ConnectionEnds
    <3> QED
      BY <3>1 DEF PlacedInv
  <2>15. CASE ApplyManifest
    <3>1. UNCHANGED <<applied, proxies, routed, faults>>
      BY <2>15 DEF ApplyManifest
    <3> QED
      BY <3>1 DEF PlacedInv
  <2>16. ASSUME NEW n \in Names, RemovedOne(n), UNCHANGED <<registryVars, gameVars, linkVars, last, newest, faults>> PROVE PlacedInv'
    <3> SUFFICES ASSUME NEW m \in Names, NEW s \in Surfaces, proxies'[s][m] # Absent
                 PROVE  proxies'[s][m] = applied'[m] /\ (routed'[m] = s \/ (routed'[m] = "none" /\ faults' > 0))
      BY <2>16 DEF PlacedInv
    <3>0. proxies[s][m] # Absent => proxies[s][m] = applied[m] /\ (routed[m] = s \/ (routed[m] = "none" /\ faults > 0))
      BY DEF PlacedInv
    <3>1. CASE m = n
      <4>1. n \in Names /\ proxies \in [Surfaces -> View] /\ routed \in [Names -> Surfaces \cup {"none"}]
        BY DEF WorkInv, WorkOK
      <4>2. proxies'[s] = IF routed[n] \in {s, "none"} THEN [proxies[s] EXCEPT ![n] = Absent] ELSE proxies[s]
        BY <2>16 DEF RemovedOne, WithoutTool
      <4>3. proxies[s][n] = Absent \/ routed[n] \in {s, "none"}
        BY <3>0, <3>1
      <4> QED
        BY <3>1, <4>1, <4>2, <4>3 DEF View
    <3>2. CASE m # n
      BY <2>16, <3>0, <3>2 DEF RemovedOne, WithoutTool, View
    <3> QED
      BY <3>1, <3>2
  <2>17. ASSUME NEW n \in Names, ChangedOne(n), UNCHANGED <<registryVars, gameVars, linkVars, last, newest, faults>> PROVE PlacedInv'
    <3> SUFFICES ASSUME NEW m \in Names, NEW s \in Surfaces, proxies'[s][m] # Absent
                 PROVE  proxies'[s][m] = applied'[m] /\ (routed'[m] = s \/ (routed'[m] = "none" /\ faults' > 0))
      BY <2>17 DEF PlacedInv
    <3>0. proxies[s][m] # Absent => proxies[s][m] = applied[m] /\ (routed[m] = s \/ (routed[m] = "none" /\ faults > 0))
      BY DEF PlacedInv
    <3> DEFINE d == work.view[n]
    <3>1. d.surface \in Surfaces /\ n \in work.changed
      BY <2>17 DEF ChangedOne, WorkInv, WorkOK, View, Desc
    <3>2. WithoutTool(n) \in [Surfaces -> View]
      BY RemovalIsTyped DEF WorkInv, WorkOK
    <3>3. proxies'[s] = IF s = d.surface THEN [WithoutTool(n)[s] EXCEPT ![n] = d] ELSE WithoutTool(n)[s]
      BY <2>17, <3>1, <3>2 DEF ChangedOne, WithTool
    <3>4. CASE m = n
      <4>1. WithoutTool(n)[s][n] = Absent
        BY <3>0, <3>4 DEF WithoutTool, WorkInv, WorkOK, View
      <4>2. s = d.surface /\ proxies'[s][m] = d
        BY <3>2, <3>3, <3>4, <4>1 DEF View
      <4> QED
        BY <2>17, <3>4, <4>2 DEF ChangedOne, WorkInv, WorkOK, View
    <3>5. CASE m # n
      <4>1. proxies'[s][m] = proxies[s][m]
        BY <3>2, <3>3, <3>5 DEF WithoutTool, WorkInv, WorkOK, View
      <4> QED
        BY <2>17, <3>0, <3>5, <4>1 DEF ChangedOne, WorkInv, WorkOK, View
    <3> QED
      BY <3>4, <3>5
  <2>18. ASSUME NEW n \in Names, AddedOne(n), UNCHANGED <<registryVars, gameVars, linkVars, last, newest, faults>> PROVE PlacedInv'
    <3> SUFFICES ASSUME NEW m \in Names, NEW s \in Surfaces, proxies'[s][m] # Absent
                 PROVE  proxies'[s][m] = applied'[m] /\ (routed'[m] = s \/ (routed'[m] = "none" /\ faults' > 0))
      BY <2>18 DEF PlacedInv
    <3>0. proxies[s][m] # Absent => proxies[s][m] = applied[m] /\ (routed[m] = s \/ (routed[m] = "none" /\ faults > 0))
      BY DEF PlacedInv
    <3> DEFINE d == work.view[n]
    <3>1. d.surface \in Surfaces /\ n \in work.added /\ applied[n] = Absent
      BY <2>18 DEF AddedOne, WorkInv, WorkOK, View, Desc
    <3>2. proxies \in [Surfaces -> View]
      BY DEF WorkInv, WorkOK
    <3>3. proxies'[s] = IF s = d.surface THEN [proxies[s] EXCEPT ![n] = d] ELSE proxies[s]
      BY <2>18, <3>1, <3>2 DEF AddedOne, WithTool
    <3>4. CASE m = n
      <4>1. s = d.surface /\ proxies'[s][m] = d
        BY <3>0, <3>1, <3>2, <3>3, <3>4 DEF View
      <4> QED
        BY <2>18, <3>4, <4>1 DEF AddedOne, WorkInv, WorkOK, View
    <3>5. CASE m # n
      <4>1. proxies'[s][m] = proxies[s][m]
        BY <3>2, <3>3, <3>5 DEF View
      <4> QED
        BY <2>18, <3>0, <3>5, <4>1 DEF AddedOne, WorkInv, WorkOK, View
    <3> QED
      BY <3>4, <3>5
  <2>19. ASSUME NEW n \in Names, ToggledOne(n), UNCHANGED <<registryVars, gameVars, linkVars, last, newest, faults>> PROVE PlacedInv'
    <3> SUFFICES ASSUME NEW m \in Names, NEW s \in Surfaces, proxies'[s][m] # Absent
                 PROVE  proxies'[s][m] = applied'[m] /\ (routed'[m] = s \/ (routed'[m] = "none" /\ faults' > 0))
      BY <2>19 DEF PlacedInv
    <3>0. proxies[s][m] # Absent => proxies[s][m] = applied[m] /\ (routed[m] = s \/ (routed[m] = "none" /\ faults > 0))
      BY DEF PlacedInv
    <3> DEFINE b == work.view[n].visible
    <3>1. /\ proxies'[s] = IF routed[n] \in {s, "none"} /\ proxies[s][n] # Absent
                           THEN [proxies[s] EXCEPT ![n].visible = b] ELSE proxies[s]
          /\ applied' = [applied EXCEPT ![n].visible = b] /\ routed' = routed
      BY <2>19 DEF ToggledOne
    <3>2. proxies[s] \in View /\ applied \in View
      BY DEF WorkInv, WorkOK
    <3> HIDE DEF b
    <3>3. CASE m = n
      <4>1. proxies[s][n] # Absent
        BY <3>1, <3>3
      <4>2. proxies[s][n] = applied[n] /\ (routed[n] = s \/ (routed[n] = "none" /\ faults > 0)) /\ faults' = faults
        BY <2>19, <3>0, <3>3, <4>1
      <4>3. proxies'[s] = [proxies[s] EXCEPT ![n].visible = b]
        BY <3>1, <4>1, <4>2
      <4>4. proxies'[s][n] = [proxies[s][n] EXCEPT !.visible = b] /\ applied'[n] = [applied[n] EXCEPT !.visible = b]
        BY <3>1, <3>2, <4>3 DEF View
      <4> QED
        BY <3>1, <3>3, <4>2, <4>4
    <3>4. CASE m # n
      BY <2>19, <3>0, <3>1, <3>2, <3>4 DEF View
    <3> QED
      BY <3>3, <3>4
  <2>20. CASE AppliedAll
    <3>1. UNCHANGED <<applied, proxies, routed, faults>>
      BY <2>20 DEF AppliedAll
    <3> QED
      BY <3>1 DEF PlacedInv
  <2>21. CASE SinkThrows
    <3> SUFFICES ASSUME NEW m \in Names, NEW s \in Surfaces, proxies'[s][m] # Absent
                 PROVE  proxies'[s][m] = applied'[m] /\ (routed'[m] = s \/ (routed'[m] = "none" /\ faults' > 0))
      BY <2>21 DEF PlacedInv, SinkThrows
    <3>0. proxies[s][m] # Absent => proxies[s][m] = applied[m] /\ (routed[m] = s \/ (routed[m] = "none" /\ faults > 0))
      BY DEF PlacedInv
    <3>1. applied' = applied /\ faults' > 0
      BY <2>21 DEF SinkThrows, PlacedInv
    <3>2. CASE UNCHANGED <<proxies, routed>>
      BY <3>0, <3>1, <3>2
    <3>3. CASE \E n \in Names : proxies' \in {proxies, WithoutTool(n)} /\ routed' = [routed EXCEPT ![n] = "none"]
      <4>1. PICK n \in Names : proxies' \in {proxies, WithoutTool(n)} /\ routed' = [routed EXCEPT ![n] = "none"]
        BY <3>3
      <4>2. n \in Names /\ proxies \in [Surfaces -> View] /\ routed \in [Names -> Surfaces \cup {"none"}]
        BY DEF WorkInv, WorkOK
      <4>3. proxies'[s] \in {proxies[s], [proxies[s] EXCEPT ![n] = Absent]}
        BY <4>1 DEF WithoutTool
      <4>4. proxies'[s][m] = proxies[s][m] /\ proxies[s][m] # Absent
        BY <4>2, <4>3 DEF View
      <4>5. proxies[s][m] = applied[m] /\ (routed[m] = s \/ routed[m] = "none")
        BY <3>0, <4>4
      <4>6. routed'[m] \in {routed[m], "none"}
        BY <4>1, <4>2
      <4> QED
        BY <3>1, <4>4, <4>5, <4>6
    <3>4. work.removed \cup work.changed \in SUBSET Names
      BY DEF WorkInv, WorkOK
    <3> QED
      BY <2>21, <3>2, <3>3, <3>4 DEF SinkThrows
  <2>22. CASE UNCHANGED vars
    BY <2>22 DEF vars, PlacedInv
  <2> QED
    BY <2>1, <2>2, <2>3, <2>4, <2>5, <2>6, <2>7, <2>8, <2>9, <2>10, <2>11, <2>12, <2>13, <2>14, <2>15, <2>16, <2>17, <2>18, <2>19, <2>20, <2>21, <2>22
    DEF Next, GameThread, Link, Sidecar, ApplyOne
<1> QED
  BY <1>1, <1>2, WorkCorrect, PTL DEF Spec

--------------------------------------------------------------------------------
(* Types: what the sidecar has applied, and what is on its way, is numbered *)
(* by a revision the registry has had.                                     *)
THEOREM TypeCorrect == Spec => []TypeOK
<1>1. RegistryOK /\ FlagOK /\ LinkOK /\ WorkInv /\ RevisionInv => TypeOK
  <2> SUFFICES ASSUME RegistryOK, FlagOK, LinkOK, WorkInv, RevisionInv PROVE TypeOK
    OBVIOUS
  <2>1. \A i \in 1 .. Len(features) : features[i] \in [provider : Providers, surface : Surfaces]
    BY ElementOfSeq DEF RegistryOK
  <2>2. \A i \in 1 .. Len(channel) : channel[i] \in [rev : Nat, view : View]
    BY ElementOfSeq DEF LinkOK
  <2>3. \A i \in 1 .. Len(channel) : channel[i].view \in View /\ channel[i].rev \in 0 .. revision
    BY <2>2 DEF RevisionInv, RegistryOK
  <2>4. last \in -1 .. revision /\ work.rev \in -1 .. revision
    BY DEF RevisionInv, RegistryOK
  <2> QED
    BY <2>1, <2>3, <2>4 DEF TypeOK, RegistryOK, FlagOK, LinkOK, WorkInv, WorkOK
<1> QED
  BY <1>1, RegistryCorrect, FlagCorrect, LinkCorrect, WorkCorrect, RevisionsCorrect, PTL

(* A rebuild never takes a built-in tool away, not even for a moment.      *)
THEOREM BuiltInsStay == Spec => []CoreAlwaysThere
  BY CoreCorrect, PTL DEF CoreInv

(* An older manifest is never applied after a newer one.                   *)
THEOREM NeverBackwards == Spec => NeverOlder
<1>1. LinkOK /\ RevisionInv /\ [Next]_vars => [newest' >= newest]_vars
  <2> SUFFICES ASSUME LinkOK, RevisionInv, Next PROVE newest' >= newest
    BY DEF vars
  <2>1. newest \in Int
    BY DEF RevisionInv
  <2>2. CASE ApplyManifest
    <3>1. Head(channel) = channel[1] /\ 1 \in 1 .. Len(channel)
      BY <2>2 DEF ApplyManifest, LinkOK
    <3>2. newest' = channel[1].rev \/ newest' = newest
      BY <2>2, <3>1 DEF ApplyManifest
    <3>3. channel[1].rev \in Nat /\ newest <= channel[1].rev
      BY <3>1, RevisionsOfChannel DEF RevisionInv
    <3> QED
      BY <2>1, <3>2, <3>3
  <2>3. CASE ~ApplyManifest
    <3>1. newest' = newest
      BY <2>3 DEF Next, GameThread, Link, Sidecar, sidecarVars, linkVars, ModuleChange, RebuildClears, RebuildSorts,
                  RegisterExtension, RebuildNotifies, PushManifest, PushWrites, SetExtensionEnabled, ApplyHiddenTools,
                  Dial, HandshakeOk, HandshakeManifest, PluginDrops, ConnectionEnds, ApplyOne, AppliedAll, SinkThrows
    <3> QED
      BY <2>1, <3>1
  <2> QED
    BY <2>2, <2>3
<1> QED
  BY <1>1, LinkCorrect, RevisionsCorrect, PTL DEF Spec, NeverOlder

--------------------------------------------------------------------------------
(* QuietMirrors.  Five invariants carry it, one a stage: the registry is   *)
(* what the providers give, the last manifest on its way is the            *)
(* registry's, a revision names one view, a difference once worked off is  *)
(* none, and the proxies are where the tools are.                          *)


(* One entry of a difference touches nothing but the sidecar's copy.       *)
StepsAlone == UNCHANGED <<registryVars, gameVars, linkVars, last, newest, faults>>

(* What the registry holds of a name when the providers of S have          *)
(* registered: the built-in tool, or the one of the smallest id, or none.  *)
Core(n) == [ext |-> CoreId, surface |-> "system", visible |-> n \notin hidden]

ToolOf(f, n) == [ext |-> IdOf[f.provider], surface |-> f.surface, visible |-> n \notin hidden]

Firsts(S, n) ==
  {f \in S : n \in Offers[f.provider] /\
     \A g \in S : n \in Offers[g.provider] => IdOf[f.provider] <= IdOf[g.provider]}

HoldsTool(S, n) ==
  IF n \in CoreNames THEN entries[n] = Core(n)
  ELSE \/ entries[n] = Absent /\ \A f \in S : n \notin Offers[f.provider]
       \/ \E f \in Firsts(S, n) : entries[n] = ToolOf(f, n)

Holds(S) == \A n \in Names : HoldsTool(S, n)

(* The registry in a rebuild.  What a rebuild has to clear is what it      *)
(* remembers to have registered; what it registers is what it has visited; *)
(* and a change in the middle of it is remembered as pending.              *)
RebuildInv ==
  /\ \A n \in CoreNames : entries[n] = Core(n)
  /\ \A n \in Names \ CoreNames : entries[n] # Absent => entries[n].ext \in registered
  /\ gpc \in {"idle", "clear"} => ~pending
  /\ gpc = "register" /\ ~pending =>
       /\ todo \subseteq Visited(features, disabled)
       /\ \A f \in Visited(features, disabled) \ todo, g \in todo : IdOf[f.provider] <= IdOf[g.provider]
       /\ Holds(Visited(features, disabled) \ todo)
  /\ gpc \in {"idle", "push", "write"} /\ ~pending => Holds(Visited(features, disabled))

(* A set of numbers has a smallest.                                        *)
LEMMA SmallestOf == ASSUME NEW T \in SUBSET Nat, T # {} PROVE \E x \in T : \A y \in T : x <= y
<1> DEFINE R == {ss \in Nat \X Nat : ss[1] < ss[2]}
<1>1. IsWellFoundedOn(R, Nat)
  BY NatLessThanWellFounded DEF OpToRel
<1> HIDE DEF R
<1>2. PICK x \in T : \A y \in T : ~(<<y, x>> \in R)
  BY <1>1, WFMin
<1>3. ASSUME NEW y \in T PROVE x <= y
  <2>1. ~(<<y, x>> \in R)
    BY <1>2
  <2>2. ~(y < x)
    BY <2>1 DEF R
  <2> QED
    BY <2>2
<1> QED
  BY <1>3

(* Of the providers that offer a name one is the first,                    *)
LEMMA SomeFirst ==
  ASSUME NEW S \in SUBSET [provider : Providers, surface : Surfaces], NEW n,
         NEW h \in S, n \in Offers[h.provider]
  PROVE  Firsts(S, n) # {}
<1> DEFINE F == {f \in S : n \in Offers[f.provider]}
           T == {IdOf[f.provider] : f \in F}
<1>1. \A f \in S : IdOf[f.provider] \in Nat
  BY ProvidersAssumption
<1>2. T \in SUBSET Nat /\ T # {}
  BY <1>1
<1>3. PICK x \in T : \A y \in T : x <= y
  BY <1>2, SmallestOf
<1>4. PICK f \in F : x = IdOf[f.provider]
  BY <1>3
<1>5. \A g \in S : n \in Offers[g.provider] => IdOf[f.provider] <= IdOf[g.provider]
  BY <1>3, <1>4
<1> QED
  BY <1>4, <1>5 DEF Firsts

(* and only one, since a rebuild visits one provider an id.                *)
LEMMA OneFirst ==
  ASSUME NEW fs \in Seq([provider : Providers, surface : Surfaces]), NEW off, NEW n,
         NEW f \in Firsts(Visited(fs, off), n), NEW g \in Firsts(Visited(fs, off), n)
  PROVE  f = g
<1>1. /\ f \in Visited(fs, off) /\ g \in Visited(fs, off)
      /\ IdOf[f.provider] <= IdOf[g.provider] /\ IdOf[g.provider] <= IdOf[f.provider]
  BY DEF Firsts
<1>2. IdOf[f.provider] \in Nat /\ IdOf[g.provider] \in Nat
  <2>1. f \in [provider : Providers, surface : Surfaces] /\ g \in [provider : Providers, surface : Surfaces]
    BY <1>1, VisitedIsTyped
  <2>2. f.provider \in Providers /\ g.provider \in Providers
    BY <2>1
  <2> QED
    BY <2>2, ProvidersAssumption
<1>3. IdOf[f.provider] = IdOf[g.provider]
  BY <1>1, <1>2
<1>4. DOMAIN fs = 1 .. Len(fs) /\ Len(fs) \in Nat
  BY LenProperties
<1>5. PICK i \in 1 .. Len(fs) : f = fs[i] /\ \A j \in 1 .. i - 1 : IdOf[fs[j].provider] # IdOf[fs[i].provider]
  BY <1>1, <1>4 DEF Visited
<1>6. PICK k \in 1 .. Len(fs) : g = fs[k] /\ \A j \in 1 .. k - 1 : IdOf[fs[j].provider] # IdOf[fs[k].provider]
  BY <1>1, <1>4 DEF Visited
<1>7. ~(i < k) /\ ~(k < i)
  <2>1. i < k => i \in 1 .. k - 1
    OBVIOUS
  <2>2. k < i => k \in 1 .. i - 1
    OBVIOUS
  <2> QED
    BY <1>3, <1>5, <1>6, <2>1, <2>2
<1> QED
  BY <1>4, <1>5, <1>6, <1>7

(* So what the registry holds after all of them is what is promised.       *)
LEMMA PromisedHolds ==
  ASSUME RegistryOK
  PROVE  (\A n \in Names : HoldsTool(Visited(features, disabled), n)) <=> entries = Promised
<1> DEFINE V == Visited(features, disabled)
           P(n) == IF n \in CoreNames THEN Core(n)
                   ELSE IF Firsts(V, n) = {} THEN Absent
                   ELSE ToolOf(CHOOSE f \in Firsts(V, n) : TRUE, n)
<1>1. V \in SUBSET [provider : Providers, surface : Surfaces]
  BY VisitedIsTyped DEF RegistryOK
<1>2. Promised = [n \in Names |-> P(n)]
  BY DEF Promised, Core, ToolOf, Firsts
<1>3. \A n, f, g : f \in Firsts(V, n) /\ g \in Firsts(V, n) => f = g
  BY OneFirst DEF RegistryOK
<1>4. \A n : (\E h \in V : n \in Offers[h.provider]) => Firsts(V, n) # {}
  BY <1>1, SomeFirst
<1>5. \A n : Firsts(V, n) # {} => \E h \in V : n \in Offers[h.provider]
  BY DEF Firsts
<1> HIDE DEF V
<1>6. ASSUME NEW n \in Names PROVE HoldsTool(V, n) <=> entries[n] = P(n)
  <2>1. CASE n \in CoreNames
    BY <2>1 DEF HoldsTool
  <2>2. CASE n \notin CoreNames /\ Firsts(V, n) = {}
    BY <1>4, <2>2 DEF HoldsTool
  <2>3. CASE n \notin CoreNames /\ Firsts(V, n) # {}
    <3> DEFINE f == CHOOSE f \in Firsts(V, n) : TRUE
    <3>1. f \in Firsts(V, n) /\ \A g \in Firsts(V, n) : g = f
      BY <1>3, <2>3
    <3> HIDE DEF f
    <3>2. P(n) = ToolOf(f, n)
      BY <2>3 DEF f
    <3>3. HoldsTool(V, n) <=> entries[n] = ToolOf(f, n)
      BY <1>5, <2>3, <3>1 DEF HoldsTool
    <3> QED
      BY <3>2, <3>3
  <2> QED
    BY <2>1, <2>2, <2>3
<1>7. entries = [n \in Names |-> entries[n]]
  BY DEF RegistryOK, View
<1> HIDE DEF P
<1>8. (\A n \in Names : entries[n] = P(n)) <=> entries = Promised
  BY <1>2, <1>7
<1> QED
  BY <1>6, <1>8 DEF V

LEMMA RebuildCorrect == Spec => []RebuildInv
<1> DEFINE V == Visited(features, disabled)
<1> USE DEF registryVars, gameVars, linkVars, sidecarVars
<1>1. Init /\ RegistryOK => RebuildInv
  <2> SUFFICES ASSUME Init, RegistryOK PROVE RebuildInv
    OBVIOUS
  <2>1. /\ entries = Promised /\ gpc = "idle" /\ ~pending
        /\ registered = {IdOf[f.provider] : f \in V}
    BY DEF Init
  <2>2. \A n \in Names : HoldsTool(V, n)
    BY <2>1, PromisedHolds
  <2> HIDE DEF V
  <2>3. \A n \in CoreNames : entries[n] = Core(n)
    BY <2>2, ProvidersAssumption DEF HoldsTool
  <2>4. ASSUME NEW n \in Names \ CoreNames, entries[n] # Absent PROVE entries[n].ext \in registered
    <3>1. PICK f \in Firsts(V, n) : entries[n] = ToolOf(f, n)
      BY <2>2, <2>4 DEF HoldsTool
    <3> QED
      BY <2>1, <3>1 DEF Firsts, ToolOf
  <2> QED
    BY <2>1, <2>2, <2>3, <2>4 DEF RebuildInv, Holds, V
<1>2. RebuildInv /\ RegistryOK /\ FlagOK /\ CoreInv /\ [Next]_vars => RebuildInv'
  <2> SUFFICES ASSUME RebuildInv, RegistryOK, FlagOK, CoreInv, [Next]_vars PROVE RebuildInv'
    OBVIOUS
  <2>a. UNCHANGED <<features, disabled, hidden, entries, registered, gpc, todo, pending>> => RebuildInv'
    <3> SUFFICES ASSUME UNCHANGED <<features, disabled, hidden, entries, registered, gpc, todo, pending>>
                 PROVE  RebuildInv'
      OBVIOUS
    <3>1. Holds(V) => Holds(V)'
      BY DEF Holds, HoldsTool, Core, ToolOf
    <3>2. Holds(V \ todo) => Holds(V \ todo)'
      BY DEF Holds, HoldsTool, Core, ToolOf
    <3> QED
      BY <3>1, <3>2 DEF RebuildInv, Core
  <2>1. CASE ModuleChange
    BY <2>1 DEF ModuleChange, RebuildInv, Core
  <2>2. CASE RebuildClears
    <3>1. PICK e \in registered :
            /\ registered' = registered \ {e}
            /\ Becomes([n \in Names |-> IF entries[n].ext = e THEN Absent ELSE entries[n]])
      BY <2>2 DEF RebuildClears
    <3>2. /\ \A n \in Names : entries'[n] = IF entries[n].ext = e THEN Absent ELSE entries[n]
          /\ e # CoreId /\ UNCHANGED <<gpc, pending, hidden>> /\ gpc = "clear"
      BY <2>2, <3>1 DEF RebuildClears, Becomes, CoreInv
    <3>3. \A n \in CoreNames : entries'[n] = Core(n)'
      <4> SUFFICES ASSUME NEW n \in CoreNames PROVE entries'[n] = Core(n)'
        OBVIOUS
      <4>1. n \in Names /\ entries[n] = Core(n) /\ Core(n)' = Core(n) /\ Core(n).ext = CoreId
        BY <3>2, ProvidersAssumption DEF RebuildInv, Core
      <4> QED
        BY <3>2, <4>1
    <3>4. \A n \in Names \ CoreNames : entries'[n] # Absent => entries'[n].ext \in registered'
      BY <3>1, <3>2 DEF RebuildInv
    <3>5. gpc' = "clear" /\ ~pending'
      BY <3>2 DEF RebuildInv
    <3> QED
      BY <3>3, <3>4, <3>5 DEF RebuildInv
  <2>3. CASE RebuildSorts
    <3>1. /\ gpc = "clear" /\ gpc' = "register" /\ registered = {} /\ todo' = V
          /\ UNCHANGED <<features, disabled, hidden, entries, registered, pending>>
      BY <2>3 DEF RebuildSorts
    <3>2. \A n \in Names \ CoreNames : entries[n] = Absent
      BY <3>1 DEF RebuildInv
    <3>3. \A n \in CoreNames : entries[n] = Core(n)
      BY DEF RebuildInv
    <3>4. V' = V /\ V \ V = {}
      BY <3>1
    <3> HIDE DEF V
    <3>5. Holds({})'
      BY <3>1, <3>2, <3>3 DEF Holds, HoldsTool, Core
    <3>6. todo' \subseteq V' /\ V' \ todo' = {}
      BY <3>1, <3>4
    <3>7. Holds(V \ todo)'
      BY <3>5, <3>6 DEF Holds, HoldsTool
    <3> QED
      BY <3>1, <3>2, <3>3, <3>6, <3>7 DEF RebuildInv, Core, V
  <2>4. CASE RegisterExtension
    <3> PICK f \in todo : /\ \A g \in todo : IdOf[f.provider] <= IdOf[g.provider]
                          /\ todo' = todo \ {f} /\ Becomes(Committed(entries, f))
                          /\ registered' = registered \cup {IdOf[f.provider]}
      BY <2>4 DEF RegisterExtension
    <3>1. UNCHANGED <<disabled, hidden>> /\ gpc = "register" /\ gpc' = "register"
      BY <2>4 DEF RegisterExtension
    <3>2. \A n \in Names : entries'[n] = IF n \in Offers[f.provider] /\ entries[n] = Absent
                                         THEN ToolOf(f, n) ELSE entries[n]
      BY DEF Becomes, Committed, ToolOf
    <3>3. \A n : ToolOf(f, n).ext = IdOf[f.provider] /\ \A h : ToolOf(h, n)' = ToolOf(h, n) /\ Core(n)' = Core(n)
      BY <3>1 DEF ToolOf, Core
    <3>4. \A n : Core(n) # Absent /\ Core(n).ext = 0 /\ Absent.ext = -1
      BY DEF Core, Absent, CoreId
    <3>5. ASSUME NEW n \in CoreNames PROVE entries'[n] = Core(n)'
      <4>1. n \in Names /\ entries[n] = Core(n)
        BY ProvidersAssumption DEF RebuildInv
      <4> QED
        BY <3>2, <3>3, <3>4, <4>1
    <3>6. ASSUME NEW n \in Names \ CoreNames, entries'[n] # Absent PROVE entries'[n].ext \in registered'
      <4>1. entries[n] # Absent => entries[n].ext \in registered
        BY DEF RebuildInv
      <4> QED
        BY <3>2, <3>3, <3>6, <4>1
    <3>7. ASSUME ~pending'
          PROVE  /\ todo' \subseteq V'
                 /\ \A g \in V' \ todo', h \in todo' : IdOf[g.provider] <= IdOf[h.provider]
                 /\ \A n \in Names : HoldsTool(V \ todo, n)'
      <4>1. UNCHANGED <<features, pending>> /\ ~pending
        BY <2>4, <3>7 DEF RegisterExtension, FlagOK
      <4>2. V' = V /\ todo \subseteq V
        BY <3>1, <4>1 DEF RebuildInv
      <4>3. \A g \in V \ todo, h \in todo : IdOf[g.provider] <= IdOf[h.provider]
        BY <3>1, <4>1 DEF RebuildInv
      <4>4. \A n \in Names : HoldsTool(V \ todo, n)
        BY <3>1, <4>1 DEF RebuildInv, Holds
      <4>5. \A g \in V : IdOf[g.provider] \in Nat
        <5>1. V \subseteq [provider : Providers, surface : Surfaces]
          BY VisitedIsTyped DEF RegistryOK
        <5>2. \A g \in V : g.provider \in Providers
          BY <5>1
        <5> QED
          BY <5>2, ProvidersAssumption
      <4> HIDE DEF V
      <4>6. V' \ todo' = (V \ todo) \cup {f}
        BY <4>2
      <4>7. ASSUME NEW n \in Names PROVE HoldsTool(V \ todo, n)'
        <5>1. CASE n \in CoreNames
          BY <3>5, <5>1 DEF HoldsTool
        <5>2. CASE n \notin CoreNames /\ entries[n] = Absent /\ \A g \in V \ todo : n \notin Offers[g.provider]
          <6>1. CASE n \notin Offers[f.provider]
            <7>1. entries'[n] = Absent /\ \A g \in V' \ todo' : n \notin Offers[g.provider]
              BY <3>2, <4>6, <5>2, <6>1
            <7> QED
              BY <5>2, <7>1 DEF HoldsTool
          <6>2. CASE n \in Offers[f.provider]
            <7>1. f \in Firsts(V' \ todo', n)
              BY <4>2, <4>5, <4>6, <5>2, <6>2 DEF Firsts
            <7>2. entries'[n] = ToolOf(f, n)'
              BY <3>2, <3>3, <5>2, <6>2
            <7> QED
              BY <5>2, <7>1, <7>2 DEF HoldsTool
          <6> QED
            BY <6>1, <6>2
        <5>3. CASE n \notin CoreNames /\ \E h \in Firsts(V \ todo, n) : entries[n] = ToolOf(h, n)
          <6>1. PICK h \in Firsts(V \ todo, n) : entries[n] = ToolOf(h, n)
            BY <5>3
          <6>2. /\ h \in V \ todo /\ n \in Offers[h.provider]
                /\ \A g \in V \ todo : n \in Offers[g.provider] => IdOf[h.provider] <= IdOf[g.provider]
            BY <6>1 DEF Firsts
          <6>3. h \in Firsts(V' \ todo', n)
            BY <4>3, <4>6, <6>2 DEF Firsts
          <6>4. ToolOf(h, n).ext = IdOf[h.provider] /\ IdOf[h.provider] \in Nat
            BY <4>5, <6>2 DEF ToolOf
          <6>5. entries[n] # Absent
            BY <3>4, <6>1, <6>4
          <6>6. entries'[n] = ToolOf(h, n)'
            BY <3>2, <3>3, <6>1, <6>5
          <6> QED
            BY <5>3, <6>3, <6>6 DEF HoldsTool
        <5> QED
          BY <4>4, <5>1, <5>2, <5>3 DEF HoldsTool
      <4>8. ASSUME NEW g \in V' \ todo', NEW h \in todo' PROVE IdOf[g.provider] <= IdOf[h.provider]
        BY <4>3, <4>6
      <4> QED
        BY <4>2, <4>7, <4>8
    <3> HIDE DEF V
    <3>8. ~pending' => Holds(V \ todo)'
      BY <3>7 DEF Holds
    <3> QED
      BY <3>1, <3>5, <3>6, <3>7, <3>8 DEF RebuildInv, V
  <2>5. CASE RebuildNotifies
    <3>1. /\ gpc = "register" /\ todo = {} /\ gpc' = "push"
          /\ UNCHANGED <<features, disabled, hidden, entries, registered, pending>>
      BY <2>5 DEF RebuildNotifies
    <3>2. ~pending => Holds(V \ {})
      BY <3>1 DEF RebuildInv
    <3>3. V \ {} = V /\ V' = V
      BY <3>1
    <3> HIDE DEF V
    <3>4. ~pending => Holds(V)
      BY <3>2, <3>3
    <3>5. ~pending => Holds(V)'
      BY <3>1, <3>3, <3>4 DEF Holds, HoldsTool, Core, ToolOf
    <3> QED
      BY <3>1, <3>5 DEF RebuildInv, Core, V
  <2>6. CASE PushManifest
    <3>1. /\ gpc \in {"push", "write"}
          /\ UNCHANGED <<features, disabled, hidden, entries, registered, todo>>
          /\ \/ gpc' = "write" /\ pending' = pending
             \/ gpc' = "idle" /\ ~pending /\ ~pending'
             \/ gpc' = "clear" /\ ~pending'
      BY <2>6 DEF PushManifest, PushDone
    <3>2. Holds(V) => Holds(V)'
      BY <3>1 DEF Holds, HoldsTool, Core, ToolOf
    <3> QED
      BY <3>1, <3>2 DEF RebuildInv, Core
  <2>7. CASE PushWrites
    <3>1. /\ gpc \in {"push", "write"}
          /\ UNCHANGED <<features, disabled, hidden, entries, registered, todo>>
          /\ \/ gpc' = "write" /\ pending' = pending
             \/ gpc' = "idle" /\ ~pending /\ ~pending'
             \/ gpc' = "clear" /\ ~pending'
      BY <2>7 DEF PushWrites, PushDone
    <3>2. Holds(V) => Holds(V)'
      BY <3>1 DEF Holds, HoldsTool, Core, ToolOf
    <3> QED
      BY <3>1, <3>2 DEF RebuildInv, Core
  <2>8. ASSUME NEW e \in Ids, SetExtensionEnabled(e) PROVE RebuildInv'
    BY <2>8 DEF SetExtensionEnabled, RebuildInv, Core
  <2>9. ASSUME NEW n \in Names, ApplyHiddenTools(n) PROVE RebuildInv'
    <3> DEFINE E == [m \in Names |-> IF entries[m] = Absent THEN Absent
                                    ELSE [entries[m] EXCEPT !.visible = m \notin hidden']]
    <3>1. /\ gpc = "idle" /\ gpc' = "push" /\ Becomes(E) /\ UNCHANGED <<features, disabled, registered, todo, pending>>
      BY <2>9 DEF ApplyHiddenTools
    <3>2. \A m \in Names : entries'[m] = IF entries[m] = Absent THEN Absent
                                         ELSE [entries[m] EXCEPT !.visible = m \notin hidden']
      BY <3>1 DEF Becomes
    <3>3. \A m \in Names : \A h : entries[m] = ToolOf(h, m) /\ entries[m] # Absent => entries'[m] = ToolOf(h, m)'
      BY <3>2 DEF ToolOf
    <3>4. \A m \in Names : entries[m] = Core(m) => entries'[m] = Core(m)'
      BY <3>2 DEF Core, Absent, CoreId
    <3>5. \A m \in Names : /\ entries[m] = Absent => entries'[m] = Absent
                           /\ entries[m] # Absent => entries'[m].ext = entries[m].ext
      BY <3>2 DEF RegistryOK, View, Desc
    <3>6. \A g \in V : IdOf[g.provider] \in Nat
      <4>1. V \subseteq [provider : Providers, surface : Surfaces]
        BY VisitedIsTyped DEF RegistryOK
      <4>2. \A g \in V : g.provider \in Providers
        BY <4>1
      <4> QED
        BY <4>2, ProvidersAssumption
    <3>7. ~pending /\ Holds(V) /\ V' = V
      BY <3>1 DEF RebuildInv
    <3> HIDE DEF V, E
    <3>8. ASSUME NEW m \in Names PROVE HoldsTool(V, m)'
      <4>0. HoldsTool(V, m)
        BY <3>7 DEF Holds
      <4>1. CASE m \in CoreNames
        BY <3>4, <4>0, <4>1 DEF HoldsTool
      <4>2. CASE m \notin CoreNames /\ entries[m] = Absent /\ \A g \in V : m \notin Offers[g.provider]
        BY <3>5, <3>7, <4>2 DEF HoldsTool
      <4>3. CASE m \notin CoreNames /\ \E h \in Firsts(V, m) : entries[m] = ToolOf(h, m)
        <5>1. PICK h \in Firsts(V, m) : entries[m] = ToolOf(h, m)
          BY <4>3
        <5>2. IdOf[h.provider] \in Nat
          BY <3>6, <5>1 DEF Firsts
        <5>3. entries[m] # Absent
          BY <5>1, <5>2 DEF ToolOf, Absent
        <5>4. entries'[m] = ToolOf(h, m)'
          BY <3>3, <5>1, <5>3
        <5> QED
          BY <3>7, <4>3, <5>4 DEF HoldsTool
      <4> QED
        BY <4>0, <4>1, <4>2, <4>3 DEF HoldsTool
    <3>9. Holds(V)'
      BY <3>8 DEF Holds
    <3>10. \A m \in CoreNames : entries'[m] = Core(m)'
      BY <3>4, ProvidersAssumption DEF RebuildInv
    <3>11. \A m \in Names \ CoreNames : entries'[m] # Absent => entries'[m].ext \in registered'
      BY <3>1, <3>5 DEF RebuildInv
    <3> QED
      BY <3>1, <3>9, <3>10, <3>11 DEF RebuildInv, V
  <2>10. CASE Dial
    BY <2>a, <2>10 DEF Dial
  <2>11. CASE HandshakeOk
    BY <2>a, <2>11 DEF HandshakeOk
  <2>12. CASE HandshakeManifest
    BY <2>a, <2>12 DEF HandshakeManifest
  <2>13. CASE PluginDrops
    BY <2>a, <2>13 DEF PluginDrops
  <2>14. CASE ConnectionEnds
    BY <2>a, <2>14 DEF ConnectionEnds
  <2>15. CASE ApplyManifest
    BY <2>a, <2>15 DEF ApplyManifest
  <2>16. ASSUME NEW n \in Names, RemovedOne(n), StepsAlone PROVE RebuildInv'
    BY <2>a, <2>16 DEF RemovedOne, StepsAlone
  <2>17. ASSUME NEW n \in Names, ChangedOne(n), StepsAlone PROVE RebuildInv'
    BY <2>a, <2>17 DEF ChangedOne, StepsAlone
  <2>18. ASSUME NEW n \in Names, AddedOne(n), StepsAlone PROVE RebuildInv'
    BY <2>a, <2>18 DEF AddedOne, StepsAlone
  <2>19. ASSUME NEW n \in Names, ToggledOne(n), StepsAlone PROVE RebuildInv'
    BY <2>a, <2>19 DEF ToggledOne, StepsAlone
  <2>20. CASE AppliedAll
    BY <2>a, <2>20 DEF AppliedAll
  <2>21. CASE SinkThrows
    BY <2>a, <2>21 DEF SinkThrows
  <2>22. CASE UNCHANGED vars
    BY <2>a, <2>22 DEF vars
  <2> QED
    BY <2>1, <2>2, <2>3, <2>4, <2>5, <2>6, <2>7, <2>8, <2>9, <2>10, <2>11,
       <2>12, <2>13, <2>14, <2>15, <2>16, <2>17, <2>18, <2>19, <2>20, <2>21,
       <2>22
       DEF Next, GameThread, Link, Sidecar, ApplyOne, StepsAlone
<1> QED
  BY <1>1, <1>2, RegistryCorrect, FlagCorrect, CoreCorrect, PTL DEF Spec

(* What is left of a difference is all that still differs.                 *)
DiffInv ==
  work # Idle =>
    /\ work.rev # -1
    /\ \A n \in Names :
         n \notin work.removed \cup work.changed \cup work.added \cup work.toggled => applied[n] = work.view[n]
    /\ \A n \in work.toggled : Schema(applied[n]) = Schema(work.view[n])

(* A tool is its schema and its visibility.                                *)
LEMMA SameDesc ==
  ASSUME NEW c \in Desc, NEW d \in Desc, Schema(c) = Schema(d), ~(c.visible # d.visible)
  PROVE  c = d
<1>1. \A x \in Desc : x = [ext |-> x.ext, surface |-> x.surface, visible |-> x.visible]
  BY DEF Desc, Absent
<1>2. c.ext = d.ext /\ c.surface = d.surface
  BY DEF Schema
<1>3. c.visible = d.visible
  OBVIOUS
<1> QED
  BY <1>1, <1>2, <1>3

LEMMA DiffCorrect == Spec => []DiffInv
<1> USE DEF registryVars, gameVars, linkVars, sidecarVars
<1>1. Init => DiffInv
  BY DEF Init, DiffInv
<1>2. DiffInv /\ WorkInv /\ LinkOK /\ [Next]_vars => DiffInv'
  <2> SUFFICES ASSUME DiffInv, WorkInv, LinkOK, [Next]_vars PROVE DiffInv'
    OBVIOUS
  <2>a. UNCHANGED <<applied, work>> => DiffInv'
    BY DEF DiffInv
  <2>1. CASE ModuleChange
    BY <2>a, <2>1 DEF ModuleChange
  <2>2. CASE RebuildClears
    BY <2>a, <2>2 DEF RebuildClears
  <2>3. CASE RebuildSorts
    BY <2>a, <2>3 DEF RebuildSorts
  <2>4. CASE RegisterExtension
    BY <2>a, <2>4 DEF RegisterExtension
  <2>5. CASE RebuildNotifies
    BY <2>a, <2>5 DEF RebuildNotifies
  <2>6. CASE PushManifest
    BY <2>a, <2>6 DEF PushManifest
  <2>7. CASE PushWrites
    BY <2>a, <2>7 DEF PushWrites
  <2>8. ASSUME NEW e \in Ids, SetExtensionEnabled(e) PROVE DiffInv'
    BY <2>a, <2>8 DEF SetExtensionEnabled
  <2>9. ASSUME NEW n \in Names, ApplyHiddenTools(n) PROVE DiffInv'
    BY <2>a, <2>9 DEF ApplyHiddenTools
  <2>10. CASE Dial
    BY <2>a, <2>10 DEF Dial
  <2>11. CASE HandshakeOk
    BY <2>a, <2>11 DEF HandshakeOk
  <2>12. CASE HandshakeManifest
    BY <2>a, <2>12 DEF HandshakeManifest
  <2>13. CASE PluginDrops
    BY <2>a, <2>13 DEF PluginDrops
  <2>14. CASE ConnectionEnds
    BY <2>a, <2>14 DEF ConnectionEnds
  <2>15. CASE ApplyManifest
    <3> DEFINE m == Head(channel)
    <3>1. m \in [rev : Nat, view : View]
      <4>1. channel \in Seq([rev : Nat, view : View]) /\ channel # <<>>
        BY <2>15 DEF ApplyManifest, LinkOK
      <4> QED
        BY <4>1, HeadTailProperties
    <3>2. CASE work' = work
      BY <2>15, <2>a, <3>2 DEF ApplyManifest
    <3>3. CASE work' # work
      <4> DEFINE kept == {n \in Names : m.view[n] # Absent /\ applied[n] # Absent}
      <4>1. /\ applied' = applied /\ work'.rev = m.rev /\ work'.view = m.view
            /\ work'.removed = {n \in Names : applied[n] # Absent /\ m.view[n] = Absent}
            /\ work'.changed = {n \in kept : Schema(m.view[n]) # Schema(applied[n])}
            /\ work'.added = {n \in Names : applied[n] = Absent /\ m.view[n] # Absent}
            /\ work'.toggled = {n \in kept : /\ Schema(m.view[n]) = Schema(applied[n])
                                             /\ m.view[n].visible # applied[n].visible}
        BY <2>15, <3>3 DEF ApplyManifest
      <4> HIDE DEF m
      <4>2. ASSUME NEW n \in Names,
                   n \notin work'.removed \cup work'.changed \cup work'.added \cup work'.toggled
            PROVE  applied'[n] = work'.view[n]
        <5>1. applied[n] \in Desc /\ m.view[n] \in Desc
          BY <3>1 DEF WorkInv, WorkOK, View
        <5>2. CASE applied[n] = Absent \/ m.view[n] = Absent
          BY <4>1, <4>2, <5>2
        <5>3. CASE n \in kept
          BY <4>1, <4>2, <5>1, <5>3, SameDesc
        <5> QED
          BY <5>2, <5>3
      <4>3. work'.rev # -1
        BY <3>1, <4>1
      <4>4. \A n \in work'.toggled : Schema(applied'[n]) = Schema(work'.view[n])
        BY <4>1
      <4> QED
        BY <4>2, <4>3, <4>4 DEF DiffInv
    <3> QED
      BY <3>2, <3>3
  <2>16. ASSUME NEW n \in Names, RemovedOne(n), StepsAlone PROVE DiffInv'
    <3>1. /\ n \in work.removed /\ work # Idle /\ work' = [work EXCEPT !.removed = @ \ {n}]
          /\ applied' = [applied EXCEPT ![n] = Absent]
      BY <2>16 DEF RemovedOne, Idle
    <3>2. /\ work'.rev = work.rev /\ work'.view = work.view /\ work'.removed = work.removed \ {n}
          /\ work'.changed = work.changed
          /\ work'.added = work.added
          /\ work'.toggled = work.toggled
      BY <3>1 DEF WorkInv, WorkOK
    <3>3. applied'[n] = work.view[n] /\ \A k \in Names \ {n} : applied'[k] = applied[k]
      BY <3>1 DEF WorkInv, WorkOK, View
    <3>4. n \notin work'.toggled
      BY <3>1, <3>2 DEF WorkInv
    <3>5. work'.toggled \subseteq Names
      BY <3>2 DEF WorkInv, WorkOK
    <3> QED
      BY <3>1, <3>2, <3>3, <3>4, <3>5 DEF DiffInv
  <2>17. ASSUME NEW n \in Names, ChangedOne(n), StepsAlone PROVE DiffInv'
    <3>1. /\ n \in work.changed /\ work # Idle /\ work' = [work EXCEPT !.changed = @ \ {n}]
          /\ applied' = [applied EXCEPT ![n] = work.view[n]]
      BY <2>17 DEF ChangedOne, Idle
    <3>2. /\ work'.rev = work.rev /\ work'.view = work.view /\ work'.changed = work.changed \ {n}
          /\ work'.removed = work.removed
          /\ work'.added = work.added
          /\ work'.toggled = work.toggled
      BY <3>1 DEF WorkInv, WorkOK
    <3>3. applied'[n] = work.view[n] /\ \A k \in Names \ {n} : applied'[k] = applied[k]
      BY <3>1 DEF WorkInv, WorkOK, View
    <3>4. n \notin work'.toggled
      BY <3>1, <3>2 DEF WorkInv
    <3>5. work'.toggled \subseteq Names
      BY <3>2 DEF WorkInv, WorkOK
    <3> QED
      BY <3>1, <3>2, <3>3, <3>4, <3>5 DEF DiffInv
  <2>18. ASSUME NEW n \in Names, AddedOne(n), StepsAlone PROVE DiffInv'
    <3>1. /\ n \in work.added /\ work # Idle /\ work' = [work EXCEPT !.added = @ \ {n}]
          /\ applied' = [applied EXCEPT ![n] = work.view[n]]
      BY <2>18 DEF AddedOne, Idle
    <3>2. /\ work'.rev = work.rev /\ work'.view = work.view /\ work'.added = work.added \ {n}
          /\ work'.removed = work.removed
          /\ work'.changed = work.changed
          /\ work'.toggled = work.toggled
      BY <3>1 DEF WorkInv, WorkOK
    <3>3. applied'[n] = work.view[n] /\ \A k \in Names \ {n} : applied'[k] = applied[k]
      BY <3>1 DEF WorkInv, WorkOK, View
    <3>4. n \notin work'.toggled
      BY <3>1, <3>2 DEF WorkInv
    <3>5. work'.toggled \subseteq Names
      BY <3>2 DEF WorkInv, WorkOK
    <3> QED
      BY <3>1, <3>2, <3>3, <3>4, <3>5 DEF DiffInv
  <2>19. ASSUME NEW n \in Names, ToggledOne(n), StepsAlone PROVE DiffInv'
    <3>1. /\ n \in work.toggled /\ work # Idle /\ work' = [work EXCEPT !.toggled = @ \ {n}]
          /\ applied' = [applied EXCEPT ![n].visible = work.view[n].visible]
      BY <2>19 DEF ToggledOne, Idle
    <3>2. /\ work'.rev = work.rev /\ work'.view = work.view /\ work'.toggled = work.toggled \ {n}
          /\ work'.removed = work.removed
          /\ work'.changed = work.changed
          /\ work'.added = work.added
      BY <3>1 DEF WorkInv, WorkOK
    <3>3. applied'[n] = [applied[n] EXCEPT !.visible = work.view[n].visible]
      BY <3>1 DEF WorkInv, WorkOK, View
    <3>4. applied[n] \in Desc /\ work.view[n] \in Desc /\ Schema(applied[n]) = Schema(work.view[n])
      BY <3>1 DEF WorkInv, WorkOK, View, DiffInv
    <3>5. applied'[n] = work.view[n]
      BY <3>3, <3>4 DEF Desc, Absent, Schema
    <3>6. \A k \in Names \ {n} : applied'[k] = applied[k]
      BY <3>1 DEF WorkInv, WorkOK, View
    <3>7. work'.toggled \subseteq Names
      BY <3>2 DEF WorkInv, WorkOK
    <3> QED
      BY <3>1, <3>2, <3>5, <3>6, <3>7 DEF DiffInv
  <2>20. CASE AppliedAll
    BY <2>20 DEF AppliedAll, DiffInv
  <2>21. CASE SinkThrows
    BY <2>21 DEF SinkThrows, DiffInv
  <2>22. CASE UNCHANGED vars
    BY <2>a, <2>22 DEF vars
  <2> QED
    BY <2>1, <2>2, <2>3, <2>4, <2>5, <2>6, <2>7, <2>8, <2>9, <2>10, <2>11,
       <2>12, <2>13, <2>14, <2>15, <2>16, <2>17, <2>18, <2>19, <2>20, <2>21,
       <2>22
       DEF Next, GameThread, Link, Sidecar, ApplyOne, StepsAlone
<1> QED
  BY <1>1, <1>2, WorkCorrect, LinkCorrect, PTL DEF Spec

(* A revision names one view: what has the revision of the registry, on    *)
(* its way or applied, is the registry.                                    *)
ViewInv ==
  /\ \A i \in 1 .. Len(channel) : channel[i].rev = revision => channel[i].view = entries
  /\ work # Idle /\ work.rev = revision => work.view = entries
  /\ work = Idle /\ last = revision => applied = entries

LEMMA ViewsCorrect == Spec => []ViewInv
<1> USE DEF registryVars, gameVars, linkVars, sidecarVars
<1>1. Init => ViewInv
  BY DEF Init, ViewInv
<1>2. ViewInv /\ DiffInv /\ RegistryOK /\ LinkOK /\ WorkInv /\ RevisionInv /\ [Next]_vars => ViewInv'
  <2> SUFFICES ASSUME ViewInv, DiffInv, RegistryOK, LinkOK, WorkInv, RevisionInv, [Next]_vars PROVE ViewInv'
    OBVIOUS
  <2>a. UNCHANGED <<channel, revision, entries, work, last, applied>> => ViewInv'
    BY DEF ViewInv
  <2>b. ASSUME NEW es, Becomes(es), UNCHANGED <<channel, work, last, applied>> PROVE ViewInv'
    <3>1. CASE es = entries
      BY <2>a, <2>b, <3>1 DEF Becomes
    <3>2. CASE es # entries
      <4>1. revision' = revision + 1 /\ revision \in Nat
        BY <2>b, <3>2 DEF Becomes, RegistryOK
      <4>2. \A i \in 1 .. Len(channel) : channel[i].rev \in Nat /\ channel[i].rev <= revision
        BY RevisionsOfChannel DEF RevisionInv
      <4>3. last # revision' /\ work.rev # revision'
        BY <4>1 DEF RevisionInv
      <4>4. \A i \in 1 .. Len(channel) : channel[i].rev # revision'
        BY <4>1, <4>2
      <4> QED
        BY <2>b, <4>3, <4>4 DEF ViewInv
    <3> QED
      BY <3>1, <3>2
  <2>c. ASSUME SendManifestLocked, UNCHANGED <<revision, entries, work, last, applied>> PROVE ViewInv'
    <3> DEFINE m == [rev |-> revision, view |-> entries]
    <3>1. CASE channel' = channel
      BY <2>a, <2>c, <3>1
    <3>2. CASE channel' = Append(channel, m)
      <4>1. m \in [rev : Nat, view : View] /\ channel \in Seq([rev : Nat, view : View])
        BY DEF RegistryOK, LinkOK
      <4>2. m.view = entries
        OBVIOUS
      <4> HIDE DEF m
      <4>3. /\ Len(channel) \in Nat /\ Len(channel') = Len(channel) + 1 /\ channel'[Len(channel) + 1] = m
            /\ \A i \in 1 .. Len(channel) : channel'[i] = channel[i]
        BY <3>2, <4>1, AppendProperties, LenProperties
      <4>4. ASSUME NEW i \in 1 .. Len(channel'), channel'[i].rev = revision PROVE channel'[i].view = entries
        <5>1. CASE i = Len(channel) + 1
          BY <4>2, <4>3, <5>1
        <5>2. CASE i \in 1 .. Len(channel)
          BY <4>3, <4>4, <5>2 DEF ViewInv
        <5> QED
          BY <4>3, <5>1, <5>2
      <4> QED
        BY <2>c, <4>4 DEF ViewInv
    <3> QED
      BY <2>c, <3>1, <3>2 DEF SendManifestLocked
  <2>d. ASSUME work # Idle, work'.rev = work.rev, work'.view = work.view,
               UNCHANGED <<channel, revision, entries, last>>
        PROVE  ViewInv'
    <3>1. work' # Idle
      BY <2>d DEF DiffInv, Idle
    <3> QED
      BY <2>d, <3>1 DEF ViewInv
  <2>1. CASE ModuleChange
    BY <2>a, <2>1 DEF ModuleChange
  <2>2. CASE RebuildClears
    <3>1. PICK es : Becomes(es)
      BY <2>2 DEF RebuildClears
    <3> QED
      BY <2>2, <2>b, <3>1 DEF RebuildClears
  <2>3. CASE RebuildSorts
    BY <2>a, <2>3 DEF RebuildSorts
  <2>4. CASE RegisterExtension
    <3>1. PICK es : Becomes(es)
      BY <2>4 DEF RegisterExtension
    <3> QED
      BY <2>4, <2>b, <3>1 DEF RegisterExtension
  <2>5. CASE RebuildNotifies
    BY <2>a, <2>5 DEF RebuildNotifies
  <2>6. CASE PushManifest
    BY <2>a, <2>6 DEF PushManifest
  <2>7. CASE PushWrites
    BY <2>7, <2>c DEF PushWrites
  <2>8. ASSUME NEW e \in Ids, SetExtensionEnabled(e) PROVE ViewInv'
    BY <2>a, <2>8 DEF SetExtensionEnabled
  <2>9. ASSUME NEW n \in Names, ApplyHiddenTools(n) PROVE ViewInv'
    <3>1. PICK es : Becomes(es)
      BY <2>9 DEF ApplyHiddenTools
    <3> QED
      BY <2>9, <2>b, <3>1 DEF ApplyHiddenTools
  <2>10. CASE Dial
    BY <2>a, <2>10 DEF Dial
  <2>11. CASE HandshakeOk
    BY <2>a, <2>11 DEF HandshakeOk
  <2>12. CASE HandshakeManifest
    BY <2>12, <2>c DEF HandshakeManifest
  <2>13. CASE PluginDrops
    BY <2>a, <2>13 DEF PluginDrops
  <2>14. CASE ConnectionEnds
    BY <2>14 DEF ConnectionEnds, ViewInv, RegistryOK
  <2>15. CASE ApplyManifest
    <3> DEFINE m == Head(channel)
    <3>1. /\ channel \in Seq([rev : Nat, view : View]) /\ channel # <<>> /\ channel' = Tail(channel)
          /\ work = Idle /\ UNCHANGED <<revision, entries, last, applied>>
      BY <2>15 DEF ApplyManifest, LinkOK
    <3>2. /\ Len(channel) \in Nat \ {0} /\ m = channel[1] /\ Len(channel') = Len(channel) - 1
          /\ \A i \in 1 .. Len(channel') : channel'[i] = channel[i + 1]
      BY <3>1, HeadTailProperties, EmptySeq, LenProperties
    <3>3. \A i \in 1 .. Len(channel') : channel'[i].rev = revision => channel'[i].view = entries
      <4> SUFFICES ASSUME NEW i \in 1 .. Len(channel'), channel'[i].rev = revision PROVE channel'[i].view = entries
        OBVIOUS
      <4>1. i + 1 \in 1 .. Len(channel) /\ channel'[i] = channel[i + 1]
        BY <3>2
      <4> QED
        BY <4>1 DEF ViewInv
    <3>4. m.rev = revision => m.view = entries
      <4>1. 1 \in 1 .. Len(channel)
        BY <3>2
      <4> QED
        BY <3>2, <4>1 DEF ViewInv
    <3>5. work' = work \/ (work'.rev = m.rev /\ work'.view = m.view /\ work' # work)
      BY <2>15 DEF ApplyManifest
    <3>6. work' # Idle /\ work'.rev = revision => work'.view = entries
      BY <3>1, <3>4, <3>5
    <3>7. work' = Idle /\ last = revision => applied = entries
      BY <3>1 DEF ViewInv
    <3> QED
      BY <3>1, <3>3, <3>6, <3>7 DEF ViewInv
  <2>16. ASSUME NEW n \in Names, RemovedOne(n), StepsAlone PROVE ViewInv'
    <3>1. n \in work.removed /\ work' = [work EXCEPT !.removed = @ \ {n}]
      BY <2>16 DEF RemovedOne
    <3>2. work # Idle /\ work'.rev = work.rev /\ work'.view = work.view
      BY <3>1 DEF WorkInv, WorkOK, Idle
    <3> QED
      BY <2>16, <2>d, <3>2 DEF StepsAlone
  <2>17. ASSUME NEW n \in Names, ChangedOne(n), StepsAlone PROVE ViewInv'
    <3>1. n \in work.changed /\ work' = [work EXCEPT !.changed = @ \ {n}]
      BY <2>17 DEF ChangedOne
    <3>2. work # Idle /\ work'.rev = work.rev /\ work'.view = work.view
      BY <3>1 DEF WorkInv, WorkOK, Idle
    <3> QED
      BY <2>17, <2>d, <3>2 DEF StepsAlone
  <2>18. ASSUME NEW n \in Names, AddedOne(n), StepsAlone PROVE ViewInv'
    <3>1. n \in work.added /\ work' = [work EXCEPT !.added = @ \ {n}]
      BY <2>18 DEF AddedOne
    <3>2. work # Idle /\ work'.rev = work.rev /\ work'.view = work.view
      BY <3>1 DEF WorkInv, WorkOK, Idle
    <3> QED
      BY <2>18, <2>d, <3>2 DEF StepsAlone
  <2>19. ASSUME NEW n \in Names, ToggledOne(n), StepsAlone PROVE ViewInv'
    <3>1. n \in work.toggled /\ work' = [work EXCEPT !.toggled = @ \ {n}]
      BY <2>19 DEF ToggledOne
    <3>2. work # Idle /\ work'.rev = work.rev /\ work'.view = work.view
      BY <3>1 DEF WorkInv, WorkOK, Idle
    <3> QED
      BY <2>19, <2>d, <3>2 DEF StepsAlone
  <2>20. CASE AppliedAll
    <3>1. /\ work # Idle /\ work' = Idle /\ last' = work.rev /\ UNCHANGED <<channel, revision, entries, applied>>
          /\ work.removed = {} /\ work.changed = {} /\ work.added = {} /\ work.toggled = {}
      BY <2>20 DEF AppliedAll
    <3>2. \A n \in Names : applied[n] = work.view[n]
      BY <3>1 DEF DiffInv
    <3>3. last' = revision => \A n \in Names : applied[n] = entries[n]
      BY <3>1, <3>2 DEF ViewInv
    <3>4. last' = revision => applied = entries
      BY <3>3 DEF WorkInv, WorkOK, RegistryOK, View
    <3> QED
      BY <3>1, <3>4 DEF ViewInv
  <2>21. CASE SinkThrows
    BY <2>21 DEF SinkThrows, ViewInv, RegistryOK
  <2>22. CASE UNCHANGED vars
    BY <2>a, <2>22 DEF vars
  <2> QED
    BY <2>1, <2>2, <2>3, <2>4, <2>5, <2>6, <2>7, <2>8, <2>9, <2>10, <2>11,
       <2>12, <2>13, <2>14, <2>15, <2>16, <2>17, <2>18, <2>19, <2>20, <2>21,
       <2>22
       DEF Next, GameThread, Link, Sidecar, ApplyOne, StepsAlone
<1> QED
  BY <1>1, <1>2, DiffCorrect, RegistryCorrect, LinkCorrect, WorkCorrect, RevisionsCorrect, PTL DEF Spec

(* When the game thread is idle, the last manifest on its way to a         *)
(* connection that has been answered is the registry's.                    *)
Arriving == IF channel # <<>> THEN channel[Len(channel)].rev
            ELSE IF work # Idle THEN work.rev ELSE last

DeliveredInv == link = "ready" /\ gpc = "idle" => Arriving = revision

LEMMA DeliveryCorrect == Spec => []DeliveredInv
<1> USE DEF registryVars, gameVars, linkVars, sidecarVars
<1>1. Init => DeliveredInv
  BY DEF Init, DeliveredInv
<1>2. DeliveredInv /\ DiffInv /\ RegistryOK /\ LinkOK /\ WorkInv /\ RevisionInv /\ [Next]_vars => DeliveredInv'
  <2> SUFFICES ASSUME DeliveredInv, DiffInv, RegistryOK, LinkOK, WorkInv, RevisionInv, [Next]_vars
               PROVE  DeliveredInv'
    OBVIOUS
  <2>a. UNCHANGED <<link, gpc, channel, work, last, revision>> => DeliveredInv'
    BY DEF DeliveredInv, Arriving
  <2>b. ASSUME channel' = Append(channel, [rev |-> revision, view |-> entries]), UNCHANGED revision
        PROVE  Arriving' = revision'
    <3> DEFINE m == [rev |-> revision, view |-> entries]
    <3>1. m \in [rev : Nat, view : View] /\ channel \in Seq([rev : Nat, view : View]) /\ m.rev = revision
      BY DEF RegistryOK, LinkOK
    <3> HIDE DEF m
    <3>2. channel' = Append(channel, m)
      BY <2>b DEF m
    <3>3. Len(channel) \in Nat /\ Len(channel') = Len(channel) + 1 /\ channel'[Len(channel')] = m
      BY <3>1, <3>2, AppendProperties, LenProperties
    <3>4. channel' # <<>>
      BY <3>3
    <3> QED
      BY <2>b, <3>1, <3>3, <3>4 DEF Arriving
  <2>1. CASE ModuleChange
    BY <2>1 DEF ModuleChange, DeliveredInv
  <2>2. CASE RebuildClears
    BY <2>2 DEF RebuildClears, DeliveredInv
  <2>3. CASE RebuildSorts
    BY <2>3 DEF RebuildSorts, DeliveredInv
  <2>4. CASE RegisterExtension
    BY <2>4 DEF RegisterExtension, DeliveredInv
  <2>5. CASE RebuildNotifies
    BY <2>5 DEF RebuildNotifies, DeliveredInv
  <2>6. CASE PushManifest
    BY <2>6 DEF PushManifest, PushDone, DeliveredInv
  <2>7. CASE PushWrites
    <3>1. CASE link = "ready"
      BY <2>7, <2>b, <3>1 DEF PushWrites, SendManifestLocked, DeliveredInv
    <3>2. CASE link # "ready"
      BY <2>7, <3>2 DEF PushWrites, DeliveredInv
    <3> QED
      BY <3>1, <3>2
  <2>8. ASSUME NEW e \in Ids, SetExtensionEnabled(e) PROVE DeliveredInv'
    BY <2>8 DEF SetExtensionEnabled, DeliveredInv
  <2>9. ASSUME NEW n \in Names, ApplyHiddenTools(n) PROVE DeliveredInv'
    BY <2>9 DEF ApplyHiddenTools, DeliveredInv
  <2>10. CASE Dial
    BY <2>10 DEF Dial, DeliveredInv
  <2>11. CASE HandshakeOk
    BY <2>11 DEF HandshakeOk, DeliveredInv
  <2>12. CASE HandshakeManifest
    BY <2>12, <2>b DEF HandshakeManifest, SendManifestLocked, DeliveredInv
  <2>13. CASE PluginDrops
    BY <2>13 DEF PluginDrops, DeliveredInv
  <2>14. CASE ConnectionEnds
    BY <2>14 DEF ConnectionEnds, DeliveredInv
  <2>15. CASE ApplyManifest
    <3>1. /\ channel \in Seq([rev : Nat, view : View]) /\ channel # <<>> /\ channel' = Tail(channel)
          /\ work = Idle /\ UNCHANGED <<link, gpc, revision, last>>
      BY <2>15 DEF ApplyManifest, LinkOK
    <3>2. /\ Len(channel) \in Nat \ {0} /\ Head(channel) = channel[1] /\ Len(channel') = Len(channel) - 1
          /\ channel' \in Seq([rev : Nat, view : View])
          /\ \A i \in 1 .. Len(channel') : channel'[i] = channel[i + 1]
      BY <3>1, HeadTailProperties, EmptySeq, LenProperties
    <3> SUFFICES ASSUME link = "ready", gpc = "idle" PROVE Arriving' = revision
      BY <3>1 DEF DeliveredInv
    <3>3. channel[Len(channel)].rev = revision
      BY <3>1 DEF DeliveredInv, Arriving
    <3>4. CASE channel' # <<>>
      <4>1. Len(channel') \in Nat \ {0}
        BY <3>2, <3>4, EmptySeq, LenProperties
      <4>2. channel'[Len(channel')] = channel[Len(channel)]
        BY <3>2, <4>1
      <4> QED
        BY <3>3, <3>4, <4>2 DEF Arriving
    <3>5. CASE channel' = <<>>
      <4>1. Len(channel) = 1
        BY <3>2, <3>5
      <4>2. channel[1].rev = revision
        BY <3>3, <4>1
      <4>3. CASE channel[1].rev <= last
        <5>1. work' = Idle
          BY <2>15, <3>1, <3>2, <4>3 DEF ApplyManifest
        <5>2. last = revision
          BY <4>2, <4>3 DEF RevisionInv, RegistryOK
        <5> QED
          BY <3>1, <3>5, <5>1, <5>2 DEF Arriving
      <4>4. CASE ~(channel[1].rev <= last)
        <5>1. work'.rev = channel[1].rev
          BY <2>15, <3>2, <4>4 DEF ApplyManifest
        <5>2. work' # Idle
          BY <4>2, <5>1 DEF Idle, RegistryOK
        <5> QED
          BY <3>5, <4>2, <5>1, <5>2 DEF Arriving
      <4> QED
        BY <4>3, <4>4
    <3> QED
      BY <3>4, <3>5
  <2>16. ASSUME NEW n \in Names, RemovedOne(n), StepsAlone PROVE DeliveredInv'
    <3>1. n \in work.removed /\ work' = [work EXCEPT !.removed = @ \ {n}]
      BY <2>16 DEF RemovedOne
    <3>2. work # Idle /\ work'.rev = work.rev
      BY <3>1 DEF WorkInv, WorkOK, Idle
    <3>3. work' # Idle
      BY <3>2 DEF DiffInv, Idle
    <3> QED
      BY <2>16, <3>2, <3>3 DEF StepsAlone, DeliveredInv, Arriving
  <2>17. ASSUME NEW n \in Names, ChangedOne(n), StepsAlone PROVE DeliveredInv'
    <3>1. n \in work.changed /\ work' = [work EXCEPT !.changed = @ \ {n}]
      BY <2>17 DEF ChangedOne
    <3>2. work # Idle /\ work'.rev = work.rev
      BY <3>1 DEF WorkInv, WorkOK, Idle
    <3>3. work' # Idle
      BY <3>2 DEF DiffInv, Idle
    <3> QED
      BY <2>17, <3>2, <3>3 DEF StepsAlone, DeliveredInv, Arriving
  <2>18. ASSUME NEW n \in Names, AddedOne(n), StepsAlone PROVE DeliveredInv'
    <3>1. n \in work.added /\ work' = [work EXCEPT !.added = @ \ {n}]
      BY <2>18 DEF AddedOne
    <3>2. work # Idle /\ work'.rev = work.rev
      BY <3>1 DEF WorkInv, WorkOK, Idle
    <3>3. work' # Idle
      BY <3>2 DEF DiffInv, Idle
    <3> QED
      BY <2>18, <3>2, <3>3 DEF StepsAlone, DeliveredInv, Arriving
  <2>19. ASSUME NEW n \in Names, ToggledOne(n), StepsAlone PROVE DeliveredInv'
    <3>1. n \in work.toggled /\ work' = [work EXCEPT !.toggled = @ \ {n}]
      BY <2>19 DEF ToggledOne
    <3>2. work # Idle /\ work'.rev = work.rev
      BY <3>1 DEF WorkInv, WorkOK, Idle
    <3>3. work' # Idle
      BY <3>2 DEF DiffInv, Idle
    <3> QED
      BY <2>19, <3>2, <3>3 DEF StepsAlone, DeliveredInv, Arriving
  <2>20. CASE AppliedAll
    BY <2>20 DEF AppliedAll, DeliveredInv, Arriving
  <2>21. CASE SinkThrows
    BY <2>21 DEF SinkThrows, DeliveredInv
  <2>22. CASE UNCHANGED vars
    BY <2>a, <2>22 DEF vars
  <2> QED
    BY <2>1, <2>2, <2>3, <2>4, <2>5, <2>6, <2>7, <2>8, <2>9, <2>10, <2>11,
       <2>12, <2>13, <2>14, <2>15, <2>16, <2>17, <2>18, <2>19, <2>20, <2>21,
       <2>22
       DEF Next, GameThread, Link, Sidecar, ApplyOne, StepsAlone
<1> QED
  BY <1>1, <1>2, DiffCorrect, RegistryCorrect, LinkCorrect, WorkCorrect, RevisionsCorrect, PTL DEF Spec

(* A proxy is on the surface of its tool, and no tool is without one       *)
(* unless a sink threw.                                                    *)
ProxyInv ==
  /\ faults \in Nat
  /\ \A s \in Surfaces, n \in Names : proxies[s][n] # Absent => proxies[s][n].surface = s
  /\ faults = 0 => \A n \in Names : applied[n] # Absent => proxies[applied[n].surface][n] # Absent

LEMMA ProxiesComplete == Spec => []ProxyInv
<1> USE DEF registryVars, gameVars, linkVars, sidecarVars
<1>1. Init => ProxyInv
  BY DEF Init, ProxyInv
<1>2. ProxyInv /\ WorkInv /\ [Next]_vars => ProxyInv'
  <2> SUFFICES ASSUME ProxyInv, WorkInv, [Next]_vars PROVE ProxyInv'
    OBVIOUS
  <2>a. UNCHANGED <<applied, proxies, faults>> => ProxyInv'
    BY DEF ProxyInv
  <2>1. CASE ModuleChange
    BY <2>a, <2>1 DEF ModuleChange
  <2>2. CASE RebuildClears
    BY <2>a, <2>2 DEF RebuildClears
  <2>3. CASE RebuildSorts
    BY <2>a, <2>3 DEF RebuildSorts
  <2>4. CASE RegisterExtension
    BY <2>a, <2>4 DEF RegisterExtension
  <2>5. CASE RebuildNotifies
    BY <2>a, <2>5 DEF RebuildNotifies
  <2>6. CASE PushManifest
    BY <2>a, <2>6 DEF PushManifest
  <2>7. CASE PushWrites
    BY <2>a, <2>7 DEF PushWrites
  <2>8. ASSUME NEW e \in Ids, SetExtensionEnabled(e) PROVE ProxyInv'
    BY <2>a, <2>8 DEF SetExtensionEnabled
  <2>9. ASSUME NEW n \in Names, ApplyHiddenTools(n) PROVE ProxyInv'
    BY <2>a, <2>9 DEF ApplyHiddenTools
  <2>10. CASE Dial
    BY <2>a, <2>10 DEF Dial
  <2>11. CASE HandshakeOk
    BY <2>a, <2>11 DEF HandshakeOk
  <2>12. CASE HandshakeManifest
    BY <2>a, <2>12 DEF HandshakeManifest
  <2>13. CASE PluginDrops
    BY <2>a, <2>13 DEF PluginDrops
  <2>14. CASE ConnectionEnds
    BY <2>a, <2>14 DEF ConnectionEnds
  <2>15. CASE ApplyManifest
    BY <2>a, <2>15 DEF ApplyManifest
  <2>16. ASSUME NEW n \in Names, RemovedOne(n), StepsAlone PROVE ProxyInv'
    <3>1. /\ proxies \in [Surfaces -> View] /\ applied \in View /\ routed \in [Names -> Surfaces \cup {"none"}]
          /\ faults' = faults
      BY <2>16 DEF WorkInv, WorkOK, StepsAlone
    <3>2. /\ applied' = [applied EXCEPT ![n] = Absent]
          /\ \A s \in Surfaces : proxies'[s] = IF routed[n] \in {s, "none"} THEN [proxies[s] EXCEPT ![n] = Absent]
                                               ELSE proxies[s]
      BY <2>16 DEF RemovedOne, WithoutTool
    <3>3. ASSUME NEW s \in Surfaces, NEW m \in Names
          PROVE  /\ proxies'[s][m] # Absent => proxies'[s][m] = proxies[s][m]
                 /\ m # n => proxies'[s][m] = proxies[s][m]
      BY <3>1, <3>2 DEF View
    <3>4. \A m \in Names : applied'[m] # Absent => m # n /\ applied'[m] = applied[m]
      BY <3>1, <3>2 DEF View
    <3>5. \A m \in Names : applied[m] # Absent => applied[m].surface \in Surfaces
      BY <3>1 DEF View, Desc
    <3> QED
      BY <3>1, <3>3, <3>4, <3>5 DEF ProxyInv
  <2>17. ASSUME NEW n \in Names, ChangedOne(n), StepsAlone PROVE ProxyInv'
    <3>1. /\ proxies \in [Surfaces -> View] /\ applied \in View /\ routed \in [Names -> Surfaces \cup {"none"}]
          /\ faults' = faults
      BY <2>17 DEF WorkInv, WorkOK, StepsAlone
    <3> DEFINE d == work.view[n]
    <3>2. d \in Desc /\ d # Absent /\ d.surface \in Surfaces
      BY <2>17 DEF ChangedOne, WorkInv, WorkOK, View, Desc
    <3>3. applied' = [applied EXCEPT ![n] = d]
      BY <2>17 DEF ChangedOne
    <3>4. WithoutTool(n) \in [Surfaces -> View] /\ \A s \in Surfaces, m \in Names :
            WithoutTool(n)[s][m] = proxies[s][m] \/ (m = n /\ WithoutTool(n)[s][m] = Absent)
      BY <3>1, RemovalIsTyped DEF WithoutTool, View
    <3>5. \A s \in Surfaces : proxies'[s] = IF s = d.surface THEN [WithoutTool(n)[s] EXCEPT ![n] = d]
                                            ELSE WithoutTool(n)[s]
      BY <2>17, <3>2, <3>4 DEF ChangedOne, WithTool
    <3> HIDE DEF d
    <3>6. ASSUME NEW s \in Surfaces, NEW m \in Names
          PROVE  /\ proxies'[s][m] # Absent => (m = n /\ s = d.surface /\ proxies'[s][m] = d) \/ proxies'[s][m] = proxies[s][m]
                 /\ m # n => proxies'[s][m] = proxies[s][m]
                 /\ m = n /\ s = d.surface => proxies'[s][m] = d
      <4>1. CASE s = d.surface
        <5>1. /\ DOMAIN WithoutTool(n)[s] = Names /\ proxies'[s] = [WithoutTool(n)[s] EXCEPT ![n] = d]
              /\ m # n => WithoutTool(n)[s][m] = proxies[s][m]
          BY <3>1, <3>4, <3>5, <4>1 DEF View
        <5> QED
          BY <4>1, <5>1
      <4>2. CASE s # d.surface
        <5>1. proxies'[s] = WithoutTool(n)[s]
          BY <3>5, <4>2
        <5>2. WithoutTool(n)[s][m] = proxies[s][m] \/ (m = n /\ WithoutTool(n)[s][m] = Absent)
          BY <3>4
        <5> QED
          BY <4>2, <5>1, <5>2
      <4> QED
        BY <4>1, <4>2
    <3>7. \A s \in Surfaces, m \in Names : proxies'[s][m] # Absent => proxies'[s][m].surface = s
      BY <3>6 DEF ProxyInv
    <3>8. \A m \in Names : applied'[m] = IF m = n THEN d ELSE applied[m]
      BY <3>1, <3>3 DEF View
    <3>9. \A m \in Names : applied[m] # Absent => applied[m].surface \in Surfaces
      BY <3>1 DEF View, Desc
    <3>10. ASSUME faults = 0, NEW m \in Names, applied'[m] # Absent PROVE proxies'[applied'[m].surface][m] # Absent
      <4>1. CASE m = n
        BY <3>2, <3>6, <3>8, <4>1
      <4>2. CASE m # n
        BY <3>6, <3>8, <3>9, <3>10, <4>2 DEF ProxyInv
      <4> QED
        BY <4>1, <4>2
    <3> QED
      BY <3>1, <3>7, <3>10 DEF ProxyInv
  <2>18. ASSUME NEW n \in Names, AddedOne(n), StepsAlone PROVE ProxyInv'
    <3>1. /\ proxies \in [Surfaces -> View] /\ applied \in View /\ routed \in [Names -> Surfaces \cup {"none"}]
          /\ faults' = faults
      BY <2>18 DEF WorkInv, WorkOK, StepsAlone
    <3> DEFINE d == work.view[n]
    <3>2. d \in Desc /\ d # Absent /\ d.surface \in Surfaces
      BY <2>18 DEF AddedOne, WorkInv, WorkOK, View, Desc
    <3>3. applied' = [applied EXCEPT ![n] = d]
      BY <2>18 DEF AddedOne
    <3>4. \A s \in Surfaces : proxies[s] \in View
      BY <3>1
    <3>5. \A s \in Surfaces : proxies'[s] = IF s = d.surface THEN [proxies[s] EXCEPT ![n] = d] ELSE proxies[s]
      BY <2>18, <3>1, <3>2 DEF AddedOne, WithTool
    <3> HIDE DEF d
    <3>6. ASSUME NEW s \in Surfaces, NEW m \in Names
          PROVE  /\ proxies'[s][m] # Absent => (m = n /\ s = d.surface /\ proxies'[s][m] = d) \/ proxies'[s][m] = proxies[s][m]
                 /\ m # n => proxies'[s][m] = proxies[s][m]
                 /\ m = n /\ s = d.surface => proxies'[s][m] = d
      <4>1. CASE s = d.surface
        <5>1. DOMAIN proxies[s] = Names /\ proxies'[s] = [proxies[s] EXCEPT ![n] = d]
          BY <3>4, <3>5, <4>1 DEF View
        <5> QED
          BY <4>1, <5>1
      <4>2. CASE s # d.surface
        BY <3>5, <4>2
      <4> QED
        BY <4>1, <4>2
    <3>7. \A s \in Surfaces, m \in Names : proxies'[s][m] # Absent => proxies'[s][m].surface = s
      BY <3>6 DEF ProxyInv
    <3>8. \A m \in Names : applied'[m] = IF m = n THEN d ELSE applied[m]
      BY <3>1, <3>3 DEF View
    <3>9. \A m \in Names : applied[m] # Absent => applied[m].surface \in Surfaces
      BY <3>1 DEF View, Desc
    <3>10. ASSUME faults = 0, NEW m \in Names, applied'[m] # Absent PROVE proxies'[applied'[m].surface][m] # Absent
      <4>1. CASE m = n
        BY <3>2, <3>6, <3>8, <4>1
      <4>2. CASE m # n
        BY <3>6, <3>8, <3>9, <3>10, <4>2 DEF ProxyInv
      <4> QED
        BY <4>1, <4>2
    <3> QED
      BY <3>1, <3>7, <3>10 DEF ProxyInv
  <2>19. ASSUME NEW n \in Names, ToggledOne(n), StepsAlone PROVE ProxyInv'
    <3>1. /\ proxies \in [Surfaces -> View] /\ applied \in View /\ routed \in [Names -> Surfaces \cup {"none"}]
          /\ faults' = faults
      BY <2>19 DEF WorkInv, WorkOK, StepsAlone
    <3> DEFINE b == work.view[n].visible
    <3>2. /\ applied' = [applied EXCEPT ![n].visible = b] /\ applied[n] # Absent
          /\ \A s \in Surfaces : proxies'[s] = IF routed[n] \in {s, "none"} /\ proxies[s][n] # Absent
                                               THEN [proxies[s] EXCEPT ![n].visible = b] ELSE proxies[s]
      BY <2>19 DEF ToggledOne, WorkInv
    <3> HIDE DEF b
    <3>3. \A m \in Names : applied[m] \in Desc /\ \A s \in Surfaces : proxies[s][m] \in Desc
      BY <3>1 DEF View
    <3>4. ASSUME NEW s \in Surfaces, NEW m \in Names
          PROVE  \/ proxies'[s][m] = proxies[s][m]
                 \/ proxies[s][m] # Absent /\ proxies'[s][m] = [proxies[s][m] EXCEPT !.visible = b]
      BY <3>1, <3>2 DEF View
    <3>5. \A d \in Desc : [d EXCEPT !.visible = b].surface = d.surface /\ (d # Absent => d.surface \in Surfaces)
      BY DEF Desc, Absent
    <3>6. Absent.surface \notin Surfaces
      BY DEF Absent, Surfaces
    <3>7. ASSUME NEW s \in Surfaces, NEW m \in Names
          PROVE  /\ proxies'[s][m] # Absent <=> proxies[s][m] # Absent
                 /\ proxies'[s][m].surface = proxies[s][m].surface
      <4>1. CASE proxies'[s][m] = proxies[s][m]
        BY <4>1
      <4>2. CASE proxies[s][m] # Absent /\ proxies'[s][m] = [proxies[s][m] EXCEPT !.visible = b]
        <5>1. /\ [proxies[s][m] EXCEPT !.visible = b].surface = proxies[s][m].surface
              /\ proxies[s][m].surface \in Surfaces
          BY <3>3, <3>5, <4>2
        <5>2. proxies'[s][m].surface = proxies[s][m].surface
          BY <4>2, <5>1
        <5> QED
          BY <3>6, <4>2, <5>1, <5>2
      <4> QED
        BY <3>4, <4>1, <4>2
    <3>8. ASSUME NEW m \in Names, applied'[m] # Absent
          PROVE  applied[m] # Absent /\ applied'[m].surface = applied[m].surface /\ applied[m].surface \in Surfaces
      <4>1. CASE m = n
        <5>1. applied'[m] = [applied[m] EXCEPT !.visible = b]
          BY <3>1, <3>2, <4>1 DEF View
        <5>2. [applied[m] EXCEPT !.visible = b].surface = applied[m].surface
          BY <3>3, <3>5
        <5>3. applied[m] # Absent /\ applied[m] \in Desc
          BY <3>2, <3>3, <4>1
        <5>4. applied[m].surface \in Surfaces
          BY <5>3 DEF Desc
        <5> QED
          BY <5>1, <5>2, <5>3, <5>4
      <4>2. CASE m # n
        BY <3>1, <3>2, <3>3, <3>5, <3>8, <4>2 DEF View
      <4> QED
        BY <4>1, <4>2
    <3> QED
      BY <3>1, <3>7, <3>8 DEF ProxyInv
  <2>20. CASE AppliedAll
    BY <2>a, <2>20 DEF AppliedAll
  <2>21. CASE SinkThrows
    <3>1. faults' = faults + 1 /\ faults \in Nat
      BY <2>21 DEF SinkThrows, ProxyInv
    <3>2. ASSUME NEW s \in Surfaces, NEW m \in Names, proxies'[s][m] # Absent PROVE proxies'[s][m] = proxies[s][m]
      <4>1. CASE proxies' = proxies
        BY <4>1
      <4>2. CASE \E n \in Names : proxies' = WithoutTool(n)
        <5>1. PICK n \in Names : proxies' = WithoutTool(n)
          BY <4>2
        <5>2. n \in Names /\ proxies \in [Surfaces -> View]
          BY DEF WorkInv, WorkOK
        <5>3. proxies'[s] = IF routed[n] \in {s, "none"} THEN [proxies[s] EXCEPT ![n] = Absent] ELSE proxies[s]
          BY <5>1 DEF WithoutTool
        <5> QED
          BY <3>2, <5>2, <5>3 DEF View
      <4>3. work.removed \cup work.changed \in SUBSET Names
        BY DEF WorkInv, WorkOK
      <4> QED
        BY <2>21, <4>1, <4>2, <4>3 DEF SinkThrows
    <3> QED
      BY <3>1, <3>2 DEF ProxyInv
  <2>22. CASE UNCHANGED vars
    BY <2>a, <2>22 DEF vars
  <2> QED
    BY <2>1, <2>2, <2>3, <2>4, <2>5, <2>6, <2>7, <2>8, <2>9, <2>10, <2>11,
       <2>12, <2>13, <2>14, <2>15, <2>16, <2>17, <2>18, <2>19, <2>20, <2>21,
       <2>22
       DEF Next, GameThread, Link, Sidecar, ApplyOne, StepsAlone
<1> QED
  BY <1>1, <1>2, WorkCorrect, PTL DEF Spec

(* A tool is never on two surfaces, and the sidecar knows the one it is on. *)
THEOREM OneSurface == Spec => []NoStrayProxy
<1>1. PlacedInv /\ ProxyInv => NoStrayProxy
  BY DEF PlacedInv, ProxyInv, NoStrayProxy
<1> QED
  BY <1>1, ProxiesCorrect, ProxiesComplete, PTL

-----------------------------------------------------------------------------
(* Once nothing is under way the client sees what the editor promises, on  *)
(* the right surface, whatever rebuilds, pushes, handshakes and lost links *)
(* came before; a sink that threw may have left a tool out, never a wrong  *)
(* one.                                                                    *)
THEOREM QuietIsMirrored == Spec => []QuietMirrors
<1>1. ASSUME RegistryOK, FlagOK, RebuildInv, ViewInv, DeliveredInv, ProxyInv, WorkInv, NoStrayProxy
      PROVE  QuietMirrors
  <2> SUFFICES ASSUME Quiet, NEW n \in Names, NEW s \in Surfaces,
                      ~(faults > 0 /\ Served(s, n) = Absent)
               PROVE  Served(s, n) = IF Promised[n] # Absent /\ Promised[n].surface = s
                                     THEN Promised[n] ELSE Absent
    BY DEF QuietMirrors
  <2>1. last = revision
    BY <1>1 DEF Quiet, DeliveredInv, Arriving
  <2>2. applied = entries
    BY <1>1, <2>1 DEF Quiet, ViewInv
  <2>3. \A m \in Names : HoldsTool(Visited(features, disabled), m)
    BY <1>1 DEF Quiet, RebuildInv, Holds
  <2>4. applied = Promised
    BY <1>1, <2>2, <2>3, PromisedHolds
  <2>5. CASE proxies[s][n] # Absent
    <3>1. proxies[s][n] = applied[n] /\ proxies[s][n].surface = s
      BY <1>1, <2>5 DEF NoStrayProxy, ProxyInv
    <3>2. proxies[s][n] \in Desc
      BY <1>1 DEF WorkInv, WorkOK, View
    <3>3. [proxies[s][n] EXCEPT !.surface = s] = proxies[s][n]
      <4>1. \A d \in Desc : d = [ext |-> d.ext, surface |-> d.surface, visible |-> d.visible]
        BY DEF Desc, Absent
      <4>2. \A x, y, z : [[ext |-> x, surface |-> y, visible |-> z] EXCEPT !.surface = y]
                           = [ext |-> x, surface |-> y, visible |-> z]
        OBVIOUS
      <4> QED
        BY <3>1, <3>2, <4>1, <4>2
    <3>4. Served(s, n) = applied[n]
      BY <2>5, <3>1, <3>3 DEF Served
    <3> QED
      BY <2>4, <2>5, <3>1, <3>4
  <2>6. CASE proxies[s][n] = Absent
    <3>1. Served(s, n) = Absent
      BY <2>6 DEF Served
    <3>2. faults = 0
      BY <1>1, <3>1 DEF ProxyInv
    <3>3. ~(applied[n] # Absent /\ applied[n].surface = s)
      BY <1>1, <2>6, <3>2 DEF ProxyInv
    <3> QED
      BY <2>4, <3>1, <3>3
  <2> QED
    BY <2>5, <2>6
<1> QED
  BY <1>1, RegistryCorrect, FlagCorrect, RebuildCorrect, ViewsCorrect, DeliveryCorrect, ProxiesComplete,
     WorkCorrect, OneSurface, PTL

================================================================================
