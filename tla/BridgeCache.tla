------------------------------ MODULE BridgeCache ------------------------------
(***************************************************************************)
(* What the shared cache of the sidecar's binary promises (the comment of  *)
(* ExtractBridgeZip in UnrealMcpBridgeDownloader.h): a binary comes into   *)
(* it whole and with its mark, "atomically", over none; it is never        *)
(* exchanged in place and never marked later, only taken away; and a       *)
(* sidecar runs what the cache held when it was started, a build some      *)
(* editor's plugin ships.                                                  *)
(***************************************************************************)
CONSTANTS Editors, Builds, Nothing

VARIABLES
  ships,    \* the build each editor's plugin ships
  binary,   \* the build in the cache, or Nothing
  trusted,  \* whether its mark vouches for it
  running   \* the build each editor's sidecar was started from, or Nothing

cacheVars == <<ships, binary, trusted, running>>

Init ==
  /\ ships \in [Editors -> Builds]
  /\ binary \in Builds \cup {Nothing}
  /\ trusted \in BOOLEAN /\ (binary = Nothing => trusted = FALSE)
  /\ running = [e \in Editors |-> Nothing]

Place(e) ==
  /\ binary = Nothing
  /\ binary' = ships[e] /\ trusted' = TRUE
  /\ UNCHANGED <<ships, running>>

\* Its mark goes first, or the binary does.
TakeAway ==
  /\ binary # Nothing
  /\ binary' \in {binary, Nothing} /\ trusted' = FALSE
  /\ UNCHANGED <<ships, running>>

\* From a path that was resolved before: the mark may be gone by now.
Run(e) ==
  /\ binary # Nothing
  /\ running' = [running EXCEPT ![e] = binary]
  /\ UNCHANGED <<ships, binary, trusted>>

End(e) ==
  /\ running' = [running EXCEPT ![e] = Nothing]
  /\ UNCHANGED <<ships, binary, trusted>>

Next == TakeAway \/ \E e \in Editors : Place(e) \/ Run(e) \/ End(e)

Spec == Init /\ [][Next]_cacheVars
================================================================================
