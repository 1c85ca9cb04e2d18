---------------------------- MODULE MCBridgeDownload ----------------------------
(* BridgeDownload with the symmetry of its editors and its builds.         *)
EXTENDS BridgeDownload, TLC

Symmetry == Permutations(Editors) \cup Permutations(Builds)
================================================================================
