--------------------------- MODULE MCExtensionInstall ---------------------------
(* ExtensionInstall with two sound versions and one whose archive holds    *)
(* the descriptor of another plugin.                                       *)
EXTENDS ExtensionInstall

MCContents ==
  [v \in {1, 2, 3} |-> CASE v = 1 -> {"own", "module"}
                         [] v = 2 -> {"own"}
                         [] v = 3 -> {"other", "module"}]
================================================================================
