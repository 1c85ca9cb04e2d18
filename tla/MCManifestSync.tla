---------------------------- MODULE MCManifestSync ----------------------------
(* ManifestSync for TLC: two providers that share an id, one with the next  *)
(* id, and names that a core tool, or another provider, has as well.        *)
EXTENDS ManifestSync

MCIdOf   == 1 :> 1 @@ 2 :> 1 @@ 3 :> 2
MCOffers == 1 :> {"ping", "move"} @@ 2 :> {"move"} @@ 3 :> {"move"}
MCStartup ==
  LET f(p, s) == [provider |-> p, surface |-> s]
  IN  {<<>>, <<f(1, "standard")>>, <<f(3, "standard"), f(1, "system")>>,
       <<f(2, "standard"), f(1, "standard"), f(3, "standard")>>}

================================================================================
