------------------------- MODULE MCReconcileCatalog -------------------------
(***************************************************************************)
(* Instances of ReconcileCatalog for TLC.  "a1" and "a2" are two versions  *)
(* of one package and belong at the same path, "b1" belongs elsewhere.     *)
(***************************************************************************)
EXTENDS MirroredCatalog

MCPaths == {"in/x", "in/y", "game/A", "dlc/B"}

MCStem == [x \in MCPaths |->
             CASE x = "in/x" -> "x" [] x = "in/y" -> "y"
               [] x = "game/A" -> "A" [] x = "dlc/B" -> "B"]

MCCanonical == [p \in Packages |-> IF p \in {"a1", "a2"} THEN "game/A" ELSE "dlc/B"]

MCVersion == [p \in Packages |-> IF p = "a2" THEN 2 ELSE 1]

MCNoVersion == [p \in Packages |-> 0]

MCOutFiles == {"store.db", "GAMES.json"}

MCTargetOf == [f \in MCOutFiles |-> IF f = "store.db" THEN "hb-store" ELSE "fpkgi"]

MCListed == [f \in MCOutFiles |-> IF f = "store.db" THEN MCPaths ELSE {"game/A"}]

\* "both" and "store" are settings files, "bad" one that does not validate.
MCTargetsOf ==
  [s \in Settings |-> CASE s = "both" -> {"hb-store", "fpkgi"}
                        [] s = "store" -> {"hb-store"}
                        [] s = "bad" -> {}]
=============================================================================
