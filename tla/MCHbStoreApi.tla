---------------------------- MODULE MCHbStoreApi ----------------------------
(***************************************************************************)
(* Instance of HbStoreApi for TLC: a game and its update, rows of one      *)
(* content id in two versions.                                             *)
(***************************************************************************)
EXTENDS HbStoreApi, TLC

ThreadSymmetry == Permutations(Threads)

MCTitle == [i \in Items |-> "T"]
MCContent == [i \in Items |-> "C"]
MCVer == [i \in Items |-> IF i = "update" THEN 2 ELSE 1]
MCRank == [i \in Items |-> IF i = "game" THEN 2 ELSE 1]
MCListOrder == [i \in Items |-> IF i = "game" THEN 1 ELSE 2]
MCOldStore == [Items -> {None, 2}]

Ask(kind, content, version) ==
  [kind |-> kind, title |-> "T", content |-> content, version |-> version]

AskNothing(kind) ==
  [kind |-> kind, title |-> None, content |-> None, version |-> None]

MCRequests ==
  {Ask("get", None, None), Ask("get", "C", 1), Ask("get", "C", 2),
   Ask("head", "C", None), Ask("check", None, None), AskNothing("check")}
=============================================================================
