---------------------------- MODULE CatalogMirror ----------------------------
(***************************************************************************)
(* What the worker promises, without its cycles, threads, snapshots and    *)
(* crashes: a package a user hands over is somewhere at every moment; it   *)
(* goes to its own place on the shelf, when that is free, or aside when it *)
(* cannot; the catalog records packages that are on the shelf and forgets  *)
(* those whose place has become empty; the published files show what the   *)
(* catalog records, and nothing whose file is missing.                     *)
(***************************************************************************)
CONSTANTS
  Packages,     \* the packages
  Paths,        \* the places of the tree
  Canonical,    \* Canonical[p] = the place on the shelf where p belongs
  Version,      \* Version[p]: two packages of one place and version share a row
  Broken,       \* packages that cannot be read
  OutFiles,     \* the files that are published
  Listed,       \* Listed[f] = the places whose packages f shows
  Outside, Gone, Aside,  \* with the user, deleted by the user, in the errors
  Absent        \* no such file

VARIABLES
  place,        \* where each package is
  rows,         \* packages recorded
  published     \* packages shown by each file

mirrorVars == <<place, rows, published>>

InTree(p) == place[p] \in Paths
Taken(x) == \E p \in Packages : place[p] = x
SameRow(p, q) == Canonical[p] = Canonical[q] /\ Version[p] = Version[q]

Init ==
  /\ place = [p \in Packages |-> Outside]
  /\ rows = {}
  /\ published = [f \in OutFiles |-> Absent]

-----------------------------------------------------------------------------
(* The user.                                                               *)

Put(p, x) ==
  /\ place[p] = Outside
  /\ place' = [q \in Packages |-> IF q = p THEN x
                                  ELSE IF place[q] = x THEN Gone ELSE place[q]]
  /\ UNCHANGED <<rows, published>>

Remove(p) ==
  /\ InTree(p)
  /\ \E to \in {Outside, Gone} : place' = [place EXCEPT ![p] = to]
  /\ UNCHANGED <<rows, published>>

-----------------------------------------------------------------------------
(* The worker.                                                             *)

Shelve(p) ==
  /\ InTree(p)
  /\ p \notin Broken
  /\ ~Taken(Canonical[p])
  /\ place' = [place EXCEPT ![p] = Canonical[p]]
  /\ UNCHANGED <<rows, published>>

SetAside(p) ==
  /\ InTree(p)
  /\ p \in Broken \/ (place[p] # Canonical[p] /\ Taken(Canonical[p]))
  /\ place' = [place EXCEPT ![p] = Aside]
  /\ UNCHANGED <<rows, published>>

Record(p) ==
  /\ place[p] = Canonical[p]
  /\ p \notin Broken
  /\ rows' = {q \in rows : ~SameRow(p, q)} \union {p}
  /\ UNCHANGED <<place, published>>

Forget ==
  /\ rows' = {p \in rows : Taken(Canonical[p])}
  /\ UNCHANGED <<place, published>>

\* A file shows every place of its own that has a row, and shows rows only.
Publish(f) ==
  /\ \A p \in rows : Taken(Canonical[p])
  /\ LET own == {p \in rows : Canonical[p] \in Listed[f]}
     IN  \E picked \in SUBSET own :
           /\ \A p \in own : \E q \in picked : Canonical[q] = Canonical[p]
           /\ published' = [published EXCEPT ![f] = picked]
  /\ UNCHANGED <<place, rows>>

Withdraw(f) ==
  /\ published' = [published EXCEPT ![f] = Absent]
  /\ UNCHANGED <<place, rows>>

Next ==
  \/ \E p \in Packages, x \in Paths : Put(p, x)
  \/ \E p \in Packages : Remove(p) \/ Shelve(p) \/ SetAside(p) \/ Record(p)
  \/ Forget
  \/ \E f \in OutFiles : Publish(f) \/ Withdraw(f)

Spec == Init /\ [][Next]_mirrorVars
=============================================================================
