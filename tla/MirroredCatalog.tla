--------------------------- MODULE MirroredCatalog ---------------------------
(***************************************************************************)
(* ReconcileCatalog implements CatalogMirror: the places of the packages   *)
(* are read off the tree and the errors, the rows off the catalog, the     *)
(* published packages off the output files.                                *)
(***************************************************************************)
EXTENDS ReconcileCatalog

Outside == "outside"
Gone == "gone"
Aside == "aside"
Lost == "lost"

ASSUME PlacesAssumption ==
  /\ {Outside, Gone, Aside, Lost} \intersect Paths = {}
  /\ Absent \notin Listings

\* A package that is nowhere, and that no user took away, is lost: no action
\* of CatalogMirror leads there.
PlaceOf(p) ==
  IF \E x \in Paths : fs[x] = p THEN CHOOSE x \in Paths : fs[x] = p
  ELSE IF p \in discarded THEN Gone
  ELSE IF p \in unseen THEN Outside
  ELSE IF \E e \in errors : e.pkg = p THEN Aside
  ELSE Lost

MetaOf(listed) == {r.meta : r \in listed}

places == [p \in Packages |-> PlaceOf(p)]
recorded == MetaOf(catalog)
shown == [f \in OutFiles |->
            IF outputs[f] = Absent THEN Absent ELSE MetaOf(outputs[f].rows)]

Mirror == INSTANCE CatalogMirror
            WITH place <- places, rows <- recorded, published <- shown

\* ImplementsMirror: seen through this mapping every step of the worker and
\* of its users is one of CatalogMirror's, or none; whatever fails, crashes or
\* is repeated, no step loses a package, records one that is not on the shelf,
\* forgets one that is, or publishes one whose file is missing.
ImplementsMirror == Mirror!Spec
=============================================================================
