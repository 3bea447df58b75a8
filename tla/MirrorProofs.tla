----------------------------- MODULE MirrorProofs -----------------------------
(***************************************************************************)
(* ReconcileCatalog implements CatalogMirror, for every value of the       *)
(* constants and users who touch packages between cycles and hand over     *)
(* whole files: with one ingest thread whatever they do, with a pool when  *)
(* the packages they leave in the tree stay out of each other's way.       *)
(***************************************************************************)
EXTENDS MirroredCatalog, PooledCycleProofs, FiniteSetTheorems,
        WellFoundedInduction

USE PackagesAssumption, WorkersAssumption, SettingsAssumption, PlacesAssumption

-----------------------------------------------------------------------------
(* The mapping.                                                            *)

\* A package in the tree is at its path.
LEMMA PlaceInTree ==
  ASSUME StoreTypeOK, PackagesApart, NEW x \in Paths, fs[x] # NoPackage
  PROVE  fs[x] \in Packages /\ PlaceOf(fs[x]) = x
BY DEF StoreTypeOK, PackagesApart, PlaceOf

\* Only a package in the tree has a path for its place.
LEMMA PlaceIsPath ==
  ASSUME StoreTypeOK, PackagesApart, NEW p \in Packages, PlaceOf(p) \in Paths
  PROVE  fs[PlaceOf(p)] = p
<1>1. \E x \in Paths : fs[x] = p
  BY DEF PlaceOf, Outside, Gone, Aside, Lost
<1>2. PICK x \in Paths : fs[x] = p BY <1>1
<1>3. PlaceOf(p) = x BY <1>2, PlaceInTree
<1>. QED BY <1>2, <1>3

\* A place is taken when the path holds a package.
LEMMA TakenPath ==
  ASSUME StoreTypeOK, PackagesApart, NEW x \in Paths
  PROVE  Mirror!Taken(x) <=> fs[x] # NoPackage
<1>1. ASSUME fs[x] # NoPackage PROVE Mirror!Taken(x)
  BY <1>1, PlaceInTree DEF Mirror!Taken, places
<1>2. ASSUME Mirror!Taken(x) PROVE fs[x] # NoPackage
  <2>1. PICK p \in Packages : PlaceOf(p) = x BY <1>2 DEF Mirror!Taken, places
  <2>. QED BY <2>1, PlaceIsPath
<1>. QED BY <1>1, <1>2

\* The same about the next state.
LEMMA PlaceInTreeNext ==
  ASSUME StoreTypeOK', PackagesApart', NEW x \in Paths, NEW p \in Packages, fs'[x] = p
  PROVE  PlaceOf(p)' = x
BY DEF StoreTypeOK, PackagesApart, PlaceOf

\* A package nothing is done to keeps its place.
LEMMA PlaceKept ==
  ASSUME StoreTypeOK, PackagesApart, StoreTypeOK', PackagesApart', NEW q \in Packages,
         \A x \in Paths : fs'[x] = q <=> fs[x] = q,
         q \in discarded' <=> q \in discarded,
         q \in unseen' <=> q \in unseen,
         (\E e \in errors' : e.pkg = q) <=> (\E e \in errors : e.pkg = q)
  PROVE  PlaceOf(q)' = PlaceOf(q)
<1>1. CASE \E x \in Paths : fs[x] = q
  <2>1. PICK x \in Paths : fs[x] = q BY <1>1
  <2>2. PlaceOf(q) = x BY <2>1, PlaceInTree DEF StoreTypeOK
  <2>3. PlaceOf(q)' = x BY <2>1, PlaceInTreeNext
  <2>. QED BY <2>2, <2>3
<1>2. CASE ~ \E x \in Paths : fs[x] = q
  BY <1>2 DEF PlaceOf
<1>. QED BY <1>1, <1>2

\* So a step that leaves the files alone leaves the places alone.
LEMMA PlacesKept ==
  ASSUME UNCHANGED <<fs, unseen, discarded, errors>>
  PROVE  UNCHANGED places
BY DEF places, PlaceOf

-----------------------------------------------------------------------------
(* What the packages in the tree, and those at work, have behind them.     *)

\* A package that a user took away does not come back by itself.
HistoryInv ==
  /\ unseen \intersect discarded = {}
  /\ \A x \in Paths : fs[x] \notin discarded

\* There are finitely many rows.
FiniteCatalog == IsFiniteSet(catalog)

MirrorInv == HistoryInv /\ FiniteCatalog

LEMMA NextHistory ==
  ASSUME TypeInv, PackagesApart, HistoryInv, [Next]_vars
  PROVE  HistoryInv'
<1>0. StoreTypeOK BY DEF TypeInv, TypeOK
<1>1. ASSUME UNCHANGED storeVars PROVE HistoryInv'
  BY <1>1 DEF storeVars, HistoryInv
<1>2. CASE UserStep
  <2>1. ASSUME NEW p \in Packages, NEW x \in Paths, Deliver(p, x) PROVE HistoryInv'
    BY <1>0, <2>1 DEF Deliver, HistoryInv, PackagesApart, StoreTypeOK
  <2>2. ASSUME NEW p \in Packages, FinishCopy(p) PROVE HistoryInv'
    BY <2>2 DEF FinishCopy, HistoryInv
  <2>3. ASSUME NEW x \in Paths, Discard(x) PROVE HistoryInv'
    BY <1>0, <2>3 DEF Discard, HistoryInv, PackagesApart, StoreTypeOK
  <2>4. ASSUME NEW x \in Paths, PutAside(x) PROVE HistoryInv'
    BY <1>0, <2>4 DEF PutAside, HistoryInv, PackagesApart, StoreTypeOK
  <2>. QED BY <1>2, <2>1, <2>2, <2>3, <2>4 DEF UserStep
<1>3. ASSUME NEW w \in Workers, Ingest(w) PROVE HistoryInv'
  <2>1. CASE MoveToCanonical(w)
    <3>1. job[w].path \in Paths /\ Canonical[job[w].pkg] \in Paths
      BY <2>1 DEF MoveToCanonical, TypeInv, JobsOK
    <3>. QED BY <1>0, <2>1, <3>1 DEF MoveToCanonical, Rename, HistoryInv, StoreTypeOK
  <2>2. CASE Quarantine(w)
    BY <1>0, <1>1, <2>2 DEF Quarantine, MoveToErrors, HistoryInv, StoreTypeOK
  <2>3. CASE ~MoveToCanonical(w) /\ ~Quarantine(w)
    BY <1>1, <1>3, <2>3 DEF Ingest, IngestStep, Probe, ProbeFails, Claim, MoveFails,
       StatAndFingerprint, StatFails, Upsert, UpsertFails, QuarantineFails
  <2>. QED BY <2>1, <2>2, <2>3
<1>. QED BY <1>1, <1>2, <1>3, TreeKept DEF Next, User

-----------------------------------------------------------------------------
(* Steps that move packages.                                               *)

\* Files under the mapping, in both states.
TreeOK == StoreTypeOK /\ PackagesApart /\ HistoryInv

LEMMA DeliverPuts ==
  ASSUME TreeOK, TreeOK', NEW p \in Packages, NEW x \in Paths, Deliver(p, x),
         UNCHANGED <<catalog, outputs>>
  PROVE  Mirror!Put(p, x)
<1>. USE DEF TreeOK
<1>1. /\ p \in unseen /\ p \in unseen /\ unseen' = unseen \ {p}
      /\ fs' = [fs EXCEPT ![x] = p]
      /\ discarded' = discarded \union ({fs[x]} \ {NoPackage})
      /\ errors' = errors
  BY DEF Deliver
<1>2. PlaceOf(p) = Outside
  BY <1>1 DEF PlaceOf, PackagesApart, HistoryInv
<1>3. PlaceOf(p)' = x
  BY <1>1, PlaceInTreeNext DEF StoreTypeOK
<1>4. ASSUME NEW q \in Packages \ {p}
      PROVE  PlaceOf(q)' = IF PlaceOf(q) = x THEN Gone ELSE PlaceOf(q)
  <2>1. CASE PlaceOf(q) = x
    <3>1. fs[x] = q BY <2>1, PlaceIsPath
    <3>2. \A y \in Paths : fs'[y] # q
      BY <1>1, <1>4, <3>1 DEF PackagesApart, StoreTypeOK
    <3>3. q \in discarded' BY <1>1, <3>1
    <3>4. PlaceOf(q)' = Gone BY <3>2, <3>3 DEF PlaceOf
    <3>. QED BY <2>1, <3>4
  <2>2. CASE PlaceOf(q) # x
    <3>1. fs[x] # q BY <2>2, PlaceInTree DEF StoreTypeOK
    <3>2. PlaceOf(q)' = PlaceOf(q)
      BY <1>1, <1>4, <3>1, PlaceKept DEF StoreTypeOK
    <3>. QED BY <2>2, <3>2
  <2>. QED BY <2>1, <2>2
<1>5. places' = [q \in Packages |-> IF q = p THEN x
                                    ELSE IF places[q] = x THEN Gone ELSE places[q]]
  BY <1>3, <1>4 DEF places
<1>. QED BY <1>2, <1>5 DEF Mirror!Put, places, recorded, shown

LEMMA TakeAwayRemoves ==
  ASSUME TreeOK, TreeOK', NEW x \in Paths, Discard(x) \/ PutAside(x),
         NEW p \in Packages, fs[x] = p, UNCHANGED <<catalog, outputs>>
  PROVE  Mirror!Remove(p)
<1>. USE DEF TreeOK
<1>1. /\ fs' = [fs EXCEPT ![x] = NoPackage]
      /\ \/ discarded' = discarded \union {p} /\ UNCHANGED unseen
         \/ unseen' = unseen \union {p} /\ UNCHANGED discarded
      /\ UNCHANGED errors
  BY DEF Discard, PutAside
<1>2. PlaceOf(p) = x
  BY <1>1, PlaceInTree
<1>3. \A y \in Paths : fs'[y] # p
  BY <1>1 DEF PackagesApart, StoreTypeOK
<1>4. PlaceOf(p)' \in {Outside, Gone}
  BY <1>1, <1>3 DEF PlaceOf
<1>5. ASSUME NEW q \in Packages \ {p} PROVE PlaceOf(q)' = PlaceOf(q)
  BY <1>1, <1>5, PlaceKept DEF StoreTypeOK
<1>6. places' = [places EXCEPT ![p] = PlaceOf(p)']
  BY <1>1, <1>5 DEF places
<1>7. Mirror!InTree(p)
  BY <1>1, <1>2 DEF Mirror!InTree, places
<1>8. UNCHANGED <<recorded, shown>>
  BY DEF recorded, shown
<1>. QED BY <1>4, <1>6, <1>7, <1>8 DEF Mirror!Remove

LEMMA RenameShelves ==
  ASSUME TreeOK, TreeOK', NEW x \in Paths, NEW p \in Packages \ Broken, fs[x] = p,
         fs[Canonical[p]] = NoPackage, Rename(x, Canonical[p]),
         UNCHANGED <<catalog, outputs>>
  PROVE  Mirror!Shelve(p)
<1>. USE DEF TreeOK
<1>1. PICK t \in Paths : t = Canonical[p] OBVIOUS
<1>2. /\ fs' = [fs EXCEPT ![t] = p, ![x] = NoPackage] /\ x # t
      /\ UNCHANGED <<unseen, discarded, errors>>
  BY <1>1 DEF Rename
<1>3. fs'[t] = p
  BY <1>2 DEF StoreTypeOK
<1>4. PlaceOf(p) = x /\ PlaceOf(p)' = t
  BY <1>3, PlaceInTree, PlaceInTreeNext
<1>5. ASSUME NEW q \in Packages \ {p} PROVE PlaceOf(q)' = PlaceOf(q)
  <2>1. \A y \in Paths : fs'[y] = q <=> fs[y] = q
    BY <1>1, <1>2, <1>5 DEF StoreTypeOK
  <2>. QED BY <1>2, <2>1, PlaceKept
<1>6. places' = [places EXCEPT ![p] = t]
  BY <1>4, <1>5 DEF places
<1>7. Mirror!InTree(p) /\ ~Mirror!Taken(t)
  BY <1>1, <1>4, TakenPath DEF Mirror!InTree, places
<1>8. UNCHANGED <<recorded, shown>>
  BY DEF recorded, shown
<1>. QED BY <1>1, <1>6, <1>7, <1>8 DEF Mirror!Shelve

LEMMA QuarantineSetsAside ==
  ASSUME TreeOK, TreeOK', ErrorsPast, NewNames, NEW x \in Paths, NEW p \in Packages, fs[x] = p,
         \/ p \in Broken
         \/ x # Canonical[p] /\ fs[Canonical[p]] # NoPackage,
         NEW reason, MoveToErrors(x, reason), UNCHANGED <<catalog, outputs>>
  PROVE  Mirror!SetAside(p)
<1>. USE DEF TreeOK
<1>1. /\ fs' = [fs EXCEPT ![x] = NoPackage]
      /\ UNCHANGED <<unseen, discarded>>
  BY DEF MoveToErrors
<1>2. clock' > clock /\ clock' \in Nat
  BY DEF MoveToErrors, NewNames, StoreTypeOK
<1>3. \A e \in errors : e.second \in Nat /\ e.second < clock'
  BY <1>2 DEF ErrorsPast, StoreTypeOK, ErrorFiles
<1>4. errors' = errors \union {[stem |-> Stem[x], reason |-> reason,
                               second |-> clock', pkg |-> p]}
  BY <1>2, <1>3 DEF MoveToErrors
<1>5. PlaceOf(p) = x
  BY PlaceInTree
<1>6. PlaceOf(p)' = Aside
  <2>1. \A y \in Paths : fs'[y] # p
    BY <1>1 DEF PackagesApart, StoreTypeOK
  <2>2. p \notin discarded' /\ p \notin unseen'
    BY <1>1 DEF HistoryInv, PackagesApart
  <2>3. \E e \in errors' : e.pkg = p
    <3>. DEFINE new == [stem |-> Stem[x], reason |-> reason, second |-> clock', pkg |-> p]
    <3>1. new \in errors' /\ new.pkg = p BY <1>4
    <3>. QED BY <3>1
  <2>. QED BY <2>1, <2>2, <2>3 DEF PlaceOf
<1>7. ASSUME NEW q \in Packages \ {p} PROVE PlaceOf(q)' = PlaceOf(q)
  <2>1. \A y \in Paths : fs'[y] = q <=> fs[y] = q
    BY <1>1, <1>7 DEF StoreTypeOK
  <2>2. (\E e \in errors' : e.pkg = q) <=> (\E e \in errors : e.pkg = q)
    <3>. DEFINE new == [stem |-> Stem[x], reason |-> reason, second |-> clock', pkg |-> p]
    <3>1. new.pkg # q /\ errors' = errors \union {new} BY <1>4, <1>7
    <3>. HIDE DEF new
    <3>. QED BY <3>1
  <2>. QED BY <1>1, <2>1, <2>2, PlaceKept
<1>8. places' = [places EXCEPT ![p] = Aside]
  BY <1>6, <1>7 DEF places
<1>9. Mirror!InTree(p) /\ places[p] = x
  BY <1>5 DEF Mirror!InTree, places
<1>10. p \in Broken \/ (places[p] # Canonical[p] /\ Mirror!Taken(Canonical[p]))
  BY <1>9, TakenPath
<1>11. UNCHANGED <<recorded, shown>>
  BY DEF recorded, shown
<1>. QED BY <1>8, <1>9, <1>10, <1>11 DEF Mirror!SetAside

LEMMA UpsertRecords ==
  ASSUME TreeOK, NEW p \in Packages \ Broken, fs[Canonical[p]] = p,
         NEW stat, UpsertRow([meta |-> p, stat |-> stat]),
         UNCHANGED <<storeVars, outputs>>
  PROVE  Mirror!Record(p)
<1>1. places[p] = Canonical[p]
  BY PlaceInTree DEF TreeOK, places
<1>2. recorded' = {q \in recorded : ~Mirror!SameRow(p, q)} \union {p}
  <2>. DEFINE row == [meta |-> p, stat |-> stat]
  <2>1. catalog' = {r \in catalog : Key(r.meta) # Key(p)} \union {row} /\ row.meta = p
    BY DEF UpsertRow
  <2>. HIDE DEF row
  <2>2. \A q : Key(q) # Key(p) <=> ~Mirror!SameRow(p, q)
    BY DEF Key, Mirror!SameRow
  <2>3. ASSUME NEW q \in recorded' PROVE q = p \/ (q \in recorded /\ ~Mirror!SameRow(p, q))
    BY <2>1, <2>2, <2>3 DEF recorded, MetaOf
  <2>4. ASSUME NEW q, q = p \/ (q \in recorded /\ ~Mirror!SameRow(p, q)) PROVE q \in recorded'
    BY <2>1, <2>2, <2>4 DEF recorded, MetaOf
  <2>. QED BY <2>3, <2>4
<1>3. UNCHANGED <<places, shown>>
  BY PlacesKept DEF storeVars, shown
<1>. QED BY <1>1, <1>2, <1>3 DEF Mirror!Record

-----------------------------------------------------------------------------
(* Steps that write rows and files.                                        *)

LEMMA NextFinite ==
  ASSUME FiniteCatalog, [Next]_vars
  PROVE  FiniteCatalog'
<1>. USE DEF FiniteCatalog
<1>1. ASSUME catalog' \subseteq catalog PROVE FiniteCatalog'
  BY <1>1, FS_Subset
<1>2. ASSUME NEW w \in Workers, Ingest(w) PROVE FiniteCatalog'
  <2>1. ASSUME NEW row, UpsertRow(row) PROVE FiniteCatalog'
    <3>. DEFINE others == {r \in catalog : Key(r.meta) # Key(row.meta)}
    <3>1. IsFiniteSet(others) BY FS_Subset
    <3>2. catalog' = others \union {row} BY <2>1 DEF UpsertRow
    <3>. HIDE DEF others
    <3>. QED BY <3>1, <3>2, FS_AddElement
  <2>. QED BY <1>1, <1>2, <2>1 DEF Ingest, IngestStep, Probe, ProbeFails, Claim,
              MoveToCanonical, MoveFails, StatAndFingerprint, StatFails, Upsert, UpsertFails,
              Quarantine, QuarantineFails
<1>3. CASE Boot \/ Crash \/ User
  BY <1>1, <1>3 DEF Boot, Crash, User, EditSettings
<1>4. CASE CycleStep
  BY <1>1, <1>2, <1>4 DEF CycleStep, Reload, Scan, Take, Raised, FinalScan, Prune, BeginTarget,
     WriteFile, RemoveFile, BeginCleanup, SaveSnapshot, SaveSettings, CycleFails, SaveFails
<1>5. CASE UNCHANGED vars
  BY <1>1, <1>5 DEF vars
<1>. QED BY <1>3, <1>4, <1>5 DEF Next

\* Of finitely many ranked things one has the greatest rank: the one with the
\* fewest above it.
LEMMA GreatestOfFinite ==
  ASSUME NEW S, IsFiniteSet(S), S # {}, NEW v, \A s \in S : v[s] \in Nat
  PROVE  \E r \in S : \A s \in S : v[s] <= v[r]
<1>. DEFINE Above(r) == {s \in S : v[s] > v[r]}
            D == {Cardinality(Above(r)) : r \in S}
<1>1. \A r \in S : IsFiniteSet(Above(r)) /\ Cardinality(Above(r)) \in Nat
  <2>. TAKE r \in S
  <2>1. Above(r) \in SUBSET S OBVIOUS
  <2>2. IsFiniteSet(Above(r)) BY <2>1, FS_Subset
  <2>. QED BY <2>2, FS_CardinalityType
<1>2. D \subseteq Nat /\ D # {}
  <2>1. ASSUME NEW d \in D PROVE d \in Nat
    <3>1. PICK r \in S : d = Cardinality(Above(r)) BY <2>1
    <3>. QED BY <1>1, <3>1
  <2>. HIDE DEF Above
  <2>. QED BY <2>1
<1>3. PICK d \in D : \A e \in D : <<e, d>> \notin OpToRel(<, Nat)
  BY <1>2, NatLessThanWellFounded, WFMin
<1>4. PICK r \in S : d = Cardinality(Above(r)) BY <1>3
<1>5. ASSUME NEW s \in S, ~(v[s] <= v[r]) PROVE FALSE
  <2>1. v[s] > v[r] BY <1>5
  <2>2. Above(s) \in SUBSET Above(r) /\ s \in Above(r) /\ s \notin Above(s)
    BY <2>1
  <2>3. Cardinality(Above(s)) <= Cardinality(Above(r)) /\ Cardinality(Above(s)) # Cardinality(Above(r))
    BY <1>1, <2>2, FS_Subset
  <2>4. Cardinality(Above(s)) \in D BY <1>5
  <2>. HIDE DEF Above, D
  <2>5. Cardinality(Above(s)) < d /\ Cardinality(Above(s)) \in Nat /\ d \in Nat
    BY <1>1, <1>4, <2>3
  <2>. QED BY <1>3, <2>4, <2>5 DEF OpToRel
<1>. QED BY <1>4, <1>5

LEMMA PruneForgets ==
  ASSUME TreeOK, catalog \subseteq Rows, final = BuildSnapshot, Prune
  PROVE  Mirror!Forget
<1>1. ASSUME NEW x \in Paths PROVE x \in PathsOf(final) <=> Mirror!Taken(x)
  <2>1. x \in PathsOf(final) <=> fs[x] # NoPackage
    <3>. DEFINE e == [path |-> x, stat |-> StatOf(x)]
    <3>1. fs[x] # NoPackage => e \in BuildSnapshot /\ e.path = x
      BY DEF BuildSnapshot, ScanPkgFiles
    <3>2. \A d \in BuildSnapshot : fs[d.path] # NoPackage
      BY DEF BuildSnapshot, ScanPkgFiles
    <3>. QED BY <3>1, <3>2 DEF PathsOf
  <2>. QED BY <2>1, TakenPath DEF TreeOK
<1>2. catalog' = {r \in catalog : Mirror!Taken(Canonical[r.meta])}
  <2>1. \A r \in catalog : Canonical[r.meta] \in Paths BY DEF Rows
  <2>. QED BY <1>1, <2>1 DEF Prune
<1>3. recorded' = {p \in recorded : Mirror!Taken(Canonical[p])}
  BY <1>2 DEF recorded, MetaOf
<1>4. UNCHANGED <<places, shown>>
  BY PlacesKept DEF Prune, storeVars, shown
<1>. QED BY <1>3, <1>4 DEF Mirror!Forget

\* Every path of a file's rows is shown by one of them.
LEMMA ListingCovers ==
  ASSUME catalog \subseteq Rows, FiniteCatalog, NEW f \in OutFiles, NEW r \in RowsListed(f)
  PROVE  \E s \in Listing(f) : Canonical[s.meta] = Canonical[r.meta]
<1>. DEFINE S == {s \in RowsListed(f) : Canonical[s.meta] = Canonical[r.meta]}
            v == [s \in S |-> Version[s.meta]]
<1>1. IsFiniteSet(S) /\ S # {}
  BY FS_Subset DEF FiniteCatalog, RowsListed
<1>2. \A s \in S : v[s] \in Nat
  BY DEF RowsListed, Rows
<1>3. PICK s \in S : \A u \in S : v[u] <= v[s]
  <2>. HIDE DEF S, v
  <2>. QED BY <1>1, <1>2, GreatestOfFinite
<1>. QED BY <1>3 DEF Listing

LEMMA WritePublishes ==
  ASSUME TypeInv, TreeOK, FiniteCatalog, NEW f \in OutFiles, WriteFile(f),
         \A r \in catalog : fs[Canonical[r.meta]] # NoPackage
  PROVE  Mirror!Publish(f)
<1>1. /\ catalog \subseteq Rows /\ cfg \in Settings
      /\ outputs \in [OutFiles -> Listings \union {Absent}]
  BY DEF TypeInv, TypeOK, IngestTypeOK, CycleTypeOK, ProcessOK, WriteFile
<1>2. \A p \in recorded : Mirror!Taken(Canonical[p])
  <2>1. \A r \in catalog : Canonical[r.meta] \in Paths BY <1>1 DEF Rows
  <2>. QED BY <2>1, TakenPath DEF TreeOK, recorded, MetaOf
<1>. DEFINE own == {p \in recorded : Canonical[p] \in Listed[f]}
            picked == MetaOf(Listing(f))
<1>3. own = MetaOf(RowsListed(f)) /\ picked \in SUBSET own
  BY DEF recorded, MetaOf, RowsListed, Listing
<1>4. \A p \in own : \E q \in picked : Canonical[q] = Canonical[p]
  BY <1>1, <1>3, ListingCovers DEF MetaOf
<1>5. shown' = [shown EXCEPT ![f] = picked]
  <2>. DEFINE new == [rows |-> Listing(f), base |-> cfg]
  <2>1. new \in Listings /\ new # Absent
    BY <1>1 DEF Listings, Listing, RowsListed
  <2>2. outputs' = [outputs EXCEPT ![f] = new]
    BY DEF WriteFile
  <2>3. outputs'[f] = new /\ \A g \in OutFiles \ {f} : outputs'[g] = outputs[g]
    BY <1>1, <2>2
  <2>4. shown'[f] = picked
    BY <2>1, <2>3 DEF shown
  <2>5. \A g \in OutFiles \ {f} : shown'[g] = shown[g]
    BY <2>3 DEF shown
  <2>. QED BY <2>4, <2>5 DEF shown
<1>6. UNCHANGED <<places, recorded>>
  BY PlacesKept DEF WriteFile, storeVars, recorded
<1>. QED BY <1>2, <1>3, <1>4, <1>5, <1>6 DEF Mirror!Publish

LEMMA RemoveWithdraws ==
  ASSUME TypeInv, NEW f \in OutFiles, RemoveFile(f)
  PROVE  Mirror!Withdraw(f)
<1>1. outputs'[f] = Absent /\ \A g \in OutFiles \ {f} : outputs'[g] = outputs[g]
  BY DEF RemoveFile, TypeInv, TypeOK, CycleTypeOK
<1>2. shown' = [shown EXCEPT ![f] = Absent]
  BY <1>1 DEF shown
<1>3. UNCHANGED <<places, recorded>>
  BY PlacesKept DEF RemoveFile, storeVars, recorded
<1>. QED BY <1>2, <1>3 DEF Mirror!Withdraw

-----------------------------------------------------------------------------
(* The refinement.                                                         *)

AllInv ==
  TypeInv /\ KeptInv /\ PublishInv /\ TrackInv /\ ReasonsInv /\ MirrorInv

\* A pool needs users who keep packages out of each other's way.
InOrder == Sequential \/ (OnePerPlace /\ NoneInTheWay)

LEMMA InitAll == Init => AllInv
<1>1. Init => MirrorInv
  BY FS_EmptySet DEF Init, StoreInit, IngestInit, MirrorInv, HistoryInv, FiniteCatalog
<1>. QED BY <1>1, InitType, InitKept, InitPublish, InitTrack, InitReasons DEF AllInv

LEMMA NextAll ==
  ASSUME InOrder, QuietCycles, SoundFiles, NewNames, AllInv, [Next]_vars
  PROVE  AllInv'
<1>1. MovesApart
  BY TidyMovesApart DEF InOrder, Sequential, MovesApart, AllInv
<1>2. TypeInv' /\ KeptInv' /\ PublishInv' /\ TrackInv' /\ ReasonsInv'
  BY <1>1, NextType, NextKeeps, NextPublish, NextTrack, NextReasons
  DEF AllInv, InOrder, SafeDrops
<1>3. MirrorInv'
  BY NextHistory, NextFinite DEF AllInv, MirrorInv, TrackInv
<1>. QED BY <1>2, <1>3 DEF AllInv

\* Each step of a thread is one of CatalogMirror's, or none.
LEMMA IngestMirrors ==
  ASSUME NewNames, AllInv, AllInv', NEW w \in Workers, IngestStep(w), UNCHANGED outputs
  PROVE  [Mirror!Next]_(Mirror!mirrorVars)
<1>. DEFINE x == job[w].path
            p == job[w].pkg
<1>0. /\ TreeOK /\ TreeOK' /\ ErrorsPast
      /\ job[w].at # "idle" => x \in Paths
  BY DEF AllInv, TypeInv, TypeOK, JobsOK, TrackInv, MirrorInv, KeptInv, TreeOK
<1>1. ASSUME UNCHANGED <<storeVars, catalog>> PROVE UNCHANGED Mirror!mirrorVars
  BY <1>1, PlacesKept DEF storeVars, Mirror!mirrorVars, recorded, shown
<1>2. CASE MoveToCanonical(w)
  <2>1. p \in Packages \ Broken /\ fs[x] = p /\ fs[Canonical[p]] = NoPackage
    BY <1>2 DEF MoveToCanonical, AllInv, TrackInv, JobsTrack
  <2>2. x \in Paths /\ Rename(x, Canonical[p]) /\ UNCHANGED catalog
    BY <1>0, <1>2 DEF MoveToCanonical
  <2>3. Mirror!Shelve(p)
    BY <1>0, <2>1, <2>2, RenameShelves
  <2>. QED BY <2>1, <2>3 DEF Mirror!Next
<1>3. CASE Quarantine(w)
  <2>1. /\ x \in Paths /\ MoveToErrors(x, job[w].at) /\ UNCHANGED catalog
        /\ fs[x] # NoPackage /\ job[w].at \in {"probe_failed", "organizer_failed"}
    BY <1>0, <1>3 DEF Quarantine, Reasons, AllInv, ReasonsInv
  <2>2. PICK q \in Packages : fs[x] = q
    BY <1>0, <2>1 DEF TreeOK, StoreTypeOK
  <2>3. q \in Broken \/ (x # Canonical[q] /\ fs[Canonical[q]] # NoPackage)
    <3>1. CASE job[w].at = "probe_failed"
      BY <1>3, <2>2, <3>1 DEF AllInv, ReasonsInv
    <3>2. CASE job[w].at = "organizer_failed"
      BY <2>2, <3>2 DEF AllInv, TrackInv, JobsTrack, ReasonsInv
    <3>. QED BY <2>1, <3>1, <3>2
  <2>4. Mirror!SetAside(q)
    BY <1>0, <2>1, <2>2, <2>3, QuarantineSetsAside
  <2>. QED BY <2>4 DEF Mirror!Next
<1>4. CASE Upsert(w)
  <2>1. p \in Packages \ Broken /\ fs[Canonical[p]] = p
    BY <1>4 DEF Upsert, AllInv, TrackInv, JobsTrack
  <2>2. UpsertRow([meta |-> p, stat |-> job[w].stat]) /\ UNCHANGED storeVars
    BY <1>4 DEF Upsert
  <2>3. Mirror!Record(p)
    BY <1>0, <2>1, <2>2, UpsertRecords
  <2>. QED BY <2>1, <2>3 DEF Mirror!Next
<1>5. CASE UNCHANGED <<storeVars, catalog>>
  BY <1>1, <1>5
<1>. QED
  BY <1>2, <1>3, <1>4, <1>5 DEF IngestStep, Probe, ProbeFails, Claim, MoveToCanonical, MoveFails,
     StatAndFingerprint, StatFails, Upsert, UpsertFails, Quarantine, QuarantineFails

\* So is each step of the system.
LEMMA NextMirrors ==
  ASSUME NewNames, AllInv, AllInv', [Next]_vars
  PROVE  [Mirror!Next]_(Mirror!mirrorVars)
<1>0. /\ TypeInv /\ TreeOK /\ TreeOK' /\ FiniteCatalog /\ catalog \subseteq Rows
      /\ AfterScan => final = BuildSnapshot
      /\ AfterPrune => \A r \in catalog : fs[Canonical[r.meta]] # NoPackage
  BY DEF AllInv, TypeInv, TypeOK, IngestTypeOK, TrackInv, MirrorInv, TreeOK, PublishInv,
     ScannedInv
<1>1. ASSUME UNCHANGED <<storeVars, catalog, outputs>>
      PROVE  UNCHANGED Mirror!mirrorVars
  BY <1>1, PlacesKept DEF storeVars, Mirror!mirrorVars, recorded, shown
<1>2. CASE UserStep /\ UNCHANGED <<catalog, outputs>>
  <2>1. ASSUME NEW p \in Packages, NEW x \in Paths, Deliver(p, x)
        PROVE  [Mirror!Next]_(Mirror!mirrorVars)
    BY <1>0, <1>2, <2>1, DeliverPuts DEF Mirror!Next
  <2>2. ASSUME NEW p \in Packages, FinishCopy(p)
        PROVE  [Mirror!Next]_(Mirror!mirrorVars)
    BY <1>2, <2>2, PlacesKept DEF FinishCopy, Mirror!mirrorVars, recorded, shown
  <2>3. ASSUME NEW x \in Paths, Discard(x) \/ PutAside(x)
        PROVE  [Mirror!Next]_(Mirror!mirrorVars)
    <3>1. PICK p \in Packages : fs[x] = p
      BY <1>0, <2>3 DEF Discard, PutAside, TreeOK, StoreTypeOK
    <3>. QED BY <1>0, <1>2, <2>3, <3>1, TakeAwayRemoves DEF Mirror!Next
  <2>. QED BY <1>2, <2>1, <2>2, <2>3 DEF UserStep
<1>3. CASE Boot \/ Crash \/ EditSettings \/ UNCHANGED vars
  BY <1>1, <1>3 DEF Boot, Crash, EditSettings, vars
<1>4. CASE CycleStep
  <2>1. ASSUME NEW w \in Workers, Ingest(w)
        PROVE  [Mirror!Next]_(Mirror!mirrorVars)
    BY <2>1, IngestMirrors DEF Ingest
  <2>2. CASE Prune
    <3>1. final = BuildSnapshot BY <1>0, <2>2 DEF Prune, AfterScan
    <3>. QED BY <1>0, <2>2, <3>1, PruneForgets DEF Mirror!Next
  <2>3. ASSUME NEW f \in OutFiles, WriteFile(f)
        PROVE  [Mirror!Next]_(Mirror!mirrorVars)
    <3>1. AfterPrune BY <2>3 DEF WriteFile, AfterPrune
    <3>. QED BY <1>0, <2>3, <3>1, WritePublishes DEF Mirror!Next
  <2>4. ASSUME NEW f \in OutFiles, RemoveFile(f)
        PROVE  [Mirror!Next]_(Mirror!mirrorVars)
    BY <1>0, <2>4, RemoveWithdraws DEF Mirror!Next
  <2>5. CASE UNCHANGED <<storeVars, catalog, outputs>>
    BY <1>1, <2>5
  <2>. QED
    BY <1>4, <2>1, <2>2, <2>3, <2>4, <2>5 DEF CycleStep, Reload, Scan, Take, Raised, FinalScan,
       BeginTarget, BeginCleanup, SaveSnapshot, SaveSettings, CycleFails, SaveFails
<1>. QED BY <1>2, <1>3, <1>4 DEF Next, User

LEMMA InitMirrors == Init => Mirror!Init
BY DEF Init, StoreInit, IngestInit, Mirror!Init, places, PlaceOf, recorded, MetaOf, shown

\* WorkerMirrors: with one thread, and users who hand over whole packages
\* between cycles, the worker implements CatalogMirror: its failures, crashes,
\* repeated cycles and settings changes are nothing but the eight actions of
\* CatalogMirror, and steps that show nothing.
THEOREM WorkerMirrors ==
  ASSUME Sequential, QuietCycles, SoundFiles, NewNames
  PROVE  Spec => ImplementsMirror
<1>1. Init => AllInv BY InitAll
<1>2. AllInv /\ [Next]_vars => AllInv' BY NextAll DEF InOrder
<1>3. AllInv /\ AllInv' /\ [Next]_vars => [Mirror!Next]_(Mirror!mirrorVars)
  BY NextMirrors
<1>. QED BY <1>1, <1>2, <1>3, InitMirrors, PTL DEF Spec, ImplementsMirror, Mirror!Spec

\* PoolMirrors: so does a worker with any number of threads, whose users
\* leave no two packages of one path in the tree, and none at the path of
\* another; what the threads do at once is what CatalogMirror does in turn.
THEOREM PoolMirrors ==
  ASSUME QuietCycles, SoundFiles, NewNames
  PROVE  Spec /\ CarefulUsers => ImplementsMirror
<1>. DEFINE Inv == AllInv /\ OnePerPlace /\ NoneInTheWay
<1>1. Init => Inv
  BY InitAll, InitTidy, InitCareful
<1>2. Inv /\ [Next]_vars /\ [UserStep => OnePerPlace' /\ NoneInTheWay']_vars => Inv'
  BY NextAll, CarefulStep DEF AllInv, InOrder
<1>3. Inv /\ Inv' /\ [Next]_vars => [Mirror!Next]_(Mirror!mirrorVars)
  BY NextMirrors
<1>. QED
  BY <1>1, <1>2, <1>3, InitMirrors, PTL DEF Spec, CarefulUsers, ImplementsMirror, Mirror!Spec
=============================================================================
