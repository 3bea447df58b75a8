---------------------------- MODULE PackageStore ----------------------------
(***************************************************************************)
(* The package tree data/share/pkg, the quarantine data/internal/errors    *)
(* and the operations FilesystemRepository offers on them, with the user   *)
(* who fills the tree by hand.                                             *)
(*                                                                         *)
(* A package stands for one file a user hands over: its bytes, size and    *)
(* modification time.  Two packages never share their (size, mtime_ns), so *)
(* the same bytes handed over by a new copy are another package.           *)
(***************************************************************************)
EXTENDS Naturals

CONSTANTS
  Packages,        \* the files users may hand over
  NoPackage,       \* "no file at this path"
  Paths,           \* the *.pkg paths below pkg_root, media_dir excluded
  Canonical,       \* Canonical[p] = pkg_root/<app_type>/<content_id>.pkg of p
  Version,         \* rank of p's version text in text order, 0 when it is empty
  Broken,          \* the packages pkgtool cannot probe
  Stem,            \* Stem[x] = file name of path x without its suffix
  DropPaths,       \* where users put packages
  Copies,          \* TRUE when a package may arrive by a copy that takes time
  Restores,        \* TRUE when a user may put a package aside and back again
  ErrorGaps        \* whole seconds that may pass before a move to errors

ASSUME PackagesAssumption ==
  /\ NoPackage \notin Packages
  /\ Canonical \in [Packages -> Paths]
  /\ Version \in [Packages -> Nat]
  /\ Broken \subseteq Packages
  /\ DropPaths \subseteq Paths
  /\ Copies \in BOOLEAN
  /\ Restores \in BOOLEAN
  /\ ErrorGaps \subseteq Nat

VARIABLES
  fs,          \* fs[x] = the package at path x
  uploading,   \* packages whose copy into the tree has not finished
  unseen,      \* packages no user has handed over yet
  discarded,   \* packages a user deleted or replaced (history)
  errors,      \* files of data/internal/errors
  clock        \* int(time.time()) at the latest move to errors

storeVars == <<fs, uploading, unseen, discarded, errors, clock>>

Reasons == {"probe_failed", "organizer_failed", "fingerprint_failed"}

Stats == [pkg : Packages, whole : BOOLEAN]
Entries == [path : Paths, stat : Stats]
ErrorFiles == [stem : {Stem[x] : x \in Paths}, reason : Reasons,
               second : Nat, pkg : Packages]

StoreTypeOK ==
  /\ fs \in [Paths -> Packages \union {NoPackage}]
  /\ uploading \subseteq Packages
  /\ unseen \subseteq Packages
  /\ discarded \subseteq Packages
  /\ errors \subseteq ErrorFiles
  /\ clock \in Nat

StoreInit ==
  /\ fs = [x \in Paths |-> NoPackage]
  /\ uploading = {}
  /\ unseen = Packages
  /\ discarded = {}
  /\ errors = {}
  /\ clock = 0

-----------------------------------------------------------------------------
(* Reading the tree.                                                       *)

\* scan_pkg_files: the paths that hold a package.
ScanPkgFiles == {x \in Paths : fs[x] # NoPackage}

\* stat: (size, mtime_ns) tells the package and whether its copy is finished.
StatOf(x) == [pkg |-> fs[x], whole |-> fs[x] \notin uploading]

\* _build_snapshot: what the tree holds, path by path.
BuildSnapshot == {[path |-> x, stat |-> StatOf(x)] : x \in ScanPkgFiles}

\* The canonical paths and the versions identify a catalog row: the path is
\* made of app_type and content_id.
Key(p) == <<Canonical[p], Version[p]>>

-----------------------------------------------------------------------------
(* Moving files.                                                           *)

\* shutil.move: a rename, which replaces whatever the destination holds.
Rename(x, y) ==
  /\ fs' = [fs EXCEPT ![y] = fs[x], ![x] = NoPackage]
  /\ UNCHANGED <<uploading, unseen, discarded, errors, clock>>

\* move_to_errors: the destination is named after the stem, the reason and
\* the second, and a file of that name is replaced.
MoveToErrors(x, reason) ==
  /\ \E gap \in ErrorGaps : clock' = clock + gap
  /\ LET new == [stem |-> Stem[x], reason |-> reason,
                 second |-> clock', pkg |-> fs[x]]
         SameName(e) == /\ e.stem = new.stem
                        /\ e.reason = new.reason
                        /\ e.second = new.second
     IN  errors' = {e \in errors : ~SameName(e)} \union {new}
  /\ fs' = [fs EXCEPT ![x] = NoPackage]
  /\ UNCHANGED <<uploading, unseen, discarded>>

-----------------------------------------------------------------------------
(* The user.                                                               *)

\* A package replaces whatever the path held; it is there at once, or a copy
\* starts that ends with FinishCopy.
Deliver(p, x) ==
  /\ p \in unseen
  /\ x \in DropPaths
  /\ unseen' = unseen \ {p}
  /\ fs' = [fs EXCEPT ![x] = p]
  /\ discarded' = discarded \union ({fs[x]} \ {NoPackage})
  /\ \/ uploading' = uploading \ {fs[x]}
     \/ /\ Copies
        /\ uploading' = (uploading \ {fs[x]}) \union {p}
  /\ UNCHANGED <<errors, clock>>

\* The copy ends wherever its file has been moved meanwhile.
FinishCopy(p) ==
  /\ p \in uploading
  /\ uploading' = uploading \ {p}
  /\ UNCHANGED <<fs, unseen, discarded, errors, clock>>

Discard(x) ==
  /\ fs[x] # NoPackage
  /\ fs' = [fs EXCEPT ![x] = NoPackage]
  /\ discarded' = discarded \union {fs[x]}
  /\ uploading' = uploading \ {fs[x]}
  /\ UNCHANGED <<unseen, errors, clock>>

\* mv keeps size and mtime: what comes back is the same package.
PutAside(x) ==
  /\ Restores
  /\ fs[x] \notin uploading \union {NoPackage}
  /\ fs' = [fs EXCEPT ![x] = NoPackage]
  /\ unseen' = unseen \union {fs[x]}
  /\ UNCHANGED <<uploading, discarded, errors, clock>>

UserStep ==
  \/ \E p \in Packages, x \in Paths : Deliver(p, x)
  \/ \E p \in Packages : FinishCopy(p)
  \/ \E x \in Paths : Discard(x) \/ PutAside(x)

=============================================================================
