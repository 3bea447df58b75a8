---------------------------- MODULE StartupAssets ----------------------------
(***************************************************************************)
(* The files of PS4-Store that the worker downloads when it starts,        *)
(* GithubAssetsGateway: the latest release is listed once, and a file that *)
(* is there already is kept, whatever release it is of.                    *)
(***************************************************************************)
EXTENDS Naturals, Sequences

CONSTANTS
  Assets,        \* the destinations, in the order they are downloaded
  Releases,      \* Releases[r] = the assets release r has
  Cut            \* a file that has been written in part

Names == {Assets[i] : i \in 1 .. Len(Assets)}

ASSUME AssetsAssumption ==
  /\ Assets \in Seq(STRING)
  /\ Releases \in Seq(SUBSET Names)
  /\ Releases # <<>>
  /\ Cut \notin Nat

VARIABLES
  assets,        \* assets[a] = the release the file is of, 0 when there is none
  part,          \* the .part file of the destination it has come to is complete
  release,       \* the latest release
  listed,        \* the release the running sync has listed, 0 before
  next,          \* the destination it has come to
  unfinished     \* a sync has ended with a destination missing (history)

assetVars == <<assets, part, release, listed, next, unfinished>>

AssetTypeOK ==
  /\ assets \in [Names -> 0 .. Len(Releases) \union {Cut}]
  /\ part \in BOOLEAN
  /\ release \in 1 .. Len(Releases)
  /\ listed \in 0 .. Len(Releases)
  /\ next \in 0 .. Len(Assets) + 1
  /\ unfinished \in BOOLEAN

AssetInit ==
  /\ assets = [a \in Names |-> 0]
  /\ part = FALSE
  /\ release = 1
  /\ listed = 0
  /\ next = 0
  /\ unfinished = FALSE

Syncing == next # 0

\* The sync is over, in whatever way.
SyncOver ==
  /\ part' = FALSE
  /\ listed' = 0
  /\ next' = 0
  /\ unfinished' = (unfinished \/ \E a \in Names : assets[a] = 0)

\* PS4-Store publishes a release.
PublishRelease ==
  /\ release < Len(Releases)
  /\ release' = release + 1
  /\ UNCHANGED <<assets, part, listed, next, unfinished>>

BeginSync ==
  /\ next' = 1
  /\ UNCHANGED <<assets, part, release, listed, unfinished>>

ListRelease ==
  /\ Syncing
  /\ listed = 0
  /\ listed' = release
  /\ UNCHANGED <<assets, part, release, next, unfinished>>

Turn(a) == listed # 0 /\ next <= Len(Assets) /\ a = Assets[next]

\* A file that exists is kept, one the release lacks is left out.
SkipAsset(a) ==
  /\ Turn(a)
  /\ ~part
  /\ assets[a] # 0 \/ a \notin Releases[listed]
  /\ next' = next + 1
  /\ UNCHANGED <<assets, part, release, listed, unfinished>>

\* Wrong: the file is written at its own name.
WriteInPlace(a) ==
  /\ Turn(a)
  /\ ~part
  /\ assets[a] = 0
  /\ a \in Releases[listed]
  /\ assets' = [assets EXCEPT ![a] = Cut]
  /\ part' = TRUE
  /\ UNCHANGED <<release, listed, next, unfinished>>

\* What is downloaded goes to a .part file first, over an older one.
WritePart(a) ==
  /\ Turn(a)
  /\ ~part
  /\ assets[a] = 0
  /\ a \in Releases[listed]
  /\ part' = TRUE
  /\ UNCHANGED <<assets, release, listed, next, unfinished>>

\* Wrong: the file is of the release that is the latest by now.
ReplaceByLatest(a) ==
  /\ Turn(a)
  /\ part
  /\ assets' = [assets EXCEPT ![a] = release]
  /\ part' = FALSE
  /\ next' = next + 1
  /\ UNCHANGED <<release, listed, unfinished>>

Replace(a) ==
  /\ Turn(a)
  /\ part
  /\ assets' = [assets EXCEPT ![a] = listed]
  /\ part' = FALSE
  /\ next' = next + 1
  /\ UNCHANGED <<release, listed, unfinished>>

EndSync ==
  /\ next = Len(Assets) + 1
  /\ SyncOver
  /\ UNCHANGED <<assets, release>>

\* GitHub does not answer, or the disk is full: the caller logs it.
SyncFails ==
  /\ Syncing
  /\ SyncOver
  /\ UNCHANGED <<assets, release>>

SyncStep ==
  \/ ListRelease
  \/ \E a \in Names : SkipAsset(a) \/ WritePart(a) \/ Replace(a)

-----------------------------------------------------------------------------

\* AssetsWhole: nginx serves the destinations while they are downloaded: what
\* is at such a name is complete, whenever the download fails or the container
\* goes down.
AssetsWhole == \A a \in Names : assets[a] # Cut

\* OneRelease: homebrew.elf and the remote.md5 it is compared with are of one
\* release, even when another is published during the sync, unless some sync
\* has left a file out: the next one takes it from the release of its day.
OneRelease ==
  ~unfinished =>
    \A a, b \in Names : 0 \notin {assets[a], assets[b]} => assets[a] = assets[b]
=============================================================================
