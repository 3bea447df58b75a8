--------------------------- MODULE PackageMetadata ---------------------------
(***************************************************************************)
(* What a row says beside its package: pictures that PkgtoolGateway         *)
(* extracts under the name of the content id, which a game shares with its  *)
(* updates, and the publisher OrbisPatchesGateway looks up by title, with a *)
(* cache that also keeps failures, for the ingest threads and for the       *)
(* export of store.db.                                                     *)
(***************************************************************************)
EXTENDS Naturals

CONSTANTS
  Packages,
  NoPackage,
  Content,       \* Content[p] = the content id, the name of the pictures
  Title,         \* Title[p] = the title id, the key of the look-up
  Updates,       \* packages of type update, which need no icon
  Pictured,      \* packages with an ICON0_PNG
  Publisher,     \* Publisher[t] = what the site says of title t, or None
  None,
  Unknown,       \* not in the cache
  NoRow,
  Cut,           \* a picture written in part
  Threads,
  MaxFaults

Contents == {Content[p] : p \in Packages}
Titles == {Title[p] : p \in Packages}
Names == {Publisher[t] : t \in Titles} \union {None}

ASSUME MetadataAssumption ==
  /\ NoPackage \notin Packages
  /\ None \notin Packages
  /\ Cut \notin Packages \union {None}
  /\ NoRow \notin Names
  /\ Unknown \notin Names
  /\ Updates \subseteq Packages
  /\ Pictured \subseteq Packages
  /\ MaxFaults \in Nat

Steps == {"idle", "media", "open", "extract", "lookup", "fetch", "return", "upsert"}

VARIABLES
  media,         \* media[c] = the package the picture is from, None, or Cut
  cache,         \* OrbisPatchesGateway._cache
  job,           \* job[w] = the package thread w ingests and how far it is
  rows,          \* catalog_items: publisher and icon0_path
  gone,          \* packages moved to errors
  todo,          \* rows the running export has still to format
  draft,         \* draft[p] = Author in store.db.tmp
  authors,       \* authors[p] = Author in store.db
  exporting,
  faults,
  spoiled,       \* pictures cut off, or written by two threads (history)
  failed         \* failed[t] = when a look-up of t failed (history)

vars == <<media, cache, job, rows, gone, todo, draft, authors, exporting,
          faults, spoiled, failed>>

exportVars == <<todo, draft, authors, exporting>>

Idle == [at |-> "idle", pkg |-> NoPackage, icon |-> FALSE, found |-> None]

TypeOK ==
  /\ media \in [Contents -> Packages \union {None, Cut}]
  /\ cache \in [Titles -> Names \union {Unknown}]
  /\ job \in [Threads -> [at : Steps, pkg : Packages \union {NoPackage},
                          icon : BOOLEAN, found : Names]]
  /\ \A w \in Threads : job[w].at = "idle" <=> job[w].pkg = NoPackage
  /\ rows \in [Packages -> [publisher : Names, icon : BOOLEAN] \union {NoRow}]
  /\ gone \subseteq Packages
  /\ todo \subseteq Packages
  /\ draft \in [Packages -> Names \union {NoRow}]
  /\ authors \in [Packages -> Names \union {NoRow}]
  /\ exporting \in BOOLEAN
  /\ faults \in 0 .. MaxFaults
  /\ spoiled \subseteq Contents
  /\ failed \in [Titles -> {"never", "before", "now"}]

NoAuthors == [p \in Packages |-> NoRow]

Init ==
  /\ media = [c \in Contents |-> None]
  /\ cache = [t \in Titles |-> Unknown]
  /\ job = [w \in Threads |-> Idle]
  /\ rows = [p \in Packages |-> NoRow]
  /\ gone = {}
  /\ todo = {}
  /\ draft = NoAuthors
  /\ authors = NoAuthors
  /\ exporting = FALSE
  /\ faults = 0
  /\ spoiled = {}
  /\ failed = [t \in Titles |-> "never"]

Fault == faults < MaxFaults /\ faults' = faults + 1

At(w, step) == job[w].at = step
Goes(w, step) == job' = [job EXCEPT ![w].at = step]
GoesWith(w, step, icon, found) ==
  job' = [job EXCEPT ![w] =
            [at |-> step, pkg |-> job[w].pkg, icon |-> icon, found |-> found]]
Stops(w) == job' = [job EXCEPT ![w] = Idle]
C(w) == Content[job[w].pkg]
T(w) == Title[job[w].pkg]

-----------------------------------------------------------------------------
(* A package is new or changed, or settings.ini is: its ingestion begins.  *)

Ingest(w, p) ==
  /\ ~exporting
  /\ At(w, "idle")
  /\ p \notin gone
  /\ \A v \in Threads : job[v].pkg # p
  /\ job' = [job EXCEPT ![w] =
                [at |-> "media", pkg |-> p, icon |-> FALSE, found |-> None]]
  /\ UNCHANGED <<media, cache, rows, gone, exportVars, faults, spoiled, failed>>

\* The user puts a package back that was moved to errors.
Deliver(p) ==
  /\ p \in gone
  /\ gone' = gone \ {p}
  /\ UNCHANGED <<media, cache, job, rows, exportVars, faults, spoiled, failed>>

\* Wrong: the row names the picture all the same.
NoPictureNamed(w) ==
  /\ At(w, "media")
  /\ job[w].pkg \in Updates \ Pictured
  /\ GoesWith(w, "lookup", TRUE, None)
  /\ UNCHANGED <<media, cache, rows, gone, exportVars, faults, spoiled, failed>>

NoPicture(w) ==
  /\ At(w, "media")
  /\ job[w].pkg \in Updates \ Pictured
  /\ Goes(w, "lookup")
  /\ UNCHANGED <<media, cache, rows, gone, exportVars, faults, spoiled, failed>>

\* Only an update may lack the icon: others are a failed probe.
PictureRequired(w) ==
  /\ At(w, "media")
  /\ job[w].pkg \notin Updates \union Pictured
  /\ Stops(w)
  /\ gone' = gone \union {job[w].pkg}
  /\ UNCHANGED <<media, cache, rows, exportVars, faults, spoiled, failed>>

\* out_path.exists(): a file with that name will do, whose ever it is.
PictureExists(w) ==
  /\ At(w, "media")
  /\ job[w].pkg \in Pictured
  /\ media[C(w)] # None
  /\ GoesWith(w, "lookup", TRUE, None)
  /\ UNCHANGED <<media, cache, rows, gone, exportVars, faults, spoiled, failed>>

PictureLacks(w) ==
  /\ At(w, "media")
  /\ job[w].pkg \in Pictured
  /\ media[C(w)] = None
  /\ Goes(w, "open")
  /\ UNCHANGED <<media, cache, rows, gone, exportVars, faults, spoiled, failed>>

\* pkgtool writes at the name itself; it may have been made since the check.
BeginExtraction(w) ==
  /\ At(w, "open")
  /\ Goes(w, "extract")
  /\ media' = [media EXCEPT ![C(w)] = Cut]
  /\ spoiled' = IF media[C(w)] = None THEN spoiled ELSE spoiled \union {C(w)}
  /\ UNCHANGED <<cache, rows, gone, exportVars, faults, failed>>

\* Two that write at once leave the bytes of either, or of both.
EndExtraction(w) ==
  /\ At(w, "extract")
  /\ GoesWith(w, "lookup", TRUE, None)
  /\ \E picture \in {job[w].pkg} \union (IF C(w) \in spoiled THEN {Cut} ELSE {}) :
       media' = [media EXCEPT ![C(w)] = picture]
  /\ UNCHANGED <<cache, rows, gone, exportVars, faults, spoiled, failed>>

\* pkgtool fails or times out; what it has written stays.
ExtractionFails(w) ==
  /\ At(w, "extract")
  /\ Fault
  /\ Stops(w)
  /\ gone' = gone \union {job[w].pkg}
  /\ spoiled' = spoiled \union {C(w)}
  /\ UNCHANGED <<media, cache, rows, exportVars, failed>>

\* So may the rest of the call: a pkgtool that writes no picture, the move and
\* stat before the look-up, which cost the package, and the commit.
IngestionFails(w) ==
  /\ Fault
  /\ \/ job[w].at \in {"media", "open", "lookup"} /\ gone' = gone \union {job[w].pkg}
     \/ At(w, "upsert") /\ UNCHANGED gone
  /\ Stops(w)
  /\ UNCHANGED <<media, cache, rows, exportVars, spoiled, failed>>

-----------------------------------------------------------------------------
(* The look-up of the publisher.                                           *)

\* Wrong: the cache is asked and nobody else.
LookupCacheOnly(w) ==
  /\ At(w, "lookup")
  /\ GoesWith(w, "upsert", job[w].icon, cache[T(w)])
  /\ UNCHANGED <<media, cache, rows, gone, exportVars, faults, spoiled, failed>>

\* Wrong: None holds the place of the answer that is awaited.
LookupPlaceholder(w) ==
  /\ At(w, "lookup")
  /\ IF cache[T(w)] # Unknown
     THEN /\ GoesWith(w, "upsert", job[w].icon, cache[T(w)])
          /\ UNCHANGED cache
     ELSE /\ Goes(w, "fetch")
          /\ cache' = [cache EXCEPT ![T(w)] = None]
  /\ UNCHANGED <<media, rows, gone, exportVars, faults, spoiled, failed>>

Lookup(w) ==
  /\ At(w, "lookup")
  /\ IF cache[T(w)] # Unknown
     THEN GoesWith(w, "upsert", job[w].icon, cache[T(w)])
     ELSE Goes(w, "fetch")
  /\ UNCHANGED <<media, cache, rows, gone, exportVars, faults, spoiled, failed>>

Fetched(w) ==
  /\ At(w, "fetch")
  /\ Goes(w, "return")
  /\ cache' = [cache EXCEPT ![T(w)] = Publisher[T(w)]]
  /\ UNCHANGED <<media, rows, gone, exportVars, faults, spoiled, failed>>

\* No answer, or an error: the cache keeps None, over an answer as well.
FetchFails(w) ==
  /\ At(w, "fetch")
  /\ Fault
  /\ Goes(w, "return")
  /\ cache' = [cache EXCEPT ![T(w)] = None]
  /\ failed' = [failed EXCEPT ![T(w)] = "now"]
  /\ UNCHANGED <<media, rows, gone, exportVars, spoiled>>

\* return self._cache[key]: what the cache says by now.
ReturnCached(w) ==
  /\ At(w, "return")
  /\ GoesWith(w, "upsert", job[w].icon, cache[T(w)])
  /\ UNCHANGED <<media, cache, rows, gone, exportVars, faults, spoiled, failed>>

\* The upsert replaces every field, the publisher by None as well.
Upsert(w) ==
  /\ At(w, "upsert")
  /\ rows' = [rows EXCEPT ![job[w].pkg] =
                [publisher |-> job[w].found, icon |-> job[w].icon]]
  /\ Stops(w)
  /\ UNCHANGED <<media, cache, gone, exportVars, faults, spoiled, failed>>

-----------------------------------------------------------------------------
(* The export of store.db, when the ingestion is over.                     *)

\* The rows of packages that are gone are pruned first.
BeginExport ==
  /\ ~exporting
  /\ \A w \in Threads : At(w, "idle")
  /\ rows' = [p \in Packages |-> IF p \in gone THEN NoRow ELSE rows[p]]
  /\ todo' = {p \in Packages : rows'[p] # NoRow}
  /\ draft' = NoAuthors
  /\ exporting' = TRUE
  /\ UNCHANGED <<media, cache, job, gone, authors, faults, spoiled, failed>>

Formats(p, author) ==
  /\ p \in todo
  /\ todo' = todo \ {p}
  /\ draft' = [draft EXCEPT ![p] = author]
  /\ UNCHANGED <<media, job, rows, gone, authors, exporting, spoiled>>

\* Wrong: the publisher of the row, or none.
FormatRowOnly(p) ==
  /\ Formats(p, IF rows[p] = NoRow THEN None ELSE rows[p].publisher)
  /\ UNCHANGED <<cache, faults, failed>>

\* _resolve_publisher: that of the row, else that of the cache.
FormatRow(p) ==
  /\ p \in todo
  /\ rows[p].publisher # None \/ cache[Title[p]] # Unknown
  /\ Formats(p, IF rows[p].publisher # None THEN rows[p].publisher
                                            ELSE cache[Title[p]])
  /\ UNCHANGED <<cache, faults, failed>>

NeedsFetch(p) == p \in todo /\ rows[p].publisher = None /\ cache[Title[p]] = Unknown

FormatFetched(p) ==
  /\ NeedsFetch(p)
  /\ Formats(p, Publisher[Title[p]])
  /\ cache' = [cache EXCEPT ![Title[p]] = Publisher[Title[p]]]
  /\ UNCHANGED <<faults, failed>>

FormatUnfetched(p) ==
  /\ NeedsFetch(p)
  /\ Fault
  /\ Formats(p, None)
  /\ cache' = [cache EXCEPT ![Title[p]] = None]
  /\ failed' = [failed EXCEPT ![Title[p]] = "now"]

EndExport ==
  /\ exporting
  /\ todo = {}
  /\ authors' = draft
  /\ exporting' = FALSE
  /\ UNCHANGED <<media, cache, job, rows, gone, todo, draft, faults, spoiled, failed>>

\* The container ends and comes back: the cache is empty, files stay.
Restart ==
  /\ Fault
  /\ cache' = [t \in Titles |-> Unknown]
  /\ spoiled' = spoiled \union {C(w) : w \in {v \in Threads : At(v, "extract")}}
  /\ job' = [w \in Threads |-> Idle]
  /\ todo' = {}
  /\ draft' = NoAuthors
  /\ exporting' = FALSE
  /\ failed' = [t \in Titles |-> IF failed[t] = "never" THEN "never" ELSE "before"]
  /\ UNCHANGED <<media, rows, gone, authors>>

-----------------------------------------------------------------------------

ThreadStep(w) ==
  \/ \E p \in Packages : Ingest(w, p)
  \/ NoPicture(w) \/ PictureRequired(w) \/ PictureExists(w) \/ PictureLacks(w)
  \/ BeginExtraction(w) \/ EndExtraction(w) \/ ExtractionFails(w) \/ IngestionFails(w)
  \/ Lookup(w) \/ Fetched(w) \/ FetchFails(w) \/ ReturnCached(w)
  \/ Upsert(w)

Next ==
  \/ \E w \in Threads : ThreadStep(w)
  \/ \E p \in Packages :
       Deliver(p) \/ FormatRow(p) \/ FormatFetched(p) \/ FormatUnfetched(p)
  \/ BeginExport \/ EndExport
  \/ Restart

Spec == Init /\ [][Next]_vars

-----------------------------------------------------------------------------

Writing(c) == \E w \in Threads : At(w, "extract") /\ C(w) = c

\* PicturesShown: every package but an update has a picture, a picture a row
\* names is there, and it is whole unless pkgtool was cut off or two threads
\* extracted it at once: then it stays as it is, for it exists.
PicturesShown ==
  \A p \in Packages : rows[p] # NoRow =>
    /\ p \notin Updates => rows[p].icon
    /\ rows[p].icon =>
         /\ media[Content[p]] # None
         /\ \/ media[Content[p]] # Cut
            \/ Content[p] \in spoiled
            \/ Writing(Content[p])

\* GapsComeFromFailures: a row lacks the publisher its title has only if some
\* look-up of the title failed, its own or, by the cache, any other.
GapsComeFromFailures ==
  \A p \in Packages :
    rows[p] # NoRow /\ rows[p].publisher # Publisher[Title[p]] =>
      failed[Title[p]] # "never"

\* AuthorsComplete: an export fills the gap an earlier process left in a row:
\* store.db lacks an author only if a look-up has failed in this process.
AuthorsComplete ==
  [][authors' # authors =>
       \A p \in Packages :
         authors'[p] \in {NoRow, Publisher[Title[p]]} \/ failed[Title[p]] = "now"]_vars
=============================================================================
