------------------------ MODULE PackageMetadataProofs ------------------------
(***************************************************************************)
(* Proofs about PackageMetadata, for any packages, titles, pictures,       *)
(* threads and bounds.                                                     *)
(***************************************************************************)
EXTENDS PackageMetadata, TLAPS

\* A thread that returns finds an entry in the cache, and an export has the
\* catalog for itself.
TurnsInv ==
  /\ \A w \in Threads : At(w, "return") => cache[T(w)] # Unknown
  /\ exporting => \A w \in Threads : At(w, "idle")
  /\ todo # {} => exporting
  /\ \A p \in todo : rows[p] # NoRow

TypeInv == TypeOK /\ TurnsInv

\* NamesHold: what a site says is a name, and an empty cache is none.
LEMMA NamesHold ==
  /\ None \in Names
  /\ \A t \in Titles : Publisher[t] \in Names
  /\ Unknown \notin Names
  /\ NoRow \notin Names
  BY MetadataAssumption DEF Names

\* AtWork: a thread that is not idle has a package, of some title.
LEMMA AtWork ==
  ASSUME TypeOK, NEW w \in Threads, ~At(w, "idle")
  PROVE  job[w].pkg \in Packages /\ C(w) \in Contents /\ T(w) \in Titles
  BY DEF TypeOK, At, C, T, Contents, Titles

LEMMA TypeInit == Init => TypeInv
<1> SUFFICES ASSUME Init PROVE TypeInv
  OBVIOUS
<1>1. TypeOK
  <2>1. /\ Idle \in [at : Steps, pkg : Packages \union {NoPackage},
                     icon : BOOLEAN, found : Names]
        /\ Idle.at = "idle" /\ Idle.pkg = NoPackage
    BY NamesHold DEF Idle, Steps
  <2> HIDE DEF Idle
  <2>2. job \in [Threads -> [at : Steps, pkg : Packages \union {NoPackage},
                            icon : BOOLEAN, found : Names]]
    BY <2>1 DEF Init
  <2>3. faults \in 0 .. MaxFaults
    BY MetadataAssumption, SMT DEF Init
  <2> QED
    BY <2>1, <2>2, <2>3 DEF Init, TypeOK, NoAuthors
<1>2. TurnsInv
  BY DEF Init, TurnsInv, Idle, At
<1> QED
  BY <1>1, <1>2 DEF TypeInv

\* IngestTypes: the steps up to the look-up keep the types.
LEMMA IngestTypes ==
  ASSUME TypeInv, NEW w \in Threads,
         \/ \E p \in Packages : Ingest(w, p)
         \/ NoPicture(w) \/ PictureRequired(w) \/ PictureExists(w) \/ PictureLacks(w)
         \/ BeginExtraction(w) \/ EndExtraction(w) \/ ExtractionFails(w) \/ IngestionFails(w)
  PROVE  TypeInv'
<1> USE MetadataAssumption, NamesHold, AtWork
    DEF TypeInv, TypeOK, TurnsInv, At, Goes, GoesWith, Stops, T, exportVars, Steps
<1>1. ASSUME NEW p \in Packages, Ingest(w, p) PROVE TypeInv'
  BY <1>1 DEF Ingest
<1>2. CASE NoPicture(w)
  BY <1>2 DEF NoPicture
<1>3. CASE PictureRequired(w)
  BY <1>3 DEF PictureRequired, Idle
<1>4. CASE PictureExists(w)
  BY <1>4 DEF PictureExists
<1>5. CASE PictureLacks(w)
  BY <1>5 DEF PictureLacks
<1>6. CASE BeginExtraction(w)
  BY <1>6 DEF BeginExtraction
<1>7. CASE EndExtraction(w)
  BY <1>7 DEF EndExtraction
<1>8. CASE ExtractionFails(w)
  BY <1>8 DEF ExtractionFails, Fault, Idle
<1>9. CASE IngestionFails(w)
  BY <1>9 DEF IngestionFails, Fault, Idle
<1> QED
  BY <1>1, <1>2, <1>3, <1>4, <1>5, <1>6, <1>7, <1>8, <1>9

\* LookupTypes: so do the look-up and the upsert.
LEMMA LookupTypes ==
  ASSUME TypeInv, NEW w \in Threads,
         Lookup(w) \/ Fetched(w) \/ FetchFails(w) \/ ReturnCached(w) \/ Upsert(w)
  PROVE  TypeInv'
<1> USE MetadataAssumption, NamesHold, AtWork
    DEF TypeInv, TypeOK, TurnsInv, At, Goes, GoesWith, Stops, exportVars, Steps
<1>1. CASE Lookup(w)
  <2>1. CASE GoesWith(w, "upsert", job[w].icon, cache[T(w)])
    BY <1>1, <2>1 DEF Lookup, T
  <2>2. CASE Goes(w, "fetch")
    BY <1>1, <2>2 DEF Lookup, T
  <2> QED
    BY <1>1, <2>1, <2>2 DEF Lookup
<1>2. CASE Fetched(w)
  BY <1>2 DEF Fetched, T
<1>3. CASE FetchFails(w)
  BY <1>3 DEF FetchFails, Fault, T
<1>4. CASE ReturnCached(w)
  BY <1>4 DEF ReturnCached, T
<1>5. CASE Upsert(w)
  BY <1>5 DEF Upsert, Idle, T
<1> QED
  BY <1>1, <1>2, <1>3, <1>4, <1>5

\* OtherTypes: and the export, a restart and the user.
LEMMA OtherTypes ==
  ASSUME TypeInv,
         \/ \E p \in Packages :
              Deliver(p) \/ FormatRow(p) \/ FormatFetched(p) \/ FormatUnfetched(p)
         \/ BeginExport \/ EndExport \/ Restart \/ UNCHANGED vars
  PROVE  TypeInv'
<1> USE MetadataAssumption, NamesHold, AtWork
    DEF TypeInv, TypeOK, TurnsInv, At, T, exportVars, NoAuthors
<1>0. ASSUME NEW p \in todo
      PROVE  /\ rows[p].publisher \in Names
             /\ Title[p] \in Titles
             /\ cache[Title[p]] \in Names \union {Unknown}
  BY <1>0 DEF Titles
<1>1. ASSUME NEW p \in Packages, Deliver(p) PROVE TypeInv'
  BY <1>1 DEF Deliver
<1>2. ASSUME NEW p \in Packages, FormatRow(p) PROVE TypeInv'
  BY <1>0, <1>2 DEF FormatRow, Formats
<1>3. ASSUME NEW p \in Packages, FormatFetched(p) PROVE TypeInv'
  BY <1>0, <1>3 DEF FormatFetched, NeedsFetch, Formats
<1>4. ASSUME NEW p \in Packages, FormatUnfetched(p) PROVE TypeInv'
  BY <1>0, <1>4 DEF FormatUnfetched, NeedsFetch, Formats, Fault
<1>5. CASE BeginExport
  BY <1>5 DEF BeginExport
<1>6. CASE EndExport
  BY <1>6 DEF EndExport
<1>7. CASE Restart
  <2>1. /\ Idle \in [at : Steps, pkg : Packages \union {NoPackage},
                     icon : BOOLEAN, found : Names]
        /\ Idle.at = "idle" /\ Idle.pkg = NoPackage
    BY DEF Idle, Steps
  <2>2. spoiled' \subseteq Contents
    BY <1>7 DEF Restart
  <2>3. /\ job' \in [Threads -> [at : Steps, pkg : Packages \union {NoPackage},
                                icon : BOOLEAN, found : Names]]
        /\ \A w \in Threads : job'[w] = Idle
    BY <1>7, <2>1 DEF Restart
  <2>4. faults' \in 0 .. MaxFaults
    BY <1>7, SMT DEF Restart, Fault
  <2>5. failed' \in [Titles -> {"never", "before", "now"}]
    BY <1>7 DEF Restart
  <2>6. TypeOK'
    BY <1>7, <2>1, <2>2, <2>3, <2>4, <2>5 DEF Restart
  <2>7. TurnsInv'
    BY <1>7, <2>1, <2>3 DEF Restart
  <2> QED
    BY <2>6, <2>7
<1>8. CASE UNCHANGED vars
  BY <1>8 DEF vars
<1> QED
  BY <1>1, <1>2, <1>3, <1>4, <1>5, <1>6, <1>7, <1>8

LEMMA TypeStep == TypeInv /\ [Next]_vars => TypeInv'
  BY IngestTypes, LookupTypes, OtherTypes DEF Next, ThreadStep

LEMMA TypeInvariant == Spec => []TypeInv
  BY TypeInit, TypeStep, PTL DEF Spec

\* MetadataTypeCorrect: the variables keep their types, whatever two threads
\* look up and extract at once: no look-up returns what the cache lacks, and
\* no export formats a row that is not there.
THEOREM MetadataTypeCorrect == Spec => []TypeOK
  BY TypeInvariant, PTL DEF TypeInv

-----------------------------------------------------------------------------
(* Pictures.                                                               *)

\* What a thread knows of the picture it is about to name.
ThreadPictures ==
  \A w \in Threads :
    /\ At(w, "open") \/ At(w, "extract") => job[w].pkg \in Pictured
    /\ At(w, "extract") \/ job[w].icon => media[C(w)] # None
    /\ job[w].at \in {"lookup", "fetch", "return", "upsert"} =>
         job[w].pkg \in Updates \/ job[w].icon

\* A picture is cut while it is written, or for a reason.
CutForReason ==
  \A c \in Contents : media[c] = Cut => c \in spoiled \/ Writing(c)

\* What rows promise, without what CutForReason says already.
RowPictures ==
  \A p \in Packages : rows[p] # NoRow =>
    /\ p \notin Updates => rows[p].icon
    /\ rows[p].icon => media[Content[p]] # None

PictureInv == ThreadPictures /\ CutForReason /\ RowPictures

LEMMA PictureInit == Init => PictureInv
<1> SUFFICES ASSUME Init PROVE PictureInv
  OBVIOUS
<1>1. \A w \in Threads : job[w].at = "idle" /\ job[w].icon = FALSE
  BY DEF Init, Idle
<1>2. ThreadPictures
  BY <1>1 DEF ThreadPictures, At
<1>3. CutForReason
  BY MetadataAssumption DEF Init, CutForReason
<1>4. RowPictures
  BY DEF Init, RowPictures
<1> QED
  BY <1>2, <1>3, <1>4 DEF PictureInv

\* MediaStay: a thread before its extraction leaves pictures alone, and so
\* does one that ends early.
LEMMA MediaStay ==
  ASSUME TypeInv, PictureInv, NEW w \in Threads,
         \/ \E p \in Packages : Ingest(w, p)
         \/ NoPicture(w) \/ PictureRequired(w) \/ PictureExists(w) \/ PictureLacks(w)
         \/ IngestionFails(w)
  PROVE  PictureInv'
<1> USE MetadataAssumption, AtWork
    DEF TypeInv, TypeOK, PictureInv, ThreadPictures, CutForReason, RowPictures,
        At, Goes, GoesWith, Stops, C, Writing
<1>1. ASSUME NEW p \in Packages, Ingest(w, p) PROVE PictureInv'
  BY <1>1 DEF Ingest
<1>2. CASE NoPicture(w)
  <2>1. ThreadPictures'
    BY <1>2 DEF NoPicture
  <2>2. CutForReason' /\ RowPictures'
    BY <1>2 DEF NoPicture
  <2> QED
    BY <2>1, <2>2
<1>3. CASE PictureRequired(w)
  BY <1>3 DEF PictureRequired, Idle
<1>4. CASE PictureExists(w)
  BY <1>4 DEF PictureExists
<1>5. CASE PictureLacks(w)
  BY <1>5 DEF PictureLacks
<1>6. CASE IngestionFails(w)
  BY <1>6 DEF IngestionFails, Idle
<1> QED
  BY <1>1, <1>2, <1>3, <1>4, <1>5, <1>6

\* MediaChange: an extraction leaves the other threads what they know.
LEMMA MediaChange ==
  ASSUME TypeInv, PictureInv, NEW w \in Threads,
         BeginExtraction(w) \/ EndExtraction(w) \/ ExtractionFails(w)
  PROVE  PictureInv'
<1> USE MetadataAssumption, AtWork
    DEF TypeInv, TypeOK, PictureInv, ThreadPictures, CutForReason, RowPictures,
        At, Goes, GoesWith, Stops, C, Writing
<1>1. CASE BeginExtraction(w)
  <2>1. ThreadPictures'
    BY <1>1 DEF BeginExtraction
  <2>2. CutForReason'
    BY <1>1 DEF BeginExtraction
  <2>3. RowPictures'
    BY <1>1 DEF BeginExtraction
  <2> QED
    BY <2>1, <2>2, <2>3
<1>2. CASE EndExtraction(w)
  BY <1>2 DEF EndExtraction
<1>3. CASE ExtractionFails(w)
  <2>1. ThreadPictures'
    BY <1>3 DEF ExtractionFails, Idle
  <2>2. CutForReason'
    <3> SUFFICES ASSUME NEW c \in Contents, media[c] = Cut, c \notin spoiled'
                 PROVE  Writing(c)'
      BY <1>3 DEF ExtractionFails
    <3>1. PICK v \in Threads : job[v].at = "extract" /\ Content[job[v].pkg] = c
      BY <1>3 DEF ExtractionFails
    <3>2. v # w
      BY <1>3, <3>1 DEF ExtractionFails
    <3> QED
      BY <1>3, <3>1, <3>2 DEF ExtractionFails
  <2>3. RowPictures'
    BY <1>3 DEF ExtractionFails
  <2> QED
    BY <2>1, <2>2, <2>3
<1> QED
  BY <1>1, <1>2, <1>3

\* RowsFollow: the look-up, the upsert and the export keep what the picture is.
LEMMA RowsFollow ==
  ASSUME TypeInv, PictureInv, NEW w \in Threads,
         Lookup(w) \/ Fetched(w) \/ FetchFails(w) \/ ReturnCached(w) \/ Upsert(w)
  PROVE  PictureInv'
<1> USE MetadataAssumption, AtWork
    DEF TypeInv, TypeOK, PictureInv, ThreadPictures, CutForReason, RowPictures,
        At, Goes, GoesWith, Stops, C, Writing
<1>1. CASE Lookup(w)
  <2>1. CASE GoesWith(w, "upsert", job[w].icon, cache[T(w)])
    BY <1>1, <2>1 DEF Lookup
  <2>2. CASE Goes(w, "fetch")
    <3>1. ThreadPictures'
      BY <1>1, <2>2 DEF Lookup
    <3>2. CutForReason' /\ RowPictures'
      BY <1>1, <2>2 DEF Lookup
    <3> QED
      BY <3>1, <3>2
  <2> QED
    BY <1>1, <2>1, <2>2 DEF Lookup
<1>2. CASE Fetched(w)
  BY <1>2 DEF Fetched
<1>3. CASE FetchFails(w)
  BY <1>3 DEF FetchFails
<1>4. CASE ReturnCached(w)
  BY <1>4 DEF ReturnCached
<1>5. CASE Upsert(w)
  BY <1>5 DEF Upsert, Idle
<1> QED
  BY <1>1, <1>2, <1>3, <1>4, <1>5

LEMMA PicturesElsewhere ==
  ASSUME TypeInv, PictureInv,
         \/ \E p \in Packages :
              Deliver(p) \/ FormatRow(p) \/ FormatFetched(p) \/ FormatUnfetched(p)
         \/ BeginExport \/ EndExport \/ Restart \/ UNCHANGED vars
  PROVE  PictureInv'
<1> USE DEF TypeInv, TypeOK, PictureInv, ThreadPictures, CutForReason, RowPictures,
            At, C, Writing
<1>1. CASE \E p \in Packages :
             Deliver(p) \/ FormatRow(p) \/ FormatFetched(p) \/ FormatUnfetched(p)
  BY <1>1 DEF Deliver, FormatRow, FormatFetched, FormatUnfetched, Formats
<1>2. CASE BeginExport
  BY <1>2 DEF BeginExport
<1>3. CASE EndExport
  BY <1>3 DEF EndExport
<1>4. CASE Restart
  BY <1>4 DEF Restart, Idle
<1>5. CASE UNCHANGED vars
  BY <1>5 DEF vars
<1> QED
  BY <1>1, <1>2, <1>3, <1>4, <1>5

\* PicturesAreShown: whatever is extracted, cut off and reused at once, a row
\* names only pictures that are there, cut only for a reason.
THEOREM PicturesAreShown == Spec => []PicturesShown
<1>1. TypeInv /\ PictureInv /\ [Next]_vars => PictureInv'
  BY MediaStay, MediaChange, RowsFollow, PicturesElsewhere DEF Next, ThreadStep
<1>2. TypeInv /\ PictureInv => PicturesShown
  BY DEF TypeInv, TypeOK, PictureInv, CutForReason, RowPictures, PicturesShown, Contents
<1> QED
  BY PictureInit, TypeInvariant, <1>1, <1>2, PTL DEF Spec

-----------------------------------------------------------------------------
(* Publishers.                                                             *)

Answers(t) == {None, Publisher[t]}

\* What is stored anywhere is the answer of the site, or the lack of one,
\* which has a reason: in the cache one of this process.
CacheGenuine ==
  \A t \in Titles :
    /\ cache[t] \in Answers(t) \union {Unknown}
    /\ cache[t] \notin {Unknown, Publisher[t]} => failed[t] = "now"

FoundGenuine ==
  \A w \in Threads : At(w, "upsert") =>
    /\ job[w].found \in Answers(T(w))
    /\ job[w].found # Publisher[T(w)] => failed[T(w)] # "never"

RowsGenuine ==
  \A p \in Packages : rows[p] # NoRow =>
    /\ rows[p].publisher \in Answers(Title[p])
    /\ rows[p].publisher # Publisher[Title[p]] => failed[Title[p]] # "never"

DraftComplete ==
  \A p \in Packages :
    draft[p] \in {NoRow, Publisher[Title[p]]} \/ failed[Title[p]] = "now"

PublisherInv == CacheGenuine /\ FoundGenuine /\ RowsGenuine /\ DraftComplete

LEMMA PublisherInit == Init => PublisherInv
<1> SUFFICES ASSUME Init PROVE PublisherInv
  OBVIOUS
<1>1. \A w \in Threads : job[w].at = "idle"
  BY DEF Init, Idle
<1> QED
  BY <1>1 DEF Init, PublisherInv, CacheGenuine, FoundGenuine, RowsGenuine,
              DraftComplete, NoAuthors, At

\* IngestNamesNobody: before the look-up nothing is said of publishers.
LEMMA IngestNamesNobody ==
  ASSUME TypeInv, PublisherInv, NEW w \in Threads,
         \/ \E p \in Packages : Ingest(w, p)
         \/ NoPicture(w) \/ PictureRequired(w) \/ PictureExists(w) \/ PictureLacks(w)
         \/ BeginExtraction(w) \/ EndExtraction(w) \/ ExtractionFails(w) \/ IngestionFails(w)
  PROVE  PublisherInv'
<1>1. UNCHANGED <<cache, rows, draft, failed>>
  BY DEF Ingest, NoPicture, PictureRequired, PictureExists, PictureLacks,
         BeginExtraction, EndExtraction, ExtractionFails, IngestionFails, exportVars
<1>2. /\ \A v \in Threads \ {w} : job'[v] = job[v]
      /\ job'[w].at # "upsert"
  BY DEF Ingest, NoPicture, PictureRequired, PictureExists, PictureLacks,
         BeginExtraction, EndExtraction, ExtractionFails, IngestionFails, Goes, GoesWith,
         Stops, Idle, TypeInv, TypeOK
<1>3. FoundGenuine'
  BY <1>1, <1>2 DEF PublisherInv, FoundGenuine, At, T
<1> QED
  BY <1>1, <1>3 DEF PublisherInv, CacheGenuine, RowsGenuine, DraftComplete

\* LookupsGenuine: a look-up finds what the site says, or a failure.
LEMMA LookupsGenuine ==
  ASSUME TypeInv, PublisherInv, NEW w \in Threads,
         Lookup(w) \/ Fetched(w) \/ FetchFails(w) \/ ReturnCached(w) \/ Upsert(w)
  PROVE  PublisherInv'
<1> USE AtWork, NamesHold
    DEF TypeInv, TypeOK, TurnsInv, PublisherInv, CacheGenuine, FoundGenuine,
        RowsGenuine, DraftComplete, Answers, At, Goes, GoesWith, Stops, exportVars
<1>1. CASE Lookup(w)
  <2>1. CASE GoesWith(w, "upsert", job[w].icon, cache[T(w)])
    <3>1. FoundGenuine'
      BY <1>1, <2>1 DEF Lookup, T, Titles
    <3> QED
      BY <1>1, <2>1, <3>1 DEF Lookup
  <2>2. CASE Goes(w, "fetch")
    BY <1>1, <2>2 DEF Lookup, T
  <2> QED
    BY <1>1, <2>1, <2>2 DEF Lookup
<1>2. CASE Fetched(w)
  <2>1. T(w) \in Titles
    BY <1>2 DEF Fetched
  <2>2. CacheGenuine'
    BY <1>2, <2>1 DEF Fetched
  <2>3. FoundGenuine'
    BY <1>2 DEF Fetched, T
  <2> QED
    BY <1>2, <2>2, <2>3 DEF Fetched
<1>3. CASE FetchFails(w)
  <2>1. T(w) \in Titles
    BY <1>3 DEF FetchFails
  <2>2. CacheGenuine'
    BY <1>3, <2>1 DEF FetchFails
  <2>3. FoundGenuine'
    BY <1>3 DEF FetchFails, T
  <2>4. RowsGenuine' /\ DraftComplete'
    BY <1>3, <2>1 DEF FetchFails, Titles
  <2> QED
    BY <2>2, <2>3, <2>4
<1>4. CASE ReturnCached(w)
  BY <1>4 DEF ReturnCached, T
<1>5. CASE Upsert(w)
  BY <1>5 DEF Upsert, Idle, T
<1> QED
  BY <1>1, <1>2, <1>3, <1>4, <1>5

\* ExportsGenuine: an export fills gaps from the cache, or asks once more.
LEMMA ExportsGenuine ==
  ASSUME TypeInv, PublisherInv,
         \/ \E p \in Packages :
              Deliver(p) \/ FormatRow(p) \/ FormatFetched(p) \/ FormatUnfetched(p)
         \/ BeginExport \/ EndExport \/ Restart \/ UNCHANGED vars
  PROVE  PublisherInv'
<1> USE NamesHold
    DEF TypeInv, TypeOK, TurnsInv, PublisherInv, CacheGenuine, FoundGenuine,
        RowsGenuine, DraftComplete, Answers, At, T, exportVars, NoAuthors
<1>0. \A p \in Packages : Title[p] \in Titles
  BY DEF Titles
<1>1. ASSUME NEW p \in Packages, Deliver(p) PROVE PublisherInv'
  BY <1>1 DEF Deliver
<1>2. ASSUME NEW p \in Packages, FormatRow(p) PROVE PublisherInv'
  BY <1>0, <1>2 DEF FormatRow, Formats
<1>3. ASSUME NEW p \in Packages, FormatFetched(p) PROVE PublisherInv'
  BY <1>0, <1>3 DEF FormatFetched, NeedsFetch, Formats
<1>4. ASSUME NEW p \in Packages, FormatUnfetched(p) PROVE PublisherInv'
  BY <1>0, <1>4 DEF FormatUnfetched, NeedsFetch, Formats
<1>5. CASE BeginExport
  BY <1>5 DEF BeginExport
<1>6. CASE EndExport
  BY <1>6 DEF EndExport
<1>7. CASE Restart
  BY <1>0, <1>7 DEF Restart, Idle
<1>8. CASE UNCHANGED vars
  BY <1>8 DEF vars
<1> QED
  BY <1>1, <1>2, <1>3, <1>4, <1>5, <1>6, <1>7, <1>8

LEMMA PublisherStep == TypeInv /\ PublisherInv /\ [Next]_vars => PublisherInv'
  BY IngestNamesNobody, LookupsGenuine, ExportsGenuine DEF Next, ThreadStep

LEMMA PublisherInvariant == Spec => []PublisherInv
  BY PublisherInit, TypeInvariant, PublisherStep, PTL DEF Spec

\* GapsHaveFailed: whatever look-ups race for an entry of the cache, a row
\* lacks its publisher only if a look-up of its title has failed.
THEOREM GapsHaveFailed == Spec => []GapsComeFromFailures
<1>1. PublisherInv => GapsComeFromFailures
  BY DEF PublisherInv, RowsGenuine, GapsComeFromFailures
<1> QED
  BY PublisherInvariant, <1>1, PTL

\* ExportsFillGaps: every store.db that is written has all authors, but for
\* titles whose look-up has failed since the process started.
THEOREM ExportsFillGaps == Spec => AuthorsComplete
<1>1. PublisherInv /\ [Next]_vars =>
        [authors' # authors =>
           \A p \in Packages :
             authors'[p] \in {NoRow, Publisher[Title[p]]} \/ failed[Title[p]] = "now"]_vars
  <2> SUFFICES ASSUME PublisherInv, Next, authors' # authors, NEW p \in Packages
               PROVE  authors'[p] \in {NoRow, Publisher[Title[p]]}
                        \/ failed[Title[p]] = "now"
    OBVIOUS
  <2>1. EndExport
    BY DEF Next, ThreadStep, Ingest, NoPicture, PictureRequired, PictureExists,
           PictureLacks, BeginExtraction, EndExtraction, ExtractionFails, IngestionFails,
           Lookup, Fetched, FetchFails, ReturnCached, Upsert, exportVars, Deliver,
           FormatRow, FormatFetched, FormatUnfetched, Formats, BeginExport, Restart
  <2> QED
    BY <2>1 DEF EndExport, PublisherInv, DraftComplete
<1> QED
  BY PublisherInvariant, <1>1, PTL DEF Spec, AuthorsComplete
=============================================================================
