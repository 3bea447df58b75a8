----------------------------- MODULE HbStoreApi -----------------------------
(***************************************************************************)
(* The PS4-Store API: /download.php, answered by one thread per request    *)
(* while the worker commits catalog rows, prunes them and replaces         *)
(* store.db.  Every sqlite3.connect of a request is a step of its own: the *)
(* database may change between the look-up of the package, the reading of  *)
(* the seed and the counting of the download.                              *)
(***************************************************************************)
EXTENDS Naturals, FiniteSets

CONSTANTS
  Items,        \* rows the catalog may hold: (content_id, app_type, version)
  Title,        \* Title[i], Content[i], Ver[i]: columns of row i
  Content,
  Ver,
  Rank,         \* order of _best_catalog_row: app type, then version
  ListOrder,    \* order of list_items, in which the export numbers its rows
  None,         \* an absent parameter, counter or row
  OldStore,     \* the store.db an earlier life of the store may have left
  Threads,      \* handler threads
  Requests,     \* requests clients may send
  MaxRequests,  \* bound: requests served
  MaxFaults     \* bound: sqlite errors of the handlers

Kinds == {"check", "get", "head"}

ASSUME ItemsAssumption ==
  /\ IsFiniteSet(Items)
  /\ Rank \in [Items -> 1 .. Cardinality(Items)]
  /\ ListOrder \in [Items -> 1 .. Cardinality(Items)]
  /\ None \notin Items \union Nat
  /\ \A i \in Items : Content[i] # None /\ Title[i] # None
  /\ OldStore \subseteq [Items -> Nat \union {None}]
  /\ None \notin Requests
  /\ \A r \in Requests : r.kind \in Kinds
  /\ MaxRequests \in Nat
  /\ MaxFaults \in Nat

\* _counter_key
CounterKey(r) ==
  IF r.content = None THEN <<r.title>>
  ELSE IF r.version = None THEN <<r.content>>
  ELSE <<r.content, r.version>>

ItemKeys(i) == {<<Content[i], Ver[i]>>, <<Content[i]>>, <<Title[i]>>}

Keys == (UNION {ItemKeys(i) : i \in Items}) \union {CounterKey(r) : r \in Requests}

Counts == Nat \union {None}

VARIABLES
  catalog,    \* rows of catalog_items
  counters,   \* download_counters, None where a key has no row
  store,      \* number_of_downloads of the rows of store.db
  listed,     \* the result of list_items a running export works from
  thread,     \* what each handler thread is doing
  served,     \* requests accepted so far (counts up to MaxRequests)
  faults,     \* sqlite errors so far (counts up to MaxFaults)
  seeded,     \* the seed a counter was created with (history)
  counted,    \* downloads answered and counted, per key (history)
  total       \* the greatest number of the store.db there was, and all the
              \* downloads counted since (history)

vars == <<catalog, counters, store, listed, thread, served, faults, seeded, counted, total>>

Shown == [Items -> Counts]

Threads0 == [at |-> "free", request |-> None, found |-> None, seed |-> 0,
             answer |-> None, steady |-> {}]

Steps == {"free", "count", "storeCount", "byContent", "byTitle", "seed",
          "increment", "reply"}

ThreadStates == [at : Steps, request : Requests \union {None},
                 found : Items \union {None}, seed : Nat,
                 answer : Counts, steady : SUBSET Items]

\* A reply to check=true is always a number.
Counted(t) == thread[t].at = "reply" /\ thread[t].request.kind = "check"

TypeOK ==
  /\ catalog \subseteq Items
  /\ counters \in [Keys -> Counts]
  /\ store \in Shown
  /\ listed \in Shown \union {None}
  /\ thread \in [Threads -> ThreadStates]
  /\ \A t \in Threads : Counted(t) => thread[t].answer \in Nat
  /\ served \in 0 .. MaxRequests
  /\ faults \in 0 .. MaxFaults
  /\ seeded \in [Keys -> Nat]
  /\ counted \in [Keys -> Nat]
  /\ total \in Nat

Init ==
  /\ catalog \in SUBSET Items
  /\ counters = [k \in Keys |-> None]
  /\ store \in OldStore
  /\ listed = None
  /\ thread = [t \in Threads |-> Threads0]
  /\ served = 0
  /\ faults = 0
  /\ seeded = [k \in Keys |-> 0]
  /\ counted = [k \in Keys |-> 0]
  /\ total \in ({0} \union {store[i] : i \in Items}) \ {None}
  /\ \A i \in Items : store[i] # None => store[i] <= total

-----------------------------------------------------------------------------
(* The worker.                                                             *)

Upsert(i) ==
  /\ catalog' = catalog \union {i}
  /\ UNCHANGED <<counters, store, listed, thread, served, faults, seeded, counted, total>>

\* steady keeps, for each request, the rows its look-ups are bound to see.
Prune(rows) ==
  /\ rows # {}
  /\ catalog' = catalog \ rows
  /\ thread' = [t \in Threads |-> [thread[t] EXCEPT !.steady = @ \ rows]]
  /\ UNCHANGED <<counters, store, listed, served, faults, seeded, counted, total>>

OrZero(count) == IF count = None THEN 0 ELSE count

\* Wrong: what the keys of a row count is added up.
DownloadsSummed(i) ==
  OrZero(counters[<<Content[i], Ver[i]>>]) + OrZero(counters[<<Content[i]>>])
    + OrZero(counters[<<Title[i]>>])

\* COALESCE(dc_pkg.downloads, dc_content.downloads, dc_title.downloads, 0)
Downloads(i) ==
  LET pkg == counters[<<Content[i], Ver[i]>>]
      content == counters[<<Content[i]>>]
      title == counters[<<Title[i]>>]
  IN  IF pkg # None THEN pkg
      ELSE IF content # None THEN content
      ELSE IF title # None THEN title ELSE 0

\* list_items, read in one transaction by ExportOutputs.
ListItems ==
  /\ listed = None
  /\ listed' = [i \in Items |-> IF i \in catalog THEN Downloads(i) ELSE None]
  /\ UNCHANGED <<catalog, counters, store, thread, served, faults, seeded, counted, total>>

\* StoreDbExporter.export: a new file takes the place of store.db at once.
ReplaceStore ==
  /\ listed # None
  /\ store' = listed
  /\ listed' = None
  /\ UNCHANGED <<catalog, counters, thread, served, faults, seeded, counted, total>>

\* cleanup, when the target is disabled.
RemoveStore ==
  /\ store' = [i \in Items |-> None]
  /\ UNCHANGED <<catalog, counters, listed, thread, served, faults, seeded, counted, total>>

-----------------------------------------------------------------------------
(* The handler threads.                                                    *)

\* What names no package is answered at once, with 0 or "not found".
Blank(r) == r.title = None /\ r.content = None

FirstStep(r) ==
  IF Blank(r) THEN "reply" ELSE IF r.kind = "check" THEN "count" ELSE "byContent"

Accept(t, r) ==
  /\ thread[t].at = "free"
  /\ served < MaxRequests
  /\ served' = served + 1
  /\ thread' = [thread EXCEPT ![t] =
       [Threads0 EXCEPT !.at = FirstStep(r), !.request = r, !.steady = catalog,
                        !.answer = IF Blank(r) /\ r.kind = "check" THEN 0 ELSE None]]
  /\ UNCHANGED <<catalog, counters, store, listed, faults, seeded, counted, total>>

Key(t) == CounterKey(thread[t].request)

\* _catalog_download_count of download_count
Count(t) ==
  /\ thread[t].at = "count"
  /\ thread' = [thread EXCEPT
       ![t].at = IF counters[Key(t)] # None THEN "reply" ELSE "storeCount",
       ![t].answer = counters[Key(t)]]
  /\ UNCHANGED <<catalog, counters, store, listed, served, faults, seeded, counted, total>>

\* _store_download_count: the row of the title that was inserted last.  The
\* other keys are no title and find nothing.
StoreRows(r) ==
  {i \in Items : store[i] # None /\ <<Title[i]>> = CounterKey(r)}

StoreDownloads(r) ==
  IF StoreRows(r) = {} THEN None
  ELSE LET last == CHOOSE i \in StoreRows(r) :
                     \A j \in StoreRows(r) : ListOrder[j] <= ListOrder[i]
       IN  store[last]

\* Wrong: a title store.db does not list is answered with no number.
StoreCountMissing(t) ==
  /\ thread[t].at = "storeCount"
  /\ thread' = [thread EXCEPT ![t].at = "reply",
                              ![t].answer = StoreDownloads(thread[t].request)]
  /\ UNCHANGED <<catalog, counters, store, listed, served, faults, seeded, counted, total>>

\* ... and of store.db's, or 0.
StoreCount(t) ==
  /\ thread[t].at = "storeCount"
  /\ thread' = [thread EXCEPT ![t].at = "reply",
                              ![t].answer = OrZero(StoreDownloads(thread[t].request))]
  /\ UNCHANGED <<catalog, counters, store, listed, served, faults, seeded, counted, total>>

\* _best_catalog_row: rows of the version asked for, if there are any, and of
\* these the greatest.  Equals are told apart by updated_at, which any commit
\* of the row changes: either may be the best.
Preferred(rows, version) ==
  LET exact == {i \in rows : Ver[i] = version}
  IN  IF version # None /\ exact # {} THEN exact ELSE rows

\* Wrong: the version asked for is ignored.
BestRowsIgnoring(rows, version) ==
  IF rows = {} THEN {None} ELSE {i \in rows : \A j \in rows : Rank[j] <= Rank[i]}

BestRows(rows, version) ==
  IF rows = {} THEN {None}
  ELSE {i \in Preferred(rows, version) :
          \A j \in Preferred(rows, version) : Rank[j] <= Rank[i]}

\* resolve_download_url: by content id, else by title.  The third look-up
\* finds nothing: the rows StoreDbExporter writes link to download.php.
Found(t, i, otherwise) ==
  thread' = [thread EXCEPT
    ![t].found = i,
    ![t].at = IF i = None THEN otherwise
              ELSE IF thread[t].request.kind = "get" THEN "seed" ELSE "reply"]

ByContent(t) ==
  /\ thread[t].at = "byContent"
  /\ LET r == thread[t].request
     IN  \E i \in BestRows({j \in catalog : Content[j] = r.content}, r.version) :
           Found(t, i, "byTitle")
  /\ UNCHANGED <<catalog, counters, store, listed, served, faults, seeded, counted, total>>

ByTitle(t) ==
  /\ thread[t].at = "byTitle"
  /\ LET r == thread[t].request
     IN  \E i \in BestRows({j \in catalog : Title[j] = r.title}, None) :
           Found(t, i, "reply")
  /\ UNCHANGED <<catalog, counters, store, listed, served, faults, seeded, counted, total>>

\* increment_download_count: the seed is read from store.db ...
Seed(t) ==
  /\ thread[t].at = "seed"
  /\ LET r == thread[t].request
         seed == IF r.content # None THEN 0 ELSE OrZero(StoreDownloads(r))
     IN  thread' = [thread EXCEPT ![t].at = "increment", ![t].seed = seed]
  /\ UNCHANGED <<catalog, counters, store, listed, served, faults, seeded, counted, total>>

\* Wrong: the seed replaces a counter that is there (ON CONFLICT DO UPDATE).
IncrementSeedAgain(t) ==
  /\ thread[t].at = "increment"
  /\ LET k == Key(t)
         new == counters[k] = None
     IN  /\ counters' = [counters EXCEPT ![k] = thread[t].seed + 1]
         /\ seeded' = IF new THEN [seeded EXCEPT ![k] = thread[t].seed] ELSE seeded
         /\ counted' = [counted EXCEPT ![k] = @ + 1]
         /\ total' = total + 1
  /\ thread' = [thread EXCEPT ![t].at = "reply"]
  /\ UNCHANGED <<catalog, store, listed, served, faults>>

\* ... and inserted, unless the counter is there by now, in the transaction
\* that adds one.
Increment(t) ==
  /\ thread[t].at = "increment"
  /\ LET k == Key(t)
         new == counters[k] = None
         base == IF new THEN thread[t].seed ELSE counters[k]
     IN  /\ counters' = [counters EXCEPT ![k] = base + 1]
         /\ seeded' = IF new THEN [seeded EXCEPT ![k] = thread[t].seed] ELSE seeded
         /\ counted' = [counted EXCEPT ![k] = @ + 1]
         /\ total' = total + 1
  /\ thread' = [thread EXCEPT ![t].at = "reply"]
  /\ UNCHANGED <<catalog, store, listed, served, faults>>

\* A locked database: a count falls back to store.db, then to 0, a look-up
\* finds nothing, and a download that cannot be counted is answered all the
\* same.
AfterFailure == [count |-> "storeCount", storeCount |-> "reply",
                 byContent |-> "byTitle", byTitle |-> "reply",
                 seed |-> "increment", increment |-> "reply"]

QueryFails(t) ==
  /\ thread[t].at \in DOMAIN AfterFailure
  /\ faults < MaxFaults
  /\ faults' = faults + 1
  /\ thread' = [thread EXCEPT
       ![t].at = AfterFailure[@],
       ![t].answer = IF thread[t].at = "storeCount" THEN 0 ELSE @,
       ![t].steady = IF thread[t].at \in {"byContent", "byTitle"} THEN {} ELSE @]
  /\ UNCHANGED <<catalog, counters, store, listed, served, seeded, counted, total>>

\* The answer leaves: a count, a redirect to the package found, or 404.
Reply(t) ==
  /\ thread[t].at = "reply"
  /\ thread' = [thread EXCEPT ![t] = Threads0]
  /\ UNCHANGED <<catalog, counters, store, listed, served, faults, seeded, counted, total>>

-----------------------------------------------------------------------------

Worker ==
  \/ \E i \in Items \ catalog : Upsert(i)
  \/ \E rows \in SUBSET catalog : Prune(rows)
  \/ ListItems \/ ReplaceStore \/ RemoveStore

Handle(t) ==
  \/ \E r \in Requests : Accept(t, r)
  \/ Count(t) \/ StoreCount(t)
  \/ ByContent(t) \/ ByTitle(t)
  \/ Seed(t) \/ Increment(t) \/ QueryFails(t)
  \/ Reply(t)

Next == Worker \/ \E t \in Threads : Handle(t)

Spec == Init /\ [][Next]_vars

-----------------------------------------------------------------------------

\* EveryDownloadCounted: a counter is its seed and the downloads that were
\* counted for its key, whatever threads count at the same time.
EveryDownloadCounted ==
  \A k \in Keys :
    /\ counters[k] = None => counted[k] = 0
    /\ counters[k] # None => counters[k] = seeded[k] + counted[k]

\* CountersGrow: no counter is ever lost, reset or seeded again.
CountersGrow ==
  [][\A k \in Keys : counters[k] # None
       => counters'[k] # None /\ counters'[k] >= counters[k]]_vars

\* NumbersReal: a counter starts from the number store.db shows, which comes
\* from the counters of other keys: in this circle no download is counted twice.
\* What store.db shows is never more than it once did and the downloads since.
NumbersReal == \A i \in Items : store[i] # None => store[i] <= total

\* AnswersBest: unless sqlite failed, a redirect is at least as good as the
\* best row that was in the catalog from the request to the answer; it has
\* the version asked for when such a row was there; and a title with such a
\* row is never "not found", though two queries looked for it.
BestFound(s) ==
  LET r == s.request
      ofContent == {i \in s.steady : Content[i] = r.content}
      ofTitle == {i \in s.steady : Title[i] = r.title}
  IN  /\ ofContent \union ofTitle # {} => s.found # None
      /\ r.version # None /\ (\E i \in ofContent : Ver[i] = r.version)
           => Content[s.found] = r.content /\ Ver[s.found] = r.version
      /\ r.content = None /\ s.found # None
           => \A i \in ofTitle : Rank[i] <= Rank[s.found]

AnswersBest ==
  \A t \in Threads :
    thread[t].at = "reply" /\ thread[t].request.kind # "check"
      => BestFound(thread[t])
=============================================================================
