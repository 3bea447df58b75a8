-------------------------- MODULE HbStoreApiProofs --------------------------
(***************************************************************************)
(* Proofs about HbStoreApi, for any rows, titles, requests, threads and    *)
(* bounds.                                                                 *)
(***************************************************************************)
EXTENDS HbStoreApi, FiniteSetTheorems, WellFoundedInduction, TLAPS

-----------------------------------------------------------------------------
(* The rows a look-up picks.                                               *)

\* GreatestExists: finitely many ranked rows have a greatest one, so max() of
\* _best_catalog_row and ORDER BY pid DESC LIMIT 1 pick a row of the set.
LEMMA GreatestExists ==
  ASSUME NEW rank \in [Items -> 1 .. Cardinality(Items)],
         NEW S, S \subseteq Items, S # {}
  PROVE  \E i \in S : \A j \in S : rank[j] <= rank[i]
<1> DEFINE N == Cardinality(Items)
           D == {N - rank[i] : i \in S}
<1>1. N \in Nat
  BY ItemsAssumption, FS_CardinalityType
<1>2. D \subseteq Nat /\ D # {}
  BY <1>1, SMT
<1>3. PICK d \in D : \A e \in D : <<e, d>> \notin OpToRel(<, Nat)
  BY <1>2, NatLessThanWellFounded, WFMin
<1>4. \A e \in D : d <= e
  <2> TAKE e \in D
  <2>1. ~ (e < d)
    BY <1>2, <1>3 DEF OpToRel
  <2> QED
    BY <1>2, <2>1, SMT
<1>5. PICK i \in S : d = N - rank[i]
  OBVIOUS
<1>6. \A j \in S : rank[j] <= rank[i]
  <2> TAKE j \in S
  <2>1. N - rank[i] <= N - rank[j]
    BY <1>4, <1>5
  <2>2. rank[i] \in Nat /\ rank[j] \in Nat
    BY <1>1, SMT
  <2> HIDE DEF N
  <2> QED
    BY <1>1, <2>1, <2>2, SMT
<1> QED
  BY <1>6

\* BestRowIsBest: some rows have a best one; a best one is of the version
\* asked for if there is such a row, and the greatest otherwise.
LEMMA BestRowIsBest ==
  ASSUME NEW rows \in SUBSET Items, NEW version
  PROVE  /\ BestRows(rows, version) # {}
         /\ \A best \in BestRows(rows, version) :
              /\ best \in rows \union {None}
              /\ rows # {} => best \in rows
              /\ rows = {} => best = None
              /\ version # None /\ (\E i \in rows : Ver[i] = version)
                   => Ver[best] = version
              /\ version = None => \A i \in rows : Rank[i] <= Rank[best]
<1>1. CASE rows = {}
  BY <1>1 DEF BestRows
<1>2. CASE rows # {}
  <2> DEFINE P == Preferred(rows, version)
  <2>1. P # {} /\ P \subseteq rows
    BY <1>2 DEF Preferred
  <2>2. \E i \in P : \A j \in P : Rank[j] <= Rank[i]
    BY <2>1, GreatestExists, ItemsAssumption
  <2>3. BestRows(rows, version) = {i \in P : \A j \in P : Rank[j] <= Rank[i]}
    BY <1>2 DEF BestRows
  <2>4. /\ BestRows(rows, version) # {}
        /\ \A best \in BestRows(rows, version) :
             best \in P /\ \A j \in P : Rank[j] <= Rank[best]
    <3> HIDE DEF P
    <3> QED BY <2>2, <2>3
  <2>5. /\ version # None /\ (\E i \in rows : Ver[i] = version)
             => \A i \in P : Ver[i] = version
        /\ version = None => P = rows
    BY DEF Preferred
  <2> HIDE DEF P
  <2> QED
    BY <1>2, <2>1, <2>4, <2>5
<1> QED
  BY <1>1, <1>2

\* StoreDownloadsType: a look-up in store.db finds a number or nothing.
LEMMA StoreDownloadsType ==
  ASSUME NEW r, store \in Shown
  PROVE  /\ StoreDownloads(r) \in Counts
         /\ OrZero(StoreDownloads(r)) \in Nat
<1>1. CASE StoreRows(r) = {}
  BY <1>1 DEF StoreDownloads, Counts, OrZero
<1>2. CASE StoreRows(r) # {}
  <2> DEFINE last == CHOOSE i \in StoreRows(r) :
                       \A j \in StoreRows(r) : ListOrder[j] <= ListOrder[i]
  <2>1. StoreRows(r) \subseteq Items
    BY DEF StoreRows
  <2>2. \E i \in StoreRows(r) : \A j \in StoreRows(r) : ListOrder[j] <= ListOrder[i]
    BY <1>2, <2>1, GreatestExists, ItemsAssumption
  <2>3. last \in StoreRows(r)
    BY <2>2
  <2>4. StoreDownloads(r) = store[last]
    BY <1>2 DEF StoreDownloads
  <2>5. store[last] \in Counts /\ store[last] # None
    BY <2>3 DEF StoreRows, Shown
  <2> QED
    BY <2>4, <2>5 DEF OrZero, Counts
<1> QED
  BY <1>1, <1>2

-----------------------------------------------------------------------------
(* The counters.                                                           *)

\* ThreadInv(s, rows): what holds of a thread in state s while the catalog
\* has these rows.  At "byTitle" no row that was there all along has the
\* content id asked for; from "seed" on the row found is the best one.
ThreadInv(s, rows) ==
  /\ s \in ThreadStates
  /\ s.at # "free" => s.request \in Requests
  /\ s.steady \subseteq rows
  /\ s.at \in {"count", "storeCount"} => s.request.kind = "check"
  /\ s.at \in {"byContent", "byTitle", "seed", "increment"} => s.request.kind # "check"
  /\ s.at = "byTitle" => \A i \in s.steady : Content[i] # s.request.content
  /\ s.at \in {"seed", "increment"} => BestFound(s)
  /\ s.at = "reply" /\ s.request.kind = "check" => s.answer \in Nat
  /\ s.at = "reply" /\ s.request.kind # "check" => BestFound(s)

ApiInv ==
  /\ TypeOK
  /\ EveryDownloadCounted
  /\ \A t \in Threads : ThreadInv(thread[t], catalog)

LEMMA KeyOfRequest ==
  ASSUME NEW t \in Threads, ThreadInv(thread[t], catalog), thread[t].at # "free"
  PROVE  Key(t) \in Keys
BY DEF ThreadInv, Key, Keys

\* The one step that touches the counters.
LEMMA IncrementCounts ==
  ASSUME ApiInv, NEW t \in Threads, Increment(t)
  PROVE  /\ counters' \in [Keys -> Counts]
         /\ seeded' \in [Keys -> Nat]
         /\ counted' \in [Keys -> Nat]
         /\ EveryDownloadCounted'
         /\ \A k \in Keys : counters[k] # None
              => counters'[k] # None /\ counters'[k] >= counters[k]
<1> DEFINE k == Key(t)
           new == counters[k] = None
           base == IF new THEN thread[t].seed ELSE counters[k]
<1>1. k \in Keys
  BY KeyOfRequest DEF ApiInv, Increment
<1>2. base \in Nat /\ thread[t].seed \in Nat
  BY <1>1 DEF ApiInv, TypeOK, ThreadStates, Counts
<1>3. None \notin Nat
  BY ItemsAssumption
<1>4. /\ counters' = [counters EXCEPT ![k] = base + 1]
      /\ seeded' = IF new THEN [seeded EXCEPT ![k] = thread[t].seed] ELSE seeded
      /\ counted' = [counted EXCEPT ![k] = @ + 1]
  BY DEF Increment
<1>5. /\ counters \in [Keys -> Counts]
      /\ seeded \in [Keys -> Nat]
      /\ counted \in [Keys -> Nat]
  BY DEF ApiInv, TypeOK
<1>6. /\ counters[k] = None => counted[k] = 0
      /\ counters[k] # None => counters[k] = seeded[k] + counted[k]
  BY <1>1 DEF ApiInv, EveryDownloadCounted
<1>7. base + 1 \in Nat /\ base + 1 # None
  BY <1>2, <1>3, SMT
<1>8. /\ counters' \in [Keys -> Counts]
      /\ seeded' \in [Keys -> Nat]
      /\ counted' \in [Keys -> Nat]
  <2> HIDE DEF base
  <2> QED
    BY <1>1, <1>2, <1>4, <1>5, <1>7 DEF Counts
<1>9. base + 1 = seeded'[k] + counted'[k]
  <2>1. CASE new
    BY <2>1, <1>1, <1>2, <1>4, <1>5, <1>6
  <2>2. CASE ~new
    BY <2>2, <1>1, <1>2, <1>4, <1>5, <1>6
  <2> QED
    BY <2>1, <2>2
<1>10. EveryDownloadCounted'
  <2> SUFFICES ASSUME NEW q \in Keys
               PROVE  /\ counters'[q] = None => counted'[q] = 0
                      /\ counters'[q] # None => counters'[q] = seeded'[q] + counted'[q]
    BY DEF EveryDownloadCounted
  <2>1. CASE q = k
    BY <2>1, <1>4, <1>5, <1>7, <1>9
  <2>2. CASE q # k
    <3>1. counters'[q] = counters[q] /\ seeded'[q] = seeded[q] /\ counted'[q] = counted[q]
      BY <2>2, <1>4, <1>5
    <3> QED
      BY <3>1 DEF ApiInv, EveryDownloadCounted
  <2> QED
    BY <2>1, <2>2
<1>11. ASSUME NEW q \in Keys, counters[q] # None
       PROVE  counters'[q] # None /\ counters'[q] >= counters[q]
  <2>1. CASE q = k
    BY <2>1, <1>2, <1>4, <1>5, <1>7, <1>11
  <2>2. CASE q # k
    <3>1. counters'[q] = counters[q]
      BY <2>2, <1>4, <1>5
    <3>2. counters[q] \in Nat
      BY <1>5, <1>11 DEF Counts
    <3> QED
      BY <3>1, <3>2, <1>11
  <2> QED
    BY <2>1, <2>2
<1> QED
  BY <1>8, <1>10, <1>11

-----------------------------------------------------------------------------
(* The threads.                                                            *)

\* One step of a thread changes that thread only, to a state that is in order.
LEMMA HandleKeepsThreads ==
  ASSUME ApiInv, NEW t \in Threads, Handle(t)
  PROVE  /\ thread' \in [Threads -> ThreadStates]
         /\ ThreadInv(thread'[t], catalog)
         /\ \A u \in Threads : u # t => thread'[u] = thread[u]
<1> DEFINE s == thread[t]
           r == thread[t].request
<1>1. /\ thread \in [Threads -> ThreadStates]
      /\ catalog \subseteq Items
      /\ counters \in [Keys -> Counts]
      /\ store \in Shown
      /\ ThreadInv(s, catalog)
      /\ None \notin Items \union Nat
  BY ItemsAssumption DEF ApiInv, TypeOK
<1>2. /\ s \in ThreadStates
      /\ s.steady \subseteq catalog
      /\ s.at # "free" => r \in Requests
  BY <1>1 DEF ThreadInv
<1>3. ASSUME NEW q \in Requests, Accept(t, q)
      PROVE  /\ thread' \in [Threads -> ThreadStates]
             /\ ThreadInv(thread'[t], catalog)
             /\ \A u \in Threads : u # t => thread'[u] = thread[u]
  <2> DEFINE first == FirstStep(q)
             number == IF Blank(q) /\ q.kind = "check" THEN 0 ELSE None
             a == [Threads0 EXCEPT !.at = first, !.request = q, !.steady = catalog,
                                   !.answer = number]
  <2>0. Threads0 \in ThreadStates
    BY DEF Threads0, ThreadStates, Steps, Counts
  <2>1. /\ a.at = first /\ a.request = q /\ a.steady = catalog /\ a.answer = number
        /\ a.found = None
        /\ a \in ThreadStates
    BY <1>1, <2>0 DEF ThreadStates, Steps, FirstStep, Counts, Threads0
  <2>2. thread' = [thread EXCEPT ![t] = a]
    BY <1>3 DEF Accept
  <2>3. ThreadInv(a, catalog)
    <3>1. /\ first \in {"count", "byContent", "reply"}
          /\ first = "count" => q.kind = "check"
          /\ first = "byContent" => q.kind # "check"
          /\ first = "reply" => Blank(q)
      BY DEF FirstStep
    <3>2. first = "reply" /\ q.kind = "check" => number \in Nat
      BY <3>1
    <3> HIDE DEF first, number, a
    <3>3. first = "reply" => BestFound(a)
      BY <1>1, <2>1, <3>1, ItemsAssumption DEF BestFound, Blank
    <3> QED
      BY <2>1, <3>1, <3>2, <3>3 DEF ThreadInv
  <2> HIDE DEF a
  <2> QED
    BY <1>1, <2>1, <2>2, <2>3
<1>4. CASE Count(t)
  <2>1. counters[Key(t)] \in Counts /\ (counters[Key(t)] # None => counters[Key(t)] \in Nat)
    BY <1>1, <1>4, KeyOfRequest DEF Count, Counts
  <2> QED
    BY <1>1, <1>2, <1>4, <2>1 DEF Count, ThreadInv, ThreadStates, Steps
<1>5. CASE StoreCount(t)
  <2>1. OrZero(StoreDownloads(r)) \in Nat
    BY <1>1, StoreDownloadsType
  <2> QED
    BY <1>1, <1>2, <1>5, <2>1 DEF StoreCount, ThreadInv, ThreadStates, Steps, Counts
<1>6. CASE ByContent(t)
  <2> DEFINE rows == {i \in catalog : Content[i] = r.content}
  <2>0. PICK best \in BestRows(rows, r.version) : Found(t, best, "byTitle")
    BY <1>6 DEF ByContent
  <2>1. /\ best \in rows \union {None}
        /\ rows # {} => best \in rows
        /\ rows = {} => best = None
        /\ r.version # None /\ (\E i \in rows : Ver[i] = r.version)
             => Ver[best] = r.version
    <3>1. rows \in SUBSET Items
      BY <1>1
    <3> HIDE DEF rows
    <3> QED BY <2>0, <3>1, BestRowIsBest
  <2>2. /\ s.at = "byContent" /\ s.request.kind # "check" /\ r \in Requests
        /\ thread' = [thread EXCEPT
             ![t].found = best,
             ![t].at = IF best = None THEN "byTitle"
                       ELSE IF r.kind = "get" THEN "seed" ELSE "reply"]
    BY <1>1, <1>6, <2>0 DEF ByContent, Found, ThreadInv
  <2>3. CASE best = None
    <3>1. \A i \in s.steady : Content[i] # r.content
      BY <1>1, <1>2, <2>1, <2>3
    <3> QED
      BY <1>1, <1>2, <2>2, <2>3, <3>1 DEF ThreadInv, ThreadStates, Steps
  <2>4. CASE best # None
    <3>1. best \in catalog /\ best \in Items /\ Content[best] = r.content
      BY <1>1, <2>1, <2>4
    <3>2. r.content # None
      BY <3>1, ItemsAssumption
    <3>3. /\ thread'[t].found = best
          /\ thread'[t].request = r
          /\ thread'[t].steady = s.steady
          /\ thread'[t].at \in {"seed", "reply"}
      BY <1>1, <1>2, <2>2, <2>4 DEF ThreadStates
    <3>4. BestFound(thread'[t])
      BY <1>2, <2>1, <2>4, <3>1, <3>2, <3>3 DEF BestFound
    <3> QED
      BY <1>1, <1>2, <2>2, <2>4, <3>1, <3>3, <3>4 DEF ThreadInv, ThreadStates, Steps
  <2> QED
    BY <2>3, <2>4
<1>7. CASE ByTitle(t)
  <2> DEFINE rows == {i \in catalog : Title[i] = r.title}
  <2>0. PICK best \in BestRows(rows, None) : Found(t, best, "reply")
    BY <1>7 DEF ByTitle
  <2>1. /\ best \in rows \union {None}
        /\ rows # {} => best \in rows
        /\ rows = {} => best = None
        /\ \A i \in rows : Rank[i] <= Rank[best]
    BY <1>1, <2>0, BestRowIsBest
  <2>2. /\ s.at = "byTitle" /\ s.request.kind # "check" /\ r \in Requests
        /\ \A i \in s.steady : Content[i] # r.content
        /\ thread' = [thread EXCEPT
             ![t].found = best,
             ![t].at = IF best = None THEN "reply"
                       ELSE IF r.kind = "get" THEN "seed" ELSE "reply"]
    BY <1>1, <1>7, <2>0 DEF ByTitle, Found, ThreadInv
  <2>3. /\ thread'[t].found = best
        /\ thread'[t].request = r
        /\ thread'[t].steady = s.steady
        /\ thread'[t].at \in {"seed", "reply"}
    BY <1>1, <1>2, <2>2 DEF ThreadStates
  <2>4. BestFound(thread'[t])
    <3>1. CASE best = None
      <4>1. \A i \in s.steady : Content[i] # r.content /\ Title[i] # r.title
        BY <1>2, <2>1, <2>2, <3>1, <1>1
      <4> QED
        BY <2>3, <3>1, <4>1 DEF BestFound
    <3>2. CASE best # None
      BY <1>2, <2>1, <2>2, <2>3, <3>2 DEF BestFound
    <3> QED
      BY <3>1, <3>2
  <2> QED
    BY <1>1, <1>2, <2>1, <2>2, <2>3, <2>4 DEF ThreadInv, ThreadStates, Steps
<1>8. CASE Seed(t)
  <2>1. OrZero(StoreDownloads(r)) \in Nat
    BY <1>1, StoreDownloadsType
  <2>2. /\ s.at = "seed"
        /\ thread' = [thread EXCEPT ![t].at = "increment", ![t].seed = thread'[t].seed]
        /\ thread'[t].seed \in Nat
    BY <1>1, <1>8, <2>1 DEF Seed
  <2>3. /\ thread' \in [Threads -> ThreadStates]
        /\ \A u \in Threads : u # t => thread'[u] = thread[u]
    BY <1>1, <2>2 DEF ThreadStates, Steps
  <2>4. ThreadInv(thread'[t], catalog)
    BY <1>1, <1>2, <2>2, <2>3 DEF ThreadInv, ThreadStates, BestFound
  <2> QED
    BY <2>3, <2>4
<1>9. CASE Increment(t)
  BY <1>1, <1>2, <1>9 DEF Increment, ThreadInv, ThreadStates, Steps, BestFound
<1>10. CASE QueryFails(t)
  <2>1. /\ AfterFailure["count"] = "storeCount" /\ AfterFailure["storeCount"] = "reply"
        /\ AfterFailure["byContent"] = "byTitle" /\ AfterFailure["byTitle"] = "reply"
        /\ AfterFailure["seed"] = "increment" /\ AfterFailure["increment"] = "reply"
        /\ DOMAIN AfterFailure = {"count", "storeCount", "byContent", "byTitle",
                                  "seed", "increment"}
    BY DEF AfterFailure
  <2> DEFINE next == AfterFailure[s.at]
             answer == IF s.at = "storeCount" THEN 0 ELSE s.answer
             steady == IF s.at \in {"byContent", "byTitle"} THEN {} ELSE s.steady
  <2>2. /\ s.at \in DOMAIN AfterFailure
        /\ thread' = [thread EXCEPT ![t].at = next, ![t].answer = answer,
                                    ![t].steady = steady]
    BY <1>1, <1>10 DEF QueryFails
  <2>3. /\ next \in Steps \ {"free", "count"}
        /\ answer \in Counts
        /\ steady \in SUBSET Items /\ steady \subseteq s.steady
    BY <1>1, <1>2, <2>1, <2>2 DEF Steps, ThreadStates, Counts
  <2> HIDE DEF next, answer, steady
  <2>4. /\ thread'[t].at = next /\ thread'[t].answer = answer
        /\ thread'[t].steady = steady /\ thread'[t].request = r
        /\ thread'[t].found = s.found
        /\ thread'[t] \in ThreadStates
        /\ thread' \in [Threads -> ThreadStates]
        /\ \A u \in Threads : u # t => thread'[u] = thread[u]
    BY <1>1, <1>2, <2>2, <2>3 DEF ThreadStates
  <2>5. BestFound(s) \/ steady = {} => BestFound(thread'[t])
    BY <2>3, <2>4 DEF BestFound
  <2>6. CASE s.at \in {"count", "storeCount"}
    BY <1>1, <1>2, <2>1, <2>3, <2>4, <2>6 DEF ThreadInv, next, answer, steady
  <2>7. CASE s.at \in {"byContent", "byTitle"}
    BY <1>1, <1>2, <2>1, <2>3, <2>4, <2>5, <2>7 DEF ThreadInv, next, steady
  <2>8. CASE s.at \in {"seed", "increment"}
    BY <1>1, <1>2, <2>1, <2>3, <2>4, <2>5, <2>8 DEF ThreadInv, next
  <2> QED
    BY <2>1, <2>2, <2>4, <2>6, <2>7, <2>8
<1>11. CASE Reply(t)
  BY <1>1, <1>2, <1>11 DEF Reply, Threads0, ThreadInv, ThreadStates, Steps, Counts
<1> QED
  BY <1>3, <1>4, <1>5, <1>6, <1>7, <1>8, <1>9, <1>10, <1>11 DEF Handle

\* The steps of the worker leave every thread in order: a new row does not
\* matter, a pruned one leaves "steady".
LEMMA WorkerKeepsThreads ==
  ASSUME ApiInv, Worker
  PROVE  /\ thread' \in [Threads -> ThreadStates]
         /\ \A t \in Threads : ThreadInv(thread'[t], catalog')
<1>1. /\ thread \in [Threads -> ThreadStates]
      /\ \A t \in Threads : ThreadInv(thread[t], catalog)
  BY DEF ApiInv, TypeOK
<1>2. CASE thread' = thread /\ catalog \subseteq catalog'
  BY <1>1, <1>2 DEF ThreadInv
<1>3. ASSUME NEW rows \in SUBSET catalog, Prune(rows)
      PROVE  /\ thread' \in [Threads -> ThreadStates]
             /\ \A t \in Threads : ThreadInv(thread'[t], catalog')
  <2>1. /\ catalog' = catalog \ rows
        /\ thread' = [t \in Threads |-> [thread[t] EXCEPT !.steady = @ \ rows]]
    BY <1>3 DEF Prune
  <2> SUFFICES ASSUME NEW t \in Threads
               PROVE  thread'[t] \in ThreadStates /\ ThreadInv(thread'[t], catalog')
    BY <2>1
  <2> DEFINE s == thread[t]
             n == thread'[t]
  <2>2. s \in ThreadStates /\ ThreadInv(s, catalog)
    BY <1>1
  <2>3. /\ n.at = s.at /\ n.request = s.request /\ n.found = s.found
        /\ n.answer = s.answer /\ n.steady = s.steady \ rows
        /\ n \in ThreadStates
    BY <2>1, <2>2 DEF ThreadStates
  <2> HIDE DEF s, n
  <2>4. BestFound(s) => BestFound(n)
    BY <2>3 DEF BestFound
  <2> QED
    BY <2>1, <2>2, <2>3, <2>4 DEF ThreadInv, n
<1>4. (\E rows \in SUBSET catalog : Prune(rows)) \/ (thread' = thread /\ catalog \subseteq catalog')
  BY DEF Worker, Upsert, ListItems, ReplaceStore, RemoveStore
<1> QED
  BY <1>2, <1>3, <1>4

-----------------------------------------------------------------------------
(* The invariant.                                                          *)

LEMMA ApiInvInit == Init => ApiInv
<1> SUFFICES ASSUME Init PROVE ApiInv
  OBVIOUS
<1>1. Threads0 \in ThreadStates /\ Threads0.at = "free" /\ Threads0.steady = {}
  BY DEF Threads0, ThreadStates, Steps, Counts
<1>2. TypeOK
  <2>1. total \in Nat
    BY ItemsAssumption DEF Init
  <2> QED
    BY <1>1, <2>1, ItemsAssumption DEF Init, TypeOK, Counted, Counts, Shown
<1>3. EveryDownloadCounted
  BY DEF Init, EveryDownloadCounted
<1>4. \A t \in Threads : ThreadInv(thread[t], catalog)
  BY <1>1 DEF Init, ThreadInv
<1> QED
  BY <1>2, <1>3, <1>4 DEF ApiInv

\* What the steps other than Increment leave alone, and what list_items makes.
LEMMA OtherVariables ==
  ASSUME ApiInv, Next
  PROVE  /\ catalog' \subseteq Items
         /\ total' \in Nat
         /\ store' \in Shown
         /\ listed' \in Shown \union {None}
         /\ served' \in 0 .. MaxRequests
         /\ faults' \in 0 .. MaxFaults
         /\ \/ \E t \in Threads : Increment(t)
            \/ UNCHANGED <<counters, seeded, counted, total>>
<1>1. TypeOK /\ MaxRequests \in Nat /\ MaxFaults \in Nat
  BY ItemsAssumption DEF ApiInv
<1>0. ASSUME NEW t \in Threads, Increment(t) PROVE total' \in Nat
  BY <1>0, <1>1 DEF Increment, TypeOK
<1>2. CASE Worker
  <2>1. \A i \in Items : Downloads(i) \in Counts
    <3> TAKE i \in Items
    <3>1. ItemKeys(i) \subseteq Keys
      BY DEF Keys
    <3>2. /\ counters[<<Content[i], Ver[i]>>] \in Counts
          /\ counters[<<Content[i]>>] \in Counts
          /\ counters[<<Title[i]>>] \in Counts
      BY <1>1, <3>1 DEF TypeOK, ItemKeys
    <3> QED
      BY <3>2 DEF Downloads, Counts
  <2>2. ListItems => listed' \in Shown
    BY <2>1 DEF ListItems, Shown, Counts
  <2>3. RemoveStore => store' \in Shown
    BY DEF RemoveStore, Shown, Counts
  <2> QED
    BY <1>1, <1>2, <2>2, <2>3
      DEF Worker, Upsert, Prune, ListItems, ReplaceStore, RemoveStore, TypeOK
<1>3. ASSUME NEW t \in Threads, Handle(t)
      PROVE  /\ UNCHANGED <<catalog, store, listed>>
             /\ served' \in 0 .. MaxRequests
             /\ faults' \in 0 .. MaxFaults
             /\ Increment(t) \/ UNCHANGED <<counters, seeded, counted, total>>
  <2>1. served \in Nat /\ faults \in Nat
    BY <1>1 DEF TypeOK
  <2>2. ASSUME NEW r \in Requests, Accept(t, r)
        PROVE  /\ served < MaxRequests /\ served' = served + 1
               /\ UNCHANGED <<catalog, store, listed, faults, counters, seeded, counted, total>>
    BY <2>2 DEF Accept
  <2>3. CASE QueryFails(t)
    <3>1. /\ faults < MaxFaults /\ faults' = faults + 1
          /\ UNCHANGED <<catalog, store, listed, served, counters, seeded, counted, total>>
      BY <2>3 DEF QueryFails
    <3> QED
      BY <1>1, <2>1, <3>1 DEF TypeOK
  <2>4. CASE \/ Count(t) \/ StoreCount(t) \/ ByContent(t) \/ ByTitle(t)
             \/ Seed(t) \/ Increment(t) \/ Reply(t)
    <3>1. /\ UNCHANGED <<catalog, store, listed, served, faults>>
          /\ Increment(t) \/ UNCHANGED <<counters, seeded, counted, total>>
      BY <2>4 DEF Count, StoreCount, ByContent, ByTitle, Seed, Increment, Reply
    <3> QED
      BY <1>1, <3>1 DEF TypeOK
  <2> QED
    BY <1>1, <1>3, <2>1, <2>2, <2>3, <2>4 DEF Handle, TypeOK
<1> QED
  BY <1>0, <1>1, <1>2, <1>3 DEF Next, TypeOK

LEMMA ApiInvNext == ApiInv /\ [Next]_vars => ApiInv'
<1> SUFFICES ASSUME ApiInv, [Next]_vars PROVE ApiInv'
  OBVIOUS
<1>1. CASE UNCHANGED vars
  BY <1>1 DEF vars, ApiInv, TypeOK, Counted, EveryDownloadCounted
<1>2. CASE Next
  <2>1. /\ thread' \in [Threads -> ThreadStates]
        /\ \A t \in Threads : ThreadInv(thread'[t], catalog')
    <3>1. ASSUME NEW t \in Threads, Handle(t)
          PROVE  /\ thread' \in [Threads -> ThreadStates]
                 /\ \A u \in Threads : ThreadInv(thread'[u], catalog')
      <4>1. catalog' = catalog
        BY <3>1 DEF Handle, Accept, Count, StoreCount, ByContent, ByTitle, Seed,
             Increment, QueryFails, Reply
      <4> QED
        BY <3>1, <4>1, HandleKeepsThreads DEF ApiInv
    <3> QED
      BY <1>2, <3>1, WorkerKeepsThreads DEF Next
  <2>2. (\A t \in Threads : Counted(t) => thread[t].answer \in Nat)'
    BY <2>1 DEF Counted, ThreadInv
  <2>3. /\ counters' \in [Keys -> Counts]
        /\ seeded' \in [Keys -> Nat]
        /\ counted' \in [Keys -> Nat]
        /\ EveryDownloadCounted'
    <3>1. CASE \E t \in Threads : Increment(t)
      BY <3>1, IncrementCounts
    <3>2. CASE UNCHANGED <<counters, seeded, counted, total>>
      BY <3>2 DEF ApiInv, TypeOK, EveryDownloadCounted
    <3> QED
      BY <1>2, <3>1, <3>2, OtherVariables
  <2>4. TypeOK'
    BY <1>2, <2>1, <2>2, <2>3, OtherVariables DEF TypeOK
  <2> QED
    BY <2>1, <2>3, <2>4 DEF ApiInv
<1> QED
  BY <1>1, <1>2

THEOREM ApiInvariant == Spec => []ApiInv
BY ApiInvInit, ApiInvNext, PTL DEF Spec

-----------------------------------------------------------------------------
(* What it gives.                                                          *)

\* ApiTypeCorrect: the variables keep their types, and check=true is always
\* answered with a number.
THEOREM ApiTypeCorrect == Spec => []TypeOK
<1>1. ApiInv => TypeOK
  BY DEF ApiInv
<1> QED
  BY <1>1, ApiInvariant, PTL

\* AllDownloadsCounted: whatever number of threads count at once, and
\* whenever store.db is replaced under them, a counter is its seed and the
\* downloads counted for its key.
THEOREM AllDownloadsCounted == Spec => []EveryDownloadCounted
<1>1. ApiInv => EveryDownloadCounted
  BY DEF ApiInv
<1> QED
  BY <1>1, ApiInvariant, PTL

\* RedirectsToBest: whatever rows the worker commits and prunes between the
\* look-ups, a redirect goes to a row as good as any that was there all along.
THEOREM RedirectsToBest == Spec => []AnswersBest
<1>1. ApiInv => AnswersBest
  BY DEF ApiInv, ThreadInv, AnswersBest
<1> QED
  BY <1>1, ApiInvariant, PTL

\* CountersNeverShrink: no step loses, resets or seeds again a counter.
THEOREM CountersNeverShrink == Spec => CountersGrow
<1>1. ApiInv /\ [Next]_vars
        => [\A k \in Keys : counters[k] # None
              => counters'[k] # None /\ counters'[k] >= counters[k]]_vars
  <2> SUFFICES ASSUME ApiInv, Next, NEW k \in Keys, counters[k] # None
               PROVE  counters'[k] # None /\ counters'[k] >= counters[k]
    OBVIOUS
  <2>1. CASE \E t \in Threads : Increment(t)
    BY <2>1, IncrementCounts
  <2>2. CASE UNCHANGED <<counters, seeded, counted, total>>
    <3>1. counters[k] \in Nat
      BY DEF ApiInv, TypeOK, Counts
    <3> QED
      BY <2>2, <3>1
  <2> QED
    BY <2>1, <2>2, OtherVariables
<1> QED
  BY <1>1, ApiInvariant, PTL DEF Spec, CountersGrow

\* Within(n): the number n, if it is one, is no more than the total.
Within(n) == n # None => n <= total

\* The circle: counters, the listing of an export, store.db, and the seeds the
\* threads have read from it.
NumbersInv ==
  /\ \A k \in Keys : Within(counters[k])
  /\ \A i \in Items : Within(store[i])
  /\ listed # None => \A i \in Items : Within(listed[i])
  /\ \A t \in Threads : thread[t].seed <= total

LEMMA NumbersInit == Init => NumbersInv
<1> SUFFICES ASSUME Init PROVE NumbersInv
  OBVIOUS
<1>1. total \in Nat
  BY ItemsAssumption DEF Init
<1>2. \A t \in Threads : thread[t].seed = 0
  BY DEF Init, Threads0
<1> QED
  BY <1>1, <1>2 DEF Init, NumbersInv, Within

\* Only the counter of a key is ever more than the number it starts from.
LEMMA IncrementNumbers ==
  ASSUME ApiInv, NumbersInv, NEW t \in Threads, Increment(t)
  PROVE  NumbersInv'
<1> DEFINE k == Key(t)
           base == IF counters[k] = None THEN thread[t].seed ELSE counters[k]
<1>1. /\ k \in Keys
      /\ counters \in [Keys -> Counts] /\ total \in Nat
      /\ thread \in [Threads -> ThreadStates]
      /\ store \in Shown /\ listed \in Shown \union {None}
  BY KeyOfRequest DEF ApiInv, Increment, TypeOK
<1>2. /\ counters' = [counters EXCEPT ![k] = base + 1]
      /\ total' = total + 1
      /\ thread' = [thread EXCEPT ![t].at = "reply"]
      /\ UNCHANGED <<store, listed>>
  BY DEF Increment
<1>3. base \in Nat /\ base <= total
  BY <1>1 DEF NumbersInv, Within, ThreadStates, Counts
<1> HIDE DEF base, k
<1>4. \A q \in Keys : Within(counters[q])'
  BY <1>1, <1>2, <1>3 DEF NumbersInv, Within, Counts
<1>5. \A i \in Items : Within(store[i])'
  BY <1>1, <1>2 DEF NumbersInv, Within, Shown, Counts
<1>6. listed' # None => \A i \in Items : Within(listed[i])'
  BY <1>1, <1>2 DEF NumbersInv, Within, Shown, Counts
<1>7. \A u \in Threads : thread'[u].seed <= total'
  BY <1>1, <1>2 DEF NumbersInv, ThreadStates
<1> QED
  BY <1>4, <1>5, <1>6, <1>7 DEF NumbersInv

LEMMA NumbersNext == ApiInv /\ NumbersInv /\ [Next]_vars => NumbersInv'
<1> SUFFICES ASSUME ApiInv, NumbersInv, [Next]_vars PROVE NumbersInv'
  OBVIOUS
<1>1. /\ thread \in [Threads -> ThreadStates]
      /\ store \in Shown /\ total \in Nat
      /\ None \notin Nat
  BY ItemsAssumption DEF ApiInv, TypeOK
<1>2. CASE UNCHANGED vars
  BY <1>2 DEF vars, NumbersInv, Within
<1>3. CASE ListItems
  <2>1. \A i \in Items : Within(Downloads(i))
    BY <1>1 DEF Downloads, NumbersInv, Within, Keys, ItemKeys
  <2> QED
    BY <1>3, <2>1 DEF ListItems, NumbersInv, Within
<1>4. CASE ReplaceStore \/ RemoveStore
  BY <1>4 DEF ReplaceStore, RemoveStore, NumbersInv, Within
<1>5. CASE (\E i \in Items \ catalog : Upsert(i)) \/ (\E rows \in SUBSET catalog : Prune(rows))
  <2>1. /\ UNCHANGED <<counters, store, listed, total>>
        /\ \A t \in Threads : thread'[t].seed = thread[t].seed
    BY <1>1, <1>5 DEF Upsert, Prune, ThreadStates
  <2> QED
    BY <2>1 DEF NumbersInv, Within
<1>6. ASSUME NEW t \in Threads, Handle(t) PROVE NumbersInv'
  <2>1. CASE Increment(t)
    BY <2>1, IncrementNumbers
  <2>2. CASE Seed(t)
    <3>1. OrZero(StoreDownloads(thread[t].request)) <= total
      <4> DEFINE r == thread[t].request
      <4>1. CASE StoreRows(r) = {}
        BY <1>1, <4>1 DEF StoreDownloads, OrZero
      <4>2. CASE StoreRows(r) # {}
        <5>1. StoreRows(r) \subseteq Items
          BY DEF StoreRows
        <5>2. \E i \in StoreRows(r) : \A j \in StoreRows(r) : ListOrder[j] <= ListOrder[i]
          BY <4>2, <5>1, GreatestExists, ItemsAssumption
        <5>3. PICK i \in StoreRows(r) : StoreDownloads(r) = store[i]
          BY <4>2, <5>2 DEF StoreDownloads
        <5> QED
          BY <1>1, <5>1, <5>3 DEF OrZero, StoreRows, NumbersInv, Within
      <4> QED
        BY <4>1, <4>2
    <3>2. \A u \in Threads : thread'[u].seed <= total
      BY <1>1, <2>2, <3>1 DEF Seed, NumbersInv, ThreadStates
    <3> QED
      BY <2>2, <3>2 DEF Seed, NumbersInv, Within
  <2>3. ASSUME NEW r \in Requests, Accept(t, r) PROVE NumbersInv'
    <3>1. \A u \in Threads : thread'[u].seed <= total
      BY <1>1, <2>3 DEF Accept, Threads0, NumbersInv
    <3> QED
      BY <2>3, <3>1 DEF Accept, NumbersInv, Within
  <2>4. CASE Count(t) \/ StoreCount(t) \/ ByContent(t) \/ ByTitle(t) \/ QueryFails(t) \/ Reply(t)
    <3>1. /\ UNCHANGED <<counters, store, listed, total>>
          /\ \A u \in Threads : thread'[u].seed \in {thread[u].seed, 0}
      <4>1. CASE ByContent(t) \/ ByTitle(t)
        <5>1. PICK i, otherwise : Found(t, i, otherwise)
          BY <4>1 DEF ByContent, ByTitle
        <5>2. PICK step : thread' = [thread EXCEPT ![t].found = i, ![t].at = step]
          BY <5>1 DEF Found
        <5>3. \A u \in Threads : thread'[u].seed = thread[u].seed
          BY <1>1, <5>2 DEF ThreadStates
        <5> QED
          BY <4>1, <5>3 DEF ByContent, ByTitle
      <4>2. CASE Count(t) \/ StoreCount(t) \/ QueryFails(t) \/ Reply(t)
        BY <1>1, <4>2 DEF Count, StoreCount, QueryFails, Reply, Threads0, ThreadStates
      <4> QED
        BY <2>4, <4>1, <4>2
    <3> QED
      BY <1>1, <3>1 DEF NumbersInv, Within
  <2> QED
    BY <1>6, <2>1, <2>2, <2>3, <2>4 DEF Handle
<1> QED
  BY <1>2, <1>3, <1>4, <1>5, <1>6 DEF Next, Worker

\* NothingCountedTwice: however often store.db is listed from the counters and
\* counters are seeded from store.db, no number outgrows the downloads.
THEOREM NothingCountedTwice == Spec => []NumbersReal
<1>1. NumbersInv => NumbersReal
  BY DEF NumbersInv, Within, NumbersReal
<1> QED
  BY <1>1, NumbersInit, NumbersNext, ApiInvariant, PTL DEF Spec
=============================================================================
