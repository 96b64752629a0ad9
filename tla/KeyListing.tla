----------------------------- MODULE KeyListing -----------------------------
(***************************************************************************)
(* Cache::keys() of one store under concurrent writers, and the paged list *)
(* endpoint of both containers on top of it: list_records of webserver and *)
(* listRecords of RecordHandler.  A client walks the pages of the list     *)
(* while other tasks insert and remove keys.                               *)
(*                                                                         *)
(* A SQL store lists its keys with one SELECT.  The other stores are       *)
(* walked bucket by bucket: the shards of a DashMap, the bins of a         *)
(* ConcurrentHashMap, the SCAN cursor of Redis, the batches of a Mongo     *)
(* cursor; Redis may return a bucket again after a rehash.                 *)
(***************************************************************************)
EXTENDS Integers, Sequences, FiniteSets, SequencesExt

CONSTANTS
  ListKey,        \* the keys, as numbers in their sort order
  Listers,    \* pairs of a program, whose handler cuts the page, and a backend
  BucketOf,   \* the bucket of each key
  Buckets,    \* number of buckets
  Matching,   \* the keys that contain the filter parameter
  Limits,     \* limit parameters a client may send, or NoLimit
  Offsets,    \* offset parameters of a first request
  MaxWord,    \* largest value of usize (Rust) or long (Java)
  MaxWrites,  \* bound: inserts and removes of other tasks
  MaxRepeats, \* bound: buckets Redis returns again
  MaxPages    \* bound: pages of one walk

NoLimit == -1
Longest == Cardinality(ListKey) * (1 + MaxRepeats)   \* of the lists of a walk

ASSUME ListingAssumption ==
  /\ ListKey \subseteq Nat /\ IsFiniteSet(ListKey) /\ Matching \subseteq ListKey
  /\ Buckets \in Nat /\ BucketOf \in [ListKey -> 1..Buckets]
  /\ Listers \subseteq {"Rust", "Java"} \X {"InMemory", "Redis", "Sql"}
  /\ {MaxWord, MaxWrites, MaxRepeats, MaxPages} \subseteq Nat
  /\ 2 * Longest <= MaxWord   \* a list in memory is far shorter than a word
  /\ Limits \subseteq (0..MaxWord) \cup {NoLimit} /\ Offsets \subseteq 0..MaxWord

VARIABLES
  program, backend,  \* "Rust" or "Java"; "InMemory", "Redis" or "Sql"
  present,    \* the keys the store holds
  stage,      \* "idle", "scanning" or "answered"
  bucket,     \* the next bucket of the scan
  found,      \* what the scan has collected, in its order
  offset, limit,  \* the query parameters of the request
  pages,      \* the pages the walk has received
  writes, repeats,
  seen,       \* history: contents of the store since the scan began
  at_start,   \* history: contents when the walk began
  inserted, removed  \* history: has the walk met an insert, a remove?

listVars == <<program, backend, present, stage, bucket, found, offset, limit,
              pages, writes, repeats, seen, at_start, inserted, removed>>
request == <<offset, limit, pages, at_start>>
scan == <<stage, bucket, found, repeats>>

ListTypeOK ==
  /\ <<program, backend>> \in Listers
  /\ present \subseteq ListKey /\ at_start \subseteq ListKey
  /\ stage \in {"idle", "scanning", "answered"}
  /\ bucket \in 1..(Buckets + 1) /\ found \in Seq(ListKey)
  /\ offset \in 0..MaxWord /\ limit \in (0..MaxWord) \cup {NoLimit}
  /\ pages \in Seq(Seq(ListKey))
  /\ writes \in Nat /\ repeats \in Nat
  /\ seen \subseteq SUBSET ListKey
  /\ inserted \in BOOLEAN /\ removed \in BOOLEAN

ListInit ==
  /\ \E l \in Listers : program = l[1] /\ backend = l[2]
  /\ present \in SUBSET ListKey /\ at_start = present
  /\ stage = "idle" /\ bucket = 1 /\ found = <<>>
  /\ offset \in Offsets /\ limit \in Limits
  /\ pages = <<>>
  /\ writes = 0 /\ repeats = 0 /\ seen = {}
  /\ inserted = FALSE /\ removed = FALSE

Walking == stage = "scanning" \/ pages # <<>>

(* Other tasks write the store.                                            *)
Write(keys) ==
  /\ writes < MaxWrites /\ writes' = writes + 1
  /\ present' = keys
  /\ seen' = IF stage = "scanning" THEN seen \cup {keys} ELSE seen
  /\ UNCHANGED <<scan, request>>

InsertKey(k) ==
  /\ k \notin present
  /\ Write(present \cup {k})
  /\ inserted' = (inserted \/ Walking)
  /\ UNCHANGED removed

RemoveKey(k) ==
  /\ k \in present
  /\ Write(present \ {k})
  /\ removed' = (removed \/ Walking)
  /\ UNCHANGED inserted

----------------------------------------------------------------------------
(* keys().                                                                 *)

AsSeq(keys) == SetToSeq(keys)
InBucket(b) == {k \in present : BucketOf[k] = b}

StartList ==
  /\ stage = "idle"
  /\ stage' = "scanning" /\ bucket' = 1 /\ found' = <<>>
  /\ seen' = {present}
  /\ at_start' = IF pages = <<>> THEN present ELSE at_start
  /\ UNCHANGED <<present, offset, limit, pages, writes, repeats, inserted,
                 removed>>

Select ==
  /\ stage = "scanning" /\ backend = "Sql" /\ bucket <= Buckets
  /\ found' = AsSeq(present)
  /\ bucket' = Buckets + 1
  /\ UNCHANGED <<present, stage, repeats, request, writes, seen, inserted,
                 removed>>

VisitStale ==   \* mutant: the last bucket of the scan is left out
  /\ stage = "scanning" /\ backend # "Sql" /\ bucket <= Buckets
  /\ found' = IF bucket = Buckets THEN found ELSE found \o AsSeq(InBucket(bucket))
  /\ bucket' = bucket + 1
  /\ UNCHANGED <<present, stage, repeats, request, writes, seen, inserted,
                 removed>>

VisitPastEnd ==   \* mutant: the end of the scan is not noticed
  /\ stage = "scanning" /\ backend # "Sql" /\ bucket <= Buckets + 1
  /\ found' = found \o AsSeq(InBucket(bucket))
  /\ bucket' = bucket + 1
  /\ UNCHANGED <<present, stage, repeats, request, writes, seen, inserted,
                 removed>>

Visit ==
  /\ stage = "scanning" /\ backend # "Sql" /\ bucket <= Buckets
  /\ found' = found \o AsSeq(InBucket(bucket))
  /\ bucket' = bucket + 1
  /\ UNCHANGED <<present, stage, repeats, request, writes, seen, inserted,
                 removed>>

VisitAgain ==
  /\ stage = "scanning" /\ backend = "Redis" /\ bucket > 1
  /\ repeats < MaxRepeats /\ repeats' = repeats + 1
  /\ bucket' = bucket - 1
  /\ UNCHANGED <<present, stage, found, request, writes, seen, inserted,
                 removed>>

----------------------------------------------------------------------------
(* The handlers: filter, sort, and the page from offset on.                *)

(* The keys that match, each as often as it was found; how many of them    *)
(* sort before the one at i is its place in the list.                      *)
Matches(keys) == {i \in DOMAIN keys : keys[i] \in Matching}
Preceding(keys, i) ==
  {j \in Matches(keys) : keys[j] < keys[i] \/ (keys[j] = keys[i] /\ j < i)}
Listing(keys) ==
  [n \in 1..Cardinality(Matches(keys)) |->
     keys[CHOOSE i \in Matches(keys) : Cardinality(Preceding(keys, i)) = n - 1]]

Smaller(a, b) == IF a < b THEN a ELSE b
Skip(keys, n) == SubSeq(keys, n + 1, Len(keys))
Take(keys, n) == SubSeq(keys, 1, Smaller(n, Len(keys)))
OrElse(n) == IF limit = NoLimit THEN n ELSE limit

(* into_iter().skip(offset).take(limit.unwrap_or(usize::MAX)).             *)
RustPage(keys) == Take(Skip(keys, offset), OrElse(MaxWord))

(* A long that exceeds its width goes on from the smallest one.            *)
Wrap(n) == IF n > MaxWord THEN n - 2 * (MaxWord + 1) ELSE n
JavaPage(keys) ==
  IF offset < Len(keys)
  THEN SubSeq(keys, offset + 1,
              Smaller(Wrap(offset + OrElse(MaxWord)), Len(keys)))
  ELSE <<>>

PageUnsorted ==   \* mutant: the page is cut before the keys are sorted
  LET keys == SelectSeq(found, LAMBDA k : k \in Matching)
  IN IF program = "Rust" THEN RustPage(keys) ELSE JavaPage(keys)

PageOneLess ==   \* mutant: offset is taken for the number of the first key
  Take(Skip(Listing(found), IF offset = 0 THEN 0 ELSE offset - 1),
       OrElse(MaxWord))

Page ==
  IF program = "Rust" THEN RustPage(Listing(found)) ELSE JavaPage(Listing(found))

Respond ==
  /\ stage = "scanning" /\ bucket = Buckets + 1
  /\ stage' = "answered"
  /\ pages' = Append(pages, Page)
  /\ UNCHANGED <<present, bucket, found, repeats, offset, limit, writes,
                 seen, at_start, inserted, removed>>

(* The client asks for the next page while the last one was full.          *)
NextPage ==
  /\ stage = "answered"
  /\ limit # NoLimit /\ Len(pages[Len(pages)]) = limit
  /\ Len(pages) < MaxPages /\ offset + limit <= MaxWord
  /\ offset' = offset + limit
  /\ stage' = "idle"
  /\ UNCHANGED <<present, bucket, found, repeats, limit, pages, writes, seen,
                 at_start, inserted, removed>>

ListNext ==
  /\ \/ \E k \in ListKey : InsertKey(k) \/ RemoveKey(k)
     \/ StartList \/ Select \/ Visit \/ VisitAgain \/ Respond \/ NextPage
  /\ UNCHANGED <<program, backend>>

ListSpec == ListInit /\ [][ListNext]_listVars

----------------------------------------------------------------------------
(* Properties.                                                             *)

Always == {k \in ListKey : \A keys \in seen : k \in keys}
Sometime == UNION seen
Scanned == stage = "scanning" /\ bucket = Buckets + 1

(* A finished keys() has every key that was in the store all the time, and *)
(* none that was in it at no time, whatever was written meanwhile.         *)
KeysWeaklyConsistent ==
  Scanned => Always \subseteq Range(found) /\ Range(found) \subseteq Sometime

(* The answer to a request is the slice of the sorted, filtered list from  *)
(* offset on, as long as limit allows.  Where the Java handler adds an     *)
(* offset and a limit (by default Long.MAX_VALUE) that exceed a long, the  *)
(* sum is negative and nothing is promised.                                *)
Slice(keys) ==
  LET last == IF limit = NoLimit THEN Len(keys) ELSE Smaller(offset + limit, Len(keys))
  IN [i \in 1..(IF last > offset THEN last - offset ELSE 0) |-> keys[offset + i]]
PageIsSlice ==
  stage = "answered" /\ (program = "Rust" \/ offset + OrElse(MaxWord) <= MaxWord)
    => pages[Len(pages)] = Slice(Listing(found))

WalkEnded ==
  stage = "answered" /\ limit # NoLimit /\ Len(pages[Len(pages)]) < limit
Returned == UNION {Range(pages[i]) : i \in DOMAIN pages}
FromStart == offset = (Len(pages) - 1) * limit

(* A client that walks the pages from the beginning while keys are only    *)
(* inserted gets every matching key the store held when it began: an       *)
(* insert moves later keys to later pages.  A bucket Redis returns twice   *)
(* puts its keys into the list twice and voids both promises.              *)
WalkMissesNothing ==
  WalkEnded /\ FromStart /\ ~removed /\ repeats = 0
    => at_start \cap Matching \subseteq Returned

(* While keys are only removed no key is returned twice: a remove moves    *)
(* later keys to earlier pages (where they may be missed).                 *)
WalkRepeatsNothing ==
  ~inserted /\ repeats = 0 =>
    \A i, j \in DOMAIN pages : \A a \in DOMAIN pages[i], b \in DOMAIN pages[j] :
      pages[i][a] = pages[j][b] => i = j /\ a = b

(* Both: what a walk beside writers adds up to.                            *)
WalkConsistent == WalkMissesNothing /\ WalkRepeatsNothing
=============================================================================
