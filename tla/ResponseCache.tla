---------------------------- MODULE ResponseCache ----------------------------
(***************************************************************************)
(* The LRU map of src/cache.rs: an IndexMap whose head is the oldest entry *)
(* and whose tail is the newest, a running byte count, and the eviction    *)
(* counters.  Each operation takes the entries mutex, so each is one       *)
(* action; clients run between the calls (a clone obtained by get may be   *)
(* put back later, an entry may be built well before it is put).           *)
(* elapsed() is read once per operation: the clock stands still inside an  *)
(* action.                                                                 *)
(***************************************************************************)
EXTENDS Naturals, Sequences, FiniteSets, SequencesExt

CONSTANTS
  Clients,
  Keys,
  Bodies,         \* records [size, status]: what put looks at
  Enabled,
  MaxBytes,       \* CacheConfig.max_bytes
  EntryMaxBytes,  \* CacheConfig.entry_max_bytes
  Ttl,
  StaleMax,
  MaxTime,        \* bound on the clock
  MaxEvictions,   \* bound on the eviction counters
  NoEntry

ASSUME ConfigAssumption ==
  /\ Bodies \subseteq [size : Nat \ {0}, status : Nat]
  /\ Enabled \in BOOLEAN
  /\ MaxBytes \in Nat /\ EntryMaxBytes \in Nat
  /\ Ttl \in Nat /\ StaleMax \in Nat
  /\ MaxTime \in Nat /\ MaxEvictions \in Nat
  /\ NoEntry \notin [body : Bodies, born : Nat]
  /\ NoEntry \notin [key : Keys, entry : [body : Bodies, born : Nat]]

VARIABLES
  map,            \* LruInner.map, head first: records [key, entry]
  totalBytes,     \* LruInner.total_bytes
  now,
  held,           \* the clone each client holds, or NoEntry
  window,         \* capacity_evictions, expired_evictions since the last swap_reset
  total           \* capacity_evictions_total, expired_evictions_total

vars == <<map, totalBytes, now, held, window, total>>

Entry == [body : Bodies, born : Nat]
Slot == [key : Keys, entry : Entry]
Counters == [capacity : Nat, expired : Nat]

SizeOf(slot) == slot.entry.body.size
Age(e) == now - e.born

Has(k) == \E i \in DOMAIN map : map[i].key = k
IndexOfKey(k) == CHOOSE i \in DOMAIN map : map[i].key = k
Lookup(k) == map[IndexOfKey(k)].entry

\* Mutant: the old entry of the key stays in the map.
WithoutNothing(s, k) == s

\* shift_remove: the order of the others is kept.
Without(s, k) == RemoveFirstMatch(s, LAMBDA slot : slot.key = k)

\* The bytes of the entries up to each index, added one by one.
BytesOf(s) ==
  LET upTo[n \in 0 .. Len(s)] == IF n = 0 THEN 0 ELSE upTo[n - 1] + SizeOf(s[n])
  IN  upTo[Len(s)]

Saturating(a, b) == IF a >= b THEN a - b ELSE 0

\* Mutant: one call counts one eviction, however many entries went.
CountOnce(counters, kind, n) == [counters EXCEPT ![kind] = @ + (IF n > 0 THEN 1 ELSE 0)]

Count(counters, kind, n) == [counters EXCEPT ![kind] = @ + n]

\* Type correctness; an IndexMap holds a key at most once, and a window of the
\* counters never exceeds their totals.
TypeOK ==
  /\ map \in Seq(Slot)
  /\ totalBytes \in Nat
  /\ now \in Nat
  /\ held \in [Clients -> Slot \cup {NoEntry}]
  /\ window \in Counters
  /\ total \in Counters
  /\ \A i, j \in DOMAIN map : map[i].key = map[j].key => i = j
  /\ window.capacity <= total.capacity /\ window.expired <= total.expired

Init ==
  /\ map = <<>>
  /\ totalBytes = 0
  /\ now = 0
  /\ held = [c \in Clients |-> NoEntry]
  /\ window = [capacity |-> 0, expired |-> 0]
  /\ total = [capacity |-> 0, expired |-> 0]

Tick ==
  /\ now < MaxTime
  /\ now' = now + 1
  /\ UNCHANGED <<map, totalBytes, held, window, total>>

\* The bytes of a response become an entry: created_at is now.
New(c, k, b) ==
  /\ held' = [held EXCEPT ![c] = [key |-> k, entry |-> [body |-> b, born |-> now]]]
  /\ UNCHANGED <<map, totalBytes, now, window, total>>

-----------------------------------------------------------------------------
\* get

\* Mutant: an entry of exactly its TTL still hits.
HitsAtTtl(k) == Enabled /\ Has(k) /\ Age(Lookup(k)) <= Ttl

Hits(k) == Enabled /\ Has(k) /\ Age(Lookup(k)) < Ttl

GetHit(c, k) ==
  /\ Hits(k)
  /\ held' = [held EXCEPT ![c] = [key |-> k, entry |-> Lookup(k)]]
  /\ map' = Append(Without(map, k), map[IndexOfKey(k)])
  /\ UNCHANGED <<totalBytes, now, window, total>>

\* Mutant: the removal on a miss is not counted.
GetRemovesUncounted(c, k) ==
  /\ Enabled /\ Has(k) /\ ~ Hits(k)
  /\ StaleMax = 0
  /\ held' = [held EXCEPT ![c] = NoEntry]
  /\ map' = Without(map, k)
  /\ totalBytes' = Saturating(totalBytes, Lookup(k).body.size)
  /\ UNCHANGED <<now, window, total>>

GetRemovesExpired(c, k) ==
  /\ Enabled /\ Has(k) /\ ~ Hits(k)
  /\ StaleMax = 0
  /\ total.expired < MaxEvictions
  /\ held' = [held EXCEPT ![c] = NoEntry]
  /\ map' = Without(map, k)
  /\ totalBytes' = Saturating(totalBytes, Lookup(k).body.size)
  /\ window' = Count(window, "expired", 1)
  /\ total' = Count(total, "expired", 1)
  /\ UNCHANGED now

GetMiss(c, k) ==
  /\ ~ Hits(k)
  /\ Enabled /\ Has(k) => StaleMax > 0
  /\ held' = [held EXCEPT ![c] = NoEntry]
  /\ UNCHANGED <<map, totalBytes, now, window, total>>

\* Mutant: the last instant of the stale window is counted in.
ServesStaleAtEnd(k) ==
  /\ Enabled /\ StaleMax # 0
  /\ Has(k)
  /\ Age(Lookup(k)) >= Ttl /\ Age(Lookup(k)) <= Ttl + StaleMax

\* get_stale: the LRU position does not move.
ServesStale(k) ==
  /\ Enabled /\ StaleMax # 0
  /\ Has(k)
  /\ Age(Lookup(k)) >= Ttl /\ Age(Lookup(k)) < Ttl + StaleMax

GetStale(c, k) ==
  /\ held' = [held EXCEPT ![c] = IF ServesStale(k) THEN [key |-> k, entry |-> Lookup(k)]
                                 ELSE NoEntry]
  /\ UNCHANGED <<map, totalBytes, now, window, total>>

-----------------------------------------------------------------------------
\* put

Accepts(e) == Enabled /\ e.body.status = 200 /\ e.body.size <= EntryMaxBytes

\* Mutant: the bytes of a replaced entry are not given back.
ReplacedNothing(k) == 0

ReplacedBytes(k) == IF Has(k) THEN Lookup(k).body.size ELSE 0

\* The expired head run: the sweep stops at the first entry still in its window.
Expired(slot) == Age(slot.entry) > Ttl + StaleMax

SweptLength(s) ==
  CHOOSE n \in 0 .. Len(s) :
    /\ \A i \in 1 .. n : Expired(s[i])
    /\ n < Len(s) => ~ Expired(s[n + 1])

\* Mutant: pop() takes the newest entries.
DropTail(s, n) == SubSeq(s, 1, Len(s) - n)

DropHead(s, n) == SubSeq(s, n + 1, Len(s))

\* Mutant: the eviction loop runs at most once.
EvictedOnce(s, bytes, size) == IF bytes + size > MaxBytes /\ s # <<>> THEN 1 ELSE 0

\* How many heads are evicted until size more bytes fit into what is counted.
EvictedLength(s, bytes, size) ==
  LET Fits(n) == Saturating(bytes, BytesOf(SubSeq(s, 1, n))) + size <= MaxBytes
  IN  CHOOSE n \in 0 .. Len(s) :
        /\ n = Len(s) \/ Fits(n)
        /\ \A m \in 0 .. n - 1 : ~ Fits(m)

PutAccepted(c) ==
  /\ held[c] # NoEntry
  /\ Accepts(held[c].entry)
  /\ UNCHANGED <<now, held>>
  /\ LET k == held[c].key
         size == held[c].entry.body.size
         others == Without(map, k)
         bytes1 == Saturating(totalBytes, ReplacedBytes(k))
         swept == SweptLength(others)
         bytes2 == Saturating(bytes1, BytesOf(SubSeq(others, 1, swept)))
         kept == DropHead(others, swept)
         evicted == EvictedLength(kept, bytes2, size)
         bytes3 == Saturating(bytes2, BytesOf(SubSeq(kept, 1, evicted)))
     IN  /\ total.expired + swept <= MaxEvictions
         /\ total.capacity + evicted <= MaxEvictions
         /\ map' = Append(DropHead(kept, evicted), held[c])
         /\ totalBytes' = bytes3 + size
         /\ window' = Count(Count(window, "expired", swept), "capacity", evicted)
         /\ total' = Count(Count(total, "expired", swept), "capacity", evicted)

PutRefused(c) ==
  /\ held[c] # NoEntry
  /\ ~ Accepts(held[c].entry)
  /\ UNCHANGED vars

\* swap_reset_evictions: the 60 second statistics task takes the counters of its
\* window by two atomic swaps, without the mutex: any operation may come between
\* them.  Which of the two comes first is left open; a swap between two additions
\* of one put, which leaves part of its count for the next window, is left out.
SwapResetCapacity ==
  /\ window' = [window EXCEPT !.capacity = 0]
  /\ UNCHANGED <<map, totalBytes, now, held, total>>

SwapResetExpired ==
  /\ window' = [window EXCEPT !.expired = 0]
  /\ UNCHANGED <<map, totalBytes, now, held, total>>

Next ==
  \/ Tick
  \/ SwapResetCapacity
  \/ SwapResetExpired
  \/ \E c \in Clients :
        \/ \E k \in Keys : \/ GetHit(c, k)
                           \/ GetRemovesExpired(c, k)
                           \/ GetMiss(c, k)
                           \/ GetStale(c, k)
        \/ \E k \in Keys, b \in Bodies : New(c, k, b)
        \/ PutAccepted(c)
        \/ PutRefused(c)

Spec == Init /\ [][Next]_vars

-----------------------------------------------------------------------------
\* Properties

KeysOf(s) == {s[i].key : i \in DOMAIN s}

\* total_bytes, which get and put adjust on five paths (replacement, sweep,
\* eviction, removal on a miss, insertion), is the size of what is in the map.
BytesAccounted == totalBytes = BytesOf(map)

\* put leaves the map within max_bytes, unless the entry just put is alone in it.
WithinBudget == totalBytes <= MaxBytes \/ Len(map) = 1

\* Whatever put evicts, it evicts from the old end: no entry goes while an entry
\* used less recently stays.
OldestEvictedFirst ==
  [][ \A c \in Clients : PutAccepted(c) =>
        \A i, j \in DOMAIN map :
          (i < j /\ map[i].key \in KeysOf(map') \ {held[c].key}) => map[j].key \in KeysOf(map')
    ]_vars

\* Every entry that leaves the map without being replaced by an entry of its own
\* key is counted exactly once in the totals, as a capacity or as an expired
\* eviction; and the counters of the window take the same counts as their totals,
\* except where the statistics task swaps one out.
EvictionsCounted ==
  [][ /\ (total.capacity + total.expired)' =
           total.capacity + total.expired + Cardinality(KeysOf(map) \ KeysOf(map'))
      /\ SwapResetCapacity \/ window'.capacity + total.capacity = window.capacity + total'.capacity
      /\ SwapResetExpired \/ window'.expired + total.expired = window.expired + total'.expired
    ]_vars

\* The LRU map keeps the promise its callers rely on: an unordered store that may
\* forget but never serves an entry outside its window.
Store == INSTANCE CacheStore WITH
  Cacheable <- {b \in Bodies : b.status = 200 /\ b.size <= EntryMaxBytes},
  store <- [k \in Keys |-> IF Has(k) THEN Lookup(k) ELSE NoEntry]

RefinesCacheStore == Store!StoreSpec
=============================================================================
