----------------------------- MODULE CacheStore -----------------------------
(***************************************************************************)
(* What the response cache of src/cache.rs promises to its callers.        *)
(*                                                                         *)
(* A caller holds at most one clone of an entry (held): one it built with  *)
(* CacheEntry::new, or one get / get_stale returned.  put may forget any   *)
(* other key (eviction), a miss may forget the expired entry it met, and   *)
(* nothing else changes the store: it never invents an entry, never moves  *)
(* one to another key, never changes the instant an entry was created.     *)
(* ResponseCache refines this module; ProxyRequest is built on it.         *)
(***************************************************************************)
EXTENDS Naturals

CONSTANTS
  Clients,      \* threads that call the cache
  Keys,         \* CacheKey values
  Bodies,       \* what a response holds
  Cacheable,    \* the bodies put accepts: status 200, not larger than an entry may be
  Enabled,      \* CacheConfig.enabled
  Ttl,          \* CacheConfig.ttl
  StaleMax,     \* CacheConfig.stale_max, 0 disables stale serving
  MaxTime,      \* bound on the clock
  NoEntry       \* None

VARIABLES
  store,        \* the entry cached under each key, or NoEntry
  now,          \* Instant::now()
  held          \* the clone each client holds, with the key it goes under

storeVars == <<store, now, held>>

Entry == [body : Bodies, born : Nat]

Handle == [key : Keys, entry : Entry]

Age(e) == now - e.born

Fresh(e) == Age(e) < Ttl

\* Expired, and still inside the window in which get_stale may return it.
StaleUsable(e) == Age(e) >= Ttl /\ Age(e) < Ttl + StaleMax

StoreTypeOK ==
  /\ store \in [Keys -> Entry \cup {NoEntry}]
  /\ now \in Nat
  /\ held \in [Clients -> Handle \cup {NoEntry}]

StoreInit ==
  /\ store = [k \in Keys |-> NoEntry]
  /\ now = 0
  /\ held = [c \in Clients |-> NoEntry]

Tick ==
  /\ now < MaxTime
  /\ now' = now + 1
  /\ UNCHANGED <<store, held>>

Hold(c, k, e) == held' = [held EXCEPT ![c] = [key |-> k, entry |-> e]]

HoldNothing(c) == held' = [held EXCEPT ![c] = NoEntry]

\* CacheEntry::new stamps the entry before put is called.
New(c, k, b) ==
  /\ Hold(c, k, [body |-> b, born |-> now])
  /\ UNCHANGED <<store, now>>

CanHit(k) == Enabled /\ store[k] # NoEntry /\ Fresh(store[k])

GetHit(c, k) ==
  /\ CanHit(k)
  /\ Hold(c, k, store[k])
  /\ UNCHANGED <<store, now>>

\* Without a stale window the expired entry is removed on the way.
GetMiss(c, k) ==
  /\ ~ CanHit(k)
  /\ HoldNothing(c)
  /\ store' = IF StaleMax = 0 /\ Enabled THEN [store EXCEPT ![k] = NoEntry] ELSE store
  /\ UNCHANGED now

Get(c, k) == GetHit(c, k) \/ GetMiss(c, k)

CanServeStale(k) ==
  /\ Enabled
  /\ StaleMax > 0
  /\ store[k] # NoEntry
  /\ StaleUsable(store[k])

GetStale(c, k) ==
  /\ IF CanServeStale(k) THEN Hold(c, k, store[k]) ELSE HoldNothing(c)
  /\ UNCHANGED <<store, now>>

Accepts(e) == Enabled /\ e.body \in Cacheable

\* An accepted put stores the entry and may forget any of the other keys.
PutAccepted(c) ==
  /\ held[c] # NoEntry
  /\ Accepts(held[c].entry)
  /\ UNCHANGED <<now, held>>
  /\ \E forgotten \in SUBSET (Keys \ {held[c].key}) :
        store' = [k \in Keys |-> IF k = held[c].key THEN held[c].entry
                                 ELSE IF k \in forgotten THEN NoEntry ELSE store[k]]

\* A refused one leaves the entry the key had where it is.
PutRefused(c) ==
  /\ held[c] # NoEntry
  /\ ~ Accepts(held[c].entry)
  /\ UNCHANGED storeVars

Put(c) == PutAccepted(c) \/ PutRefused(c)

StoreNext ==
  \/ Tick
  \/ \E c \in Clients :
        \/ \E k \in Keys : Get(c, k) \/ GetStale(c, k)
        \/ \E k \in Keys, b \in Bodies : New(c, k, b)
        \/ Put(c)

StoreSpec == StoreInit /\ [][StoreNext]_storeVars
=============================================================================
