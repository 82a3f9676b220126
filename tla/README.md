# A TLA+ model of media-proxy-rs

media-proxy-rs is an HTTP service that fetches an image by URL, checks that the address is
allowed, decodes and scales the image, encodes it again and caches the result. This directory
holds TLA+ modules of the parts in which requests meet each other - the response cache, the
flights that merge equal requests, the DNS cache, the semaphores, the statistics - and of those
that decide what becomes of one request: the fetch loop, the network policy, the encode decision
and animations. TLC runs check them on small instances; TLAPS proofs hold for every instance. All line numbers
refer to the files under `src/`.

## 1. The system

| Component | State | Operations | Talks to |
|---|---|---|---|
| Response cache (`cache.rs`) | LRU map under one mutex, total bytes, two eviction counters | `get`, `get_stale`, `put`, `swap_reset_evictions` | called by the handler and by the blocking task that encodes |
| Flights (`cache.rs`) | map key -> broadcast sender under another mutex; `FlightGuard` | `try_join`, `start_flight`, `complete_flight`, `Drop` | handler; other handlers over the channel |
| Request handler (`get_file_inner`) | one future per request: guard, receiver, timings | hit, join, lead, check, fetch, encode, complete, stale-if-error | everything below |
| DNS cache (`DnsCache::resolve`) | map host -> result, map of flights, lookup semaphore | resolve with join, forced registration, retry, eviction, stale | `check_url`, `ValidatingResolver` of the HTTP client |
| Permits (`main`, `encode`) | three tokio semaphores: downloads, buffer bytes, CPU | acquire with a 30 s timeout, release by drop | handler, blocking threads |
| Fetch loop (`get_file_inner`) | URL, redirect count, Range flag, saved partial response | send, retry once, refetch without Range, redirect | reqwest, `check_url` |
| Network policy (`NetworkPolicy`, `ssrf.rs`) | immutable lists | `is_host_blocked`, `check_ip` | `check_url`, resolver |
| Encoding (`encode`, `img.rs`, `mng.rs`, `avif_seq.rs`, `svg.rs`) | the bytes of one request | sniff, pass through, decode, scale, encode | cache, blocking threads |
| Statistics (`GlobalStats`, `OtlpMetrics`) | atomic counters | observe, swap and reset every 60 s | handler |
| Start-up, health check | configuration, listeners | bind, serve, shut down; three probes | - |

How they interact. A handler first reads the cache; on a miss it joins the flight of its key or
registers one; the leader checks the URL (which resolves the host), takes a download permit,
fetches, and in `encode` takes bytes of the budget and then a CPU permit, which moves into a
blocking task. The task itself puts the result into the cache. The handler then reads the cache
again, announces what it finds to the waiters and removes the flight. The two mutexes of the
cache are never held together, nothing is locked across an await, and every await is a place at
which the whole future may be dropped because the client left.

What makes it hard:

* *Cancellation.* What must happen at the end of a request hangs on destructors: the guard of a
  flight, the permits, the guard of a DNS flight.
* *Work that outlives its request.* A blocking task that timed out cannot be stopped: it decodes
  on, and puts its result when nobody waits for it any more. The same holds for DNS lookups.
* *Check, then act.* `try_join` and `start_flight`, `put` and the second `get`, the end of a join
  and the removal of the flight are separate critical sections.
* *Channels.* A broadcast receiver sees what is sent after it subscribed; a late one must notice
  that the channel closes. The waiters of a flight have no timeout.
* *Time.* Entries expire and stop being usable as stale; `dns_timeout` of a joiner is shorter than
  what the owner may take. Delays of animations are sums in 32 bits.
* *Names.* A host is judged by its addresses, and resolved again for the connection.
* *Ledgers.* Two of them count the same requests, each on some fifteen exits, while a task resets
  one of them counter by counter.
* *Limits.* Bytes of the cache, entries of the DNS cache, permits, redirects, frames.

What each component owes: the cache, its byte limit, exact accounting, and never an expired entry
as a hit; the flights, one leader per key, one announcement, no lost waiter and nothing left
behind; the handler, an answer for every request, made for that request's key, and stale ones only
after a failed fetch; the DNS cache, bounded maps and permits, flights owned by live callers, an
end to every resolve; the permits, no loss, no deadlock, and a bound on what really runs; the
policy, no connection to an address it refuses, whatever names resolve to in between; encoding, an
image for every request with fallback, nothing kept for ever that is not a result, and a cached
entry that is what was answered; animations, frames within their budget and a cycle as long as the
original; the statistics, each answer counted once in either ledger and no count lost.

## 2. Modules

| Module | Models | How |
|---|---|---|
| `CacheStore` | what the handler relies on in the cache | a map key -> entry that may forget; get, stale get, put of a clone |
| `ResponseCache` | `cache.rs:41-234,289-294` | the LRU sequence, bytes and counters; implements `CacheStore` |
| `ResponseCacheProofs` | - | theorems about `ResponseCache` and that it implements `CacheStore` |
| `Singleflight` | what the flights promise | leader per key, announcement per leader: lead, announce, release |
| `ProxyRequest` | `main.rs:2572-3302` and `cache.rs:238-328` | one `pc` per request over `CacheStore`; implements `Singleflight` |
| `ProxyRequestProofs` | - | theorems about `ProxyRequest` |
| `DnsCache` | `main.rs:1760-2097` | one `pc` per caller of `resolve` |
| `DnsCacheProofs` | - | theorems about `DnsCache` |
| `ResourcePermits` | `main.rs:1202-1208, 2842-2880, 3506-3821`, `svg.rs:73-93` | queues, holders and blocking threads |
| `ResourcePermitsProofs` | - | theorems about `ResourcePermits` |
| `FetchLoop` | `main.rs:2881-3157` | one fetch: `loopPc`, the current URL, Range, the response in reserve, redirects, time |
| `NetworkPolicy` | `main.rs:1573-1761` | operators: lists of a policy, readings of an IPv6 address, host names |
| `Connect` | `check_url` in `main.rs`, `ssrf.rs` | from a URL over two resolutions to a connection, with redirects; uses `NetworkPolicy` |
| `FetchProofs` | - | theorems about `FetchLoop` and `Connect` |
| `Encode` | `main.rs:3178-3225, 3345-3900`, `encode_img` and `response_img` in `img.rs` | the handler beside its blocking task; headers that matter to clients and the cache |
| `EncodeProofs` | - | theorems about `Encode` |
| `FrameDecode` | `mng.rs`, the scans and decoders of animations in `img.rs`, the reader in `avif_seq.rs` | a file as a sequence of chunks that are chosen one by one |
| `Animation` | `encode_anim`, `img.rs:1061-1199, 1457-1476` | extends `FrameDecode`: the frames become a WebP animation |
| `AnimationProofs` | - | theorems about both |
| `Stats` | `GlobalStats`, `emit_summary`, `OtlpMetrics` and the task of `periodic_stats` | one increment or swap per action |
| `StatsProofs` | - | theorems about `Stats` |
| `MC...` | - | constants for TLC that a .cfg cannot spell |

State and actions follow the code. In `ProxyRequest` an action is one critical section or one
await that ends: `Hit`/`Miss` are `response_cache.get`, `FindNoFlight`/`TryJoin` the lock of
`try_join`, `StartFlight`/`StartUnguarded` that of `start_flight`; `RecvEntry`, `StaleAfterFlight`
and `FallThrough` are the arms after `rx.recv()`; `CompleteGet`, `CompletePut`, `CompleteSend` and
`CompleteRemove` are the four steps between which another thread may run at the end of a flight;
`DropSend` and `DropRemove` are `FlightGuard::drop`, reached from every early return and from
`Cancel`. `TaskStarts` ... `TaskPuts` are the blocking thread and go on whether or not the handler
is there. `held` is the clone of an entry that a thread carries from one critical section to the
next, which is what makes late and repeated puts possible. What the network and the decoders do is
a choice of outcome.

In `DnsCache` the two joins (`wait`, and `rewait` after a lost registration) are separate, as in
the code, because only the second is followed by `force_register`. `free` is the semaphore, and a
lookup that timed out moves to `background` with its permit. `dns_timeout` is not related to the
clock: `GiveUp` and `LookupTimesOut` may happen at any time. The clock counts lifetimes of entries
only.

In `ResourcePermits` a semaphore is a queue and the permits its holders have; a waiter gets them
when it is the first and what it asks for fits, which is how tokio serves `acquire_many`. The CPU
permit of an image is in `taskCpu` (moved into the closure), that of an SVG in `held` (kept by the
handler). The model leaves out the size of tokio's pool of blocking threads: a queued task may
wait as long as it likes.

`FetchLoop` is one request's loop over sends; its states are the awaits of the loop and `received`,
the code between a response and the next await. What ends it maps onto the choices of
`ProxyRequest`: `response` is `FetchOk`, `FetchFailed` is the action of that name, all else is
`FetchRefused`, and `FailureRecorded` is what makes the flag `fetchErr` of both agree. `checked` is
not in the code: it remembers what `check_url` let pass.

In `Connect` the answer to each of the two resolutions is a choice among `Answers`, unless the DNS
cache still has one (`DnsCache` is how it gets there). `checked` remembers host and addresses of
the last check that passed. The properties judge by `Refused`, which is written from what the lists
mean, not from the code: an IPv6 address is refused if it is configured as blocked, if it is one of
Teredo, if any reading of it as an address of IPv4 is refused, and if it has no such reading, is
multicast, link-local or unique-local, and is not configured as allowed. `CheckIp` asks in the
order of the code, so that each of its checks is one that `ConnectedAllowed` needs.

`Encode` follows one response from its headers to the answer: `Sniff` decides by Content-Type and
first chunk; `Conclude`, `Panicked` and `Timeout` are what the handler can see of the blocking task,
whose steps (`EncodeImg`) go on after a timeout and may still put an entry into the cache. An answer
is its status, what its body is, and the headers that decide how it is kept. What a decoder makes
of its data is a choice if the data is of its kind, and a failure if not.

`FrameDecode` reads a file chunk by chunk; each action is one arm of the code that reads that kind
of chunk, or one frame of a decoder. `canvas` is what a scan goes by, which a second VP8X or IHDR
overwrites, and `drawn` what the decoder draws on, which the first fixed; `budgeted` says whether
the frames were compared with the limits before they were decoded, which those of an APNG without
acTL before IDAT are not (`Unannounced`). `frames`, `pixels` and `shown` are what came out of it and
what it takes. `Animation` then feeds them to libwebp (external: its source is not in the
repository). Of `WebPAnimEncoderAdd` the model knows that it takes the unsigned difference of two
start times (`Since`), so that a sum that wraps around in an i32 is accepted, that this difference
must not be longer than an ANMF chunk can say, and that the length of the last frame is made up.
`played` adds up the lengths libwebp was given. Integers have as few bits as `Half` says.

In `Stats` a request runs to one of the exits of `get_file_inner` with the timings it has collected,
and `emit_summary` increments the counters they imply one by one (`todo`); `Swap` is one
`swap(0)` of the periodic task. `made` and `reported` are history.

How the models meet. Each shared operation is one action in one module and a choice in the others:
`check_url` is `Connect` and a choice in `FetchLoop` and `ProxyRequest`; the fetch loop ends in the
outcomes that `ProxyRequest` chooses among; `encode` is `Encode`, whose `cached` is the entry that
`PutInline` and `TaskPuts` of `ProxyRequest` put, `ResourcePermits` its waits, `Animation` its
`EncodeAnim`. The composition that is checked as one is that of requests with flights
(`Singleflight`) over the cache (`CacheStore`).

## 3. Runs

| Run | Instance | Checks |
|---|---|---|
| `cache` | two clients, three keys, sizes 1 and 3 for a limit of 2, stale window, clock past both limits | types, limit, order of eviction, refinement of `CacheStore` |
| `cache_no_stale` | two clients, two keys, no stale window, sizes and statuses that `put` refuses | byte accounting, eviction counters: each eviction counted once in the totals, and alike in the window |
| `request` | two requests, two keys, Range or not, one tick | types, ownership of flights, no lost waiter, answers match their keys, refinement of `Singleflight`, every request is answered |
| `dns` | two callers, two hosts, room for one entry, one permit, one tick | flights owned, replacement survives, permits accounted, eviction keeps the limit, every resolve ends |
| `permits` | three requests, 2 downloads, budget 2 with requests for up to 3, 1 CPU | accounting on every exit, bound on image threads, downloads not held by encoding; every request ends by timers alone, and by the order of acquisition alone |
| `fetch` | three URLs, two redirects, sends that take 0, 1 or 3 of a timeout of 3 | limit of redirects, check of every URL, refetch of partial images, record of failures, end of the loop |
| `connect` | three policies, five hosts, addresses of both families: seven IPv6 spellings of a public and a private one (one of them Teredo), multicast, link-local, unique-local, loopback and global ones | no connection to a refused address; every host a request goes to was judged |
| `encode` | all kinds of data, first chunks and seven Content-Types, five statuses | fallback, what is immutable, what is cached |
| `animation` | all formats, three sizes, files of up to seven chunks, up to four frames, a second of four milliseconds, four bits | frames within the budget, no drift, the cycle kept, all frames of an immutable animation kept with their lengths |
| `stats` | two requests of up to two sends, two sweeps | no increment lost; the two ledgers agree |

Why these bounds. Two requests are a leader and one that joins in time, comes late, loses the race
between `try_join` and `start_flight`, or has another key; what a third request for a key could add
is excluded by the proofs, which hold for any number of requests, and so it is with a third caller
of `resolve`. Two keys are enough for a confusion of keys. The clocks reach the TTL, where a hit
turns into a stale entry, and in the cache run the end of the stale window and what lies beyond,
with TTL and window of one tick, so each side of each comparison occurs. Two callers of `resolve`
reach each path: one that gives up on a flight takes it away and registers itself, or loses the
registration to the other and forces its own. Three keys let one `put` sweep or evict
two entries, and an entry of size 3 is one that is larger than the whole cache; two clients hold
clones of different age. Only without a stale window does `get` remove what has expired, hence the
second run of the cache. In the run of `ResourcePermits` every semaphore is smaller than the number of
requests, and one request may ask for more budget than there is. Three URLs and two redirects give
a chain of full length with a loop in it or without; the send times lie on both sides of what a
retry may still begin with. The addresses of `connect` are a public and a private one in each form
the code recognizes, with one for each class of the lists and the last prefix of the two local
nets; its policies allow, block, and do both, also for a link-local and a multicast address.
In `animation` sizes lie on both sides of each limit, delays (0, 1 and 6 of a range of 16) do not
divide a second, and their sums and start times overflow, and wrap around, within the four frames a
file may have; an MNG of seven chunks has a header, a termination, a delay and frames, or two images
one inside the other, and a WebP two headers of different size with frames after the second. `stats` is constrained to one
request beside a sweep (`OneBesideSweep`): increments of two requests commute. Deadlock is not
checked, because a system in which all requests have been answered has nothing left to do; the
liveness properties exclude real deadlocks.

Fairness. `ProxyRequest!FairSpec` assumes only that a handler which can run is run: each await in
it ends by itself (network operations and permits have timeouts, `resolve` see below) and the
wait for a flight ends by what other handlers do. It asks nothing of blocking threads, of the
clock, or of clients. `DnsCache!FairSpec` adds strong fairness for permits, since the semaphore is
first come, first served, and that lookups end some day (the wait for a permit has no timeout, so
a resolver that never answers would block it). `ResourcePermits!HandlersFairSpec` asks for running
handlers only; its two liveness properties name what else they need: `AnsweredInTime` that timers
fire (threads may hang), `AnsweredInOrder` that threads end (timers may never fire). `FetchLoop!FairLoopSpec` is
weak fairness of the loop: a send ends by the timeouts of the client, the drain by its limit of
bytes, `check_url` as `DnsCache` shows.

### Where code and documentation disagree

Each of these runs checks one property that a document or comment states, and TLC shows a
behaviour of the code that violates it.

| Run | What the code does | What says otherwise |
|---|---|---|
| `request_range` | the result of a Range request is cached under the key of the whole image | `main.rs:2593` |
| `dns_stale` | the failure is stored over the entry that stale-while-error would use | `README.md:346` |

Further differences seen while modelling, which no run states as a property of its own:

* Flights. Two requests for one key fetch at the same time, when both pass `try_join` before either
  registers, or after a flight that ended without an entry (`main.rs:2756`, `README.md:315`,
  `cache.rs:254`; action `StartUnguarded`). A waiter is served a stale entry when its flight ended
  without an entry for any reason (`main.rs:2743`, `cache.rs:96`; `StaleAfterFlight`).
* Range. The last stale-if-error exit does not ask for Range (`main.rs:3266`), and the passed
  through part of a 206 is answered as 200 and immutable, and cached (`main.rs:3653`; `PassThrough`).
* Fetching. The second send has the whole read timeout again (`main.rs:2932`, 1177; `README.md:388`
  says the total does not exceed `timeout`; `Resend`). A redirect to a name that does not resolve is
  a failed fetch for which no stale entry is tried (`main.rs:3121`, 843; `CheckFails`).
* Permits. After a timeout the decode goes on without its bytes being budgeted, and a render of SVG
  also without a CPU permit, for the permits stay with the handler (`main.rs:3621`, 3542 against
  833 and `README.md:356-359`; `EncodeTimesOut`). A body that is streamed to the client holds no
  download permit any more (`main.rs:3806` against 829). A request for more than the whole budget
  waits its full 30 s in vain, and whoever is behind it in the queue with it.
* Cache. One entry larger than `cache_max_bytes` is stored when `cache_entry_max_bytes` allows it
  (`cache.rs:223`, `README.md:128`; the second disjunct of `WithinBudget`).
* DNS. A joiner that waited `dns_timeout` looks the host up in parallel with the owner
  (`main.rs:1923`, 1797; `Leave` and `ForceRegister`); the wait for a lookup permit has no timeout
  (`main.rs:2008`, `README.md:133`; the fairness of `BackgroundEnds`).
* Policy. `main.rs:1663` says that allowed networks come before blocking; they override the
  built-in ranges only, and a configured block wins. Allowing `::1` or `::` has no effect, because
  they are read as IPv4. Only the first reading of an IPv6 address that fits is judged, and then by
  the lists of IPv4 alone: an address of fe80::/10 that spells a public one by ISATAP passes
  (`Readings(ip) = {}` in `Refused`).
* Answers. A dummy image does not cover the 503s of the limits, failures of `load_all`, or an SVG
  that was rendered but not encoded; the latter is answered 502 under an immutable Cache-Control
  (`main.rs:3582-3587`; exceptions of `FallbackAnswersImage` and `ImmutableMeansImage`). An
  encode that timed out still caches its result. The first chunk alone is sniffed: a short one is a
  `CodecError`, and one that ends inside a UTF-8 character hides an SVG. An SVG that is recognized by
  its first chunk under another Content-Type leaves Content-Length and Content-Range of the remote
  body in the empty answers of the limits and of `load_all` (`main.rs:3526`, 3553, 3864-3890, copied
  at 3212, against 3824). `static` and `badge` of
  JPEG XL, JPEG 2000, JPEG XR, HEIC and PDF end as 502 (`Shaped`).
* Animations. A later header changes the canvas by which the budget of all frames is counted: a
  second MHDR of an MNG (`mng.rs:331`), a second VP8X (`img.rs:113`) or IHDR (`img.rs:153`), while
  the decoder of the latter two keeps drawing on the first canvas (`img.rs:849`). An APNG whose acTL
  does not come before IDAT is not compared with the limits at all (`img.rs:179`). In these cases
  `PixelsWithinBudget` only claims what each frame takes. Pictures of an AVIF may be larger than the track says,
  and are checked one by one only (`avif_seq.rs:82`); its delays lose less than a millisecond each.
  A truncated GIF or APNG is cached as a whole one. A last frame without delay keeps the average
  libwebp gives it (`img.rs:1450`). Start times of more than 2^31 ms wrap around (`img.rs:1122`)
  and libwebp takes the difference modulo 2^32: no frame is lost (`FramesKept`), but the last one
  keeps the average, for its own length is only set when the end still fits, and the answer is
  immutable all the same (`img.rs:1148`). When frames of another size were left out, that difference
  may itself have wrapped around. Frames that libwebp merges because they are equal are not
  modelled. An animation some of whose frames were
  refused is cached without Cache-Control, and its X-Proxy-Error is lost in the cache.
* Statistics. `retry_saved` also counts stale and fallback answers whose retry failed
  (`main.rs:2410`, `README.md:421`; OTLP's `fetch_retry_successes` does not).
  `proxy_error_category` no longer matches all strings it is given: an unsupported scheme, URLs that
  cannot be parsed, `ResponseTooLarge` and `CodecError` are internal errors instead of policy, size
  or decode (`main.rs:422`, `README.md:189`; `Category`). A request that joined a flight in vain
  still counts as a hit (`README.md:169`). Stale answers after a failure are errors in
  periodic_stats and not in OTLP, a 500 without header is internal in OTLP only. One period may
  report more errors than requests, since counters are swapped one by one.

## 4. Proofs

`ProxyRequestProofs` proves, for any sets of requests and keys, any TTL and stale window, with or
without caching (the assumption `ProxyAssumption` only gives the constants their types and says
that the two null values are not requests or entries):

* `TypeCorrect`: `Spec => []TypeOK`. The last conjunct, that a receiver is held exactly while its
  request waits, is what later steps use.
* `FlightsAgree`: `Spec => []FlightInv`. `FlightOwnership` alone is not inductive: that the sender
  under a key is removed by its owner needs to know that an owner with an armed guard is still on
  its way, that the guard is completed only between the send and the return, that the table has
  the owner's name under the owner's key until the removal, and that nothing has been sent before.
  `FlightInv` says these for each request by its `pc`; `FlightStep` proves it step by step.
* `FlightsOwned`, `NoLostWakeup`: `FlightOwnership` and `WaitersAreServed` from `FlightInv`.
* `AnswersKeyed`: `Spec => []AnswersMatchKey`, by `KeyInv`: every copy of an entry - in the store,
  in the hands of a handler or of a late blocking task, in a message - is under the key of the
  request that made it. That a joined flight has the joiner's key comes from `FlightInv`.
* `ImplementsSingleflight`: `Spec => RefinesSingleflight`. Registering is `Lead`, the send in
  `complete_flight` or in `Drop` is `Announce`, the removal is `Release`, all else stutters.

`ResponseCacheProofs` proves, for any keys, bodies, limits, lifetimes and clients, all that the runs of
the cache check. The inductive invariant is `LruInv`: `TypeOK`, `BytesAccounted` and `WithinBudget`
together. The last two need the others: that the bytes are exact needs that no key is in the map
twice, and that they never saturate, for else what is subtracted is not what is removed; that the
limit holds after `get` has removed an entry larger than the cache needs that the bytes are exact.
The statistics task empties the two counters of the window by two swaps without the mutex
(`SwapResetCapacity`, `SwapResetExpired`), which the proof takes in either order.

* Sums. `BytesOf` adds sizes one by one, and what it gives for every sequence needs induction. The
  library's theorem of induction cannot be used here (it takes an operator), so the lemmas on sums
  take the least index at which they fail (`LeastNumber`, from `WFMin`) and show that they do not
  fail there. With them: dropping a head takes its bytes off, appending adds them, and taking the
  entry of a key out of the middle (`WithoutGap`) takes off just that entry's.
* `PutStep` is what one `put` does as a whole: the replaced entry out, the expired head, the evicted
  head, the new entry in. That the two lengths exist which `CHOOSE` picks is proved, not assumed.
* `TypeCorrect`, `BytesCorrect`, `BudgetCorrect`, and the action properties `OldestFirst` and
  `EvictionsCorrect`. `OldestEvictedFirst` speaks of `put` only: when it was to be proved it turned out
  false of `get` without a stale window, which removes an expired entry from anywhere in the map; it
  says which entries go, not that the others keep their order. `EvictionsCounted` has the totals grow
  by the number of keys that left, and each counter of the window by as much as its total, unless the
  step swaps it out.
* `ImplementsCacheStore`: `Spec => RefinesCacheStore`. The order of the map, its bytes and counters are
  mapped away; each `get`, `get_stale` and `put` is the operation of that name of the store, where the
  swept and evicted keys are what the store forgot.

`FetchProofs` proves about `FetchLoop`, for any URLs, limit and times (`FetchAssumption`): `LoopTyped`,
whose last conjuncts say that a redirect being followed is within the limit and that a partial response
is in reserve only after the Range was taken away; and from `LoopInv` - while the loop runs, no failure
is recorded and the current URL has been checked - `SendsChecked`, `WholeImages` and
`FailuresRecorded`. About `Connect`, for every set of policies, hosts and answers: `TypeCorrect`,
`ConnectedCorrect` and `TargetCorrect`. That an address `CheckIp` lets pass is not `Refused`
(`CheckIpSound`) rests on lemmas that an address has a reading as IPv4 exactly when one of the forms
the code embeds is its form, in both directions (`EmbeddedReading`, `ReadingEmbedded`), and that the
masks of the code are the prefixes of the local nets (`LocalPrefixes`); the invariant adds `Seen`: the addresses that were checked are
those the resolver or the literal gave for that host, and none of them is refused under the policy.

`DnsCacheProofs` proves for any number of callers and hosts `FlightsOwnedAlways` and, from the same
invariant, the action property `ReplacementsSurvive`. The invariant is `FlightsOwned` with the types
of the table, the guards and `pc`: that a guard is held exactly at the steps in `Owning` is what an
owner's cleanup needs, and that a sender under a host is of a call for that host is what tells two
flights apart. `Elsewhere`, `Owned` and `Disowned` are the three things a step can do to it.
`PermitsCorrect` and `TypeCorrect` come from one more invariant: free permits, callers at `lookup` and
permits of lookups left behind add up to `Permits`. The sum is the cardinality of a set of pairs, which
grows or shrinks by one element in a step, so that no induction is needed; the upper bound that
`TypeOK` has for `free` follows from it, that of `background` from how often a caller retries
(`LookupsCounted`). `EntriesCorrect` is about what `MadeRoom` leaves for a host that is not there yet:
fewer entries than the limit, or none.

`ResourcePermitsProofs` proves `DownloadsReleased` and `NothingKept`, for any number of requests and
permits, by `Held`: how far a handler is decides what it may hold, and there is no task before
`encode`. `PermitsCorrect` adds what is lent: `InUse` counts pairs of a request and one of its units, a
grant adds no more than fits, and every exit takes away what its request had. `TypeCorrect` has the
queues: a request is in one once while it waits there, and in none else, whichever way it leaves.
`ImageThreadsCorrect` maps the running image threads into the units of `cpu` that are taken.

`EncodeProofs` proves for any statuses, types and data `FallbackCorrect`, `ImmutableCorrect` and
`EntryCorrect`. The invariant has the three properties, that the headers let nothing be kept before
a success (`Plain`), that an image has lost the length of the remote body (`RouteInv`), and how the
task relates to the handler (`TaskInv`): it runs only beside a handler that waits or has given up
with a timeout, and what it returns and what it caches agree (`GoodOutcome`). The steps of the task
are reduced to one form (`TaskStep`), those of the handler without it to another (`HandlerStep`).

`AnimationProofs` proves `DecodeTypeCorrect`, `BudgetCorrect` and `DriftCorrect` for every limit,
rate and duration. The budget: no frame is larger than it, nor the k-th of an MNG than its k-th
part, even after another MHDR; frames that were announced are within their limit; and while there is
one header, and frames were announced, all of them together are within it (those of a GIF by their
descriptors, those of an AVIF by its track). Nothing is claimed of the sum after a second header. The
ticks: what was emitted is at every step the ticks so far, rounded once. For the
encoder it proves `CycleCorrect` and `FramesCorrect` for every width of integers. Their invariant says that a sequence of start times exists, beginning at zero and growing by each
frame's delay and ending at `shown` (`Timeline`); that while `shown` fits an i32 the encoder's clock
is where the sequence is; and that, as long as all frames have one size and none was refused, what
libwebp has counted (`played`) is where the sequence was before the last frame, wrapped around or
not (`EncodeInv`). A step that decodes a frame extends the sequence, so the sum of all delays is
never computed and no induction is needed. `Clock` is the arithmetic: after adding a delay in an
i32, the unsigned difference to the time before is that delay, wherever the sum wraps around.
`FrameCounted` makes of it that a frame libwebp takes is counted with the length of the one before.

`StatsProofs` proves `LossFree`: increments, swaps and reports keep the sum; that a counter is not
read twice in a sweep (`Unread`, from `SweptAssumption`) is what a swap needs. It also proves
`LedgersCorrect`, for any requests, kinds and details of errors: `Spec => []LedgersAgree`.
`LedgersAgree` says nothing while a summary is under way, so it is not inductive. Its invariant
`Ledgers` compares the ledger of OTLP with what will have been counted (`Owed`: what was counted and
what requests have in `todo`), at every step:

* `Counts` is reduced to nine parts that have no counter in common (`CountsRange`, `CountsFacts`).
  So a summary counts nothing twice, and at most one counter of errors (`OneError`). `EmitNext`
  takes one from the head of `todo`; nothing is owed more or less, because it is not in the tail.
* Three sets correct the differences that last for a while: requests at `emit` are not yet in
  `otlp.requests`, those that are `Failing` not yet in `otlp.errors`, and those that are `Retrying`
  have an attempt that may still save them. How far a request is decides what it has collected
  (`Progress`); so only a request that has retried can be rescued.
* `SumFunctionOnSet` is a fold over a set in an order that is not known. `SumOfOneMore` says that
  one more at one element makes one more of the sum. It is shown without an induction theorem: the
  partial sums exist for all sizes because there is no least size without, and there is no smallest
  set for which the lemma fails (`NoBadSet`).

Only model-checked: liveness (`AllAnswered`, `Resolved`, `AnsweredInTime`, `AnsweredInOrder`, `Ends`),
out of this prover's reach like everything under fairness. Every other property of a passing run is
a theorem. The two runs that expect a violation prove nothing: they show one behaviour each.

## 5. Not modelled

* Pixel processing and codecs: resizing, rotation, colour conversion, composition of frames. Whether
  they succeed is a choice. The same holds for `svg.rs` beyond its task, timeout and outcomes.
* The writer of AVIF boxes (`avif_seq.rs`): byte layout without state. HTTP parsing, bindings of
  libvips, build files.
* Start-up, configuration and shutdown: straight-line I/O, and permissions of the unix socket between
  bind and chmod are those of the file system.
* The health check: three probes one after the other with nothing kept between them. That the probe
  of a unix socket has no timeout (`healthcheck.rs:66`) is a matter of real time.
* In `Stats`, sums and maxima of milliseconds and bytes, gauges, and the counters of outputs.
* The truncation of `budget_bytes` to 32 bits (`main.rs:3618`), which needs a `max_size` of 4 GiB.
* Poisoned mutexes: no operation panics while it holds one.
