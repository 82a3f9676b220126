---------------------------- MODULE ProxyRequest ----------------------------
(***************************************************************************)
(* get_file_inner (src/main.rs) around the response cache: hit, joining a  *)
(* flight, leading one, checking the URL, fetching, encoding on a blocking *)
(* thread, completing the flight, stale-if-error, and the FlightGuard that *)
(* cleans up whichever way the handler's future ends, cancellation by a    *)
(* client that goes away included.                                         *)
(*                                                                         *)
(* One action is one critical section (a cache or in-flight mutex, a       *)
(* broadcast send) or one await that ends.  A request is run once; what    *)
(* the network answers is a choice.  The store is CacheStore; the map of   *)
(* flights and the broadcast channels are modelled here.                   *)
(***************************************************************************)
EXTENDS Naturals

CONSTANTS
  Requests,     \* requests, each handled by one task of the runtime
  Keys,         \* CacheKey values: the URL and the image parameters
  Cacheable,    \* requests whose encoded response put would accept
  RangeChoices, \* the values has_range may take: BOOLEAN, or {FALSE} in a smaller instance
  Enabled,      \* CacheConfig.enabled
  Ttl,
  StaleMax,
  MaxTime,      \* bound on the clock
  NoEntry,      \* None, where an entry may be
  NoFlight      \* no sender registered, or no receiver held

ASSUME ProxyAssumption ==
  /\ Cacheable \subseteq Requests
  /\ RangeChoices \subseteq BOOLEAN
  /\ Enabled \in BOOLEAN
  /\ Ttl \in Nat /\ StaleMax \in Nat /\ MaxTime \in Nat
  /\ NoFlight \notin Requests
  /\ NoEntry \notin [body : Requests, born : Nat]
  /\ NoEntry \notin [key : Keys, entry : [body : Requests, born : Nat]]

\* Each request calls the cache from its handler and from its blocking task.
Clients == Requests \X {"handler", "task"}

VARIABLES
  store, now, held,   \* see CacheStore
  inflight,     \* ResponseCache.inflight: whose sender is registered under a key
  message,      \* what was sent on the channel of each request's flight
  guard,        \* FlightGuard of a request: absent, armed, or completed = true
  key,          \* cache_key
  range,        \* has_range
  pc,           \* where get_file_inner is
  rx,           \* receiver held by a waiting request: the flight, and whether it
                \* subscribed after the send
  task,         \* the spawn_blocking task that encodes
  fetchErr,     \* timings.fetch_err is some
  ok,           \* encode returned Ok (the streaming path); every other path is Err
  answer        \* the response, once decided

cacheVars == <<store, now, held>>
flightVars == <<inflight, message, guard>>
requestVars == <<key, range, pc, rx, task, fetchErr, ok, answer>>
vars == <<store, now, held, inflight, message, guard,
          key, range, pc, rx, task, fetchErr, ok, answer>>

Cache == INSTANCE CacheStore WITH Bodies <- Requests

Steps == {"get", "join", "wait", "start", "check", "fetch", "encode", "put", "blocking",
          "complete", "reput", "send", "remove", "rescue", "dropsend", "dropremove", "done"}

\* The awaits at which the handler's future can be dropped.
Awaiting == {"wait", "check", "fetch", "encode", "blocking"}

Message == {"nothing", "none", "entry"}

Answers == [how : {"nothing", "hit", "joined", "stale", "own", "error", "gone"},
            entry : Cache!Entry \cup {NoEntry}]

Unanswered == [how |-> "nothing", entry |-> NoEntry]

Absent == [flight |-> NoFlight, late |-> FALSE]

\* Types; a request holds a receiver exactly while it waits on it.
TypeOK ==
  /\ Cache!StoreTypeOK
  /\ inflight \in [Keys -> Requests \cup {NoFlight}]
  /\ message \in [Requests -> [kind : Message, entry : Cache!Entry \cup {NoEntry}]]
  /\ guard \in [Requests -> {"absent", "armed", "completed"}]
  /\ key \in [Requests -> Keys]
  /\ range \in [Requests -> BOOLEAN]
  /\ pc \in [Requests -> Steps]
  /\ rx \in [Requests -> [flight : Requests \cup {NoFlight}, late : BOOLEAN]]
  /\ task \in [Requests -> {"none", "queued", "running", "made", "put", "failed"}]
  /\ fetchErr \in [Requests -> BOOLEAN]
  /\ ok \in [Requests -> BOOLEAN]
  /\ answer \in [Requests -> Answers]
  /\ \A r \in Requests : rx[r].flight # NoFlight <=> pc[r] = "wait"

Init ==
  /\ Cache!StoreInit
  /\ inflight = [k \in Keys |-> NoFlight]
  /\ message = [r \in Requests |-> [kind |-> "nothing", entry |-> NoEntry]]
  /\ guard = [r \in Requests |-> "absent"]
  /\ key \in [Requests -> Keys]
  /\ range \in [Requests -> RangeChoices]
  /\ pc = [r \in Requests |-> "get"]
  /\ rx = [r \in Requests |-> Absent]
  /\ task = [r \in Requests |-> "none"]
  /\ fetchErr = [r \in Requests |-> FALSE]
  /\ ok = [r \in Requests |-> FALSE]
  /\ answer = [r \in Requests |-> Unanswered]

-----------------------------------------------------------------------------
\* Helpers

Handler(r) == <<r, "handler">>
Worker(r) == <<r, "task">>

Goto(r, from, to) == pc[r] = from /\ pc' = [pc EXCEPT ![r] = to]

Reply(r, how, entry) == answer' = [answer EXCEPT ![r] = [how |-> how, entry |-> entry]]

\* Mutant: an early return that forgets the guard (std::mem::forget, a leaked future).
ReturnWithoutDrop(r, how, entry) ==
  /\ Reply(r, how, entry)
  /\ pc' = [pc EXCEPT ![r] = "done"]

\* return from get_file_inner: an armed guard still has to be dropped.
Return(r, how, entry) ==
  /\ Reply(r, how, entry)
  /\ pc' = [pc EXCEPT ![r] = IF guard[r] = "armed" THEN "dropsend" ELSE "done"]

\* The stale-if-error exits: a stale entry if there is one, else the error.
ReturnStaleOr(r, how) ==
  \/ Cache!CanServeStale(key[r]) /\ Return(r, "stale", store[key[r]])
  \/ ~ Cache!CanServeStale(key[r]) /\ Return(r, how, NoEntry)

-----------------------------------------------------------------------------
\* Cache hit and joining

\* A Range request skips the cache, the join and the flight.
SkipCache(r) ==
  /\ range[r]
  /\ Goto(r, "get", "check")
  /\ UNCHANGED <<cacheVars, flightVars, key, range, rx, task, fetchErr, ok, answer>>

Hit(r) ==
  /\ pc[r] = "get" /\ ~ range[r]
  /\ Cache!GetHit(Handler(r), key[r])
  /\ Return(r, "hit", store[key[r]])
  /\ UNCHANGED <<flightVars, key, range, rx, task, fetchErr, ok>>

Miss(r) ==
  /\ ~ range[r]
  /\ Goto(r, "get", "join")
  /\ Cache!GetMiss(Handler(r), key[r])
  /\ UNCHANGED <<flightVars, key, range, rx, task, fetchErr, ok, answer>>

\* try_join finds nobody to join ...
FindNoFlight(r) ==
  /\ inflight[key[r]] = NoFlight
  /\ Goto(r, "join", "start")
  /\ UNCHANGED <<cacheVars, flightVars, key, range, rx, task, fetchErr, ok, answer>>

\* ... or subscribes: a receiver sees only what is sent after it subscribed.
TryJoin(r) ==
  /\ inflight[key[r]] # NoFlight
  /\ Goto(r, "join", "wait")
  /\ rx' = [rx EXCEPT ![r] = [flight |-> inflight[key[r]],
                              late |-> message[inflight[key[r]]].kind # "nothing"]]
  /\ UNCHANGED <<cacheVars, flightVars, key, range, task, fetchErr, ok, answer>>

Received(r, kind) == message[rx[r].flight].kind = kind /\ ~ rx[r].late

\* Every clone of the sender is gone: the guard's, and the one in the map.
Closed(flight) ==
  /\ guard[flight] = "absent"
  /\ \A k \in Keys : inflight[k] # flight

RecvEntry(r) ==
  /\ pc[r] = "wait"
  /\ Received(r, "entry")
  /\ Return(r, "joined", message[rx[r].flight].entry)
  /\ rx' = [rx EXCEPT ![r] = Absent]
  /\ UNCHANGED <<cacheVars, flightVars, key, range, task, fetchErr, ok>>

\* None, or the channel closed: serve stale ...
FlightFailed(r) ==
  /\ pc[r] = "wait"
  /\ \/ Received(r, "none")
     \/ Closed(rx[r].flight) /\ ~ Received(r, "entry")
  /\ rx' = [rx EXCEPT ![r] = Absent]
  /\ UNCHANGED <<cacheVars, flightVars, key, range, task, fetchErr, ok>>

StaleAfterFlight(r) ==
  /\ FlightFailed(r)
  /\ Cache!CanServeStale(key[r])
  /\ Return(r, "stale", store[key[r]])

\* ... or fall through and do the work.
FallThrough(r) ==
  /\ FlightFailed(r)
  /\ ~ Cache!CanServeStale(key[r])
  /\ Goto(r, "wait", "start")
  /\ UNCHANGED answer

\* Mutant: start_flight without the contains_key check.
StartFlightOverwrites(r) ==
  /\ Goto(r, "start", "check")
  /\ inflight' = [inflight EXCEPT ![key[r]] = r]
  /\ guard' = [guard EXCEPT ![r] = "armed"]
  /\ UNCHANGED <<cacheVars, message, key, range, rx, task, fetchErr, ok, answer>>

\* start_flight registers the sender ...
StartFlight(r) ==
  /\ Enabled
  /\ inflight[key[r]] = NoFlight
  /\ Goto(r, "start", "check")
  /\ inflight' = [inflight EXCEPT ![key[r]] = r]
  /\ guard' = [guard EXCEPT ![r] = "armed"]
  /\ UNCHANGED <<cacheVars, message, key, range, rx, task, fetchErr, ok, answer>>

\* ... and the loser of a race goes on without a guard.
StartUnguarded(r) ==
  /\ Enabled => inflight[key[r]] # NoFlight
  /\ Goto(r, "start", "check")
  /\ UNCHANGED <<cacheVars, flightVars, key, range, rx, task, fetchErr, ok, answer>>

-----------------------------------------------------------------------------
\* check_url and the fetch

CheckOk(r) ==
  /\ Goto(r, "check", "fetch")
  /\ UNCHANGED <<cacheVars, flightVars, key, range, rx, task, fetchErr, ok, answer>>

\* Invalid URL, host, port or address: an error, never a stale entry.
CheckDenied(r) ==
  /\ pc[r] = "check"
  /\ Return(r, "error", NoEntry)
  /\ UNCHANGED <<cacheVars, flightVars, key, range, rx, task, fetchErr, ok>>

FetchOk(r) ==
  /\ Goto(r, "fetch", "encode")
  /\ UNCHANGED <<cacheVars, flightVars, key, range, rx, task, fetchErr, ok, answer>>

\* No download permit in time, a redirect that is refused or one too many: an error.  Of
\* these only a redirect to a name that does not resolve is recorded as a failed fetch.
FetchRefused(r) ==
  /\ pc[r] = "fetch"
  /\ Return(r, "error", NoEntry)
  /\ \E unresolved \in BOOLEAN : fetchErr' = [fetchErr EXCEPT ![r] = unresolved]
  /\ UNCHANGED <<cacheVars, flightVars, key, range, rx, task, ok>>

\* The name does not resolve, or send fails for good: stale unless Range.
FetchFailed(r) ==
  /\ pc[r] \in {"check", "fetch"}
  /\ fetchErr' = [fetchErr EXCEPT ![r] = TRUE]
  /\ \/ range[r] /\ Return(r, "error", NoEntry)
     \/ ~ range[r] /\ ReturnStaleOr(r, "error")
  /\ UNCHANGED <<cacheVars, flightVars, key, range, rx, task, ok>>

-----------------------------------------------------------------------------
\* encode

\* Remote status, limits, permits, formats that are not sent on: Err, not cached.
EncodeRefused(r) ==
  /\ Goto(r, "encode", "complete")
  /\ UNCHANGED <<cacheVars, flightVars, key, range, rx, task, fetchErr, ok, answer>>

\* load_all: the body breaks off.
BodyFailed(r) ==
  /\ Goto(r, "encode", "complete")
  /\ fetchErr' = [fetchErr EXCEPT ![r] = TRUE]
  /\ UNCHANGED <<cacheVars, flightVars, key, range, rx, task, ok, answer>>

\* A type browsers take as it is: the only Ok, never cached.
Stream(r) ==
  /\ Goto(r, "encode", "complete")
  /\ ok' = [ok EXCEPT ![r] = TRUE]
  /\ UNCHANGED <<cacheVars, flightVars, key, range, rx, task, fetchErr, answer>>

\* Passthrough and SVG build the entry on the handler's own thread ...
EncodeInline(r) ==
  /\ Goto(r, "encode", "put")
  /\ Cache!New(Handler(r), key[r], r)
  /\ UNCHANGED <<flightVars, key, range, rx, task, fetchErr, ok, answer>>

\* ... and put it.
PutInline(r) ==
  /\ Goto(r, "put", "complete")
  /\ Cache!Put(Handler(r))
  /\ UNCHANGED <<flightVars, key, range, rx, task, fetchErr, ok, answer>>

SpawnBlocking(r) ==
  /\ Goto(r, "encode", "blocking")
  /\ task' = [task EXCEPT ![r] = "queued"]
  /\ UNCHANGED <<cacheVars, flightVars, key, range, rx, fetchErr, ok, answer>>

TaskAnswered(r) ==
  /\ Goto(r, "blocking", "complete")
  /\ task[r] \in {"put", "failed"}
  /\ UNCHANGED <<cacheVars, flightVars, key, range, rx, task, fetchErr, ok, answer>>

\* Mutant: no timeout around the blocking task once it has a thread.
TaskTimedOutInQueue(r) ==
  /\ task[r] = "queued"
  /\ Goto(r, "blocking", "complete")
  /\ task' = [task EXCEPT ![r] = "failed"]
  /\ UNCHANGED <<cacheVars, flightVars, key, range, rx, fetchErr, ok, answer>>

\* abort() stops a task that still waits for a thread, not one that runs.
TaskTimedOut(r) ==
  /\ Goto(r, "blocking", "complete")
  /\ task[r] \in {"queued", "running", "made"}
  /\ task' = [task EXCEPT ![r] = IF @ = "queued" THEN "failed" ELSE @]
  /\ UNCHANGED <<cacheVars, flightVars, key, range, rx, fetchErr, ok, answer>>

\* The blocking thread; it goes on after the handler timed out or was dropped.
TaskStarts(r) ==
  /\ task[r] = "queued"
  /\ task' = [task EXCEPT ![r] = "running"]
  /\ UNCHANGED <<cacheVars, flightVars, key, range, pc, rx, fetchErr, ok, answer>>

TaskFails(r) ==
  /\ task[r] = "running"
  /\ task' = [task EXCEPT ![r] = "failed"]
  /\ UNCHANGED <<cacheVars, flightVars, key, range, pc, rx, fetchErr, ok, answer>>

\* Mutant: the cache key handed to the task misses what tells two requests apart.
TaskMakesEntryForAnyKey(r) ==
  /\ task[r] = "running"
  /\ task' = [task EXCEPT ![r] = "made"]
  /\ Cache!New(Worker(r), CHOOSE k \in Keys : TRUE, r)
  /\ UNCHANGED <<flightVars, key, range, pc, rx, fetchErr, ok, answer>>

TaskMakesEntry(r) ==
  /\ task[r] = "running"
  /\ task' = [task EXCEPT ![r] = "made"]
  /\ Cache!New(Worker(r), key[r], r)
  /\ UNCHANGED <<flightVars, key, range, pc, rx, fetchErr, ok, answer>>

TaskPuts(r) ==
  /\ task[r] = "made"
  /\ task' = [task EXCEPT ![r] = "put"]
  /\ Cache!Put(Worker(r))
  /\ UNCHANGED <<flightVars, key, range, pc, rx, fetchErr, ok, answer>>

-----------------------------------------------------------------------------
\* Completing the flight, and the last rescue

SkipCompletion(r) ==
  /\ guard[r] = "absent"
  /\ Goto(r, "complete", "rescue")
  /\ UNCHANGED <<cacheVars, flightVars, key, range, rx, task, fetchErr, ok, answer>>

\* response_cache.get(&cache_key): what the flight will announce.
CompleteGet(r) ==
  /\ guard[r] # "absent"
  /\ Goto(r, "complete", "reput")
  /\ Cache!Get(Handler(r), key[r])
  /\ UNCHANGED <<flightVars, key, range, rx, task, fetchErr, ok, answer>>

\* complete_flight puts the entry it was given again.
CompletePut(r) ==
  /\ Goto(r, "reput", "send")
  /\ \/ held[Handler(r)] = NoEntry /\ UNCHANGED cacheVars
     \/ held[Handler(r)] # NoEntry /\ Cache!Put(Handler(r))
  /\ UNCHANGED <<flightVars, key, range, rx, task, fetchErr, ok, answer>>

CompleteSend(r) ==
  /\ Goto(r, "send", "remove")
  /\ message' = [message EXCEPT ![r] =
       IF held[Handler(r)] = NoEntry THEN [kind |-> "none", entry |-> NoEntry]
       ELSE [kind |-> "entry", entry |-> held[Handler(r)].entry]]
  /\ guard' = [guard EXCEPT ![r] = "completed"]
  /\ UNCHANGED <<cacheVars, inflight, key, range, rx, task, fetchErr, ok, answer>>

\* Mutant: the flights of all keys are cleared.
CompleteClearsAll(r) ==
  /\ Goto(r, "remove", "rescue")
  /\ inflight' = [k \in Keys |-> NoFlight]
  /\ UNCHANGED <<cacheVars, message, guard, key, range, rx, task, fetchErr, ok, answer>>

CompleteRemove(r) ==
  /\ Goto(r, "remove", "rescue")
  /\ inflight' = [inflight EXCEPT ![key[r]] = NoFlight]
  /\ UNCHANGED <<cacheVars, message, guard, key, range, rx, task, fetchErr, ok, answer>>

Rescuable(r) == ~ ok[r] /\ fetchErr[r] /\ Cache!CanServeStale(key[r])

\* Mutant: the completed guard outlives the request, and its sender with it.
RescueKeepsGuard(r) ==
  /\ Goto(r, "rescue", "done")
  /\ Reply(r, "own", NoEntry)
  /\ UNCHANGED <<cacheVars, flightVars, key, range, rx, task, fetchErr, ok>>

\* stale-if-error for a body that broke off, then return: the guard is dropped,
\* and a completed one only gives up its sender.
Rescue(r) ==
  /\ pc[r] = "rescue"
  /\ pc' = [pc EXCEPT ![r] = "done"]
  /\ guard' = [guard EXCEPT ![r] = "absent"]
  /\ \/ Rescuable(r) /\ Reply(r, "stale", store[key[r]])
     \/ ~ Rescuable(r) /\ Reply(r, "own", NoEntry)
  /\ UNCHANGED <<cacheVars, inflight, message, key, range, rx, task, fetchErr, ok>>

-----------------------------------------------------------------------------
\* Drop of an armed guard

\* Mutant: the receiver of a cancelled request is kept.
CancelKeepsReceiver(r) ==
  /\ pc[r] \in Awaiting
  /\ Return(r, "gone", NoEntry)
  /\ UNCHANGED <<cacheVars, flightVars, key, range, rx, task, fetchErr, ok>>

\* The client went away: axum drops the handler's future at an await.
Cancel(r) ==
  /\ pc[r] \in Awaiting
  /\ Return(r, "gone", NoEntry)
  /\ rx' = [rx EXCEPT ![r] = Absent]
  /\ UNCHANGED <<cacheVars, flightVars, key, range, task, fetchErr, ok>>

\* Mutant: Drop does not tell the waiters.
DropSilently(r) ==
  /\ Goto(r, "dropsend", "dropremove")
  /\ UNCHANGED <<cacheVars, flightVars, key, range, rx, task, fetchErr, ok, answer>>

DropSend(r) ==
  /\ Goto(r, "dropsend", "dropremove")
  /\ message' = [message EXCEPT ![r] = [kind |-> "none", entry |-> NoEntry]]
  /\ UNCHANGED <<cacheVars, inflight, guard, key, range, rx, task, fetchErr, ok, answer>>

DropRemove(r) ==
  /\ Goto(r, "dropremove", "done")
  /\ inflight' = [inflight EXCEPT ![key[r]] = NoFlight]
  /\ guard' = [guard EXCEPT ![r] = "absent"]
  /\ UNCHANGED <<cacheVars, message, key, range, rx, task, fetchErr, ok, answer>>

-----------------------------------------------------------------------------
Tick ==
  /\ Cache!Tick
  /\ UNCHANGED <<flightVars, requestVars>>

\* What the handler of r does when it is scheduled.
HandlerStep(r) ==
  \/ SkipCache(r) \/ Hit(r) \/ Miss(r) \/ FindNoFlight(r) \/ TryJoin(r)
  \/ RecvEntry(r) \/ StaleAfterFlight(r) \/ FallThrough(r)
  \/ StartFlight(r) \/ StartUnguarded(r)
  \/ CheckOk(r) \/ CheckDenied(r) \/ FetchOk(r) \/ FetchRefused(r) \/ FetchFailed(r)
  \/ EncodeRefused(r) \/ BodyFailed(r) \/ Stream(r)
  \/ EncodeInline(r) \/ PutInline(r)
  \/ SpawnBlocking(r) \/ TaskAnswered(r) \/ TaskTimedOut(r)
  \/ SkipCompletion(r) \/ CompleteGet(r) \/ CompletePut(r) \/ CompleteSend(r)
  \/ CompleteRemove(r) \/ Rescue(r)
  \/ DropSend(r) \/ DropRemove(r)

TaskStep(r) == TaskStarts(r) \/ TaskFails(r) \/ TaskMakesEntry(r) \/ TaskPuts(r)

Next == Tick \/ \E r \in Requests : HandlerStep(r) \/ TaskStep(r) \/ Cancel(r)

Spec == Init /\ [][Next]_vars

\* A handler that can run is run: the runtime polls it, and every await in it has
\* a timeout or a peer that ends it.  Blocking tasks and clients owe nothing.
FairSpec == Spec /\ \A r \in Requests : WF_vars(HandlerStep(r))

-----------------------------------------------------------------------------
\* Properties

Leading == {"check", "fetch", "encode", "put", "blocking", "complete", "reput", "send",
            "dropsend"}

\* A registered flight and an armed guard are the same thing: the sender under a key
\* belongs to the one request whose guard will remove it, and that request is still on
\* its way.  No path out of get_file_inner leaves a sender behind, and none removes
\* the flight of another request.
FlightOwnership ==
  /\ \A k \in Keys : inflight[k] # NoFlight =>
        LET owner == inflight[k]
        IN  /\ key[owner] = k
            /\ guard[owner] # "absent"
            /\ pc[owner] \in Leading \cup {"remove", "dropremove"}
  /\ \A r \in Requests :
        /\ guard[r] = "armed" => inflight[key[r]] = r
        /\ pc[r] = "remove" => inflight[key[r]] = r

\* No lost wake-up: a request that waits can receive now, or the leader it waits for
\* still holds the sender, will pass the send, and does not wait for anyone itself.
WaitersAreServed ==
  \A r \in Requests : pc[r] = "wait" =>
    LET f == rx[r].flight
    IN  /\ f \in Requests \ {r}
        /\ key[f] = key[r]
        /\ \/ message[f].kind # "nothing" /\ ~ rx[r].late
           \/ Closed(f)
           \/ /\ guard[f] # "absent"
              /\ pc[f] \notin {"get", "join", "wait", "start", "done"}

\* Whatever a response is taken from, it was made for the request's own cache key.
AnswersMatchKey ==
  \A r \in Requests : answer[r].entry # NoEntry => key[answer[r].entry.body] = key[r]

\* The inductive strengthening of FlightOwnership and WaitersAreServed: how far a
\* request is decides what its guard and its channel look like.
FlightInv ==
  /\ \A r \in Requests :
        /\ guard[r] = "armed" => pc[r] \in Leading \cup {"dropremove"}
        /\ guard[r] = "completed" => pc[r] \in {"remove", "rescue"}
        /\ pc[r] \in {"reput", "send", "dropsend", "dropremove"} => guard[r] = "armed"
        /\ pc[r] = "remove" => guard[r] = "completed"
        /\ pc[r] \notin {"remove", "rescue", "dropremove", "done"} => message[r].kind = "nothing"
        /\ pc[r] \in {"remove", "dropremove"} => message[r].kind # "nothing"
        /\ guard[r] = "armed" \/ pc[r] = "remove" => inflight[key[r]] = r
        /\ pc[r] = "wait" => /\ rx[r].flight \in Requests
                            /\ key[rx[r].flight] = key[r]
                            /\ pc[rx[r].flight] \notin {"get", "join", "wait", "start"}
  /\ \A k \in Keys : inflight[k] # NoFlight =>
        /\ key[inflight[k]] = k
        /\ guard[inflight[k]] = "armed" \/ pc[inflight[k]] = "remove"

\* Every copy of an entry, in the store or in somebody's hands, goes under the key of the
\* request that made it.
EntriesKeyed ==
  /\ \A k \in Keys : store[k] # NoEntry => key[store[k].body] = k
  /\ \A c \in Clients : held[c] # NoEntry => /\ key[held[c].entry.body] = held[c].key
                                           /\ held[c].key = key[c[1]]

MessagesKeyed ==
  \A r \in Requests : message[r].entry # NoEntry => key[message[r].entry.body] = key[r]

\* The inductive strengthening of AnswersMatchKey: it holds of every place an answer is
\* taken from.
KeyInv == EntriesKeyed /\ MessagesKeyed /\ AnswersMatchKey

\* The in-flight table implements its abstract specification.
Flights == INSTANCE Singleflight WITH
  leader <- inflight,
  announced <- [r \in Requests |-> message[r].kind],
  Outcomes <- {"none", "entry"},
  Silent <- "nothing"

RefinesSingleflight == Flights!Spec

\* Under FairSpec every request is answered (or its client is gone): nobody waits
\* forever for a flight, whatever its leader runs into.
AllAnswered == \A r \in Requests : <>(pc[r] = "done")

-----------------------------------------------------------------------------
\* What the documentation says and the code does not do

\* src/main.rs:2593: Range requests are not subject to caching: nothing made for one is
\* stored, and nothing cached answers one.
RangeBypassesCache ==
  /\ \A k \in Keys : store[k] # NoEntry => ~ range[store[k].body]
  /\ \A r \in Requests : range[r] => answer[r].entry = NoEntry
=============================================================================
