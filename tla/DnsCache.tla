------------------------------ MODULE DnsCache ------------------------------
(***************************************************************************)
(* DnsCache::resolve (src/main.rs): the map of resolved hosts, joining a   *)
(* lookup in flight, registering one (by force after a failed join), the   *)
(* lookups under a semaphore with one retry, the eviction and the insert,  *)
(* and DnsFlightGuard, which takes the flight of a dropped owner back.     *)
(*                                                                         *)
(* One action is one critical section or one await that ends.  dns_timeout *)
(* may expire at any moment: it is not related to the clock, which counts  *)
(* the far longer lifetimes of entries.                                    *)
(***************************************************************************)
EXTENDS Naturals, FiniteSets, FiniteSetsExt

CONSTANTS
  Callers,        \* calls of resolve (check_url's and the connector's resolver)
  Hosts,
  Permits,        \* size of lookup_semaphore
  MaxEntries,     \* max_entries
  Ttl, NegativeTtl, TimeoutTtl,   \* ttl, negative_ttl, DNS_TIMEOUT_NEGATIVE_TTL
  StaleFactor,    \* DNS_STALE_FACTOR
  MaxTime,        \* bound on the clock
  NoEntry,        \* a host without entry
  NoFlight        \* no sender registered, or no receiver held

ASSUME DnsAssumption ==
  /\ Permits \in Nat \ {0}
  /\ {MaxEntries, Ttl, NegativeTtl, TimeoutTtl, StaleFactor, MaxTime} \subseteq Nat
  /\ NoFlight \notin Callers
  /\ IsFiniteSet(Callers) /\ IsFiniteSet(Hosts)

VARIABLES
  map,          \* inner: what is cached for each host
  now,          \* Instant::now()
  inflight,     \* whose sender is registered for each host
  sent,         \* what was sent on the channel a caller created
  guard,        \* the caller holds an active DnsFlightGuard
  free,         \* permits left in lookup_semaphore
  background,   \* lookups of a caller that timed out and still hold their permit
  host,         \* what is to be resolved
  pc,           \* where resolve is
  rx,           \* the flight whose channel the caller subscribed to, and whether the send was over
  retried,      \* the second lookup has begun
  outcome,      \* result of the lookups
  answer        \* what resolve returns

vars == <<map, now, inflight, sent, guard, free, background,
          host, pc, rx, retried, outcome, answer>>

Outcomes == {"ok", "error", "timeout"}

Entry == [kind : Outcomes, born : Nat]

\* The awaits at which resolve can be dropped.
Awaiting == {"read", "wait", "rewait", "permit", "lookup", "insert", "stale"}

Steps == Awaiting \cup {"subscribe", "leave", "register", "releave", "force", "send", "complete",
                        "drop", "done"}

Sent == {"nothing"} \cup Outcomes

Answers == {"nothing", "hit", "negative", "miss", "stale", "error", "gone"}

Unsubscribed == [flight |-> NoFlight, late |-> FALSE]

\* Types; a caller that waits or is about to leave a flight has its receiver.
TypeOK ==
  /\ map \in [Hosts -> Entry \cup {NoEntry}]
  /\ now \in Nat
  /\ inflight \in [Hosts -> Callers \cup {NoFlight}]
  /\ sent \in [Callers -> Sent]
  /\ guard \in [Callers -> BOOLEAN]
  /\ free \in 0..Permits
  /\ background \in [Callers -> 0..2]
  /\ host \in [Callers -> Hosts]
  /\ pc \in [Callers -> Steps]
  /\ rx \in [Callers -> [flight : Callers \cup {NoFlight}, late : BOOLEAN]]
  /\ retried \in [Callers -> BOOLEAN]
  /\ outcome \in [Callers -> Sent]
  /\ answer \in [Callers -> Answers]
  /\ \A c \in Callers : pc[c] \in {"wait", "rewait", "leave", "releave"} => rx[c].flight # NoFlight

Init ==
  /\ map = [h \in Hosts |-> NoEntry]
  /\ now = 0
  /\ inflight = [h \in Hosts |-> NoFlight]
  /\ sent = [c \in Callers |-> "nothing"]
  /\ guard = [c \in Callers |-> FALSE]
  /\ free = Permits
  /\ background = [c \in Callers |-> 0]
  /\ host \in [Callers -> Hosts]
  /\ pc = [c \in Callers |-> "read"]
  /\ rx = [c \in Callers |-> Unsubscribed]
  /\ retried = [c \in Callers |-> FALSE]
  /\ outcome = [c \in Callers |-> "nothing"]
  /\ answer = [c \in Callers |-> "nothing"]

-----------------------------------------------------------------------------
\* Entries

Age(e) == now - e.born

EntryTtl(e) ==
  CASE e.kind = "ok" -> Ttl
    [] e.kind = "timeout" -> TimeoutTtl
    [] e.kind = "error" -> NegativeTtl

Fresh(e) == Age(e) < EntryTtl(e)

StaleUsable(e) == e.kind = "ok" /\ Age(e) < Ttl * StaleFactor

Hit(h) == map[h] # NoEntry /\ Fresh(map[h])

StaleHit(h) == map[h] # NoEntry /\ StaleUsable(map[h])

\* What the sweep of a full map keeps.
Retained(e) == IF e.kind = "ok" THEN Age(e) < Ttl * StaleFactor ELSE Fresh(e)

Cached(m) == {h \in Hosts : m[h] # NoEntry}

-----------------------------------------------------------------------------
\* resolve

Goto(c, from, to) == pc[c] = from /\ pc' = [pc EXCEPT ![c] = to]

Return(c, how) ==
  /\ pc' = [pc EXCEPT ![c] = "done"]
  /\ answer' = [answer EXCEPT ![c] = how]

ReadHit(c) ==
  /\ pc[c] = "read"
  /\ Hit(host[c])
  /\ \/ map[host[c]].kind = "ok" /\ Return(c, "hit")
     \/ map[host[c]].kind # "ok" /\ Return(c, "negative")
  /\ UNCHANGED <<map, now, inflight, sent, guard, free, background, host, rx, retried, outcome>>

ReadMiss(c) ==
  /\ ~ Hit(host[c])
  /\ Goto(c, "read", "subscribe")
  /\ UNCHANGED <<map, now, inflight, sent, guard, free, background, host, rx, retried, outcome, answer>>

\* tx.subscribe(): the receiver sees what is sent from now on.
Subscribe(c) ==
  /\ inflight[host[c]] # NoFlight
  /\ rx' = [rx EXCEPT ![c] = [flight |-> inflight[host[c]],
                              late |-> sent[inflight[host[c]]] # "nothing"]]

TrySubscribe(c) ==
  /\ \/ Goto(c, "subscribe", "wait") /\ Subscribe(c)
     \/ Goto(c, "subscribe", "register") /\ inflight[host[c]] = NoFlight /\ UNCHANGED rx
  /\ UNCHANGED <<map, now, inflight, sent, guard, free, background, host, retried, outcome, answer>>

\* The owner's result arrives: addresses ...
ReceiveAddresses(c) ==
  /\ pc[c] \in {"wait", "rewait"} /\ ~ rx[c].late
  /\ sent[rx[c].flight] = "ok"
  /\ Return(c, "miss")
  /\ rx' = [rx EXCEPT ![c] = Unsubscribed]
  /\ UNCHANGED <<map, now, inflight, sent, guard, free, background, host, retried, outcome>>

\* ... or a failure, which a stale entry may cover.
ReceiveFailure(c) ==
  /\ Goto(c, "wait", "stale") \/ Goto(c, "rewait", "stale")
  /\ ~ rx[c].late
  /\ sent[rx[c].flight] \in {"error", "timeout"}
  /\ rx' = [rx EXCEPT ![c] = Unsubscribed]
  /\ UNCHANGED <<map, now, inflight, sent, guard, free, background, host, retried, outcome, answer>>

\* dns_timeout expires, or the channel closes.
GiveUp(c) ==
  /\ Goto(c, "wait", "leave") \/ Goto(c, "rewait", "releave")
  /\ UNCHANGED <<map, now, inflight, sent, guard, free, background, host, rx, retried, outcome, answer>>

\* remove_inflight_if_current: take the flight away from the owner that kept one waiting.
Leave(c) ==
  /\ Goto(c, "leave", "register") \/ Goto(c, "releave", "force")
  /\ inflight' = [inflight EXCEPT ![host[c]] = IF @ = rx[c].flight THEN NoFlight ELSE @]
  /\ rx' = [rx EXCEPT ![c] = Unsubscribed]
  /\ UNCHANGED <<map, now, sent, guard, free, background, host, retried, outcome, answer>>

Own(c) ==
  /\ inflight' = [inflight EXCEPT ![host[c]] = c]
  /\ guard' = [guard EXCEPT ![c] = TRUE]

\* register_or_subscribe.
Register(c) ==
  /\ inflight[host[c]] = NoFlight
  /\ Goto(c, "register", "permit")
  /\ Own(c)
  /\ UNCHANGED <<map, now, sent, free, background, host, rx, retried, outcome, answer>>

LoseRegistration(c) ==
  /\ Goto(c, "register", "rewait")
  /\ Subscribe(c)
  /\ UNCHANGED <<map, now, inflight, sent, guard, free, background, host, retried, outcome, answer>>

\* force_register: whoever is registered is replaced.
ForceRegister(c) ==
  /\ Goto(c, "force", "permit")
  /\ Own(c)
  /\ UNCHANGED <<map, now, sent, free, background, host, rx, retried, outcome, answer>>

-----------------------------------------------------------------------------
\* do_lookup, at most twice

AcquirePermit(c) ==
  /\ free > 0
  /\ Goto(c, "permit", "lookup")
  /\ free' = free - 1
  /\ UNCHANGED <<map, now, inflight, sent, guard, background, host, rx, retried, outcome, answer>>

LookupEnds(c) ==
  /\ Goto(c, "lookup", "insert")
  /\ \E result \in {"ok", "error"} : outcome' = [outcome EXCEPT ![c] = result]
  /\ free' = free + 1
  /\ UNCHANGED <<map, now, inflight, sent, guard, background, host, rx, retried, answer>>

\* Mutant: the handler gives the permit back although the task left behind will.
LookupTimesOutReleases(c) ==
  /\ Goto(c, "lookup", "insert")
  /\ outcome' = [outcome EXCEPT ![c] = "timeout"]
  /\ background' = [background EXCEPT ![c] = @ + 1]
  /\ free' = free + 1
  /\ UNCHANGED <<map, now, inflight, sent, guard, host, rx, retried, answer>>

\* The lookup goes on in a task of its own, which takes the permit with it; the first
\* timeout is followed by a second lookup.
LookupTimesOut(c) ==
  /\ \/ ~ retried[c] /\ Goto(c, "lookup", "permit") /\ UNCHANGED outcome
     \/ /\ retried[c]
        /\ Goto(c, "lookup", "insert")
        /\ outcome' = [outcome EXCEPT ![c] = "timeout"]
  /\ retried' = [retried EXCEPT ![c] = TRUE]
  /\ background' = [background EXCEPT ![c] = @ + 1]
  /\ UNCHANGED <<map, now, inflight, sent, guard, free, host, rx, answer>>

\* Mutant: the task that waits for the late lookup does not give the permit back.
BackgroundKeepsPermit(c) ==
  /\ background[c] > 0
  /\ background' = [background EXCEPT ![c] = @ - 1]
  /\ UNCHANGED <<map, now, inflight, sent, guard, free, host, pc, rx, retried, outcome, answer>>

BackgroundEnds(c) ==
  /\ background[c] > 0
  /\ background' = [background EXCEPT ![c] = @ - 1]
  /\ free' = free + 1
  /\ UNCHANGED <<map, now, inflight, sent, guard, host, pc, rx, retried, outcome, answer>>

-----------------------------------------------------------------------------
\* Storing and announcing the result

Full(h) == Cardinality(Cached(map)) >= MaxEntries /\ map[h] = NoEntry

Swept == [k \in Hosts |-> IF k \in Cached(map) /\ Retained(map[k]) THEN map[k] ELSE NoEntry]

\* Mutant: the sweep is taken to have made room.
SweepOnly(h) == {IF Full(h) THEN Swept ELSE map}

\* The maps that making room for h may leave: untouched, swept, or with one entry less (the
\* first of the iteration, so any) when the sweep did not free enough.
MadeRoom(h) ==
  CASE ~ Full(h) -> {map}
    [] Full(h) /\ (Cardinality(Cached(Swept)) < MaxEntries \/ Cached(Swept) = {}) -> {Swept}
    [] OTHER -> {[Swept EXCEPT ![k] = NoEntry] : k \in Cached(Swept)}

Insert(c) ==
  /\ Goto(c, "insert", "send")
  /\ \E roomy \in MadeRoom(host[c]) :
        map' = [roomy EXCEPT ![host[c]] = [kind |-> outcome[c], born |-> now]]
  /\ UNCHANGED <<now, inflight, sent, guard, free, background, host, rx, retried, outcome, answer>>

Send(c) ==
  /\ Goto(c, "send", "complete")
  /\ sent' = [sent EXCEPT ![c] = outcome[c]]
  /\ UNCHANGED <<map, now, inflight, guard, free, background, host, rx, retried, outcome, answer>>

\* Mutant: the flight of the host is removed whoever owns it by now.
RemoveAny(c) == inflight' = [inflight EXCEPT ![host[c]] = NoFlight]

\* DnsFlightGuard::remove_if_current: only one's own flight.
RemoveIfCurrent(c) ==
  inflight' = [inflight EXCEPT ![host[c]] = IF @ = c THEN NoFlight ELSE @]

Complete(c) ==
  /\ pc[c] = "complete"
  /\ RemoveIfCurrent(c)
  /\ guard' = [guard EXCEPT ![c] = FALSE]
  /\ \/ outcome[c] = "ok" /\ Return(c, "miss")
     \/ outcome[c] # "ok" /\ pc' = [pc EXCEPT ![c] = "stale"] /\ UNCHANGED answer
  /\ UNCHANGED <<map, now, sent, free, background, host, rx, retried, outcome>>

\* try_stale_or_err.
TryStaleOrErr(c) ==
  /\ pc[c] = "stale"
  /\ \/ StaleHit(host[c]) /\ Return(c, "stale")
     \/ ~ StaleHit(host[c]) /\ Return(c, "error")
  /\ UNCHANGED <<map, now, inflight, sent, guard, free, background, host, rx, retried, outcome>>

-----------------------------------------------------------------------------
\* Cancellation

\* Mutant: no guard, or one that is disarmed too early.
CancelForgetsFlight(c) ==
  /\ pc[c] \in Awaiting
  /\ Return(c, "gone")
  /\ guard' = [guard EXCEPT ![c] = FALSE]
  /\ rx' = [rx EXCEPT ![c] = Unsubscribed]
  /\ free' = IF pc[c] = "lookup" THEN free + 1 ELSE free
  /\ UNCHANGED <<map, now, inflight, sent, background, host, retried, outcome>>

\* The request is dropped at an await; a lookup that runs then goes on without its permit.
Cancel(c) ==
  /\ pc[c] \in Awaiting
  /\ pc' = [pc EXCEPT ![c] = IF guard[c] THEN "drop" ELSE "done"]
  /\ answer' = [answer EXCEPT ![c] = "gone"]
  /\ rx' = [rx EXCEPT ![c] = Unsubscribed]
  /\ free' = IF pc[c] = "lookup" THEN free + 1 ELSE free
  /\ UNCHANGED <<map, now, inflight, sent, guard, background, host, retried, outcome>>

\* DnsFlightGuard::drop.
DropGuard(c) ==
  /\ Goto(c, "drop", "done")
  /\ RemoveIfCurrent(c)
  /\ guard' = [guard EXCEPT ![c] = FALSE]
  /\ UNCHANGED <<map, now, sent, free, background, host, rx, retried, outcome, answer>>

Tick ==
  /\ now < MaxTime
  /\ now' = now + 1
  /\ UNCHANGED <<map, inflight, sent, guard, free, background, host, pc, rx, retried, outcome, answer>>

ResolveStep(c) ==
  \/ ReadHit(c) \/ ReadMiss(c) \/ TrySubscribe(c) \/ ReceiveAddresses(c) \/ ReceiveFailure(c)
  \/ GiveUp(c) \/ Leave(c)
  \/ Register(c) \/ LoseRegistration(c) \/ ForceRegister(c)
  \/ AcquirePermit(c) \/ LookupEnds(c) \/ LookupTimesOut(c)
  \/ Insert(c) \/ Send(c) \/ Complete(c) \/ TryStaleOrErr(c) \/ DropGuard(c)

Next == Tick \/ \E c \in Callers : ResolveStep(c) \/ BackgroundEnds(c) \/ Cancel(c)

Spec == Init /\ [][Next]_vars

\* The runtime polls what can run; the semaphore is first come, first served, so nobody is
\* overtaken for ever; and a lookup, however late, ends (getaddrinfo has its own limits).
FairSpec ==
  Spec /\ \A c \in Callers : /\ WF_vars(ResolveStep(c))
                             /\ SF_vars(AcquirePermit(c))
                             /\ WF_vars(BackgroundEnds(c))

-----------------------------------------------------------------------------
\* Properties

Owning == {"permit", "lookup", "insert", "send", "complete", "drop"}

\* No orphan flight: a sender in the table belongs to a call for that host that still runs
\* and holds the guard which removes it, however often it was replaced meanwhile.
FlightsOwned ==
  /\ \A h \in Hosts : inflight[h] # NoFlight => host[inflight[h]] = h /\ guard[inflight[h]]
  /\ \A c \in Callers : guard[c] <=> pc[c] \in Owning

\* An owner's cleanup never removes the flight that replaced its own: a sender disappears
\* when its owner is through with it, or when a caller that waited for it gives it up.
ReplacementSurvives ==
  [][\A h \in Hosts : inflight'[h] # inflight[h] =>
       \/ inflight[h] = NoFlight
       \/ ~ guard'[inflight[h]]
       \/ \E c \in Callers : pc[c] \in {"leave", "releave", "force"} /\ pc'[c] # pc[c]]_vars

LookingUp == {c \in Callers : pc[c] = "lookup"}

\* The lookups that go on without a caller: the first, or the first and the second.
LeftBehind == {l \in Callers \X {1, 2} : l[2] <= background[l[1]]}

\* Every permit is free, or held by a lookup: one that is awaited or one left behind.
PermitsAccounted == free + Cardinality(LookingUp) + Cardinality(LeftBehind) = Permits

\* The map stays within max_entries (one entry if that is 0), failures included.
EntriesBounded == Cardinality(Cached(map)) <= Max({MaxEntries, 1})

\* Every resolve comes to an end: a dead owner, a lost race or a slow resolver delay it by
\* the waits of this function only.
Resolved == \A c \in Callers : <>(pc[c] = "done")

-----------------------------------------------------------------------------
\* What the documentation says and the code does not do

\* src/main.rs:1972: successful entries are kept longer, for stale-while-error: no failure
\* takes the place of one that try_stale_or_err could still use.
StaleKept ==
  [][\A h \in Hosts : (StaleHit(h) /\ map'[h] # NoEntry) =>
       map'[h].kind = "ok"]_vars

============================================================================
