------------------------- MODULE ProxyRequestProofs -------------------------
(***************************************************************************)
(* Theorems about ProxyRequest, for every set of requests and keys, every  *)
(* TTL and stale window.                                                   *)
(***************************************************************************)
EXTENDS ProxyRequest, TLAPS

\* What the cache operations do to the store, the clock and the clones keeps their types.
LEMMA CacheTypes ==
  ASSUME Cache!StoreTypeOK,
         NEW c \in Clients, NEW k \in Keys, NEW r \in Requests,
         Cache!Get(c, k) \/ Cache!New(c, k, r) \/ Cache!Put(c) \/ Cache!Tick \/ UNCHANGED cacheVars
  PROVE  Cache!StoreTypeOK'
  <1> USE DEF Cache!StoreTypeOK, Cache!Entry, Cache!Handle
  <1>1. CASE Cache!Get(c, k)
    BY <1>1 DEF Cache!Get, Cache!GetHit, Cache!GetMiss, Cache!CanHit, Cache!Hold, Cache!HoldNothing
  <1>2. CASE Cache!New(c, k, r)
    BY <1>2 DEF Cache!New, Cache!Hold
  <1>3. CASE Cache!Put(c)
    BY <1>3 DEF Cache!Put, Cache!PutAccepted, Cache!PutRefused, Cache!storeVars
  <1>4. CASE Cache!Tick
    BY <1>4 DEF Cache!Tick
  <1>5. CASE UNCHANGED cacheVars
    BY <1>5 DEF cacheVars
  <1> QED
    BY <1>1, <1>2, <1>3, <1>4, <1>5

\* Types. Every variable keeps its type, and a request holds a receiver exactly while it
\* waits: get_file_inner never keeps one across the work it falls through to.
THEOREM TypeCorrect == Spec => []TypeOK
  <1> USE ProxyAssumption
  <1>1. Init => TypeOK
    BY DEF Init, TypeOK, Cache!StoreInit, Cache!StoreTypeOK, Cache!Entry, Cache!Handle, Message,
           Steps, Answers, Unanswered, Absent
  <1>2. TypeOK /\ [Next]_vars => TypeOK'
    <2> SUFFICES ASSUME TypeOK, [Next]_vars
                 PROVE  TypeOK'
      OBVIOUS
    <2> USE DEF TypeOK, flightVars, requestVars, Goto, Return, Reply, Message, Steps, Answers,
                Absent, Handler, Worker, Clients
    <2>1. ASSUME UNCHANGED cacheVars
          PROVE  Cache!StoreTypeOK'
      BY <2>1 DEF cacheVars, Cache!StoreTypeOK
    <2>2. ASSUME NEW r \in Requests, FindNoFlight(r) PROVE TypeOK'
      BY <2>1, <2>2 DEF FindNoFlight
    <2>3. ASSUME NEW r \in Requests, StartFlight(r) PROVE TypeOK'
      BY <2>1, <2>3 DEF StartFlight
    <2>4. ASSUME NEW r \in Requests, StartUnguarded(r) PROVE TypeOK'
      BY <2>1, <2>4 DEF StartUnguarded
    <2>5. ASSUME NEW r \in Requests, SkipCache(r) PROVE TypeOK'
      BY <2>1, <2>5 DEF SkipCache
    <2>6. ASSUME NEW r \in Requests, CheckOk(r) PROVE TypeOK'
      BY <2>1, <2>6 DEF CheckOk
    <2>7. ASSUME NEW r \in Requests, CheckDenied(r) PROVE TypeOK'
      BY <2>1, <2>7 DEF CheckDenied
    <2>8. ASSUME NEW r \in Requests, FetchOk(r) PROVE TypeOK'
      BY <2>1, <2>8 DEF FetchOk
    <2>9. ASSUME NEW r \in Requests, FetchRefused(r) PROVE TypeOK'
      BY <2>1, <2>9 DEF FetchRefused
    <2>10. ASSUME NEW r \in Requests, EncodeRefused(r) PROVE TypeOK'
      BY <2>1, <2>10 DEF EncodeRefused
    <2>11. ASSUME NEW r \in Requests, BodyFailed(r) PROVE TypeOK'
      BY <2>1, <2>11 DEF BodyFailed
    <2>12. ASSUME NEW r \in Requests, Stream(r) PROVE TypeOK'
      BY <2>1, <2>12 DEF Stream
    <2>13. ASSUME NEW r \in Requests, SpawnBlocking(r) PROVE TypeOK'
      BY <2>1, <2>13 DEF SpawnBlocking
    <2>14. ASSUME NEW r \in Requests, TaskAnswered(r) PROVE TypeOK'
      BY <2>1, <2>14 DEF TaskAnswered
    <2>15. ASSUME NEW r \in Requests, TaskTimedOut(r) PROVE TypeOK'
      BY <2>1, <2>15 DEF TaskTimedOut
    <2>16. ASSUME NEW r \in Requests, SkipCompletion(r) PROVE TypeOK'
      BY <2>1, <2>16 DEF SkipCompletion
    <2>17. ASSUME NEW r \in Requests, CompleteRemove(r) PROVE TypeOK'
      BY <2>1, <2>17 DEF CompleteRemove
    <2>18. ASSUME NEW r \in Requests, DropSend(r) PROVE TypeOK'
      BY <2>1, <2>18 DEF DropSend
    <2>19. ASSUME NEW r \in Requests, DropRemove(r) PROVE TypeOK'
      BY <2>1, <2>19 DEF DropRemove
    <2>20. ASSUME NEW r \in Requests, TaskStarts(r) PROVE TypeOK'
      BY <2>1, <2>20 DEF TaskStarts
    <2>21. ASSUME NEW r \in Requests, TaskFails(r) PROVE TypeOK'
      BY <2>1, <2>21 DEF TaskFails
    <2>22. ASSUME NEW r \in Requests, Cancel(r) PROVE TypeOK'
      BY <2>1, <2>22 DEF Cancel, Awaiting
    <2>23. ASSUME NEW r \in Requests, TryJoin(r) PROVE TypeOK'
      <3>1. inflight[key[r]] \in Requests
        BY <2>23 DEF TryJoin
      <3> QED
        BY <2>1, <2>23, <3>1 DEF TryJoin
    <2>24. ASSUME NEW r \in Requests, Hit(r) PROVE TypeOK'
      <3>1. Cache!StoreTypeOK'
        BY <2>24, CacheTypes DEF Hit, Cache!Get
      <3>2. store[key[r]] \in Cache!Entry
        BY <2>24 DEF Hit, Cache!GetHit, Cache!CanHit, Cache!StoreTypeOK
      <3> QED
        BY <2>24, <3>1, <3>2 DEF Hit
    <2>25. ASSUME NEW r \in Requests, Miss(r) PROVE TypeOK'
      <3>1. Cache!StoreTypeOK'
        BY <2>25, CacheTypes DEF Miss, Cache!Get
      <3> QED
        BY <2>25, <3>1 DEF Miss
    <2>26. ASSUME NEW r \in Requests, RecvEntry(r) PROVE TypeOK'
      BY <2>1, <2>26 DEF RecvEntry
    <2>27. ASSUME NEW r \in Requests, FallThrough(r) PROVE TypeOK'
      BY <2>1, <2>27 DEF FallThrough, FlightFailed
    <2>28. ASSUME NEW r \in Requests, StaleAfterFlight(r) PROVE TypeOK'
      <3>1. Cache!CanServeStale(key[r]) => store[key[r]] \in Cache!Entry
        BY DEF Cache!CanServeStale, Cache!StoreTypeOK
      <3> QED
        BY <2>1, <2>28, <3>1 DEF StaleAfterFlight, FlightFailed
    <2>29. ASSUME NEW r \in Requests, FetchFailed(r) PROVE TypeOK'
      <3>1. CASE Return(r, "error", NoEntry)
        BY <2>1, <2>29, <3>1 DEF FetchFailed
      <3>2. CASE Cache!CanServeStale(key[r]) /\ Return(r, "stale", store[key[r]])
        <4>1. store[key[r]] \in Cache!Entry
          BY <3>2 DEF Cache!CanServeStale, Cache!StoreTypeOK
        <4> QED
          BY <2>1, <2>29, <3>2, <4>1 DEF FetchFailed
      <3> QED
        BY <2>29, <3>1, <3>2 DEF FetchFailed, ReturnStaleOr
    <2>30. ASSUME NEW r \in Requests, Rescue(r) PROVE TypeOK'
      <3>1. CASE Reply(r, "own", NoEntry)
        BY <2>1, <2>30, <3>1 DEF Rescue
      <3>2. CASE Rescuable(r) /\ Reply(r, "stale", store[key[r]])
        <4>1. store[key[r]] \in Cache!Entry
          BY <3>2 DEF Rescuable, Cache!CanServeStale, Cache!StoreTypeOK
        <4> QED
          BY <2>1, <2>30, <3>2, <4>1 DEF Rescue
      <3> QED
        BY <2>30, <3>1, <3>2 DEF Rescue
    <2>31. ASSUME NEW r \in Requests, EncodeInline(r) PROVE TypeOK'
      <3>1. Cache!StoreTypeOK'
        BY <2>31, CacheTypes DEF EncodeInline, Cache!Get
      <3> QED
        BY <2>31, <3>1 DEF EncodeInline
    <2>32. ASSUME NEW r \in Requests, PutInline(r) PROVE TypeOK'
      <3>1. Cache!StoreTypeOK'
        BY <2>32, CacheTypes DEF PutInline, Cache!Get
      <3> QED
        BY <2>32, <3>1 DEF PutInline
    <2>33. ASSUME NEW r \in Requests, CompleteGet(r) PROVE TypeOK'
      <3>1. Cache!StoreTypeOK'
        BY <2>33, CacheTypes DEF CompleteGet, Cache!Get
      <3> QED
        BY <2>33, <3>1 DEF CompleteGet
    <2>34. ASSUME NEW r \in Requests, TaskMakesEntry(r) PROVE TypeOK'
      <3>1. Cache!StoreTypeOK'
        BY <2>34, CacheTypes DEF TaskMakesEntry, Cache!Get
      <3> QED
        BY <2>34, <3>1 DEF TaskMakesEntry
    <2>35. ASSUME NEW r \in Requests, TaskPuts(r) PROVE TypeOK'
      <3>1. Cache!StoreTypeOK'
        BY <2>35, CacheTypes DEF TaskPuts, Cache!Get
      <3> QED
        BY <2>35, <3>1 DEF TaskPuts
    <2>36. ASSUME NEW r \in Requests, CompletePut(r) PROVE TypeOK'
      <3>1. Cache!StoreTypeOK'
        BY <2>36, CacheTypes DEF CompletePut, Cache!Get
      <3> QED
        BY <2>36, <3>1 DEF CompletePut
    <2>37. ASSUME NEW r \in Requests, CompleteSend(r) PROVE TypeOK'
      <3>1. held[Handler(r)] # NoEntry => held[Handler(r)].entry \in Cache!Entry
        BY DEF Cache!StoreTypeOK, Cache!Handle
      <3> QED
        BY <2>1, <2>37, <3>1 DEF CompleteSend
    <2>38. ASSUME Tick PROVE TypeOK'
      <3>1. Cache!StoreTypeOK'
        BY <2>38 DEF Tick, Cache!Tick, Cache!StoreTypeOK
      <3> QED
        BY <2>38, <3>1 DEF Tick
    <2>39. CASE UNCHANGED vars
      BY <2>1, <2>39 DEF vars, cacheVars
    <2> QED
      BY ZenonT(60), <2>2, <2>3, <2>4, <2>5, <2>6, <2>7, <2>8, <2>9, <2>10, <2>11, <2>12,
         <2>13, <2>14, <2>15, <2>16, <2>17, <2>18, <2>19, <2>20, <2>21, <2>22, <2>23,
         <2>24, <2>25, <2>26, <2>27, <2>28, <2>29, <2>30, <2>31, <2>32, <2>33, <2>34,
         <2>35, <2>36, <2>37, <2>38, <2>39
      DEF Next, HandlerStep, TaskStep
  <1> QED
    BY <1>1, <1>2, PTL DEF Spec
-----------------------------------------------------------------------------
\* The flights

\* FlightInv is inductive: every step keeps the agreement between how far a request is,
\* its guard, what its channel holds and the table of flights.
LEMMA FlightStep == TypeOK /\ FlightInv /\ [Next]_vars => FlightInv'
  <1> SUFFICES ASSUME TypeOK, FlightInv, [Next]_vars
               PROVE  FlightInv'
    OBVIOUS
  <1> USE ProxyAssumption
  <1> USE DEF TypeOK, FlightInv, flightVars, Goto, Return, Reply, Message, Steps, Absent, Leading
  <1>1. ASSUME NEW r \in Requests, SkipCache(r) PROVE FlightInv'
    BY <1>1 DEF SkipCache
  <1>2. ASSUME NEW r \in Requests, Hit(r) PROVE FlightInv'
    BY <1>2 DEF Hit
  <1>3. ASSUME NEW r \in Requests, Miss(r) PROVE FlightInv'
    BY <1>3 DEF Miss
  <1>4. ASSUME NEW r \in Requests, FindNoFlight(r) PROVE FlightInv'
    BY <1>4 DEF FindNoFlight
  <1>5. ASSUME NEW r \in Requests, TryJoin(r) PROVE FlightInv'
    <2> DEFINE f == inflight[key[r]]
    <2>1. f \in Requests
      BY <1>5 DEF TryJoin
    <2>2. key[f] = key[r] /\ (guard[f] = "armed" \/ pc[f] = "remove")
      BY <1>5, <2>1 DEF TryJoin
    <2>3. pc[f] \notin {"get", "join", "wait", "start"}
      BY <2>1, <2>2
    <2>4. rx'[r].flight = f /\ \A q \in Requests \ {r} : rx'[q] = rx[q]
      BY <1>5 DEF TryJoin
    <2>5. pc' = [pc EXCEPT ![r] = "wait"] /\ pc[r] = "join"
      BY <1>5 DEF TryJoin
    <2>6. UNCHANGED <<inflight, message, guard, key>>
      BY <1>5 DEF TryJoin
    <2> QED
      BY <2>1, <2>2, <2>3, <2>4, <2>5, <2>6
  <1>6. ASSUME NEW r \in Requests, RecvEntry(r) PROVE FlightInv'
    BY <1>6 DEF RecvEntry
  <1>7. ASSUME NEW r \in Requests, StaleAfterFlight(r) PROVE FlightInv'
    BY <1>7 DEF StaleAfterFlight, FlightFailed
  <1>8. ASSUME NEW r \in Requests, FallThrough(r) PROVE FlightInv'
    BY <1>8 DEF FallThrough, FlightFailed
  <1>9. ASSUME NEW r \in Requests, StartFlight(r) PROVE FlightInv'
    <2>1. /\ pc[r] = "start" /\ pc' = [pc EXCEPT ![r] = "check"]
          /\ inflight[key[r]] = NoFlight /\ inflight' = [inflight EXCEPT ![key[r]] = r]
          /\ guard' = [guard EXCEPT ![r] = "armed"]
          /\ UNCHANGED <<message, key, rx>>
      BY <1>9 DEF StartFlight
    <2> QED
      BY <2>1
  <1>10. ASSUME NEW r \in Requests, StartUnguarded(r) PROVE FlightInv'
    BY <1>10 DEF StartUnguarded
  <1>11. ASSUME NEW r \in Requests, CheckOk(r) PROVE FlightInv'
    BY <1>11 DEF CheckOk
  <1>12. ASSUME NEW r \in Requests, CheckDenied(r) PROVE FlightInv'
    BY <1>12 DEF CheckDenied
  <1>13. ASSUME NEW r \in Requests, FetchOk(r) PROVE FlightInv'
    BY <1>13 DEF FetchOk
  <1>14. ASSUME NEW r \in Requests, FetchRefused(r) PROVE FlightInv'
    BY <1>14 DEF FetchRefused
  <1>15. ASSUME NEW r \in Requests, FetchFailed(r) PROVE FlightInv'
    BY <1>15 DEF FetchFailed, ReturnStaleOr
  <1>16. ASSUME NEW r \in Requests, EncodeRefused(r) PROVE FlightInv'
    BY <1>16 DEF EncodeRefused
  <1>17. ASSUME NEW r \in Requests, BodyFailed(r) PROVE FlightInv'
    BY <1>17 DEF BodyFailed
  <1>18. ASSUME NEW r \in Requests, Stream(r) PROVE FlightInv'
    BY <1>18 DEF Stream
  <1>19. ASSUME NEW r \in Requests, EncodeInline(r) PROVE FlightInv'
    BY <1>19 DEF EncodeInline
  <1>20. ASSUME NEW r \in Requests, PutInline(r) PROVE FlightInv'
    BY <1>20 DEF PutInline
  <1>21. ASSUME NEW r \in Requests, SpawnBlocking(r) PROVE FlightInv'
    BY <1>21 DEF SpawnBlocking
  <1>22. ASSUME NEW r \in Requests, TaskAnswered(r) PROVE FlightInv'
    BY <1>22 DEF TaskAnswered
  <1>23. ASSUME NEW r \in Requests, TaskTimedOut(r) PROVE FlightInv'
    BY <1>23 DEF TaskTimedOut
  <1>24. ASSUME NEW r \in Requests, SkipCompletion(r) PROVE FlightInv'
    BY <1>24 DEF SkipCompletion
  <1>25. ASSUME NEW r \in Requests, CompleteGet(r) PROVE FlightInv'
    BY <1>25 DEF CompleteGet
  <1>26. ASSUME NEW r \in Requests, CompletePut(r) PROVE FlightInv'
    BY <1>26 DEF CompletePut
  <1>27. ASSUME NEW r \in Requests, CompleteSend(r) PROVE FlightInv'
    BY <1>27 DEF CompleteSend
  <1>28. ASSUME NEW r \in Requests, CompleteRemove(r) PROVE FlightInv'
    BY <1>28 DEF CompleteRemove
  <1>29. ASSUME NEW r \in Requests, Rescue(r) PROVE FlightInv'
    <2>1. /\ pc[r] = "rescue" /\ pc' = [pc EXCEPT ![r] = "done"]
          /\ guard' = [guard EXCEPT ![r] = "absent"]
      BY <1>29 DEF Rescue
    <2>2. UNCHANGED <<inflight, message, key, rx>>
      BY <1>29 DEF Rescue
    <2>3. guard[r] # "armed"
      BY <2>1
    <2> QED
      BY <2>1, <2>2, <2>3
  <1>30. ASSUME NEW r \in Requests, DropSend(r) PROVE FlightInv'
    BY <1>30 DEF DropSend
  <1>31. ASSUME NEW r \in Requests, DropRemove(r) PROVE FlightInv'
    BY <1>31 DEF DropRemove
  <1>32. ASSUME NEW r \in Requests, TaskStarts(r) PROVE FlightInv'
    BY <1>32 DEF TaskStarts
  <1>33. ASSUME NEW r \in Requests, TaskFails(r) PROVE FlightInv'
    BY <1>33 DEF TaskFails
  <1>34. ASSUME NEW r \in Requests, TaskMakesEntry(r) PROVE FlightInv'
    BY <1>34 DEF TaskMakesEntry
  <1>35. ASSUME NEW r \in Requests, TaskPuts(r) PROVE FlightInv'
    BY <1>35 DEF TaskPuts
  <1>36. ASSUME NEW r \in Requests, Cancel(r) PROVE FlightInv'
    BY <1>36 DEF Cancel, Awaiting
  <1>37. CASE Tick \/ UNCHANGED vars
    BY <1>37 DEF Tick, requestVars, vars
  <1> QED
    BY ZenonT(60), <1>1, <1>2, <1>3, <1>4, <1>5, <1>6, <1>7, <1>8, <1>9, <1>10, <1>11,
       <1>12, <1>13, <1>14, <1>15, <1>16, <1>17, <1>18, <1>19, <1>20, <1>21, <1>22,
       <1>23, <1>24, <1>25, <1>26, <1>27, <1>28, <1>29, <1>30, <1>31, <1>32, <1>33,
       <1>34, <1>35, <1>36, <1>37
    DEF Next, HandlerStep, TaskStep

\* FlightInv holds of every run.
THEOREM FlightsAgree == Spec => []FlightInv
  <1>1. Init => FlightInv
    BY ProxyAssumption DEF Init, FlightInv, Leading
  <1> QED
    BY <1>1, FlightStep, TypeCorrect, PTL DEF Spec

\* FlightOwnership: no path out of get_file_inner leaves a sender in the table, none
\* removes the flight of another request.
THEOREM FlightsOwned == Spec => []FlightOwnership
  <1>1. TypeOK /\ FlightInv => FlightOwnership
    <2> SUFFICES ASSUME TypeOK, FlightInv
                 PROVE  FlightOwnership
      OBVIOUS
    <2> USE ProxyAssumption DEF TypeOK, FlightInv, Leading
    <2>1. ASSUME NEW k \in Keys, inflight[k] # NoFlight
          PROVE  /\ key[inflight[k]] = k
                 /\ guard[inflight[k]] # "absent"
                 /\ pc[inflight[k]] \in Leading \cup {"remove", "dropremove"}
      <3>1. inflight[k] \in Requests
        BY <2>1
      <3>2. key[inflight[k]] = k /\ (guard[inflight[k]] = "armed" \/ pc[inflight[k]] = "remove")
        BY <2>1
      <3> QED
        BY <3>1, <3>2
    <2>2. \A r \in Requests : /\ guard[r] = "armed" => inflight[key[r]] = r
                              /\ pc[r] = "remove" => inflight[key[r]] = r
      OBVIOUS
    <2> QED
      BY <2>1, <2>2 DEF FlightOwnership
  <1> QED
    BY <1>1, FlightsAgree, TypeCorrect, PTL

\* WaitersAreServed: the receiver of a waiting request is never forgotten; either
\* something for it is there, or its leader is on the way to sending or dropping.
THEOREM NoLostWakeup == Spec => []WaitersAreServed
  <1>1. TypeOK /\ FlightInv => WaitersAreServed
    <2> SUFFICES ASSUME TypeOK, FlightInv
                 PROVE  WaitersAreServed
      OBVIOUS
    <2> USE ProxyAssumption DEF TypeOK, FlightInv, Leading
    <2>1. ASSUME NEW r \in Requests, pc[r] = "wait", NEW f, f = rx[r].flight
          PROVE  /\ f \in Requests \ {r}
                 /\ key[f] = key[r]
                 /\ pc[f] \notin {"get", "join", "wait", "start"}
      BY <2>1
    <2>2. ASSUME NEW f \in Requests, guard[f] = "absent"
          PROVE  Closed(f)
      <3>1. ASSUME NEW k \in Keys, inflight[k] = f PROVE FALSE
        <4>1. pc[f] = "remove"
          BY <3>1, <2>2
        <4> QED
          BY <4>1, <2>2
      <3> QED
        BY <3>1, <2>2 DEF Closed
    <2>3. ASSUME NEW f \in Requests, guard[f] # "absent"
          PROVE  pc[f] # "done"
      <3>1. guard[f] \in {"armed", "completed"}
        BY <2>3
      <3>2. pc[f] \in Leading \cup {"dropremove", "remove", "rescue"}
        BY <2>3, <3>1
      <3> QED
        BY <3>2
    <2> QED
      BY <2>1, <2>2, <2>3 DEF WaitersAreServed
  <1> QED
    BY <1>1, FlightsAgree, TypeCorrect, PTL

-----------------------------------------------------------------------------
\* The keys

\* The cache never moves an entry to another key, whatever it is asked for one's own.
LEMMA CacheKeepsKeys ==
  ASSUME TypeOK, EntriesKeyed, UNCHANGED key,
         NEW r \in Requests, NEW c \in {Handler(r), Worker(r)},
         Cache!Get(c, key[r]) \/ Cache!New(c, key[r], r) \/ Cache!Put(c) \/ Cache!Tick
           \/ UNCHANGED cacheVars
  PROVE  EntriesKeyed'
  <1> USE DEF TypeOK, EntriesKeyed, Cache!StoreTypeOK, Cache!Entry, Cache!Handle
  <1>0. c \in Clients /\ c[1] = r /\ key[r] \in Keys
    BY DEF Clients, Handler, Worker
  <1>1. CASE Cache!GetHit(c, key[r])
    BY <1>0, <1>1 DEF Cache!GetHit, Cache!CanHit, Cache!Hold
  <1>2. CASE Cache!GetMiss(c, key[r])
    BY <1>0, <1>2 DEF Cache!GetMiss, Cache!HoldNothing
  <1>3. CASE Cache!New(c, key[r], r)
    BY <1>0, <1>3 DEF Cache!New, Cache!Hold
  <1>4. CASE Cache!Put(c)
    BY <1>0, <1>4 DEF Cache!Put, Cache!PutAccepted, Cache!PutRefused, Cache!storeVars
  <1>5. CASE Cache!Tick \/ UNCHANGED cacheVars
    BY <1>5 DEF Cache!Tick, cacheVars
  <1> QED
    BY <1>1, <1>2, <1>3, <1>4, <1>5 DEF Cache!Get

\* KeyInv is inductive relative to FlightInv, which says that a joined flight is one of the
\* same key.
LEMMA KeyStep == TypeOK /\ FlightInv /\ KeyInv /\ [Next]_vars => KeyInv'
  <1> SUFFICES ASSUME TypeOK, FlightInv, KeyInv, [Next]_vars
               PROVE  KeyInv'
    OBVIOUS
  <1> USE ProxyAssumption
  <1> USE DEF KeyInv, flightVars, Goto, Return, Reply
  <1>1. ASSUME UNCHANGED <<cacheVars, key>> PROVE EntriesKeyed'
    BY <1>1 DEF cacheVars, EntriesKeyed
  <1>2. ASSUME UNCHANGED <<message, key, answer>> PROVE MessagesKeyed' /\ AnswersMatchKey'
    BY <1>2 DEF MessagesKeyed, AnswersMatchKey
  <1>3. ASSUME NEW r \in Requests, UNCHANGED <<message, key>>,
               NEW how, Reply(r, how, NoEntry)
        PROVE  MessagesKeyed' /\ AnswersMatchKey'
    BY <1>3 DEF MessagesKeyed, AnswersMatchKey, TypeOK, Answers
  <1>4. ASSUME NEW r \in Requests, UNCHANGED <<message, key>>,
               store[key[r]] # NoEntry, NEW how, Reply(r, how, store[key[r]])
        PROVE  MessagesKeyed' /\ AnswersMatchKey'
    BY <1>4 DEF MessagesKeyed, AnswersMatchKey, TypeOK, Answers, EntriesKeyed
  <1>5. ASSUME NEW r \in Requests, SkipCache(r) PROVE KeyInv'
    BY <1>1, <1>2, <1>5 DEF SkipCache
  <1>6. ASSUME NEW r \in Requests, Hit(r) PROVE KeyInv'
    BY <1>4, <1>6, CacheKeepsKeys DEF Hit, Cache!Get, Cache!GetHit, Cache!CanHit
  <1>7. ASSUME NEW r \in Requests, Miss(r) PROVE KeyInv'
    BY <1>1, <1>2, <1>7, CacheKeepsKeys DEF Miss, Cache!Get
  <1>8. ASSUME NEW r \in Requests, FindNoFlight(r) PROVE KeyInv'
    BY <1>1, <1>2, <1>8 DEF FindNoFlight
  <1>9. ASSUME NEW r \in Requests, TryJoin(r) PROVE KeyInv'
    BY <1>1, <1>2, <1>9 DEF TryJoin
  <1>10. ASSUME NEW r \in Requests, RecvEntry(r) PROVE KeyInv'
    <2>1. EntriesKeyed'
      BY <1>1, <1>10 DEF RecvEntry
    <2>2. MessagesKeyed'
      BY <1>10 DEF RecvEntry, MessagesKeyed
    <2>3. AnswersMatchKey'
      BY <1>10 DEF RecvEntry, Received, AnswersMatchKey, MessagesKeyed, TypeOK, Answers, FlightInv
    <2> QED
      BY <2>1, <2>2, <2>3
  <1>11. ASSUME NEW r \in Requests, StaleAfterFlight(r) PROVE KeyInv'
    BY <1>1, <1>3, <1>4, <1>11 DEF StaleAfterFlight, FlightFailed, Cache!CanServeStale
  <1>12. ASSUME NEW r \in Requests, FallThrough(r) PROVE KeyInv'
    BY <1>1, <1>2, <1>12 DEF FallThrough, FlightFailed
  <1>13. ASSUME NEW r \in Requests, StartFlight(r) PROVE KeyInv'
    BY <1>1, <1>2, <1>13 DEF StartFlight
  <1>14. ASSUME NEW r \in Requests, StartUnguarded(r) PROVE KeyInv'
    BY <1>1, <1>2, <1>14 DEF StartUnguarded
  <1>15. ASSUME NEW r \in Requests, CheckOk(r) PROVE KeyInv'
    BY <1>1, <1>2, <1>15 DEF CheckOk
  <1>16. ASSUME NEW r \in Requests, CheckDenied(r) PROVE KeyInv'
    BY <1>1, <1>3, <1>16 DEF CheckDenied
  <1>17. ASSUME NEW r \in Requests, FetchOk(r) PROVE KeyInv'
    BY <1>1, <1>2, <1>17 DEF FetchOk
  <1>18. ASSUME NEW r \in Requests, FetchRefused(r) PROVE KeyInv'
    BY <1>1, <1>3, <1>18 DEF FetchRefused
  <1>19. ASSUME NEW r \in Requests, FetchFailed(r) PROVE KeyInv'
    BY <1>1, <1>3, <1>4, <1>19 DEF FetchFailed, ReturnStaleOr, Cache!CanServeStale
  <1>20. ASSUME NEW r \in Requests, EncodeRefused(r) PROVE KeyInv'
    BY <1>1, <1>2, <1>20 DEF EncodeRefused
  <1>21. ASSUME NEW r \in Requests, BodyFailed(r) PROVE KeyInv'
    BY <1>1, <1>2, <1>21 DEF BodyFailed
  <1>22. ASSUME NEW r \in Requests, Stream(r) PROVE KeyInv'
    BY <1>1, <1>2, <1>22 DEF Stream
  <1>23. ASSUME NEW r \in Requests, EncodeInline(r) PROVE KeyInv'
    BY <1>1, <1>2, <1>23, CacheKeepsKeys DEF EncodeInline
  <1>24. ASSUME NEW r \in Requests, PutInline(r) PROVE KeyInv'
    BY <1>1, <1>2, <1>24, CacheKeepsKeys DEF PutInline
  <1>25. ASSUME NEW r \in Requests, SpawnBlocking(r) PROVE KeyInv'
    BY <1>1, <1>2, <1>25 DEF SpawnBlocking
  <1>26. ASSUME NEW r \in Requests, TaskAnswered(r) PROVE KeyInv'
    BY <1>1, <1>2, <1>26 DEF TaskAnswered
  <1>27. ASSUME NEW r \in Requests, TaskTimedOut(r) PROVE KeyInv'
    BY <1>1, <1>2, <1>27 DEF TaskTimedOut
  <1>28. ASSUME NEW r \in Requests, SkipCompletion(r) PROVE KeyInv'
    BY <1>1, <1>2, <1>28 DEF SkipCompletion
  <1>29. ASSUME NEW r \in Requests, CompleteGet(r) PROVE KeyInv'
    BY <1>1, <1>2, <1>29, CacheKeepsKeys DEF CompleteGet
  <1>30. ASSUME NEW r \in Requests, CompletePut(r) PROVE KeyInv'
    BY <1>1, <1>2, <1>30, CacheKeepsKeys DEF CompletePut
  <1>31. ASSUME NEW r \in Requests, CompleteSend(r) PROVE KeyInv'
    <2>1. EntriesKeyed'
      BY <1>1, <1>31 DEF CompleteSend
    <2>2. AnswersMatchKey'
      BY <1>31 DEF CompleteSend, AnswersMatchKey
    <2>3. MessagesKeyed'
      BY <1>31 DEF CompleteSend, MessagesKeyed, EntriesKeyed, TypeOK, Clients, Handler,
         Cache!StoreTypeOK, Cache!Handle, Cache!Entry
    <2> QED
      BY <2>1, <2>2, <2>3
  <1>32. ASSUME NEW r \in Requests, CompleteRemove(r) PROVE KeyInv'
    BY <1>1, <1>2, <1>32 DEF CompleteRemove
  <1>33. ASSUME NEW r \in Requests, Rescue(r) PROVE KeyInv'
    BY <1>1, <1>3, <1>4, <1>33 DEF Rescue, Cache!CanServeStale, Rescuable
  <1>34. ASSUME NEW r \in Requests, DropSend(r) PROVE KeyInv'
    <2>1. EntriesKeyed'
      BY <1>1, <1>34 DEF DropSend
    <2>2. AnswersMatchKey'
      BY <1>34 DEF DropSend, AnswersMatchKey
    <2>3. MessagesKeyed'
      BY <1>34 DEF DropSend, MessagesKeyed, EntriesKeyed, TypeOK, Clients, Handler,
         Cache!StoreTypeOK, Cache!Handle, Cache!Entry
    <2> QED
      BY <2>1, <2>2, <2>3
  <1>35. ASSUME NEW r \in Requests, DropRemove(r) PROVE KeyInv'
    BY <1>1, <1>2, <1>35 DEF DropRemove
  <1>36. ASSUME NEW r \in Requests, TaskStarts(r) PROVE KeyInv'
    BY <1>1, <1>2, <1>36 DEF TaskStarts
  <1>37. ASSUME NEW r \in Requests, TaskFails(r) PROVE KeyInv'
    BY <1>1, <1>2, <1>37 DEF TaskFails
  <1>38. ASSUME NEW r \in Requests, TaskMakesEntry(r) PROVE KeyInv'
    BY <1>1, <1>2, <1>38, CacheKeepsKeys DEF TaskMakesEntry
  <1>39. ASSUME NEW r \in Requests, TaskPuts(r) PROVE KeyInv'
    BY <1>1, <1>2, <1>39, CacheKeepsKeys DEF TaskPuts
  <1>40. ASSUME NEW r \in Requests, Cancel(r) PROVE KeyInv'
    BY <1>1, <1>3, <1>40 DEF Cancel, Awaiting
  <1>41. ASSUME Tick PROVE KeyInv'
    BY <1>2, <1>41 DEF Tick, requestVars, Cache!Tick, EntriesKeyed
  <1>42. ASSUME UNCHANGED vars PROVE KeyInv'
    BY <1>1, <1>2, <1>42 DEF vars, cacheVars
  <1> QED
    BY ZenonT(60), <1>5, <1>6, <1>7, <1>8, <1>9, <1>10, <1>11, <1>12, <1>13, <1>14, <1>15,
       <1>16, <1>17, <1>18, <1>19, <1>20, <1>21, <1>22, <1>23, <1>24, <1>25, <1>26,
       <1>27, <1>28, <1>29, <1>30, <1>31, <1>32, <1>33, <1>34, <1>35, <1>36, <1>37,
       <1>38, <1>39, <1>40, <1>41, <1>42
    DEF Next, HandlerStep, TaskStep

\* AnswersMatchKey: no response is ever made of an entry built for another cache key,
\* whether it came from the store, from a flight or from a stale entry.
THEOREM AnswersKeyed == Spec => []AnswersMatchKey
  <1>1. Init => KeyInv
    BY ProxyAssumption DEF Init, KeyInv, EntriesKeyed, MessagesKeyed, AnswersMatchKey, Unanswered,
       Cache!StoreInit
  <1>2. KeyInv => AnswersMatchKey
    BY DEF KeyInv
  <1> QED
    BY <1>1, <1>2, KeyStep, TypeCorrect, FlightsAgree, PTL DEF Spec

-----------------------------------------------------------------------------
\* Refinement

\* RefinesSingleflight: with every await, failure and cancellation of get_file_inner, a
\* key has one leader at a time, who announces one outcome before the key is free again.
THEOREM ImplementsSingleflight == Spec => RefinesSingleflight
  <1> USE ProxyAssumption
  <1>1. Init => Flights!Init
    BY DEF Init, Flights!Init
  <1>2. TypeOK /\ FlightInv /\ [Next]_vars => [Flights!Next]_(Flights!flightTable)
    <2> SUFFICES ASSUME TypeOK, FlightInv, [Next]_vars
                 PROVE  [Flights!Next]_(Flights!flightTable)
      OBVIOUS
    <2> USE DEF Goto, Flights!flightTable
    <2>1. ASSUME UNCHANGED <<inflight, message>>
          PROVE  UNCHANGED Flights!flightTable
      BY <2>1
    <2>2. ASSUME NEW r \in Requests, StartFlight(r) PROVE Flights!Next
      <3>1. /\ key[r] \in Keys /\ inflight[key[r]] = NoFlight
            /\ inflight' = [inflight EXCEPT ![key[r]] = r]
            /\ UNCHANGED message
        BY <2>2 DEF StartFlight, TypeOK
      <3>2. message[r].kind = "nothing"
        BY <2>2 DEF StartFlight, FlightInv
      <3>3. \A k \in Keys : inflight[k] # r
        <4>1. pc[r] = "start"
          BY <2>2 DEF StartFlight
        <4>2. guard[r] # "armed" /\ pc[r] # "remove"
          BY <4>1 DEF FlightInv, Leading
        <4>3. r # NoFlight
          BY ProxyAssumption
        <4> QED
          BY <4>2, <4>3 DEF FlightInv
      <3>4. Flights!Lead(r, key[r])
        BY <3>1, <3>2, <3>3 DEF Flights!Lead
      <3> QED
        BY <3>1, <3>4 DEF Flights!Next
    <2>3. ASSUME NEW r \in Requests, CompleteSend(r) \/ DropSend(r) PROVE Flights!Next
      <3>a. pc[r] \in {"send", "dropsend"} /\ UNCHANGED inflight
        BY <2>3 DEF CompleteSend, DropSend
      <3>b. guard[r] = "armed" /\ message[r].kind = "nothing"
        BY <3>a DEF FlightInv
      <3>1. /\ key[r] \in Keys /\ inflight[key[r]] = r /\ message[r].kind = "nothing"
            /\ UNCHANGED inflight
        BY <3>a, <3>b DEF FlightInv, TypeOK
      <3>2. PICK kind \in {"none", "entry"} :
               /\ message'[r].kind = kind
               /\ \A q \in Requests \ {r} : message'[q] = message[q]
        BY <2>3 DEF CompleteSend, DropSend, TypeOK
      <3>3. [q \in Requests |-> message'[q].kind]
              = [[q \in Requests |-> message[q].kind] EXCEPT ![r] = kind]
        BY <3>2
      <3>4. \E k \in Keys : Flights!Announce(r, k)
        BY <3>1, <3>2, <3>3 DEF Flights!Announce
      <3> QED
        BY <3>4 DEF Flights!Next
    <2>4. ASSUME NEW r \in Requests, CompleteRemove(r) \/ DropRemove(r) PROVE Flights!Next
      <3>a. /\ pc[r] \in {"remove", "dropremove"}
            /\ inflight' = [inflight EXCEPT ![key[r]] = NoFlight]
            /\ UNCHANGED message
        BY <2>4 DEF CompleteRemove, DropRemove
      <3>b. message[r].kind # "nothing" /\ (guard[r] = "armed" \/ pc[r] = "remove")
        BY <3>a DEF FlightInv
      <3>1. /\ key[r] \in Keys /\ inflight[key[r]] = r /\ message[r].kind # "nothing"
            /\ inflight' = [inflight EXCEPT ![key[r]] = NoFlight]
            /\ UNCHANGED message
        BY <3>a, <3>b DEF FlightInv, TypeOK
      <3>2. Flights!Release(r, key[r])
        BY <3>1 DEF Flights!Release
      <3> QED
        BY <3>1, <3>2 DEF Flights!Next
    <2>5. ASSUME NEW r \in Requests,
             SkipCache(r) \/ Hit(r) \/ Miss(r) \/ FindNoFlight(r) \/ TryJoin(r) \/
               RecvEntry(r) \/ StaleAfterFlight(r) \/ FallThrough(r) \/ StartUnguarded(r) \/
               CheckOk(r) \/ CheckDenied(r) \/ FetchOk(r) \/ FetchRefused(r) \/
               FetchFailed(r) \/ EncodeRefused(r) \/ BodyFailed(r) \/ Stream(r) \/
               EncodeInline(r) \/ PutInline(r) \/ SpawnBlocking(r) \/ TaskAnswered(r) \/
               TaskTimedOut(r) \/ SkipCompletion(r) \/ CompleteGet(r) \/ CompletePut(r) \/
               Rescue(r) \/ TaskStarts(r) \/ TaskFails(r) \/ TaskMakesEntry(r) \/
               TaskPuts(r) \/ Cancel(r)
          PROVE  UNCHANGED <<inflight, message>>
      BY <2>5 DEF flightVars, SkipCache, Hit, Miss, FindNoFlight, TryJoin, RecvEntry, StaleAfterFlight,
                  FallThrough, StartUnguarded, CheckOk, CheckDenied, FetchOk, FetchRefused,
                  FetchFailed, EncodeRefused, BodyFailed, Stream, EncodeInline, PutInline,
                  SpawnBlocking, TaskAnswered, TaskTimedOut, SkipCompletion, CompleteGet,
                  CompletePut, Rescue, TaskStarts, TaskFails, TaskMakesEntry, TaskPuts, Cancel,
                  FlightFailed
    <2>6. ASSUME Tick \/ UNCHANGED vars PROVE UNCHANGED <<inflight, message>>
      BY <2>6 DEF Tick, flightVars, vars
    <2>7. ASSUME NEW r \in Requests, HandlerStep(r) \/ TaskStep(r) \/ Cancel(r),
                 ~ UNCHANGED <<inflight, message>>
          PROVE  \/ StartFlight(r)
                 \/ CompleteSend(r) \/ DropSend(r)
                 \/ CompleteRemove(r) \/ DropRemove(r)
      BY SMTT(60), <2>5, <2>7 DEF HandlerStep, TaskStep
    <2> QED
      BY <2>1, <2>2, <2>3, <2>4, <2>6, <2>7 DEF Next
  <1> QED
    BY <1>1, <1>2, FlightsAgree, TypeCorrect, PTL DEF Spec, RefinesSingleflight, Flights!Spec
=============================================================================
