------------------------ MODULE ResourcePermitsProofs ------------------------
(***************************************************************************)
(* Theorems about ResourcePermits for any number of requests and permits:  *)
(* what is held where, that no semaphore is overdrawn, and that the queues *)
(* hold exactly who waits.                                                 *)
(***************************************************************************)
EXTENDS ResourcePermits, SequenceTheorems, FunctionTheorems, FiniteSetTheorems, TLAPS

\* Types of what the permits of a request depend on.
HoldingTypes ==
  /\ held \in [Semaphores -> [Requests -> Nat]]
  /\ taskCpu \in [Requests -> 0..1]
  /\ pc \in [Requests -> Awaiting \cup {"idle", "done"}]
  /\ kind \in [Requests -> Kinds]
  /\ need \in [Requests -> Needs]
  /\ thread \in [Requests -> {"none", "queued", "running", "ended"}]

\* How far the handler is decides what it may hold, and whether there can be a task.
Held(r) ==
  /\ pc[r] \in {"idle", "download", "done"} => \A s \in Semaphores : held[s][r] = 0
  /\ held["download"][r] # 0 => pc[r] \in {"fetch", "budget", "load"}
  /\ held["budget"][r] # 0 => pc[r] \in {"load", "cpu", "encode"}
  /\ held["cpu"][r] # 0 => pc[r] = "encode"
  /\ pc[r] \in {"idle", "download", "fetch", "budget", "load", "cpu"} => thread[r] = "none"
  /\ taskCpu[r] = 1 <=> kind[r] = "image" /\ thread[r] \in {"queued", "running"}

Inv == HoldingTypes /\ \A r \in Requests : Held(r)

LEMMA InvInit == Init => Inv
  BY PermitsAssumption DEF Init, Inv, HoldingTypes, Held, Semaphores, Awaiting, Kinds

LEMMA InvNext ==
  ASSUME Inv, [Next]_vars
  PROVE  Inv'
  <1> USE PermitsAssumption DEF Inv, HoldingTypes, Held, Semaphores, Awaiting
  <1>1. ASSUME NEW r \in Requests, Arrive(r) PROVE Inv'
    BY <1>1 DEF Arrive, Wait
  <1>2. ASSUME NEW r \in Requests, AcquireDownload(r) PROVE Inv'
    BY <1>2 DEF AcquireDownload, Granted, Hold, Asks
  <1>3. ASSUME NEW r \in Requests,
               WaitTimesOut(r) \/ FetchRefused(r) \/ Stream(r) \/ LoadIsTheEnd(r) \/ EncodeAnswered(r)
               \/ Cancel(r)
        PROVE  Inv'
    BY <1>3
    DEF WaitTimesOut, FetchRefused, Stream, LoadIsTheEnd, EncodeAnswered, Cancel, Finish, ReleaseAll
  <1>4. ASSUME NEW r \in Requests, StreamEnds(r) PROVE Inv'
    BY <1>4 DEF StreamEnds
  <1>5. ASSUME NEW r \in Requests, Decodable(r) PROVE Inv'
    BY <1>5 DEF Decodable, Wait, Kinds
  <1>6. ASSUME NEW r \in Requests, AcquireBudget(r) PROVE Inv'
    <2>1. pc[r] = "budget" /\ pc' = [pc EXCEPT ![r] = "load"] /\ UNCHANGED <<taskCpu, kind, need, thread>>
      BY <1>6 DEF AcquireBudget, Granted
    <2>2. Asks("budget", r) \in Nat /\ held' = [held EXCEPT !["budget"][r] = Asks("budget", r)]
      BY <1>6 DEF AcquireBudget, Hold, Asks
    <2> QED
      BY <2>1, <2>2
  <1>7. ASSUME NEW r \in Requests, LoadEnds(r) PROVE Inv'
    BY <1>7 DEF LoadEnds, ReleaseDownload, Wait
  <1>8. ASSUME NEW r \in Requests, AcquireCpu(r) PROVE Inv'
    BY <1>8 DEF AcquireCpu, Granted, Hold, Asks
  <1>9. ASSUME NEW r \in Requests, EncodeTimesOut(r) PROVE Inv'
    BY <1>9 DEF EncodeTimesOut, Finish, ReleaseAll
  <1>10. ASSUME NEW r \in Requests, ThreadStarts(r) \/ ThreadEnds(r) PROVE Inv'
    BY <1>10 DEF ThreadStarts, ThreadEnds
  <1>11. CASE UNCHANGED vars
    BY <1>11 DEF vars
  <1> QED
    BY <1>1, <1>2, <1>3, <1>4, <1>5, <1>6, <1>7, <1>8, <1>9, <1>10, <1>11
    DEF Next, Proceed, TimeOut, ThreadStep

THEOREM InvAlways == Spec => []Inv
  BY InvInit, InvNext, PTL DEF Spec

\* A request that waits for a CPU permit, or encodes, holds no download permit
\* (drop(self.dl_permit.take()), main.rs:3650; README.md:359).
THEOREM DownloadsReleased == Spec => []DownloadsNotHeldByEncoding
  <1>1. Inv => DownloadsNotHeldByEncoding
    BY DEF Inv, Held, HoldingTypes, Semaphores, DownloadsNotHeldByEncoding
  <1> QED
    BY <1>1, InvAlways, PTL

\* A request that is through holds nothing, whichever exit it took, and the CPU permit of an
\* image lives exactly as long as its task (main.rs:3735).
THEOREM NothingKept == Spec => []PermitsReturned
  <1>1. Inv => PermitsReturned
    BY DEF Inv, Held, PermitsReturned
  <1> QED
    BY <1>1, InvAlways, PTL

-----------------------------------------------------------------------------
\* Permits that are out

\* The permits that are out when every request has as many as the function use says.
TakenBy(use) == UNION {{r} \X (1 .. use[r]) : r \in Requests}

\* The permits of one request.
LEMMA Share ==
  ASSUME NEW r, NEW n \in Nat
  PROVE  IsFiniteSet({r} \X (1 .. n)) /\ Cardinality({r} \X (1 .. n)) = n
  <1>1. IsFiniteSet(1 .. n) /\ Cardinality(1 .. n) = n
    BY FS_Interval, 1 \in Int
  <1>2. IsFiniteSet({r}) /\ Cardinality({r}) = 1
    BY FS_Singleton
  <1>3. /\ IsFiniteSet({r} \X (1 .. n))
        /\ Cardinality({r} \X (1 .. n)) = Cardinality({r}) * Cardinality(1 .. n)
    BY <1>1, <1>2, FS_Product
  <1> QED
    BY <1>1, <1>2, <1>3

LEMMA TakenFinite ==
  ASSUME NEW use \in [Requests -> Nat]
  PROVE  IsFiniteSet(TakenBy(use)) /\ Cardinality(TakenBy(use)) \in Nat
  <1> DEFINE shares == {{r} \X (1 .. use[r]) : r \in Requests}
             share == [r \in Requests |-> {r} \X (1 .. use[r])]
  <1>1. share \in Surjection(Requests, shares)
    BY DEF Surjection
  <1>2. IsFiniteSet(shares)
    BY <1>1, PermitsAssumption, FS_Surjection
  <1>3. \A t \in shares : IsFiniteSet(t)
    <2>1. ASSUME NEW r \in Requests
          PROVE  IsFiniteSet({r} \X (1 .. use[r]))
      <3>1. use[r] \in Nat
        OBVIOUS
      <3> QED
        BY <3>1, Share
    <2> QED
      BY <2>1
  <1>4. IsFiniteSet(UNION shares)
    BY <1>2, <1>3, FS_UNION
  <1> QED
    BY <1>4, FS_CardinalityType DEF TakenBy

\* If nobody has more than before, no more permits are out.
LEMMA NobodyTakes ==
  ASSUME NEW use \in [Requests -> Nat], NEW after \in [Requests -> Nat],
         \A r \in Requests : after[r] <= use[r]
  PROVE  Cardinality(TakenBy(after)) <= Cardinality(TakenBy(use))
  <1>1. TakenBy(after) \subseteq TakenBy(use)
    BY DEF TakenBy
  <1> QED
    BY <1>1, TakenFinite, FS_Subset

\* If nobody but r has more than before, the permits of r are what is added at most.
LEMMA OneTakes ==
  ASSUME NEW use \in [Requests -> Nat], NEW after \in [Requests -> Nat], NEW r \in Requests,
         \A q \in Requests \ {r} : after[q] <= use[q]
  PROVE  Cardinality(TakenBy(after)) <= Cardinality(TakenBy(use)) + after[r]
  <1> DEFINE share == {r} \X (1 .. after[r])
  <1>1. TakenBy(after) \subseteq TakenBy(use) \cup share
    BY DEF TakenBy
  <1>2. IsFiniteSet(share) /\ Cardinality(share) = after[r]
    BY Share
  <1>3. /\ IsFiniteSet(TakenBy(use) \cup share)
        /\ Cardinality(TakenBy(use) \cup share)
             = Cardinality(TakenBy(use)) + Cardinality(share) - Cardinality(TakenBy(use) \cap share)
    BY <1>2, TakenFinite, FS_Union
  <1>4. Cardinality(TakenBy(use) \cap share) \in Nat
    BY TakenFinite, FS_Intersection, FS_CardinalityType
  <1>5. Cardinality(TakenBy(after)) <= Cardinality(TakenBy(use) \cup share)
    BY <1>1, <1>3, FS_Subset
  <1> HIDE DEF share
  <1> QED
    BY <1>2, <1>3, <1>4, <1>5, TakenFinite

NotOverdrawn == \A s \in Semaphores : InUse(s) <= Capacity[s]

LEMMA CapacityTyped ==
  ASSUME NEW s \in Semaphores
  PROVE  Capacity[s] \in Nat
  BY PermitsAssumption DEF Semaphores, Capacity

\* Only the head of a queue is given permits, only those it asks for, and only free ones.
LEMMA NotOverdrawnNext ==
  ASSUME Inv, NotOverdrawn, [Next]_vars
  PROVE  NotOverdrawn'
  <1> SUFFICES ASSUME NEW s \in Semaphores
               PROVE  InUse(s)' <= Capacity[s]
    BY DEF NotOverdrawn, Capacity
  <1> DEFINE use == [r \in Requests |-> Uses(s, r)]
             after == [r \in Requests |-> Uses(s, r)']
  <1>1. use \in [Requests -> Nat] /\ after \in [Requests -> Nat]
    BY InvNext DEF Inv, HoldingTypes, Uses
  <1>2. InUse(s) = Cardinality(TakenBy(use)) /\ InUse(s)' = Cardinality(TakenBy(after))
    <2>1. Taken(s) = TakenBy(use) /\ Taken(s)' = TakenBy(after)
      BY DEF Taken, TakenBy
    <2> QED
      BY <2>1 DEF InUse
  <1>3. InUse(s) \in Nat /\ InUse(s)' \in Nat /\ InUse(s) <= Capacity[s] /\ Capacity[s] \in Nat
    BY <1>1, <1>2, TakenFinite, CapacityTyped DEF NotOverdrawn
  <1>4. ASSUME \A r \in Requests : Uses(s, r)' <= Uses(s, r)
        PROVE  InUse(s)' <= Capacity[s]
    <2>1. InUse(s)' <= InUse(s)
      BY <1>1, <1>2, <1>4, NobodyTakes
    <2> QED
      BY <1>3, <2>1
  <1>11. ASSUME NEW r \in Requests, Granted(s, r), Uses(s, r)' = Asks(s, r),
                \A q \in Requests \ {r} : Uses(s, q)' <= Uses(s, q)
         PROVE  InUse(s)' <= Capacity[s]
    <2>1. Asks(s, r) \in Nat /\ InUse(s) + Asks(s, r) <= Capacity[s]
      BY <1>11, PermitsAssumption DEF Granted, Asks, Inv, HoldingTypes
    <2>2. InUse(s)' <= InUse(s) + Asks(s, r)
      <3>1. after[r] = Asks(s, r)
        BY <1>11
      <3>2. \A q \in Requests \ {r} : after[q] <= use[q]
        BY <1>11
      <3> HIDE DEF use, after
      <3> QED
        BY <1>1, <1>2, <3>1, <3>2, OneTakes
    <2> QED
      BY <1>3, <2>1, <2>2
  <1> USE DEF Inv, HoldingTypes, Uses, Semaphores, Hold
  <1>5. ASSUME NEW r \in Requests, AcquireDownload(r) \/ AcquireBudget(r)
        PROVE  InUse(s)' <= Capacity[s]
    <2>1. CASE s = "download" /\ AcquireDownload(r)
      BY <1>11, <2>1, PermitsAssumption DEF AcquireDownload, Asks
    <2>2. CASE s = "budget" /\ AcquireBudget(r)
      <3>1. held' = [held EXCEPT !["budget"][r] = need[r]] /\ UNCHANGED taskCpu /\ Granted(s, r)
        BY <2>2 DEF AcquireBudget, Asks
      <3>2. Uses(s, r)' = Asks(s, r)
        <4>1. held'["budget"][r] = need[r] /\ need[r] \in Nat
          BY <3>1, PermitsAssumption
        <4> QED
          BY <2>2, <4>1 DEF Asks
      <3> QED
        BY <1>11, <2>2, <3>1, <3>2
    <2>3. CASE s # "download" /\ AcquireDownload(r)
      BY <1>4, <2>3 DEF AcquireDownload
    <2>4. CASE s # "budget" /\ AcquireBudget(r)
      BY <1>4, <2>4 DEF AcquireBudget
    <2> QED
      BY <1>5, <2>1, <2>2, <2>3, <2>4
  <1>6. ASSUME NEW r \in Requests, AcquireCpu(r)
        PROVE  InUse(s)' <= Capacity[s]
    <2>1. CASE s = "cpu"
      <3>1. held["cpu"][r] = 0 /\ taskCpu[r] = 0
        BY <1>6 DEF AcquireCpu, Granted, Held
      <3>2. Uses(s, r)' = Asks(s, r)
        BY <1>6, <2>1, <3>1 DEF AcquireCpu, Asks
      <3> QED
        BY <1>11, <1>6, <2>1, <3>2 DEF AcquireCpu
    <2>2. CASE s # "cpu"
      BY <1>4, <1>6, <2>2 DEF AcquireCpu
    <2> QED
      BY <2>1, <2>2
  <1>7. ASSUME NEW r \in Requests,
               WaitTimesOut(r) \/ FetchRefused(r) \/ Stream(r) \/ LoadIsTheEnd(r) \/ EncodeAnswered(r)
               \/ Cancel(r) \/ EncodeTimesOut(r)
        PROVE  InUse(s)' <= Capacity[s]
    BY <1>4, <1>7
    DEF WaitTimesOut, FetchRefused, Stream, LoadIsTheEnd, EncodeAnswered, Cancel, EncodeTimesOut, Finish,
        ReleaseAll
  <1>8. ASSUME NEW r \in Requests, ThreadStarts(r) \/ ThreadEnds(r) \/ LoadEnds(r)
        PROVE  InUse(s)' <= Capacity[s]
    BY <1>4, <1>8 DEF ThreadStarts, ThreadEnds, LoadEnds, ReleaseDownload
  <1>9. ASSUME NEW r \in Requests, Arrive(r) \/ Decodable(r) \/ StreamEnds(r)
        PROVE  InUse(s)' <= Capacity[s]
    BY <1>4, <1>9 DEF Arrive, Decodable, StreamEnds
  <1>10. CASE UNCHANGED vars
    BY <1>4, <1>10 DEF vars
  <1> QED
    BY <1>5, <1>6, <1>7, <1>8, <1>9, <1>10 DEF Next, Proceed, TimeOut, ThreadStep

-----------------------------------------------------------------------------
\* Queues

\* Queues with everybody in them once, and the queue of a semaphore holds who waits for it.
Queued ==
  /\ queue \in [Semaphores -> Seq(Requests)]
  /\ \A s \in Semaphores : IsInjective(queue[s]) /\ ToSet(queue[s]) = {r \in Requests : pc[r] = s}

\* One more at the end.
LEMMA JoinedQueue ==
  ASSUME NEW q \in Seq(Requests), IsInjective(q), NEW r \in Requests \ ToSet(q)
  PROVE  /\ Append(q, r) \in Seq(Requests)
         /\ IsInjective(Append(q, r))
         /\ ToSet(Append(q, r)) = ToSet(q) \cup {r}
  <1>1. /\ Append(q, r) \in Seq(Requests) /\ Len(Append(q, r)) = Len(q) + 1 /\ Len(q) \in Nat
        /\ \A j \in 1 .. Len(q) : Append(q, r)[j] = q[j]
        /\ Append(q, r)[Len(q) + 1] = r
    BY AppendProperties, LenProperties
  <1>2. DOMAIN Append(q, r) = 1 .. Len(q) + 1 /\ DOMAIN q = 1 .. Len(q)
    BY <1>1
  <1>3. \A j \in 1 .. Len(q) : q[j] # r
    BY <1>2 DEF ToSet
  <1>4. IsInjective(Append(q, r))
    BY <1>1, <1>2, <1>3 DEF IsInjective
  <1>5. \A j \in 1 .. Len(q) + 1 : j \in 1 .. Len(q) \/ j = Len(q) + 1
    BY <1>1
  <1>6. ToSet(Append(q, r)) = ToSet(q) \cup {r}
    BY <1>1, <1>2, <1>5 DEF ToSet
  <1> QED
    BY <1>1, <1>4, <1>6

\* One less, wherever it stood: the order of the others is kept.
LEMMA LeftQueue ==
  ASSUME NEW q \in Seq(Requests), IsInjective(q), NEW r \in ToSet(q)
  PROVE  /\ RemoveFirst(q, r) \in Seq(Requests)
         /\ IsInjective(RemoveFirst(q, r))
         /\ ToSet(RemoveFirst(q, r)) = ToSet(q) \ {r}
  <1>1. PICK i \in 1 .. Len(q) : q[i] = r
    BY DEF ToSet
  <1>2. {j \in 1 .. Len(q) : q[j] = r} = {i}
    BY <1>1 DEF IsInjective
  <1>3. Min({i}) = i
    BY <1>1 DEF Min
  <1>4. SelectInSeq(q, LAMBDA v : v = r) = i
    BY <1>2, <1>3 DEF SelectInSeq
  <1>5. RemoveFirst(q, r) = SubSeq(q, 1, i - 1) \o SubSeq(q, i + 1, Len(q))
    BY <1>1, <1>4 DEF RemoveFirst, RemoveAt
  <1> DEFINE front == SubSeq(q, 1, i - 1)
             back == SubSeq(q, i + 1, Len(q))
             rest == front \o back
  <1>6. /\ front \in Seq(Requests) /\ Len(front) = i - 1
        /\ \A j \in 1 .. i - 1 : front[j] = q[j]
    BY SubSeqProperties
  <1>7. /\ back \in Seq(Requests) /\ Len(back) = Len(q) - i
        /\ \A j \in 1 .. Len(q) - i : back[j] = q[i + j]
    BY SubSeqProperties
  <1> HIDE DEF front, back
  <1>8. /\ rest \in Seq(Requests) /\ Len(rest) = Len(q) - 1
        /\ \A j \in 1 .. Len(q) - 1 : rest[j] = IF j < i THEN q[j] ELSE q[j + 1]
    <2>1. /\ rest \in Seq(Requests) /\ Len(rest) = Len(front) + Len(back)
          /\ \A j \in 1 .. Len(front) + Len(back) :
               rest[j] = IF j <= Len(front) THEN front[j] ELSE back[j - Len(front)]
      BY <1>6, <1>7, ConcatProperties
    <2>2. Len(q) \in Nat /\ i \in 1 .. Len(q)
      BY LenProperties
    <2>3. ASSUME NEW j \in 1 .. Len(q) - 1
          PROVE  rest[j] = IF j < i THEN q[j] ELSE q[j + 1]
      <3>1. CASE j < i
        BY <1>6, <1>7, <2>1, <2>2, <3>1
      <3>2. CASE j >= i
        <4>1. j - (i - 1) \in 1 .. Len(q) - i /\ i + (j - (i - 1)) = j + 1
          BY <2>2, <3>2
        <4>2. rest[j] = back[j - (i - 1)]
          BY <1>6, <1>7, <2>1, <2>2, <3>2
        <4>3. back[j - (i - 1)] = q[j + 1]
          BY <1>7, <4>1
        <4> QED
          BY <2>2, <3>2, <4>2, <4>3
      <3>3. j < i \/ j >= i
        BY <2>2
      <3> QED
        BY <3>1, <3>2, <3>3, Zenon
    <2> QED
      BY <1>6, <1>7, <2>1, <2>2, <2>3
  <1> HIDE DEF rest
  <1>9. IsInjective(rest)
    <2>1. Len(q) \in Nat /\ DOMAIN q = 1 .. Len(q) /\ DOMAIN rest = 1 .. Len(q) - 1
      BY <1>8, LenProperties
    <2>2. SUFFICES ASSUME NEW a \in 1 .. Len(q) - 1, NEW b \in 1 .. Len(q) - 1, rest[a] = rest[b]
                   PROVE  a = b
      BY <2>1 DEF IsInjective
    <2> DEFINE place(j) == IF j < i THEN j ELSE j + 1
    <2>3. rest[a] = q[place(a)] /\ rest[b] = q[place(b)]
      BY <1>8
    <2>4. place(a) \in 1 .. Len(q) /\ place(b) \in 1 .. Len(q)
      BY <2>1
    <2>5. place(a) = place(b)
      BY <2>1, <2>2, <2>3, <2>4 DEF IsInjective
    <2> QED
      BY <2>1, <2>5
  <1>10. ToSet(rest) = ToSet(q) \ {r}
    <2>1. ASSUME NEW j \in 1 .. Len(q) - 1
          PROVE  \E k \in 1 .. Len(q) : k # i /\ rest[j] = q[k]
      <3>1. CASE j < i
        BY <1>8, <3>1
      <3>2. CASE j >= i
        BY <1>8, <3>2
      <3> QED
        BY <3>1, <3>2
    <2>2. ASSUME NEW j \in 1 .. Len(q), j # i
          PROVE  q[j] \in ToSet(rest)
      <3>1. CASE j < i
        BY <1>8, <3>1 DEF ToSet
      <3>2. CASE j > i
        <4>1. j - 1 \in 1 .. Len(q) - 1 /\ rest[j - 1] = q[j]
          BY <1>8, <3>2
        <4> QED
          BY <1>8, <4>1 DEF ToSet
      <3> QED
        BY <1>1, <2>2, <3>1, <3>2, LenProperties
    <2>3. \A k \in 1 .. Len(q) : k # i => q[k] # r
      BY <1>1 DEF IsInjective
    <2>4. DOMAIN rest = 1 .. Len(q) - 1 /\ DOMAIN q = 1 .. Len(q)
      BY <1>8
    <2>5. ToSet(rest) \subseteq ToSet(q) \ {r}
      BY <2>1, <2>3, <2>4 DEF ToSet
    <2>6. ToSet(q) \ {r} \subseteq ToSet(rest)
      BY <1>1, <2>2, <2>4 DEF ToSet
    <2> QED
      BY <2>5, <2>6
  <1> QED
    BY <1>5, <1>8, <1>9, <1>10 DEF rest, front, back

LEMMA QueuedNext ==
  ASSUME Inv, Queued, [Next]_vars
  PROVE  Queued'
  <1> USE DEF Inv, HoldingTypes, Queued
  \* r comes to the end of the queue of s, from where it waited for nothing ...
  <1>1. ASSUME NEW s \in Semaphores, NEW r \in Requests, Wait(s, r), pc[r] \notin Semaphores
        PROVE  Queued'
    <2>1. r \notin ToSet(queue[s])
      BY <1>1
    <2>2. /\ Append(queue[s], r) \in Seq(Requests) /\ IsInjective(Append(queue[s], r))
          /\ ToSet(Append(queue[s], r)) = ToSet(queue[s]) \cup {r}
      BY <2>1, JoinedQueue
    <2>3. queue' = [queue EXCEPT ![s] = Append(queue[s], r)] /\ pc' = [pc EXCEPT ![r] = s]
      BY <1>1 DEF Wait
    <2> QED
      BY <1>1, <2>2, <2>3
  \* ... r leaves the queue of what it waits for ...
  <1>2. ASSUME NEW s \in Semaphores, NEW r \in Requests, Leave(s, r), pc[r] = s,
               NEW to, pc' = [pc EXCEPT ![r] = to], to \notin Semaphores
        PROVE  Queued'
    <2>1. r \in ToSet(queue[s])
      BY <1>2
    <2>2. /\ RemoveFirst(queue[s], r) \in Seq(Requests) /\ IsInjective(RemoveFirst(queue[s], r))
          /\ ToSet(RemoveFirst(queue[s], r)) = ToSet(queue[s]) \ {r}
      BY <2>1, LeftQueue
    <2>3. queue' = [queue EXCEPT ![s] = RemoveFirst(queue[s], r)]
      BY <1>2 DEF Leave
    <2> QED
      BY <1>2, <2>2, <2>3
  \* ... or nobody moves.
  <1>3. ASSUME UNCHANGED queue, NEW r \in Requests, NEW to, pc' = [pc EXCEPT ![r] = to],
               pc[r] \notin Semaphores, to \notin Semaphores
        PROVE  Queued'
    BY <1>3
  <1>4. ASSUME UNCHANGED <<queue, pc>> PROVE Queued'
    BY <1>4
  <1> USE DEF Semaphores
  <1>5. ASSUME NEW r \in Requests, Arrive(r) \/ Decodable(r) \/ LoadEnds(r)
        PROVE  Queued'
    BY <1>1, <1>5 DEF Arrive, Decodable, LoadEnds
  <1>6. ASSUME NEW r \in Requests, AcquireDownload(r) \/ AcquireBudget(r) \/ AcquireCpu(r)
        PROVE  Queued'
    BY <1>2, <1>6 DEF AcquireDownload, AcquireBudget, AcquireCpu, Granted
  <1>7. ASSUME NEW r \in Requests, WaitTimesOut(r)
        PROVE  Queued'
    BY <1>2, <1>7 DEF WaitTimesOut, Finish
  <1>8. ASSUME NEW r \in Requests,
               FetchRefused(r) \/ Stream(r) \/ LoadIsTheEnd(r) \/ EncodeAnswered(r) \/ EncodeTimesOut(r)
        PROVE  Queued'
    BY <1>3, <1>8 DEF FetchRefused, Stream, LoadIsTheEnd, EncodeAnswered, EncodeTimesOut, Finish
  <1>9. ASSUME NEW r \in Requests, Cancel(r)
        PROVE  Queued'
    BY <1>2, <1>3, <1>9 DEF Cancel, Finish
  <1>10. ASSUME NEW r \in Requests, ThreadStarts(r) \/ ThreadEnds(r) \/ StreamEnds(r)
         PROVE  Queued'
    BY <1>4, <1>10 DEF ThreadStarts, ThreadEnds, StreamEnds
  <1>11. CASE UNCHANGED vars
    BY <1>4, <1>11 DEF vars
  <1> QED
    BY <1>5, <1>6, <1>7, <1>8, <1>9, <1>10, <1>11 DEF Next, Proceed, TimeOut, ThreadStep

PermitInv == Inv /\ NotOverdrawn /\ Queued /\ streaming \in [Requests -> BOOLEAN]

LEMMA PermitInit == Init => PermitInv
  <1> SUFFICES ASSUME Init PROVE PermitInv
    OBVIOUS
  <1>1. ASSUME NEW s \in Semaphores
        PROVE  InUse(s) <= Capacity[s]
    <2>1. Taken(s) = {}
      BY <1>1 DEF Init, Taken, Uses
    <2> QED
      BY <2>1, FS_EmptySet, CapacityTyped DEF InUse
  <1>2. Queued
    BY DEF Init, Queued, Semaphores, IsInjective, ToSet
  <1> QED
    BY <1>1, <1>2, InvInit DEF PermitInv, NotOverdrawn, Init

LEMMA StreamingNext ==
  ASSUME streaming \in [Requests -> BOOLEAN], [Next]_vars
  PROVE  streaming' \in [Requests -> BOOLEAN]
  <1>1. CASE \E r \in Requests : Stream(r) \/ StreamEnds(r)
    BY <1>1 DEF Stream, StreamEnds
  <1>2. CASE ~ \E r \in Requests : Stream(r) \/ StreamEnds(r)
    BY <1>2
    DEF Next, Proceed, TimeOut, ThreadStep, vars, Arrive, AcquireDownload, FetchRefused, Decodable,
        AcquireBudget, LoadIsTheEnd, LoadEnds, AcquireCpu, EncodeAnswered, WaitTimesOut, EncodeTimesOut,
        Cancel, ThreadStarts, ThreadEnds
  <1> QED
    BY <1>1, <1>2

LEMMA PermitInvAlways == Spec => []PermitInv
  <1>1. PermitInv /\ [Next]_vars => PermitInv'
    BY InvNext, NotOverdrawnNext, QueuedNext, StreamingNext DEF PermitInv
  <1> QED
    BY PermitInit, <1>1, PTL DEF Spec

\* The types of ResourcePermits: the waiters of a semaphore are in its queue, once, and nobody
\* else is, whether they were served, timed out or went away.
THEOREM TypeCorrect == Spec => []TypeOK
  <1>1. PermitInv => TypeOK
    BY DEF PermitInv, Inv, HoldingTypes, Queued, TypeOK
  <1> QED
    BY <1>1, PermitInvAlways, PTL

\* No semaphore is overdrawn and no permit is lost (the semaphores of main.rs:1202-1208).
THEOREM PermitsCorrect == Spec => []PermitsAccounted
  <1>1. PermitInv => PermitsAccounted
    BY DEF PermitInv, NotOverdrawn, PermitsAccounted, Inv, Held, PermitsReturned
  <1> QED
    BY <1>1, PermitInvAlways, PTL

\* Images that decode, those of requests that are gone included, are at most as many as CPU
\* permits: the closure has the permit (main.rs:3734-3737).
THEOREM ImageThreadsCorrect == Spec => []ImageThreadsBounded
  <1>1. PermitInv => ImageThreadsBounded
    <2> SUFFICES ASSUME PermitInv PROVE ImageThreadsBounded
      OBVIOUS
    <2> DEFINE busy == {r \in Requests : kind[r] = "image" /\ thread[r] = "running"}
               use == [r \in Requests |-> Uses("cpu", r)]
    <2>1. busy \X {1} \subseteq Taken("cpu")
      <3>1. ASSUME NEW r \in busy
            PROVE  r \in Requests /\ Uses("cpu", r) \in Nat \ {0}
        BY DEF PermitInv, Inv, HoldingTypes, Held, Uses, Semaphores
      <3> QED
        BY <3>1 DEF Taken
    <2>2. IsFiniteSet(busy) /\ Cardinality(busy) \in Nat
      BY PermitsAssumption, FS_Subset, FS_CardinalityType
    <2>3. Cardinality(busy \X {1}) = Cardinality(busy)
      <3>1. IsFiniteSet({1}) /\ Cardinality({1}) = 1
        BY FS_Singleton
      <3>2. Cardinality(busy \X {1}) = Cardinality(busy) * Cardinality({1})
        BY <2>2, <3>1, FS_Product
      <3> QED
        BY <2>2, <3>1, <3>2
    <2>4. IsFiniteSet(Taken("cpu"))
      <3>1. use \in [Requests -> Nat] /\ Taken("cpu") = TakenBy(use)
        BY DEF PermitInv, Inv, HoldingTypes, Uses, Semaphores, Taken, TakenBy
      <3> QED
        BY <3>1, TakenFinite
    <2>5. Cardinality(busy) <= InUse("cpu") /\ InUse("cpu") \in Nat
      BY <2>1, <2>3, <2>4, FS_Subset, FS_CardinalityType DEF InUse
    <2>6. InUse("cpu") <= Cpus
      BY DEF PermitInv, NotOverdrawn, Semaphores, Capacity
    <2> QED
      BY <2>2, <2>5, <2>6, PermitsAssumption DEF ImageThreadsBounded
  <1> QED
    BY <1>1, PermitInvAlways, PTL
=============================================================================
