----------------------------- MODULE StatsProofs -----------------------------
(***************************************************************************)
(* That the statistics lose nothing and the two ledgers agree, for any     *)
(* requests, errors and bounds.                                            *)
(***************************************************************************)
EXTENDS Stats, SequenceTheorems, FiniteSetTheorems, WellFoundedInduction, TLAPS

\* A sweep has read nothing yet of the counters that it still has to swap.
Unread == \A i \in DOMAIN Swept : i >= sweep.pos => sweep.read[Swept[i]] = 0

Inv == TypeOK /\ Unread /\ NothingLost

LEMMA SweptIsCounter == \A i \in DOMAIN Swept : Swept[i] \in Counter
  BY DEF Counter, Range

LEMMA InvInit == Init => Inv
  <1> SUFFICES ASSUME Init PROVE Inv
    OBVIOUS
  <1>1. Zero \in [Counter -> Nat] /\ \A c \in Counter : Zero[c] = 0
    BY DEF Zero
  <1> QED
    BY <1>1, SweptIsCounter DEF Init, Inv, TypeOK, Unread, NothingLost

\* The steps that neither count nor sweep.
LEMMA InvKept ==
  ASSUME Inv, UNCHANGED <<counter, sweep, reported, made>>
  PROVE  Inv'
  BY DEF Inv, TypeOK, Unread, NothingLost

LEMMA Counted ==
  ASSUME NEW f \in [Counter -> Nat], NEW c
  PROVE  [f EXCEPT ![c] = @ + 1] \in [Counter -> Nat]
  <1>1. CASE c \in Counter
    <2>1. f[c] + 1 \in Nat
      BY <1>1
    <2> QED
      BY <2>1
  <1>2. CASE c \notin Counter
    BY <1>2
  <1> QED
    BY <1>1, <1>2

LEMMA InvIncrement ==
  ASSUME Inv, NEW c, Increment(c), UNCHANGED <<sweep, reported>>
  PROVE  Inv'
  <1>0. /\ counter \in [Counter -> Nat] /\ made \in [Counter -> Nat]
        /\ counter' = [counter EXCEPT ![c] = @ + 1] /\ made' = [made EXCEPT ![c] = @ + 1]
    BY DEF Inv, TypeOK, Increment
  <1>1. TypeOK'
    <2>1. counter' \in [Counter -> Nat]
      BY <1>0, Counted
    <2>2. made' \in [Counter -> Nat]
      BY <1>0, Counted
    <2> QED
      BY <2>1, <2>2 DEF Inv, TypeOK
  <1>2. Unread'
    BY DEF Inv, Unread
  <1>3. \A d \in Counter : made'[d] - counter'[d] = made[d] - counter[d]
    BY <1>0
  <1>4. NothingLost'
    <2>1. SUFFICES ASSUME NEW d \in Counter
                   PROVE  made'[d] = counter'[d] + sweep.read[d] + reported[d]
      BY DEF NothingLost
    <2>2. made'[d] \in Nat /\ counter'[d] \in Nat /\ made[d] \in Nat /\ counter[d] \in Nat
          /\ sweep.read[d] \in Nat /\ reported[d] \in Nat
      BY <1>0, <1>1 DEF Inv, TypeOK
    <2>3. made[d] = counter[d] + sweep.read[d] + reported[d] /\ made'[d] - counter'[d] = made[d] - counter[d]
      BY <1>3 DEF Inv, NothingLost
    <2> QED
      BY <2>2, <2>3
  <1> QED
    BY <1>1, <1>2, <1>4 DEF Inv

\* Swapping a counter moves what it holds into the sweep, which had read nothing of it.
LEMMA InvSwap ==
  ASSUME Inv, Swap
  PROVE  Inv'
  <1> DEFINE c == Swept[sweep.pos]
             read == [sweep.read EXCEPT ![c] = counter[c]]
  <1>1. /\ sweep.pos \in DOMAIN Swept /\ c \in Counter
        /\ sweep' = [sweep EXCEPT !.pos = @ + 1, !.read = [@ EXCEPT ![c] = counter[c]]]
        /\ counter' = [counter EXCEPT ![c] = 0]
        /\ UNCHANGED <<reported, made>>
    BY SweptIsCounter DEF Swap
  <1>2. sweep'.pos = sweep.pos + 1 /\ sweep'.read = read /\ sweep'.done = sweep.done
    BY <1>1, SMT DEF Inv, TypeOK
  <1>3. read \in [Counter -> Nat] /\ counter' \in [Counter -> Nat]
    BY <1>1 DEF Inv, TypeOK
  <1>4. TypeOK'
    <2>1. sweep' = [pos |-> sweep.pos + 1, read |-> read, done |-> sweep.done]
      BY <1>1 DEF Inv, TypeOK
    <2>2. sweep' \in [pos : Nat \ {0}, read : [Counter -> Nat], done : Nat]
      BY <1>3, <2>1 DEF Inv, TypeOK
    <2> QED
      BY <1>1, <1>3, <2>2 DEF Inv, TypeOK
  <1>5. Unread'
    <2>1. SUFFICES ASSUME NEW i \in DOMAIN Swept, i >= sweep.pos + 1 PROVE read[Swept[i]] = 0
      BY <1>2 DEF Unread
    <2>2. i \in Nat /\ sweep.pos \in Nat
      BY SweptAssumption DEF Inv, TypeOK
    <2>3. i >= sweep.pos /\ i # sweep.pos
      BY <2>1, <2>2
    <2>4. Swept[i] # c /\ Swept[i] \in Counter
      BY <1>1, <2>3, SweptAssumption, SweptIsCounter
    <2> QED
      BY <2>3, <2>4 DEF Inv, Unread, TypeOK
  <1>6. NothingLost'
    <2>1. sweep.read[c] = 0
      <3>1. sweep.pos \in Nat
        BY DEF Inv, TypeOK
      <3> QED
        BY <1>1, <3>1 DEF Inv, Unread
    <2>2. SUFFICES ASSUME NEW d \in Counter PROVE made[d] = counter'[d] + read[d] + reported[d]
      BY <1>1, <1>2 DEF NothingLost
    <2>3. made[d] = counter[d] + sweep.read[d] + reported[d] /\ counter[d] \in Nat /\ sweep.read[d] \in Nat
      BY DEF Inv, NothingLost, TypeOK
    <2>4. CASE d = c
      <3>1. counter'[d] = 0 /\ read[d] = counter[d]
        BY <1>1, <2>4 DEF Inv, TypeOK
      <3> QED
        BY <2>1, <2>3, <2>4, <3>1
    <2>5. CASE d # c
      <3>1. counter'[d] = counter[d] /\ read[d] = sweep.read[d]
        BY <1>1, <2>5 DEF Inv, TypeOK
      <3> QED
        BY <2>3, <3>1
    <2> QED
      BY <2>4, <2>5
  <1> QED
    BY <1>4, <1>5, <1>6 DEF Inv

LEMMA InvLog ==
  ASSUME Inv, Log
  PROVE  Inv'
  <1>1. /\ reported' = [c \in Counter |-> reported[c] + sweep.read[c]]
        /\ sweep' = [pos |-> 1, read |-> Zero, done |-> sweep.done + 1]
        /\ UNCHANGED <<counter, made>>
    BY DEF Log
  <1>2. Zero \in [Counter -> Nat] /\ \A c \in Counter : Zero[c] = 0
    BY DEF Zero
  <1>3. TypeOK'
    BY <1>1, <1>2 DEF Inv, TypeOK
  <1>4. Unread'
    BY <1>1, <1>2, SweptIsCounter DEF Unread
  <1>5. NothingLost'
    BY <1>1, <1>2 DEF Inv, TypeOK, NothingLost
  <1> QED
    BY <1>3, <1>4, <1>5 DEF Inv

LEMMA InvRequest ==
  ASSUME Inv, NEW r \in Requests, Step(r)
  PROVE  Inv'
  <1>1. CASE UNCHANGED <<counter, sweep, reported, made>>
    BY <1>1, InvKept
  <1>2. CASE \E c : Increment(c) /\ UNCHANGED <<sweep, reported>>
    BY <1>2, InvIncrement
  <1>3. UNCHANGED <<counter, sweep, reported, made>> \/ \E c : Increment(c) /\ UNCHANGED <<sweep, reported>>
    <2>1. ASSUME Begin(r) \/ Proceed(r) \/ Send(r) \/ RetryOk(r) \/ SendOk(r) \/ SendAgain(r)
                 \/ Complete(r) \/ Drop(r)
          PROVE  UNCHANGED <<counter, sweep, reported, made>>
      BY <2>1 DEF Begin, Proceed, Send, RetryOk, SendOk, SendAgain, Complete, Drop
    <2>2. ASSUME Hit(r) \/ Joined(r) \/ CheckFails(r) \/ WaitFails(r) \/ SendFails(r) \/ RetryFails(r)
                 \/ RedirectFails(r) \/ EncodeAnswers(r) \/ BodyFails(r)
          PROVE  UNCHANGED <<counter, sweep, reported, made>>
      <3> DEFINE Kept == UNCHANGED <<counter, sweep, reported, made>>
      <3> SUFFICES Kept
        OBVIOUS
      <3>1. \A t, status, labelled, detail : Emit(r, t, status, labelled, detail) => Kept
        BY DEF Emit
      <3> HIDE DEF Kept
      <3>2. \A t, detail : Refusal(r, t, detail) => Kept
        BY <3>1, Zenon DEF Refusal
      <3>3. \A t : FetchFailure(r, t) => Kept
        BY <3>1, <3>2, Zenon DEF FetchFailure
      <3>4. CASE Hit(r) \/ Joined(r)
        BY <3>1, <3>4, Zenon DEF Hit, Joined
      <3>5. CASE WaitFails(r)
        BY <3>5, Zenon DEF WaitFails, Emit, Kept
      <3>6. CASE EncodeAnswers(r)
        BY <3>6, Zenon DEF EncodeAnswers, Emit, Kept
      <3>7. CASE BodyFails(r)
        BY <3>7, Zenon DEF BodyFails, Emit, Kept
      <3>8. CASE CheckFails(r)
        BY <3>2, <3>3, <3>8, Zenon DEF CheckFails
      <3>9. CASE SendFails(r) \/ RetryFails(r)
        BY <3>3, <3>9, Zenon DEF SendFails, RetryFails
      <3>10. CASE RedirectFails(r)
        <4>1. CASE \E d \in Details \cap {"TooManyRedirects"} : Emit(r, timings[r], 502, TRUE, d)
          BY <4>1, Zenon DEF Emit, Kept
        <4>2. CASE \/ \E d \in Details \cap (Denials \cup {"InvalidRedirect"}) : Refusal(r, timings[r], d)
                   \/ "dns" \in Range(FetchKinds) /\ Refusal(r, [timings[r] EXCEPT !.fetch = "dns"], "none")
          BY <3>2, <4>2, Zenon
        <4> QED
          BY <3>10, <4>1, <4>2, Zenon DEF RedirectFails
      <3> QED
        BY <2>2, <3>4, <3>5, <3>6, <3>7, <3>8, <3>9, <3>10
    <2>3. ASSUME Retry(r) \/ Headers(r) \/ EmitNext(r)
          PROVE  \E c : Increment(c) /\ UNCHANGED <<sweep, reported>>
      BY <2>3 DEF Retry, Headers, EmitNext
    <2> QED
      BY <2>1, <2>2, <2>3 DEF Step
  <1> QED
    BY <1>1, <1>2, <1>3

LEMMA InvStep ==
  ASSUME Inv, [Next]_vars
  PROVE  Inv'
  <1>1. CASE UNCHANGED vars
    BY <1>1, InvKept DEF vars
  <1> QED
    BY <1>1, InvRequest, InvSwap, InvLog DEF Next

\* Whatever requests and sweeps do, and in whatever order, every increment is found in the
\* counter, in the sweep under way, or in a report.
THEOREM LossFree == Spec => []NothingLost
  <1>1. Init => Inv
    BY InvInit
  <1>2. Inv /\ [Next]_vars => Inv'
    BY InvStep
  <1>3. Inv => NothingLost
    BY DEF Inv
  <1> QED
    BY <1>1, <1>2, <1>3, PTL DEF Spec
-----------------------------------------------------------------------------
\* Sums over finite sets

\* A set of numbers that is not empty has a least element.
LEMMA LeastNumber ==
  ASSUME NEW T, T \subseteq Nat, T # {}
  PROVE  \E n \in T : \A m \in T : n <= m
  <1>1. IsWellFoundedOn(OpToRel(<, Nat), Nat)
    BY NatLessThanWellFounded
  <1>2. PICK n \in T : \A m \in T : ~ (<<m, n>> \in OpToRel(<, Nat))
    BY <1>1, WFMin
  <1>3. ASSUME NEW m \in T
        PROVE  n <= m
    <2>1. <<m, n>> \in Nat \X Nat
      BY <1>3
    <2>2. ~ (m < n)
      BY <1>2, <2>1 DEF OpToRel
    <2> QED
      BY <2>1, <2>2
  <1> QED
    BY <1>3

\* The element that a fold takes first, and the sets it has come across with m elements.
First(s) == CHOOSE x \in s : TRUE
Small(S, m) == {s \in SUBSET S : Cardinality(s) <= m}
Sums(g, f, S, m) == g = [s \in Small(S, m) |-> IF s = {} THEN 0 ELSE f[First(s)] + g[s \ {First(s)}]]

LEMMA OneLess ==
  ASSUME NEW S, IsFiniteSet(S), NEW s \in SUBSET S, s # {}
  PROVE  /\ First(s) \in s /\ s \ {First(s)} \in SUBSET S
         /\ Cardinality(s) \in Nat /\ Cardinality(s \ {First(s)}) = Cardinality(s) - 1
         /\ Cardinality(s) # 0
  <1>1. First(s) \in s
    BY DEF First
  <1>2. IsFiniteSet(s)
    BY FS_Subset
  <1> QED
    BY <1>1, <1>2, FS_CardinalityType, FS_RemoveElement, FS_EmptySet

LEMMA SumsExist ==
  ASSUME NEW S, IsFiniteSet(S), NEW f, NEW m \in Nat
  PROVE  \E g : Sums(g, f, S, m)
  <1> DEFINE T == {n \in Nat : ~ \E g : Sums(g, f, S, n)}
  <1> SUFFICES ASSUME T # {} PROVE FALSE
    OBVIOUS
  <1>1. PICK n \in T : \A k \in T : n <= k
    BY LeastNumber
  <1>0. \A s \in SUBSET S : IsFiniteSet(s) /\ Cardinality(s) \in Nat /\ (Cardinality(s) = 0 <=> s = {})
    BY FS_Subset, FS_CardinalityType, FS_EmptySet
  <1>2. CASE n = 0
    <2>1. Sums([s \in Small(S, 0) |-> 0], f, S, 0)
      <3>1. \A s \in Small(S, 0) : s = {}
        BY <1>0 DEF Small
      <3> QED
        BY <3>1 DEF Sums
    <2> QED
      BY <1>2, <2>1
  <1>3. CASE n # 0
    <2>1. n - 1 \in Nat /\ n - 1 \notin T
      BY <1>1, <1>3
    <2>2. PICK g : Sums(g, f, S, n - 1)
      BY <2>1
    <2> DEFINE h == [s \in Small(S, n) |-> IF s = {} THEN 0 ELSE f[First(s)] + g[s \ {First(s)}]]
    <2>3. ASSUME NEW s \in Small(S, n), s # {}
          PROVE  h[s \ {First(s)}] = g[s \ {First(s)}]
      <3> DEFINE u == s \ {First(s)}
      <3>1. u \in Small(S, n) /\ u \in Small(S, n - 1)
        BY <2>1, <2>3, OneLess DEF Small
      <3> HIDE DEF u
      <3>2. h[u] = IF u = {} THEN 0 ELSE f[First(u)] + g[u \ {First(u)}]
        BY <3>1
      <3>3. g[u] = IF u = {} THEN 0 ELSE f[First(u)] + g[u \ {First(u)}]
        BY <2>2, <3>1 DEF Sums
      <3> QED
        BY <3>2, <3>3, Zenon DEF u
    <2>4. Sums(h, f, S, n)
      <3>1. \A s \in Small(S, n) : h[s] = IF s = {} THEN 0 ELSE f[First(s)] + h[s \ {First(s)}]
        BY <2>3
      <3>2. h = [s \in Small(S, n) |-> IF s = {} THEN 0 ELSE f[First(s)] + h[s \ {First(s)}]]
        <4> DEFINE e(s) == IF s = {} THEN 0 ELSE f[First(s)] + g[s \ {First(s)}]
                   d(s) == IF s = {} THEN 0 ELSE f[First(s)] + h[s \ {First(s)}]
        <4>1. \A s \in Small(S, n) : e(s) = d(s)
          BY <3>1
        <4> HIDE DEF d, e
        <4>2. [s \in Small(S, n) |-> e(s)] = [s \in Small(S, n) |-> d(s)]
          BY <4>1
        <4> QED
          BY <4>2, Zenon DEF d, e
      <3> QED
        BY <3>2 DEF Sums
    <2> QED
      BY <1>1, <2>4
  <1> QED
    BY <1>2, <1>3

\* The partial sums of which SumFunctionOnSet takes the last.
Partial(f, S) ==
  CHOOSE g : g = [s \in SUBSET S |-> IF s = {} THEN 0 ELSE f[First(s)] + g[s \ {First(s)}]]

LEMMA PartialSums ==
  ASSUME NEW S, IsFiniteSet(S), NEW f
  PROVE  /\ SumFunctionOnSet(f, S) = Partial(f, S)[S]
         /\ Partial(f, S)[{}] = 0
         /\ \A s \in SUBSET S : s # {} =>
              Partial(f, S)[s] = f[First(s)] + Partial(f, S)[s \ {First(s)}]
  <1>1. SumFunctionOnSet(f, S) = Partial(f, S)[S]
    BY DEF SumFunctionOnSet, FoldFunctionOnSet, MapThenFoldSet, Partial, First
  <1>2. \E g : g = [s \in SUBSET S |-> IF s = {} THEN 0 ELSE f[First(s)] + g[s \ {First(s)}]]
    <2>1. Cardinality(S) \in Nat /\ \A s \in SUBSET S : Cardinality(s) <= Cardinality(S)
      BY FS_CardinalityType, FS_Subset
    <2>2. Small(S, Cardinality(S)) = SUBSET S
      BY <2>1 DEF Small
    <2>3. PICK g : Sums(g, f, S, Cardinality(S))
      BY <2>1, SumsExist
    <2> QED
      BY <2>2, <2>3, Zenon DEF Sums
  <1>3. Partial(f, S) = [s \in SUBSET S |-> IF s = {} THEN 0
                                            ELSE f[First(s)] + Partial(f, S)[s \ {First(s)}]]
    BY <1>2 DEF Partial
  <1> QED
    BY <1>1, <1>3

\* What is wrong for no empty set, and for no other without being wrong for the set without its
\* first element, is wrong for none: induction over finite sets, as a fact.
LEMMA NoBadSet ==
  ASSUME NEW S, IsFiniteSet(S), NEW Bad \in SUBSET SUBSET S,
         {} \notin Bad, \A s \in Bad : s \ {First(s)} \in Bad
  PROVE  Bad = {}
  <1> DEFINE T == {Cardinality(s) : s \in Bad}
  <1> SUFFICES ASSUME Bad # {} PROVE FALSE
    OBVIOUS
  <1>1. T \subseteq Nat /\ T # {}
    BY FS_Subset, FS_CardinalityType
  <1>2. PICK n \in T : \A k \in T : n <= k
    BY <1>1, LeastNumber
  <1>3. PICK s \in Bad : Cardinality(s) = n
    OBVIOUS
  <1>4. Cardinality(s \ {First(s)}) = n - 1 /\ n \in Nat
    BY <1>3, OneLess
  <1>5. n - 1 \in T
    BY <1>3, <1>4
  <1> QED
    BY <1>2, <1>4, <1>5

LEMMA SumTyped ==
  ASSUME NEW S, IsFiniteSet(S), NEW f, \A x \in S : f[x] \in Nat
  PROVE  SumFunctionOnSet(f, S) \in Nat
  <1> DEFINE p == Partial(f, S)
             Bad == {s \in SUBSET S : p[s] \notin Nat}
  <1>0. p[{}] = 0
    BY PartialSums
  <1>1. \A s \in Bad : s # {}
    BY <1>0
  <1>2. ASSUME NEW s \in Bad
        PROVE  s \ {First(s)} \in Bad
    <2>1. First(s) \in S /\ s \ {First(s)} \in SUBSET S
      BY <1>1, OneLess
    <2>2. p[s] = f[First(s)] + p[s \ {First(s)}]
      BY <1>1, PartialSums
    <2> QED
      BY <2>1, <2>2
  <1> HIDE DEF p
  <1>3. Bad = {}
    BY <1>1, <1>2, NoBadSet
  <1> QED
    BY <1>3, PartialSums DEF p

\* The sum of zeros.
LEMMA SumOfZeros ==
  ASSUME NEW S, IsFiniteSet(S), NEW f, \A x \in S : f[x] = 0
  PROVE  SumFunctionOnSet(f, S) = 0
  <1> DEFINE p == Partial(f, S)
             Bad == {s \in SUBSET S : p[s] # 0}
  <1>0. p[{}] = 0
    BY PartialSums
  <1>1. \A s \in Bad : s # {}
    BY <1>0
  <1>2. ASSUME NEW s \in Bad
        PROVE  s \ {First(s)} \in Bad
    <2>1. First(s) \in S /\ s \ {First(s)} \in SUBSET S
      BY <1>1, OneLess
    <2>2. p[s] = f[First(s)] + p[s \ {First(s)}]
      BY <1>1, PartialSums
    <2> QED
      BY <2>1, <2>2
  <1> HIDE DEF p
  <1>3. Bad = {}
    BY <1>1, <1>2, NoBadSet
  <1> QED
    BY <1>3, PartialSums DEF p

\* One more at x makes one more of every sum that x is in.
LEMMA SumOfOneMore ==
  ASSUME NEW S, IsFiniteSet(S), NEW f, NEW g, \A y \in S : f[y] \in Nat,
         NEW x, \A y \in S : g[y] = f[y] + One(y = x)
  PROVE  SumFunctionOnSet(g, S) = SumFunctionOnSet(f, S) + One(x \in S)
  <1> DEFINE p == Partial(f, S)
             q == Partial(g, S)
             Bad == {s \in SUBSET S : ~ (p[s] \in Nat /\ q[s] = p[s] + One(x \in s))}
  <1>0. p[{}] = 0 /\ q[{}] = 0
    BY PartialSums
  <1>1. \A s \in Bad : s # {}
    <2> SUFFICES ASSUME NEW s \in Bad, s = {} PROVE FALSE
      OBVIOUS
    <2>1. ~ (x \in s)
      OBVIOUS
    <2> HIDE DEF p, q
    <2>2. p[s] \in Nat /\ q[s] = p[s] + 0
      BY <1>0
    <2> QED
      BY <2>1, <2>2 DEF One
  <1>2. ASSUME NEW s \in Bad
        PROVE  s \ {First(s)} \in Bad
    <2> DEFINE a == First(s)
               u == s \ {a}
    <2>1. a \in s /\ a \in S /\ u \in SUBSET S
      BY <1>1, OneLess
    <2>2. p[s] = f[a] + p[u] /\ q[s] = g[a] + q[u]
      BY <1>1, PartialSums
    <2>3. f[a] \in Nat /\ g[a] = f[a] + One(a = x)
      BY <2>1
    <2> HIDE DEF p, q
    <2> SUFFICES ASSUME p[u] \in Nat, q[u] = p[u] + One(x \in u) PROVE FALSE
      BY <2>1
    <2>4. One(a = x) + One(x \in u) = One(x \in s)
      BY <2>1 DEF One
    <2>5. One(a = x) \in Nat /\ One(x \in u) \in Nat
      BY DEF One
    <2> HIDE DEF a, u
    <2>6. p[s] \in Nat /\ q[s] = p[s] + One(x \in s)
      BY <2>2, <2>3, <2>4, <2>5
    <2> QED
      BY <2>6
  <1> HIDE DEF p, q
  <1>3. Bad = {}
    BY <1>1, <1>2, NoBadSet
  <1>4. q[S] = p[S] + One(x \in S)
    BY <1>3
  <1> QED
    BY <1>4, PartialSums DEF p, q
-----------------------------------------------------------------------------
\* The counters, and what a summary counts

LEMMA RangeOfConcat ==
  ASSUME NEW S, NEW s \in Seq(S), NEW t \in Seq(S)
  PROVE  /\ s \o t \in Seq(S) /\ Range(s \o t) = Range(s) \cup Range(t)
         /\ IsInjective(s) /\ IsInjective(t) /\ Range(s) \cap Range(t) = {} => IsInjective(s \o t)
  <1> DEFINE u == s \o t
  <1>1. /\ u \in Seq(S) /\ Len(s) \in Nat /\ Len(t) \in Nat /\ Len(u) = Len(s) + Len(t)
        /\ \A i \in 1 .. Len(s) + Len(t) : u[i] = IF i <= Len(s) THEN s[i] ELSE t[i - Len(s)]
    BY ConcatProperties, LenProperties
  <1>2. DOMAIN s = 1 .. Len(s) /\ DOMAIN t = 1 .. Len(t) /\ DOMAIN u = 1 .. Len(s) + Len(t)
    BY <1>1, LenProperties
  <1> HIDE DEF u
  <1>3. \A i \in 1 .. Len(s) : i \in DOMAIN u /\ u[i] = s[i]
    BY <1>1, <1>2
  <1>4. ASSUME NEW i \in 1 .. Len(t)
        PROVE  Len(s) + i \in DOMAIN u /\ u[Len(s) + i] = t[i]
    <2>1. Len(s) + i \in 1 .. Len(s) + Len(t) /\ ~ (Len(s) + i <= Len(s)) /\ Len(s) + i - Len(s) = i
      BY <1>1
    <2> QED
      BY <1>1, <1>2, <2>1
  <1>5. ASSUME NEW i \in DOMAIN u
        PROVE  \/ i \in 1 .. Len(s) /\ u[i] = s[i]
               \/ i - Len(s) \in 1 .. Len(t) /\ u[i] = t[i - Len(s)]
    BY <1>1, <1>2
  <1>6. Range(u) = Range(s) \cup Range(t)
    <2>1. Range(u) \subseteq Range(s) \cup Range(t)
      BY <1>2, <1>5, Zenon DEF Range
    <2>2. Range(s) \subseteq Range(u)
      BY <1>2, <1>3, Zenon DEF Range
    <2>3. Range(t) \subseteq Range(u)
      BY <1>2, <1>4, Zenon DEF Range
    <2> QED
      BY <2>1, <2>2, <2>3
  <1>7. ASSUME IsInjective(s), IsInjective(t), Range(s) \cap Range(t) = {}
        PROVE  IsInjective(u)
    <2> SUFFICES ASSUME NEW a \in DOMAIN u, NEW b \in DOMAIN u, u[a] = u[b] PROVE a = b
      BY DEF IsInjective
    <2>1. CASE a \in 1 .. Len(s) /\ u[a] = s[a] /\ b \in 1 .. Len(s) /\ u[b] = s[b]
      BY <1>2, <1>7, <2>1 DEF IsInjective
    <2>2. CASE /\ a - Len(s) \in 1 .. Len(t) /\ u[a] = t[a - Len(s)]
               /\ b - Len(s) \in 1 .. Len(t) /\ u[b] = t[b - Len(s)]
      <3>1. a - Len(s) = b - Len(s)
        BY <1>2, <1>7, <2>2 DEF IsInjective
      <3> QED
        BY <1>1, <1>2, <3>1
    <2>3. \A i, j : i \in 1 .. Len(s) /\ j \in 1 .. Len(t) => s[i] # t[j]
      BY <1>2, <1>7 DEF Range
    <2> QED
      BY <1>5, <2>1, <2>2, <2>3
  <1> QED
    BY <1>1, <1>6, <1>7 DEF u

\* A sequence of no or one counter.
LEMMA AtMostOne ==
  ASSUME NEW S, NEW c \in S
  PROVE  /\ <<c>> \in Seq(S) /\ IsInjective(<<c>>) /\ Range(<<c>>) = {c}
         /\ <<>> \in Seq(S) /\ IsInjective(<<>>) /\ Range(<<>>) = {}
  BY DEF IsInjective, Range

SixClasses == {"perr_upstream_status", "decode_error", "encode_error", "size_reject",
               "policy_reject", "internal_error"}
SixKinds == {"connect", "timeout", "dns", "reset", "body", "other"}
ClassOf(detail) == IF detail = "none" THEN "internal_error" ELSE Category[detail]

LEMMA ClassesKnown ==
  /\ Classes \subseteq SixClasses /\ "internal_error" \in Classes
  /\ \A d \in Details \cup {"none"} : ClassOf(d) \in Classes
  <1>1. \A d \in DOMAIN Category : Category[d] \in SixClasses
    BY DEF Category, SixClasses
  <1> QED
    BY <1>1, StatsAssumption DEF Classes, SixClasses, ClassOf

LEMMA FetchKnown ==
  /\ Range(FetchKinds) \subseteq SixKinds
  /\ \A k \in SixKinds : Fetch[k] \notin SixClasses /\ Fetch[k] \in Range(Fetch) /\ k # "none"
  /\ \A k, l \in SixKinds : Fetch[k] = Fetch[l] => k = l
  /\ Range(Fetch) = {"ferr_connect", "ferr_timeout", "ferr_dns", "ferr_reset", "ferr_body", "ferr_other"}
  <1>1. Range(FetchKinds) \subseteq SixKinds
    BY StatsAssumption DEF Range, SixKinds
  <1>2. Range(Fetch) = {"ferr_connect", "ferr_timeout", "ferr_dns", "ferr_reset", "ferr_body", "ferr_other"}
    BY DEF Fetch, Range
  <1>3. \A k \in SixKinds : Fetch[k] \notin SixClasses /\ k # "none" /\ k \in DOMAIN Fetch
    BY DEF Fetch, SixKinds, SixClasses
  <1>4. \A k, l \in SixKinds : Fetch[k] = Fetch[l] => k = l
    BY DEF Fetch, SixKinds
  <1> QED
    BY <1>1, <1>2, <1>3, <1>4 DEF Range

Fixed == {"requests", "errors", "cache_hits", "cache_misses", "retry_attempts", "retry_saved",
          "http_responses", "cache_stale_served", "upstream"}

LEMMA CountersKnown ==
  /\ Fixed \subseteq Counter /\ SixClasses \subseteq Counter /\ Classes \subseteq Counter
  /\ \A k \in Range(FetchKinds) : Fetch[k] \in Counter
  /\ IsFiniteSet(Counter)
  <1> DEFINE Names == Fixed \cup SixClasses \cup Range(Fetch)
             a == <<"requests", "errors", "cache_hits", "cache_misses">>
             b == [i \in DOMAIN FetchKinds |-> Fetch[FetchKinds[i]]]
             c == <<"retry_attempts", "retry_saved", "http_responses", "cache_stale_served", "upstream">>
             d == <<"perr_upstream_status", "decode_error", "encode_error", "size_reject", "policy_reject",
                    "internal_error">>
  <1>1. a \in Seq(Names) /\ Range(a) = {"requests", "errors", "cache_hits", "cache_misses"}
    <2>1. DOMAIN a = 1 .. 4 /\ 1 .. 4 = {1, 2, 3, 4}
      BY SMT
    <2> QED
      BY <2>1 DEF Range, Names, Fixed
  <1>2. b \in Seq(Names) /\ \A k \in Range(FetchKinds) : Fetch[k] \in Range(b)
    <2>1. FetchKinds \in Seq(SixKinds)
      BY StatsAssumption DEF SixKinds
    <2>2. \A i \in DOMAIN FetchKinds : Fetch[FetchKinds[i]] \in Names
      <3>1. \A k \in SixKinds : Fetch[k] \in Range(Fetch)
        BY FetchKnown
      <3>2. \A i \in DOMAIN FetchKinds : FetchKinds[i] \in SixKinds
        BY <2>1
      <3> QED
        BY <3>1, <3>2
    <2>3. DOMAIN FetchKinds = 1 .. Len(FetchKinds) /\ Len(FetchKinds) \in Nat
      BY <2>1
    <2> QED
      BY <2>2, <2>3 DEF Range
  <1>3. /\ c \in Seq(Names)
        /\ Range(c) = {"retry_attempts", "retry_saved", "http_responses", "cache_stale_served", "upstream"}
    <2>1. DOMAIN c = 1 .. 5 /\ 1 .. 5 = {1, 2, 3, 4, 5}
      BY SMT
    <2> QED
      BY <2>1 DEF Range, Names, Fixed
  <1>4. d \in Seq(Names) /\ Range(d) = SixClasses
    <2>1. DOMAIN d = 1 .. 6 /\ 1 .. 6 = {1, 2, 3, 4, 5, 6}
      BY SMT
    <2> QED
      BY <2>1 DEF Range, SixClasses, Names
  <1> HIDE DEF a, b, c, d
  <1>5. Counter = Range(a \o b \o c \o d)
    BY DEF Counter, Swept, a, b, c, d
  <1>6. a \o b \in Seq(Names) /\ Range(a \o b) = Range(a) \cup Range(b)
    BY <1>1, <1>2, RangeOfConcat
  <1> DEFINE ab == a \o b
             abc == ab \o c
  <1>7. abc \in Seq(Names) /\ Range(abc) = Range(ab) \cup Range(c)
    <2> HIDE DEF ab
    <2>1. ab \in Seq(Names)
      BY <1>6 DEF ab
    <2> QED
      BY <2>1, <1>3, RangeOfConcat
  <1>8. Range(abc \o d) = Range(abc) \cup Range(d)
    <2> HIDE DEF abc
    <2> QED
      BY <1>7, <1>4, RangeOfConcat
  <1>9. IsFiniteSet(Counter)
    <2>1. Swept \in Seq(STRING) /\ Len(Swept) \in Nat /\ DOMAIN Swept = 1 .. Len(Swept)
      BY SweptAssumption
    <2>2. Swept \in Surjection(1 .. Len(Swept), Counter)
      BY <2>1 DEF Surjection, Counter, Range
    <2>3. IsFiniteSet(1 .. Len(Swept))
      BY <2>1, FS_Interval, 1 \in Int
    <2> QED
      BY <2>2, <2>3, FS_Surjection
  <1> QED
    BY <1>1, <1>2, <1>3, <1>4, <1>5, <1>6, <1>7, <1>8, <1>9, ClassesKnown DEF Fixed

Timings ==
  [cache : CacheResults \cup {"none"}, fetch : Range(FetchKinds) \cup {"none"},
   upstream : BOOLEAN, retried : BOOLEAN, rescued : BOOLEAN]

Maybe(condition, c) == IF condition THEN {c} ELSE {}

LEMMA WhenFacts ==
  ASSUME NEW S, NEW c \in S, NEW condition
  PROVE  /\ When(condition, c) \in Seq(S) /\ IsInjective(When(condition, c))
         /\ Range(When(condition, c)) = Maybe(condition, c)
  BY AtMostOne DEF When, Maybe

\* The sets of counters that the parts of a summary count.
Answered(t, status, labelled, detail) ==
  {"requests"} \cup Maybe(t.upstream, "upstream") \cup Maybe(status >= 400 \/ labelled, "errors")
  \cup Maybe(labelled /\ t.fetch = "none", ClassOf(detail))
Cached(t) ==
  Maybe(t.cache \in {"hit", "joined"}, "cache_hits") \cup Maybe(t.cache = "miss", "cache_misses")
  \cup Maybe(t.cache = "stale", "cache_stale_served")
Fetched(t, status) ==
  Maybe(t.fetch # "none", Fetch[t.fetch]) \cup Maybe(t.retried /\ status = 200, "retry_saved")

\* A summary counts these, and each of them once.
LEMMA CountsRange ==
  ASSUME NEW t \in Timings, NEW status, NEW labelled, NEW detail \in Details \cup {"none"}
  PROVE  LET s == Counts(t, status, labelled, detail)
         IN  /\ s \in Seq(Counter) /\ IsInjective(s)
             /\ Range(s) = Answered(t, status, labelled, detail) \cup Cached(t) \cup Fetched(t, status)
  <1> DEFINE class == ClassOf(detail)
             f == IF t.fetch = "none" THEN <<>> ELSE <<Fetch[t.fetch]>>
             p1 == <<"requests">>
             p2 == p1 \o When(t.upstream, "upstream")
             p3 == p2 \o When(status >= 400 \/ labelled, "errors")
             p4 == p3 \o When(labelled /\ t.fetch = "none", class)
             p5 == p4 \o When(t.cache \in {"hit", "joined"}, "cache_hits")
             p6 == p5 \o When(t.cache = "miss", "cache_misses")
             p7 == p6 \o When(t.cache = "stale", "cache_stale_served")
             p8 == p7 \o f
             p9 == p8 \o When(t.retried /\ status = 200, "retry_saved")
             M2 == Maybe(t.upstream, "upstream")
             M3 == Maybe(status >= 400 \/ labelled, "errors")
             M4 == Maybe(labelled /\ t.fetch = "none", class)
             M5 == Maybe(t.cache \in {"hit", "joined"}, "cache_hits")
             M6 == Maybe(t.cache = "miss", "cache_misses")
             M7 == Maybe(t.cache = "stale", "cache_stale_served")
             M8 == Maybe(t.fetch # "none", Fetch[t.fetch])
             M9 == Maybe(t.retried /\ status = 200, "retry_saved")
  <1>1. Counts(t, status, labelled, detail) = p9
    BY DEF Counts, ClassOf
  <1>2. Fixed \subseteq Counter /\ class \in Counter /\ class \in SixClasses
    BY CountersKnown, ClassesKnown
  <1>3. f \in Seq(Counter) /\ IsInjective(f) /\ Range(f) = M8 /\ M8 \subseteq Range(Fetch)
    <2>1. CASE t.fetch = "none"
      BY <1>2, <2>1, AtMostOne DEF Maybe, Fixed
    <2>2. CASE t.fetch # "none"
      <3>1. t.fetch \in Range(FetchKinds)
        BY <2>2 DEF Timings
      <3>2. Fetch[t.fetch] \in Counter /\ Fetch[t.fetch] \in Range(Fetch)
        BY <3>1, CountersKnown, FetchKnown
      <3> QED
        BY <2>2, <3>2, AtMostOne DEF Maybe
    <2> QED
      BY <2>1, <2>2
  <1>4. /\ M2 \subseteq {"upstream"} /\ M3 \subseteq {"errors"} /\ M4 \subseteq SixClasses
        /\ M5 \subseteq {"cache_hits"} /\ M6 \subseteq {"cache_misses"}
        /\ M7 \subseteq {"cache_stale_served"} /\ M9 \subseteq {"retry_saved"}
    BY <1>2 DEF Maybe
  <1>5. Answered(t, status, labelled, detail) \cup Cached(t) \cup Fetched(t, status)
        = {"requests"} \cup M2 \cup M3 \cup M4 \cup M5 \cup M6 \cup M7 \cup M8 \cup M9
    BY DEF Answered, Cached, Fetched
  <1>w. \A condition, c : c \in Counter =>
          /\ When(condition, c) \in Seq(Counter) /\ IsInjective(When(condition, c))
          /\ Range(When(condition, c)) = Maybe(condition, c)
    BY WhenFacts
  <1>d. Range(Fetch) = {"ferr_connect", "ferr_timeout", "ferr_dns", "ferr_reset", "ferr_body", "ferr_other"}
    BY FetchKnown
  <1> DEFINE R2 == {"requests"} \cup M2
             R3 == R2 \cup M3
             R4 == R3 \cup M4
             R5 == R4 \cup M5
             R6 == R5 \cup M6
             R7 == R6 \cup M7
             R8 == R7 \cup M8
             R9 == R8 \cup M9
  <1>s. /\ R2 \subseteq {"requests", "upstream"} /\ R3 \subseteq {"requests", "upstream", "errors"}
        /\ R4 \subseteq {"requests", "upstream", "errors"} \cup SixClasses
        /\ R5 \subseteq {"requests", "upstream", "errors", "cache_hits"} \cup SixClasses
        /\ R6 \subseteq {"requests", "upstream", "errors", "cache_hits", "cache_misses"} \cup SixClasses
        /\ R7 \subseteq {"requests", "upstream", "errors", "cache_hits", "cache_misses", "cache_stale_served"}
                        \cup SixClasses
    <2>1. /\ R2 \subseteq {"requests", "upstream"} /\ R3 \subseteq {"requests", "upstream", "errors"}
          /\ R4 \subseteq {"requests", "upstream", "errors"} \cup SixClasses
      <3> HIDE DEF M2, M3, M4
      <3> QED
        BY <1>4
    <2>2. R5 \subseteq {"requests", "upstream", "errors", "cache_hits"} \cup SixClasses
      <3> HIDE DEF M5, R4
      <3> QED
        BY <1>4, <2>1
    <2>3. R6 \subseteq {"requests", "upstream", "errors", "cache_hits", "cache_misses"} \cup SixClasses
      <3> HIDE DEF M6, R5
      <3> QED
        BY <1>4, <2>2
    <2>4. R7 \subseteq {"requests", "upstream", "errors", "cache_hits", "cache_misses", "cache_stale_served"}
                        \cup SixClasses
      <3> HIDE DEF M7, R6
      <3> QED
        BY <1>4, <2>3
    <2> QED
      BY <2>1, <2>2, <2>3, <2>4
  <1>e. R7 \cap M8 = {} /\ R8 \cap M9 = {}
    <2> HIDE DEF M8, M9, R7
    <2>1. R7 \cap M8 = {}
      BY <1>s, <1>3, <1>d DEF SixClasses
    <2>2. R8 \cap M9 = {}
      BY <1>s, <1>3, <1>4, <1>d DEF SixClasses
    <2> QED
      BY <2>1, <2>2
  <1>x. /\ {"requests"} \cap M2 = {} /\ R2 \cap M3 = {} /\ R3 \cap M4 = {} /\ R4 \cap M5 = {}
        /\ R5 \cap M6 = {} /\ R6 \cap M7 = {}
    <2> HIDE DEF M2, M3, M4, M5, M6, M7, R2, R3, R4, R5, R6
    <2> QED
      BY <1>4, <1>s DEF SixClasses
  <1>p1. p1 \in Seq(Counter) /\ IsInjective(p1) /\ Range(p1) = {"requests"}
    BY <1>2, AtMostOne DEF Fixed
  <1> HIDE DEF p1
  <1>p2. p2 \in Seq(Counter) /\ IsInjective(p2) /\ Range(p2) = R2
    BY <1>p1, <1>w, <1>2, <1>x, RangeOfConcat DEF Fixed
  <1> HIDE DEF p2, R2
  <1>p3. p3 \in Seq(Counter) /\ IsInjective(p3) /\ Range(p3) = R3
    BY <1>p2, <1>w, <1>2, <1>x, RangeOfConcat DEF Fixed
  <1> HIDE DEF p3, R3
  <1>p4. p4 \in Seq(Counter) /\ IsInjective(p4) /\ Range(p4) = R4
    BY <1>p3, <1>w, <1>2, <1>x, RangeOfConcat
  <1> HIDE DEF p4, R4
  <1>p5. p5 \in Seq(Counter) /\ IsInjective(p5) /\ Range(p5) = R5
    BY <1>p4, <1>w, <1>2, <1>x, RangeOfConcat DEF Fixed
  <1> HIDE DEF p5, R5
  <1>p6. p6 \in Seq(Counter) /\ IsInjective(p6) /\ Range(p6) = R6
    BY <1>p5, <1>w, <1>2, <1>x, RangeOfConcat DEF Fixed
  <1> HIDE DEF p6, R6
  <1>p7. p7 \in Seq(Counter) /\ IsInjective(p7) /\ Range(p7) = R7
    BY <1>p6, <1>w, <1>2, <1>x, RangeOfConcat DEF Fixed
  <1> HIDE DEF p7, R7, f, M2, M3, M4, M5, M6, M7, M8
  <1>p8. p8 \in Seq(Counter) /\ IsInjective(p8) /\ Range(p8) = R8
    BY <1>p7, <1>3, <1>e, RangeOfConcat
  <1> HIDE DEF p8, R8
  <1>p9. p9 \in Seq(Counter) /\ IsInjective(p9) /\ Range(p9) = R9
    BY <1>p8, <1>w, <1>2, <1>e, RangeOfConcat DEF Fixed
  <1>r. R9 = {"requests"} \cup M2 \cup M3 \cup M4 \cup M5 \cup M6 \cup M7 \cup M8 \cup M9
    BY Zenon DEF R2, R3, R4, R5, R6, R7, R8
  <1> QED
    BY <1>1, <1>p9, <1>r, <1>5

LEMMA CountsFacts ==
  ASSUME NEW t \in Timings, NEW status, NEW labelled, NEW detail \in Details \cup {"none"}
  PROVE  LET s == Counts(t, status, labelled, detail)
         IN  /\ "requests" \in Range(s) /\ "retry_attempts" \notin Range(s)
             /\ "errors" \in Range(s) <=> status >= 400 \/ labelled
             /\ "cache_hits" \in Range(s) <=> t.cache \in {"hit", "joined"}
             /\ "cache_misses" \in Range(s) <=> t.cache = "miss"
             /\ "cache_stale_served" \in Range(s) <=> t.cache = "stale"
             /\ "retry_saved" \in Range(s) => t.retried
             /\ \A k \in Range(FetchKinds) : Fetch[k] \in Range(s) <=> t.fetch = k
             /\ \A c \in Classes :
                  c \in Range(s) <=> labelled /\ t.fetch = "none" /\ c = ClassOf(detail)
  <1> DEFINE R == Answered(t, status, labelled, detail) \cup Cached(t) \cup Fetched(t, status)
  <1>1. Range(Counts(t, status, labelled, detail)) = R
    BY CountsRange
  <1>2. Maybe(labelled /\ t.fetch = "none", ClassOf(detail)) \subseteq SixClasses
    BY ClassesKnown DEF Maybe
  <1>3. Maybe(t.fetch # "none", Fetch[t.fetch]) \subseteq Range(Fetch)
    <2>1. t.fetch # "none" => t.fetch \in SixKinds
      BY FetchKnown DEF Timings
    <2> QED
      BY <2>1, FetchKnown DEF Maybe
  <1>f. Range(Fetch) = {"ferr_connect", "ferr_timeout", "ferr_dns", "ferr_reset", "ferr_body", "ferr_other"}
    BY FetchKnown
  <1> DEFINE M4 == Maybe(labelled /\ t.fetch = "none", ClassOf(detail))
             M8 == Maybe(t.fetch # "none", Fetch[t.fetch])
  <1>4. ASSUME NEW c \in Fixed
        PROVE  /\ c \notin M4 /\ c \notin M8
               /\ c \in R <=> \/ c = "requests"
                              \/ t.upstream /\ c = "upstream"
                              \/ (status >= 400 \/ labelled) /\ c = "errors"
                              \/ c \in Cached(t)
                              \/ t.retried /\ status = 200 /\ c = "retry_saved"
    <2>1. c \notin M4 /\ c \notin M8
      <3> HIDE DEF M4, M8
      <3>1. M4 \subseteq SixClasses /\ M8 \subseteq Range(Fetch)
        BY <1>2, <1>3 DEF M4, M8
      <3> QED
        BY <3>1, <1>f DEF Fixed, SixClasses
    <2>2. c \in R <=> c \in Answered(t, status, labelled, detail) \/ c \in Cached(t) \/ c \in Fetched(t, status)
      OBVIOUS
    <2>3. c \in Answered(t, status, labelled, detail)
          <=> c = "requests" \/ (t.upstream /\ c = "upstream") \/ ((status >= 400 \/ labelled) /\ c = "errors")
      BY <2>1 DEF Answered, Maybe
    <2>4. c \in Fetched(t, status) <=> t.retried /\ status = 200 /\ c = "retry_saved"
      BY <2>1 DEF Fetched, Maybe
    <2> QED
      BY <2>1, <2>2, <2>3, <2>4
  <1>5. Cached(t) \subseteq {"cache_hits", "cache_misses", "cache_stale_served"}
    BY DEF Cached, Maybe
  <1>6. /\ "cache_hits" \in Cached(t) <=> t.cache \in {"hit", "joined"}
        /\ "cache_misses" \in Cached(t) <=> t.cache = "miss"
        /\ "cache_stale_served" \in Cached(t) <=> t.cache = "stale"
    BY DEF Cached, Maybe
  <1>7. ASSUME NEW k \in Range(FetchKinds)
        PROVE  Fetch[k] \in R <=> t.fetch = k
    <2>1. k \in SixKinds /\ Fetch[k] \in Range(Fetch) /\ Fetch[k] \notin SixClasses
      BY FetchKnown
    <2>2. Fetch[k] \notin Fixed
      BY <2>1, <1>f DEF Fixed
    <2>3. Fetch[k] \notin Answered(t, status, labelled, detail) /\ Fetch[k] \notin Cached(t)
      <3>1. Fetch[k] \notin M4
        BY <1>2, <2>1
      <3> QED
        BY <2>2, <3>1, <1>5 DEF Answered, Maybe, Fixed
    <2>4. Fetch[k] \in Fetched(t, status) <=> Fetch[k] \in M8
      BY <2>2 DEF Fetched, Maybe, Fixed
    <2>5. t.fetch # "none" => t.fetch \in SixKinds
      BY FetchKnown DEF Timings
    <2>6. Fetch[k] \in M8 <=> t.fetch = k
      BY <2>1, <2>5, FetchKnown DEF Maybe
    <2> QED
      BY <2>3, <2>4, <2>6
  <1>8. ASSUME NEW c \in Classes
        PROVE  c \in R <=> labelled /\ t.fetch = "none" /\ c = ClassOf(detail)
    <2>1. c \in SixClasses
      BY ClassesKnown
    <2>2. c \notin Fixed /\ c \notin Range(Fetch)
      BY <2>1, <1>f DEF SixClasses, Fixed
    <2>3. c \notin Cached(t) /\ c \notin Fetched(t, status)
      <3>1. c \notin M8
        BY <1>3, <2>2
      <3> QED
        BY <2>2, <3>1, <1>5 DEF Fetched, Maybe, Fixed
    <2>4. c \in Answered(t, status, labelled, detail) <=> c \in M4
      BY <2>2 DEF Answered, Maybe, Fixed
    <2> QED
      BY <2>3, <2>4 DEF Maybe
  <1> HIDE DEF R, M4, M8
  <1>9. \A c \in Fixed : c \in R <=> \/ c = "requests"
                                     \/ t.upstream /\ c = "upstream"
                                     \/ (status >= 400 \/ labelled) /\ c = "errors"
                                     \/ c \in Cached(t)
                                     \/ t.retried /\ status = 200 /\ c = "retry_saved"
    BY <1>4
  <1>10. "requests" \in R /\ "retry_attempts" \notin R /\ ("errors" \in R <=> status >= 400 \/ labelled)
         /\ ("retry_saved" \in R => t.retried)
    BY <1>9, <1>5 DEF Fixed
  <1>11. /\ "cache_hits" \in R <=> "cache_hits" \in Cached(t)
         /\ "cache_misses" \in R <=> "cache_misses" \in Cached(t)
         /\ "cache_stale_served" \in R <=> "cache_stale_served" \in Cached(t)
    BY <1>9 DEF Fixed
  <1> QED
    BY <1>1, <1>6, <1>7, <1>8, <1>10, <1>11

\* Of the counters of errors, a summary counts at most one.
LEMMA OneError ==
  ASSUME NEW t \in Timings, NEW status, NEW labelled, NEW detail \in Details \cup {"none"}
  PROVE  \E x : \A c \in ErrorCounters :
           c \in Range(Counts(t, status, labelled, detail)) <=> c = x
  <1> DEFINE s == Counts(t, status, labelled, detail)
  <1>1. \A k \in Range(FetchKinds) : Fetch[k] \in Range(s) <=> t.fetch = k
    BY CountsFacts
  <1>2. \A c \in Classes : c \in Range(s) <=> labelled /\ t.fetch = "none" /\ c = ClassOf(detail)
    BY CountsFacts
  <1>3. Classes \subseteq SixClasses /\ ClassOf(detail) \in Classes
    BY ClassesKnown
  <1>4. /\ Range(FetchKinds) \subseteq SixKinds
        /\ \A k \in SixKinds : Fetch[k] \notin SixClasses /\ k # "none"
        /\ \A k, l \in SixKinds : Fetch[k] = Fetch[l] => k = l
    BY FetchKnown
  <1>5. t.fetch \in Range(FetchKinds) \cup {"none"}
    BY DEF Timings
  <1> SUFFICES \E x : \A c \in ErrorCounters : c \in Range(s) <=> c = x
    BY Zenon
  <1> HIDE DEF s
  <1>6. CASE t.fetch # "none"
    <2>1. \A c \in ErrorCounters : c \in Range(s) <=> c = Fetch[t.fetch]
      BY <1>1, <1>2, <1>3, <1>4, <1>5, <1>6 DEF ErrorCounters
    <2> WITNESS Fetch[t.fetch]
    <2> QED
      BY <2>1
  <1>7. CASE t.fetch = "none" /\ labelled
    <2>1. \A c \in ErrorCounters : c \in Range(s) <=> c = ClassOf(detail)
      BY <1>1, <1>2, <1>3, <1>4, <1>7 DEF ErrorCounters
    <2> WITNESS ClassOf(detail)
    <2> QED
      BY <2>1
  <1>8. CASE t.fetch = "none" /\ ~ labelled
    <2>1. "requests" \notin ErrorCounters
      <3>1. "requests" \notin SixClasses /\ \A k \in SixKinds : Fetch[k] # "requests"
        BY DEF SixClasses, Fetch, SixKinds
      <3> QED
        BY <3>1, <1>3, <1>4 DEF ErrorCounters
    <2>2. \A c \in ErrorCounters : c \in Range(s) <=> c = "requests"
      BY <1>1, <1>2, <1>4, <1>8, <2>1 DEF ErrorCounters
    <2> WITNESS "requests"
    <2> QED
      BY <2>2
  <1> QED
    BY <1>6, <1>7, <1>8
-----------------------------------------------------------------------------
\* The invariant that the two ledgers keep

\* What a request has still to count is part of what will be counted.
Pending(c) == {r \in Requests : c \in Range(todo[r])}
Owed == [c \in Counter |-> made[c] + Cardinality(Pending(c))]

Open == {"start", "check", "sent", "retry", "headers", "encode"}
Ledger ==
  [requests : Nat, errors : Nat, active : Int, attempts : Nat, successes : Nat,
   cache : [CacheResults -> Nat], fetch : [Range(FetchKinds) -> Nat], processing : [Classes -> Nat]]

\* Types of what the two ledgers are made of; a summary counts nothing twice.
LedgerTypes ==
  /\ made \in [Counter -> Nat] /\ otlp \in Ledger
  /\ pc \in [Requests -> Open \cup {"new", "emit", "answered", "dropped"}]
  /\ timings \in [Requests -> Timings]
  /\ todo \in [Requests -> Seq(Counter)] /\ \A r \in Requests : IsInjective(todo[r])
  /\ failed \in [Requests -> BOOLEAN]

\* How far a request is, and what it has collected.
Collected(label, t, left) ==
  /\ label # "emit" => left = <<>>
  /\ label \in {"new", "start", "check"} => ~ t.retried /\ ~ t.rescued
  /\ label \in Open \ {"start"} => t.cache # "none"
  /\ t.rescued => t.retried
Progress == \A r \in Requests : Collected(pc[r], timings[r], todo[r])

Failing == {r \in Requests : pc[r] = "emit" /\ failed[r]}
\* Requests that may still be answered thanks to a retry they have made.
Retries(label, t) == label \in Open /\ (t.retried \/ label = "retry")
Retrying == {r \in Requests : Retries(pc[r], timings[r])}
Active == Requests \ (With("new") \cup With("answered") \cup With("dropped"))

\* The ledger of the requests, and the counters as they will be.
Entries(o, owed) ==
  /\ o.cache["hit"] + o.cache["joined"] = owed["cache_hits"]
  /\ o.cache["miss"] = owed["cache_misses"] /\ o.cache["stale"] = owed["cache_stale_served"]
  /\ SumFunctionOnSet(o.cache, CacheResults) = owed["requests"]
  /\ \A k \in Range(FetchKinds) : o.fetch[k] = owed[Fetch[k]]
  /\ \A c \in Classes \ {"perr_upstream_status", "internal_error"} : o.processing[c] = owed[c]
  /\ SumFunctionOnSet(owed, ErrorCounters) <= owed["requests"]

\* Both of them, and the requests under way.
Accounts(o, owed, emitting, answered, active, failing, retrying) ==
  /\ owed["requests"] = o.requests + emitting /\ o.requests = answered /\ o.active = active
  /\ o.errors + failing <= owed["errors"] /\ owed["errors"] <= o.errors + failing + o.cache["stale"]
  /\ o.attempts = owed["retry_attempts"]
  /\ owed["retry_saved"] + retrying <= o.attempts /\ o.successes + retrying <= o.attempts

Balance ==
  /\ Entries(otlp, Owed)
  /\ Accounts(otlp, Owed, Cardinality(With("emit")), Cardinality(With("answered")), Cardinality(Active),
              Cardinality(Failing), Cardinality(Retrying))

Ledgers == LedgerTypes /\ Progress /\ Balance

LEMMA Counting ==
  ASSUME NEW A \in SUBSET Requests
  PROVE  /\ Cardinality(A) \in Nat /\ Cardinality({}) = 0
         /\ \A r \in Requests : /\ Cardinality(A \cup {r}) = Cardinality(A) + One(r \notin A)
                                /\ Cardinality(A \ {r}) = Cardinality(A) - One(r \in A)
  <1>1. IsFiniteSet(A)
    BY StatsAssumption, FS_Subset
  <1>2. Cardinality(A) \in Nat /\ Cardinality({}) = 0
    BY <1>1, FS_CardinalityType, FS_EmptySet
  <1>3. \A r : Cardinality(A \cup {r}) = Cardinality(A) + One(r \notin A)
    BY <1>1, <1>2, FS_AddElement DEF One
  <1>4. \A r : Cardinality(A \ {r}) = Cardinality(A) - One(r \in A)
    BY <1>1, <1>2, FS_RemoveElement DEF One
  <1> QED
    BY <1>2, <1>3, <1>4

LEMMA OwedType ==
  ASSUME made \in [Counter -> Nat]
  PROVE  Owed \in [Counter -> Nat]
  <1>1. \A c : Pending(c) \in SUBSET Requests
    BY DEF Pending
  <1> QED
    BY <1>1, Counting DEF Owed

LEMMA OwedKept ==
  ASSUME UNCHANGED <<made, todo>>
  PROVE  Owed' = Owed
  BY DEF Owed, Pending

LEMMA OwedIncrement ==
  ASSUME made \in [Counter -> Nat], NEW c \in Counter, Increment(c), UNCHANGED todo
  PROVE  \A d \in Counter : Owed'[d] = Owed[d] + One(d = c)
  <1> SUFFICES ASSUME NEW d \in Counter PROVE Owed'[d] = Owed[d] + One(d = c)
    OBVIOUS
  <1>1. Pending(d)' = Pending(d) /\ Pending(d) \in SUBSET Requests
    BY DEF Pending
  <1>2. made'[d] = made[d] + One(d = c) /\ made[d] \in Nat
    BY DEF Increment, One
  <1>3. Cardinality(Pending(d)) \in Nat /\ One(d = c) \in Nat
    BY <1>1, Counting DEF One
  <1>4. Owed[d] = made[d] + Cardinality(Pending(d)) /\ Owed'[d] = made'[d] + Cardinality(Pending(d))
    BY <1>1 DEF Owed
  <1> QED
    BY <1>2, <1>3, <1>4

\* The next counter of a summary moves from what is to be counted to what is counted.
LEMMA OwedEmitNext ==
  ASSUME LedgerTypes, NEW r \in Requests, EmitNext(r)
  PROVE  /\ Owed' = Owed /\ made' \in [Counter -> Nat]
         /\ todo'[r] \in Seq(Counter) /\ IsInjective(todo'[r])
         /\ \A q \in Requests \ {r} : todo'[q] = todo[q]
  <1> DEFINE s == todo[r]
             c == Head(s)
  <1>1. s \in Seq(Counter) /\ s # <<>> /\ IsInjective(s) /\ todo' = [todo EXCEPT ![r] = Tail(s)]
    BY DEF LedgerTypes, EmitNext
  <1>2. c \in Counter /\ Tail(s) \in Seq(Counter)
    BY <1>1, HeadTailProperties
  <1>3. todo'[r] = Tail(s) /\ \A q \in Requests \ {r} : todo'[q] = todo[q]
    BY <1>1 DEF LedgerTypes
  <1>4. /\ DOMAIN s = 1 .. Len(s) /\ DOMAIN Tail(s) = 1 .. Len(s) - 1 /\ Len(s) \in Nat /\ Len(s) >= 1
        /\ c = s[1] /\ \A i \in 1 .. Len(s) - 1 : Tail(s)[i] = s[i + 1]
    BY <1>1
  <1> HIDE DEF s
  <1>5. IsInjective(Tail(s))
    BY <1>1, <1>4 DEF IsInjective
  <1>6. Range(Tail(s)) = Range(s) \ {c} /\ c \in Range(s)
    <2>1. \A i \in 1 .. Len(s) - 1 : i + 1 \in DOMAIN s /\ i + 1 # 1
      BY <1>4
    <2>2. \A j \in DOMAIN s : j # 1 => j - 1 \in DOMAIN Tail(s) /\ s[j] = Tail(s)[j - 1]
      BY <1>4
    <2>3. \A j \in DOMAIN s : j # 1 => s[j] # c
      BY <1>1, <1>4 DEF IsInjective
    <2>4. Range(Tail(s)) \subseteq Range(s) \ {c}
      BY <1>4, <2>1, <2>3 DEF Range
    <2>5. Range(s) \ {c} \subseteq Range(Tail(s))
      BY <1>4, <2>2 DEF Range
    <2>6. c \in Range(s)
      BY <1>4 DEF Range
    <2> QED
      BY <2>4, <2>5, <2>6
  <1>7. made' = [made EXCEPT ![c] = @ + 1] /\ made \in [Counter -> Nat]
    BY DEF EmitNext, Increment, LedgerTypes, s
  <1>8. made' \in [Counter -> Nat]
    BY <1>7, Counted
  <1>9. ASSUME NEW d \in Counter
        PROVE  made'[d] + Cardinality(Pending(d)') = made[d] + Cardinality(Pending(d))
    <2>1. Pending(d) \in SUBSET Requests /\ (r \in Pending(d) <=> d \in Range(s))
      BY DEF Pending, s
    <2>2. Pending(d)' = IF d = c THEN Pending(d) \ {r} ELSE Pending(d)
      BY <1>3, <1>6, <2>1 DEF Pending, s
    <2>3. made'[d] = made[d] + One(d = c) /\ made[d] \in Nat
      BY <1>7 DEF One
    <2>4. /\ Cardinality(Pending(d)) \in Nat
          /\ Cardinality(Pending(d) \ {r}) = Cardinality(Pending(d)) - One(r \in Pending(d))
      BY <2>1, Counting
    <2>5. CASE d = c
      <3>1. r \in Pending(d)
        BY <1>6, <2>1, <2>5
      <3> QED
        BY <2>2, <2>3, <2>4, <2>5, <3>1 DEF One
    <2>6. CASE d # c
      BY <2>2, <2>3, <2>4, <2>6 DEF One
    <2> QED
      BY <2>5, <2>6
  <1>10. Owed' = Owed
    BY <1>9, Zenon DEF Owed
  <1> QED
    BY <1>2, <1>3, <1>5, <1>8, <1>10

\* A summary owes what it counts.
LEMMA OwedEmit ==
  ASSUME LedgerTypes, NEW r \in Requests, todo[r] = <<>>, NEW s,
         todo' = [todo EXCEPT ![r] = s], UNCHANGED made
  PROVE  \A d \in Counter : Owed'[d] = Owed[d] + One(d \in Range(s))
  <1> SUFFICES ASSUME NEW d \in Counter PROVE Owed'[d] = Owed[d] + One(d \in Range(s))
    OBVIOUS
  <1>1. todo'[r] = s /\ \A q \in Requests \ {r} : todo'[q] = todo[q]
    BY DEF LedgerTypes
  <1>2. Range(todo[r]) = {}
    BY DEF Range
  <1>3. Pending(d) \in SUBSET Requests /\ r \notin Pending(d)
    BY <1>2 DEF Pending
  <1>4. Pending(d)' = IF d \in Range(s) THEN Pending(d) \cup {r} ELSE Pending(d)
    BY <1>1, <1>3 DEF Pending
  <1>5. Cardinality(Pending(d)') = Cardinality(Pending(d)) + One(d \in Range(s)) /\ Cardinality(Pending(d)) \in Nat
    BY <1>3, <1>4, Counting DEF One
  <1>6. made[d] \in Nat /\ One(d \in Range(s)) \in Nat
    BY DEF LedgerTypes, One
  <1>7. Owed[d] = made[d] + Cardinality(Pending(d)) /\ Owed'[d] = made[d] + Cardinality(Pending(d)')
    BY DEF Owed
  <1> QED
    BY <1>5, <1>6, <1>7

LEMMA ErrorCountersKnown ==
  /\ ErrorCounters \subseteq Counter /\ IsFiniteSet(ErrorCounters)
  /\ ErrorCounters \cap Fixed = {}
  /\ \A k \in Range(FetchKinds) : Fetch[k] \in ErrorCounters /\ Fetch[k] \in Counter
  /\ \A c \in Classes : c \in ErrorCounters /\ c \in Counter
  <1>1. ErrorCounters \subseteq Counter
    BY CountersKnown DEF ErrorCounters
  <1>2. IsFiniteSet(ErrorCounters)
    BY <1>1, CountersKnown, FS_Subset
  <1>3. ErrorCounters \subseteq SixClasses \cup Range(Fetch)
    BY ClassesKnown, FetchKnown DEF ErrorCounters
  <1>4. ErrorCounters \cap Fixed = {}
    BY <1>3, FetchKnown DEF Fixed, SixClasses
  <1> QED
    BY <1>1, <1>2, <1>4 DEF ErrorCounters

LEMMA CacheResultsFinite == IsFiniteSet(CacheResults)
  <1>1. IsFiniteSet({"hit"}) /\ IsFiniteSet({"joined"}) /\ IsFiniteSet({"miss"})
        /\ IsFiniteSet({"bypass"}) /\ IsFiniteSet({"stale"})
    BY FS_Singleton
  <1>2. IsFiniteSet({"hit"} \cup {"joined"}) /\ IsFiniteSet({"miss"} \cup {"bypass"})
    BY <1>1, FS_Union
  <1>3. IsFiniteSet(({"hit"} \cup {"joined"}) \cup ({"miss"} \cup {"bypass"}))
    BY <1>2, FS_Union
  <1>4. IsFiniteSet((({"hit"} \cup {"joined"}) \cup ({"miss"} \cup {"bypass"})) \cup {"stale"})
    BY <1>1, <1>3, FS_Union
  <1>5. CacheResults = (({"hit"} \cup {"joined"}) \cup ({"miss"} \cup {"bypass"})) \cup {"stale"}
    BY DEF CacheResults
  <1> QED
    BY <1>4, <1>5

\* One more of a counter that no entry of the other ledger goes with.
LEMMA EntriesKept ==
  ASSUME NEW o, NEW owed \in [Counter -> Nat], NEW new, NEW x \in {"retry_attempts", "http_responses"},
         Entries(o, owed), \A d \in Counter : new[d] = owed[d] + One(d = x)
  PROVE  Entries(o, new)
  <1>1. /\ Fixed \subseteq Counter /\ ErrorCounters \cap Fixed = {} /\ x \in Fixed
        /\ \A c \in ErrorCounters : c \in Counter
    BY CountersKnown, ErrorCountersKnown DEF Fixed
  <1>2. \A d \in Counter : d # x => new[d] = owed[d]
    BY DEF One
  <1>3. \A d \in ErrorCounters : new[d] = owed[d]
    BY <1>1, <1>2
  <1>4. /\ new["requests"] = owed["requests"] /\ new["cache_hits"] = owed["cache_hits"]
        /\ new["cache_misses"] = owed["cache_misses"]
        /\ new["cache_stale_served"] = owed["cache_stale_served"]
    BY <1>1, <1>2 DEF Fixed
  <1>5. SumFunctionOnSet(new, ErrorCounters) = SumFunctionOnSet(owed, ErrorCounters)
    <2>1. \A d \in ErrorCounters : owed[d] \in Nat /\ new[d] = owed[d] + One(d = x)
      BY <1>1
    <2>2. SumFunctionOnSet(new, ErrorCounters) = SumFunctionOnSet(owed, ErrorCounters) + One(x \in ErrorCounters)
      BY <2>1, ErrorCountersKnown, SumOfOneMore
    <2>3. x \notin ErrorCounters
      BY <1>1
    <2>4. SumFunctionOnSet(owed, ErrorCounters) \in Nat
      BY <2>1, ErrorCountersKnown, SumTyped
    <2> QED
      BY <2>2, <2>3, <2>4 DEF One
  <1>6. \A k \in Range(FetchKinds) : o.fetch[k] = new[Fetch[k]]
    BY <1>3, ErrorCountersKnown DEF Entries
  <1>7. \A c \in Classes \ {"perr_upstream_status", "internal_error"} : o.processing[c] = new[c]
    BY <1>3, ErrorCountersKnown DEF Entries
  <1> QED
    BY <1>4, <1>5, <1>6, <1>7 DEF Entries

\* An answer is entered where its summary counts it.
LEMMA EntriesEmit ==
  ASSUME LedgerTypes, NEW owed \in [Counter -> Nat], NEW new, Entries(otlp, owed),
         NEW t \in Timings, t.cache # "none", NEW status, NEW labelled \in BOOLEAN,
         NEW detail \in Details \cup {"none"}, labelled \/ detail = "none",
         \A d \in Counter : new[d] = owed[d] + One(d \in Range(Counts(t, status, labelled, detail)))
  PROVE  Entries(Outcome(t, status, labelled, detail), new)
  <1> DEFINE s == Counts(t, status, labelled, detail)
             o == Outcome(t, status, labelled, detail)
             class == ClassOf(detail)
  <1>1. /\ "requests" \in Range(s)
        /\ "cache_hits" \in Range(s) <=> t.cache \in {"hit", "joined"}
        /\ "cache_misses" \in Range(s) <=> t.cache = "miss"
        /\ "cache_stale_served" \in Range(s) <=> t.cache = "stale"
        /\ \A k \in Range(FetchKinds) : Fetch[k] \in Range(s) <=> t.fetch = k
        /\ \A c \in Classes : c \in Range(s) <=> labelled /\ t.fetch = "none" /\ c = ClassOf(detail)
    BY CountsFacts
  <1>o. /\ o.cache = [c \in CacheResults |-> otlp.cache[c] + One(t.cache = c)]
        /\ o.fetch = [k \in Range(FetchKinds) |-> otlp.fetch[k] + One(t.fetch = k)]
        /\ o.processing =
             [c \in Classes |->
                otlp.processing[c] + One(/\ t.fetch = "none" /\ (status >= 400 \/ labelled)
                                         /\ c # "perr_upstream_status" /\ c = class)]
    <2>1. /\ DOMAIN otlp.fetch = Range(FetchKinds)
          /\ DOMAIN otlp = {"requests", "errors", "active", "attempts", "successes", "cache", "fetch", "processing"}
      BY DEF LedgerTypes, Ledger
    <2> QED
      BY <2>1 DEF Outcome, ClassOf
  <1>2. \A d \in Counter : new[d] = owed[d] + One(d \in Range(s)) /\ owed[d] \in Nat
    OBVIOUS
  <1>3. \E x : \A c \in ErrorCounters : c \in Range(s) <=> c = x
    BY OneError
  <1>4. t.cache \in CacheResults
    BY DEF Timings
  <1>5. /\ \A c \in CacheResults : otlp.cache[c] \in Nat
        /\ \A k \in Range(FetchKinds) : otlp.fetch[k] \in Nat
        /\ \A c \in Classes : otlp.processing[c] \in Nat
    BY DEF LedgerTypes, Ledger
  <1> HIDE DEF s, o
  <1>6. Fixed \subseteq Counter
    BY CountersKnown
  <1>7. o.cache["hit"] + o.cache["joined"] = new["cache_hits"]
    <2>1. o.cache["hit"] + o.cache["joined"]
          = otlp.cache["hit"] + otlp.cache["joined"] + One(t.cache \in {"hit", "joined"})
      BY <1>o, <1>5 DEF CacheResults, One
    <2>2. new["cache_hits"] = owed["cache_hits"] + One(t.cache \in {"hit", "joined"})
      BY <1>1, <1>2, <1>6 DEF Fixed, One
    <2> QED
      BY <2>1, <2>2 DEF Entries
  <1>8. o.cache["miss"] = new["cache_misses"] /\ o.cache["stale"] = new["cache_stale_served"]
    <2>1. /\ o.cache["miss"] = otlp.cache["miss"] + One(t.cache = "miss")
          /\ o.cache["stale"] = otlp.cache["stale"] + One(t.cache = "stale")
      BY <1>o DEF CacheResults
    <2>2. /\ new["cache_misses"] = owed["cache_misses"] + One(t.cache = "miss")
          /\ new["cache_stale_served"] = owed["cache_stale_served"] + One(t.cache = "stale")
      BY <1>1, <1>2, <1>6 DEF Fixed, One
    <2> QED
      BY <2>1, <2>2 DEF Entries
  <1>9. SumFunctionOnSet(o.cache, CacheResults) = new["requests"]
    <2> DEFINE f == otlp.cache
               g == o.cache
               result == t.cache
    <2>1. \A c \in CacheResults : f[c] \in Nat
      BY <1>5
    <2>2. \A c \in CacheResults : g[c] = f[c] + One(c = result)
      BY <1>o, <1>5 DEF One
    <2> HIDE DEF f, g, result
    <2>3. SumFunctionOnSet(g, CacheResults) = SumFunctionOnSet(f, CacheResults) + One(result \in CacheResults)
      BY <2>1, <2>2, CacheResultsFinite, SumOfOneMore
    <2> USE DEF f, g, result
    <2>4. new["requests"] = owed["requests"] + 1
      BY <1>1, <1>2, <1>6 DEF Fixed, One
    <2> QED
      BY <1>4, <2>3, <2>4 DEF Entries, One
  <1>10. \A k \in Range(FetchKinds) : o.fetch[k] = new[Fetch[k]]
    <2> SUFFICES ASSUME NEW k \in Range(FetchKinds) PROVE o.fetch[k] = new[Fetch[k]]
      OBVIOUS
    <2>1. o.fetch[k] = otlp.fetch[k] + One(t.fetch = k)
      BY <1>o
    <2>2. new[Fetch[k]] = owed[Fetch[k]] + One(t.fetch = k)
      BY <1>1, <1>2, ErrorCountersKnown DEF One
    <2> QED
      BY <2>1, <2>2 DEF Entries
  <1>11. \A c \in Classes \ {"perr_upstream_status", "internal_error"} : o.processing[c] = new[c]
    <2> SUFFICES ASSUME NEW c \in Classes, c # "perr_upstream_status", c # "internal_error"
                 PROVE  o.processing[c] = new[c]
      OBVIOUS
    <2>1. c = class => labelled
      BY DEF ClassOf
    <2>2. o.processing[c] = otlp.processing[c] + One(t.fetch = "none" /\ labelled /\ c = class)
      BY <1>o, <2>1 DEF One
    <2>3. new[c] = owed[c] + One(t.fetch = "none" /\ labelled /\ c = class)
      BY <1>1, <1>2, ErrorCountersKnown DEF One
    <2> QED
      BY <2>2, <2>3 DEF Entries
  <1>12. SumFunctionOnSet(new, ErrorCounters) <= new["requests"]
    <2>1. PICK x : \A c \in ErrorCounters : c \in Range(s) <=> c = x
      BY <1>3
    <2>2. \A c \in ErrorCounters : owed[c] \in Nat /\ new[c] = owed[c] + One(c = x)
      BY <1>2, <2>1, ErrorCountersKnown DEF One
    <2>3. SumFunctionOnSet(new, ErrorCounters) = SumFunctionOnSet(owed, ErrorCounters) + One(x \in ErrorCounters)
      BY <2>2, ErrorCountersKnown, SumOfOneMore
    <2>4. SumFunctionOnSet(owed, ErrorCounters) \in Nat
      BY <2>2, ErrorCountersKnown, SumTyped
    <2>5. new["requests"] = owed["requests"] + 1 /\ owed["requests"] \in Nat
      BY <1>1, <1>2, <1>6 DEF Fixed, One
    <2>6. SumFunctionOnSet(owed, ErrorCounters) <= owed["requests"]
      BY DEF Entries
    <2> QED
      BY <2>3, <2>4, <2>5, <2>6 DEF One
  <1>13. Entries(o, new)
    BY <1>7, <1>8, <1>9, <1>10, <1>11, <1>12 DEF Entries
  <1> QED
    BY <1>13 DEF o
-----------------------------------------------------------------------------
\* The steps

\* A request goes on to a label, with what it has collected, still has to count, and is answered.
Labels == Open \cup {"new", "emit", "answered", "dropped"}
Move(r, label, t, left, error) ==
  /\ pc' = [pc EXCEPT ![r] = label] /\ timings' = [timings EXCEPT ![r] = t]
  /\ todo' = [todo EXCEPT ![r] = left] /\ failed' = [failed EXCEPT ![r] = error]

LEMMA SameValue ==
  ASSUME NEW S, NEW f \in [Requests -> S], NEW r \in Requests
  PROVE  f = [f EXCEPT ![r] = f[r]]
  OBVIOUS

LEMMA MoveTyped ==
  ASSUME LedgerTypes, Progress, NEW r \in Requests, NEW label \in Labels, NEW t \in Timings,
         NEW left \in Seq(Counter), IsInjective(left), NEW error \in BOOLEAN,
         Move(r, label, t, left, error), Collected(label, t, left),
         made' \in [Counter -> Nat], otlp' \in Ledger
  PROVE  LedgerTypes' /\ Progress'
  <1>1. /\ pc'[r] = label /\ timings'[r] = t /\ todo'[r] = left
        /\ \A q \in Requests \ {r} : pc'[q] = pc[q] /\ timings'[q] = timings[q] /\ todo'[q] = todo[q]
    BY DEF LedgerTypes, Move
  <1>2. /\ pc' \in [Requests -> Open \cup {"new", "emit", "answered", "dropped"}]
        /\ timings' \in [Requests -> Timings] /\ todo' \in [Requests -> Seq(Counter)]
        /\ failed' \in [Requests -> BOOLEAN]
    BY DEF LedgerTypes, Move, Labels
  <1>3. \A q \in Requests : IsInjective(todo'[q])
    BY <1>1 DEF LedgerTypes
  <1>4. LedgerTypes'
    BY <1>2, <1>3 DEF LedgerTypes
  <1>5. Progress'
    <2>1. \A q \in Requests : Collected(pc'[q], timings'[q], todo'[q])
      BY <1>1 DEF Progress
    <2> QED
      BY <2>1 DEF Progress, Collected
  <1> QED
    BY <1>4, <1>5

LEMMA Moved ==
  ASSUME NEW A \in SUBSET Requests, NEW B \in SUBSET Requests, NEW r \in Requests,
         \A q \in Requests \ {r} : q \in A <=> q \in B
  PROVE  /\ Cardinality(A) \in Nat /\ Cardinality(B) \in Nat
         /\ Cardinality(B) = Cardinality(A) + One(r \in B) - One(r \in A)
  <1>1. /\ Cardinality(A) \in Nat /\ Cardinality(B) \in Nat
        /\ Cardinality(A \cup {r}) = Cardinality(A) + One(r \notin A)
        /\ Cardinality(A \ {r}) = Cardinality(A) - One(r \in A)
    BY Counting
  <1>2. CASE r \in B
    <2>1. B = A \cup {r}
      BY <1>2
    <2>2. One(r \in B) - One(r \in A) = One(r \notin A) /\ One(r \notin A) \in Nat /\ One(r \in A) \in Nat
      BY <1>2 DEF One
    <2> QED
      BY <1>1, <1>2, <2>1, <2>2 DEF One
  <1>3. CASE r \notin B
    <2>1. B = A \ {r}
      BY <1>3
    <2> QED
      BY <1>1, <1>3, <2>1 DEF One
  <1> QED
    BY <1>2, <1>3

LEMMA MoveCounted ==
  ASSUME LedgerTypes, NEW r \in Requests, NEW label \in Labels, NEW t, NEW left, NEW error,
         Move(r, label, t, left, error)
  PROVE  /\ \A phase : /\ Cardinality(With(phase)) \in Nat
                       /\ Cardinality(With(phase)') =
                            Cardinality(With(phase)) + One(label = phase) - One(pc[r] = phase)
         /\ Cardinality(Active') =
              Cardinality(Active) + One(label \in Open \cup {"emit"}) - One(pc[r] \in Open \cup {"emit"})
         /\ Cardinality(Failing) \in Nat /\ Cardinality(Retrying) \in Nat
         /\ Cardinality(Failing') = Cardinality(Failing) + One(label = "emit" /\ error) - One(pc[r] = "emit" /\ failed[r])
         /\ Cardinality(Retrying') = Cardinality(Retrying) + One(Retries(label, t)) - One(Retries(pc[r], timings[r]))
         /\ Cardinality(Active) \in Nat
  <1>1. /\ pc'[r] = label /\ timings'[r] = t /\ failed'[r] = error
        /\ \A q \in Requests \ {r} : pc'[q] = pc[q] /\ timings'[q] = timings[q] /\ failed'[q] = failed[q]
    BY DEF LedgerTypes, Move
  <1>2. ASSUME NEW phase
        PROVE  /\ Cardinality(With(phase)) \in Nat
               /\ Cardinality(With(phase)') = Cardinality(With(phase)) + One(label = phase) - One(pc[r] = phase)
    <2> DEFINE A == With(phase)
               B == With(phase)'
    <2>1. /\ A \in SUBSET Requests /\ B \in SUBSET Requests /\ \A q \in Requests \ {r} : q \in A <=> q \in B
          /\ r \in A <=> pc[r] = phase
          /\ r \in B <=> label = phase
      BY <1>1 DEF With
    <2> HIDE DEF A, B
    <2>2. /\ Cardinality(A) \in Nat
          /\ Cardinality(B) = Cardinality(A) + One(r \in B) - One(r \in A)
      BY <2>1, Moved
    <2>3. One(r \in B) = One(label = phase) /\ One(r \in A) = One(pc[r] = phase)
      BY <2>1 DEF One
    <2> QED
      BY <2>2, <2>3 DEF A, B
  <1>3. /\ Cardinality(Active) \in Nat
        /\ Cardinality(Active') =
             Cardinality(Active) + One(label \in Open \cup {"emit"}) - One(pc[r] \in Open \cup {"emit"})
    <2> DEFINE A == Active
               B == Active'
    <2>1. /\ A \in SUBSET Requests /\ B \in SUBSET Requests /\ \A q \in Requests \ {r} : q \in A <=> q \in B
          /\ r \in A <=> pc[r] \in Open \cup {"emit"}
          /\ r \in B <=> label \in Open \cup {"emit"}
      BY <1>1 DEF With, Active, Open, Labels, LedgerTypes
    <2> HIDE DEF A, B
    <2>2. /\ Cardinality(A) \in Nat
          /\ Cardinality(B) = Cardinality(A) + One(r \in B) - One(r \in A)
      BY <2>1, Moved
    <2>3. One(r \in B) = One(label \in Open \cup {"emit"}) /\ One(r \in A) = One(pc[r] \in Open \cup {"emit"})
      BY <2>1 DEF One
    <2> QED
      BY <2>2, <2>3 DEF A, B
  <1>4. /\ Cardinality(Failing) \in Nat
        /\ Cardinality(Failing') = Cardinality(Failing) + One(label = "emit" /\ error) - One(pc[r] = "emit" /\ failed[r])
    <2> DEFINE A == Failing
               B == Failing'
    <2>1. /\ A \in SUBSET Requests /\ B \in SUBSET Requests /\ \A q \in Requests \ {r} : q \in A <=> q \in B
          /\ r \in A <=> pc[r] = "emit" /\ failed[r]
          /\ r \in B <=> label = "emit" /\ error
      BY <1>1 DEF Failing
    <2> HIDE DEF A, B
    <2>2. /\ Cardinality(A) \in Nat
          /\ Cardinality(B) = Cardinality(A) + One(r \in B) - One(r \in A)
      BY <2>1, Moved
    <2>3. One(r \in B) = One(label = "emit" /\ error) /\ One(r \in A) = One(pc[r] = "emit" /\ failed[r])
      BY <2>1 DEF One
    <2> QED
      BY <2>2, <2>3 DEF A, B
  <1>5. /\ Cardinality(Retrying) \in Nat
        /\ Cardinality(Retrying') = Cardinality(Retrying) + One(Retries(label, t)) - One(Retries(pc[r], timings[r]))
    <2> DEFINE A == Retrying
               B == Retrying'
    <2>1. /\ A \in SUBSET Requests /\ B \in SUBSET Requests /\ \A q \in Requests \ {r} : q \in A <=> q \in B
          /\ r \in A <=> Retries(pc[r], timings[r])
          /\ r \in B <=> Retries(label, t)
      BY <1>1 DEF Retrying, Retries
    <2> HIDE DEF A, B
    <2>2. /\ Cardinality(A) \in Nat
          /\ Cardinality(B) = Cardinality(A) + One(r \in B) - One(r \in A)
      BY <2>1, Moved
    <2>3. One(r \in B) = One(Retries(label, t)) /\ One(r \in A) = One(Retries(pc[r], timings[r]))
      BY <2>1 DEF One
    <2> QED
      BY <2>2, <2>3 DEF A, B
  <1> QED
    BY <1>2, <1>3, <1>4, <1>5

\* Steps that neither count nor answer.
LEMMA QuietStep ==
  ASSUME Ledgers, NEW r \in Requests, pc[r] \in Open \cup {"new"}, NEW label \in Open \cup {"dropped"},
         NEW t \in Timings, Move(r, label, t, todo[r], failed[r]), UNCHANGED made,
         otlp' = [otlp EXCEPT !.active = @ + One(label \in Open) - One(pc[r] \in Open)],
         Collected(label, t, <<>>), Retries(label, t) => Retries(pc[r], timings[r])
  PROVE  Ledgers'
  <1>1. LedgerTypes /\ Progress /\ Entries(otlp, Owed)
        /\ Accounts(otlp, Owed, Cardinality(With("emit")), Cardinality(With("answered")), Cardinality(Active),
                    Cardinality(Failing), Cardinality(Retrying))
    BY DEF Ledgers, Balance
  <1>2. label \in Labels /\ label # "emit" /\ label # "answered" /\ pc[r] # "emit" /\ pc[r] # "answered"
    BY DEF Labels, Open
  <1>3. todo[r] = <<>> /\ todo[r] \in Seq(Counter) /\ IsInjective(todo[r]) /\ failed[r] \in BOOLEAN
    BY <1>1, <1>2 DEF Progress, Collected, LedgerTypes
  <1>4. Owed' = Owed
    <2>1. UNCHANGED todo
      BY <1>1, SameValue DEF Move, LedgerTypes
    <2> QED
      BY <2>1, OwedKept
  <1>5. /\ otlp' \in Ledger /\ otlp'.requests = otlp.requests /\ otlp'.errors = otlp.errors
        /\ otlp'.attempts = otlp.attempts /\ otlp'.successes = otlp.successes
        /\ otlp'.cache = otlp.cache /\ otlp'.fetch = otlp.fetch /\ otlp'.processing = otlp.processing
        /\ otlp'.active = otlp.active + One(label \in Open) - One(pc[r] \in Open)
    <2>1. otlp.active + One(label \in Open) - One(pc[r] \in Open) \in Int
      BY <1>1 DEF One, LedgerTypes, Ledger
    <2>2. otlp \in Ledger
      BY <1>1 DEF LedgerTypes
    <2> QED
      BY <2>1, <2>2 DEF Ledger
  <1>6. LedgerTypes' /\ Progress'
    <2>1. made' \in [Counter -> Nat]
      BY <1>1 DEF LedgerTypes
    <2>2. Collected(label, t, todo[r])
      BY <1>3
    <2> QED
      BY <1>1, <1>2, <1>3, <1>5, <2>1, <2>2, MoveTyped
  <1>7. Entries(otlp', Owed')
    BY <1>1, <1>4, <1>5 DEF Entries
  <1>8. /\ Cardinality(With("emit")') = Cardinality(With("emit"))
        /\ Cardinality(With("answered")') = Cardinality(With("answered"))
        /\ Cardinality(Active') = Cardinality(Active) + One(label \in Open) - One(pc[r] \in Open)
        /\ Cardinality(Failing') = Cardinality(Failing)
        /\ Cardinality(Retrying') \in Int /\ Cardinality(Retrying') <= Cardinality(Retrying)
    <2>1. /\ Cardinality(With("emit")) \in Nat /\ Cardinality(With("answered")) \in Nat
          /\ Cardinality(With("emit")') = Cardinality(With("emit")) + One(label = "emit") - One(pc[r] = "emit")
          /\ Cardinality(With("answered")') =
               Cardinality(With("answered")) + One(label = "answered") - One(pc[r] = "answered")
      BY <1>1, <1>2, MoveCounted
    <2>2. /\ Cardinality(Failing) \in Nat /\ Cardinality(Retrying) \in Nat
          /\ Cardinality(Failing') = Cardinality(Failing) + One(label = "emit" /\ failed[r]) - One(pc[r] = "emit" /\ failed[r])
          /\ Cardinality(Retrying') =
               Cardinality(Retrying) + One(Retries(label, t)) - One(Retries(pc[r], timings[r]))
      BY <1>1, <1>2, MoveCounted
    <2>3. Cardinality(Active') =
            Cardinality(Active) + One(label \in Open \cup {"emit"}) - One(pc[r] \in Open \cup {"emit"})
      BY <1>1, <1>2, MoveCounted
    <2>4. One(label \in Open \cup {"emit"}) = One(label \in Open) /\ One(pc[r] \in Open \cup {"emit"}) = One(pc[r] \in Open)
      BY <1>2 DEF One
    <2>5. /\ Cardinality(With("emit")') = Cardinality(With("emit"))
          /\ Cardinality(With("answered")') = Cardinality(With("answered"))
      BY <1>2, <2>1 DEF One
    <2>6. Cardinality(Failing') = Cardinality(Failing)
      BY <1>2, <2>2 DEF One
    <2>7. Cardinality(Retrying') \in Int /\ Cardinality(Retrying') <= Cardinality(Retrying)
      BY <2>2 DEF One
    <2> QED
      BY <2>3, <2>4, <2>5, <2>6, <2>7
  <1>9. Accounts(otlp, Owed, Cardinality(With("emit")), Cardinality(With("answered")), Cardinality(Active),
                 Cardinality(Failing), Cardinality(Retrying))'
    <2>1. Fixed \subseteq Counter /\ Owed \in [Counter -> Nat] /\ otlp.attempts \in Nat /\ otlp.successes \in Nat
      BY <1>1, OwedType, CountersKnown DEF LedgerTypes, Ledger
    <2>2. Owed["retry_saved"] \in Nat /\ Cardinality(Retrying) \in Nat
      BY <2>1, <1>1, <1>2, MoveCounted DEF Fixed
    <2>3. /\ Owed'["requests"] = otlp'.requests + Cardinality(With("emit")') /\ otlp'.requests = Cardinality(With("answered")')
          /\ otlp'.active = Cardinality(Active')
      BY <1>1, <1>4, <1>5, <1>8 DEF Accounts
    <2>4. /\ otlp'.errors + Cardinality(Failing') <= Owed'["errors"]
          /\ Owed'["errors"] <= otlp'.errors + Cardinality(Failing') + otlp'.cache["stale"]
      BY <1>1, <1>4, <1>5, <1>8 DEF Accounts
    <2>5. /\ otlp'.attempts = Owed'["retry_attempts"]
          /\ Owed'["retry_saved"] + Cardinality(Retrying') <= otlp'.attempts
          /\ otlp'.successes + Cardinality(Retrying') <= otlp'.attempts
      BY <1>1, <1>4, <1>5, <1>8, <2>1, <2>2 DEF Accounts
    <2> QED
      BY <2>3, <2>4, <2>5 DEF Accounts
  <1> QED
    BY <1>6, <1>7, <1>9 DEF Ledgers, Balance

\* A summary: the other ledger has everything first.
LEMMA EmitStep ==
  ASSUME Ledgers, NEW r \in Requests, pc[r] \in Open, NEW t \in Timings, t.cache # "none",
         NEW status \in Int, NEW labelled \in BOOLEAN, NEW detail \in Details \cup {"none"},
         labelled \/ detail = "none", t.rescued => t.retried,
         t.retried => Retries(pc[r], timings[r]), Emit(r, t, status, labelled, detail)
  PROVE  Ledgers'
  <1> DEFINE s == Counts(t, status, labelled, detail)
             error == status >= 400 \/ (labelled /\ t.cache # "stale")
  <1>1. LedgerTypes /\ Progress /\ Entries(otlp, Owed)
        /\ Accounts(otlp, Owed, Cardinality(With("emit")), Cardinality(With("answered")), Cardinality(Active),
                    Cardinality(Failing), Cardinality(Retrying))
    BY DEF Ledgers, Balance
  <1>2. /\ Move(r, "emit", t, s, error) /\ UNCHANGED made /\ otlp' = Outcome(t, status, labelled, detail)
        /\ "emit" \in Labels /\ pc[r] # "emit" /\ pc[r] # "answered" /\ error \in BOOLEAN
    BY DEF Emit, Move, Labels, Open
  <1>3. todo[r] = <<>>
    BY <1>1, <1>2 DEF Progress, Collected
  <1>4. s \in Seq(Counter) /\ IsInjective(s)
    BY CountsRange
  <1>5. Owed \in [Counter -> Nat] /\ Fixed \subseteq Counter
    BY <1>1, OwedType, CountersKnown DEF LedgerTypes
  <1>6. \A d \in Counter : Owed'[d] = Owed[d] + One(d \in Range(s))
    <2> HIDE DEF s, error
    <2> QED
      BY <1>1, <1>2, <1>3, OwedEmit DEF Move
  <1>7. Entries(otlp', Owed')
    <2>1. \A d \in Counter : Owed'[d] = Owed[d] + One(d \in Range(Counts(t, status, labelled, detail)))
      BY <1>6
    <2> DEFINE new == Owed'
               owed == Owed
    <2>2. Entries(otlp, owed) /\ owed \in [Counter -> Nat] /\ LedgerTypes
          /\ \A d \in Counter : new[d] = owed[d] + One(d \in Range(Counts(t, status, labelled, detail)))
      BY <1>1, <1>5, <2>1
    <2> HIDE DEF new, owed
    <2>3. Entries(Outcome(t, status, labelled, detail), new)
      BY <2>2, EntriesEmit
    <2> QED
      BY <1>2, <2>3 DEF new
  <1>8. /\ otlp' \in Ledger /\ otlp'.requests = otlp.requests /\ otlp'.errors = otlp.errors
        /\ otlp'.attempts = otlp.attempts /\ otlp'.successes = otlp.successes + One(t.rescued)
        /\ otlp'.cache["stale"] = otlp.cache["stale"] + One(t.cache = "stale") /\ otlp'.active = otlp.active
    <2>1. otlp \in Ledger
      BY <1>1 DEF LedgerTypes
    <2>2. \A b : One(b) \in Nat
      BY DEF One
    <2>3. \A c \in CacheResults : otlp.cache[c] + One(t.cache = c) \in Nat
      BY <2>1, <2>2 DEF Ledger
    <2>4. \A k \in Range(FetchKinds) : otlp.fetch[k] + One(t.fetch = k) \in Nat
      BY <2>1, <2>2 DEF Ledger
    <2>5. \A c \in Classes :
            otlp.processing[c] + One(/\ t.fetch = "none" /\ (status >= 400 \/ labelled)
                                     /\ c # "perr_upstream_status" /\ c = ClassOf(detail)) \in Nat
      <3>1. \A c \in Classes : otlp.processing[c] \in Nat
        BY <2>1 DEF Ledger
      <3> QED
        BY <3>1 DEF One
    <2>6. otlp.successes + One(t.rescued) \in Nat
      BY <2>1, <2>2 DEF Ledger
    <2>7. /\ DOMAIN otlp = {"requests", "errors", "active", "attempts", "successes", "cache", "fetch", "processing"}
          /\ DOMAIN otlp.fetch = Range(FetchKinds)
      BY <2>1 DEF Ledger
    <2> DEFINE cache == [c \in CacheResults |-> otlp.cache[c] + One(t.cache = c)]
               fetch == [k \in Range(FetchKinds) |-> otlp.fetch[k] + One(t.fetch = k)]
               processing ==
                 [c \in Classes |->
                    otlp.processing[c] + One(/\ t.fetch = "none" /\ (status >= 400 \/ labelled)
                                             /\ c # "perr_upstream_status" /\ c = ClassOf(detail))]
    <2>8. otlp' = [otlp EXCEPT !.cache = cache, !.successes = @ + One(t.rescued), !.fetch = fetch,
                               !.processing = processing]
      BY <1>2, <2>7 DEF Outcome, ClassOf
    <2>9. cache \in [CacheResults -> Nat] /\ fetch \in [Range(FetchKinds) -> Nat] /\ processing \in [Classes -> Nat]
      BY <2>3, <2>4, <2>5
    <2>10. cache["stale"] = otlp.cache["stale"] + One(t.cache = "stale")
      BY DEF CacheResults
    <2> HIDE DEF cache, fetch, processing
    <2> QED
      BY <2>1, <2>6, <2>8, <2>9, <2>10 DEF Ledger
  <1>9. LedgerTypes' /\ Progress'
    <2>1. made' \in [Counter -> Nat]
      BY <1>1, <1>2 DEF LedgerTypes
    <2>2. Collected("emit", t, s)
      BY DEF Collected, Open
    <2> HIDE DEF s, error
    <2> QED
      BY <1>1, <1>2, <1>4, <1>8, <2>1, <2>2, MoveTyped
  <1>10. /\ "requests" \in Range(s) /\ "retry_attempts" \notin Range(s)
         /\ "errors" \in Range(s) <=> status >= 400 \/ labelled
         /\ "retry_saved" \in Range(s) => t.retried
    BY CountsFacts
  <1> HIDE DEF s
  <1>11. /\ Owed'["requests"] = Owed["requests"] + 1 /\ Owed'["retry_attempts"] = Owed["retry_attempts"]
         /\ Owed'["errors"] = Owed["errors"] + One(status >= 400 \/ labelled)
         /\ Owed'["retry_saved"] \in Int /\ Owed'["retry_saved"] <= Owed["retry_saved"] + One(t.retried)
    BY <1>5, <1>6, <1>10 DEF Fixed, One
  <1>12. /\ Cardinality(With("emit")) \in Nat
         /\ Cardinality(With("emit")') = Cardinality(With("emit")) + 1
         /\ Cardinality(With("answered")') = Cardinality(With("answered"))
         /\ Cardinality(Active') = Cardinality(Active)
    <2> HIDE DEF error
    <2>1. /\ Cardinality(With("emit")) \in Nat /\ Cardinality(With("answered")) \in Nat
          /\ Cardinality(With("emit")') = Cardinality(With("emit")) + One("emit" = "emit") - One(pc[r] = "emit")
          /\ Cardinality(With("answered")') =
               Cardinality(With("answered")) + One("emit" = "answered") - One(pc[r] = "answered")
      BY <1>1, <1>2, MoveCounted
    <2>2. /\ Cardinality(Active) \in Nat
          /\ Cardinality(Active') =
               Cardinality(Active) + One("emit" \in Open \cup {"emit"}) - One(pc[r] \in Open \cup {"emit"})
      BY <1>1, <1>2, MoveCounted
    <2>3. One("emit" \in Open \cup {"emit"}) = 1 /\ One(pc[r] \in Open \cup {"emit"}) = 1
      BY DEF One
    <2>4. Cardinality(Active') = Cardinality(Active)
      BY <2>2, <2>3
    <2> QED
      BY <1>2, <2>1, <2>4 DEF One
  <1>13. /\ Cardinality(Failing) \in Nat /\ Cardinality(Retrying) \in Nat
         /\ Cardinality(Failing') = Cardinality(Failing) + One(error)
         /\ Cardinality(Retrying') = Cardinality(Retrying) - One(Retries(pc[r], timings[r]))
    <2> HIDE DEF error
    <2>1. /\ Cardinality(Failing) \in Nat /\ Cardinality(Retrying) \in Nat
          /\ Cardinality(Failing') = Cardinality(Failing) + One("emit" = "emit" /\ error) - One(pc[r] = "emit" /\ failed[r])
          /\ Cardinality(Retrying') =
               Cardinality(Retrying) + One(Retries("emit", t)) - One(Retries(pc[r], timings[r]))
      BY <1>1, <1>2, MoveCounted
    <2>2. ~ Retries("emit", t)
      BY DEF Retries, Open
    <2> QED
      BY <1>2, <2>1, <2>2 DEF One
  <1>14. Accounts(otlp, Owed, Cardinality(With("emit")), Cardinality(With("answered")), Cardinality(Active),
                  Cardinality(Failing), Cardinality(Retrying))'
    <2>1. /\ otlp.requests \in Nat /\ otlp.errors \in Nat /\ otlp.attempts \in Nat /\ otlp.successes \in Nat
          /\ otlp.cache["stale"] \in Nat
          /\ Owed["requests"] \in Nat /\ Owed["errors"] \in Nat /\ Owed["retry_saved"] \in Nat
          /\ Owed["retry_attempts"] \in Nat
      BY <1>1, <1>5 DEF LedgerTypes, Ledger, Fixed, CacheResults
    <2>2. /\ One(status >= 400 \/ labelled) \in Nat /\ One(error) \in Nat
          /\ One(error) <= One(status >= 400 \/ labelled)
          /\ One(status >= 400 \/ labelled) <= One(error) + One(t.cache = "stale")
          /\ One(t.cache = "stale") \in Nat
      BY DEF One
    <2>3. /\ One(t.retried) \in Nat /\ One(t.rescued) \in Nat /\ One(Retries(pc[r], timings[r])) \in Nat
          /\ One(t.rescued) <= One(Retries(pc[r], timings[r]))
          /\ One(t.retried) <= One(Retries(pc[r], timings[r]))
      BY DEF One
    <2> HIDE DEF error
    <2>4. /\ Owed'["requests"] = otlp'.requests + Cardinality(With("emit")') /\ otlp'.requests = Cardinality(With("answered")')
          /\ otlp'.active = Cardinality(Active')
      BY <1>1, <1>8, <1>11, <1>12, <2>1 DEF Accounts
    <2>5. /\ otlp'.errors + Cardinality(Failing') <= Owed'["errors"]
          /\ Owed'["errors"] <= otlp'.errors + Cardinality(Failing') + otlp'.cache["stale"]
      BY <1>1, <1>8, <1>11, <1>13, <2>1, <2>2 DEF Accounts
    <2>6. /\ otlp'.attempts = Owed'["retry_attempts"]
          /\ Owed'["retry_saved"] + Cardinality(Retrying') <= otlp'.attempts
          /\ otlp'.successes + Cardinality(Retrying') <= otlp'.attempts
      BY <1>1, <1>8, <1>11, <1>13, <2>1, <2>3 DEF Accounts
    <2> QED
      BY <2>4, <2>5, <2>6 DEF Accounts
  <1> QED
    BY <1>7, <1>9, <1>14 DEF Ledgers, Balance

\* Retry and Headers: one counter, while the request goes on.
LEMMA CountStep ==
  ASSUME Ledgers, NEW r \in Requests, pc[r] \in Open \ {"start"}, NEW label \in Open \ {"start", "check"},
         NEW t \in Timings, t.cache = timings[r].cache, t.retried = timings[r].retried,
         t.rescued = timings[r].rescued, Move(r, label, t, todo[r], failed[r]),
         NEW x, Increment(x), x = (IF label = "retry" THEN "retry_attempts" ELSE "http_responses"),
         otlp' = [otlp EXCEPT !.attempts = @ + One(label = "retry")],
         label # "retry" => Retries(label, t) = Retries(pc[r], timings[r])
  PROVE  Ledgers'
  <1>1. LedgerTypes /\ Progress /\ Entries(otlp, Owed)
        /\ Accounts(otlp, Owed, Cardinality(With("emit")), Cardinality(With("answered")), Cardinality(Active),
                    Cardinality(Failing), Cardinality(Retrying))
    BY DEF Ledgers, Balance
  <1>2. label \in Labels /\ label # "emit" /\ label # "answered" /\ pc[r] # "emit" /\ pc[r] # "answered"
        /\ label \in Open /\ pc[r] \in Open
    BY DEF Labels, Open
  <1>3. todo[r] = <<>> /\ todo[r] \in Seq(Counter) /\ IsInjective(todo[r]) /\ failed[r] \in BOOLEAN
    BY <1>1, <1>2 DEF Progress, Collected, LedgerTypes
  <1>4. x \in Counter /\ Fixed \subseteq Counter /\ Owed \in [Counter -> Nat]
    BY <1>1, OwedType, CountersKnown DEF LedgerTypes, Fixed
  <1>5. \A d \in Counter : Owed'[d] = Owed[d] + One(d = x)
    <2>1. UNCHANGED todo
      BY <1>1, SameValue DEF Move, LedgerTypes
    <2> QED
      BY <1>1, <1>4, <2>1, OwedIncrement DEF LedgerTypes
  <1>6. /\ otlp' \in Ledger /\ otlp'.requests = otlp.requests /\ otlp'.errors = otlp.errors
        /\ otlp'.attempts = otlp.attempts + One(label = "retry") /\ otlp'.successes = otlp.successes
        /\ otlp'.cache = otlp.cache /\ otlp'.fetch = otlp.fetch /\ otlp'.processing = otlp.processing
        /\ otlp'.active = otlp.active
    <2>1. otlp \in Ledger
      BY <1>1 DEF LedgerTypes
    <2>2. otlp.attempts + One(label = "retry") \in Nat
      BY <2>1 DEF Ledger, One
    <2> QED
      BY <2>1, <2>2 DEF Ledger
  <1>7. LedgerTypes' /\ Progress'
    <2>1. made' \in [Counter -> Nat]
      BY <1>1, Counted DEF Increment, LedgerTypes
    <2>2. Collected(label, t, todo[r])
      <3>1. Collected(pc[r], timings[r], todo[r])
        BY <1>1 DEF Progress
      <3> QED
        BY <1>2, <1>3, <3>1 DEF Collected, Open
    <2> QED
      BY <1>1, <1>2, <1>3, <1>6, <2>1, <2>2, MoveTyped
  <1>8. Entries(otlp', Owed')
    <2>1. Entries(otlp', Owed)
      BY <1>1, <1>6 DEF Entries
    <2> DEFINE new == Owed'
               owed == Owed
               o == otlp'
    <2>2. /\ Entries(o, owed) /\ owed \in [Counter -> Nat] /\ x \in {"retry_attempts", "http_responses"}
          /\ \A d \in Counter : new[d] = owed[d] + One(d = x)
      BY <1>4, <1>5, <2>1
    <2> HIDE DEF new, owed, o
    <2>3. Entries(o, new)
      BY <2>2, EntriesKept
    <2> QED
      BY <2>3 DEF o, new
  <1>9. /\ Cardinality(With("emit")') = Cardinality(With("emit"))
        /\ Cardinality(With("answered")') = Cardinality(With("answered"))
        /\ Cardinality(Active') = Cardinality(Active) /\ Cardinality(Failing') = Cardinality(Failing)
    <2>1. /\ Cardinality(With("emit")) \in Nat /\ Cardinality(With("answered")) \in Nat
          /\ Cardinality(With("emit")') = Cardinality(With("emit")) + One(label = "emit") - One(pc[r] = "emit")
          /\ Cardinality(With("answered")') =
               Cardinality(With("answered")) + One(label = "answered") - One(pc[r] = "answered")
      BY <1>1, <1>2, MoveCounted
    <2>2. /\ Cardinality(Failing) \in Nat
          /\ Cardinality(Failing') = Cardinality(Failing) + One(label = "emit" /\ failed[r]) - One(pc[r] = "emit" /\ failed[r])
      BY <1>1, <1>2, MoveCounted
    <2>3. /\ Cardinality(Active) \in Nat
          /\ Cardinality(Active') =
               Cardinality(Active) + One(label \in Open \cup {"emit"}) - One(pc[r] \in Open \cup {"emit"})
      BY <1>1, <1>2, MoveCounted
    <2>4. One(label \in Open \cup {"emit"}) = 1 /\ One(pc[r] \in Open \cup {"emit"}) = 1
      BY <1>2 DEF One
    <2>5. Cardinality(Active') = Cardinality(Active)
      BY <2>3, <2>4
    <2> QED
      BY <1>2, <2>1, <2>2, <2>5 DEF One
  <1>10. /\ Cardinality(Retrying) \in Nat /\ Cardinality(Retrying') \in Int
         /\ Cardinality(Retrying') <= Cardinality(Retrying) + One(label = "retry")
    <2>1. /\ Cardinality(Retrying) \in Nat
          /\ Cardinality(Retrying') =
               Cardinality(Retrying) + One(Retries(label, t)) - One(Retries(pc[r], timings[r]))
      BY <1>1, <1>2, MoveCounted
    <2>2. One(Retries(label, t)) \in Nat /\ One(Retries(pc[r], timings[r])) \in Nat
          /\ One(Retries(label, t)) <= One(Retries(pc[r], timings[r])) + One(label = "retry")
      BY DEF One
    <2>3. One(label = "retry") \in Nat
      BY DEF One
    <2> QED
      BY <2>1, <2>2, <2>3
  <1>11. /\ Owed'["requests"] = Owed["requests"] /\ Owed'["errors"] = Owed["errors"]
         /\ Owed'["retry_saved"] = Owed["retry_saved"]
         /\ Owed'["retry_attempts"] = Owed["retry_attempts"] + One(label = "retry")
    BY <1>4, <1>5 DEF Fixed, One
  <1>12. Accounts(otlp, Owed, Cardinality(With("emit")), Cardinality(With("answered")), Cardinality(Active),
                  Cardinality(Failing), Cardinality(Retrying))'
    <2>1. /\ otlp.attempts \in Nat /\ otlp.successes \in Nat /\ Owed["retry_saved"] \in Nat
          /\ One(label = "retry") \in Nat
      BY <1>1, <1>4 DEF LedgerTypes, Ledger, Fixed, One
    <2>2. /\ otlp'.attempts = Owed'["retry_attempts"]
          /\ Owed'["retry_saved"] + Cardinality(Retrying') <= otlp'.attempts
          /\ otlp'.successes + Cardinality(Retrying') <= otlp'.attempts
      BY <1>1, <1>6, <1>10, <1>11, <2>1 DEF Accounts
    <2>3. /\ Owed'["requests"] = otlp'.requests + Cardinality(With("emit")') /\ otlp'.requests = Cardinality(With("answered")')
          /\ otlp'.active = Cardinality(Active')
      BY <1>1, <1>6, <1>9, <1>11 DEF Accounts
    <2>4. /\ otlp'.errors + Cardinality(Failing') <= Owed'["errors"]
          /\ Owed'["errors"] <= otlp'.errors + Cardinality(Failing') + otlp'.cache["stale"]
      BY <1>1, <1>6, <1>9, <1>11 DEF Accounts
    <2> QED
      BY <2>2, <2>3, <2>4 DEF Accounts
  <1> QED
    BY <1>7, <1>8, <1>12 DEF Ledgers, Balance

\* The next counter of a summary: nothing is owed more or less.
LEMMA EmitNextStep ==
  ASSUME Ledgers, NEW r \in Requests, EmitNext(r)
  PROVE  Ledgers'
  <1>1. LedgerTypes /\ Progress /\ Balance
    BY DEF Ledgers
  <1>2. /\ Owed' = Owed /\ made' \in [Counter -> Nat]
        /\ todo'[r] \in Seq(Counter) /\ IsInjective(todo'[r])
        /\ \A q \in Requests \ {r} : todo'[q] = todo[q]
    BY <1>1, OwedEmitNext
  <1>3. pc[r] = "emit" /\ todo' = [todo EXCEPT ![r] = Tail(@)] /\ UNCHANGED <<otlp, pc, timings, failed>>
    BY DEF EmitNext
  <1>4. todo' \in [Requests -> Seq(Counter)] /\ \A q \in Requests : IsInjective(todo'[q])
    BY <1>1, <1>2, <1>3 DEF LedgerTypes
  <1>5. LedgerTypes'
    BY <1>1, <1>2, <1>3, <1>4 DEF LedgerTypes
  <1>6. Progress'
    BY <1>1, <1>2, <1>3 DEF Progress, Collected
  <1>7. UNCHANGED <<With("emit"), With("answered"), Active, Failing, Retrying>>
    BY <1>3 DEF With, Active, Failing, Retrying, Retries
  <1>8. Balance'
    BY <1>1, <1>2, <1>3, <1>7 DEF Balance, Entries, Accounts
  <1> QED
    BY <1>5, <1>6, <1>8 DEF Ledgers

\* The answer is complete: from the requests under way to those of the other ledger.
LEMMA CompleteStep ==
  ASSUME Ledgers, NEW r \in Requests, Complete(r)
  PROVE  Ledgers'
  <1>1. LedgerTypes /\ Progress /\ Entries(otlp, Owed)
        /\ Accounts(otlp, Owed, Cardinality(With("emit")), Cardinality(With("answered")), Cardinality(Active),
                    Cardinality(Failing), Cardinality(Retrying))
    BY DEF Ledgers, Balance
  <1>2. /\ pc[r] = "emit" /\ todo[r] = <<>> /\ UNCHANGED <<made, todo>>
        /\ otlp' = [otlp EXCEPT !.requests = @ + 1, !.errors = @ + One(failed[r]), !.active = @ - 1]
    BY DEF Complete
  <1>0. PICK error \in BOOLEAN : error = FALSE
    OBVIOUS
  <1>3. Move(r, "answered", NoTimings, todo[r], error) /\ "answered" \in Labels
    <2>1. todo' = [todo EXCEPT ![r] = todo[r]]
      BY <1>1, <1>2, SameValue DEF LedgerTypes
    <2> QED
      BY <1>0, <2>1 DEF Complete, Goto, Move, Labels
  <1>4. /\ otlp' \in Ledger /\ otlp'.requests = otlp.requests + 1 /\ otlp'.errors = otlp.errors + One(failed[r])
        /\ otlp'.attempts = otlp.attempts /\ otlp'.successes = otlp.successes
        /\ otlp'.cache = otlp.cache /\ otlp'.fetch = otlp.fetch /\ otlp'.processing = otlp.processing
        /\ otlp'.active = otlp.active - 1
    <2>1. otlp \in Ledger
      BY <1>1 DEF LedgerTypes
    <2>2. otlp.requests + 1 \in Nat /\ otlp.errors + One(failed[r]) \in Nat /\ otlp.active - 1 \in Int
      BY <2>1 DEF Ledger, One
    <2> QED
      BY <1>2, <2>1, <2>2 DEF Ledger
  <1>5. Owed' = Owed
    BY <1>2, OwedKept
  <1>6. LedgerTypes' /\ Progress'
    <2>1. made' \in [Counter -> Nat] /\ todo[r] \in Seq(Counter) /\ IsInjective(todo[r])
      BY <1>1, <1>2 DEF LedgerTypes
    <2>2. NoTimings \in Timings
      BY DEF NoTimings, Timings
    <2>3. Collected("answered", NoTimings, todo[r])
      BY <1>2 DEF Collected, NoTimings, Open
    <2> QED
      BY <1>1, <1>3, <1>4, <2>1, <2>2, <2>3, MoveTyped
  <1>7. Entries(otlp', Owed')
    BY <1>1, <1>4, <1>5 DEF Entries
  <1>8. /\ Cardinality(With("emit")) \in Nat /\ Cardinality(With("answered")) \in Nat
        /\ Cardinality(With("emit")') = Cardinality(With("emit")) - 1
        /\ Cardinality(With("answered")') = Cardinality(With("answered")) + 1
    <2>1. /\ Cardinality(With("emit")) \in Nat /\ Cardinality(With("answered")) \in Nat
          /\ Cardinality(With("emit")') = Cardinality(With("emit")) + One("answered" = "emit") - One(pc[r] = "emit")
          /\ Cardinality(With("answered")') =
               Cardinality(With("answered")) + One("answered" = "answered") - One(pc[r] = "answered")
      BY <1>1, <1>3, MoveCounted
    <2> QED
      BY <1>2, <2>1 DEF One
  <1>9. Cardinality(Active) \in Nat /\ Cardinality(Active') = Cardinality(Active) - 1
    <2>1. /\ Cardinality(Active) \in Nat
          /\ Cardinality(Active') =
               Cardinality(Active) + One("answered" \in Open \cup {"emit"}) - One(pc[r] \in Open \cup {"emit"})
      BY <1>1, <1>3, MoveCounted
    <2>2. One("answered" \in Open \cup {"emit"}) = 0 /\ One(pc[r] \in Open \cup {"emit"}) = 1
      BY <1>2 DEF One, Open
    <2> QED
      BY <2>1, <2>2
  <1>10. /\ Cardinality(Failing) \in Nat /\ Cardinality(Failing') = Cardinality(Failing) - One(failed[r])
         /\ Cardinality(Retrying') = Cardinality(Retrying)
    <2>1. /\ Cardinality(Failing) \in Nat /\ Cardinality(Retrying) \in Nat
          /\ Cardinality(Failing') = Cardinality(Failing) + One("answered" = "emit" /\ error) - One(pc[r] = "emit" /\ failed[r])
          /\ Cardinality(Retrying') =
               Cardinality(Retrying) + One(Retries("answered", NoTimings)) - One(Retries(pc[r], timings[r]))
      BY <1>1, <1>3, MoveCounted
    <2>2. ~ Retries("answered", NoTimings) /\ ~ Retries(pc[r], timings[r])
      BY <1>2 DEF Retries, Open
    <2> QED
      BY <1>2, <2>1, <2>2 DEF One
  <1>11. Accounts(otlp, Owed, Cardinality(With("emit")), Cardinality(With("answered")), Cardinality(Active),
                  Cardinality(Failing), Cardinality(Retrying))'
    <2>1. /\ otlp.requests \in Nat /\ otlp.errors \in Nat /\ One(failed[r]) \in Nat
      BY <1>1 DEF LedgerTypes, Ledger, One
    <2>2. /\ Owed'["requests"] = otlp'.requests + Cardinality(With("emit")') /\ otlp'.requests = Cardinality(With("answered")')
          /\ otlp'.active = Cardinality(Active')
      BY <1>1, <1>4, <1>5, <1>8, <1>9, <2>1 DEF Accounts
    <2>3. otlp'.errors + Cardinality(Failing') = otlp.errors + Cardinality(Failing)
      BY <1>4, <1>10, <2>1
    <2> QED
      BY <1>1, <1>4, <1>5, <1>10, <2>2, <2>3 DEF Accounts
  <1> QED
    BY <1>6, <1>7, <1>11 DEF Ledgers, Balance

\* What a request may be answered with.
Ready(r, t) ==
  /\ pc[r] \in Open /\ t \in Timings /\ t.cache # "none" /\ (t.rescued => t.retried)
  /\ t.retried => Retries(pc[r], timings[r])

LEMMA ReadyNow ==
  ASSUME Ledgers, NEW r \in Requests, pc[r] \in Open
  PROVE  /\ timings[r] \in Timings /\ Collected(pc[r], timings[r], <<>>)
         /\ timings[r].retried => Retries(pc[r], timings[r])
         /\ \A c \in CacheResults : Ready(r, [timings[r] EXCEPT !.cache = c])
         /\ pc[r] # "start" => Ready(r, timings[r])
         /\ \A t : \A k \in Range(FetchKinds) : Ready(r, t) => Ready(r, [t EXCEPT !.fetch = k])
         /\ \A t : \A c \in CacheResults : Ready(r, t) => Ready(r, [t EXCEPT !.cache = c])
  <1>1. timings[r] \in Timings /\ Collected(pc[r], timings[r], todo[r]) /\ todo[r] = <<>>
    BY DEF Ledgers, LedgerTypes, Progress, Collected, Open
  <1>2. timings[r].retried => Retries(pc[r], timings[r])
    BY DEF Retries
  <1>3. \A c \in CacheResults : c # "none"
    BY DEF CacheResults
  <1>4. ASSUME NEW c \in CacheResults, NEW t \in Timings
        PROVE  LET u == [t EXCEPT !.cache = c]
               IN  u \in Timings /\ u.cache = c /\ u.retried = t.retried /\ u.rescued = t.rescued
    BY DEF Timings
  <1>5. ASSUME NEW k \in Range(FetchKinds), NEW t \in Timings
        PROVE  LET u == [t EXCEPT !.fetch = k]
               IN  u \in Timings /\ u.cache = t.cache /\ u.retried = t.retried /\ u.rescued = t.rescued
    BY DEF Timings
  <1>6. timings[r].rescued => timings[r].retried
    BY <1>1 DEF Collected
  <1>7. \A c \in CacheResults : Ready(r, [timings[r] EXCEPT !.cache = c])
    BY <1>1, <1>2, <1>3, <1>4, <1>6 DEF Ready
  <1>8. pc[r] # "start" => Ready(r, timings[r])
    BY <1>1, <1>2, <1>6 DEF Ready, Collected
  <1>9. \A t : \A k \in Range(FetchKinds) : Ready(r, t) => Ready(r, [t EXCEPT !.fetch = k])
    BY <1>5 DEF Ready
  <1>10. \A t : \A c \in CacheResults : Ready(r, t) => Ready(r, [t EXCEPT !.cache = c])
    BY <1>3, <1>4 DEF Ready
  <1> QED
    BY <1>1, <1>2, <1>7, <1>8, <1>9, <1>10

LEMMA EmitReady ==
  ASSUME Ledgers, NEW r \in Requests, NEW t, Ready(r, t), NEW status \in Int
  PROVE  /\ \A d \in Details \cup {"none"} : Emit(r, t, status, TRUE, d) => Ledgers'
         /\ Emit(r, t, status, FALSE, "none") => Ledgers'
  <1>1. ASSUME NEW labelled \in BOOLEAN, NEW d \in Details \cup {"none"}, labelled \/ d = "none",
               Emit(r, t, status, labelled, d)
        PROVE  Ledgers'
    BY <1>1, EmitStep DEF Ready
  <1> QED
    BY <1>1

LEMMA RefusalStep ==
  ASSUME Ledgers, NEW r \in Requests, NEW t, Ready(r, t), NEW d \in Details \cup {"none"}, Refusal(r, t, d)
  PROVE  Ledgers'
  <1>1. PICK status \in {200, 400} : Emit(r, t, status, TRUE, d)
    BY DEF Refusal
  <1>2. status \in Int
    OBVIOUS
  <1>3. \A e \in Details \cup {"none"} : Emit(r, t, status, TRUE, e) => Ledgers'
    BY <1>2, EmitReady, Zenon
  <1> QED
    BY <1>1, <1>3, Zenon

\* The errors of EncodeAnswers.
EncodeFails(r, t) ==
  \E d \in Details \cap Encodings, status \in {200, 502} : Emit(r, t, status, TRUE, d)

LEMMA EncodeFailsStep ==
  ASSUME Ledgers, NEW r \in Requests, NEW t, Ready(r, t), EncodeFails(r, t)
  PROVE  Ledgers'
  <1>1. PICK d \in Details, status \in {200, 502} : Emit(r, t, status, TRUE, d)
    BY DEF EncodeFails
  <1>2. status \in Int /\ d \in Details \cup {"none"}
    OBVIOUS
  <1>3. \A e \in Details \cup {"none"} : Emit(r, t, status, TRUE, e) => Ledgers'
    BY <1>2, EmitReady, Zenon
  <1> QED
    BY <1>1, <1>2, <1>3, Zenon

LEMMA FetchFailureStep ==
  ASSUME Ledgers, NEW r \in Requests, NEW t, Ready(r, t), FetchFailure(r, t)
  PROVE  Ledgers'
  <1>1. CASE Emit(r, [t EXCEPT !.cache = "stale"], 200, TRUE, "none")
    <2>1. Ready(r, [t EXCEPT !.cache = "stale"])
      BY ReadyNow DEF Ready, CacheResults
    <2>2. 200 \in Int /\ "none" \in Details \cup {"none"}
      OBVIOUS
    <2>3. \A e \in Details \cup {"none"} : Emit(r, [t EXCEPT !.cache = "stale"], 200, TRUE, e) => Ledgers'
      BY <2>1, <2>2, EmitReady, Zenon
    <2> QED
      BY <1>1, <2>2, <2>3, Zenon
  <1>2. CASE Refusal(r, t, "none")
    BY <1>2, RefusalStep
  <1> QED
    BY <1>1, <1>2 DEF FetchFailure

\* The steps of a request that wait for something, or are dropped.
LEMMA WaitingStep ==
  ASSUME Ledgers, NEW r \in Requests,
         \/ Begin(r) \/ Proceed(r) \/ Send(r) \/ RetryOk(r) \/ SendOk(r) \/ SendAgain(r) \/ Drop(r)
  PROVE  Ledgers'
  <1>1. /\ LedgerTypes /\ pc[r] \in Labels /\ otlp.active \in Int /\ otlp \in Ledger
        /\ timings[r] \in Timings /\ Collected(pc[r], timings[r], todo[r])
    BY DEF Ledgers, LedgerTypes, Labels, Progress, Ledger
  <1>2. /\ timings = [timings EXCEPT ![r] = timings[r]] /\ todo = [todo EXCEPT ![r] = todo[r]]
        /\ failed = [failed EXCEPT ![r] = failed[r]]
    BY <1>1, SameValue DEF LedgerTypes
  <1>3. otlp = [otlp EXCEPT !.active = @ + One(TRUE) - One(TRUE)]
    BY <1>1 DEF One, Ledger
  <1>4. CASE Begin(r)
    <2>1. /\ pc[r] = "new" /\ UNCHANGED made /\ Move(r, "start", timings[r], todo[r], failed[r])
          /\ otlp' = [otlp EXCEPT !.active = @ + 1]
      BY <1>2, <1>4 DEF Begin, Goto, Move
    <2>2. One("start" \in Open) = 1 /\ One(pc[r] \in Open) = 0
      BY <2>1 DEF One, Open
    <2>3. otlp' = [otlp EXCEPT !.active = @ + One("start" \in Open) - One(pc[r] \in Open)]
      BY <1>1, <2>1, <2>2
    <2>4. Collected("start", timings[r], <<>>) /\ ~ Retries("start", timings[r])
      BY <1>1, <2>1 DEF Collected, Retries
    <2> QED
      BY <1>1, <2>1, <2>3, <2>4, QuietStep DEF Open
  <1>5. ASSUME NEW label \in Open, NEW t \in Timings, pc[r] \in Open, UNCHANGED <<made, otlp>>,
               Move(r, label, t, todo[r], failed[r]), Collected(label, t, <<>>),
               Retries(label, t) => Retries(pc[r], timings[r])
        PROVE  Ledgers'
    <2>1. One(label \in Open) = 1 /\ One(pc[r] \in Open) = 1
      BY <1>5 DEF One
    <2>2. otlp' = [otlp EXCEPT !.active = @ + One(label \in Open) - One(pc[r] \in Open)]
      BY <1>1, <1>5, <2>1 DEF Ledger
    <2> QED
      BY <1>5, <2>2, QuietStep
  <1>6. CASE Proceed(r)
    <2>1. PICK c \in {"joined", "miss", "bypass"} : Observe(r, [timings[r] EXCEPT !.cache = c])
      BY <1>6 DEF Proceed
    <2> DEFINE t == [timings[r] EXCEPT !.cache = c]
    <2>2. /\ pc[r] = "start" /\ pc[r] \in Open /\ "check" \in Open /\ UNCHANGED <<made, otlp>>
          /\ Move(r, "check", t, todo[r], failed[r])
      BY <1>2, <1>6, <2>1 DEF Proceed, Goto, Observe, Move, Open
    <2>3. t \in Timings /\ t.cache # "none" /\ t.retried = timings[r].retried /\ t.rescued = timings[r].rescued
      BY <1>1 DEF Timings, CacheResults
    <2> HIDE DEF t
    <2>4. Collected("check", t, <<>>) /\ ~ Retries("check", t)
      BY <1>1, <2>2, <2>3 DEF Collected, Retries
    <2> QED
      BY <1>5, <2>2, <2>3, <2>4
  <1>7. CASE Send(r) \/ SendOk(r) \/ SendAgain(r)
    <2>1. PICK label \in {"sent", "headers"} : pc' = [pc EXCEPT ![r] = label]
      BY <1>7 DEF Send, SendOk, SendAgain, Goto
    <2>2. /\ pc[r] \in {"check", "sent", "headers"} /\ UNCHANGED <<made, otlp, timings, todo, failed>>
          /\ label \in Open /\ pc[r] \in Open
      BY <1>7 DEF Send, SendOk, SendAgain, Open
    <2>3. Move(r, label, timings[r], todo[r], failed[r])
      BY <1>2, <2>1, <2>2 DEF Move
    <2>4. Collected(label, timings[r], <<>>) /\ (Retries(label, timings[r]) => Retries(pc[r], timings[r]))
      BY <1>1, <2>2 DEF Collected, Retries, Open
    <2> QED
      BY <1>1, <1>5, <2>2, <2>3, <2>4
  <1>8. CASE RetryOk(r)
    <2> DEFINE t == [timings[r] EXCEPT !.retried = TRUE, !.rescued = TRUE]
    <2>2. /\ pc[r] = "retry" /\ pc[r] \in Open /\ "headers" \in Open /\ UNCHANGED <<made, otlp>>
          /\ Move(r, "headers", t, todo[r], failed[r])
      BY <1>2, <1>8 DEF RetryOk, Goto, Observe, Move, Open
    <2>3. t \in Timings /\ t.cache = timings[r].cache /\ t.retried /\ t.rescued
      BY <1>1 DEF Timings
    <2> HIDE DEF t
    <2>4. Collected("headers", t, <<>>) /\ Retries(pc[r], timings[r])
      BY <1>1, <2>2, <2>3 DEF Collected, Retries, Open
    <2> QED
      BY <1>5, <2>2, <2>3, <2>4
  <1>9. CASE Drop(r)
    <2>1. /\ pc[r] \in Open /\ UNCHANGED made /\ otlp' = [otlp EXCEPT !.active = @ - 1]
          /\ Move(r, "dropped", NoTimings, todo[r], failed[r])
      BY <1>2, <1>9 DEF Drop, Goto, Move, Open
    <2>2. One("dropped" \in Open) = 0 /\ One(pc[r] \in Open) = 1
      BY <2>1 DEF One, Open
    <2>3. otlp' = [otlp EXCEPT !.active = @ + One("dropped" \in Open) - One(pc[r] \in Open)]
      BY <1>1, <2>1, <2>2
    <2>4. NoTimings \in Timings /\ Collected("dropped", NoTimings, <<>>) /\ ~ Retries("dropped", NoTimings)
      BY DEF NoTimings, Timings, Collected, Retries, Open
    <2> QED
      BY <2>1, <2>3, <2>4, QuietStep
  <1> QED
    BY <1>4, <1>6, <1>7, <1>8, <1>9

LEMMA AnsweringStep ==
  ASSUME Ledgers, NEW r \in Requests,
         \/ Hit(r) \/ Joined(r) \/ CheckFails(r) \/ WaitFails(r) \/ SendFails(r) \/ RetryFails(r)
         \/ RedirectFails(r) \/ EncodeAnswers(r) \/ BodyFails(r)
  PROVE  Ledgers'
  <1>d. ASSUME NEW t, Ready(r, t), NEW status \in Int, NEW d \in Details, Emit(r, t, status, TRUE, d)
        PROVE  Ledgers'
    <2>1. \A e \in Details \cup {"none"} : Emit(r, t, status, TRUE, e) => Ledgers'
      BY <1>d, EmitReady, Zenon
    <2>2. d \in Details \cup {"none"}
      OBVIOUS
    <2> QED
      BY <1>d, <2>1, <2>2, Zenon
  <1>0. ASSUME NEW t, Ready(r, t), NEW status \in Int
        PROVE  /\ Emit(r, t, status, TRUE, "none") => Ledgers'
               /\ Emit(r, t, status, FALSE, "none") => Ledgers'
    <2>1. \A d \in Details \cup {"none"} : Emit(r, t, status, TRUE, d) => Ledgers'
      BY <1>0, EmitReady, Zenon
    <2>2. Emit(r, t, status, FALSE, "none") => Ledgers'
      BY <1>0, EmitReady, Zenon
    <2>3. "none" \in Details \cup {"none"}
      OBVIOUS
    <2> QED
      BY <2>1, <2>2, <2>3, Zenon
  <1>1. pc[r] \in Open
    BY DEF Hit, Joined, CheckFails, WaitFails, SendFails, RetryFails, RedirectFails, EncodeAnswers, BodyFails, Open
  <1>2. /\ \A c \in CacheResults : Ready(r, [timings[r] EXCEPT !.cache = c])
        /\ pc[r] # "start" => Ready(r, timings[r])
        /\ \A t : \A k \in Range(FetchKinds) : Ready(r, t) => Ready(r, [t EXCEPT !.fetch = k])
        /\ \A t : \A c \in CacheResults : Ready(r, t) => Ready(r, [t EXCEPT !.cache = c])
    BY <1>1, ReadyNow
  <1>3. 200 \in Int /\ 500 \in Int /\ 502 \in Int /\ 503 \in Int
    OBVIOUS
  <1>4. CASE Hit(r)
    <2>1. Ready(r, [timings[r] EXCEPT !.cache = "hit"])
      BY <1>2 DEF CacheResults
    <2>2. Emit(r, [timings[r] EXCEPT !.cache = "hit"], 200, FALSE, "none")
      BY <1>4 DEF Hit
    <2> QED
      BY <1>0, <1>3, <2>1, <2>2, Zenon
  <1>5. CASE Joined(r)
    <2>1. PICK c \in {"joined", "stale"} : Emit(r, [timings[r] EXCEPT !.cache = c], 200, FALSE, "none")
      BY <1>5, Zenon DEF Joined
    <2>2. Ready(r, [timings[r] EXCEPT !.cache = c])
      BY <1>2 DEF CacheResults
    <2> QED
      BY <1>0, <1>3, <2>1, <2>2, Zenon
  <1>6. CASE CheckFails(r)
    <2>1. Ready(r, timings[r])
      BY <1>2, <1>6 DEF CheckFails
    <2>2. CASE \E d \in Details \cap Denials : Refusal(r, timings[r], d)
      BY <2>1, <2>2, RefusalStep
    <2>3. CASE "dns" \in Range(FetchKinds) /\ FetchFailure(r, [timings[r] EXCEPT !.fetch = "dns"])
      <3>1. Ready(r, [timings[r] EXCEPT !.fetch = "dns"])
        BY <1>2, <2>1, <2>3, Zenon
      <3> QED
        BY <2>3, <3>1, FetchFailureStep, Zenon
    <2> QED
      BY <1>6, <2>2, <2>3, Zenon DEF CheckFails
  <1>7. CASE WaitFails(r)
    <2>1. Ready(r, timings[r])
      BY <1>2, <1>7 DEF WaitFails
    <2>2. PICK d \in Details \cap Waits : Emit(r, timings[r], 503, TRUE, d)
      BY <1>7, Zenon DEF WaitFails
    <2>3. d \in Details
      OBVIOUS
    <2> QED
      BY <1>d, <1>3, <2>1, <2>2, <2>3, Zenon
  <1>8. CASE SendFails(r)
    <2>1. Ready(r, timings[r])
      BY <1>2, <1>8 DEF SendFails
    <2>2. PICK k \in Range(FetchKinds) : FetchFailure(r, [timings[r] EXCEPT !.fetch = k])
      BY <1>8, Zenon DEF SendFails
    <2>3. Ready(r, [timings[r] EXCEPT !.fetch = k])
      BY <1>2, <2>1, Zenon
    <2> QED
      BY <2>2, <2>3, FetchFailureStep, Zenon
  <1>9. CASE RetryFails(r)
    <2>1. PICK k \in Range(FetchKinds) : FetchFailure(r, [timings[r] EXCEPT !.fetch = k, !.retried = TRUE])
      BY <1>9, Zenon DEF RetryFails
    <2> DEFINE t == [timings[r] EXCEPT !.fetch = k, !.retried = TRUE]
    <2>2. Ready(r, timings[r]) /\ Retries(pc[r], timings[r])
      BY <1>2, <1>9 DEF RetryFails, Retries, Open
    <2>3. t \in Timings /\ t.cache = timings[r].cache /\ t.retried
      BY <2>2 DEF Ready, Timings
    <2> HIDE DEF t
    <2>4. Ready(r, t)
      BY <2>2, <2>3 DEF Ready
    <2>5. FetchFailure(r, t)
      BY <2>1 DEF t
    <2> QED
      BY <2>4, <2>5, FetchFailureStep, Zenon
  <1>10. CASE RedirectFails(r)
    <2>1. Ready(r, timings[r])
      BY <1>2, <1>10 DEF RedirectFails
    <2>2. CASE \E d \in Details \cap (Denials \cup {"InvalidRedirect"}) : Refusal(r, timings[r], d)
      BY <2>1, <2>2, RefusalStep
    <2>3. CASE \E d \in Details \cap {"TooManyRedirects"} : Emit(r, timings[r], 502, TRUE, d)
      <3>1. PICK d \in Details : Emit(r, timings[r], 502, TRUE, d)
        BY <2>3, Zenon
      <3>2. Emit(r, timings[r], 502, TRUE, d) => Ledgers'
        BY <1>d, <1>3, <2>1, Zenon
      <3> QED
        BY <3>1, <3>2, Zenon
    <2>4. CASE "dns" \in Range(FetchKinds) /\ Refusal(r, [timings[r] EXCEPT !.fetch = "dns"], "none")
      <3>1. Ready(r, [timings[r] EXCEPT !.fetch = "dns"]) /\ "none" \in Details \cup {"none"}
        BY <1>2, <2>1, <2>4
      <3> QED
        BY <2>4, <3>1, RefusalStep, Zenon
    <2> QED
      BY <1>10, <2>2, <2>3, <2>4, Zenon DEF RedirectFails
  <1>11. CASE EncodeAnswers(r)
    <2>1. Ready(r, timings[r])
      BY <1>2, <1>11 DEF EncodeAnswers
    <2>2. CASE Emit(r, timings[r], 200, FALSE, "none") \/ Emit(r, timings[r], 500, FALSE, "none")
      <3>1. Emit(r, timings[r], 200, FALSE, "none") => Ledgers'
        BY <1>0, <1>3, <2>1, Zenon
      <3>2. Emit(r, timings[r], 500, FALSE, "none") => Ledgers'
        BY <1>0, <1>3, <2>1, Zenon
      <3> QED
        BY <2>2, <3>1, <3>2, Zenon
    <2>3. CASE EncodeFails(r, timings[r])
      BY <2>1, <2>3, EncodeFailsStep, Zenon
    <2>4. \/ Emit(r, timings[r], 200, FALSE, "none") \/ Emit(r, timings[r], 500, FALSE, "none")
          \/ EncodeFails(r, timings[r])
      BY <1>11, Zenon DEF EncodeAnswers, EncodeFails
    <2> QED
      BY <2>2, <2>3, <2>4, Zenon
  <1>12. CASE BodyFails(r)
    <2>1. Ready(r, timings[r])
      BY <1>2, <1>12 DEF BodyFails
    <2>2. PICK k \in Range(FetchKinds) :
            \/ Emit(r, [timings[r] EXCEPT !.fetch = k], 502, TRUE, "none")
            \/ Emit(r, [[timings[r] EXCEPT !.fetch = k] EXCEPT !.cache = "stale"], 200, FALSE, "none")
      BY <1>12, Zenon DEF BodyFails
    <2>3. Ready(r, [timings[r] EXCEPT !.fetch = k])
      BY <1>2, <2>1, Zenon
    <2>4. "stale" \in CacheResults
      BY DEF CacheResults
    <2>5. Ready(r, [[timings[r] EXCEPT !.fetch = k] EXCEPT !.cache = "stale"])
      BY <1>2, <2>3, <2>4, Zenon
    <2> QED
      BY <1>0, <1>3, <2>2, <2>3, <2>5, Zenon
  <1> QED
    BY <1>4, <1>5, <1>6, <1>7, <1>8, <1>9, <1>10, <1>11, <1>12

LEMMA CountingStep ==
  ASSUME Ledgers, NEW r \in Requests, Retry(r) \/ Headers(r)
  PROVE  Ledgers'
  <1>1. /\ LedgerTypes /\ timings[r] \in Timings /\ otlp \in Ledger /\ otlp.attempts \in Nat
    BY DEF Ledgers, LedgerTypes, Ledger
  <1>2. /\ timings = [timings EXCEPT ![r] = timings[r]] /\ todo = [todo EXCEPT ![r] = todo[r]]
        /\ failed = [failed EXCEPT ![r] = failed[r]]
    BY <1>1, SameValue DEF LedgerTypes
  <1>3. CASE Retry(r)
    <2>1. /\ pc[r] \in Open \ {"start"} /\ Move(r, "retry", timings[r], todo[r], failed[r])
          /\ Increment("retry_attempts") /\ otlp' = [otlp EXCEPT !.attempts = @ + 1]
      BY <1>2, <1>3 DEF Retry, Goto, Move, Open
    <2>2. otlp' = [otlp EXCEPT !.attempts = @ + One("retry" = "retry")]
      BY <2>1 DEF One
    <2> DEFINE label == "retry"
    <2>3. /\ label \in Open \ {"start", "check"} /\ Move(r, label, timings[r], todo[r], failed[r])
          /\ otlp' = [otlp EXCEPT !.attempts = @ + One(label = "retry")] /\ label = "retry"
      BY <2>1, <2>2 DEF Open
    <2> HIDE DEF label
    <2> QED
      BY <1>1, <2>1, <2>3, CountStep
  <1>4. CASE Headers(r)
    <2> DEFINE label == "encode"
               t == [timings[r] EXCEPT !.upstream = TRUE]
    <2>1. /\ pc[r] = "headers" /\ pc[r] \in Open \ {"start"} /\ Move(r, label, t, todo[r], failed[r])
          /\ Increment("http_responses") /\ otlp' = otlp
      BY <1>2, <1>4 DEF Headers, Goto, Observe, Move, Open
    <2>2. otlp' = [otlp EXCEPT !.attempts = @ + One(label = "retry")]
      <3>1. One(label = "retry") = 0
        BY DEF One
      <3>2. otlp = [otlp EXCEPT !.attempts = @ + 0]
        BY <1>1 DEF Ledger
      <3> QED
        BY <2>1, <3>1, <3>2
    <2>3. /\ t \in Timings /\ t.cache = timings[r].cache /\ t.retried = timings[r].retried
          /\ t.rescued = timings[r].rescued
      BY <1>1 DEF Timings
    <2>4. label # "retry" /\ label \in Open \ {"start", "check"}
      BY DEF Open
    <2> HIDE DEF label, t
    <2>5. Retries(label, t) = Retries(pc[r], timings[r])
      BY <2>1, <2>3, <2>4, <1>1 DEF Retries, Timings
    <2> QED
      BY <2>1, <2>2, <2>3, <2>4, <2>5, CountStep
  <1> QED
    BY <1>3, <1>4

LEMMA LedgersStep ==
  ASSUME Ledgers, [Next]_vars
  PROVE  Ledgers'
  <1>1. CASE UNCHANGED <<made, otlp, pc, timings, todo, failed>>
    <2>1. LedgerTypes' /\ Progress'
      BY <1>1 DEF Ledgers, LedgerTypes, Progress, Collected
    <2>2. Owed' = Owed
      BY <1>1, OwedKept
    <2>3. UNCHANGED <<With("emit"), With("answered"), Active, Failing, Retrying>>
      BY <1>1 DEF With, Active, Failing, Retrying, Retries
    <2>4. Balance'
      BY <1>1, <2>2, <2>3 DEF Ledgers, Balance, Entries, Accounts
    <2> QED
      BY <2>1, <2>4 DEF Ledgers
  <1>2. CASE Swap \/ Log \/ UNCHANGED vars
    <2>1. UNCHANGED <<made, otlp, pc, timings, todo, failed>>
      BY <1>2 DEF Swap, Log, vars
    <2> QED
      BY <1>1, <2>1
  <1>3. ASSUME NEW r \in Requests, Step(r)
        PROVE  Ledgers'
    BY <1>3, WaitingStep, AnsweringStep, CountingStep, EmitNextStep, CompleteStep DEF Step
  <1> QED
    BY <1>2, <1>3 DEF Next

LEMMA LedgersInit == Init => Ledgers
  <1> SUFFICES ASSUME Init PROVE Ledgers
    OBVIOUS
  <1>0. Zero \in [Counter -> Nat] /\ \A c \in Counter : Zero[c] = 0
    BY DEF Zero
  <1>1. \A r \in Requests : pc[r] = "new" /\ timings[r] = NoTimings /\ todo[r] = <<>> /\ failed[r] = FALSE
    BY DEF Init
  <1>2. LedgerTypes
    <2>1. NoTimings \in Timings
      BY DEF NoTimings, Timings
    <2>2. otlp \in Ledger
      BY DEF Init, Ledger
    <2>3. <<>> \in Seq(Counter) /\ IsInjective(<<>>)
      BY DEF IsInjective
    <2>4. /\ pc \in [Requests -> Open \cup {"new", "emit", "answered", "dropped"}]
          /\ timings \in [Requests -> Timings] /\ todo \in [Requests -> Seq(Counter)]
          /\ failed \in [Requests -> BOOLEAN] /\ made \in [Counter -> Nat]
      BY <1>0, <2>1, <2>3 DEF Init
    <2> QED
      BY <1>1, <2>2, <2>3, <2>4 DEF LedgerTypes
  <1>3. Progress
    BY <1>1 DEF Progress, Collected, NoTimings, Open
  <1>4. Owed \in [Counter -> Nat] /\ \A c \in Counter : Owed[c] = 0
    <2>1. Range(<<>>) = {}
      BY DEF Range
    <2>2. \A c \in Counter : Pending(c) = {}
      BY <1>1, <2>1 DEF Pending
    <2>3. Cardinality({}) = 0 /\ \A c \in Counter : made[c] = 0
      BY <1>0, FS_EmptySet DEF Init
    <2>4. \A c \in Counter : made[c] + Cardinality(Pending(c)) = 0
      BY <2>2, <2>3
    <2> QED
      BY <2>4 DEF Owed
  <1>5. Fixed \subseteq Counter
    BY CountersKnown
  <1>6. Entries(otlp, Owed)
    <2>1. SumFunctionOnSet(otlp.cache, CacheResults) = 0
      <3> DEFINE f == otlp.cache
      <3>1. \A c \in CacheResults : f[c] = 0
        BY DEF Init
      <3> HIDE DEF f
      <3>2. SumFunctionOnSet(f, CacheResults) = 0
        BY <3>1, CacheResultsFinite, SumOfZeros
      <3> QED
        BY <3>2 DEF f
    <2>2. SumFunctionOnSet(Owed, ErrorCounters) = 0
      <3>1. \A c \in ErrorCounters : Owed[c] = 0
        BY <1>4, ErrorCountersKnown
      <3> QED
        BY <3>1, ErrorCountersKnown, SumOfZeros
    <2>3. \A k \in Range(FetchKinds) : otlp.fetch[k] = Owed[Fetch[k]]
      BY <1>4, ErrorCountersKnown DEF Init
    <2>4. \A c \in Classes \ {"perr_upstream_status", "internal_error"} : otlp.processing[c] = Owed[c]
      BY <1>4, ErrorCountersKnown DEF Init
    <2>5. /\ otlp.cache["hit"] + otlp.cache["joined"] = Owed["cache_hits"]
          /\ otlp.cache["miss"] = Owed["cache_misses"] /\ otlp.cache["stale"] = Owed["cache_stale_served"]
      BY <1>4, <1>5 DEF Init, Fixed, CacheResults
    <2>6. Owed["requests"] = 0
      BY <1>4, <1>5 DEF Fixed
    <2> QED
      BY <2>1, <2>2, <2>3, <2>4, <2>5, <2>6 DEF Entries
  <1>7. /\ With("emit") = {} /\ With("answered") = {} /\ Active = {} /\ Failing = {} /\ Retrying = {}
    BY <1>1 DEF With, Active, Failing, Retrying, Retries, Open
  <1>8. Balance
    <2>1. Cardinality({}) = 0
      BY FS_EmptySet
    <2>2. /\ Owed["requests"] = 0 /\ Owed["errors"] = 0 /\ Owed["retry_attempts"] = 0 /\ Owed["retry_saved"] = 0
      BY <1>4, <1>5 DEF Fixed
    <2>3. /\ otlp.requests = 0 /\ otlp.errors = 0 /\ otlp.active = 0 /\ otlp.attempts = 0 /\ otlp.successes = 0
          /\ otlp.cache["stale"] = 0
      BY DEF Init, CacheResults
    <2> QED
      BY <1>6, <1>7, <2>1, <2>2, <2>3 DEF Balance, Accounts
  <1> QED
    BY <1>2, <1>3, <1>8 DEF Ledgers

\* When no summary is under way, all that is owed has been counted.
LEMMA NothingOwed ==
  ASSUME Ledgers, With("emit") = {}
  PROVE  Owed = made
  <1>1. \A r \in Requests : todo[r] = <<>>
    BY DEF Ledgers, Progress, Collected, With
  <1>2. Range(<<>>) = {}
    BY DEF Range
  <1>3. \A c : Pending(c) = {}
    BY <1>1, <1>2 DEF Pending
  <1>4. Cardinality({}) = 0
    BY FS_EmptySet
  <1>5. made \in [Counter -> Nat]
    BY DEF Ledgers, LedgerTypes
  <1> QED
    BY <1>3, <1>4, <1>5 DEF Owed

LEMMA LedgersImply == Ledgers => LedgersAgree
  <1> SUFFICES ASSUME Ledgers, With("emit") = {} PROVE LedgersAgree
    BY DEF LedgersAgree
  <1>1. Owed = made
    BY NothingOwed
  <1>2. /\ Entries(otlp, made)
        /\ Accounts(otlp, made, Cardinality(With("emit")), Cardinality(With("answered")), Cardinality(Active),
                    Cardinality(Failing), Cardinality(Retrying))
    BY <1>1 DEF Ledgers, Balance
  <1>3. Failing = {} /\ Cardinality({}) = 0
    BY FS_EmptySet DEF Failing, With
  <1>4. Cardinality(Retrying) \in Nat
    <2>1. Retrying \in SUBSET Requests
      BY DEF Retrying
    <2> QED
      BY <2>1, Counting
  <1>5. /\ otlp.requests \in Nat /\ otlp.errors \in Nat /\ otlp.attempts \in Nat /\ otlp.successes \in Nat
        /\ otlp.cache["stale"] \in Nat /\ made["errors"] \in Nat /\ made["retry_saved"] \in Nat
    BY CountersKnown DEF Ledgers, LedgerTypes, Ledger, Fixed, CacheResults
  <1>6. /\ made["requests"] = otlp.requests /\ otlp.requests = Cardinality(With("answered"))
        /\ otlp.active = Cardinality(Active)
        /\ otlp.errors <= made["errors"] /\ made["errors"] - otlp.errors <= otlp.cache["stale"]
        /\ otlp.attempts = made["retry_attempts"]
        /\ made["retry_saved"] <= made["retry_attempts"] /\ otlp.successes <= otlp.attempts
    <2>1. Cardinality(With("emit")) = 0 /\ Cardinality(Failing) = 0
      BY <1>3
    <2>2. made["requests"] = otlp.requests + 0 /\ otlp.requests = Cardinality(With("answered")) /\ otlp.active = Cardinality(Active)
      BY <1>2, <2>1 DEF Accounts
    <2>3. otlp.errors + 0 <= made["errors"] /\ made["errors"] <= otlp.errors + 0 + otlp.cache["stale"]
      BY <1>2, <2>1 DEF Accounts
    <2>4. /\ otlp.attempts = made["retry_attempts"]
          /\ made["retry_saved"] + Cardinality(Retrying) <= otlp.attempts
          /\ otlp.successes + Cardinality(Retrying) <= otlp.attempts
      BY <1>2 DEF Accounts
    <2>5. made["retry_saved"] <= made["retry_attempts"] /\ otlp.successes <= otlp.attempts
      BY <1>4, <1>5, <2>4
    <2>6. made["errors"] - otlp.errors <= otlp.cache["stale"] /\ otlp.errors <= made["errors"]
      BY <1>5, <2>3
    <2> QED
      BY <1>5, <2>2, <2>4, <2>5, <2>6
  <1> QED
    BY <1>2, <1>6 DEF Entries, LedgersAgree, Active

\* The two ledgers agree whenever no summary is under way, for any number of requests and in
\* any order of their steps and of sweeps, whatever is answered and whoever goes away.
THEOREM LedgersCorrect == Spec => []LedgersAgree
  <1>1. Init => Ledgers
    BY LedgersInit
  <1>2. Ledgers /\ [Next]_vars => Ledgers'
    BY LedgersStep
  <1>3. Ledgers => LedgersAgree
    BY LedgersImply
  <1> QED
    BY <1>1, <1>2, <1>3, PTL DEF Spec
=============================================================================
