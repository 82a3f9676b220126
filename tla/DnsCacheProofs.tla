--------------------------- MODULE DnsCacheProofs ---------------------------
(***************************************************************************)
(* Theorems about DnsCache for any number of callers and hosts: whose      *)
(* flight is in the table and who may remove it, where the permits are,    *)
(* and how many entries the map may hold.                                  *)
(***************************************************************************)
EXTENDS DnsCache, FiniteSetTheorems, TLAPS

\* Types of what the flights depend on.
FlightTypes ==
  /\ inflight \in [Hosts -> Callers \cup {NoFlight}]
  /\ guard \in [Callers -> BOOLEAN]
  /\ host \in [Callers -> Hosts]
  /\ pc \in [Callers -> Steps]

Inv == FlightTypes /\ FlightsOwned

\* The second conjunct of FlightsOwned.
GuardsOwned == \A c \in Callers : guard[c] <=> pc[c] \in Owning

LEMMA InvInit == Init => Inv
  BY DnsAssumption DEF Init, Inv, FlightTypes, FlightsOwned, Owning, Steps, Awaiting

\* A step of c that leaves the table and the guards alone and stays on its side of Owning.
LEMMA Elsewhere ==
  ASSUME Inv, NEW c \in Callers, UNCHANGED <<inflight, guard, host>>,
         NEW s \in Steps, pc' = [pc EXCEPT ![c] = s], s \in Owning <=> pc[c] \in Owning
  PROVE  Inv'
  BY DEF Inv, FlightTypes, FlightsOwned

\* c becomes the owner of the flight of its host.
LEMMA Owned ==
  ASSUME Inv, NEW c \in Callers, Own(c), UNCHANGED host, pc' = [pc EXCEPT ![c] = "permit"]
  PROVE  Inv'
  <1>1. host[c] \in Hosts /\ c # NoFlight
    BY DnsAssumption DEF Inv, FlightTypes
  <1> QED
    BY <1>1 DEF Inv, FlightTypes, FlightsOwned, Own, Owning, Steps, Awaiting

\* The owner c is through: its own flight, if it is still there, goes with the guard.
LEMMA Disowned ==
  ASSUME Inv, NEW c \in Callers, RemoveIfCurrent(c), guard' = [guard EXCEPT ![c] = FALSE],
         UNCHANGED host, NEW s \in Steps \ Owning, pc' = [pc EXCEPT ![c] = s]
  PROVE  Inv'
  <1>1. FlightTypes'
    BY DEF Inv, FlightTypes, RemoveIfCurrent
  <1>2. GuardsOwned'
    BY DEF Inv, FlightTypes, FlightsOwned, GuardsOwned
  <1>3. ASSUME NEW h \in Hosts, inflight'[h] # NoFlight
        PROVE  host'[inflight'[h]] = h /\ guard'[inflight'[h]]
    <2>1. inflight'[h] = inflight[h] /\ inflight[h] \in Callers
      BY <1>3 DEF Inv, FlightTypes, RemoveIfCurrent
    <2>2. host[inflight[h]] = h
      BY <1>3, <2>1 DEF Inv, FlightsOwned
    <2>3. inflight[h] # c
      BY <1>3, <2>1, <2>2 DEF Inv, FlightTypes, RemoveIfCurrent
    <2> QED
      BY <1>3, <2>1, <2>2, <2>3 DEF Inv, FlightTypes, FlightsOwned
  <1> QED
    BY <1>1, <1>2, <1>3 DEF Inv, FlightsOwned, GuardsOwned

LEMMA InvNext ==
  ASSUME Inv, [Next]_vars
  PROVE  Inv'
  <1> USE DEF Steps, Awaiting, Owning, Goto, Return
  <1>1. ASSUME NEW c \in Callers,
               ReadHit(c) \/ ReadMiss(c) \/ TrySubscribe(c) \/ ReceiveAddresses(c)
               \/ ReceiveFailure(c) \/ GiveUp(c) \/ LoseRegistration(c) \/ TryStaleOrErr(c)
        PROVE  Inv'
    BY <1>1, Elsewhere
    DEF ReadHit, ReadMiss, TrySubscribe, ReceiveAddresses, ReceiveFailure, GiveUp, LoseRegistration,
        TryStaleOrErr
  <1>2. ASSUME NEW c \in Callers, Leave(c) PROVE Inv'
    BY <1>2 DEF Leave, Inv, FlightTypes, FlightsOwned
  <1>3. ASSUME NEW c \in Callers, Register(c) \/ ForceRegister(c) PROVE Inv'
    BY <1>3, Owned DEF Register, ForceRegister
  <1>4. ASSUME NEW c \in Callers,
               AcquirePermit(c) \/ LookupEnds(c) \/ LookupTimesOut(c) \/ Insert(c) \/ Send(c)
        PROVE  Inv'
    BY <1>4, Elsewhere DEF AcquirePermit, LookupEnds, LookupTimesOut, Insert, Send
  <1>5. ASSUME NEW c \in Callers, Complete(c) PROVE Inv'
    BY <1>5, Disowned DEF Complete
  <1>6. ASSUME NEW c \in Callers, DropGuard(c) PROVE Inv'
    BY <1>6, Disowned DEF DropGuard
  <1>7. ASSUME NEW c \in Callers, BackgroundEnds(c) PROVE Inv'
    BY <1>7 DEF BackgroundEnds, Inv, FlightTypes, FlightsOwned
  <1>8. ASSUME NEW c \in Callers, Cancel(c) PROVE Inv'
    <2>1. CASE guard[c]
      BY <1>8, <2>1, Elsewhere DEF Cancel, Inv, FlightsOwned
    <2>2. CASE ~ guard[c]
      BY <1>8, <2>2, Elsewhere DEF Cancel, Inv, FlightsOwned
    <2> QED
      BY <2>1, <2>2
  <1>9. CASE Tick \/ UNCHANGED vars
    BY <1>9 DEF Tick, vars, Inv, FlightTypes, FlightsOwned
  <1> QED
    BY <1>1, <1>2, <1>3, <1>4, <1>5, <1>6, <1>7, <1>8, <1>9 DEF Next, ResolveStep

\* Which step takes a sender out of the table.
LEMMA Removal ==
  ASSUME Inv, [Next]_vars, NEW h \in Hosts, inflight'[h] # inflight[h]
  PROVE  \/ inflight[h] = NoFlight
         \/ ~ guard'[inflight[h]]
         \/ \E c \in Callers : pc[c] \in {"leave", "releave", "force"} /\ pc'[c] # pc[c]
  <1> USE DEF Inv, FlightTypes, Goto
  <1>1. ASSUME NEW c \in Callers, Register(c) PROVE inflight[h] = NoFlight
    BY <1>1 DEF Register, Own
  <1>2. ASSUME NEW c \in Callers, Leave(c) \/ ForceRegister(c)
        PROVE  pc[c] \in {"leave", "releave", "force"} /\ pc'[c] # pc[c]
    BY <1>2 DEF Leave, ForceRegister
  <1>3. ASSUME NEW c \in Callers, Complete(c) \/ DropGuard(c) PROVE ~ guard'[inflight[h]]
    <2>1. inflight[h] = c
      BY <1>3 DEF Complete, DropGuard, RemoveIfCurrent
    <2>2. guard' = [guard EXCEPT ![c] = FALSE]
      BY <1>3 DEF Complete, DropGuard
    <2> QED
      BY <2>1, <2>2
  <1>4. \E c \in Callers : Register(c) \/ Leave(c) \/ ForceRegister(c) \/ Complete(c) \/ DropGuard(c)
    <2>1. ~ UNCHANGED inflight
      OBVIOUS
    <2> QED
      BY <2>1
      DEF Next, ResolveStep, vars, Tick, ReadHit, ReadMiss, TrySubscribe, ReceiveAddresses, ReceiveFailure,
          GiveUp, LoseRegistration, TryStaleOrErr, AcquirePermit, LookupEnds, LookupTimesOut, Insert, Send,
          BackgroundEnds, Cancel
  <1> QED
    BY <1>1, <1>2, <1>3, <1>4

\* Senders in the table belong to running calls that will remove them, whichever way resolve is
\* left (DnsFlightGuard, main.rs:1807-1837), and guards to owners.
THEOREM FlightsOwnedAlways == Spec => []FlightsOwned
  <1>1. Spec => []Inv
    BY InvInit, InvNext, PTL DEF Spec
  <1> QED
    BY <1>1, PTL DEF Inv

\* An owner whose flight was replaced by force does not remove its successor's
\* (remove_if_current, main.rs:1817).
THEOREM ReplacementsSurvive == Spec => ReplacementSurvives
  <1>1. Spec => []Inv
    BY InvInit, InvNext, PTL DEF Spec
  <1>2. Inv /\ [Next]_vars => [\A h \in Hosts : inflight'[h] # inflight[h] =>
       \/ inflight[h] = NoFlight
       \/ ~ guard'[inflight[h]]
       \/ \E c \in Callers : pc[c] \in {"leave", "releave", "force"} /\ pc'[c] # pc[c]]_vars
    BY Removal
  <1> QED
    BY <1>1, <1>2, PTL DEF Spec, ReplacementSurvives

-----------------------------------------------------------------------------
\* Types, and where the permits are

\* Where a call has not looked anything up yet, and where its lookups have an outcome.
BeforeLookup == {"read", "subscribe", "wait", "leave", "register", "rewait", "releave", "force"}
AfterLookup == {"insert", "send", "complete"}

\* Types of everything but the permits, which are only known to be a number.
TypesButPermits ==
  /\ map \in [Hosts -> Entry \cup {NoEntry}]
  /\ now \in Nat
  /\ inflight \in [Hosts -> Callers \cup {NoFlight}]
  /\ sent \in [Callers -> Sent]
  /\ guard \in [Callers -> BOOLEAN]
  /\ free \in Nat
  /\ background \in [Callers -> 0..2]
  /\ host \in [Callers -> Hosts]
  /\ pc \in [Callers -> Steps]
  /\ rx \in [Callers -> [flight : Callers \cup {NoFlight}, late : BOOLEAN]]
  /\ retried \in [Callers -> BOOLEAN]
  /\ outcome \in [Callers -> Sent]
  /\ answer \in [Callers -> Answers]

Subscribers ==
  \A c \in Callers : pc[c] \in {"wait", "rewait", "leave", "releave"} => rx[c].flight # NoFlight

\* No more lookups are left behind than have timed out, and what is inserted has an outcome.
LookupsCounted ==
  \A c \in Callers :
    /\ pc[c] \in BeforeLookup => ~ retried[c]
    /\ ~ retried[c] => background[c] = 0
    /\ pc[c] \in {"permit", "lookup"} => background[c] <= 1
    /\ pc[c] \in AfterLookup => outcome[c] \in Outcomes

PermitInv == TypesButPermits /\ Subscribers /\ LookupsCounted /\ PermitsAccounted

LEMMA PermitSets ==
  /\ IsFiniteSet(LookingUp) /\ Cardinality(LookingUp) \in Nat
  /\ IsFiniteSet(LeftBehind) /\ Cardinality(LeftBehind) \in Nat
  <1>1. IsFiniteSet(Callers \X {1, 2})
    <2>1. IsFiniteSet({1, 2})
      <3>1. {1, 2} = 1..2
        OBVIOUS
      <3> QED
        BY <3>1, FS_Interval, 1 \in Int, 2 \in Int
    <2> QED
      BY <2>1, DnsAssumption, FS_Product
  <1>2. LookingUp \in SUBSET Callers /\ LeftBehind \in SUBSET (Callers \X {1, 2})
    BY DEF LookingUp, LeftBehind
  <1> QED
    BY <1>1, <1>2, DnsAssumption, FS_Subset, FS_CardinalityType

\* A step of c that does not take or give back a permit.
LEMMA PermitsStay ==
  ASSUME PermitInv, NEW c \in Callers, UNCHANGED <<free, background>>,
         NEW s \in Steps, pc' = [pc EXCEPT ![c] = s], s = "lookup" <=> pc[c] = "lookup"
  PROVE  PermitsAccounted'
  <1>1. LookingUp' = LookingUp /\ LeftBehind' = LeftBehind
    BY DEF PermitInv, TypesButPermits, LookingUp, LeftBehind
  <1> QED
    BY <1>1 DEF PermitInv, PermitsAccounted

\* c begins a lookup ...
LEMMA LookupBegins ==
  ASSUME PermitInv, NEW c \in Callers, UNCHANGED background, pc[c] # "lookup",
         pc' = [pc EXCEPT ![c] = "lookup"]
  PROVE  /\ Cardinality(LookingUp') = Cardinality(LookingUp) + 1
         /\ LeftBehind' = LeftBehind
  <1>1. LookingUp' = LookingUp \cup {c} /\ c \notin LookingUp /\ LeftBehind' = LeftBehind
    BY DEF PermitInv, TypesButPermits, LookingUp, LeftBehind
  <1> QED
    BY <1>1, PermitSets, FS_AddElement

\* ... and no longer waits for one.
LEMMA LookupLeaves ==
  ASSUME PermitInv, NEW c \in Callers, pc[c] = "lookup",
         NEW s \in Steps \ {"lookup"}, pc' = [pc EXCEPT ![c] = s]
  PROVE  Cardinality(LookingUp') = Cardinality(LookingUp) - 1
  <1>1. LookingUp' = LookingUp \ {c} /\ c \in LookingUp
    BY DEF PermitInv, TypesButPermits, LookingUp
  <1> QED
    BY <1>1, PermitSets, FS_RemoveElement

\* A lookup of c is left behind ...
LEMMA BackgroundBegins ==
  ASSUME PermitInv, NEW c \in Callers, background[c] <= 1,
         background' = [background EXCEPT ![c] = @ + 1]
  PROVE  Cardinality(LeftBehind') = Cardinality(LeftBehind) + 1
  <1> DEFINE l == <<c, background[c] + 1>>
  <1>1. background[c] \in 0..1 /\ background \in [Callers -> 0..2]
    BY DEF PermitInv, TypesButPermits
  <1>2. l \notin LeftBehind
    BY <1>1 DEF LeftBehind
  <1>3. LeftBehind' = LeftBehind \cup {l}
    <2>1. ASSUME NEW e \in Callers \X {1, 2}
          PROVE  e \in LeftBehind' <=> e \in LeftBehind \cup {l}
      <3>1. PICK d \in Callers, n \in {1, 2} : e = <<d, n>>
        OBVIOUS
      <3>2. CASE d = c
        BY <1>1, <3>1, <3>2 DEF LeftBehind
      <3>3. CASE d # c
        BY <1>1, <3>1, <3>3 DEF LeftBehind
      <3> QED
        BY <3>2, <3>3
    <2>2. l \in Callers \X {1, 2}
      BY <1>1
    <2> QED
      BY <2>1, <2>2 DEF LeftBehind
  <1> QED
    BY <1>2, <1>3, PermitSets, FS_AddElement

\* ... and ends.
LEMMA BackgroundGone ==
  ASSUME PermitInv, NEW c \in Callers, background[c] > 0,
         background' = [background EXCEPT ![c] = @ - 1]
  PROVE  Cardinality(LeftBehind') = Cardinality(LeftBehind) - 1
  <1> DEFINE l == <<c, background[c]>>
  <1>1. background[c] \in 1..2 /\ background \in [Callers -> 0..2]
    BY DEF PermitInv, TypesButPermits
  <1>2. l \in LeftBehind
    BY <1>1 DEF LeftBehind
  <1>3. LeftBehind' = LeftBehind \ {l}
    <2>1. ASSUME NEW e \in Callers \X {1, 2}
          PROVE  e \in LeftBehind' <=> e \in LeftBehind \ {l}
      <3>1. PICK d \in Callers, n \in {1, 2} : e = <<d, n>>
        OBVIOUS
      <3>2. CASE d = c
        BY <1>1, <3>1, <3>2 DEF LeftBehind
      <3>3. CASE d # c
        BY <1>1, <3>1, <3>3 DEF LeftBehind
      <3> QED
        BY <3>2, <3>3
    <2> QED
      BY <2>1 DEF LeftBehind
  <1> QED
    BY <1>2, <1>3, PermitSets, FS_RemoveElement

-----------------------------------------------------------------------------
\* The steps

LEMMA PermitInit == Init => PermitInv
  <1> SUFFICES ASSUME Init PROVE PermitInv
    OBVIOUS
  <1>1. LookingUp = {} /\ LeftBehind = {}
    BY DEF Init, LookingUp, LeftBehind
  <1>2. PermitsAccounted
    BY <1>1, FS_EmptySet, DnsAssumption DEF Init, PermitsAccounted
  <1> QED
    BY <1>2, DnsAssumption
    DEF Init, PermitInv, TypesButPermits, Subscribers, LookupsCounted, Steps, Awaiting, Sent, Answers,
        Unsubscribed, BeforeLookup, AfterLookup, Outcomes

\* What making room leaves is a map.
LEMMA RoomTyped ==
  ASSUME TypesButPermits, NEW h \in Hosts, NEW roomy \in MadeRoom(h)
  PROVE  roomy \in [Hosts -> Entry \cup {NoEntry}]
  <1>1. map \in [Hosts -> Entry \cup {NoEntry}]
    BY DEF TypesButPermits
  <1>2. Swept \in [Hosts -> Entry \cup {NoEntry}]
    BY <1>1 DEF Swept
  <1>3. \/ roomy = map \/ roomy = Swept
        \/ \E k \in Cached(Swept) : roomy = [Swept EXCEPT ![k] = NoEntry]
    BY DEF MadeRoom
  <1> QED
    BY <1>1, <1>2, <1>3

\* A step changes at most the map, by making room and inserting an outcome, and the clock.
LEMMA TypesNext ==
  ASSUME PermitInv, [Next]_vars
  PROVE  TypesButPermits'
  <1> USE DEF PermitInv, TypesButPermits, LookupsCounted, Steps, Awaiting, Outcomes, Sent, Answers, Goto,
              Return, Subscribe, Unsubscribed
  <1>1. ASSUME NEW c \in Callers,
               ReadHit(c) \/ ReadMiss(c) \/ TrySubscribe(c) \/ ReceiveAddresses(c)
               \/ ReceiveFailure(c) \/ GiveUp(c)
        PROVE  TypesButPermits'
    <2>1. CASE ReadHit(c) \/ ReadMiss(c)
      BY <2>1 DEF ReadHit, ReadMiss
    <2>2. CASE TrySubscribe(c)
      <3>1. pc' \in [Callers -> Steps]
        BY <2>2 DEF TrySubscribe
      <3>2. rx' \in [Callers -> [flight : Callers \cup {NoFlight}, late : BOOLEAN]]
        <4>1. CASE UNCHANGED rx
          BY <4>1
        <4>2. CASE Subscribe(c)
          BY <4>2
        <4> QED
          BY <2>2, <4>1, <4>2 DEF TrySubscribe
      <3> QED
        BY <2>2, <3>1, <3>2 DEF TrySubscribe
    <2>3. CASE ReceiveAddresses(c)
      BY <2>3 DEF ReceiveAddresses
    <2>4. CASE ReceiveFailure(c)
      BY <2>4 DEF ReceiveFailure
    <2>5. CASE GiveUp(c)
      BY <2>5 DEF GiveUp
    <2> QED
      BY <1>1, <2>1, <2>2, <2>3, <2>4, <2>5
  <1>2. ASSUME NEW c \in Callers, Leave(c) \/ Register(c) \/ LoseRegistration(c) \/ ForceRegister(c)
        PROVE  TypesButPermits'
    <2>1. CASE Leave(c)
      BY <2>1 DEF Leave
    <2>2. CASE Register(c)
      BY <2>2 DEF Register, Own
    <2>3. CASE ForceRegister(c)
      BY <2>3 DEF ForceRegister, Own
    <2>4. CASE LoseRegistration(c)
      BY <2>4 DEF LoseRegistration
    <2> QED
      BY <1>2, <2>1, <2>2, <2>3, <2>4
  <1>3. ASSUME NEW c \in Callers, AcquirePermit(c) \/ LookupEnds(c)
        PROVE  TypesButPermits'
    <2>1. CASE AcquirePermit(c)
      BY <2>1 DEF AcquirePermit
    <2>2. CASE LookupEnds(c)
      BY <2>2 DEF LookupEnds
    <2> QED
      BY <1>3, <2>1, <2>2
  <1>4. ASSUME NEW c \in Callers, LookupTimesOut(c)
        PROVE  TypesButPermits'
    <2>1. background[c] \in 0..1
      BY <1>4 DEF LookupTimesOut
    <2>2. background' \in [Callers -> 0..2] /\ retried' \in [Callers -> BOOLEAN]
      BY <1>4, <2>1 DEF LookupTimesOut
    <2>3. pc' \in [Callers -> Steps] /\ outcome' \in [Callers -> Sent]
      BY <1>4 DEF LookupTimesOut
    <2> QED
      BY <1>4, <2>2, <2>3 DEF LookupTimesOut
  <1>5. ASSUME NEW c \in Callers, BackgroundEnds(c)
        PROVE  TypesButPermits'
    <2>1. background[c] \in 1..2
      BY <1>5 DEF BackgroundEnds
    <2> QED
      BY <1>5, <2>1 DEF BackgroundEnds
  <1>6. ASSUME NEW c \in Callers, Insert(c)
        PROVE  TypesButPermits'
    <2>1. PICK roomy \in MadeRoom(host[c]) :
            map' = [roomy EXCEPT ![host[c]] = [kind |-> outcome[c], born |-> now]]
      BY <1>6 DEF Insert
    <2>2. roomy \in [Hosts -> Entry \cup {NoEntry}]
      BY <2>1, RoomTyped
    <2>3. [kind |-> outcome[c], born |-> now] \in Entry
      BY <1>6 DEF Insert, AfterLookup, Entry
    <2>4. map' \in [Hosts -> Entry \cup {NoEntry}]
      BY <2>1, <2>2, <2>3
    <2> QED
      BY <1>6, <2>4 DEF Insert
  <1>7. ASSUME NEW c \in Callers, Send(c) \/ Complete(c) \/ TryStaleOrErr(c) \/ DropGuard(c) \/ Cancel(c)
        PROVE  TypesButPermits'
    <2>1. CASE Send(c) \/ TryStaleOrErr(c)
      <3>1. CASE Send(c)
        BY <3>1 DEF Send
      <3>2. CASE TryStaleOrErr(c)
        BY <3>2 DEF TryStaleOrErr
      <3> QED
        BY <2>1, <3>1, <3>2
    <2>2. CASE Complete(c)
      BY <2>2 DEF Complete, RemoveIfCurrent
    <2>3. CASE DropGuard(c)
      BY <2>3 DEF DropGuard, RemoveIfCurrent
    <2>4. CASE Cancel(c)
      BY <2>4 DEF Cancel
    <2> QED
      BY <1>7, <2>1, <2>2, <2>3, <2>4
  <1>8. CASE Tick \/ UNCHANGED vars
    BY <1>8 DEF Tick, vars
  <1> QED
    BY <1>1, <1>2, <1>3, <1>4, <1>5, <1>6, <1>7, <1>8 DEF Next, ResolveStep

LEMMA SubscribersNext ==
  ASSUME PermitInv, [Next]_vars
  PROVE  Subscribers'
  <1> USE DEF PermitInv, TypesButPermits, Subscribers, Goto, Return
  <1>1. ASSUME NEW c \in Callers, TrySubscribe(c)
        PROVE  Subscribers'
    <2>1. CASE Goto(c, "subscribe", "wait") /\ Subscribe(c)
      BY <1>1, <2>1 DEF TrySubscribe, Subscribe
    <2>2. CASE Goto(c, "subscribe", "register") /\ UNCHANGED rx
      BY <1>1, <2>2 DEF TrySubscribe
    <2> QED
      BY <1>1, <2>1, <2>2 DEF TrySubscribe
  <1>2. ASSUME NEW c \in Callers, LoseRegistration(c)
        PROVE  Subscribers'
    BY <1>2 DEF LoseRegistration, Subscribe
  \* Everywhere else c keeps its receiver or goes where it needs none.
  <1>3. ASSUME NEW c \in Callers, NEW s \in Steps, pc' = [pc EXCEPT ![c] = s],
               \A d \in Callers \ {c} : rx'[d] = rx[d],
               \/ s \notin {"wait", "rewait", "leave", "releave"}
               \/ rx'[c] = rx[c] /\ pc[c] \in {"wait", "rewait"}
        PROVE  Subscribers'
    BY <1>3
  <1>4. ASSUME NEW c \in Callers,
               ReadHit(c) \/ ReadMiss(c) \/ ReceiveAddresses(c) \/ ReceiveFailure(c) \/ GiveUp(c)
               \/ Leave(c) \/ Register(c) \/ ForceRegister(c) \/ AcquirePermit(c)
        PROVE  Subscribers'
    <2> USE DEF Steps, Awaiting
    <2>1. CASE ReadHit(c) \/ ReadMiss(c)
      BY <2>1, <1>3 DEF ReadHit, ReadMiss
    <2>2. CASE ReceiveAddresses(c)
      BY <2>2, <1>3 DEF ReceiveAddresses
    <2>3. CASE ReceiveFailure(c)
      BY <2>3, <1>3 DEF ReceiveFailure
    <2>4. CASE GiveUp(c)
      BY <2>4, <1>3 DEF GiveUp
    <2>5. CASE Leave(c)
      BY <2>5, <1>3 DEF Leave
    <2>6. CASE Register(c) \/ ForceRegister(c) \/ AcquirePermit(c)
      BY <2>6, <1>3 DEF Register, ForceRegister, AcquirePermit
    <2> QED
      BY <1>4, <2>1, <2>2, <2>3, <2>4, <2>5, <2>6
  <1>5. ASSUME NEW c \in Callers,
               LookupEnds(c) \/ LookupTimesOut(c) \/ Insert(c) \/ Send(c) \/ Complete(c)
               \/ TryStaleOrErr(c) \/ DropGuard(c) \/ Cancel(c)
        PROVE  Subscribers'
    <2> USE DEF Steps, Awaiting
    <2>1. CASE LookupEnds(c) \/ LookupTimesOut(c)
      BY <2>1, <1>3 DEF LookupEnds, LookupTimesOut
    <2>2. CASE Insert(c) \/ Send(c) \/ Complete(c)
      BY <2>2, <1>3 DEF Insert, Send, Complete
    <2>3. CASE TryStaleOrErr(c) \/ DropGuard(c)
      BY <2>3, <1>3 DEF TryStaleOrErr, DropGuard
    <2>4. CASE Cancel(c)
      BY <2>4, <1>3 DEF Cancel
    <2> QED
      BY <1>5, <2>1, <2>2, <2>3, <2>4
  <1>6. CASE Tick \/ UNCHANGED vars \/ \E c \in Callers : BackgroundEnds(c)
    BY <1>6 DEF Tick, vars, BackgroundEnds
  <1> QED
    BY <1>1, <1>2, <1>4, <1>5, <1>6 DEF Next, ResolveStep

LEMMA LookupsNext ==
  ASSUME PermitInv, [Next]_vars
  PROVE  LookupsCounted'
  <1> USE DEF PermitInv, TypesButPermits, LookupsCounted, BeforeLookup, AfterLookup, Outcomes, Goto, Return
  \* A step of c that neither looks up nor comes out of a lookup.
  <1>1. ASSUME NEW c \in Callers, UNCHANGED <<retried, background, outcome>>,
               NEW s \in Steps, pc' = [pc EXCEPT ![c] = s],
               s \in BeforeLookup => pc[c] \in BeforeLookup,
               s \in {"permit", "lookup"} => pc[c] \in BeforeLookup \cup {"permit", "lookup"},
               s \in AfterLookup => pc[c] \in AfterLookup
        PROVE  LookupsCounted'
    <2> SUFFICES ASSUME NEW d \in Callers
                 PROVE  /\ pc'[d] \in BeforeLookup => ~ retried[d]
                        /\ pc'[d] \in {"permit", "lookup"} => background[d] <= 1
                        /\ pc'[d] \in AfterLookup => outcome[d] \in Outcomes
      BY <1>1
    <2>1. CASE d = c
      <3>1. pc'[d] = s
        BY <1>1, <2>1
      <3>2. pc[c] \in BeforeLookup => background[c] = 0
        OBVIOUS
      <3> QED
        BY <1>1, <2>1, <3>1, <3>2
    <2>2. CASE d # c
      BY <1>1, <2>2
    <2> QED
      BY <2>1, <2>2
  <1>2. ASSUME NEW c \in Callers,
               ReadHit(c) \/ ReadMiss(c) \/ TrySubscribe(c) \/ ReceiveAddresses(c) \/ ReceiveFailure(c)
               \/ GiveUp(c) \/ Leave(c)
        PROVE  LookupsCounted'
    <2> USE DEF Steps, Awaiting
    <2>1. CASE ReadHit(c) \/ ReadMiss(c) \/ TrySubscribe(c)
      BY <1>1, <2>1 DEF ReadHit, ReadMiss, TrySubscribe
    <2>2. CASE ReceiveAddresses(c) \/ ReceiveFailure(c)
      BY <1>1, <2>2 DEF ReceiveAddresses, ReceiveFailure
    <2>3. CASE GiveUp(c) \/ Leave(c)
      BY <1>1, <2>3 DEF GiveUp, Leave
    <2> QED
      BY <1>2, <2>1, <2>2, <2>3
  <1>3. ASSUME NEW c \in Callers,
               Register(c) \/ LoseRegistration(c) \/ ForceRegister(c) \/ AcquirePermit(c)
        PROVE  LookupsCounted'
    BY <1>3, <1>1 DEF Register, LoseRegistration, ForceRegister, AcquirePermit, Steps, Awaiting
  <1>4. ASSUME NEW c \in Callers,
               Insert(c) \/ Send(c) \/ Complete(c) \/ TryStaleOrErr(c) \/ DropGuard(c) \/ Cancel(c)
        PROVE  LookupsCounted'
    BY <1>4, <1>1 DEF Insert, Send, Complete, TryStaleOrErr, DropGuard, Cancel, Steps, Awaiting
  <1>5. ASSUME NEW c \in Callers, LookupEnds(c)
        PROVE  LookupsCounted'
    BY <1>5 DEF LookupEnds, Steps, Awaiting
  <1>6. ASSUME NEW c \in Callers, LookupTimesOut(c)
        PROVE  LookupsCounted'
    BY <1>6 DEF LookupTimesOut, Steps, Awaiting
  <1>7. ASSUME NEW c \in Callers, BackgroundEnds(c)
        PROVE  LookupsCounted'
    BY <1>7 DEF BackgroundEnds
  <1>8. CASE Tick \/ UNCHANGED vars
    BY <1>8 DEF Tick, vars
  <1> QED
    BY <1>2, <1>3, <1>4, <1>5, <1>6, <1>7, <1>8 DEF Next, ResolveStep

LEMMA PermitsNext ==
  ASSUME PermitInv, [Next]_vars
  PROVE  PermitsAccounted'
  <1> USE DEF Goto, Return, Steps, Awaiting
  <1>1. /\ free \in Nat /\ Cardinality(LookingUp) \in Nat /\ Cardinality(LeftBehind) \in Nat
        /\ free + Cardinality(LookingUp) + Cardinality(LeftBehind) = Permits
    BY PermitSets DEF PermitInv, TypesButPermits, PermitsAccounted
  <1>2. ASSUME NEW c \in Callers,
               ReadHit(c) \/ ReadMiss(c) \/ TrySubscribe(c) \/ ReceiveAddresses(c) \/ ReceiveFailure(c)
               \/ GiveUp(c) \/ Leave(c) \/ Register(c) \/ LoseRegistration(c) \/ ForceRegister(c)
        PROVE  PermitsAccounted'
    BY <1>2, PermitsStay
    DEF ReadHit, ReadMiss, TrySubscribe, ReceiveAddresses, ReceiveFailure, GiveUp, Leave, Register,
        LoseRegistration, ForceRegister
  <1>3. ASSUME NEW c \in Callers,
               Insert(c) \/ Send(c) \/ Complete(c) \/ TryStaleOrErr(c) \/ DropGuard(c)
        PROVE  PermitsAccounted'
    BY <1>3, PermitsStay DEF Insert, Send, Complete, TryStaleOrErr, DropGuard
  <1>4. ASSUME NEW c \in Callers, AcquirePermit(c)
        PROVE  PermitsAccounted'
    <2>1. Cardinality(LookingUp') = Cardinality(LookingUp) + 1 /\ LeftBehind' = LeftBehind
      BY <1>4, LookupBegins DEF AcquirePermit
    <2> QED
      BY <1>1, <1>4, <2>1 DEF AcquirePermit, PermitsAccounted
  <1>5. ASSUME NEW c \in Callers, LookupEnds(c)
        PROVE  PermitsAccounted'
    <2>1. Cardinality(LookingUp') = Cardinality(LookingUp) - 1
      BY <1>5, LookupLeaves DEF LookupEnds
    <2>2. LeftBehind' = LeftBehind
      BY <1>5 DEF LookupEnds, LeftBehind
    <2> QED
      BY <1>1, <1>5, <2>1, <2>2 DEF LookupEnds, PermitsAccounted
  <1>6. ASSUME NEW c \in Callers, LookupTimesOut(c)
        PROVE  PermitsAccounted'
    <2>1. Cardinality(LookingUp') = Cardinality(LookingUp) - 1
      BY <1>6, LookupLeaves DEF LookupTimesOut
    <2>2. background[c] <= 1
      BY <1>6 DEF LookupTimesOut, PermitInv, LookupsCounted
    <2>3. Cardinality(LeftBehind') = Cardinality(LeftBehind) + 1
      BY <1>6, <2>2, BackgroundBegins DEF LookupTimesOut
    <2> QED
      BY <1>1, <1>6, <2>1, <2>3 DEF LookupTimesOut, PermitsAccounted
  <1>7. ASSUME NEW c \in Callers, BackgroundEnds(c)
        PROVE  PermitsAccounted'
    <2>1. Cardinality(LeftBehind') = Cardinality(LeftBehind) - 1
      BY <1>7, BackgroundGone DEF BackgroundEnds
    <2>2. LookingUp' = LookingUp
      BY <1>7 DEF BackgroundEnds, LookingUp
    <2> QED
      BY <1>1, <1>7, <2>1, <2>2 DEF BackgroundEnds, PermitsAccounted
  <1>8. ASSUME NEW c \in Callers, Cancel(c)
        PROVE  PermitsAccounted'
    <2>1. CASE pc[c] = "lookup"
      <3>1. PICK s \in {"drop", "done"} : pc' = [pc EXCEPT ![c] = s]
        BY <1>8 DEF Cancel
      <3>3. Cardinality(LookingUp') = Cardinality(LookingUp) - 1
        BY <2>1, <3>1, LookupLeaves
      <3>2. LeftBehind' = LeftBehind
        BY <1>8 DEF Cancel, LeftBehind
      <3> QED
        BY <1>1, <1>8, <2>1, <3>2, <3>3 DEF Cancel, PermitsAccounted
    <2>2. CASE pc[c] # "lookup"
      BY <1>8, <2>2, PermitsStay DEF Cancel
    <2> QED
      BY <2>1, <2>2
  <1>9. CASE Tick \/ UNCHANGED vars
    BY <1>1, <1>9 DEF Tick, vars, PermitsAccounted, LookingUp, LeftBehind
  <1> QED
    BY <1>2, <1>3, <1>4, <1>5, <1>6, <1>7, <1>8, <1>9 DEF Next, ResolveStep

LEMMA PermitInvAlways == Spec => []PermitInv
  <1>1. PermitInv /\ [Next]_vars => PermitInv'
    BY TypesNext, SubscribersNext, LookupsNext, PermitsNext DEF PermitInv
  <1> QED
    BY <1>1, PermitInit, PTL DEF Spec

\* A permit of lookup_semaphore is free, or a lookup that is awaited or was left behind by its
\* caller has it: none is lost and none is given back twice (do_lookup, main.rs:2004-2040).
THEOREM PermitsCorrect == Spec => []PermitsAccounted
  BY PermitInvAlways, PTL DEF PermitInv

\* The types of DnsCache; in particular at most lookup_semaphore's permits are free, and whoever
\* waits has a receiver.
THEOREM TypeCorrect == Spec => []TypeOK
  <1>1. PermitInv => TypeOK
    <2> SUFFICES ASSUME PermitInv PROVE TypeOK
      OBVIOUS
    <2>1. free \in 0..Permits
      BY PermitSets, DnsAssumption DEF PermitInv, TypesButPermits, PermitsAccounted
    <2> QED
      BY <2>1 DEF PermitInv, TypesButPermits, Subscribers, TypeOK
  <1> QED
    BY <1>1, PermitInvAlways, PTL

-----------------------------------------------------------------------------
\* How many entries the map holds

LEMMA CachedSets ==
  ASSUME NEW m
  PROVE  IsFiniteSet(Cached(m)) /\ Cardinality(Cached(m)) \in Nat
  BY DnsAssumption, FS_Subset, FS_CardinalityType DEF Cached

LEMMA Capacity ==
  /\ Max({MaxEntries, 1}) \in Nat
  /\ Max({MaxEntries, 1}) >= 1 /\ Max({MaxEntries, 1}) >= MaxEntries
  <1>1. \E x \in {MaxEntries, 1} : \A y \in {MaxEntries, 1} : x >= y
    <2>1. CASE MaxEntries >= 1
      BY <2>1, DnsAssumption
    <2>2. CASE ~ MaxEntries >= 1
      BY <2>2, DnsAssumption
    <2> QED
      BY <2>1, <2>2
  <1>2. PICK x \in {MaxEntries, 1} : x = Max({MaxEntries, 1}) /\ \A y \in {MaxEntries, 1} : x >= y
    BY <1>1 DEF Max
  <1> QED
    BY <1>2, DnsAssumption

\* Whether the map had room, the sweep made it or one entry had to go: there is place for h.
LEMMA RoomSuffices ==
  ASSUME EntriesBounded, NEW h \in Hosts, NEW roomy \in MadeRoom(h), NEW e,
         map \in [Hosts -> Entry \cup {NoEntry}]
  PROVE  Cardinality(Cached([roomy EXCEPT ![h] = e])) <= Max({MaxEntries, 1})
  <1> DEFINE filled == Cached([roomy EXCEPT ![h] = e])
             bound == Max({MaxEntries, 1})
  <1>1. filled \subseteq Cached(roomy) \cup {h}
    BY DEF Cached
  <1>2. Cardinality(filled) <= Cardinality(Cached(roomy) \cup {h})
    BY <1>1, CachedSets, FS_AddElement, FS_Subset
  <1>3. Cardinality(Cached(roomy) \cup {h}) =
          IF h \in Cached(roomy) THEN Cardinality(Cached(roomy)) ELSE Cardinality(Cached(roomy)) + 1
    BY CachedSets, FS_AddElement
  <1>4. Cached(Swept) \subseteq Cached(map)
    BY DEF Swept, Cached
  <1>5. Cardinality(Cached(Swept)) <= Cardinality(Cached(map))
    BY <1>4, CachedSets, FS_Subset
  <1>6. CASE ~ Full(h)
    <2>1. roomy = map
      BY <1>6 DEF MadeRoom
    <2>2. Cardinality(Cached(map)) < MaxEntries \/ h \in Cached(map)
      BY <1>6, CachedSets, DnsAssumption DEF Full, Cached
    <2> QED
      BY <1>2, <1>3, <2>1, <2>2, CachedSets, Capacity, DnsAssumption DEF EntriesBounded
  <1>7. CASE Full(h) /\ (Cardinality(Cached(Swept)) < MaxEntries \/ Cached(Swept) = {})
    <2>1. roomy = Swept
      BY <1>7 DEF MadeRoom
    <2>2. Cardinality(Cached(Swept)) < MaxEntries \/ Cardinality(Cached(Swept)) = 0
      BY <1>7, FS_EmptySet
    <2> QED
      BY <1>2, <1>3, <2>1, <2>2, CachedSets, Capacity, DnsAssumption
  <1>8. CASE Full(h) /\ ~ (Cardinality(Cached(Swept)) < MaxEntries \/ Cached(Swept) = {})
    <2>1. PICK k \in Cached(Swept) : roomy = [Swept EXCEPT ![k] = NoEntry]
      BY <1>8 DEF MadeRoom
    <2>2. Cached(roomy) = Cached(Swept) \ {k}
      BY <2>1 DEF Cached, Swept
    <2>3. Cardinality(Cached(roomy)) = Cardinality(Cached(Swept)) - 1
      BY <2>2, CachedSets, FS_RemoveElement
    <2> QED
      BY <1>2, <1>3, <1>5, <2>3, CachedSets, Capacity DEF EntriesBounded
  <1> QED
    BY <1>6, <1>7, <1>8

\* The insert that makes room keeps the map within max_entries, the failures of a burst of hosts
\* included (resolve, main.rs:1966-1990).
THEOREM EntriesCorrect == Spec => []EntriesBounded
  <1>1. Init => EntriesBounded
    <2> SUFFICES ASSUME Init PROVE EntriesBounded
      OBVIOUS
    <2>1. Cached(map) = {}
      BY DEF Init, Cached
    <2> QED
      BY <2>1, FS_EmptySet, Capacity DEF EntriesBounded
  <1>2. PermitInv /\ EntriesBounded /\ [Next]_vars => EntriesBounded'
    <2> SUFFICES ASSUME PermitInv, EntriesBounded, [Next]_vars PROVE EntriesBounded'
      OBVIOUS
    <2>1. ASSUME NEW c \in Callers, Insert(c)
          PROVE  EntriesBounded'
      BY <2>1, RoomSuffices DEF Insert, EntriesBounded, PermitInv, TypesButPermits
    <2>2. CASE ~ \E c \in Callers : Insert(c)
      <3>1. UNCHANGED map
        BY <2>2
        DEF Next, ResolveStep, vars, Tick, ReadHit, ReadMiss, TrySubscribe, ReceiveAddresses,
            ReceiveFailure, GiveUp, Leave, Register, LoseRegistration, ForceRegister, AcquirePermit,
            LookupEnds, LookupTimesOut, Send, Complete, TryStaleOrErr, DropGuard, BackgroundEnds, Cancel
      <3> QED
        BY <3>1 DEF EntriesBounded, Cached
    <2> QED
      BY <2>1, <2>2
  <1> QED
    BY <1>1, <1>2, PermitInvAlways, PTL DEF Spec
=============================================================================
