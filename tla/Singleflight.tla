---------------------------- MODULE Singleflight ----------------------------
(***************************************************************************)
(* What the in-flight table of ResponseCache (try_join, start_flight,      *)
(* complete_flight, FlightGuard) promises: a key has one leader at a time, *)
(* nobody takes a flight over from its leader, and a leader announces the  *)
(* outcome to those who joined exactly once, before the key is free again. *)
(***************************************************************************)
CONSTANTS Requests, Keys, Outcomes, NoFlight, Silent

VARIABLES
  leader,       \* who leads the flight of a key, or NoFlight
  announced     \* the outcome a request announced as leader, or Silent

flightTable == <<leader, announced>>

Init ==
  /\ leader = [k \in Keys |-> NoFlight]
  /\ announced = [r \in Requests |-> Silent]

Lead(r, k) ==
  /\ leader[k] = NoFlight
  /\ announced[r] = Silent
  /\ \A j \in Keys : leader[j] # r
  /\ leader' = [leader EXCEPT ![k] = r]
  /\ UNCHANGED announced

Announce(r, k) ==
  /\ leader[k] = r
  /\ announced[r] = Silent
  /\ \E outcome \in Outcomes : announced' = [announced EXCEPT ![r] = outcome]
  /\ UNCHANGED leader

Release(r, k) ==
  /\ leader[k] = r
  /\ announced[r] # Silent
  /\ leader' = [leader EXCEPT ![k] = NoFlight]
  /\ UNCHANGED announced

Next == \E r \in Requests, k \in Keys : Lead(r, k) \/ Announce(r, k) \/ Release(r, k)

Spec == Init /\ [][Next]_flightTable
=============================================================================
