------------------------------- MODULE MCStats -------------------------------
(***************************************************************************)
(* Instance of Stats: two requests beside each other, or one of them       *)
(* beside sweeps of the periodic task.                                     *)
(***************************************************************************)
EXTENDS Stats, TLC

MCFetchKinds == <<"dns">>
MCMaxSends == [r \in Requests |-> 2]
Symmetry == Permutations(Requests)

\* Increments of two requests commute; those of a request and the swaps of a sweep do not.
OneBesideSweep == sweep.pos > 1 \/ sweep.done > 0 => Cardinality(Requests \ With("new")) <= 1
=============================================================================
