--------------------------- MODULE MCResponseCache ---------------------------
(***************************************************************************)
(* Instances of ResponseCache: two callers that put clones of different    *)
(* age, with three keys and a stale window, and with two keys and none.    *)
(***************************************************************************)
EXTENDS ResponseCache, TLC

\* Two of size 1 fill the cache; 3 is more than MaxBytes, but not more than EntryMaxBytes.
MCBodies == {[size |-> n, status |-> 200] : n \in {1, 3}}

\* One size that fits once, and a size and a status that put refuses.
MCBodiesNoStale == {[size |-> 2, status |-> 200], [size |-> 4, status |-> 200], [size |-> 1, status |-> 404]}

ClientSymmetry == Permutations(Clients)
Symmetry == ClientSymmetry \cup Permutations(Keys)
=============================================================================
