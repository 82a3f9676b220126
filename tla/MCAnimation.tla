----------------------------- MODULE MCAnimation -----------------------------
(***************************************************************************)
(* Instance of Animation: sizes on both sides of each limit, times that do *)
(* not divide a second, and integers of few bits.                          *)
(***************************************************************************)
EXTENDS Animation

MCSizes == {[w |-> 1, h |-> 1], [w |-> 2, h |-> 1], [w |-> 4, h |-> 1]}
=============================================================================
