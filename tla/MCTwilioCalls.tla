--------------------------- MODULE MCTwilioCalls ---------------------------
(***************************************************************************)
(* TwilioCalls for TLC: more calls than slots, a clock long enough for a   *)
(* token to expire and a record to go stale.                               *)
(***************************************************************************)
EXTENDS TwilioCalls, TLC

Symmetry == Permutations(Conns) \cup Permutations(CallSids)
=============================================================================
