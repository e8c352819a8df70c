----------------------------- MODULE CallSlots -----------------------------
(***************************************************************************)
(* What the call registry promises the rest of the system: a set of slots, *)
(* at most MaxCalls of them taken, each taken by one call.  A call takes a *)
(* slot only while one is free; slots are given back one or several at a   *)
(* time.  TwilioCalls implements this specification.                       *)
(***************************************************************************)
EXTENDS Naturals, FiniteSets

CONSTANTS CallSids, MaxCalls

VARIABLE taken

Init == taken = {}

Take(s) == Cardinality(taken) < MaxCalls /\ taken' = taken \cup {s}

GiveBack(S) == taken' = taken \ S

Next == \/ \E s \in CallSids : Take(s)
        \/ \E S \in SUBSET taken : GiveBack(S)

Spec == Init /\ [][Next]_taken
=============================================================================
