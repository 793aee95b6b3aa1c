---------------------------- MODULE MCSessionSlots ----------------------------
(* SessionSlots for TLC: the constants are model values and small numbers,    *)
(* given by the configurations.                                               *)
EXTENDS SessionSlots, TLC

(* The one input of a run that is not about what is submitted.                *)
OneInput == {[id |-> "r1", content |-> "a", positioned |-> FALSE]}

(* A request without a position, and the same one with another content at one. *)
SomeInputs == OneInput \cup {[id |-> "r1", content |-> "b", positioned |-> TRUE]}

(* Requests differ in nothing but their input.                                *)
AnyClient == Permutations(Clients)
=============================================================================
