-------------------------- MODULE MCOutboundControl --------------------------
(* Instances of OutboundControl for TLC. *)
EXTENDS OutboundControl

CONSTANTS o1, o2, p1, p2, s1

TwoOccs == {o1, o2}
TwoProducers == {p1, p2}
OneProcess == {s1}
SameProcess == [p \in Producers |-> s1]
FirstOcc == {o1}
SecondOcc == {o2}
LateSlot == [o \in Occs |-> IF o = o1 THEN 0 ELSE 1]
=============================================================================
