------------------------- MODULE MCOutboundDelivery -------------------------
(* Instances of OutboundDelivery for TLC. *)
EXTENDS OutboundDelivery, TLC

CONSTANTS w1, w2

OneWorker == {w1}
TwoWorkers == {w1, w2}
NoRun == {}
FirstRun == {1}
SecondRun == {2}
OneDelay == {1}

\* The workers are alike, and nothing chooses between them.
WorkerSymmetry == Permutations(Workers)
=============================================================================
