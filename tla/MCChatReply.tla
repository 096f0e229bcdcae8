----------------------------- MODULE MCChatReply -----------------------------
(* Instances of ChatReply for TLC. *)
EXTENDS ChatReply

CONSTANTS q1, q2, w1

SecondReq == {q2}
TwoReqs == {q1, q2}
OneWorker == {w1}
=============================================================================
