--------------------------- MODULE MCDurableTask ---------------------------
(***************************************************************************)
(* Instances of DurableTask for TLC.  The runs differ in the Runs, in the  *)
(* lengths of lease and timeout and in the reconciler's batch; the values  *)
(* are in the .cfg files.  In the run with two candidates per scan one of   *)
(* the two owners hangs: its Run is there to be closed before the other.   *)
(***************************************************************************)
EXTENDS DurableTask

CONSTANTS chat, chat2, rcv

ASSUME DistinctRuns == Cardinality({chat, chat2, rcv}) = 3

\* A bound of the run with two Runs: the owner of chat2 gets no further than
\* the start of its execution, and nobody asks to cancel it.
SecondOwnerHangs ==
    chat2 \in Runs => /\ pc[chat2] \in {"idle", "executing"}
                      /\ hb[chat2] # "cas"
                      /\ ~canc[chat2]
=============================================================================
