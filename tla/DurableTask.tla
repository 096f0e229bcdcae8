---------------------------- MODULE DurableTask ----------------------------
(***************************************************************************)
(* The Durable Task control plane of an Agent Run.                         *)
(*                                                                         *)
(* One row of run_task_controls (task) fences the execution of a Run with  *)
(* a lease; the Run event ledger (ledger) holds the authoritative facts;   *)
(* agent_runs (run) and run_recovery_operations (rop) are projections that *)
(* are written in the same transaction as the fact.  Four kinds of actor   *)
(* work on a Run at once:                                                  *)
(*                                                                         *)
(*   - the execution coroutine (pc), in a BridgeRequestScope or in         *)
(*     SqlAlchemyRunRecoveryService.execute_prepared;                      *)
(*   - its RunTaskOwner heartbeat, whose renewal runs in a thread (hb);    *)
(*   - an administrator who asks for cancellation (canc);                  *)
(*   - the reconciler, polled by the scheduled workflow loop (recPc).       *)
(*                                                                         *)
(* Every database transaction is one step.  A value read before another    *)
(* actor can commit, and used after it (the clock of a heartbeat or of a   *)
(* settlement, the row a cancel request looked at, the rows and the        *)
(* receipts the reconciler looked at), is kept in a variable and used in   *)
(* a later step.                                                           *)
(***************************************************************************)
EXTENDS Naturals, FiniteSets

CONSTANTS Runs,          \* run ids
          RecoveryRuns,  \* the Runs admitted as recovery children
          LeaseSeconds,  \* lease_seconds
          TimeoutSeconds,\* timeout_seconds
          BatchLimit,    \* limit of reconcile_expired_run_tasks
          MaxTime        \* bound of the model: the clock stops here

ASSUME RunsAssumption == RecoveryRuns \subseteq Runs /\ IsFiniteSet(Runs)

ASSUME TimeAssumption ==
    /\ LeaseSeconds \in Nat \ {0}
    /\ TimeoutSeconds \in Nat \ {0}
    /\ BatchLimit \in Nat \ {0}
    /\ MaxTime \in Nat

VARIABLES
    now,       \* the wall clock
    task,      \* RunTaskControl rows
    ledger,    \* RunLedgerStreamHead rows, with the status of the terminal fact
    run,       \* AgentRun.status
    rop,       \* RunRecoveryOperation.status
    receipt,   \* RunSideEffectReceipt.state of the Run's side effect
    pc,        \* the execution coroutine
    lease,     \* the lease it holds in memory
    cancelMsg, \* the message of a pending task.cancel()
    outcome,   \* the status it will finish the Run with
    finishAt,  \* the clock captured by finish_run
    hb,        \* the heartbeat task
    hbAt,      \* the clock captured by a heartbeat
    canc,      \* a cancel request between its read and its write
    recPc,     \* the reconciler
    recAt,     \* the clock captured by its scan
    recBatch,  \* candidates it has still to handle
    recLoaded, \* whether the ORM still holds the rows of the scan
    recSnap,   \* those rows
    recRun,    \* the candidate being handled
    recRow,    \* its row as the reconciler saw it
    recStatus  \* the terminal status chosen for it

taskVars == <<task, ledger, run, rop>>
execVars == <<pc, lease, cancelMsg, outcome, finishAt>>
hbVars == <<hb, hbAt>>
recVars == <<recPc, recAt, recBatch, recLoaded, recSnap, recRun, recRow,
             recStatus>>
vars == <<now, task, ledger, run, rop, receipt, pc, lease, cancelMsg, outcome,
          finishAt, hb, hbAt, canc, recPc, recAt, recBatch, recLoaded,
          recSnap, recRun, recRow, recStatus>>

-----------------------------------------------------------------------------
(* Values                                                                  *)

Terminal == {"succeeded", "failed", "cancelled", "timed_out", "ambiguous"}
Open == {"accepted", "running"}

\* Statuses written to agent_runs and to the ledger: the request scope uses
\* its own words ("success", "error"), the reconciler the task statuses.
RunWords == Terminal \cup {"success", "error"}

\* Mutants of TaskStatus: the caller's word is stored as it is; an unknown
\* outcome is filed under failures.
RawTaskStatus(word) == word
LossyTaskStatus(word) ==
    CASE word \in {"success", "succeeded"} -> "succeeded"
      [] word \in {"cancelled", "timed_out"} -> word
      [] OTHER -> "failed"

\* run_status_to_task_status
TaskStatus(word) ==
    CASE word \in {"success", "succeeded"} -> "succeeded"
      [] word \in {"cancelled", "timed_out", "ambiguous"} -> word
      [] OTHER -> "failed"

\* durable_cancel_status
CancelStatus(msg) ==
    CASE msg = "timed_out" -> "timed_out"
      [] msg = "lease_lost" -> "ambiguous"
      [] OTHER -> "cancelled"

NoLease == [token |-> 0, gen |-> 0]

NoTask == [status |-> "absent", token |-> 0, gen |-> 0, expires |-> 0,
           timeout |-> 0, cancel |-> FALSE]

EmptyLedger == [last |-> 0, terminal |-> 0, status |-> "none"]

Row == [status : {"absent"} \cup Open \cup Terminal, token : Nat, gen : Nat,
        expires : Nat, timeout : Nat, cancel : BOOLEAN]

\* The execution coroutine still holds the Run.
Running == {"executing", "tool", "reporting"}
Live == Running \cup {"finishing", "settling"}

\* One type invariant: the columns and the control states keep their types.
TypeOK ==
    /\ now \in Nat
    /\ task \in [Runs -> Row]
    /\ ledger \in [Runs -> [last : Nat, terminal : Nat,
                            status : {"none"} \cup RunWords]]
    /\ run \in [Runs -> {"absent"} \cup Open \cup RunWords]
    /\ rop \in [Runs -> {"absent", "prepared", "running"} \cup Terminal]
    /\ receipt \in [Runs -> {"none", "prepared", "completed", "failed",
                             "ambiguous"}]
    /\ pc \in [Runs -> {"idle", "settled", "lost", "crashed"} \cup Live]
    /\ lease \in [Runs -> [token : Nat, gen : Nat]]
    /\ cancelMsg \in [Runs -> {"none", "cancelled", "timed_out", "lease_lost"}]
    /\ outcome \in [Runs -> {"none"} \cup RunWords]
    /\ finishAt \in [Runs -> Nat]
    /\ hb \in [Runs -> {"off", "idle", "cas"}]
    /\ hbAt \in [Runs -> Nat]
    /\ canc \in [Runs -> BOOLEAN]
    /\ recPc \in {"idle", "pick", "commit"}
    /\ recAt \in Nat
    /\ recBatch \in SUBSET Runs
    /\ recLoaded \in BOOLEAN
    /\ recSnap \in [Runs -> Row]
    /\ recRun \in Runs
    /\ recRow \in Row
    /\ recStatus \in Terminal

-----------------------------------------------------------------------------
Init ==
    /\ now = 1
    /\ task = [r \in Runs |-> NoTask]
    /\ ledger = [r \in Runs |-> EmptyLedger]
    /\ run = [r \in Runs |-> "absent"]
    /\ rop = [r \in Runs |-> "absent"]
    /\ receipt = [r \in Runs |-> "none"]
    /\ pc = [r \in Runs |-> "idle"]
    /\ lease = [r \in Runs |-> NoLease]
    /\ cancelMsg = [r \in Runs |-> "none"]
    /\ outcome = [r \in Runs |-> "none"]
    /\ finishAt = [r \in Runs |-> 0]
    /\ hb = [r \in Runs |-> "off"]
    /\ hbAt = [r \in Runs |-> 0]
    /\ canc = [r \in Runs |-> FALSE]
    /\ recPc = "idle"
    /\ recAt = 0
    /\ recBatch = {}
    /\ recLoaded = FALSE
    /\ recSnap = [r \in Runs |-> NoTask]
    /\ recRun \in Runs
    /\ recRow = NoTask
    /\ recStatus = "failed"

-----------------------------------------------------------------------------
(* The ledger: SqlAlchemyRunEventLedger.append                             *)

\* Mutant of LedgerOpen: append does not look at terminal_sequence.
LedgerExists(r) == ledger[r].last > 0

\* A stream with a terminal fact takes no further fact.
LedgerOpen(r) == ledger[r].last > 0 /\ ledger[r].terminal = 0

Appended(l) == [l EXCEPT !.last = @ + 1]

Terminated(l, word) ==
    [last |-> l.last + 1, terminal |-> l.last + 1, status |-> word]

\* Mutant of Settled: the lease is left on the terminal row.
SettledKeepingLease(row, status) == [row EXCEPT !.status = status]

\* The columns a settlement or a reconciliation writes: the lease is cleared.
Settled(row, status) ==
    [row EXCEPT !.status = status, !.token = 0, !.expires = 0]

-----------------------------------------------------------------------------
(* Admission                                                               *)

\* RunTracer.start_run: the accepted and running facts, the AgentRun row and
\* admit_running in one transaction; bind_run_task_owner starts the heartbeat.
\* The bound keeps every deadline inside the modelled time.
AdmitRunning(r) ==
    /\ r \notin RecoveryRuns
    /\ task[r].status = "absent"
    /\ now + TimeoutSeconds =< MaxTime
    /\ task' = [task EXCEPT ![r] =
            [status |-> "running", token |-> 1, gen |-> 1,
             expires |-> now + LeaseSeconds,
             timeout |-> now + TimeoutSeconds, cancel |-> FALSE]]
    /\ ledger' = [ledger EXCEPT ![r] = Appended(Appended(@))]
    /\ run' = [run EXCEPT ![r] = "running"]
    /\ lease' = [lease EXCEPT ![r] = [token |-> 1, gen |-> 1]]
    /\ pc' = [pc EXCEPT ![r] = "executing"]
    /\ hb' = [hb EXCEPT ![r] = "idle"]
    /\ UNCHANGED <<now, rop, receipt, cancelMsg, outcome, finishAt, hbAt, canc,
                   recVars>>

\* SqlAlchemyRunRecoveryService: the child Run is prepared, not executed.
AdmitPrepared(r) ==
    /\ r \in RecoveryRuns
    /\ task[r].status = "absent"
    /\ now + TimeoutSeconds =< MaxTime
    /\ task' = [task EXCEPT ![r] =
            [status |-> "accepted", token |-> 0, gen |-> 0, expires |-> 0,
             timeout |-> now + TimeoutSeconds, cancel |-> FALSE]]
    /\ ledger' = [ledger EXCEPT ![r] = Appended(@)]
    /\ run' = [run EXCEPT ![r] = "accepted"]
    /\ rop' = [rop EXCEPT ![r] = "prepared"]
    /\ UNCHANGED <<now, receipt, execVars, hbVars, canc, recVars>>

\* claim_prepared's compare-and-swap condition.
Claimable(r) ==
    /\ task[r].status = "accepted"
    /\ ~task[r].cancel
    /\ task[r].timeout > now

\* The columns a claim writes: a fresh token, the next generation, a lease.
Claimed(row, at) ==
    [status |-> "running", token |-> row.gen + 1, gen |-> row.gen + 1,
     expires |-> at + LeaseSeconds, timeout |-> row.timeout,
     cancel |-> row.cancel]

\* execute_prepared up to the start of the Run: _mark_running claims the
\* prepared task, appends the running fact and moves both projections.
ClaimPrepared(r) ==
    /\ rop[r] = "prepared"
    /\ Claimable(r)
    /\ LedgerOpen(r)
    /\ task' = [task EXCEPT ![r] = Claimed(@, now)]
    /\ ledger' = [ledger EXCEPT ![r] = Appended(@)]
    /\ run' = [run EXCEPT ![r] = "running"]
    /\ rop' = [rop EXCEPT ![r] = "running"]
    /\ lease' = [lease EXCEPT ![r] =
            [token |-> task[r].gen + 1, gen |-> task[r].gen + 1]]
    /\ pc' = [pc EXCEPT ![r] = "executing"]
    /\ hb' = [hb EXCEPT ![r] = "idle"]
    /\ UNCHANGED <<now, receipt, cancelMsg, outcome, finishAt, hbAt, canc,
                   recVars>>

-----------------------------------------------------------------------------
(* Heartbeat: RunTaskOwner._heartbeat_loop and SqlAlchemyRunTaskService    *)

\* SqlAlchemyRunTaskService._matches, with the caller's clock.
Matches(r, at) ==
    /\ task[r].status = "running"
    /\ task[r].token = lease[r].token
    /\ task[r].gen = lease[r].gen
    /\ task[r].expires > at

\* heartbeat's reading of the row: the first reason not to renew, in order.
HeartbeatReason(r) ==
    IF task[r].status \in Terminal THEN "lease_lost"   \* TERMINAL
    ELSE IF task[r].cancel THEN "cancelled"
    ELSE IF task[r].timeout =< now THEN "timed_out"
    ELSE IF ~Matches(r, now) THEN "lease_lost"
    ELSE "none"

\* _cancel_execution: a cancellation that comes when the execution is over
\* only disturbs the cleanup, which the request scope ignores.
CancelExecution(r, msg) ==
    cancelMsg' = IF pc[r] \in Running THEN [cancelMsg EXCEPT ![r] = msg]
                                   ELSE cancelMsg

\* A renewed lease runs from the clock the heartbeat captured.
Renewed(row, at) == [row EXCEPT !.expires = at + LeaseSeconds]

\* heartbeat reads the clock and the row, and finds nothing against renewing.
HeartbeatRead(r) ==
    /\ hb[r] = "idle"
    /\ HeartbeatReason(r) = "none"
    /\ hb' = [hb EXCEPT ![r] = "cas"]
    /\ hbAt' = [hbAt EXCEPT ![r] = now]
    /\ UNCHANGED <<now, taskVars, receipt, execVars, canc, recVars>>

\* It finds a reason: the execution is cancelled with it, the loop ends.
HeartbeatRefused(r) ==
    /\ hb[r] = "idle"
    /\ HeartbeatReason(r) # "none"
    /\ hb' = [hb EXCEPT ![r] = "off"]
    /\ CancelExecution(r, HeartbeatReason(r))
    /\ UNCHANGED <<now, taskVars, receipt, pc, lease, outcome, finishAt, hbAt,
                   canc, recVars>>

\* The condition of heartbeat's compare-and-swap, with the clock it captured.
RenewalHits(r) ==
    /\ Matches(r, hbAt[r])
    /\ ~task[r].cancel
    /\ task[r].timeout > hbAt[r]

\* The compare-and-swap renews.  It runs in a thread that RunTaskOwner.stop
\* cannot interrupt: it may come after the loop was stopped.
HeartbeatRenews(r) ==
    /\ hb[r] = "cas"
    /\ RenewalHits(r)
    /\ task' = [task EXCEPT ![r] = Renewed(@, hbAt[r])]
    /\ hb' = [hb EXCEPT ![r] = IF pc[r] \in Running \cup {"finishing"}
                               THEN "idle" ELSE "off"]
    /\ hbAt' = [hbAt EXCEPT ![r] = 0]
    /\ UNCHANGED <<now, ledger, run, rop, receipt, execVars, canc, recVars>>

\* The compare-and-swap misses, or the heartbeat raises (the database is
\* locked): either way the lease counts as lost.
HeartbeatLost(r) ==
    /\ hb[r] \in {"idle", "cas"}
    /\ hb' = [hb EXCEPT ![r] = "off"]
    /\ hbAt' = [hbAt EXCEPT ![r] = 0]
    /\ CancelExecution(r, "lease_lost")
    /\ UNCHANGED <<now, taskVars, receipt, pc, lease, outcome, finishAt, canc,
                   recVars>>

-----------------------------------------------------------------------------
(* Execution: the runtime's tool call and the end of the request scope     *)

\* prepare_tool_effect: the fact and the receipt are committed before the
\* tool is called; a Run has one receipt for a tool call.
PrepareEffect(r) ==
    /\ pc[r] = "executing"
    /\ receipt[r] = "none"
    /\ LedgerOpen(r)
    /\ ledger' = [ledger EXCEPT ![r] = Appended(@)]
    /\ receipt' = [receipt EXCEPT ![r] = "prepared"]
    /\ pc' = [pc EXCEPT ![r] = "tool"]
    /\ UNCHANGED <<now, task, run, rop, lease, cancelMsg, outcome, finishAt,
                   hbVars, canc, recVars>>

\* settle_tool_effect commits the fact and the final state of the receipt; the
\* stream of a terminated Run refuses the fact.
SettleEffect(r, state) ==
    /\ LedgerOpen(r)
    /\ ledger' = [ledger EXCEPT ![r] = Appended(@)]
    /\ receipt' = [receipt EXCEPT ![r] = state]
    /\ UNCHANGED <<now, task, run, rop, lease, outcome, finishAt, hbVars,
                   canc, recVars>>

\* The tool answered and the execution goes on.
ToolReturns(r) ==
    /\ pc[r] = "tool"
    /\ \E state \in {"completed", "failed"} : SettleEffect(r, state)
    /\ pc' = [pc EXCEPT ![r] = "executing"]
    /\ UNCHANGED cancelMsg

\* The tool was cancelled, timed out or raised: its effect is unknown.  The
\* ambiguous error takes the place of a cancellation that reached the tool.
ToolUnknown(r) ==
    /\ pc[r] = "tool"
    /\ SettleEffect(r, "ambiguous")
    /\ pc' = [pc EXCEPT ![r] = "reporting"]
    /\ cancelMsg' = [cancelMsg EXCEPT ![r] = "none"]

\* Mutant of ToolUnconfirmed: the failure to write the receipt is swallowed.
ToolUnconfirmedGoesOn(r) ==
    /\ pc[r] = "tool"
    /\ pc' = [pc EXCEPT ![r] = "executing"]
    /\ UNCHANGED <<now, taskVars, receipt, lease, cancelMsg, outcome, finishAt,
                   hbVars, canc, recVars>>

\* The receipt of the tool's end cannot be committed: the stream refuses it,
\* the database is locked, or a second cancellation comes.
ToolUnconfirmed(r) ==
    /\ pc[r] = "tool"
    /\ pc' = [pc EXCEPT ![r] = "reporting"]
    /\ cancelMsg' = [cancelMsg EXCEPT ![r] = "none"]
    /\ UNCHANGED <<now, taskVars, receipt, lease, outcome, finishAt, hbVars,
                   canc, recVars>>

\* The ambiguous error is raised again once the activity is announced and the
\* TOOL_AMBIGUOUS checkpoint is a fact of the stream.
ReportAmbiguous(r) ==
    /\ pc[r] = "reporting"
    /\ LedgerOpen(r)
    /\ ledger' = [ledger EXCEPT ![r] = Appended(@)]
    /\ pc' = [pc EXCEPT ![r] = "finishing"]
    /\ outcome' = [outcome EXCEPT ![r] = "ambiguous"]
    /\ UNCHANGED <<now, task, run, rop, receipt, lease, cancelMsg, finishAt,
                   hbVars, canc, recVars>>

\* Announcement or checkpoint fail (checkpoint_write_unconfirmed), the turn
\* runs out of time or the caller cancels: the new exception replaces the ambiguous one, and neither
\* caller looks behind it.
ReportFails(r) ==
    /\ pc[r] = "reporting"
    /\ pc' = [pc EXCEPT ![r] = "finishing"]
    /\ \E word \in IF r \in RecoveryRuns THEN {"failed", "timed_out", "cancelled"}
                                         ELSE {"error", "cancelled"} :
         outcome' = [outcome EXCEPT ![r] = word]
    /\ UNCHANGED <<now, taskVars, receipt, lease, cancelMsg, finishAt, hbVars,
                   canc, recVars>>

\* An exception that is no authority failure (a fail-closed plugin hook, a
\* recovery conflict) is an ordinary model failure to the bridge, which goes on
\* with its next candidate.
ReportSwallowed(r) ==
    /\ pc[r] = "reporting"
    /\ r \notin RecoveryRuns
    /\ pc' = [pc EXCEPT ![r] = "executing"]
    /\ UNCHANGED <<now, taskVars, receipt, lease, cancelMsg, outcome, finishAt,
                   hbVars, canc, recVars>>

\* The words the two callers finish with: a model's answer can break off in
\* doubt as well, without a tool.
EndWords(r) ==
    IF r \in RecoveryRuns
    THEN {"succeeded", "failed", "cancelled", "timed_out", "ambiguous"}
    ELSE {"success", "error", "cancelled", "ambiguous"}

\* The execution ends by itself.
ExecutionEnds(r) ==
    /\ pc[r] = "executing"
    /\ pc' = [pc EXCEPT ![r] = "finishing"]
    /\ \E word \in EndWords(r) : outcome' = [outcome EXCEPT ![r] = word]
    /\ UNCHANGED <<now, taskVars, receipt, lease, cancelMsg, finishAt, hbVars,
                   canc, recVars>>

\* The CancelledError of the heartbeat reaches the execution.
ExecutionCancelled(r) ==
    /\ pc[r] \in {"executing", "reporting"}
    /\ cancelMsg[r] # "none"
    /\ pc' = [pc EXCEPT ![r] = "finishing"]
    /\ outcome' = [outcome EXCEPT ![r] = CancelStatus(cancelMsg[r])]
    /\ UNCHANGED <<now, taskVars, receipt, lease, cancelMsg, finishAt, hbVars,
                   canc, recVars>>

\* RunTaskOwner.stop, then finish_run (or _mark_terminal) reads the clock.
StopOwner(r) ==
    /\ pc[r] = "finishing"
    /\ pc' = [pc EXCEPT ![r] = "settling"]
    /\ hb' = [hb EXCEPT ![r] = IF @ = "idle" THEN "off" ELSE @]
    /\ finishAt' = [finishAt EXCEPT ![r] = now]
    /\ cancelMsg' = [cancelMsg EXCEPT ![r] = "none"]
    /\ UNCHANGED <<now, taskVars, receipt, lease, outcome, hbAt, canc,
                   recVars>>

\* settle, the terminal fact and the projections in one transaction, if the
\* lease still matches at the captured clock and the stream is open.
FinishRun(r) ==
    /\ pc[r] = "settling"
    /\ Matches(r, finishAt[r])
    /\ LedgerOpen(r)
    /\ task' = [task EXCEPT ![r] = Settled(@, TaskStatus(outcome[r]))]
    /\ ledger' = [ledger EXCEPT ![r] = Terminated(@, outcome[r])]
    /\ run' = [run EXCEPT ![r] = outcome[r]]
    /\ rop' = IF r \in RecoveryRuns
              THEN [rop EXCEPT ![r] = TaskStatus(outcome[r])] ELSE rop
    /\ pc' = [pc EXCEPT ![r] = "settled"]
    /\ finishAt' = [finishAt EXCEPT ![r] = 0]
    /\ UNCHANGED <<now, receipt, lease, cancelMsg, outcome, hbVars, canc,
                   recVars>>

\* The lease is lost or the transaction fails for good: nothing is written,
\* the caller gets a RunLedgerAuthorityError.
FinishFails(r) ==
    /\ pc[r] = "settling"
    /\ pc' = [pc EXCEPT ![r] = "lost"]
    /\ finishAt' = [finishAt EXCEPT ![r] = 0]
    /\ UNCHANGED <<now, taskVars, receipt, lease, cancelMsg, outcome, hbVars,
                   canc, recVars>>

\* The process dies, and with it all that the execution kept in memory.
Crash(r) ==
    /\ pc[r] \in Live
    /\ pc' = [pc EXCEPT ![r] = "crashed"]
    /\ hb' = [hb EXCEPT ![r] = "off"]
    /\ hbAt' = [hbAt EXCEPT ![r] = 0]
    /\ lease' = [lease EXCEPT ![r] = NoLease]
    /\ cancelMsg' = [cancelMsg EXCEPT ![r] = "none"]
    /\ outcome' = [outcome EXCEPT ![r] = "none"]
    /\ finishAt' = [finishAt EXCEPT ![r] = 0]
    /\ UNCHANGED <<now, taskVars, receipt, canc, recVars>>

-----------------------------------------------------------------------------
(* Cancellation: SqlAlchemyRunTaskService.request_cancel                   *)

\* The row is read; a terminal Run, or one already asked, is left alone.
RequestCancelRead(r) ==
    /\ ~canc[r]
    /\ task[r].status \in Open
    /\ ~task[r].cancel
    /\ canc' = [canc EXCEPT ![r] = TRUE]
    /\ UNCHANGED <<now, taskVars, receipt, execVars, hbVars, recVars>>

\* The two columns are written by primary key, whatever the status is by now.
RequestCancelWrite(r) ==
    /\ canc[r]
    /\ canc' = [canc EXCEPT ![r] = FALSE]
    /\ task' = [task EXCEPT ![r].cancel = TRUE]
    /\ UNCHANGED <<now, ledger, run, rop, receipt, execVars, hbVars, recVars>>

-----------------------------------------------------------------------------
(* Reconciliation: reconcile_expired_run_tasks                             *)

\* Mutant of Expired: a prepared task that nobody claims is forgotten.
ExpiredOwner(row, at) ==
    row.status = "running" /\ (row.expires =< at \/ row.timeout =< at)

\* The condition under which a row is a candidate.
Expired(row, at) ==
    \/ row.status = "running" /\ (row.expires =< at \/ row.timeout =< at)
    \/ row.status = "accepted" /\ (row.cancel \/ row.timeout =< at)

Candidates == {r \in Runs : Expired(task[r], now)}

\* _expired_status
ExpiredStatus(state, row, at) ==
    IF state \in {"prepared", "ambiguous"} THEN "ambiguous"
    ELSE IF row.cancel THEN "cancelled"
    ELSE IF row.timeout =< at THEN "timed_out"
    ELSE "failed"

\* The oldest candidates, at most BatchLimit of them.
ReconcileScan ==
    /\ recPc = "idle"
    /\ \E batch \in SUBSET Candidates :
         /\ batch # {}
         /\ Cardinality(batch) =< BatchLimit
         /\ recBatch' = batch
    /\ recAt' = now
    /\ recLoaded' = TRUE
    /\ recSnap' = [r \in Runs |-> IF r \in recBatch' THEN task[r] ELSE NoTask]
    /\ recPc' = "pick"
    /\ UNCHANGED <<now, taskVars, receipt, execVars, hbVars, canc, recRun,
                   recRow, recStatus>>

\* The next candidate: the session still holds the row of the scan, until the
\* first commit or rollback expires it; from then on the row is read again.
ReconcileDecide(r) ==
    LET row == IF recLoaded THEN recSnap[r] ELSE task[r]
    IN /\ recPc = "pick"
       /\ r \in recBatch
       /\ recRun' = r
       /\ recRow' = row
       /\ recStatus' = ExpiredStatus(receipt[r], row, recAt)
       /\ recBatch' = recBatch \ {r}
       /\ recPc' = "commit"
       /\ UNCHANGED <<now, taskVars, receipt, execVars, hbVars, canc, recAt,
                      recLoaded, recSnap>>

\* Mutant of ReconcileHits: an update by primary key and deadline only.
ReconcileUnfenced ==
    \/ task[recRun].expires =< recAt
    \/ task[recRun].cancel
    \/ task[recRun].timeout =< recAt

\* The compare-and-swap: the status seen, and for a running row the lease
\* seen and its expiry; for any other status, cancellation or timeout.
ReconcileHits ==
    LET cur == task[recRun]
    IN /\ cur.status = recRow.status
       /\ IF recRow.status = "running"
          THEN /\ cur.token = recRow.token
               /\ cur.gen = recRow.gen
               /\ cur.expires =< recAt \/ cur.timeout =< recAt
          ELSE cur.cancel \/ cur.timeout =< recAt

\* The end of a candidate's transaction: commit and rollback alike expire the
\* rows of the scan.
ReconcileNext ==
    /\ recPc' = IF recBatch = {} THEN "idle" ELSE "pick"
    /\ recAt' = IF recBatch = {} THEN 0 ELSE recAt
    /\ recLoaded' = FALSE
    /\ recSnap' = [x \in Runs |-> NoTask]
    /\ recRow' = NoTask
    /\ recStatus' = "failed"
    /\ UNCHANGED <<now, receipt, execVars, hbVars, canc, recBatch, recRun>>

\* Mutant of ReconcileSettles: a closed stream keeps the AgentRun row as well,
\* but not the task.
ReconcileSettlesTaskOnly ==
    /\ recPc = "commit"
    /\ ReconcileHits
    /\ task' = [task EXCEPT ![recRun] = Settled(@, recStatus)]
    /\ IF LedgerOpen(recRun)
       THEN /\ ledger' = [ledger EXCEPT ![recRun] = Terminated(@, recStatus)]
            /\ run' = [run EXCEPT ![recRun] = recStatus]
            /\ rop' = IF rop[recRun] = "running"
                      THEN [rop EXCEPT ![recRun] = recStatus] ELSE rop
       ELSE UNCHANGED <<ledger, run, rop>>
    /\ ReconcileNext

\* The compare-and-swap hits.  The terminal fact is appended only to a stream
\* that has none; the projections are overwritten in any case.
ReconcileSettles ==
    /\ recPc = "commit"
    /\ ReconcileHits
    /\ task' = [task EXCEPT ![recRun] = Settled(@, recStatus)]
    /\ ledger' = IF LedgerOpen(recRun)
                 THEN [ledger EXCEPT ![recRun] = Terminated(@, recStatus)]
                 ELSE ledger
    /\ run' = [run EXCEPT ![recRun] = recStatus]
    /\ rop' = IF rop[recRun] = "running"
              THEN [rop EXCEPT ![recRun] = recStatus] ELSE rop
    /\ ReconcileNext

\* It misses: somebody else moved the row.
ReconcileMisses ==
    /\ recPc = "commit"
    /\ ~ReconcileHits
    /\ UNCHANGED taskVars
    /\ ReconcileNext

\* The polling loop logs an exception and starts over with a new session.
ReconcileAborts ==
    /\ recPc # "idle"
    /\ recPc' = "idle"
    /\ recAt' = 0
    /\ recBatch' = {}
    /\ recLoaded' = FALSE
    /\ recSnap' = [x \in Runs |-> NoTask]
    /\ recRow' = NoTask
    /\ recStatus' = "failed"
    /\ UNCHANGED <<now, taskVars, receipt, execVars, hbVars, canc, recRun>>

-----------------------------------------------------------------------------
Tick ==
    /\ now < MaxTime
    /\ now' = now + 1
    /\ UNCHANGED <<taskVars, receipt, execVars, hbVars, canc, recVars>>

Execute(r) ==
    \/ PrepareEffect(r)
    \/ ToolReturns(r) \/ ToolUnknown(r) \/ ToolUnconfirmed(r)
    \/ ReportAmbiguous(r) \/ ReportFails(r) \/ ReportSwallowed(r)
    \/ ExecutionEnds(r) \/ ExecutionCancelled(r)
    \/ StopOwner(r) \/ FinishRun(r) \/ FinishFails(r) \/ Crash(r)

Heartbeat(r) ==
    \/ HeartbeatRead(r) \/ HeartbeatRefused(r)
    \/ HeartbeatRenews(r) \/ HeartbeatLost(r)

Next ==
    \/ \E r \in Runs :
         \/ AdmitRunning(r) \/ AdmitPrepared(r) \/ ClaimPrepared(r)
         \/ Heartbeat(r) \/ Execute(r)
         \/ RequestCancelRead(r) \/ RequestCancelWrite(r)
         \/ ReconcileDecide(r)
    \/ ReconcileScan \/ ReconcileSettles \/ ReconcileMisses
    \/ ReconcileAborts
    \/ Tick

Spec == Init /\ [][Next]_vars

\* Time passes, the loop polls, and the database is not out of order for
\* ever: a reconciliation that is started again and again gets through.
Fairness ==
    /\ WF_vars(Tick)
    /\ WF_vars(ReconcileScan)
    /\ SF_vars(\E r \in Runs : ReconcileDecide(r))
    /\ SF_vars(ReconcileSettles \/ ReconcileMisses)

\* The event loop runs the heartbeat, delivers a cancellation and runs the
\* cleanup of the request scope.
OwnerFairness ==
    \A r \in Runs :
        /\ WF_vars(Heartbeat(r))
        /\ WF_vars(ToolReturns(r) \/ ToolUnknown(r) \/ ToolUnconfirmed(r))
        /\ WF_vars(ReportAmbiguous(r) \/ ReportFails(r))
        /\ WF_vars(ExecutionCancelled(r))
        /\ WF_vars(StopOwner(r))
        /\ WF_vars(FinishRun(r) \/ FinishFails(r))

FairSpec == Spec /\ Fairness /\ OwnerFairness

-----------------------------------------------------------------------------
(* Properties                                                              *)

\* The terminal status of a Run is one fact: the task row, the terminal event
\* of the ledger, the AgentRun row and an executed recovery operation all say
\* the same, through the word mapping of run_status_to_task_status
\* (reconciler.py and tracing.py write the four rows in one transaction).
TerminalAgreement ==
    \A r \in Runs : task[r].status \in Terminal =>
        /\ ledger[r].terminal > 0
        /\ TaskStatus(ledger[r].status) = task[r].status
        /\ TaskStatus(run[r]) = task[r].status
        /\ rop[r] \in {"absent", "prepared", task[r].status}

\* A task that is still owned has an open stream and running projections, and
\* an unowned one no token: a settlement that wins the compare-and-swap on the
\* task can never be refused by the ledger afterwards (service.py settle,
\* persistence.py append).
OwnedMeansOpen ==
    \A r \in Runs :
        /\ task[r].status = "running" =>
              /\ LedgerOpen(r)
              /\ task[r].token > 0
              /\ run[r] = "running"
              /\ rop[r] = IF r \in RecoveryRuns THEN "running" ELSE "absent"
        /\ task[r].status # "running" => task[r].token = 0
        /\ task[r].status = "accepted" =>
              LedgerOpen(r) /\ rop[r] = "prepared" /\ pc[r] = "idle"

\* Whatever the batch limit, the ledger decides.  A terminal task has a
\* terminal fact; an owner that was told its Run is settled finds its own word
\* there; an executed recovery operation says what the ledger says; the
\* AgentRun row says what the task says; and neither can show a success the
\* ledger does not hold (tracing.py finish_run, reconciler.py: a row that is
\* rewritten after the fact is never made a success).
LedgerDecides ==
    \A r \in Runs :
        /\ task[r].status \in Terminal =>
              /\ ledger[r].terminal > 0
              /\ TaskStatus(run[r]) = task[r].status
              /\ rop[r] \in {"absent", "prepared", TaskStatus(ledger[r].status)}
              /\ task[r].status = "succeeded"
                    => TaskStatus(ledger[r].status) = "succeeded"
        /\ pc[r] = "settled" =>
              ledger[r].terminal > 0 /\ ledger[r].status = outcome[r]

\* Whatever the batch limit, a terminal status changes in one way only: the
\* reconciler read the row again after the commit of another candidate and took
\* the terminal status for its expected value (reconciler.py, line 99).  No
\* late owner, heartbeat or cancellation changes it, nor a candidate judged by
\* the row of the scan, and it never becomes a success.
TerminalRewrite ==
    \A r \in Runs :
        task[r].status \in Terminal /\ task'[r].status # task[r].status =>
            /\ recPc = "commit" /\ recRun = r /\ ~recLoaded
            /\ recRow.status \in Terminal
            /\ task'[r].status # "succeeded"
OnlyRereadRewrites == [][TerminalRewrite]_vars

\* The receipt says that a tool was called and not what it did.
Doubtful(r) == receipt[r] \in {"prepared", "ambiguous"}

\* A recovery child is never recorded as a success while the fate of its side
\* effect is unknown, whoever settles it (native.py _execute_tool,
\* run_recovery/service.py execute_prepared).
RecoverySuccessIsCertain ==
    \A r \in RecoveryRuns : task[r].status = "succeeded" => ~Doubtful(r)

\* A Run whose owner settled it while the fate of its side effect was unknown
\* is reported as ambiguous: what the comment of the bridge's model loop says
\* of every such turn (bridge.py, lines 1161-1163).
OwnerReportsUnknownEffect ==
    \A r \in Runs :
        pc[r] = "settled" /\ Doubtful(r) => task[r].status = "ambiguous"

\* A terminated stream takes no further fact, and no side effect is started
\* for its Run: the late owner of a reconciled Run cannot call another tool.
LedgerKept ==
    \A r \in Runs : ledger[r].terminal > 0
        => ledger'[r] = ledger[r] /\ receipt'[r] = receipt[r]
LedgerIsFinal == [][LedgerKept]_vars

\* Every admitted Run reaches a terminal status, whatever happens to its
\* owner: the deadline makes it a candidate even while its lease is renewed.
EveryRunTerminates ==
    \A r \in Runs : task[r].status \in Open ~> task[r].status \in Terminal
=============================================================================
