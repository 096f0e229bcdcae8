-------------------------- MODULE OutboundDelivery --------------------------
(***************************************************************************)
(* The durable outbox that pushes generated messages to the chat gateway.  *)
(*                                                                         *)
(* A run (outbound_runs) owns a chain of leaves (outbound_delivery_outbox):*)
(* its first leaf and one more for every replay an operator approved.  A   *)
(* delivery worker leases the active leaf, writes a durable "request       *)
(* started" mark, calls the gateway outside any transaction, and settles   *)
(* the attempt under its lease token.                                      *)
(*                                                                         *)
(* Every function of core/outbound takes the write lock of the control row *)
(* first, so each one is one step here.  Between two steps of a worker     *)
(* anything may happen: another worker expires the lease, the user clears  *)
(* the history, an operator cancels, replays, resets a circuit or drains   *)
(* the source, the process dies.  A worker passes to every transaction the *)
(* clock it captured earlier (worker[w].now): at the start of its cycle,   *)
(* and again when the gateway has answered.                                *)
(*                                                                         *)
(* Rows are numbered as the database numbers them: leaf r is the first     *)
(* leaf of run r and a replay takes the next free id.  The row of the      *)
(* attempt a leaf allocated last is part of the leaf (attempt, requested); *)
(* older attempt rows are only ever read back unchanged.  Lease tokens are *)
(* attempt numbers, which are as unique as secrets.token_hex.              *)
(***************************************************************************)
EXTENDS Naturals, FiniteSets

CONSTANTS NumRuns,       \* runs with an outbox
          MaxRows,       \* bound of the model: outbox rows, replays included
          Proactive,     \* runs whose source is proactive_outreach
          Malformed,     \* runs whose stored payload _decode_delivery refuses
          Workers,       \* worker processes
          LeaseSeconds,  \* lease_seconds
          MaxAttempts,   \* outbox.max_attempts
          Deadline,      \* outbox.retry_deadline_at of every leaf
          RetryDelays,   \* what _retry_at may add to the completion time
          SettleTries,   \* SETTLEMENT_MAX_ATTEMPTS
          MaxTime,       \* bound of the model: the clock stops here
          MaxFaults      \* bound of the model: crashes, database errors and
                         \* source rows changed from outside

Runs == 1..NumRuns
Ids  == 1..MaxRows

ASSUME SizeAssumption ==
    /\ NumRuns \in Nat /\ MaxRows \in Nat /\ NumRuns <= MaxRows
    /\ Proactive \subseteq Runs /\ Malformed \subseteq Runs

ASSUME BoundAssumption ==
    /\ LeaseSeconds \in Nat \ {0}
    /\ MaxAttempts \in Nat \ {0}
    /\ Deadline \in Nat
    /\ RetryDelays \subseteq Nat \ {0}
    /\ SettleTries \in Nat \ {0}
    /\ MaxTime \in Nat /\ MaxFaults \in Nat

VARIABLES
    clock,    \* the wall clock
    mode,     \* OutboundDeliveryControl.mode
    circuit,  \* the open rows of OutboundDeliveryCircuit
    run,      \* OutboundRun rows, with the status each last wrote on its
              \* source row, and whether that row still stands for the run
    outbox,   \* OutboundDeliveryOutbox rows, with their last attempt
    worker,   \* the worker coroutines
    accepted, \* how many copies the gateway took, per leaf
    faults    \* crashes, database errors and changed source rows so far

vars == <<clock, mode, circuit, run, outbox, worker, accepted, faults>>

-----------------------------------------------------------------------------
(* Rows *)

Safe == {"pending", "retry_wait", "blocked"}
FinalOutbox == {"delivered", "failed", "cancelled", "ambiguous"}
OutboxStatus == Safe \cup {"absent", "leased"} \cup FinalOutbox
AttemptStatus == {"none", "started", "succeeded", "transient_failure",
                  "permanent_failure", "ambiguous", "abandoned_before_send",
                  "cancelled_before_send"}
RunStatus == {"queued", "delivering", "blocked", "failed", "ambiguous",
              "succeeded", "succeeded_after_ambiguous_replay"}
SourceStatus == {"queued", "delivering", "retry_wait", "blocked", "failed",
                 "cancelled", "ambiguous", "sent",
                 "sent_after_ambiguous_replay"}
Scopes == {<<"endpoint", 0>>, <<"payload_contract", 0>>}
          \cup ({"destination"} \X Runs)
Categories == {"success", "transient", "ambiguous", "endpoint",
               "destination", "payload", "payload_contract"}

Outbox == [run : Nat, seq : Nat, status : OutboxStatus, token : Nat,
           expires : Nat, next : Nat, allocated : Nat, started : Nat,
           attempt : AttemptStatus, requested : BOOLEAN]
Run == [status : RunStatus, active : Ids, ambiguous : BOOLEAN,
        cleared : BOOLEAN, bound : BOOLEAN, source : SourceStatus]
Worker == [pc : {"idle", "begun", "expired", "claimed", "checked", "sending",
                 "accepted", "answered"},
           now : Nat, leaf : Nat, no : Nat, result : Categories \cup {"none"},
           retry : Nat, tries : Nat]

Leaf(r, s, status) ==
    [run |-> r, seq |-> s, status |-> status, token |-> 0, expires |-> 0,
     next |-> 0, allocated |-> 0, started |-> 0, attempt |-> "none",
     requested |-> FALSE]

Idle == [pc |-> "idle", now |-> 0, leaf |-> 0, no |-> 0, result |-> "none",
         retry |-> 0, tries |-> 0]

\* A leaf that gives its lease back (or never had one) in a new status.
Released(o, status, att, next) ==
    [run |-> o.run, seq |-> o.seq, status |-> status, token |-> 0,
     expires |-> 0, next |-> next, allocated |-> o.allocated,
     started |-> o.started, attempt |-> att, requested |-> o.requested]

\* claim_due_outbox: the leaf with a new lease and a new attempt row.
Leased(o, at) ==
    [run |-> o.run, seq |-> o.seq, status |-> "leased",
     token |-> o.allocated + 1, expires |-> at + LeaseSeconds, next |-> 0,
     allocated |-> o.allocated + 1, started |-> o.started,
     attempt |-> "started", requested |-> FALSE]

\* mark_delivery_request_started: the durable request boundary.
Requested(o) ==
    [run |-> o.run, seq |-> o.seq, status |-> o.status, token |-> o.token,
     expires |-> o.expires, next |-> o.next, allocated |-> o.allocated,
     started |-> o.started + 1, attempt |-> o.attempt, requested |-> TRUE]

\* The run row and its projection on the source row, written together.  A
\* scheduled task that a newer run has taken over is left alone.
RunSet(u, status, source) ==
    [status |-> status, active |-> u.active,
     ambiguous |-> u.ambiguous \/ status = "ambiguous",
     cleared |-> u.cleared, bound |-> u.bound,
     source |-> IF u.bound THEN source ELSE u.source]

\* The source row stands for the run no more.
Unbound(u) ==
    [status |-> u.status, active |-> u.active, ambiguous |-> u.ambiguous,
     cleared |-> u.cleared, bound |-> FALSE, source |-> u.source]

At(pc, at, i, n) ==
    [pc |-> pc, now |-> at, leaf |-> i, no |-> n, result |-> "none",
     retry |-> 0, tries |-> 0]

Answered(v, at, c, retry) ==
    [pc |-> "answered", now |-> at, leaf |-> v.leaf, no |-> v.no,
     result |-> c, retry |-> retry, tries |-> 1]

Retried(v) ==
    [pc |-> v.pc, now |-> v.now, leaf |-> v.leaf, no |-> v.no,
     result |-> v.result, retry |-> v.retry, tries |-> v.tries + 1]

Init ==
    /\ clock = 0
    /\ mode = "outbox_active"
    /\ circuit = {}
    /\ run = [r \in Runs |-> [status |-> "queued", active |-> r,
                              ambiguous |-> FALSE, cleared |-> FALSE,
                              bound |-> TRUE, source |-> "queued"]]
    /\ outbox = [i \in Ids |-> IF i \in Runs THEN Leaf(i, 0, "pending")
                                             ELSE Leaf(0, 0, "absent")]
    /\ worker = [w \in Workers |-> Idle]
    /\ accepted = [i \in Ids |-> 0]
    /\ faults = 0

-----------------------------------------------------------------------------
(* Guards shared by the transactions *)

ControlAllows == mode \in {"outbox_active", "outbox_draining"}

ScopesOf(r) == {<<"endpoint", 0>>, <<"payload_contract", 0>>,
                <<"destination", r>>}
CircuitOpen(r) == circuit \cap ScopesOf(r) # {}

\* i is the leaf its run currently points at.
IsActive(i) == outbox[i].run \in Runs /\ run[outbox[i].run].active = i

\* _require_live_delivery, at the clock the worker passes.
Live(w) ==
    LET v == worker[w]
        o == outbox[v.leaf]
    IN  /\ IsActive(v.leaf)
        /\ o.status = "leased"
        /\ o.token = v.no
        /\ o.expires > v.now
        /\ o.attempt = "started"
        /\ o.allocated = v.no
        /\ ControlAllows

\* validate_proactive_source and the compare-and-swap behind it: the outreach
\* row is no longer the one the run was frozen from, and projecting on it
\* raises OutboundFencingError, which rolls the transaction back.
Fenced(r) == r \in Proactive /\ ~run[r].bound

\* Mutant of SourceInvalid: a row that has changed is not looked at.
SourceWithdrawn(r) ==
    /\ r \in Proactive
    /\ run[r].cleared \/ run[r].source = "cancelled"

\* cancel_invalid_delivery_before_send: the source no longer wants this run
\* (source_fenced, history_cleared, source_cancelled).
SourceInvalid(r) ==
    /\ r \in Proactive
    /\ Fenced(r) \/ run[r].cleared \/ run[r].source = "cancelled"

\* Candidates of claim_due_outbox, and the order in which it walks them.
Due(i, at) ==
    /\ outbox[i].status \in Safe
    /\ outbox[i].started < MaxAttempts
    /\ Deadline > at
    /\ outbox[i].status = "retry_wait" => outbox[i].next <= at
    /\ IsActive(i)
    /\ ControlAllows

Before(i, j) == \/ outbox[i].next < outbox[j].next
                \/ outbox[i].next = outbox[j].next /\ i < j

-----------------------------------------------------------------------------
(* The worker cycle: deliver_outbound_once *)

BeginCycle(w) ==
    /\ worker[w].pc = "idle"
    /\ worker' = [worker EXCEPT ![w] = At("begun", clock, 0, 0)]
    /\ UNCHANGED <<clock, mode, circuit, run, outbox, accepted, faults>>

\* expire_stale_delivery_leases, for one leaf.
Stale(i, at) == outbox[i].status = "leased" /\ outbox[i].expires <= at

\* Mutant of LeaseIsAmbiguous: the request boundary is forgotten.
LeaseIsInconsistent(i) ==
    outbox[i].attempt # "started" \/ ~IsActive(i)

LeaseIsAmbiguous(i) ==
    \/ outbox[i].attempt # "started"
    \/ outbox[i].requested
    \/ ~IsActive(i)
    \/ run[outbox[i].run].status # "delivering"

ExpiredOutbox(i, at) ==
    CASE LeaseIsAmbiguous(i) -> Released(outbox[i], "ambiguous", "ambiguous", 0)
      [] ~LeaseIsAmbiguous(i) /\ at >= Deadline ->
            Released(outbox[i], "failed", "abandoned_before_send", 0)
      [] OTHER -> Released(outbox[i], "pending", "abandoned_before_send", 0)

\* Mutant of ExpiredRun: the source row is not projected.
ExpiredRunUnprojected(r, at) ==
    LET i == run[r].active IN
    CASE ~Stale(i, at) -> run[r]
      [] Stale(i, at) /\ LeaseIsAmbiguous(i) ->
            RunSet(run[r], "ambiguous", run[r].source)
      [] Stale(i, at) /\ ~LeaseIsAmbiguous(i) /\ at >= Deadline ->
            RunSet(run[r], "failed", run[r].source)
      [] OTHER -> RunSet(run[r], "queued", run[r].source)

ExpiredRun(r, at) ==
    LET i == run[r].active IN
    CASE ~Stale(i, at) -> run[r]
      [] Stale(i, at) /\ LeaseIsAmbiguous(i) ->
            RunSet(run[r], "ambiguous", "ambiguous")
      [] Stale(i, at) /\ ~LeaseIsAmbiguous(i) /\ at >= Deadline ->
            RunSet(run[r], "failed", "failed")
      [] OTHER -> RunSet(run[r], "queued", "queued")

\* The projection of one stale leaf raises, and with it the whole pass.
ExpiryRaises(at) == \E r \in Runs : Fenced(r) /\ Stale(run[r].active, at)

ExpireStaleLeases(w) ==
    LET at == worker[w].now IN
    /\ worker[w].pc = "begun"
    /\ ~ExpiryRaises(at)
    /\ outbox' = [i \in Ids |-> IF Stale(i, at) THEN ExpiredOutbox(i, at)
                                                ELSE outbox[i]]
    /\ run' = [r \in Runs |-> ExpiredRun(r, at)]
    /\ worker' = [worker EXCEPT ![w] = At("expired", at, 0, 0)]
    /\ UNCHANGED <<clock, mode, circuit, accepted, faults>>

ExpiryFenced(w) ==
    /\ worker[w].pc = "begun"
    /\ ExpiryRaises(worker[w].now)
    /\ worker' = [worker EXCEPT ![w] = Idle]
    /\ UNCHANGED <<clock, mode, circuit, run, outbox, accepted, faults>>

\* Mutant of Exhausted: a blocked leaf is not looked at.
ExhaustedWaiting(i, at) ==
    outbox[i].status \in {"pending", "retry_wait"} /\ Deadline <= at

\* terminalize_expired_outboxes: the leaves whose retry deadline has passed.
Exhausted(i, at) == outbox[i].status \in Safe /\ Deadline <= at

\* The leaves claim_due_outbox turns to "blocked" on its way to candidate c
\* (c = 0: it finds nothing to claim and walks them all).
Blocks(i, at, c) ==
    /\ Due(i, at)
    /\ CircuitOpen(outbox[i].run)
    /\ c # 0 => Before(i, c)

ClaimedOutbox(i, at, c) ==
    CASE Exhausted(i, at) -> Released(outbox[i], "failed", outbox[i].attempt, 0)
      [] i = c -> Leased(outbox[i], at)
      [] i # c /\ Blocks(i, at, c) ->
            Released(outbox[i], "blocked", outbox[i].attempt, 0)
      [] OTHER -> outbox[i]

\* Mutant of ClaimedRun: the run of an exhausted leaf is left queued.
ClaimedRunOnly(r, at, c) ==
    LET i == run[r].active IN
    CASE i = c -> RunSet(run[r], "delivering", "delivering")
      [] i # c /\ Blocks(i, at, c) -> RunSet(run[r], "blocked", "blocked")
      [] OTHER -> run[r]

ClaimedRun(r, at, c) ==
    LET i == run[r].active IN
    CASE Exhausted(i, at) -> RunSet(run[r], "failed", "failed")
      [] i = c -> RunSet(run[r], "delivering", "delivering")
      [] i # c /\ Blocks(i, at, c) -> RunSet(run[r], "blocked", "blocked")
      [] OTHER -> run[r]

Claimable(c, at) == Due(c, at) /\ ~CircuitOpen(outbox[c].run)

\* The candidate claim_due_outbox gets to (0: none): the first one whose
\* circuits are closed.
Reaches(c, at) ==
    \/ c = 0 /\ \A j \in Ids : ~Claimable(j, at)
    \/ /\ c \in Ids
       /\ Claimable(c, at)
       /\ \A j \in Ids : Claimable(j, at) => ~Before(j, c)

\* It has to project on a fenced row on its way: "delivering" for c, "blocked"
\* for a leaf that newly meets an open circuit.
ClaimRaises(at, c) ==
    \E r \in Runs :
        LET i == run[r].active IN
        /\ Fenced(r)
        /\ i = c \/ (outbox[i].status # "blocked" /\ Blocks(i, at, c))

\* claim_due_outbox returns a claim on c.
ClaimDue(w, c) ==
    LET at == worker[w].now IN
    /\ worker[w].pc = "expired"
    /\ c # 0 /\ Reaches(c, at)
    /\ ~ClaimRaises(at, c)
    /\ outbox' = [i \in Ids |-> ClaimedOutbox(i, at, c)]
    /\ run' = [r \in Runs |-> ClaimedRun(r, at, c)]
    /\ worker' = [worker EXCEPT ![w] =
                    At("claimed", at, c, outbox[c].allocated + 1)]
    /\ UNCHANGED <<clock, mode, circuit, accepted, faults>>

ClaimNothing(w) ==
    LET at == worker[w].now IN
    /\ worker[w].pc = "expired"
    /\ Reaches(0, at)
    /\ ~ClaimRaises(at, 0)
    /\ outbox' = [i \in Ids |-> ClaimedOutbox(i, at, 0)]
    /\ run' = [r \in Runs |-> ClaimedRun(r, at, 0)]
    /\ worker' = [worker EXCEPT ![w] = Idle]
    /\ UNCHANGED <<clock, mode, circuit, accepted, faults>>

\* The fencing error takes the sweep of the exhausted leaves back with it.
ClaimFenced(w) ==
    LET at == worker[w].now IN
    /\ worker[w].pc = "expired"
    /\ \E c \in Ids \cup {0} : Reaches(c, at) /\ ClaimRaises(at, c)
    /\ worker' = [worker EXCEPT ![w] = Idle]
    /\ UNCHANGED <<clock, mode, circuit, run, outbox, accepted, faults>>

\* cancel_delivery_before_send, without a projection on a row that has changed.
CancelBeforeSend(w) ==
    LET i == worker[w].leaf
        r == outbox[i].run
    IN  /\ outbox' = [outbox EXCEPT ![i] =
                        Released(@, "cancelled", "cancelled_before_send", 0)]
        /\ run' = [run EXCEPT ![r] = RunSet(@, "failed", "cancelled")]
        /\ worker' = [worker EXCEPT ![w] = Idle]
        /\ UNCHANGED <<clock, mode, circuit, accepted, faults>>

\* The preflight transaction of _deliver_claim.
PreflightCancels(w) ==
    /\ worker[w].pc = "claimed"
    /\ Live(w)
    /\ SourceInvalid(outbox[worker[w].leaf].run)
    /\ CancelBeforeSend(w)

PreflightPasses(w) ==
    /\ worker[w].pc = "claimed"
    /\ Live(w)
    /\ ~SourceInvalid(outbox[worker[w].leaf].run)
    /\ outbox[worker[w].leaf].run \notin Malformed
    /\ worker' = [worker EXCEPT ![w] =
                    At("checked", @.now, @.leaf, @.no)]
    /\ UNCHANGED <<clock, mode, circuit, run, outbox, accepted, faults>>

\* _decode_delivery refuses the stored payload: settled without a request.
PreflightMalformed(w) ==
    /\ worker[w].pc = "claimed"
    /\ Live(w)
    /\ ~SourceInvalid(outbox[worker[w].leaf].run)
    /\ outbox[worker[w].leaf].run \in Malformed
    /\ worker' = [worker EXCEPT ![w] =
                    Answered(@, @.now, "payload_contract", 0)]
    /\ UNCHANGED <<clock, mode, circuit, run, outbox, accepted, faults>>

\* start_request_if_source_is_valid: the recheck and the request boundary in
\* one transaction.
StartCancels(w) ==
    /\ worker[w].pc = "checked"
    /\ Live(w)
    /\ SourceInvalid(outbox[worker[w].leaf].run)
    /\ CancelBeforeSend(w)

\* Mutants of MayStart: only the preflight looks at the source; only the claim
\* looks at the circuits.
MayStartUnchecked(w) ==
    LET o == outbox[worker[w].leaf] IN
    /\ Live(w)
    /\ ~CircuitOpen(o.run)
    /\ ~o.requested
    /\ o.started < MaxAttempts
    /\ Deadline > worker[w].now

MayStartOnOpenCircuit(w) ==
    LET o == outbox[worker[w].leaf] IN
    /\ Live(w)
    /\ ~SourceInvalid(o.run)
    /\ ~o.requested
    /\ o.started < MaxAttempts
    /\ Deadline > worker[w].now

MayStart(w) ==
    LET o == outbox[worker[w].leaf] IN
    /\ Live(w)
    /\ ~SourceInvalid(o.run)
    /\ ~CircuitOpen(o.run)
    /\ ~o.requested
    /\ o.started < MaxAttempts
    /\ Deadline > worker[w].now

StartRequest(w) ==
    /\ worker[w].pc = "checked"
    /\ MayStart(w)
    /\ outbox' = [outbox EXCEPT ![worker[w].leaf] = Requested(@)]
    /\ worker' = [worker EXCEPT ![w] =
                    At("sending", @.now, @.leaf, @.no)]
    /\ UNCHANGED <<clock, mode, circuit, run, accepted, faults>>

\* A transaction before the request raises (a fencing or a safety error): the
\* lane is left and the lease runs out.
RefusedBeforeSend(w) ==
    /\ \/ worker[w].pc = "claimed" /\ ~Live(w)
       \/ /\ worker[w].pc = "checked"
          /\ ~MayStart(w)
          /\ ~(Live(w) /\ SourceInvalid(outbox[worker[w].leaf].run))
    /\ worker' = [worker EXCEPT ![w] = Idle]
    /\ UNCHANGED <<clock, mode, circuit, run, outbox, accepted, faults>>

-----------------------------------------------------------------------------
(* The gateway (external) and what the transport makes of its answer *)

GatewayAccepts(w) ==
    /\ worker[w].pc = "sending"
    /\ accepted' = [accepted EXCEPT ![worker[w].leaf] = @ + 1]
    /\ worker' = [worker EXCEPT ![w] =
                    At("accepted", @.now, @.leaf, @.no)]
    /\ UNCHANGED <<clock, mode, circuit, run, outbox, faults>>

\* The answer to a message the gateway took arrives, or is lost.
AnswerAfterAccept(w) ==
    /\ worker[w].pc = "accepted"
    /\ \E c \in {"success", "ambiguous"} :
          worker' = [worker EXCEPT ![w] = Answered(@, clock, c, 0)]
    /\ UNCHANGED <<clock, mode, circuit, run, outbox, accepted, faults>>

\* The gateway did not take the message: it refused it, could not be reached,
\* or what happened is unknown.
AnswerRefused(w) ==
    /\ worker[w].pc = "sending"
    /\ \E c \in {"ambiguous", "endpoint", "destination", "payload",
                "payload_contract"} :
          worker' = [worker EXCEPT ![w] = Answered(@, clock, c, 0)]
    /\ UNCHANGED <<clock, mode, circuit, run, outbox, accepted, faults>>

AnswerTransient(w) ==
    /\ worker[w].pc = "sending"
    /\ \E d \in RetryDelays :
          worker' = [worker EXCEPT ![w] =
                       Answered(@, clock, "transient", clock + d)]
    /\ UNCHANGED <<clock, mode, circuit, run, outbox, accepted, faults>>

-----------------------------------------------------------------------------
(* settle_delivery_attempt, called by _settle_with_retry *)

AttemptSettled(w) ==
    LET o == outbox[worker[w].leaf] IN
    o.allocated # worker[w].no \/ o.attempt # "started"

\* The commit is acknowledged, or the connection breaks after it and the same
\* command is sent again.
Acknowledged(w) ==
    \/ /\ worker' = [worker EXCEPT ![w] = Idle]
       /\ UNCHANGED faults
    \/ /\ worker[w].tries < SettleTries
       /\ faults < MaxFaults
       /\ faults' = faults + 1
       /\ worker' = [worker EXCEPT ![w] = Retried(@)]

Settle(w, category, status, att, next, runStatus, source) ==
    LET i == worker[w].leaf
        r == outbox[i].run
    IN  /\ worker[w].result \in category
        /\ ~AttemptSettled(w)
        /\ Live(w)
        /\ ~Fenced(r)
        /\ outbox' = [outbox EXCEPT ![i] = Released(@, status, att, next)]
        /\ run' = [run EXCEPT ![r] = RunSet(@, runStatus, source)]
        /\ Acknowledged(w)
        /\ UNCHANGED <<clock, mode, accepted>>

\* Mutant of SettleSucceeded: the replay is forgotten.
SettleSucceededPlainly(w) ==
    /\ worker[w].pc = "answered"
    /\ outbox[worker[w].leaf].requested
    /\ Settle(w, {"success"}, "delivered", "succeeded", 0, "succeeded", "sent")
    /\ UNCHANGED circuit

SettleSucceeded(w) ==
    LET i == worker[w].leaf
        u == run[outbox[i].run]
    IN  /\ worker[w].pc = "answered"
        /\ outbox[i].requested
        /\ Settle(w, {"success"}, "delivered", "succeeded", 0,
                  IF u.ambiguous \/ outbox[i].seq > 0
                  THEN "succeeded_after_ambiguous_replay" ELSE "succeeded",
                  IF u.ambiguous /\ outbox[i].run \in Proactive
                  THEN "sent_after_ambiguous_replay" ELSE "sent")
        /\ UNCHANGED circuit

SettleAmbiguous(w) ==
    /\ worker[w].pc = "answered"
    /\ outbox[worker[w].leaf].requested
    /\ Settle(w, {"ambiguous"}, "ambiguous", "ambiguous", 0,
              "ambiguous", "ambiguous")
    /\ UNCHANGED circuit

\* A permanent failure of this payload only.
SettlePayload(w) ==
    /\ worker[w].pc = "answered"
    /\ Settle(w, {"payload"}, "failed", "permanent_failure", 0,
              "failed", "failed")
    /\ UNCHANGED circuit

\* Mutant of ScopeOf: a destination circuit without its fingerprint.
ScopeWithoutKey(w) == <<worker[w].result, 0>>

ScopeOf(w) ==
    <<worker[w].result,
      IF worker[w].result = "destination" THEN outbox[worker[w].leaf].run
                                          ELSE 0>>

\* A permanent failure that opens a circuit blocks the run.
SettleStable(w) ==
    /\ worker[w].pc = "answered"
    /\ Settle(w, {"endpoint", "destination", "payload_contract"},
              "failed", "permanent_failure", 0, "blocked", "blocked")
    /\ circuit' = circuit \cup {ScopeOf(w)}

RetryExhausted(w) ==
    \/ outbox[worker[w].leaf].started >= MaxAttempts
    \/ worker[w].now >= Deadline
    \/ worker[w].retry >= Deadline

SettleRetry(w) ==
    /\ worker[w].pc = "answered"
    /\ ~RetryExhausted(w)
    /\ Settle(w, {"transient"}, "retry_wait", "transient_failure",
              worker[w].retry, "queued", "retry_wait")
    /\ UNCHANGED circuit

SettleExhausted(w) ==
    /\ worker[w].pc = "answered"
    /\ RetryExhausted(w)
    /\ Settle(w, {"transient"}, "failed", "transient_failure", 0,
              "failed", "failed")
    /\ UNCHANGED circuit

\* The attempt row is settled already: the same facts are confirmed, other
\* facts are a conflict; nothing is written either way.
SettleAgain(w) ==
    /\ worker[w].pc = "answered"
    /\ AttemptSettled(w)
    /\ worker' = [worker EXCEPT ![w] = Idle]
    /\ UNCHANGED <<clock, mode, circuit, run, outbox, accepted, faults>>

\* The lease is over, the control no longer allows it, or the source row has
\* changed: a fencing error.
SettleFenced(w) ==
    /\ worker[w].pc = "answered"
    /\ ~AttemptSettled(w)
    /\ ~Live(w) \/ Fenced(outbox[worker[w].leaf].run)
    /\ worker' = [worker EXCEPT ![w] = Idle]
    /\ UNCHANGED <<clock, mode, circuit, run, outbox, accepted, faults>>

\* The database refuses the transaction; the last try gives up.
SettleFails(w) ==
    /\ worker[w].pc = "answered"
    /\ faults < MaxFaults
    /\ faults' = faults + 1
    /\ worker' = [worker EXCEPT ![w] =
                    IF @.tries < SettleTries THEN Retried(@) ELSE Idle]
    /\ UNCHANGED <<clock, mode, circuit, run, outbox, accepted>>

\* The process dies, or its task is cancelled, anywhere in the cycle.
Crash(w) ==
    /\ worker[w].pc # "idle"
    /\ faults < MaxFaults
    /\ faults' = faults + 1
    /\ worker' = [worker EXCEPT ![w] = Idle]
    /\ UNCHANGED <<clock, mode, circuit, run, outbox, accepted>>

-----------------------------------------------------------------------------
(* Operators, users and the clock *)

\* cancel_safe_deliveries_for_source, and cancel_safe_outbox: the leaf of a
\* source that is withdrawn, cancelled only where nothing was sent.
SafeCancelled(o) ==
    IF o.status \in Safe THEN Released(o, "cancelled", o.attempt, 0) ELSE o

\* Mutant of CancelSafe: the status of the leaf is not looked at.
CancelAny(i) ==
    /\ outbox[i].status # "leased"
    /\ IsActive(i)
    /\ run[outbox[i].run].status \in {"queued", "blocked"}
    /\ outbox' = [outbox EXCEPT ![i] = Released(@, "cancelled", @.attempt, 0)]
    /\ run' = [run EXCEPT ![outbox[i].run] = RunSet(@, "failed", "cancelled")]
    /\ UNCHANGED <<clock, mode, circuit, worker, accepted, faults>>

\* cancel_safe_outbox: an administrator cancels a leaf nobody has leased.
CancelSafe(i) ==
    /\ outbox[i].status \in Safe
    /\ IsActive(i)
    /\ ~Fenced(outbox[i].run)
    /\ run[outbox[i].run].status \in {"queued", "blocked"}
    /\ outbox' = [outbox EXCEPT ![i] = SafeCancelled(@)]
    /\ run' = [run EXCEPT ![outbox[i].run] = RunSet(@, "failed", "cancelled")]
    /\ UNCHANGED <<clock, mode, circuit, worker, accepted, faults>>

\* /mark-clear: the clear point, and the leaf is cancelled while that is safe;
\* a fencing error leaves the leaf as it is and keeps the clear point.
ClearHistory(r) ==
    LET i == run[r].active
        s == outbox[i].status \in Safe /\ ~Fenced(r)
    IN  /\ r \in Proactive
        /\ ~run[r].cleared
        /\ run' = [run EXCEPT ![r] =
              [status |-> IF s THEN "failed" ELSE @.status,
               active |-> @.active, ambiguous |-> @.ambiguous,
               cleared |-> TRUE, bound |-> @.bound,
               source |-> IF s THEN "cancelled" ELSE @.source]]
        /\ outbox' = [outbox EXCEPT ![i] = IF s THEN SafeCancelled(@) ELSE @]
        /\ UNCHANGED <<clock, mode, circuit, worker, accepted, faults>>

\* claim_outbound_run binds the scheduled task to a newer occurrence.
RebindTask(r) ==
    /\ r \notin Proactive
    /\ run[r].bound
    /\ run' = [run EXCEPT ![r] = Unbound(@)]
    /\ UNCHANGED <<clock, mode, circuit, outbox, worker, accepted, faults>>

\* The outreach row is edited or removed under the run, from outside the code
\* that is modelled.
FenceSource(r) ==
    /\ r \in Proactive
    /\ run[r].bound
    /\ faults < MaxFaults
    /\ faults' = faults + 1
    /\ run' = [run EXCEPT ![r] = Unbound(@)]
    /\ UNCHANGED <<clock, mode, circuit, outbox, worker, accepted>>

\* create_delivery_replay: an operator accepts the risk of a second copy.
CreateReplay(i, k) ==
    /\ outbox[i].status = "ambiguous"
    /\ IsActive(i)
    /\ run[outbox[i].run].status = "ambiguous"
    /\ mode = "outbox_active"
    /\ ~CircuitOpen(outbox[i].run)
    /\ Deadline > clock
    /\ outbox[k].status = "absent"
    /\ \A j \in Ids : j < k => outbox[j].status # "absent"
    /\ outbox' = [outbox EXCEPT ![k] =
                    Leaf(outbox[i].run, outbox[i].seq + 1, "pending")]
    /\ run' = [run EXCEPT ![outbox[i].run] =
                 [status |-> "queued", active |-> k, ambiguous |-> TRUE,
                  cleared |-> @.cleared, bound |-> @.bound,
                  source |-> @.source]]
    /\ UNCHANGED <<clock, mode, circuit, worker, accepted, faults>>

\* reset_delivery_circuit.
ResetCircuit(s) ==
    /\ s \in circuit
    /\ circuit' = circuit \ {s}
    /\ UNCHANGED <<clock, mode, run, outbox, worker, accepted, faults>>

\* transition_delivery_control out of outbox_active and out of
\* outbox_draining.
BeginDraining ==
    /\ mode = "outbox_active"
    /\ mode' = "outbox_draining"
    /\ UNCHANGED <<clock, circuit, run, outbox, worker, accepted, faults>>

UnsafeForTransition ==
    \E i \in Ids :
        \/ outbox[i].status \in Safe \cup {"leased"}
        \/ outbox[i].status = "ambiguous" /\ IsActive(i)
        \/ outbox[i].attempt = "started"

CloseEpoch ==
    /\ mode = "outbox_draining"
    /\ ~UnsafeForTransition
    /\ mode' = "legacy_direct"
    /\ UNCHANGED <<clock, circuit, run, outbox, worker, accepted, faults>>

Tick ==
    /\ clock < MaxTime
    /\ clock' = clock + 1
    /\ UNCHANGED <<mode, circuit, run, outbox, worker, accepted, faults>>

-----------------------------------------------------------------------------
WorkerStep(w) ==
    \/ BeginCycle(w) \/ ExpireStaleLeases(w) \/ ExpiryFenced(w)
    \/ (\E c \in Ids : ClaimDue(w, c)) \/ ClaimNothing(w) \/ ClaimFenced(w)
    \/ PreflightCancels(w) \/ PreflightPasses(w) \/ PreflightMalformed(w)
    \/ StartCancels(w) \/ StartRequest(w) \/ RefusedBeforeSend(w)
    \/ AnswerAfterAccept(w) \/ AnswerRefused(w) \/ AnswerTransient(w)
    \/ SettleSucceeded(w) \/ SettleAmbiguous(w) \/ SettlePayload(w)
    \/ SettleStable(w) \/ SettleRetry(w) \/ SettleExhausted(w)
    \/ SettleAgain(w) \/ SettleFenced(w)

Next ==
    \/ \E w \in Workers : WorkerStep(w) \/ GatewayAccepts(w)
                          \/ SettleFails(w) \/ Crash(w)
    \/ \E i \in Ids : CancelSafe(i)
    \/ \E r \in Runs : ClearHistory(r) \/ RebindTask(r) \/ FenceSource(r)
    \/ \E i, k \in Ids : CreateReplay(i, k)
    \/ \E s \in Scopes : ResetCircuit(s)
    \/ BeginDraining \/ CloseEpoch \/ Tick

Spec == Init /\ [][Next]_vars

\* Some worker is polled for ever and time passes; nothing is assumed of users,
\* of operators or of the gateway beyond the transport's own timeout.
FairSpec == Spec /\ WF_vars(Tick) /\ WF_vars(\E w \in Workers : WorkerStep(w))
-----------------------------------------------------------------------------
(* Properties *)

\* The rows, the coroutines and the circuits keep their types.
TypeOK ==
    /\ clock \in Nat
    /\ mode \in {"outbox_active", "outbox_draining", "legacy_direct"}
    /\ circuit \subseteq Scopes
    /\ run \in [Runs -> Run]
    /\ outbox \in [Ids -> Outbox]
    /\ worker \in [Workers -> Worker]
    /\ accepted \in [Ids -> Nat]
    /\ faults \in Nat

\* One leaf puts at most one copy of the message in the chat, whatever crashes
\* and races its workers go through; a delivered leaf stands for exactly one
\* copy, and a leaf that may still be sent, that failed or that was cancelled
\* for none (claim, request boundary, lease expiry and settlement together).
CopiesMatchStatus ==
    \A i \in Ids :
        /\ accepted[i] <= 1
        /\ outbox[i].status = "delivered" => accepted[i] = 1
        /\ outbox[i].status \in Safe \cup {"failed", "cancelled", "absent"}
              => accepted[i] = 0

\* A run reported as plainly "succeeded" put exactly one copy in the chat; more
\* than one copy is only possible under the status that names the replay
\* (run_status of settle_delivery_attempt).
CopiesOf(r) == Cardinality({i \in Ids : outbox[i].run = r /\ accepted[i] > 0})
PlainSuccessIsOneCopy ==
    \A r \in Runs :
        /\ run[r].status = "succeeded" => CopiesOf(r) = 1
        /\ CopiesOf(r) > 1 => run[r].ambiguous

\* Two workers never work under the same lease: the token a claim hands out is
\* never handed out again (allocated_attempt_count, lease_token).
Holding == {"claimed", "checked", "sending", "accepted", "answered"}
LeaseHasOneHolder ==
    \A v, w \in Workers :
        (/\ v # w
         /\ worker[v].pc \in Holding
         /\ worker[w].pc \in Holding)
        => <<worker[v].leaf, worker[v].no>> # <<worker[w].leaf, worker[w].no>>

\* The run row says what its active leaf says, and only the active leaf can be
\* waiting or leased: the CASes on the run row in claim, expiry, settlement,
\* cancellation and terminalization can never miss.
Mirrors(s, t) ==
    /\ s # "absent"
    /\ s \in {"pending", "retry_wait"} <=> t = "queued"
    /\ s = "leased" <=> t = "delivering"
    /\ s = "delivered" <=>
          t \in {"succeeded", "succeeded_after_ambiguous_replay"}
    /\ s = "ambiguous" <=> t = "ambiguous"
    /\ s = "blocked" => t = "blocked"
    /\ s = "failed" => t \in {"failed", "blocked"}
    /\ s = "cancelled" => t = "failed"
RunMirrorsLeaf ==
    /\ \A r \in Runs : /\ outbox[run[r].active].run = r
                       /\ Mirrors(outbox[run[r].active].status, run[r].status)
    /\ \A i \in Ids : outbox[i].status \in Safe \cup {"leased"} => IsActive(i)

\* As long as the source row (the scheduled task, the proactive log) stands for
\* the run, the status users see on it is the run's, whoever wrote last; a
\* replay leaves it at "ambiguous" until a worker touches the new leaf
\* (project_outbound_source).
SourcesOf(s) ==
    CASE s = "queued" -> {"queued", "retry_wait"}
      [] s = "failed" -> {"failed", "cancelled"}
      [] s = "succeeded" -> {"sent"}
      [] s = "succeeded_after_ambiguous_replay" ->
            {"sent", "sent_after_ambiguous_replay"}
      [] OTHER -> {s}
SourceMirrorsRun ==
    \A r \in Runs :
        \/ ~run[r].bound
        \/ run[r].source \in SourcesOf(run[r].status)
        \/ /\ run[r].source = "ambiguous"
           /\ run[r].status = "queued"
           /\ outbox[run[r].active].seq > 0

\* Once a drained source is handed back to direct delivery, no request of the
\* closed epoch is on its way, except one an operator has replaced
\* (_unsafe_for_control_transition).
ClosedEpochIsQuiet ==
    mode = "legacy_direct" =>
        \A w \in Workers :
            worker[w].pc \in {"sending", "accepted"} => ~IsActive(worker[w].leaf)

\* A settled leaf is never written again: not by a late worker, not by expiry,
\* not by an operator.
FinalKept ==
    \A i \in Ids : outbox[i].status \in FinalOutbox => outbox'[i] = outbox[i]
FinalIsFinal == [][FinalKept]_vars

\* After the user has cleared the history, or the outreach row has changed
\* under its run, no request of that run is started any more, even by a worker
\* that passed its first check before (the recheck inside
\* start_request_if_source_is_valid).
NoSendAfterClear ==
    \A i \in Ids :
        (outbox'[i].requested /\ ~outbox[i].requested)
        => LET r == outbox[i].run IN
           ~run'[r].cleared /\ (r \in Proactive => run'[r].bound)
ClearStopsSends == [][NoSendAfterClear]_vars

\* While a circuit that concerns a run is open none of its requests starts, not
\* even by a worker that claimed the leaf before the circuit opened
\* (mark_delivery_request_started).
NoSendOnOpenCircuit ==
    \A i \in Ids :
        (outbox'[i].requested /\ ~outbox[i].requested)
        => ~CircuitOpen(outbox[i].run)
CircuitStopsSends == [][NoSendOnOpenCircuit]_vars

\* Every leaf that waits, is blocked or is leased reaches a final status, so
\* that the queue empties: leases run out, retries are bounded by the deadline,
\* and an open circuit does not hold a leaf for ever.  The one thing that can
\* stop the lane is a leased leaf whose outreach row has changed: neither its
\* settlement nor its expiry gets past the projection, and no pass gets past
\* its expiry.
LaneIsStuck ==
    \E r \in Runs : Fenced(r) /\ outbox[run[r].active].status = "leased"
Converged(i) == outbox[i].status \notin Safe \cup {"leased"}
EveryLeafConverges ==
    (\E i \in Ids : ~Converged(i)) ~> (LaneIsStuck \/ \A i \in Ids : Converged(i))
=============================================================================
