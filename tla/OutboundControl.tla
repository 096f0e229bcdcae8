--------------------------- MODULE OutboundControl ---------------------------
(***************************************************************************)
(* Who may produce a message, and through which lane it leaves: the        *)
(* delivery control of one source (core/outbound/control.py and            *)
(* control_transitions.py), the claim on an occurrence and its generation  *)
(* (run_claims.py, generation.py), the producer of scheduled tasks         *)
(* (core/scheduled_task_outbound.py) and the legacy lane.                  *)
(*                                                                         *)
(* The source moves around a cycle: legacy_direct, outbox_hold,            *)
(* outbox_active, outbox_draining and back.  effective_from is the slot at *)
(* which the lanes change over: an occurrence before it belongs to the old *)
(* epoch, one at or after it to the new one.  Producers race for the       *)
(* writer lease of the source and for a claim on the occurrence; each      *)
(* function takes the write lock of the control row first and so is one    *)
(* step.  Between two steps of a producer a lease runs out, another        *)
(* producer takes over, the user cancels, an operator moves the control.   *)
(*                                                                         *)
(* Leases.  A producer passes to each transaction a clock it read before   *)
(* the lock was granted, so a lease that has run out and that nobody took  *)
(* may still pass the check: the owner of such a lease either goes on or   *)
(* is fenced.  An expired lease is therefore a mark (late, ~live), and how *)
(* long leases are does not matter.  The claim token is the producer       *)
(* (holder): a new claim is always another producer's, or the same one's   *)
(* after the coroutine that held the old one is gone.                      *)
(*                                                                         *)
(* The delivery of a leaf is OutboundDelivery in summary: its attempts,    *)
(* retries and circuits are modelled there.                                *)
(***************************************************************************)
EXTENDS Naturals, FiniteSets

CONSTANTS Occs,       \* occurrences of the source
          Producers,  \* producer coroutines
          Processes,  \* the processes they run in
          ProcessOf,  \* the process of a coroutine
          Nobody,     \* no owner (a null column)
          Gone,       \* the writer identity of a process that died
          Drain,      \* the legacy drain's own writer identity
          Slot,       \* scheduled_for of an occurrence the schedule triggers
          Manual,     \* occurrences triggered by hand: their slot is "now"
          Prepared,   \* occurrences whose text is ready when they are claimed
          Malformed,  \* occurrences whose frozen facts recovery refuses
          Grace,      \* how late a slot may be claimed (grace_seconds)
          MaxTime,    \* bound of the model: the clock stops here
          MaxEpoch    \* bound of the model: no cutover starts past this epoch

Writers == Processes \cup {Drain}

ASSUME NameAssumption ==
    /\ Nobody \notin Writers \cup {Gone} /\ Gone \notin Writers
    /\ Nobody \notin Producers /\ Drain \notin Processes
    /\ ProcessOf \in [Producers -> Processes]

ASSUME ScheduleAssumption ==
    /\ Slot \in [Occs -> Nat]
    /\ Manual \subseteq Occs /\ Prepared \subseteq Occs
    /\ Malformed \subseteq Occs
    /\ Grace \in Nat /\ MaxTime \in Nat /\ MaxEpoch \in Nat

VARIABLES
    clock,    \* the wall clock, in slots
    control,  \* the OutboundDeliveryControl row of the source
    circuit,  \* an applicable OutboundDeliveryCircuit row is open
    run,      \* OutboundRun rows with their active leaf
    proc,     \* producer coroutines
    snap      \* the legacy drain has read the writer_version that is current

vars == <<clock, control, circuit, run, proc, snap>>

-----------------------------------------------------------------------------
(* Rows *)

Modes == {"legacy_direct", "outbox_hold", "outbox_active", "outbox_draining"}
Lanes == {"legacy_direct", "outbox"}
Claimed == {"claimed", "generating"}
RunStatus == Claimed \cup {"absent", "queued", "delivering", "blocked",
                           "ambiguous", "succeeded", "failed"}
\* "pending" stands for retry_wait and for blocked by a circuit, with the run
\* "queued" for all three; "dropped" stands for failed and cancelled.
Leased == {"leased", "sending"}
LeafStatus == Leased \cup {"none", "pending", "delivered", "dropped",
                          "ambiguous"}
LeafOpen == Leased \cup {"pending", "ambiguous"}

\* writer_owner and writer_token are one identity.
Control == [mode : Modes, epoch : Nat, effective : Nat,
            writer : Writers \cup {Nobody, Gone}, live : BOOLEAN]

\* delivery_mode, cutover_epoch and scheduled_for are fixed at the insert.
\* started: the producers whose OutboundGenerationAttempt row is "started".
\* author: whose text the leaf's payload_json is.
Run == [status : RunStatus, lane : Lanes, epoch : Nat, slot : Nat,
        holder : Producers \cup {Nobody}, late : BOOLEAN,
        started : SUBSET Producers, leaf : LeafStatus, author : Producers \cup {Nobody}]

Proc == [pc : {"idle", "claimed", "started"}, occ : Occs \cup {Nobody}]

Idle == [pc |-> "idle", occ |-> Nobody]
At(pc, o) == [pc |-> pc, occ |-> o]

NoRun == [status |-> "absent", lane |-> "legacy_direct", epoch |-> 0,
          slot |-> 0, holder |-> Nobody, late |-> FALSE, started |-> {},
          leaf |-> "none", author |-> Nobody]

Inserted(lane, slot, p) ==
    [status |-> "claimed", lane |-> lane[1], epoch |-> lane[2], slot |-> slot,
     holder |-> p, late |-> FALSE, started |-> {}, leaf |-> "none", author |-> Nobody]

\* A run without a leaf under a new claim; its lane and epoch stay.
TakenOver(u, p) ==
    [u EXCEPT !.status = "claimed", !.holder = p, !.late = FALSE]

\* A run that gives its claim back: blocked, failed.
Unclaimed(u, status, started) ==
    [u EXCEPT !.status = status, !.holder = Nobody, !.late = FALSE,
              !.started = started]

\* The run and the leaf its text becomes.
Frozen(u, p) ==
    [u EXCEPT !.status = "queued", !.holder = Nobody, !.late = FALSE,
              !.started = @ \ {p}, !.leaf = "pending", !.author = p]

\* A leaf and its run change together.
LeafSet(u, leaf, status) == [u EXCEPT !.leaf = leaf, !.status = status]

Init ==
    /\ clock = 0
    /\ control = [mode |-> "legacy_direct", epoch |-> 0, effective |-> 0,
                  writer |-> Nobody, live |-> FALSE]
    /\ circuit = FALSE
    /\ run = [o \in Occs |-> NoRun]
    /\ proc = [p \in Producers |-> Idle]
    /\ snap = FALSE

-----------------------------------------------------------------------------
(* The control row *)

\* _mode_for_occurrence: the lane and the epoch of a slot, or a refusal.
Refused == <<"refused", 0>>

ModeFor(c, at) ==
    CASE c.mode \in {"outbox_hold", "outbox_active"} /\ at < c.effective ->
            <<"legacy_direct", IF c.epoch = 0 THEN 0 ELSE c.epoch - 1>>
      [] c.mode \in {"outbox_hold", "outbox_active"} /\ at >= c.effective ->
            <<"outbox", c.epoch>>
      [] c.mode = "outbox_draining" -> Refused
      [] c.mode = "legacy_direct" /\ c.epoch > 0 /\ at < c.effective -> Refused
      [] OTHER -> <<"legacy_direct", c.epoch>>

\* acquire_or_renew_delivery_writer.
CanAcquire(x) ==
    \/ control.writer = Nobody
    \/ ~control.live
    \/ control.writer = x

Acquired(x) == [control EXCEPT !.writer = x, !.live = TRUE]

\* Every acquisition and every transition moves writer_version on.
NewVersion == snap' = FALSE

\* _assert_run_control: the control still gives the run its lane and epoch.
ControlAgrees(u) == ModeFor(control, u.slot) = <<u.lane, u.epoch>>

-----------------------------------------------------------------------------
(* Claiming an occurrence: claim_outbound_run *)

SlotOf(o) == IF o \in Manual THEN clock ELSE Slot[o]

\* _validate_schedule_slot.
SlotIsDue(o) == o \in Manual \/ (Slot[o] <= clock /\ clock - Slot[o] <= Grace)

\* Mutant of ClaimNew: a slot the control refuses is admitted all the same.
ClaimRefused(p, o) ==
    LET slot == SlotOf(o) IN
    /\ o \notin Prepared
    /\ proc[p].pc = "idle"
    /\ run[o].status = "absent"
    /\ SlotIsDue(o)
    /\ CanAcquire(ProcessOf[p])
    /\ run' = [run EXCEPT ![o] = Inserted(ModeFor(control, slot), slot, p)]
    /\ proc' = [proc EXCEPT ![p] = At("claimed", o)]
    /\ control' = Acquired(ProcessOf[p])
    /\ NewVersion
    /\ UNCHANGED <<clock, circuit>>

\* The claim inserts the run; with an open circuit it is born blocked.
ClaimNew(p, o) ==
    LET lane == ModeFor(control, SlotOf(o))
        u == Inserted(lane, SlotOf(o), p)
    IN  /\ o \notin Prepared
        /\ proc[p].pc = "idle"
        /\ run[o].status = "absent"
        /\ SlotIsDue(o)
        /\ CanAcquire(ProcessOf[p])
        /\ lane # Refused
        /\ run' = [run EXCEPT ![o] =
                     IF circuit THEN Unclaimed(u, "blocked", {}) ELSE u]
        /\ proc' = [proc EXCEPT ![p] =
                      IF circuit THEN Idle ELSE At("claimed", o)]
        /\ control' = Acquired(ProcessOf[p])
        /\ NewVersion
        /\ UNCHANGED <<clock, circuit>>

\* Mutant of Reclaimable: a failed run is tried again.
ReclaimableFailed(u) ==
    /\ u.leaf = "none"
    /\ \/ u.status \in Claimed /\ u.late
       \/ u.status \in {"blocked", "failed"}

\* No leaf, and a claim that ran out or a blocked run.
Reclaimable(u) ==
    /\ u.leaf = "none"
    /\ \/ u.status \in Claimed /\ u.late
       \/ u.status = "blocked"

\* The slot passed to the claim on an existing run: recovery passes the
\* frozen one, a second manual trigger passes its own "now".
AskedSlots(o) == {run[o].slot} \cup (IF o \in Manual THEN {clock} ELSE {})

\* Recovery, or a second trigger of the same occurrence, takes the run over.
Reclaim(p, o) ==
    /\ o \notin Prepared
    /\ proc[p].pc = "idle"
    /\ Reclaimable(run[o])
    /\ CanAcquire(ProcessOf[p])
    /\ \E at \in AskedSlots(o) : ModeFor(control, at) # Refused
    /\ ~circuit
    /\ run' = [run EXCEPT ![o] = TakenOver(@, p)]
    /\ proc' = [proc EXCEPT ![p] = At("claimed", o)]
    /\ control' = Acquired(ProcessOf[p])
    /\ NewVersion
    /\ UNCHANGED <<clock, circuit>>

\* With an open circuit the expired claim is quarantined instead.
ReclaimHitsCircuit(p, o) ==
    /\ o \notin Prepared
    /\ proc[p].pc = "idle"
    /\ Reclaimable(run[o])
    /\ CanAcquire(ProcessOf[p])
    /\ \E at \in AskedSlots(o) : ModeFor(control, at) # Refused
    /\ circuit
    /\ run' = [run EXCEPT ![o] =
                 IF @.status = "blocked" THEN @
                                         ELSE Unclaimed(@, "blocked", {})]
    /\ control' = Acquired(ProcessOf[p])
    /\ NewVersion
    /\ UNCHANGED <<clock, circuit, proc>>

\* recover_expired_scheduled_task_occurrences gives up a run whose frozen
\* facts do not load: quarantine_expired_generation_run with "failed".
Quarantine(o) ==
    /\ o \in Malformed
    /\ run[o].status \in Claimed
    /\ run[o].late
    /\ run[o].leaf = "none"
    /\ run' = [run EXCEPT ![o] = Unclaimed(@, "failed", {})]
    /\ UNCHANGED <<clock, control, circuit, proc, snap>>

-----------------------------------------------------------------------------
(* Generation *)

\* _require_generation_run and _require_writer, but for the expiries.
Owns(p, status) ==
    LET u == run[proc[p].occ] IN
    /\ u.status = status
    /\ u.holder = p
    /\ u.leaf = "none"
    /\ control.writer = ProcessOf[p]

\* Attempts of earlier claims are abandoned, this one is "started".
Started(u, p) == [u EXCEPT !.status = "generating", !.started = {p}]

\* start_generation_attempt.
StartGeneration(p) ==
    LET o == proc[p].occ
        go == ControlAgrees(run[o]) /\ ~circuit
    IN  /\ proc[p].pc = "claimed"
        /\ Owns(p, "claimed")
        /\ run' = [run EXCEPT ![o] =
                     IF go THEN Started(@, p)
                           ELSE Unclaimed(@, "blocked", @.started)]
        /\ proc' = [proc EXCEPT ![p] = IF go THEN At("started", o) ELSE Idle]
        /\ UNCHANGED <<clock, control, circuit, snap>>

\* commit_generated_outbox: the text is frozen in a leaf, or the control or a
\* circuit has changed under the generation and the result is abandoned.
CommitGenerated(p) ==
    LET o == proc[p].occ
        go == ControlAgrees(run[o]) /\ ~circuit
    IN  /\ proc[p].pc = "started"
        /\ Owns(p, "generating")
        /\ p \in run[o].started
        /\ run' = [run EXCEPT ![o] =
                     IF go THEN Frozen(@, p)
                           ELSE Unclaimed(@, "blocked", @.started \ {p})]
        /\ proc' = [proc EXCEPT ![p] = Idle]
        /\ UNCHANGED <<clock, control, circuit, snap>>

\* fail_outbound_generation: an error, a timeout or an empty text.
FailGeneration(p) ==
    LET o == proc[p].occ IN
    /\ proc[p].pc = "started"
    /\ Owns(p, "generating")
    /\ p \in run[o].started
    /\ run' = [run EXCEPT ![o] = Unclaimed(@, "failed", @.started \ {p})]
    /\ proc' = [proc EXCEPT ![p] = Idle]
    /\ UNCHANGED <<clock, control, circuit, snap>>

\* A producer that lost the run or the writer lease, or finds either run
\* out, gets OutboundFencingError and writes nothing.
Fenced(p) ==
    LET status == IF proc[p].pc = "claimed" THEN "claimed" ELSE "generating"
    IN  /\ proc[p].pc # "idle"
        /\ ~Owns(p, status) \/ run[proc[p].occ].late \/ ~control.live
        /\ proc' = [proc EXCEPT ![p] = Idle]
        /\ UNCHANGED <<clock, control, circuit, run, snap>>

\* A prepared text is claimed and committed in one transaction
\* (claim_outbound_run, commit_prepared_outbox).
EnqueuePrepared(p, o) ==
    LET lane == ModeFor(control, SlotOf(o))
        u == IF run[o].status = "absent" THEN Inserted(lane, SlotOf(o), p)
                                         ELSE TakenOver(run[o], p)
    IN  /\ o \in Prepared
        /\ proc[p].pc = "idle"
        /\ \/ run[o].status = "absent" /\ SlotIsDue(o)
           \/ Reclaimable(run[o])
        /\ CanAcquire(ProcessOf[p])
        /\ lane # Refused
        /\ run' = [run EXCEPT ![o] =
                     IF circuit \/ ~ControlAgrees(u)
                       THEN Unclaimed(u, "blocked", u.started)
                       ELSE Frozen(u, p)]
        /\ control' = Acquired(ProcessOf[p])
        /\ NewVersion
        /\ UNCHANGED <<clock, circuit, proc>>

\* The process dies.  Its writer identity (a random token) dies with it.
Crash(x) ==
    /\ proc' = [p \in Producers |-> IF ProcessOf[p] = x THEN Idle ELSE proc[p]]
    /\ control' = [control EXCEPT !.writer = IF @ = x THEN Gone ELSE @]
    /\ UNCHANGED <<clock, circuit, run, snap>>

ExpireClaim(o) ==
    /\ run[o].status \in Claimed
    /\ ~run[o].late
    /\ run' = [run EXCEPT ![o].late = TRUE]
    /\ UNCHANGED <<clock, control, circuit, proc, snap>>

ExpireWriter ==
    /\ control.live
    /\ control' = [control EXCEPT !.live = FALSE]
    /\ UNCHANGED <<clock, circuit, run, proc, snap>>

-----------------------------------------------------------------------------
(* The two delivery lanes *)

\* _worker_control_allows and _live_delivery_control_allows.
LaneOpen(u) ==
    \/ /\ u.lane = "outbox"
       /\ control.mode \in {"outbox_active", "outbox_draining"}
       /\ control.epoch = u.epoch
    \/ u.lane = "legacy_direct" /\ ControlAgrees(u)

\* A claim on a waiting leaf; an open circuit lets it wait.
Claim(u) == IF circuit THEN u ELSE LeafSet(u, "leased", "delivering")

\* claim_due_outbox: the outbox lane.
ClaimOutbox(o) ==
    /\ run[o].lane = "outbox"
    /\ run[o].leaf = "pending"
    /\ LaneOpen(run[o])
    /\ run' = [run EXCEPT ![o] = Claim(@)]
    /\ UNCHANGED <<clock, control, circuit, proc, snap>>

\* claim_legacy_direct_outbox under the caller's own writer identity.
ClaimLegacy(x, o) ==
    /\ run[o].lane = "legacy_direct"
    /\ run[o].leaf = "pending"
    /\ CanAcquire(x)
    /\ LaneOpen(run[o])
    /\ run' = [run EXCEPT ![o] = Claim(@)]
    /\ control' = Acquired(x)
    /\ NewVersion
    /\ UNCHANGED <<clock, circuit, proc>>

\* drain_due_legacy_scheduled_task_outboxes lists the due leaves and reads the
\* live writer's identity (snapshot_live_legacy_writer) ...
SnapshotWriter ==
    /\ \E o \in Occs : run[o].lane = "legacy_direct" /\ run[o].leaf = "pending"
    /\ control.writer # Nobody
    /\ control.live
    /\ ~snap
    /\ snap' = TRUE
    /\ UNCHANGED <<clock, control, circuit, run, proc>>

\* ... and claims with it, if writer_version is still the one it read.
ClaimLegacyAsWriter(o) ==
    /\ snap
    /\ control.writer # Nobody
    /\ run[o].lane = "legacy_direct"
    /\ run[o].leaf = "pending"
    /\ LaneOpen(run[o])
    /\ run' = [run EXCEPT ![o] = Claim(@)]
    /\ snap' = FALSE
    /\ UNCHANGED <<clock, control, circuit, proc>>

\* mark_delivery_request_started: the request goes out.
MarkRequestStarted(o) ==
    /\ run[o].leaf = "leased"
    /\ LaneOpen(run[o])
    /\ run' = [run EXCEPT ![o] = LeafSet(@, "sending", @.status)]
    /\ UNCHANGED <<clock, control, circuit, proc, snap>>

\* settle_delivery_success, _failure and _ambiguous.
Settle(o, leaf, status) ==
    /\ run[o].leaf = "sending"
    /\ LaneOpen(run[o])
    /\ run' = [run EXCEPT ![o] = LeafSet(@, leaf, status)]
    /\ UNCHANGED <<clock, control, proc, snap>>

SettleDelivered(o) == Settle(o, "delivered", "succeeded") /\ UNCHANGED circuit
SettleRetry(o) == Settle(o, "pending", "queued") /\ UNCHANGED circuit
SettleFailed(o) == Settle(o, "dropped", "failed") /\ UNCHANGED circuit
SettleAmbiguous(o) == Settle(o, "ambiguous", "ambiguous") /\ UNCHANGED circuit
SettleOpensCircuit(o) == Settle(o, "pending", "queued") /\ circuit' = TRUE

\* expire_stale_delivery_leases.
ExpireLease(o) ==
    /\ run[o].leaf \in Leased
    /\ run' = [run EXCEPT ![o] =
                 IF @.leaf = "sending" THEN LeafSet(@, "ambiguous", "ambiguous")
                                       ELSE LeafSet(@, "pending", "queued")]
    /\ UNCHANGED <<clock, control, circuit, proc, snap>>

\* Mutant of Terminalize: only the lane that is open is looked at.
TerminalizeActive(o) ==
    /\ run[o].leaf = "pending"
    /\ control.mode = "outbox_active"
    /\ run' = [run EXCEPT ![o] = LeafSet(@, "dropped", "failed")]
    /\ UNCHANGED <<clock, control, circuit, proc, snap>>

\* terminalize_expired_outboxes: retry_deadline_at has passed.
Terminalize(o) ==
    /\ run[o].leaf = "pending"
    /\ run' = [run EXCEPT ![o] = LeafSet(@, "dropped", "failed")]
    /\ UNCHANGED <<clock, control, circuit, proc, snap>>

-----------------------------------------------------------------------------
(* The user and the operator *)

\* cancel_safe_deliveries_for_source, for one run: a run without a leaf (its
\* own attempt is abandoned), or a leaf that waits.
Cancelled(u) ==
    IF u.leaf = "none"
      THEN Unclaimed(u, "failed", IF u.status = "generating"
                                    THEN u.started \ {u.holder}
                                    ELSE u.started)
      ELSE LeafSet(u, "dropped", "failed")

Cancel(o) ==
    /\ \/ run[o].leaf = "none" /\ run[o].status \in Claimed \cup {"blocked"}
       \/ run[o].leaf = "pending"
    /\ run' = [run EXCEPT ![o] = Cancelled(@)]
    /\ UNCHANGED <<clock, control, circuit, proc, snap>>

\* create_manual_replay: a new leaf with the same payload.
Replay(o) ==
    /\ run[o].leaf = "ambiguous"
    /\ control.mode = "outbox_active"
    /\ control.epoch = run[o].epoch
    /\ ~circuit
    /\ run' = [run EXCEPT ![o] = LeafSet(@, "pending", "queued")]
    /\ UNCHANGED <<clock, control, circuit, proc, snap>>

OpenCircuit ==
    /\ ~circuit
    /\ circuit' = TRUE
    /\ UNCHANGED <<clock, control, run, proc, snap>>

ResetCircuit ==
    /\ circuit
    /\ circuit' = FALSE
    /\ UNCHANGED <<clock, control, run, proc, snap>>

\* _has_unsafe_legacy_run.
UnsafeLegacyRun ==
    \E o \in Occs :
        /\ run[o].lane = "legacy_direct"
        /\ \/ run[o].status \in Claimed \cup {"queued", "delivering", "blocked",
                                              "ambiguous"}
           \/ run[o].leaf \in LeafOpen

\* Mutant of UnsafeWithoutLeaf: a blocked run is taken for settled.
UnsafeWhileClaimed(u) ==
    /\ u.leaf = "none"
    /\ u.status \in Claimed \cup {"delivering", "ambiguous"}

UnsafeWithoutLeaf(u) ==
    /\ u.leaf = "none"
    /\ u.status \in Claimed \cup {"delivering", "blocked", "ambiguous"}

\* _has_unsafe_unmaterialized_outbox_run.
UnsafeUnmaterializedOutboxRun ==
    \E o \in Occs : run[o].lane = "outbox" /\ UnsafeWithoutLeaf(run[o])

\* _unsafe_for_control_transition, for the epoch of the control.
UnsafeEpoch ==
    \/ UnsafeLegacyRun
    \/ \E o \in Occs :
         /\ run[o].epoch = control.epoch
         /\ \/ UnsafeWithoutLeaf(run[o])
            \/ run[o].leaf \in LeafOpen

\* transition_delivery_control as the administration calls it: it takes the
\* writer lease, moves the control and gives the lease back in one
\* transaction.
Transition(from, to, effective, epoch) ==
    /\ control.mode = from
    /\ control.writer = Nobody \/ ~control.live
    /\ control' = [mode |-> to, epoch |-> epoch, effective |-> effective,
                   writer |-> Nobody, live |-> FALSE]
    /\ NewVersion
    /\ UNCHANGED <<clock, circuit, run, proc>>

\* Mutant of FutureSlots: the current slot is accepted as a boundary.
PresentSlots == clock..MaxTime

\* A boundary is strictly in the future.
FutureSlots == (clock + 1)..MaxTime

Hold ==
    /\ control.epoch + 2 <= MaxEpoch
    /\ ~UnsafeEpoch
    /\ \E t \in FutureSlots :
         Transition("legacy_direct", "outbox_hold", t, control.epoch + 1)

Activate ==
    /\ clock >= control.effective
    /\ ~UnsafeLegacyRun
    /\ Transition("outbox_hold", "outbox_active", control.effective,
                  control.epoch)

StartDraining ==
    /\ ~UnsafeLegacyRun
    /\ ~UnsafeUnmaterializedOutboxRun
    /\ \E t \in FutureSlots :
         Transition("outbox_active", "outbox_draining", t, control.epoch)

\* What draining still waits for.
Drained == clock >= control.effective /\ ~UnsafeEpoch

Close ==
    /\ Drained
    /\ Transition("outbox_draining", "legacy_direct", control.effective,
                  control.epoch + 1)

Tick ==
    /\ clock < MaxTime
    /\ clock' = clock + 1
    /\ UNCHANGED <<control, circuit, run, proc, snap>>

-----------------------------------------------------------------------------

Generation(p) ==
    \/ StartGeneration(p) \/ CommitGenerated(p) \/ FailGeneration(p)
    \/ Fenced(p)

Admission(p, o) ==
    \/ ClaimNew(p, o) \/ Reclaim(p, o) \/ ReclaimHitsCircuit(p, o)
    \/ EnqueuePrepared(p, o)

Delivery(o) ==
    \/ ClaimOutbox(o) \/ ClaimLegacyAsWriter(o) \/ MarkRequestStarted(o)
    \/ SettleDelivered(o) \/ SettleRetry(o) \/ SettleFailed(o)
    \/ SettleAmbiguous(o) \/ SettleOpensCircuit(o) \/ ExpireLease(o)
    \/ Terminalize(o)

Operator == Hold \/ Activate \/ StartDraining \/ Close
            \/ OpenCircuit \/ ResetCircuit

Next ==
    \/ \E p \in Producers : Generation(p)
    \/ \E x \in Processes : Crash(x)
    \/ \E p \in Producers, o \in Occs : Admission(p, o)
    \/ \E o \in Occs : Quarantine(o) \/ ExpireClaim(o) \/ Delivery(o)
                       \/ Cancel(o) \/ Replay(o)
    \/ \E x \in Writers, o \in Occs : ClaimLegacy(x, o)
    \/ ExpireWriter \/ SnapshotWriter \/ Operator \/ Tick

Spec == Init /\ [][Next]_vars

\* Time passes, and the delivery worker's cycle ends stale leases and leaves
\* past their deadline; nothing else is promised.
Fairness ==
    /\ WF_vars(Tick)
    /\ WF_vars(\E o \in Occs : ExpireLease(o))
    /\ SF_vars(\E o \in Occs : Terminalize(o))

FairSpec == Spec /\ Fairness

-----------------------------------------------------------------------------
(* Properties *)

TypeOK ==
    /\ clock \in Nat
    /\ control \in Control
    /\ circuit \in BOOLEAN
    /\ run \in [Occs -> Run]
    /\ proc \in [Producers -> Proc]
    /\ snap \in BOOLEAN

\* A run that is not settled: work under a claim, a blocked run, a leaf that
\* waits, is being sent or is in doubt.
Unsettled(u) ==
    \/ UnsafeWithoutLeaf(u)
    \/ u.leaf \in LeafOpen

\* No run is left behind by a cutover: while a run is unsettled the control
\* still gives its slot the lane and the epoch the run was admitted with, so
\* its lane stays open to it; only the leaves of the epoch being drained are
\* served without new ones being admitted.
LaneIsCurrent ==
    \A o \in Occs : Unsettled(run[o]) =>
        \/ ControlAgrees(run[o])
        \/ /\ control.mode = "outbox_draining"
           /\ run[o].lane = "outbox"
           /\ run[o].epoch = control.epoch
           /\ run[o].leaf # "none"

\* The epochs cut the schedule into consecutive pieces: a run of an outbox
\* epoch, or of the epoch that is current, has a later slot than every run of
\* an earlier epoch, whichever order the slots were claimed in and whatever
\* the operator did in between.  So no slot is produced by both lanes'
\* schedules, and a rollback does not go back over slots of the past.  (Once
\* the next hold begins, legacy_direct's check on its own boundary is gone:
\* a late slot may then still join the legacy epoch before the hold.)
EpochsInOrder ==
    \A o1, o2 \in Occs :
        (/\ run[o1].status # "absent" /\ run[o2].status # "absent"
         /\ run[o1].epoch < run[o2].epoch
         /\ run[o2].lane = "outbox" \/ run[o2].epoch = control.epoch)
            => run[o1].slot < run[o2].slot

\* The refinement: what an occurrence goes through.
PhaseOf(u) ==
    CASE u.status = "absent" -> "absent"
      [] u.leaf = "none" /\ u.status = "failed" -> "dropped"
      [] u.leaf = "none" /\ u.status \notin {"absent", "failed"} -> "open"
      [] u.leaf \in {"pending", "leased"} -> "queued"
      [] u.leaf \in {"sending", "delivered", "dropped"} -> u.leaf
      [] OTHER -> "unknown"

Lifecycle == INSTANCE OutboundLifecycle WITH
                 phase <- [o \in Occs |-> PhaseOf(run[o])],
                 author <- [o \in Occs |-> run[o].author]

\* Takeovers, cancellations, cutovers and both lanes together implement the
\* life of an occurrence that OutboundLifecycle promises.
ImplementsLifecycle == Lifecycle!Spec

\* A source that drains can be closed in the end, unless a delivery is in
\* doubt: a replay needs outbox_active, so an ambiguous leaf keeps the source
\* draining for good.
DrainEnds ==
    control.mode = "outbox_draining" ~>
        (Drained \/ \E o \in Occs : run[o].leaf = "ambiguous")
=============================================================================
