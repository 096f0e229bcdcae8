------------------------ MODULE OutboundControlProofs ------------------------
(***************************************************************************)
(* What holds of OutboundControl for every set of occurrences, producers   *)
(* and processes, every schedule and any number of cutovers.               *)
(*                                                                         *)
(* LaneIsCurrent compares each unsettled run with the control, which moves *)
(* on while runs stay: it rests on the scans that the transitions make.    *)
(* EpochsInOrder compares runs of different epochs with each other.  It is *)
(* not inductive: a new run is ordered after the old ones because of where *)
(* the old ones lie relative to the boundary of the control, which is what *)
(* Boundary records.  The refinement needs that an occurrence nobody       *)
(* claimed has neither leaf nor author (RowShape).                         *)
(***************************************************************************)
EXTENDS OutboundControl, TLAPS

\* A producer that works has an occurrence.
ProcHasOcc == \A p \in Producers : proc[p].pc # "idle" => proc[p].occ \in Occs

\* An occurrence without a run has no leaf and no author.
RowShape ==
    \A o \in Occs : run[o].status = "absent" =>
        run[o].leaf = "none" /\ run[o].author = Nobody

\* Where a run lies relative to the boundary of the control.
Placed(u) ==
    /\ u.slot <= clock
    /\ u.epoch <= control.epoch
    /\ u.epoch < control.epoch => u.slot < control.effective
    /\ control.mode = "outbox_draining" => u.slot < control.effective
    /\ (/\ control.mode # "outbox_draining" /\ control.epoch > 0
        /\ u.epoch = control.epoch) => u.slot >= control.effective

Boundary ==
    /\ control.mode # "legacy_direct" => control.epoch > 0
    /\ \A o \in Occs : run[o].status # "absent" => Placed(run[o])

IInv ==
    /\ TypeOK
    /\ ProcHasOcc
    /\ RowShape
    /\ LaneIsCurrent
    /\ Boundary
    /\ EpochsInOrder

-----------------------------------------------------------------------------
\* What _mode_for_occurrence answers, by mode.
LEMMA ModeForCases ==
    ASSUME NEW c \in Control, NEW at \in Nat
    PROVE  /\ (c.mode \in {"outbox_hold", "outbox_active"} /\ at < c.effective)
                => ModeFor(c, at) = <<"legacy_direct",
                                      IF c.epoch = 0 THEN 0 ELSE c.epoch - 1>>
           /\ (c.mode \in {"outbox_hold", "outbox_active"} /\ at >= c.effective)
                => ModeFor(c, at) = <<"outbox", c.epoch>>
           /\ c.mode = "outbox_draining" => ModeFor(c, at) = Refused
           /\ (c.mode = "legacy_direct" /\ c.epoch > 0 /\ at < c.effective)
                => ModeFor(c, at) = Refused
           /\ (c.mode = "legacy_direct" /\ (c.epoch = 0 \/ at >= c.effective))
                => ModeFor(c, at) = <<"legacy_direct", c.epoch>>
  BY DEF ModeFor, Control

\* An admitted slot gets a lane and an epoch.
LEMMA ModeForType ==
    ASSUME NEW c \in Control, NEW at \in Nat, ModeFor(c, at) # Refused
    PROVE  /\ ModeFor(c, at)[1] \in Lanes
           /\ ModeFor(c, at)[2] \in Nat
           /\ ModeFor(c, at) = <<ModeFor(c, at)[1], ModeFor(c, at)[2]>>
<1>1. c.mode \in Modes /\ c.epoch \in Nat /\ c.effective \in Nat
  BY DEF Control
<1>2. \/ ModeFor(c, at) = <<"legacy_direct",
                             IF c.epoch = 0 THEN 0 ELSE c.epoch - 1>>
      \/ ModeFor(c, at) = <<"outbox", c.epoch>>
      \/ ModeFor(c, at) = <<"legacy_direct", c.epoch>>
  BY <1>1, ModeForCases DEF Modes
<1>3. (IF c.epoch = 0 THEN 0 ELSE c.epoch - 1) \in Nat
  BY <1>1
<1> QED
  BY <1>1, <1>2, <1>3 DEF Lanes

\* The rule a control row gives depends on mode, epoch and boundary only, not
\* on who writes.
KeepsRule ==
    /\ control'.mode = control.mode
    /\ control'.epoch = control.epoch
    /\ control'.effective = control.effective

\* A control that keeps its rule admits an occurrence as before.
LEMMA SameRule ==
    ASSUME KeepsRule, NEW at
    PROVE  ModeFor(control', at) = ModeFor(control, at)
  BY DEF KeepsRule, ModeFor

-----------------------------------------------------------------------------
(* The rows the transactions write *)

\* Slot, lane and epoch of a run are fixed at the insert.
SamePlace(u, v) ==
    v.slot = u.slot /\ v.lane = u.lane /\ v.epoch = u.epoch

\* claim_outbound_run inserts a run with neither leaf nor author.
LEMMA InsertedRow ==
    ASSUME NEW l \in Lanes, NEW e \in Nat, NEW at \in Nat, NEW p \in Producers
    PROVE  LET u == Inserted(<<l, e>>, at, p) IN
           /\ u \in Run
           /\ u.lane = l /\ u.epoch = e /\ u.slot = at
           /\ u.status = "claimed" /\ u.leaf = "none" /\ u.author = Nobody
           /\ u.started = {}
  BY DEF Inserted, Run, RunStatus, Claimed, LeafStatus

\* A take-over changes the holder of a run and nothing it has.
LEMMA TakenOverRow ==
    ASSUME NEW u \in Run, NEW p \in Producers
    PROVE  LET v == TakenOver(u, p) IN
           /\ v \in Run
           /\ SamePlace(u, v)
           /\ v.status = "claimed" /\ v.leaf = u.leaf /\ v.author = u.author
           /\ v.started = u.started
  BY DEF TakenOver, SamePlace, Run, RunStatus, Claimed

\* A run that is given up, failed or quarantined keeps its leaf and author.
LEMMA UnclaimedRow ==
    ASSUME NEW u \in Run, NEW s \in RunStatus, NEW g \in SUBSET Producers
    PROVE  LET v == Unclaimed(u, s, g) IN
           /\ v \in Run
           /\ SamePlace(u, v)
           /\ v.status = s /\ v.leaf = u.leaf /\ v.author = u.author
  BY DEF Unclaimed, SamePlace, Run

\* Committing a generation gives the run its leaf and its author.
LEMMA FrozenRow ==
    ASSUME NEW u \in Run, NEW p \in Producers
    PROVE  LET v == Frozen(u, p) IN
           /\ v \in Run
           /\ SamePlace(u, v)
           /\ v.status = "queued" /\ v.leaf = "pending" /\ v.author = p
  BY DEF Frozen, SamePlace, Run, RunStatus, LeafStatus

\* Starting a generation changes neither leaf nor author.
LEMMA StartedRow ==
    ASSUME NEW u \in Run, NEW p \in Producers
    PROVE  LET v == Started(u, p) IN
           /\ v \in Run
           /\ SamePlace(u, v)
           /\ v.status = "generating" /\ v.leaf = u.leaf /\ v.author = u.author
  BY DEF Started, SamePlace, Run, RunStatus, Claimed

\* The delivery of a leaf moves leaf and run together.
LEMMA LeafSetRow ==
    ASSUME NEW u \in Run, NEW l \in LeafStatus, NEW s \in RunStatus
    PROVE  LET v == LeafSet(u, l, s) IN
           /\ v \in Run
           /\ SamePlace(u, v)
           /\ v.status = s /\ v.leaf = l /\ v.author = u.author
  BY DEF LeafSet, SamePlace, Run

\* The lease of a claim that runs out is a mark only.
LEMMA LateRow ==
    ASSUME NEW u \in Run
    PROVE  LET v == [u EXCEPT !.late = TRUE] IN
           /\ v \in Run
           /\ SamePlace(u, v)
           /\ v.status = u.status /\ v.leaf = u.leaf /\ v.author = u.author
  BY DEF SamePlace, Run

\* Acquiring the writer lease changes neither mode, epoch nor boundary.
LEMMA ControlRows ==
    ASSUME control \in Control
    PROVE  /\ \A x \in Writers : Acquired(x) \in Control
           /\ \A x \in Writers :
                /\ Acquired(x).mode = control.mode
                /\ Acquired(x).epoch = control.epoch
                /\ Acquired(x).effective = control.effective
  BY DEF Acquired, Control

\* What a producer remembers at each point of its work.
LEMMA ProcRows ==
    ASSUME NEW o \in Occs
    PROVE  /\ Idle \in Proc /\ Idle.pc = "idle"
           /\ \A c \in {"claimed", "started"} :
                At(c, o) \in Proc /\ At(c, o).pc = c /\ At(c, o).occ = o
  BY DEF Idle, At, Proc

-----------------------------------------------------------------------------
(* What a step can do to the runs *)

\* Work on a run: it stays where it is and does not become unsettled again.
Works(u, v) ==
    \/ v = u
    \/ /\ u.status # "absent" /\ v.status # "absent"
       /\ SamePlace(u, v)
       /\ Unsettled(v) => Unsettled(u)
       /\ u.leaf # "none" => v.leaf # "none"

\* The insert of a run: its slot has come and the control gives it a lane.
Admits(o) ==
    /\ run[o].status = "absent"
    /\ run'[o].status # "absent"
    /\ run'[o].slot <= clock
    /\ ModeFor(control, run'[o].slot) = <<run'[o].lane, run'[o].epoch>>
    /\ \A q \in Occs \ {o} : run'[q] = run[q]

\* One run is written, and to what.
LEMMA OneRow ==
    ASSUME TypeOK, NEW o \in Occs, NEW v \in Run, run' = [run EXCEPT ![o] = v]
    PROVE  /\ run' \in [Occs -> Run]
           /\ run'[o] = v
           /\ \A q \in Occs \ {o} : run'[q] = run[q]
           /\ Works(run[o], v) => \A q \in Occs : Works(run[q], run'[q])
  BY DEF TypeOK, Works

\* A leaf that is open moves to another status, its run with it.
LEMMA LeafWorks ==
    ASSUME NEW u \in Run, u.status # "absent", u.leaf \in LeafOpen,
           NEW l \in LeafStatus \ {"none"}, NEW s \in RunStatus \ {"absent"}
    PROVE  Works(u, LeafSet(u, l, s))
  BY LeafSetRow DEF Works, Unsettled

\* A run under a claim, or blocked, goes on without a leaf.
LEMMA OpenWorks ==
    ASSUME NEW u \in Run, u.leaf = "none", u.status \in Claimed \cup {"blocked"},
           NEW v \in Run, SamePlace(u, v), v.status # "absent"
    PROVE  Works(u, v)
  BY DEF Works, Unsettled, UnsafeWithoutLeaf, Claimed, LeafOpen, Leased

\* The slot of an occurrence that may be claimed has come.
LEMMA DueSlot ==
    ASSUME TypeOK, NEW o \in Occs
    PROVE  SlotOf(o) \in Nat /\ (SlotIsDue(o) => SlotOf(o) <= clock)
  BY ScheduleAssumption DEF TypeOK, SlotOf, SlotIsDue

\* A claim on an occurrence inserts a run where the control wants it.
LEMMA ClaimNewAdmits ==
    ASSUME IInv, NEW p \in Producers, NEW o \in Occs, ClaimNew(p, o)
    PROVE  TypeOK' /\ ProcHasOcc' /\ KeepsRule /\ clock' = clock /\ Admits(o)
<1> DEFINE lane == ModeFor(control, SlotOf(o))
           u == Inserted(lane, SlotOf(o), p)
           v == IF circuit THEN Unclaimed(u, "blocked", {}) ELSE u
<1>0. SlotIsDue(o) /\ lane # Refused
  BY DEF ClaimNew
<1>1. SlotOf(o) \in Nat /\ SlotOf(o) <= clock
  BY <1>0, DueSlot DEF IInv
<1>2. lane[1] \in Lanes /\ lane[2] \in Nat /\ lane = <<lane[1], lane[2]>>
  BY <1>0, <1>1, ModeForType DEF IInv, TypeOK
<1>3. /\ u \in Run /\ u.status = "claimed" /\ u.slot = SlotOf(o)
      /\ u.lane = lane[1] /\ u.epoch = lane[2]
  <2> HIDE DEF lane
  <2> QED
    BY <1>1, <1>2, InsertedRow
<1>4. v \in Run /\ v.status # "absent" /\ SamePlace(u, v)
  <2> HIDE DEF u
  <2>1. {} \in SUBSET Producers /\ "blocked" \in RunStatus
    BY DEF RunStatus
  <2> QED
    BY <1>3, <2>1, UnclaimedRow DEF SamePlace
<1>5. run' = [run EXCEPT ![o] = v]
  BY DEF ClaimNew
<1>6. run' \in [Occs -> Run] /\ run'[o] = v
      /\ \A q \in Occs \ {o} : run'[q] = run[q]
  <2> HIDE DEF v
  <2> QED
    BY <1>4, <1>5, OneRow DEF IInv
<1>7. control' = Acquired(ProcessOf[p]) /\ ProcessOf[p] \in Writers
  BY NameAssumption DEF ClaimNew, Writers
<1>8. TypeOK'
  <2>1. control' \in Control
    BY <1>7, ControlRows DEF IInv, TypeOK
  <2>2. proc' \in [Producers -> Proc]
    BY ProcRows DEF IInv, TypeOK, ClaimNew
  <2> QED
    BY <1>6, <2>1, <2>2 DEF IInv, TypeOK, ClaimNew, NewVersion
<1>9. ProcHasOcc'
  BY ProcRows DEF IInv, TypeOK, ProcHasOcc, ClaimNew
<1>10. KeepsRule /\ clock' = clock
  BY <1>7, ControlRows DEF IInv, TypeOK, KeepsRule, ClaimNew
<1>11. Admits(o)
  <2>1. v.slot = SlotOf(o) /\ v.lane = lane[1] /\ v.epoch = lane[2]
    <3> HIDE DEF u, v, lane
    <3> QED
      BY <1>3, <1>4 DEF SamePlace
  <2>2. run[o].status = "absent"
    BY DEF ClaimNew
  <2>3. ModeFor(control, v.slot) = <<v.lane, v.epoch>>
    BY <1>2, <2>1
  <2> HIDE DEF u, v, lane
  <2> QED
    BY <1>1, <1>4, <1>6, <2>1, <2>2, <2>3 DEF Admits
<1> QED
  BY <1>8, <1>9, <1>10, <1>11

-----------------------------------------------------------------------------
\* A step that works on the runs that are there.
Working ==
    /\ TypeOK' /\ ProcHasOcc' /\ KeepsRule /\ clock' = clock
    /\ \A q \in Occs : Works(run[q], run'[q])

\* A transaction on one run, with or without the writer lease, by a producer
\* that goes on with the run or not.
LEMMA Transaction ==
    ASSUME IInv, NEW o \in Occs, NEW v \in Run, Works(run[o], v),
           run' = [run EXCEPT ![o] = v],
           control' = control \/ \E x \in Writers : control' = Acquired(x),
           \/ proc' = proc
           \/ \E p \in Producers : proc' = [proc EXCEPT ![p] = Idle]
           \/ \E p \in Producers, c \in {"claimed", "started"} :
                proc' = [proc EXCEPT ![p] = At(c, o)],
           clock' = clock, circuit' \in BOOLEAN, snap' \in BOOLEAN
    PROVE  Working
<1>1. run' \in [Occs -> Run] /\ \A q \in Occs : Works(run[q], run'[q])
  BY OneRow DEF IInv
<1>2. control' \in Control /\ KeepsRule
  BY ControlRows DEF IInv, TypeOK, KeepsRule
<1>3. proc' \in [Producers -> Proc] /\ ProcHasOcc'
  BY ProcRows DEF IInv, TypeOK, ProcHasOcc
<1> QED
  BY <1>1, <1>2, <1>3 DEF Working, IInv, TypeOK

\* Recovery takes a run over, or finds the circuit open.
LEMMA ReclaimWorks ==
    ASSUME IInv, NEW p \in Producers, NEW o \in Occs,
           Reclaim(p, o) \/ ReclaimHitsCircuit(p, o)
    PROVE  Working
<1>1. run[o] \in Run /\ Reclaimable(run[o])
  BY DEF Reclaim, ReclaimHitsCircuit, IInv, TypeOK
<1>2. run[o].leaf = "none" /\ run[o].status \in Claimed \cup {"blocked"}
  BY <1>1 DEF Reclaimable
<1>3. ProcessOf[p] \in Writers
  BY NameAssumption DEF Writers
<1>4. CASE Reclaim(p, o)
  <2> DEFINE v == TakenOver(run[o], p)
  <2>1. v \in Run /\ SamePlace(run[o], v) /\ v.status # "absent"
    BY <1>1, TakenOverRow
  <2>2. Works(run[o], v)
    BY <1>1, <1>2, <2>1, OpenWorks
  <2>3. /\ run' = [run EXCEPT ![o] = v]
        /\ \E x \in Writers : control' = Acquired(x)
        /\ \E c \in {"claimed", "started"} : proc' = [proc EXCEPT ![p] = At(c, o)]
        /\ clock' = clock /\ circuit' = circuit /\ snap' = FALSE
    BY <1>3, <1>4 DEF Reclaim, NewVersion
  <2>4. circuit' \in BOOLEAN /\ snap' \in BOOLEAN
    BY <2>3 DEF IInv, TypeOK
  <2> HIDE DEF v
  <2> QED
    BY <2>1, <2>2, <2>3, <2>4, Transaction
<1>5. CASE ReclaimHitsCircuit(p, o)
  <2> DEFINE v == IF run[o].status = "blocked" THEN run[o]
                                               ELSE Unclaimed(run[o], "blocked", {})
  <2>1. {} \in SUBSET Producers /\ "blocked" \in RunStatus
    BY DEF RunStatus
  <2>2. v \in Run /\ SamePlace(run[o], v) /\ v.status # "absent"
    BY <1>1, <2>1, UnclaimedRow DEF SamePlace
  <2>3. Works(run[o], v)
    BY <1>1, <1>2, <2>2, OpenWorks
  <2>4. /\ run' = [run EXCEPT ![o] = v]
        /\ \E x \in Writers : control' = Acquired(x)
        /\ proc' = proc
        /\ clock' = clock /\ circuit' = circuit /\ snap' = FALSE
    BY <1>3, <1>5 DEF ReclaimHitsCircuit, NewVersion
  <2>5. circuit' \in BOOLEAN /\ snap' \in BOOLEAN
    BY <2>4 DEF IInv, TypeOK
  <2> HIDE DEF v
  <2> QED
    BY <2>2, <2>3, <2>4, <2>5, Transaction
<1> QED
  BY <1>4, <1>5

\* A claimed run is started, committed or failed by its owner, or the owner
\* is fenced.
LEMMA GenerationWorks ==
    ASSUME IInv, NEW p \in Producers, Generation(p)
    PROVE  Working
<1> DEFINE o == proc[p].occ
<1>1. CASE Fenced(p)
  <2>1. proc' \in [Producers -> Proc] /\ ProcHasOcc'
    BY <1>1 DEF Fenced, IInv, TypeOK, ProcHasOcc, Idle, Proc
  <2> QED
    BY <1>1, <2>1 DEF Fenced, Working, Works, KeepsRule, IInv, TypeOK
<1>2. CASE StartGeneration(p) \/ CommitGenerated(p) \/ FailGeneration(p)
  <2>1. o \in Occs /\ run[o] \in Run /\ run[o].started \in SUBSET Producers
    BY <1>2 DEF StartGeneration, CommitGenerated, FailGeneration, IInv, TypeOK,
                ProcHasOcc, Run
  <2>2. run[o].leaf = "none" /\ run[o].status \in Claimed
    BY <1>2 DEF StartGeneration, CommitGenerated, FailGeneration, Owns, Claimed
  <2> DEFINE go == ControlAgrees(run[o]) /\ ~circuit
             v1 == IF go THEN Started(run[o], p)
                         ELSE Unclaimed(run[o], "blocked", run[o].started)
             v2 == IF go THEN Frozen(run[o], p)
                         ELSE Unclaimed(run[o], "blocked", run[o].started \ {p})
             v3 == Unclaimed(run[o], "failed", run[o].started \ {p})
  <2>3. ASSUME NEW v \in {v1, v2, v3}
        PROVE  v \in Run /\ SamePlace(run[o], v) /\ v.status # "absent"
    <3>1. /\ run[o].started \ {p} \in SUBSET Producers
          /\ "blocked" \in RunStatus /\ "failed" \in RunStatus
      BY <2>1 DEF RunStatus
    <3>2. v1 \in Run /\ SamePlace(run[o], v1) /\ v1.status # "absent"
      BY <2>1, <3>1, StartedRow, UnclaimedRow
    <3>3. v2 \in Run /\ SamePlace(run[o], v2) /\ v2.status # "absent"
      BY <2>1, <3>1, FrozenRow, UnclaimedRow
    <3>4. v3 \in Run /\ SamePlace(run[o], v3) /\ v3.status # "absent"
      BY <2>1, <3>1, UnclaimedRow
    <3> QED
      BY <2>3, <3>2, <3>3, <3>4
  <2>4. /\ \E v \in {v1, v2, v3} : run' = [run EXCEPT ![o] = v]
        /\ \/ proc' = [proc EXCEPT ![p] = Idle]
           \/ \E c \in {"claimed", "started"} : proc' = [proc EXCEPT ![p] = At(c, o)]
        /\ clock' = clock /\ control' = control
        /\ circuit' \in BOOLEAN /\ snap' \in BOOLEAN
    BY <1>2 DEF StartGeneration, CommitGenerated, FailGeneration, IInv, TypeOK
  <2>5. PICK v \in {v1, v2, v3} : run' = [run EXCEPT ![o] = v]
    BY <2>4
  <2>6. v \in Run /\ Works(run[o], v)
    BY <2>1, <2>2, <2>3, OpenWorks
  <2> HIDE DEF v1, v2, v3
  <2> QED
    BY <2>1, <2>4, <2>5, <2>6, Transaction
<1> QED
  BY <1>1, <1>2 DEF Generation

\* A prepared text is admitted and frozen at once, or takes over a run.
LEMMA EnqueuePreparedKind ==
    ASSUME IInv, NEW p \in Producers, NEW o \in Occs, EnqueuePrepared(p, o)
    PROVE  \/ Working
           \/ TypeOK' /\ ProcHasOcc' /\ KeepsRule /\ clock' = clock /\ Admits(o)
<1> DEFINE lane == ModeFor(control, SlotOf(o))
           u == IF run[o].status = "absent" THEN Inserted(lane, SlotOf(o), p)
                                            ELSE TakenOver(run[o], p)
           v == IF circuit \/ ~ControlAgrees(u)
                  THEN Unclaimed(u, "blocked", u.started) ELSE Frozen(u, p)
<1>1. /\ (run[o].status = "absent" /\ SlotIsDue(o)) \/ Reclaimable(run[o])
      /\ lane # Refused
      /\ run' = [run EXCEPT ![o] = v]
      /\ control' = Acquired(ProcessOf[p])
      /\ clock' = clock /\ circuit' = circuit /\ proc' = proc /\ snap' = FALSE
  BY DEF EnqueuePrepared, NewVersion
<1>2. run[o] \in Run /\ circuit' \in BOOLEAN /\ snap' \in BOOLEAN
  BY <1>1 DEF IInv, TypeOK
<1>3. ProcessOf[p] \in Writers
  BY NameAssumption DEF Writers
<1>4. SlotOf(o) \in Nat /\ (SlotIsDue(o) => SlotOf(o) <= clock)
  BY DueSlot DEF IInv
<1>5. lane[1] \in Lanes /\ lane[2] \in Nat /\ lane = <<lane[1], lane[2]>>
  BY <1>1, <1>4, ModeForType DEF IInv, TypeOK
<1>6. u \in Run /\ u.status = "claimed" /\ u.started \in SUBSET Producers
  <2>1. TakenOver(run[o], p) \in Run /\ TakenOver(run[o], p).status = "claimed"
    BY <1>2, TakenOverRow
  <2>2. run[o].status = "absent" =>
           u \in Run /\ u.status = "claimed"
    <3> HIDE DEF lane
    <3> QED
      BY <1>4, <1>5, InsertedRow
  <2> QED
    BY <2>1, <2>2 DEF Run
<1>7. v \in Run /\ SamePlace(u, v) /\ v.status # "absent"
  <2> HIDE DEF u
  <2>1. "blocked" \in RunStatus
    BY DEF RunStatus
  <2> QED
    BY <1>6, <2>1, UnclaimedRow, FrozenRow
<1>8. CASE run[o].status = "absent"
  <2>1. /\ u.slot = SlotOf(o) /\ u.lane = lane[1] /\ u.epoch = lane[2]
    <3> HIDE DEF lane
    <3> QED
      BY <1>4, <1>5, <1>8, InsertedRow
  <2>2. SlotOf(o) <= clock
    BY <1>1, <1>4, <1>8 DEF Reclaimable, Claimed
  <2>3. v.slot = SlotOf(o) /\ v.lane = lane[1] /\ v.epoch = lane[2]
    <3> HIDE DEF u, v, lane
    <3> QED
      BY <1>7, <2>1 DEF SamePlace
  <2>4. ModeFor(control, v.slot) = <<v.lane, v.epoch>>
    BY <1>5, <2>3
  <2>5. run' \in [Occs -> Run] /\ run'[o] = v
        /\ \A q \in Occs \ {o} : run'[q] = run[q]
    <3> HIDE DEF v
    <3> QED
      BY <1>1, <1>7, OneRow DEF IInv
  <2>6. Admits(o)
    <3> HIDE DEF u, v, lane
    <3> QED
      BY <1>7, <1>8, <2>2, <2>3, <2>4, <2>5 DEF Admits
  <2>7. TypeOK' /\ ProcHasOcc' /\ KeepsRule
    BY <1>1, <1>2, <1>3, <2>5, ControlRows
    DEF IInv, TypeOK, ProcHasOcc, KeepsRule
  <2> QED
    BY <1>1, <2>6, <2>7
<1>9. CASE run[o].status # "absent"
  <2>1. run[o].leaf = "none" /\ run[o].status \in Claimed \cup {"blocked"}
    BY <1>1, <1>9 DEF Reclaimable
  <2>2. SamePlace(run[o], u)
    BY <1>2, <1>9, TakenOverRow
  <2>3. SamePlace(run[o], v)
    <3> HIDE DEF u, v
    <3> QED
      BY <1>7, <2>2 DEF SamePlace
  <2> HIDE DEF u, v
  <2>4. Works(run[o], v)
    BY <1>2, <1>7, <2>1, <2>3, OpenWorks
  <2> QED
    BY <1>1, <1>2, <1>3, <1>7, <2>4, Transaction
<1> QED
  BY <1>8, <1>9

\* The delivery of a leaf, its replay, a cancellation, an expired claim and a
\* quarantined one.
LEMMA DeliveryWorks ==
    ASSUME IInv, NEW o \in Occs,
           \/ Delivery(o) \/ Cancel(o) \/ Replay(o) \/ Quarantine(o)
           \/ ExpireClaim(o) \/ \E x \in Writers : ClaimLegacy(x, o)
    PROVE  Working
<1>1. run[o] \in Run /\ run[o].started \in SUBSET Producers
  BY DEF IInv, TypeOK, Run
<1>2. run[o].leaf # "none" => run[o].status # "absent"
  BY DEF IInv, RowShape
<1> DEFINE Written(v) == v \in Run /\ Works(run[o], v)
<1>3. ASSUME NEW l \in LeafStatus \ {"none"}, NEW s \in RunStatus \ {"absent"},
             run[o].leaf \in LeafOpen
      PROVE  Written(LeafSet(run[o], l, s))
  BY <1>1, <1>2, <1>3, LeafSetRow, LeafWorks DEF LeafOpen, Leased
<1>4. ASSUME NEW s \in RunStatus \ {"absent"}, NEW g \in SUBSET Producers,
             run[o].leaf = "none", run[o].status \in Claimed \cup {"blocked"}
      PROVE  Written(Unclaimed(run[o], s, g))
  BY <1>1, <1>4, UnclaimedRow, OpenWorks
<1>5. run[o].leaf \in LeafOpen => Written(Claim(run[o]))
  <2>1. Written(run[o])
    BY <1>1 DEF Works
  <2> QED
    BY <1>3, <2>1 DEF Claim, RunStatus, LeafStatus, Leased
<1>6. PICK v : Written(v) /\ run' = [run EXCEPT ![o] = v]
  <2>1. CASE \/ ClaimOutbox(o) \/ ClaimLegacyAsWriter(o)
             \/ \E x \in Writers : ClaimLegacy(x, o)
    BY <1>5, <2>1 DEF ClaimOutbox, ClaimLegacyAsWriter, ClaimLegacy, LeafOpen
  <2>2. CASE MarkRequestStarted(o)
    <3>1. run[o].leaf \in LeafOpen /\ run[o].status \in RunStatus \ {"absent"}
      BY <1>1, <1>2, <2>2 DEF MarkRequestStarted, LeafOpen, Leased, Run
    <3> QED
      BY <1>3, <2>2, <3>1 DEF MarkRequestStarted, LeafStatus, Leased
  <2>3. CASE \/ SettleDelivered(o) \/ SettleRetry(o) \/ SettleFailed(o)
             \/ SettleAmbiguous(o) \/ SettleOpensCircuit(o)
    <3>1. \E l \in LeafStatus \ {"none"}, s \in RunStatus \ {"absent"} :
             run[o].leaf \in LeafOpen
             /\ run' = [run EXCEPT ![o] = LeafSet(run[o], l, s)]
      BY <2>3 DEF SettleDelivered, SettleRetry, SettleFailed, SettleAmbiguous,
                  SettleOpensCircuit, Settle, LeafStatus, RunStatus, LeafOpen,
                  Leased
    <3> QED
      BY <1>3, <3>1
  <2>4. CASE ExpireLease(o)
    <3>1. Written(LeafSet(run[o], "ambiguous", "ambiguous"))
          /\ Written(LeafSet(run[o], "pending", "queued"))
      BY <1>3, <2>4 DEF ExpireLease, LeafStatus, RunStatus, LeafOpen
    <3>2. \/ run' = [run EXCEPT ![o] = LeafSet(run[o], "ambiguous", "ambiguous")]
          \/ run' = [run EXCEPT ![o] = LeafSet(run[o], "pending", "queued")]
      BY <2>4 DEF ExpireLease
    <3> QED
      BY <3>1, <3>2
  <2>5. CASE Terminalize(o) \/ Replay(o)
    BY <1>3, <2>5 DEF Terminalize, Replay, LeafStatus, RunStatus, LeafOpen,
                      Leased
  <2>6. CASE Cancel(o)
    <3> DEFINE g == IF run[o].status = "generating"
                      THEN run[o].started \ {run[o].holder} ELSE run[o].started
    <3>1. g \in SUBSET Producers
      BY <1>1
    <3>2. CASE run[o].leaf = "none"
      <4>1. Written(Unclaimed(run[o], "failed", g))
        BY <1>4, <2>6, <3>1, <3>2 DEF Cancel, RunStatus
      <4>2. run' = [run EXCEPT ![o] = Unclaimed(run[o], "failed", g)]
        BY <2>6, <3>2 DEF Cancel, Cancelled
      <4> QED
        BY <4>1, <4>2
    <3>3. CASE run[o].leaf = "pending"
      <4>1. Written(LeafSet(run[o], "dropped", "failed"))
        BY <1>3, <3>3 DEF LeafStatus, RunStatus, LeafOpen
      <4>2. run' = [run EXCEPT ![o] = LeafSet(run[o], "dropped", "failed")]
        BY <2>6, <3>3 DEF Cancel, Cancelled
      <4> QED
        BY <4>1, <4>2
    <3> QED
      BY <2>6, <3>2, <3>3 DEF Cancel
  <2>7. CASE Quarantine(o)
    BY <1>4, <2>7 DEF Quarantine, RunStatus
  <2>8. CASE ExpireClaim(o)
    <3> DEFINE w == [run[o] EXCEPT !.late = TRUE]
    <3>1. /\ w \in Run /\ SamePlace(run[o], w)
          /\ w.status = run[o].status /\ w.leaf = run[o].leaf
      BY <1>1, LateRow
    <3>2. Written(w)
      <4> HIDE DEF w
      <4>1. run[o].status # "absent"
        BY <2>8 DEF ExpireClaim, Claimed
      <4> QED
        BY <3>1, <4>1 DEF Works, Unsettled, UnsafeWithoutLeaf
    <3> QED
      BY <2>8, <3>2 DEF ExpireClaim
  <2> QED
    BY <2>1, <2>2, <2>3, <2>4, <2>5, <2>6, <2>7, <2>8 DEF Delivery
<1>7. /\ control' = control \/ \E x \in Writers : control' = Acquired(x)
      /\ proc' = proc /\ clock' = clock
      /\ circuit' \in BOOLEAN /\ snap' \in BOOLEAN
  BY DEF Delivery, ClaimOutbox, ClaimLegacyAsWriter, ClaimLegacy,
         MarkRequestStarted, SettleDelivered, SettleRetry, SettleFailed,
         SettleAmbiguous, SettleOpensCircuit, Settle, ExpireLease, Terminalize,
         Cancel, Replay, Quarantine, ExpireClaim, NewVersion, IInv, TypeOK
<1> QED
  BY <1>6, <1>7, Transaction

\* A crash, an expired writer lease, the drain's snapshot, the circuit.
LEMMA OtherWorks ==
    ASSUME IInv,
           \/ \E x \in Processes : Crash(x)
           \/ ExpireWriter \/ SnapshotWriter \/ OpenCircuit \/ ResetCircuit
    PROVE  Working
<1>1. CASE \E x \in Processes : Crash(x)
  <2>1. PICK x \in Processes : Crash(x)
    BY <1>1
  <2>2. control' \in Control /\ KeepsRule
    BY <2>1 DEF Crash, Control, KeepsRule, IInv, TypeOK
  <2>3. proc' \in [Producers -> Proc] /\ ProcHasOcc'
    BY <2>1 DEF Crash, Idle, Proc, ProcHasOcc, IInv, TypeOK
  <2> QED
    BY <2>1, <2>2, <2>3 DEF Crash, Working, Works, IInv, TypeOK
<1>2. CASE ExpireWriter
  BY <1>2 DEF ExpireWriter, Working, Works, KeepsRule, IInv, TypeOK, Control,
              ProcHasOcc
<1>3. CASE SnapshotWriter \/ OpenCircuit \/ ResetCircuit
  BY <1>3 DEF SnapshotWriter, OpenCircuit, ResetCircuit, Working, Works,
              KeepsRule, IInv, TypeOK, ProcHasOcc
<1> QED
  BY <1>1, <1>2, <1>3

-----------------------------------------------------------------------------
(* The invariant is kept *)

\* Work on the runs keeps every run in its lane and its place.
LEMMA WorkingKeeps ==
    ASSUME IInv, Working
    PROVE  IInv'
<1>1. \A o \in Occs : run[o] \in Run /\ run'[o] \in Run
  BY DEF IInv, Working, TypeOK
<1>2. \A o \in Occs : Works(run[o], run'[o])
  BY DEF Working
<1>3. KeepsRule /\ clock' = clock
  BY DEF Working
<1>4. RowShape'
  BY <1>2 DEF IInv, RowShape, Works
<1>5. LaneIsCurrent'
  <2> SUFFICES ASSUME NEW o \in Occs, Unsettled(run'[o])
               PROVE  \/ ControlAgrees(run[o])'
                      \/ /\ control'.mode = "outbox_draining"
                         /\ run'[o].lane = "outbox"
                         /\ run'[o].epoch = control'.epoch
                         /\ run'[o].leaf # "none"
    BY DEF LaneIsCurrent, Unsettled, UnsafeWithoutLeaf
  <2>1. /\ Unsettled(run[o]) /\ SamePlace(run[o], run'[o])
        /\ run[o].leaf # "none" => run'[o].leaf # "none"
    BY <1>2 DEF Works, SamePlace
  <2>2. ModeFor(control', run[o].slot) = ModeFor(control, run[o].slot)
    BY <1>3, SameRule
  <2> QED
    BY <1>3, <2>1, <2>2
    DEF IInv, LaneIsCurrent, ControlAgrees, SamePlace, KeepsRule
<1>6. \A o \in Occs : run'[o].status # "absent" =>
         run[o].status # "absent" /\ SamePlace(run[o], run'[o])
  BY <1>2 DEF Works, SamePlace
<1>7. Boundary'
  BY <1>3, <1>6 DEF IInv, Boundary, Placed, KeepsRule, SamePlace
<1>8. EpochsInOrder'
  BY <1>3, <1>6 DEF IInv, EpochsInOrder, KeepsRule, SamePlace
<1> QED
  BY <1>4, <1>5, <1>7, <1>8 DEF IInv, Working

\* The control's answer puts a new run on the right side of the boundary.
LEMMA AdmittedPlace ==
    ASSUME IInv, NEW at \in Nat, at <= clock, NEW l \in Lanes, NEW e \in Nat,
           ModeFor(control, at) = <<l, e>>
    PROVE  /\ control.mode # "outbox_draining"
           /\ \/ /\ e = control.epoch
                 /\ control.epoch > 0 => at >= control.effective
              \/ /\ e < control.epoch /\ l # "outbox"
                 /\ e + 1 = control.epoch
                 /\ at < control.effective
<1>1. /\ control \in Control /\ control.mode \in Modes
      /\ control.epoch \in Nat /\ control.effective \in Nat
      /\ control.mode # "legacy_direct" => control.epoch > 0
  BY DEF IInv, TypeOK, Boundary, Control
<1>2. l # "refused" /\ <<l, e>> # Refused
  BY DEF Refused, Lanes
<1>3. CASE control.mode \in {"outbox_hold", "outbox_active"}
  BY <1>1, <1>3, ModeForCases
<1>4. CASE control.mode = "outbox_draining"
  BY <1>1, <1>2, <1>4, ModeForCases
<1>5. CASE control.mode = "legacy_direct"
  BY <1>1, <1>2, <1>5, ModeForCases
<1> QED
  BY <1>1, <1>3, <1>4, <1>5 DEF Modes

\* A new run is current and lies beyond every run of the epochs before its own.
LEMMA AdmissionKeeps ==
    ASSUME IInv, TypeOK', ProcHasOcc', KeepsRule, clock' = clock,
           NEW o \in Occs, Admits(o)
    PROVE  IInv'
<1> DEFINE v == run'[o]
<1>1. /\ v \in Run /\ v.slot \in Nat /\ v.epoch \in Nat /\ v.lane \in Lanes
      /\ v.status # "absent"
  BY DEF TypeOK, Run, Admits
<1>2. /\ ModeFor(control, v.slot) = <<v.lane, v.epoch>> /\ v.slot <= clock
      /\ \A q \in Occs \ {o} : run'[q] = run[q]
  BY DEF Admits
<1>3. /\ clock \in Nat /\ control.epoch \in Nat /\ control.effective \in Nat
      /\ \A q \in Occs : run[q].slot \in Nat /\ run[q].epoch \in Nat
  BY DEF IInv, TypeOK, Control, Run
<1>4. /\ control.mode # "outbox_draining"
      /\ \/ /\ v.epoch = control.epoch
            /\ control.epoch > 0 => v.slot >= control.effective
         \/ /\ v.epoch < control.epoch /\ v.lane # "outbox"
            /\ v.epoch + 1 = control.epoch
            /\ v.slot < control.effective
  <2> HIDE DEF v
  <2> QED
    BY <1>1, <1>2, AdmittedPlace
<1>5. RowShape'
  BY <1>1, <1>2 DEF IInv, RowShape
<1>6. LaneIsCurrent'
  <2> SUFFICES ASSUME NEW q \in Occs, Unsettled(run'[q])
               PROVE  \/ ControlAgrees(run[q])'
                      \/ /\ control'.mode = "outbox_draining"
                         /\ run'[q].lane = "outbox"
                         /\ run'[q].epoch = control'.epoch
                         /\ run'[q].leaf # "none"
    BY DEF LaneIsCurrent, Unsettled, UnsafeWithoutLeaf
  <2>1. ModeFor(control', run'[q].slot) = ModeFor(control, run'[q].slot)
    BY SameRule
  <2>2. CASE q = o
    BY <1>2, <2>1, <2>2 DEF ControlAgrees
  <2>3. CASE q # o
    BY <1>2, <2>1, <2>3 DEF IInv, LaneIsCurrent, ControlAgrees, KeepsRule
  <2> QED
    BY <2>2, <2>3
<1>7. Boundary'
  <2>1. Placed(run[o])'
    BY <1>1, <1>2, <1>3, <1>4 DEF Placed, KeepsRule
  <2> QED
    BY <1>2, <2>1 DEF IInv, Boundary, Placed, KeepsRule
<1>8. EpochsInOrder'
  <2> SUFFICES ASSUME NEW q1 \in Occs, NEW q2 \in Occs,
                      run'[q1].status # "absent", run'[q2].status # "absent",
                      run'[q1].epoch < run'[q2].epoch,
                      \/ run'[q2].lane = "outbox"
                      \/ run'[q2].epoch = control.epoch
               PROVE  run'[q1].slot < run'[q2].slot
    BY DEF EpochsInOrder, KeepsRule
  <2>1. CASE q1 # o /\ q2 # o
    BY <1>2, <2>1 DEF IInv, EpochsInOrder
  <2>2. CASE q1 # o /\ q2 = o
    <3>1. v.epoch = control.epoch /\ control.epoch > 0
      BY <1>1, <1>2, <1>3, <1>4, <2>2
    <3>2. run[q1].slot < control.effective
      BY <1>2, <2>2, <3>1 DEF IInv, Boundary, Placed
    <3> QED
      BY <1>1, <1>2, <1>3, <1>4, <2>2, <3>1, <3>2
  <2>3. CASE q1 = o /\ q2 # o
    <3>1. Placed(run[q2])
      BY <1>2, <2>3 DEF IInv, Boundary
    <3>2. v.epoch < run[q2].epoch /\ run[q2].epoch <= control.epoch
      BY <1>2, <2>3, <3>1 DEF Placed
    <3>3. run[q2].epoch = control.epoch /\ v.slot < control.effective
      BY <1>1, <1>3, <1>4, <3>2
    <3>4. run[q2].slot >= control.effective
      BY <1>1, <1>3, <1>4, <3>1, <3>2, <3>3 DEF Placed
    <3> QED
      BY <1>1, <1>2, <1>3, <2>3, <3>3, <3>4
  <2>4. CASE q1 = o /\ q2 = o
    BY <1>1, <2>4
  <2> QED
    BY <2>1, <2>2, <2>3, <2>4
<1> QED
  BY <1>5, <1>6, <1>7, <1>8 DEF IInv

\* A transition writes the control row and nothing else.
LEMMA TransitionRow ==
    ASSUME IInv, NEW from \in Modes, NEW to \in Modes, NEW t \in Nat,
           NEW e \in Nat, Transition(from, to, t, e)
    PROVE  /\ TypeOK' /\ ProcHasOcc' /\ RowShape'
           /\ control.mode = from
           /\ control'.mode = to /\ control'.epoch = e /\ control'.effective = t
           /\ run' = run /\ clock' = clock
  BY DEF Transition, NewVersion, IInv, TypeOK, ProcHasOcc, RowShape, Control

\* What an unsettled run is, while the source does not drain: its lane and
\* epoch follow from the side of the boundary it lies on.
LEMMA UnsettledLane ==
    ASSUME IInv, NEW o \in Occs, Unsettled(run[o])
    PROVE  /\ control.mode = "legacy_direct" => run[o].lane = "legacy_direct"
           /\ run[o].lane = "outbox" => run[o].epoch = control.epoch
           /\ control.mode = "outbox_draining" =>
                run[o].lane = "outbox" /\ run[o].leaf # "none"
<1>1. /\ control \in Control /\ control.mode \in Modes
      /\ run[o].slot \in Nat /\ run[o].lane \in Lanes
      /\ run[o].epoch \in Nat /\ control.effective \in Nat
      /\ control.epoch \in Nat
  BY DEF IInv, TypeOK, Control, Run
<1>2. CASE ModeFor(control, run[o].slot) = <<run[o].lane, run[o].epoch>>
  <2>1. <<run[o].lane, run[o].epoch>> # Refused
    BY <1>1 DEF Refused, Lanes
  <2> QED
    BY <1>1, <1>2, <2>1, ModeForCases DEF Modes
<1> QED
  BY <1>2 DEF IInv, LaneIsCurrent, ControlAgrees

\* An unsettled run of the legacy lane is one the scan finds.
LEMMA UnsettledIsUnsafe ==
    ASSUME NEW o \in Occs, Unsettled(run[o])
    PROVE  /\ run[o].lane = "legacy_direct" => UnsafeLegacyRun
           /\ run[o].epoch = control.epoch => UnsafeEpoch
           /\ (run[o].lane = "outbox" /\ run[o].leaf = "none")
                => UnsafeUnmaterializedOutboxRun
  BY DEF Unsettled, UnsafeLegacyRun, UnsafeEpoch, UnsafeUnmaterializedOutboxRun,
         UnsafeWithoutLeaf, LeafOpen, Leased

\* The hold begins a new epoch in the future, when nothing is unsettled.
LEMMA HoldKeeps ==
    ASSUME IInv, Hold
    PROVE  IInv'
<1>1. /\ clock \in Nat /\ control.epoch \in Nat
      /\ \A o \in Occs : run[o].slot \in Nat /\ run[o].epoch \in Nat
  BY DEF IInv, TypeOK, Control, Run
<1>2. PICK t \in FutureSlots :
         Transition("legacy_direct", "outbox_hold", t, control.epoch + 1)
  BY DEF Hold
<1>3. t \in Nat /\ t > clock /\ control.epoch + 1 \in Nat
  BY <1>1, ScheduleAssumption DEF FutureSlots
<1>4. /\ TypeOK' /\ ProcHasOcc' /\ RowShape' /\ control.mode = "legacy_direct"
      /\ control'.mode = "outbox_hold" /\ control'.epoch = control.epoch + 1
      /\ control'.effective = t /\ run' = run /\ clock' = clock
  BY <1>2, <1>3, TransitionRow DEF Modes
<1>5. \A o \in Occs : ~Unsettled(run[o])
  BY <1>4, UnsettledLane, UnsettledIsUnsafe DEF Hold, UnsafeEpoch
<1>6. LaneIsCurrent'
  BY <1>4, <1>5 DEF LaneIsCurrent, Unsettled, UnsafeWithoutLeaf
<1>7. Boundary'
  BY <1>1, <1>3, <1>4 DEF IInv, Boundary, Placed
<1>8. EpochsInOrder'
  BY <1>1, <1>4 DEF IInv, Boundary, Placed, EpochsInOrder
<1> QED
  BY <1>4, <1>6, <1>7, <1>8 DEF IInv

\* Activation gives every slot the lane and the epoch it had.
LEMMA ActivateKeeps ==
    ASSUME IInv, Activate
    PROVE  IInv'
<1>1. /\ control \in Control /\ control.effective \in Nat
      /\ control.epoch \in Nat
      /\ \A o \in Occs : run[o].slot \in Nat
  BY DEF IInv, TypeOK, Control, Run
<1>2. /\ TypeOK' /\ ProcHasOcc' /\ RowShape' /\ control.mode = "outbox_hold"
      /\ control'.mode = "outbox_active" /\ control'.epoch = control.epoch
      /\ control'.effective = control.effective /\ run' = run /\ clock' = clock
  BY <1>1, TransitionRow DEF Activate, Modes
<1>3. \A o \in Occs : ModeFor(control', run[o].slot) = ModeFor(control, run[o].slot)
  <2>1. control' \in Control
    BY <1>2 DEF TypeOK
  <2> QED
    BY <1>1, <1>2, <2>1, ModeForCases
<1>4. LaneIsCurrent'
  BY <1>2, <1>3 DEF IInv, LaneIsCurrent, ControlAgrees, Unsettled,
                    UnsafeWithoutLeaf
<1>5. Boundary' /\ EpochsInOrder'
  BY <1>2 DEF IInv, Boundary, Placed, EpochsInOrder
<1> QED
  BY <1>2, <1>4, <1>5 DEF IInv

\* Draining begins when every unsettled run has a leaf in the outbox.
LEMMA StartDrainingKeeps ==
    ASSUME IInv, StartDraining
    PROVE  IInv'
<1>1. /\ clock \in Nat /\ control.epoch \in Nat
      /\ \A o \in Occs : /\ run[o].slot \in Nat /\ run[o].epoch \in Nat
                         /\ run[o].lane \in Lanes
  BY DEF IInv, TypeOK, Control, Run
<1>2. PICK t \in FutureSlots :
         Transition("outbox_active", "outbox_draining", t, control.epoch)
  BY DEF StartDraining
<1>3. t \in Nat /\ t > clock
  BY <1>1, ScheduleAssumption DEF FutureSlots
<1>4. /\ TypeOK' /\ ProcHasOcc' /\ RowShape' /\ control.mode = "outbox_active"
      /\ control'.mode = "outbox_draining" /\ control'.epoch = control.epoch
      /\ control'.effective = t /\ run' = run /\ clock' = clock
  BY <1>1, <1>2, <1>3, TransitionRow DEF Modes
<1>5. \A o \in Occs : Unsettled(run[o]) =>
         /\ run[o].lane = "outbox" /\ run[o].epoch = control.epoch
         /\ run[o].leaf # "none"
  BY <1>1, UnsettledLane, UnsettledIsUnsafe DEF StartDraining, Lanes
<1>6. LaneIsCurrent'
  BY <1>4, <1>5 DEF LaneIsCurrent, Unsettled, UnsafeWithoutLeaf
<1>7. Boundary'
  BY <1>1, <1>3, <1>4 DEF IInv, Boundary, Placed
<1>8. EpochsInOrder'
  BY <1>4 DEF IInv, EpochsInOrder
<1> QED
  BY <1>4, <1>6, <1>7, <1>8 DEF IInv

\* The epoch is closed when nothing of it is unsettled.
LEMMA CloseKeeps ==
    ASSUME IInv, Close
    PROVE  IInv'
<1>1. /\ clock \in Nat /\ control.epoch \in Nat /\ control.effective \in Nat
      /\ \A o \in Occs : /\ run[o].slot \in Nat /\ run[o].epoch \in Nat
  BY DEF IInv, TypeOK, Control, Run
<1>2. /\ TypeOK' /\ ProcHasOcc' /\ RowShape' /\ control.mode = "outbox_draining"
      /\ control'.mode = "legacy_direct" /\ control'.epoch = control.epoch + 1
      /\ control'.effective = control.effective /\ run' = run /\ clock' = clock
  BY <1>1, TransitionRow DEF Close, Modes
<1>3. \A o \in Occs : ~Unsettled(run[o])
  BY <1>2, UnsettledLane, UnsettledIsUnsafe DEF Close, Drained
<1>4. LaneIsCurrent'
  BY <1>2, <1>3 DEF LaneIsCurrent, Unsettled, UnsafeWithoutLeaf
<1>5. Boundary'
  BY <1>1, <1>2 DEF IInv, Boundary, Placed
<1>6. EpochsInOrder'
  BY <1>1, <1>2 DEF IInv, Boundary, Placed, EpochsInOrder
<1> QED
  BY <1>2, <1>4, <1>5, <1>6 DEF IInv

\* Time passes.
LEMMA TickKeeps ==
    ASSUME IInv, Tick
    PROVE  IInv'
<1>1. /\ clock \in Nat /\ clock' = clock + 1
      /\ UNCHANGED <<control, circuit, run, proc, snap>>
      /\ \A o \in Occs : run[o].slot \in Nat
  BY DEF IInv, TypeOK, Run, Tick
<1>2. TypeOK' /\ ProcHasOcc' /\ RowShape' /\ LaneIsCurrent' /\ EpochsInOrder'
  BY <1>1 DEF IInv, TypeOK, ProcHasOcc, RowShape, LaneIsCurrent, ControlAgrees,
              EpochsInOrder, Unsettled, UnsafeWithoutLeaf
<1>3. Boundary'
  BY <1>1 DEF IInv, Boundary, Placed
<1> QED
  BY <1>2, <1>3 DEF IInv

\* The invariant holds from the start and through every step.
THEOREM Invariance == Spec => []IInv
<1>1. Init => IInv
  <2> SUFFICES ASSUME Init
               PROVE  IInv
    OBVIOUS
  <2>1. TypeOK
    BY ScheduleAssumption
    DEF Init, TypeOK, Control, Modes, Run, RunStatus, Claimed, Lanes, LeafStatus,
        Leased, NoRun, Proc, Idle
  <2>2. ProcHasOcc /\ RowShape /\ Boundary /\ EpochsInOrder
    BY DEF Init, ProcHasOcc, RowShape, Boundary, EpochsInOrder, NoRun, Idle
  <2>3. LaneIsCurrent
    BY DEF Init, LaneIsCurrent, NoRun, Unsettled, UnsafeWithoutLeaf, Claimed,
           LeafOpen, Leased
  <2> QED
    BY <2>1, <2>2, <2>3 DEF IInv
<1>2. IInv /\ [Next]_vars => IInv'
  <2> SUFFICES ASSUME IInv, [Next]_vars
               PROVE  IInv'
    OBVIOUS
  <2>1. CASE UNCHANGED vars
    BY <2>1 DEF vars, IInv, TypeOK, ProcHasOcc, RowShape, LaneIsCurrent,
       ControlAgrees, Unsettled, UnsafeWithoutLeaf, Boundary, Placed, EpochsInOrder
  <2>2. ASSUME NEW p \in Producers, Generation(p)
        PROVE  IInv'
    BY <2>2, GenerationWorks, WorkingKeeps
  <2>3. ASSUME NEW p \in Producers, NEW o \in Occs, Admission(p, o)
        PROVE  IInv'
    BY <2>3, ClaimNewAdmits, ReclaimWorks, EnqueuePreparedKind, WorkingKeeps,
       AdmissionKeeps DEF Admission
  <2>4. ASSUME NEW o \in Occs,
               \/ Quarantine(o) \/ ExpireClaim(o) \/ Delivery(o)
               \/ Cancel(o) \/ Replay(o) \/ \E x \in Writers : ClaimLegacy(x, o)
        PROVE  IInv'
    BY <2>4, DeliveryWorks, WorkingKeeps
  <2>5. CASE \/ \E x \in Processes : Crash(x)
             \/ ExpireWriter \/ SnapshotWriter \/ OpenCircuit \/ ResetCircuit
    BY <2>5, OtherWorks, WorkingKeeps
  <2>6. CASE Hold \/ Activate \/ StartDraining \/ Close \/ Tick
    BY <2>6, HoldKeeps, ActivateKeeps, StartDrainingKeeps, CloseKeeps, TickKeeps
  <2> QED
    BY <2>1, <2>2, <2>3, <2>4, <2>5, <2>6 DEF Next, Operator
<1> QED
  BY <1>1, <1>2, PTL DEF Spec

\* Every row of the control, the runs and the producers keeps its form; in
\* particular a slot the control refuses is never admitted with a lane.
THEOREM TypeCorrect == Spec => []TypeOK
  BY Invariance, PTL DEF IInv

\* No cutover strands a run: an unsettled run always has an open lane, however
\* often the operator goes round the cycle and whoever crashes in between.
THEOREM NoRunStranded == Spec => []LaneIsCurrent
  BY Invariance, PTL DEF IInv

\* Runs of outbox epochs, and of the current epoch, are later than the runs of
\* all epochs before, for every schedule and any number of cutovers.
THEOREM EpochsCutTheSchedule == Spec => []EpochsInOrder
  BY Invariance, PTL DEF IInv

-----------------------------------------------------------------------------
(* OutboundControl implements OutboundLifecycle *)

\* What one row may become in one step, as OutboundLifecycle sees it.
Lives(u, v) ==
    \/ /\ v.author = u.author
       /\ \/ PhaseOf(v) = PhaseOf(u)
          \/ PhaseOf(u) = "absent" /\ PhaseOf(v) = "open"
          \/ PhaseOf(u) = "queued" /\ PhaseOf(v) = "sending"
          \/ /\ PhaseOf(u) = "sending"
             /\ PhaseOf(v) \in {"queued", "delivered", "unknown"}
          \/ PhaseOf(u) = "unknown" /\ PhaseOf(v) = "queued"
          \/ PhaseOf(u) \in {"open", "queued", "sending"} /\ PhaseOf(v) = "dropped"
    \/ /\ PhaseOf(u) \in {"absent", "open"}
       /\ PhaseOf(v) = "queued"
       /\ v.author \in Producers

\* A row that lives takes a step of OutboundLifecycle or none.
LEMMA RowImplements ==
    ASSUME TypeOK, NEW o \in Occs, NEW v \in Run,
           run' = [run EXCEPT ![o] = v], Lives(run[o], v)
    PROVE  [Lifecycle!Next]_(Lifecycle!avars)
<1> DEFINE ph == [q \in Occs |-> PhaseOf(run[q])]
           au == [q \in Occs |-> run[q].author]
<1>1. run'[o] = v /\ \A q \in Occs \ {o} : run'[q] = run[q]
  BY OneRow
<1>2. /\ ph' = [ph EXCEPT ![o] = PhaseOf(v)]
      /\ au' = [au EXCEPT ![o] = v.author]
      /\ ph[o] = PhaseOf(run[o]) /\ au[o] = run[o].author
  <2>1. ph' = [q \in Occs |-> PhaseOf(run'[q])]
    BY DEF PhaseOf
  <2>2. au' = [q \in Occs |-> run'[q].author]
    OBVIOUS
  <2>3. [ph EXCEPT ![o] = PhaseOf(v)] = [q \in Occs |-> PhaseOf(run'[q])]
    BY <1>1
  <2>4. [au EXCEPT ![o] = v.author] = [q \in Occs |-> run'[q].author]
    BY <1>1
  <2> QED
    BY <2>1, <2>2, <2>3, <2>4
<1>3. v.author = run[o].author => au' = au
  BY <1>2
<1>4. CASE PhaseOf(v) = PhaseOf(run[o]) /\ v.author = run[o].author
  <2>1. ph' = ph
    BY <1>2, <1>4
  <2> QED
    BY <1>3, <1>4, <2>1 DEF Lifecycle!avars
<1>5. CASE PhaseOf(v) # PhaseOf(run[o]) \/ v.author # run[o].author
  <2>1. ASSUME NEW from, ph[o] \in from, v.author = run[o].author
        PROVE  Lifecycle!Move(o, from, PhaseOf(v))
    BY <1>2, <1>3, <2>1 DEF Lifecycle!Move
  <2>2. CASE /\ PhaseOf(run[o]) \in {"absent", "open"} /\ PhaseOf(v) = "queued"
             /\ v.author \in Producers
    <3>1. Lifecycle!Freeze(o, v.author)
      BY <1>2, <2>2 DEF Lifecycle!Freeze
    <3> QED
      BY <2>2, <3>1 DEF Lifecycle!Next
  <2>3. CASE v.author = run[o].author /\ PhaseOf(v) # PhaseOf(run[o])
    <3>1. \/ ph[o] \in {"absent"} /\ PhaseOf(v) = "open"
          \/ ph[o] \in {"queued"} /\ PhaseOf(v) = "sending"
          \/ ph[o] \in {"sending"} /\ PhaseOf(v) = "queued"
          \/ ph[o] \in {"sending"} /\ PhaseOf(v) = "delivered"
          \/ ph[o] \in {"sending"} /\ PhaseOf(v) = "unknown"
          \/ ph[o] \in {"unknown"} /\ PhaseOf(v) = "queued"
          \/ ph[o] \in {"open", "queued", "sending"} /\ PhaseOf(v) = "dropped"
          \/ /\ PhaseOf(run[o]) \in {"absent", "open"} /\ PhaseOf(v) = "queued"
             /\ v.author \in Producers
      BY <1>2, <2>3 DEF Lives
    <3>2. \/ Lifecycle!Move(o, {"absent"}, "open")
          \/ Lifecycle!Move(o, {"queued"}, "sending")
          \/ Lifecycle!Move(o, {"sending"}, "queued")
          \/ Lifecycle!Move(o, {"sending"}, "delivered")
          \/ Lifecycle!Move(o, {"sending"}, "unknown")
          \/ Lifecycle!Move(o, {"unknown"}, "queued")
          \/ Lifecycle!Move(o, {"open", "queued", "sending"}, "dropped")
          \/ /\ PhaseOf(run[o]) \in {"absent", "open"} /\ PhaseOf(v) = "queued"
             /\ v.author \in Producers
      <4> HIDE DEF ph, au
      <4> QED
        BY <2>1, <2>3, <3>1
    <3> QED
      BY <2>2, <3>2 DEF Lifecycle!Next
  <2> QED
    BY <1>5, <2>2, <2>3 DEF Lives
<1> QED
  BY <1>4, <1>5

\* How far an occurrence is, from its row.
LEMMA PhaseCases ==
    ASSUME NEW u \in Run
    PROVE  /\ (u.status = "absent" /\ u.leaf = "none") => PhaseOf(u) = "absent"
           /\ u.status # "absent" =>
                /\ u.leaf = "none" => PhaseOf(u) = IF u.status = "failed"
                                                   THEN "dropped" ELSE "open"
                /\ u.leaf \in {"pending", "leased"} => PhaseOf(u) = "queued"
                /\ u.leaf \in {"sending", "delivered", "dropped"} =>
                     PhaseOf(u) = u.leaf
                /\ u.leaf = "ambiguous" => PhaseOf(u) = "unknown"
  BY DEF PhaseOf

\* A run without a leaf that is claimed or blocked is open, until its text is
\* frozen or it is given up.
LEMMA OpenLives ==
    ASSUME NEW u \in Run, u.leaf = "none", u.status \in Claimed \cup {"blocked"},
           NEW v \in Run,
           \/ /\ v.status \in Claimed \cup {"blocked", "failed"}
              /\ v.leaf = "none" /\ v.author = u.author
           \/ /\ v.status = "queued" /\ v.leaf = "pending"
              /\ v.author \in Producers
    PROVE  Lives(u, v)
<1>1. PhaseOf(u) = "open"
  BY PhaseCases DEF Claimed
<1> QED
  BY <1>1, PhaseCases DEF Lives, Claimed

\* A new run is open or, with a prepared text, frozen at once.
LEMMA NewLives ==
    ASSUME NEW u \in Run, u.status = "absent", u.leaf = "none",
           u.author = Nobody, NEW v \in Run,
           \/ /\ v.status \in {"claimed", "blocked"}
              /\ v.leaf = "none" /\ v.author = Nobody
           \/ /\ v.status = "queued" /\ v.leaf = "pending"
              /\ v.author \in Producers
    PROVE  Lives(u, v)
<1>1. PhaseOf(u) = "absent"
  BY PhaseCases
<1> QED
  BY <1>1, PhaseCases DEF Lives

\* The steps of a leaf that OutboundLifecycle allows.
LEMMA LeafLives ==
    ASSUME NEW u \in Run, u.status # "absent", NEW l \in LeafStatus,
           NEW s \in RunStatus \ {"absent"},
           \/ u.leaf = "pending" /\ l \in {"leased", "dropped"}
           \/ u.leaf = "leased" /\ l \in {"pending", "sending"}
           \/ u.leaf = "sending"
              /\ l \in {"pending", "delivered", "dropped", "ambiguous"}
           \/ u.leaf = "ambiguous" /\ l = "pending"
    PROVE  Lives(u, LeafSet(u, l, s))
<1> DEFINE v == LeafSet(u, l, s)
<1>1. /\ v \in Run /\ v.status # "absent" /\ v.leaf = l
      /\ v.author = u.author
  BY LeafSetRow
<1> HIDE DEF v
<1>2. Lives(u, v)
  BY <1>1, PhaseCases DEF Lives
<1> QED
  BY <1>2 DEF v

\* Claims on occurrences.
LEMMA AdmissionImplements ==
    ASSUME IInv, NEW p \in Producers, NEW o \in Occs, Admission(p, o)
    PROVE  [Lifecycle!Next]_(Lifecycle!avars)
<1>1. run[o] \in Run /\ TypeOK
  BY DEF IInv, TypeOK
<1>2. run[o].status = "absent" => run[o].leaf = "none" /\ run[o].author = Nobody
  BY DEF IInv, RowShape
<1>3. {} \in SUBSET Producers /\ "blocked" \in RunStatus
  BY DEF RunStatus
<1> DEFINE lane == ModeFor(control, SlotOf(o))
           u == Inserted(lane, SlotOf(o), p)
<1>4. lane # Refused =>
         u \in Run /\ u.status = "claimed" /\ u.leaf = "none"
         /\ u.author = Nobody /\ u.started \in SUBSET Producers
  <2> SUFFICES ASSUME lane # Refused
               PROVE  u \in Run /\ u.status = "claimed" /\ u.leaf = "none"
                      /\ u.author = Nobody /\ u.started \in SUBSET Producers
    OBVIOUS
  <2>1. SlotOf(o) \in Nat
    BY DueSlot DEF IInv
  <2>2. lane[1] \in Lanes /\ lane[2] \in Nat /\ lane = <<lane[1], lane[2]>>
    BY <2>1, ModeForType DEF IInv, TypeOK
  <2> HIDE DEF lane
  <2> QED
    BY <2>1, <2>2, InsertedRow
<1>5. CASE ClaimNew(p, o)
  <2> DEFINE v == IF circuit THEN Unclaimed(u, "blocked", {}) ELSE u
  <2>1. /\ lane # Refused /\ run[o].status = "absent"
        /\ run' = [run EXCEPT ![o] = v]
    BY <1>5 DEF ClaimNew
  <2>2. v \in Run /\ v.status \in {"claimed", "blocked"} /\ v.leaf = "none"
        /\ v.author = Nobody
    <3> HIDE DEF u, lane
    <3> QED
      BY <1>3, <1>4, <2>1, UnclaimedRow
  <2> HIDE DEF v
  <2>3. Lives(run[o], v)
    BY <1>1, <1>2, <2>1, <2>2, NewLives
  <2> QED
    BY <1>1, <2>1, <2>2, <2>3, RowImplements
<1>6. CASE Reclaim(p, o)
  <2> DEFINE v == TakenOver(run[o], p)
  <2>1. run[o].leaf = "none" /\ run[o].status \in Claimed \cup {"blocked"}
        /\ run' = [run EXCEPT ![o] = v]
    BY <1>6 DEF Reclaim, Reclaimable
  <2>2. v \in Run /\ v.status = "claimed" /\ v.leaf = "none"
        /\ v.author = run[o].author
    BY <1>1, <2>1, TakenOverRow
  <2> HIDE DEF v
  <2>3. Lives(run[o], v)
    BY <1>1, <2>1, <2>2, OpenLives DEF Claimed
  <2> QED
    BY <1>1, <2>1, <2>2, <2>3, RowImplements
<1>7. CASE ReclaimHitsCircuit(p, o)
  <2> DEFINE v == IF run[o].status = "blocked" THEN run[o]
                                               ELSE Unclaimed(run[o], "blocked", {})
  <2>1. run[o].leaf = "none" /\ run[o].status \in Claimed \cup {"blocked"}
        /\ run' = [run EXCEPT ![o] = v]
    BY <1>7 DEF ReclaimHitsCircuit, Reclaimable
  <2>2. v \in Run /\ v.status = "blocked" /\ v.leaf = "none"
        /\ v.author = run[o].author
    BY <1>1, <1>3, <2>1, UnclaimedRow
  <2> HIDE DEF v
  <2>3. Lives(run[o], v)
    BY <1>1, <2>1, <2>2, OpenLives
  <2> QED
    BY <1>1, <2>1, <2>2, <2>3, RowImplements
<1>8. CASE EnqueuePrepared(p, o)
  <2> DEFINE w == IF run[o].status = "absent" THEN u ELSE TakenOver(run[o], p)
             v == IF circuit \/ ~ControlAgrees(w)
                    THEN Unclaimed(w, "blocked", w.started) ELSE Frozen(w, p)
  <2>1. /\ lane # Refused
        /\ run[o].status = "absent" \/ Reclaimable(run[o])
        /\ run' = [run EXCEPT ![o] = v]
    BY <1>8 DEF EnqueuePrepared
  <2>2. /\ w \in Run /\ w.leaf = "none" /\ w.started \in SUBSET Producers
        /\ w.author = run[o].author
    <3>1. CASE run[o].status = "absent"
      <4> HIDE DEF u, lane
      <4> QED
        BY <1>2, <1>4, <2>1, <3>1
    <3>2. CASE run[o].status # "absent"
      <4>1. TakenOver(run[o], p) \in Run
            /\ TakenOver(run[o], p).leaf = "none"
            /\ TakenOver(run[o], p).author = run[o].author
        BY <1>1, <2>1, <3>2, TakenOverRow DEF Reclaimable
      <4> HIDE DEF u, lane
      <4> QED
        BY <3>2, <4>1 DEF Run
    <3> QED
      BY <3>1, <3>2
  <2>3. /\ v \in Run
        /\ \/ v.status = "blocked" /\ v.leaf = "none" /\ v.author = run[o].author
           \/ v.status = "queued" /\ v.leaf = "pending" /\ v.author \in Producers
    <3> HIDE DEF w
    <3> QED
      BY <1>3, <2>2, UnclaimedRow, FrozenRow
  <2> HIDE DEF v
  <2>4. CASE run[o].status = "absent"
    <3>1. Lives(run[o], v)
      BY <1>1, <1>2, <2>3, <2>4, NewLives
    <3> QED
      BY <1>1, <2>1, <2>3, <3>1, RowImplements
  <2>5. CASE run[o].status # "absent"
    <3>1. run[o].leaf = "none" /\ run[o].status \in Claimed \cup {"blocked"}
      BY <2>1, <2>5 DEF Reclaimable
    <3>2. Lives(run[o], v)
      BY <1>1, <2>3, <3>1, OpenLives
    <3> QED
      BY <1>1, <2>1, <2>3, <3>2, RowImplements
  <2> QED
    BY <2>4, <2>5
<1> QED
  BY <1>5, <1>6, <1>7, <1>8 DEF Admission

\* Generation freezes the text, blocks or gives up the run, or writes nothing.
LEMMA GenerationImplements ==
    ASSUME IInv, NEW p \in Producers, Generation(p)
    PROVE  [Lifecycle!Next]_(Lifecycle!avars)
<1> DEFINE o == proc[p].occ
<1>1. CASE Fenced(p)
  BY <1>1 DEF Fenced, Lifecycle!avars, PhaseOf
<1>2. CASE StartGeneration(p) \/ CommitGenerated(p) \/ FailGeneration(p)
  <2>1. /\ o \in Occs /\ TypeOK /\ run[o] \in Run
        /\ run[o].started \in SUBSET Producers
        /\ run[o].started \ {p} \in SUBSET Producers
    BY <1>2 DEF StartGeneration, CommitGenerated, FailGeneration, IInv, TypeOK,
                ProcHasOcc, Run
  <2>2. run[o].leaf = "none" /\ run[o].status \in Claimed
    BY <1>2 DEF StartGeneration, CommitGenerated, FailGeneration, Owns, Claimed
  <2> DEFINE v1 == Started(run[o], p)
             v2 == Frozen(run[o], p)
             v3 == Unclaimed(run[o], "blocked", run[o].started)
             v4 == Unclaimed(run[o], "blocked", run[o].started \ {p})
             v5 == Unclaimed(run[o], "failed", run[o].started \ {p})
  <2>3. \E v \in {v1, v2, v3, v4, v5} : run' = [run EXCEPT ![o] = v]
    BY <1>2 DEF StartGeneration, CommitGenerated, FailGeneration
  <2>4. PICK v \in {v1, v2, v3, v4, v5} : run' = [run EXCEPT ![o] = v]
    BY <2>3
  <2>5. /\ v \in Run
        /\ \/ /\ v.status \in Claimed \cup {"blocked", "failed"}
              /\ v.leaf = "none" /\ v.author = run[o].author
           \/ /\ v.status = "queued" /\ v.leaf = "pending"
              /\ v.author \in Producers
    <3>1. "blocked" \in RunStatus /\ "failed" \in RunStatus
          /\ "generating" \in Claimed
      BY DEF RunStatus, Claimed
    <3>2. /\ v1 \in Run /\ v1.status = "generating" /\ v1.leaf = "none"
          /\ v1.author = run[o].author
      BY <2>1, <2>2, StartedRow
    <3>3. /\ v2 \in Run /\ v2.status = "queued" /\ v2.leaf = "pending"
          /\ v2.author = p
      BY <2>1, FrozenRow
    <3>4. \A w \in {v3, v4} : /\ w \in Run /\ w.status = "blocked"
                              /\ w.leaf = "none" /\ w.author = run[o].author
      BY <2>1, <2>2, <3>1, UnclaimedRow
    <3>5. /\ v5 \in Run /\ v5.status = "failed"
          /\ v5.leaf = "none" /\ v5.author = run[o].author
      BY <2>1, <2>2, <3>1, UnclaimedRow
    <3> HIDE DEF v1, v2, v3, v4, v5
    <3> QED
      BY <2>4, <3>1, <3>2, <3>3, <3>4, <3>5
  <2> HIDE DEF v1, v2, v3, v4, v5
  <2>6. Lives(run[o], v)
    BY <2>1, <2>2, <2>5, OpenLives
  <2> QED
    BY <2>1, <2>4, <2>5, <2>6, RowImplements
<1> QED
  BY <1>1, <1>2 DEF Generation

\* Delivery, replay, cancellation and the ends of claims.
LEMMA DeliveryImplements ==
    ASSUME IInv, NEW o \in Occs,
           \/ Delivery(o) \/ Cancel(o) \/ Replay(o) \/ Quarantine(o)
           \/ ExpireClaim(o) \/ \E x \in Writers : ClaimLegacy(x, o)
    PROVE  [Lifecycle!Next]_(Lifecycle!avars)
<1>1. /\ TypeOK /\ run[o] \in Run /\ run[o].status \in RunStatus
      /\ run[o].started \in SUBSET Producers
  BY DEF IInv, TypeOK, Run
<1>2. run[o].leaf # "none" => run[o].status # "absent"
  BY DEF IInv, RowShape
<1>3. ASSUME NEW l \in LeafStatus, NEW s \in RunStatus \ {"absent"},
             \/ run[o].leaf = "pending" /\ l \in {"leased", "dropped"}
             \/ run[o].leaf = "leased" /\ l \in {"pending", "sending"}
             \/ run[o].leaf = "sending"
                /\ l \in {"pending", "delivered", "dropped", "ambiguous"}
             \/ run[o].leaf = "ambiguous" /\ l = "pending",
             run' = [run EXCEPT ![o] = LeafSet(run[o], l, s)]
      PROVE  [Lifecycle!Next]_(Lifecycle!avars)
  <2>1. run[o].status # "absent"
    BY <1>2, <1>3
  <2>2. Lives(run[o], LeafSet(run[o], l, s))
    BY <1>1, <1>3, <2>1, LeafLives
  <2>3. LeafSet(run[o], l, s) \in Run
    BY <1>1, LeafSetRow
  <2> QED
    BY <1>1, <1>3, <2>2, <2>3, RowImplements
<1>4. ASSUME NEW s \in Claimed \cup {"blocked", "failed"}, NEW v \in Run,
             run[o].leaf = "none", run[o].status \in Claimed \cup {"blocked"},
             v.status = s, v.leaf = "none", v.author = run[o].author,
             run' = [run EXCEPT ![o] = v]
      PROVE  [Lifecycle!Next]_(Lifecycle!avars)
  <2>1. Lives(run[o], v)
    BY <1>1, <1>4, OpenLives
  <2> QED
    BY <1>1, <1>4, <2>1, RowImplements
<1>5. ASSUME NEW g \in SUBSET Producers, run[o].leaf = "none",
             run[o].status \in Claimed \cup {"blocked"},
             run' = [run EXCEPT ![o] = Unclaimed(run[o], "failed", g)]
      PROVE  [Lifecycle!Next]_(Lifecycle!avars)
  <2> DEFINE v == Unclaimed(run[o], "failed", g)
  <2>1. /\ v \in Run /\ v.status = "failed" /\ v.leaf = "none"
        /\ v.author = run[o].author
    BY <1>1, <1>5, UnclaimedRow DEF RunStatus
  <2> HIDE DEF v
  <2> QED
    BY <1>4, <1>5, <2>1 DEF v
<1>6. CASE \/ ClaimOutbox(o) \/ ClaimLegacyAsWriter(o)
           \/ \E x \in Writers : ClaimLegacy(x, o)
  <2>1. /\ run[o].leaf = "pending"
        /\ \/ run' = [run EXCEPT ![o] = run[o]]
           \/ run' = [run EXCEPT ![o] = LeafSet(run[o], "leased", "delivering")]
    BY <1>6 DEF ClaimOutbox, ClaimLegacyAsWriter, ClaimLegacy, Claim
  <2>2. Lives(run[o], run[o])
    BY DEF Lives
  <2>3. "leased" \in LeafStatus /\ "delivering" \in RunStatus \ {"absent"}
    BY DEF LeafStatus, RunStatus, Leased
  <2> QED
    BY <1>1, <1>3, <2>1, <2>2, <2>3, RowImplements
<1>7. CASE MarkRequestStarted(o)
  <2>1. /\ run[o].leaf = "leased" /\ run[o].status \in RunStatus \ {"absent"}
        /\ run' = [run EXCEPT ![o] = LeafSet(run[o], "sending", run[o].status)]
        /\ "sending" \in LeafStatus
    BY <1>1, <1>2, <1>7 DEF MarkRequestStarted, LeafStatus, Leased
  <2> QED
    BY <1>3, <2>1
<1>8. CASE \/ SettleDelivered(o) \/ SettleRetry(o) \/ SettleFailed(o)
           \/ SettleAmbiguous(o) \/ SettleOpensCircuit(o)
  <2>1. \E l \in {"pending", "delivered", "dropped", "ambiguous"},
           s \in {"succeeded", "queued", "failed", "ambiguous"} :
           /\ run[o].leaf = "sending"
           /\ run' = [run EXCEPT ![o] = LeafSet(run[o], l, s)]
    BY <1>8 DEF SettleDelivered, SettleRetry, SettleFailed, SettleAmbiguous,
                SettleOpensCircuit, Settle
  <2>2. /\ {"pending", "delivered", "dropped", "ambiguous"} \subseteq LeafStatus
        /\ {"succeeded", "queued", "failed", "ambiguous"}
              \subseteq RunStatus \ {"absent"}
    BY DEF LeafStatus, RunStatus
  <2> QED
    BY <1>3, <2>1, <2>2
<1>9. CASE ExpireLease(o)
  <2>1. \/ /\ run[o].leaf = "sending"
           /\ run' = [run EXCEPT ![o] = LeafSet(run[o], "ambiguous", "ambiguous")]
        \/ /\ run[o].leaf = "leased"
           /\ run' = [run EXCEPT ![o] = LeafSet(run[o], "pending", "queued")]
    BY <1>9 DEF ExpireLease, Leased
  <2>2. /\ "ambiguous" \in LeafStatus /\ "pending" \in LeafStatus
        /\ "ambiguous" \in RunStatus \ {"absent"}
        /\ "queued" \in RunStatus \ {"absent"}
    BY DEF LeafStatus, RunStatus
  <2> QED
    BY <1>3, <2>1, <2>2
<1>10. CASE Terminalize(o) \/ Replay(o)
  BY <1>3, <1>10 DEF Terminalize, Replay, LeafStatus, RunStatus
<1>11. CASE Cancel(o)
  <2>1. CASE run[o].leaf = "none"
    <3> DEFINE g == IF run[o].status = "generating"
                      THEN run[o].started \ {run[o].holder} ELSE run[o].started
    <3>1. /\ g \in SUBSET Producers
          /\ run[o].status \in Claimed \cup {"blocked"}
          /\ run' = [run EXCEPT ![o] = Unclaimed(run[o], "failed", g)]
      BY <1>1, <1>11, <2>1 DEF Cancel, Cancelled
    <3> HIDE DEF g
    <3> QED
      BY <1>5, <2>1, <3>1
  <2>2. CASE run[o].leaf = "pending"
    <3>1. run' = [run EXCEPT ![o] = LeafSet(run[o], "dropped", "failed")]
      BY <1>11, <2>2 DEF Cancel, Cancelled
    <3> QED
      BY <1>3, <2>2, <3>1 DEF LeafStatus, RunStatus
  <2> QED
    BY <1>11, <2>1, <2>2 DEF Cancel
<1>12. CASE Quarantine(o)
  <2>1. /\ run' = [run EXCEPT ![o] = Unclaimed(run[o], "failed", {})]
        /\ {} \in SUBSET Producers
        /\ run[o].leaf = "none" /\ run[o].status \in Claimed
    BY <1>12 DEF Quarantine
  <2> QED
    BY <1>5, <2>1
<1>13. CASE ExpireClaim(o)
  <2> DEFINE v == [run[o] EXCEPT !.late = TRUE]
  <2>1. /\ run[o].status \in Claimed
        /\ run' = [run EXCEPT ![o] = v]
    BY <1>13 DEF ExpireClaim
  <2>2. /\ v \in Run /\ v.status = run[o].status /\ v.leaf = run[o].leaf
        /\ v.author = run[o].author
    BY <1>1, LateRow
  <2> HIDE DEF v
  <2>3. Lives(run[o], v)
    <3>1. run[o].status # "absent"
      BY <2>1 DEF Claimed
    <3>2. run[o].leaf \in LeafStatus
      BY <1>1 DEF Run
    <3> QED
      BY <1>1, <2>2, <3>1, <3>2, PhaseCases DEF Lives, LeafStatus, Leased
  <2> QED
    BY <1>1, <2>1, <2>2, <2>3, RowImplements
<1> QED
  BY <1>6, <1>7, <1>8, <1>9, <1>10, <1>11, <1>12, <1>13 DEF Delivery

\* The life of an occurrence that OutboundLifecycle promises is what claims,
\* take-overs, generation, both lanes, cancellation, crashes and cutovers give
\* it: its text is frozen once and by one producer, and a delivered or dropped
\* occurrence stays so.
THEOREM Refinement == Spec => ImplementsLifecycle
<1>1. Init => Lifecycle!Init
  BY DEF Init, Lifecycle!Init, NoRun, PhaseOf
<1>2. IInv /\ [Next]_vars => [Lifecycle!Next]_(Lifecycle!avars)
  <2> SUFFICES ASSUME IInv, [Next]_vars
               PROVE  [Lifecycle!Next]_(Lifecycle!avars)
    OBVIOUS
  <2>1. CASE run' = run
    BY <2>1 DEF Lifecycle!avars, PhaseOf
  <2>2. ASSUME NEW p \in Producers, Generation(p)
        PROVE  [Lifecycle!Next]_(Lifecycle!avars)
    BY <2>2, GenerationImplements
  <2>3. ASSUME NEW p \in Producers, NEW o \in Occs, Admission(p, o)
        PROVE  [Lifecycle!Next]_(Lifecycle!avars)
    BY <2>3, AdmissionImplements
  <2>4. ASSUME NEW o \in Occs,
               \/ Quarantine(o) \/ ExpireClaim(o) \/ Delivery(o)
               \/ Cancel(o) \/ Replay(o) \/ \E x \in Writers : ClaimLegacy(x, o)
        PROVE  [Lifecycle!Next]_(Lifecycle!avars)
    BY <2>4, DeliveryImplements
  <2>5. \/ run' = run
        \/ \E p \in Producers : Generation(p)
        \/ \E p \in Producers, o \in Occs : Admission(p, o)
        \/ \E o \in Occs :
             \/ Quarantine(o) \/ ExpireClaim(o) \/ Delivery(o)
             \/ Cancel(o) \/ Replay(o) \/ \E x \in Writers : ClaimLegacy(x, o)
    BY DEF Next, vars, Crash, ExpireWriter, SnapshotWriter, Operator, OpenCircuit,
           ResetCircuit, Hold, Activate, StartDraining, Close, Transition, Tick
  <2> QED
    BY <2>1, <2>2, <2>3, <2>4, <2>5
<1> QED
  BY <1>1, <1>2, Invariance, PTL DEF Spec, ImplementsLifecycle, Lifecycle!Spec
=============================================================================
