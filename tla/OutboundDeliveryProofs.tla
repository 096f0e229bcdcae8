----------------------- MODULE OutboundDeliveryProofs -----------------------
(***************************************************************************)
(* What holds of OutboundDelivery for every number of runs, rows, workers  *)
(* and attempts, every lease, deadline and retry delay.                    *)
(*                                                                         *)
(* CopiesMatchStatus, the promise that one leaf puts at most one copy of   *)
(* the message in the chat, is not inductive.  It rests on InFlight (while *)
(* a worker has a request at the gateway its leaf is leased under the      *)
(* worker's attempt number, or already ambiguous, and never waiting),      *)
(* which needs LeaseHasOneHolder (two workers with the same attempt number *)
(* would both be in flight), which needs HoldsOld (no worker knows an      *)
(* attempt number that has not been allocated yet).  Lease expiry decides  *)
(* between "send again" and "ambiguous" from the run row as well as from   *)
(* the leaf, so RunMirrorsLeaf belongs to the same induction.              *)
(***************************************************************************)
EXTENDS OutboundDelivery, FiniteSetTheorems, TLAPS

\* The lease columns of a leaf and the row of its last attempt agree.
LeafShape ==
    \A i \in Ids :
        /\ outbox[i].status = "leased" <=> outbox[i].attempt = "started"
        /\ outbox[i].status = "leased" => outbox[i].token = outbox[i].allocated
        /\ outbox[i].status # "absent" => outbox[i].run \in Runs

\* A worker that holds a claim holds an attempt number that was allocated.
HoldsOld ==
    \A w \in Workers :
        worker[w].pc \in Holding =>
            /\ worker[w].leaf \in Ids
            /\ outbox[worker[w].leaf].status # "absent"
            /\ worker[w].no <= outbox[worker[w].leaf].allocated

\* Before the request boundary nothing can have been sent.
Unsent ==
    \A i \in Ids :
        (outbox[i].status = "leased" /\ ~outbox[i].requested) => accepted[i] = 0

\* What a worker knows of the copy its request made.
InFlight ==
    \A w \in Workers :
        /\ (/\ worker[w].pc \in {"claimed", "checked"}
            /\ outbox[worker[w].leaf].allocated = worker[w].no
            /\ outbox[worker[w].leaf].status = "leased") =>
              ~outbox[worker[w].leaf].requested
        /\ worker[w].pc \in {"sending", "accepted"} =>
              /\ outbox[worker[w].leaf].allocated = worker[w].no
              /\ outbox[worker[w].leaf].requested
              /\ outbox[worker[w].leaf].status \in {"leased", "ambiguous"}
              /\ accepted[worker[w].leaf] = IF worker[w].pc = "sending"
                                            THEN 0 ELSE 1
        /\ (worker[w].pc = "answered" /\ worker[w].result = "success") =>
              accepted[worker[w].leaf] = 1
        /\ (/\ worker[w].pc = "answered"
            /\ worker[w].result \notin {"success", "ambiguous"}
            /\ outbox[worker[w].leaf].allocated = worker[w].no
            /\ outbox[worker[w].leaf].status = "leased") =>
              accepted[worker[w].leaf] = 0

\* Only proactive runs are ever cleared, and a closed epoch stays quiet.
Closed ==
    /\ \A r \in Runs : run[r].cleared => r \in Proactive
    /\ mode = "legacy_direct" => ~UnsafeForTransition

IInv ==
    /\ TypeOK
    /\ LeafShape
    /\ HoldsOld
    /\ LeaseHasOneHolder
    /\ CopiesMatchStatus
    /\ Unsent
    /\ InFlight
    /\ RunMirrorsLeaf
    /\ Closed

-----------------------------------------------------------------------------
\* The rows the transactions write, field by field.
LEMMA ReleasedRow ==
    ASSUME NEW o \in Outbox, NEW s \in OutboxStatus, NEW a \in AttemptStatus,
           NEW n \in Nat
    PROVE  /\ Released(o, s, a, n) \in Outbox
           /\ Released(o, s, a, n).run = o.run
           /\ Released(o, s, a, n).seq = o.seq
           /\ Released(o, s, a, n).status = s
           /\ Released(o, s, a, n).attempt = a
           /\ Released(o, s, a, n).allocated = o.allocated
           /\ Released(o, s, a, n).requested = o.requested
  BY DEF Released, Outbox

\* A claim advances the attempt number and makes it the lease token.
LEMMA LeasedRow ==
    ASSUME NEW o \in Outbox, NEW at \in Nat
    PROVE  /\ Leased(o, at) \in Outbox
           /\ Leased(o, at).run = o.run
           /\ Leased(o, at).status = "leased"
           /\ Leased(o, at).attempt = "started"
           /\ Leased(o, at).allocated = o.allocated + 1
           /\ Leased(o, at).token = o.allocated + 1
           /\ ~Leased(o, at).requested
  BY BoundAssumption DEF Leased, Outbox, OutboxStatus, AttemptStatus

\* The request boundary changes the mark and the budget only.
LEMMA RequestedRow ==
    ASSUME NEW o \in Outbox
    PROVE  /\ Requested(o) \in Outbox
           /\ Requested(o).run = o.run
           /\ Requested(o).status = o.status
           /\ Requested(o).attempt = o.attempt
           /\ Requested(o).allocated = o.allocated
           /\ Requested(o).token = o.token
           /\ Requested(o).requested
  BY DEF Requested, Outbox

\* The run row keeps its leaf and its clear mark.
LEMMA RunSetRow ==
    ASSUME NEW u \in Run, NEW s \in RunStatus, NEW p \in SourceStatus
    PROVE  /\ RunSet(u, s, p) \in Run
           /\ RunSet(u, s, p).status = s
           /\ RunSet(u, s, p).active = u.active
           /\ RunSet(u, s, p).cleared = u.cleared
           /\ RunSet(u, s, p).bound = u.bound
  BY DEF RunSet, Run

\* What a worker remembers at each point of its cycle.
LEMMA WorkerRows ==
    ASSUME NEW v \in Worker, NEW at \in Nat, NEW i \in Nat, NEW n \in Nat,
           NEW c \in Categories, NEW t \in Nat
    PROVE  /\ Idle \in Worker /\ Idle.pc = "idle"
           /\ \A p \in {"begun", "expired", "claimed", "checked", "sending",
                        "accepted"} :
                 /\ At(p, at, i, n) \in Worker
                 /\ At(p, at, i, n).pc = p
                 /\ At(p, at, i, n).leaf = i
                 /\ At(p, at, i, n).no = n
           /\ Answered(v, at, c, t) \in Worker
           /\ Answered(v, at, c, t).pc = "answered"
           /\ Answered(v, at, c, t).leaf = v.leaf
           /\ Answered(v, at, c, t).no = v.no
           /\ Answered(v, at, c, t).result = c
           /\ Retried(v) \in Worker
           /\ Retried(v).pc = v.pc
           /\ Retried(v).leaf = v.leaf
           /\ Retried(v).no = v.no
           /\ Retried(v).result = v.result
  BY DEF Idle, At, Answered, Retried, Worker, Categories

\* Lease expiry calls a lease ambiguous exactly when its request had started.
LEMMA AmbiguousMeansRequested ==
    ASSUME IInv, NEW i \in Ids, outbox[i].status = "leased"
    PROVE  LeaseIsAmbiguous(i) <=> outbox[i].requested
  BY DEF IInv, TypeOK, Outbox, LeafShape, RunMirrorsLeaf, Mirrors, IsActive,
         LeaseIsAmbiguous

-----------------------------------------------------------------------------
\* A cycle begins.
LEMMA BeginCycleKeeps ==
    ASSUME IInv, NEW w \in Workers, BeginCycle(w)
    PROVE  IInv'
<1>t. TypeOK'
  BY BoundAssumption
  DEF IInv, BeginCycle, TypeOK, Worker, Categories, Idle, At, Answered, Retried
<1>w. LeafShape' /\ CopiesMatchStatus' /\ Unsent' /\ RunMirrorsLeaf' /\ Closed'
  BY
  DEF IInv, BeginCycle, LeafShape, CopiesMatchStatus, Unsent, RunMirrorsLeaf,
      IsActive,
         Closed, UnsafeForTransition
<1>h. HoldsOld' /\ LeaseHasOneHolder'
  BY
  DEF IInv, BeginCycle, TypeOK, Worker, HoldsOld, LeaseHasOneHolder, Holding,
      Idle, At, Answered, Retried
<1>f. InFlight'
  BY
  DEF IInv, BeginCycle, TypeOK, Worker, InFlight, HoldsOld, Holding, Idle, At,
      Answered, Retried, CopiesMatchStatus, Unsent
<1> QED
  BY <1>t, <1>w, <1>h, <1>f DEF IInv

\* The first check of the source passes.
LEMMA PreflightPassesKeeps ==
    ASSUME IInv, NEW w \in Workers, PreflightPasses(w)
    PROVE  IInv'
<1>t. TypeOK'
  BY BoundAssumption
  DEF IInv, PreflightPasses, TypeOK, Worker, Categories, Idle, At, Answered,
      Retried
<1>w. LeafShape' /\ CopiesMatchStatus' /\ Unsent' /\ RunMirrorsLeaf' /\ Closed'
  BY
  DEF IInv, PreflightPasses, LeafShape, CopiesMatchStatus, Unsent,
      RunMirrorsLeaf, IsActive,
         Closed, UnsafeForTransition
<1>h. HoldsOld' /\ LeaseHasOneHolder'
  BY
  DEF IInv, PreflightPasses, TypeOK, Worker, HoldsOld, LeaseHasOneHolder,
      Holding, Idle, At, Answered, Retried
<1>f. InFlight'
  BY
  DEF IInv, PreflightPasses, TypeOK, Worker, InFlight, HoldsOld, Holding, Idle,
      At, Answered, Retried, CopiesMatchStatus, Unsent
<1> QED
  BY <1>t, <1>w, <1>h, <1>f DEF IInv

\* A payload that cannot be decoded is answered without a request.
LEMMA PreflightMalformedKeeps ==
    ASSUME IInv, NEW w \in Workers, PreflightMalformed(w)
    PROVE  IInv'
<1>t. TypeOK'
  BY BoundAssumption
  DEF IInv, PreflightMalformed, TypeOK, Worker, Categories, Idle, At, Answered,
      Retried
<1>w. LeafShape' /\ CopiesMatchStatus' /\ Unsent' /\ RunMirrorsLeaf' /\ Closed'
  BY
  DEF IInv, PreflightMalformed, LeafShape, CopiesMatchStatus, Unsent,
      RunMirrorsLeaf, IsActive,
         Closed, UnsafeForTransition
<1>h. HoldsOld' /\ LeaseHasOneHolder'
  BY
  DEF IInv, PreflightMalformed, TypeOK, Worker, HoldsOld, LeaseHasOneHolder,
      Holding, Idle, At, Answered, Retried
<1>f. InFlight'
  BY
  DEF IInv, PreflightMalformed, TypeOK, Worker, InFlight, HoldsOld, Holding,
      Idle, At, Answered, Retried, CopiesMatchStatus, Unsent
<1> QED
  BY <1>t, <1>w, <1>h, <1>f DEF IInv

\* A refused transaction leaves the lease to run out.
LEMMA RefusedBeforeSendKeeps ==
    ASSUME IInv, NEW w \in Workers, RefusedBeforeSend(w)
    PROVE  IInv'
<1>t. TypeOK'
  BY BoundAssumption
  DEF IInv, RefusedBeforeSend, TypeOK, Worker, Categories, Idle, At, Answered,
      Retried
<1>w. LeafShape' /\ CopiesMatchStatus' /\ Unsent' /\ RunMirrorsLeaf' /\ Closed'
  BY
  DEF IInv, RefusedBeforeSend, LeafShape, CopiesMatchStatus, Unsent,
      RunMirrorsLeaf, IsActive,
         Closed, UnsafeForTransition
<1>h. HoldsOld' /\ LeaseHasOneHolder'
  BY
  DEF IInv, RefusedBeforeSend, TypeOK, Worker, HoldsOld, LeaseHasOneHolder,
      Holding, Idle, At, Answered, Retried
<1>f. InFlight'
  BY
  DEF IInv, RefusedBeforeSend, TypeOK, Worker, InFlight, HoldsOld, Holding,
      Idle, At, Answered, Retried, CopiesMatchStatus, Unsent
<1> QED
  BY <1>t, <1>w, <1>h, <1>f DEF IInv

\* The answer to a taken message arrives or is lost.
LEMMA AnswerAfterAcceptKeeps ==
    ASSUME IInv, NEW w \in Workers, AnswerAfterAccept(w)
    PROVE  IInv'
<1>t. TypeOK'
  BY BoundAssumption
  DEF IInv, AnswerAfterAccept, TypeOK, Worker, Categories, Idle, At, Answered,
      Retried
<1>w. LeafShape' /\ CopiesMatchStatus' /\ Unsent' /\ RunMirrorsLeaf' /\ Closed'
  BY
  DEF IInv, AnswerAfterAccept, LeafShape, CopiesMatchStatus, Unsent,
      RunMirrorsLeaf, IsActive,
         Closed, UnsafeForTransition
<1>h. HoldsOld' /\ LeaseHasOneHolder'
  BY
  DEF IInv, AnswerAfterAccept, TypeOK, Worker, HoldsOld, LeaseHasOneHolder,
      Holding, Idle, At, Answered, Retried
<1>f. InFlight'
  BY
  DEF IInv, AnswerAfterAccept, TypeOK, Worker, InFlight, HoldsOld, Holding,
      Idle, At, Answered, Retried, CopiesMatchStatus, Unsent
<1> QED
  BY <1>t, <1>w, <1>h, <1>f DEF IInv

\* The gateway refuses, or its answer is lost.
LEMMA AnswerRefusedKeeps ==
    ASSUME IInv, NEW w \in Workers, AnswerRefused(w)
    PROVE  IInv'
<1>t. TypeOK'
  BY BoundAssumption
  DEF IInv, AnswerRefused, TypeOK, Worker, Categories, Idle, At, Answered,
      Retried
<1>w. LeafShape' /\ CopiesMatchStatus' /\ Unsent' /\ RunMirrorsLeaf' /\ Closed'
  BY
  DEF IInv, AnswerRefused, LeafShape, CopiesMatchStatus, Unsent,
      RunMirrorsLeaf, IsActive,
         Closed, UnsafeForTransition
<1>h. HoldsOld' /\ LeaseHasOneHolder'
  BY
  DEF IInv, AnswerRefused, TypeOK, Worker, HoldsOld, LeaseHasOneHolder,
      Holding, Idle, At, Answered, Retried
<1>f. InFlight'
  BY
  DEF IInv, AnswerRefused, TypeOK, Worker, InFlight, HoldsOld, Holding, Idle,
      At, Answered, Retried, CopiesMatchStatus, Unsent
<1> QED
  BY <1>t, <1>w, <1>h, <1>f DEF IInv

\* The gateway cannot take the message now.
LEMMA AnswerTransientKeeps ==
    ASSUME IInv, NEW w \in Workers, AnswerTransient(w)
    PROVE  IInv'
<1>t. TypeOK'
  BY BoundAssumption
  DEF IInv, AnswerTransient, TypeOK, Worker, Categories, Idle, At, Answered,
      Retried
<1>w. LeafShape' /\ CopiesMatchStatus' /\ Unsent' /\ RunMirrorsLeaf' /\ Closed'
  BY
  DEF IInv, AnswerTransient, LeafShape, CopiesMatchStatus, Unsent,
      RunMirrorsLeaf, IsActive,
         Closed, UnsafeForTransition
<1>h. HoldsOld' /\ LeaseHasOneHolder'
  BY
  DEF IInv, AnswerTransient, TypeOK, Worker, HoldsOld, LeaseHasOneHolder,
      Holding, Idle, At, Answered, Retried
<1>f. InFlight'
  BY
  DEF IInv, AnswerTransient, TypeOK, Worker, InFlight, HoldsOld, Holding, Idle,
      At, Answered, Retried, CopiesMatchStatus, Unsent
<1> QED
  BY <1>t, <1>w, <1>h, <1>f DEF IInv

\* A settlement of a settled attempt writes nothing.
LEMMA SettleAgainKeeps ==
    ASSUME IInv, NEW w \in Workers, SettleAgain(w)
    PROVE  IInv'
<1>t. TypeOK'
  BY BoundAssumption
  DEF IInv, SettleAgain, TypeOK, Worker, Categories, Idle, At, Answered,
      Retried
<1>w. LeafShape' /\ CopiesMatchStatus' /\ Unsent' /\ RunMirrorsLeaf' /\ Closed'
  BY
  DEF IInv, SettleAgain, LeafShape, CopiesMatchStatus, Unsent, RunMirrorsLeaf,
      IsActive,
         Closed, UnsafeForTransition
<1>h. HoldsOld' /\ LeaseHasOneHolder'
  BY
  DEF IInv, SettleAgain, TypeOK, Worker, HoldsOld, LeaseHasOneHolder, Holding,
      Idle, At, Answered, Retried
<1>f. InFlight'
  BY
  DEF IInv, SettleAgain, TypeOK, Worker, InFlight, HoldsOld, Holding, Idle, At,
      Answered, Retried, CopiesMatchStatus, Unsent
<1> QED
  BY <1>t, <1>w, <1>h, <1>f DEF IInv

\* A settlement without a live lease, or on a changed source, writes nothing.
LEMMA SettleFencedKeeps ==
    ASSUME IInv, NEW w \in Workers, SettleFenced(w)
    PROVE  IInv'
<1>t. TypeOK'
  BY BoundAssumption
  DEF IInv, SettleFenced, TypeOK, Worker, Categories, Idle, At, Answered,
      Retried
<1>w. LeafShape' /\ CopiesMatchStatus' /\ Unsent' /\ RunMirrorsLeaf' /\ Closed'
  BY
  DEF IInv, SettleFenced, LeafShape, CopiesMatchStatus, Unsent, RunMirrorsLeaf,
      IsActive,
         Closed, UnsafeForTransition
<1>h. HoldsOld' /\ LeaseHasOneHolder'
  BY
  DEF IInv, SettleFenced, TypeOK, Worker, HoldsOld, LeaseHasOneHolder, Holding,
      Idle, At, Answered, Retried
<1>f. InFlight'
  BY
  DEF IInv, SettleFenced, TypeOK, Worker, InFlight, HoldsOld, Holding, Idle,
      At, Answered, Retried, CopiesMatchStatus, Unsent
<1> QED
  BY <1>t, <1>w, <1>h, <1>f DEF IInv

\* A pass whose expiry raises writes nothing.
LEMMA ExpiryFencedKeeps ==
    ASSUME IInv, NEW w \in Workers, ExpiryFenced(w)
    PROVE  IInv'
<1>t. TypeOK'
  BY BoundAssumption
  DEF IInv, ExpiryFenced, TypeOK, Worker, Categories, Idle, At, Answered,
      Retried
<1>w. LeafShape' /\ CopiesMatchStatus' /\ Unsent' /\ RunMirrorsLeaf' /\ Closed'
  BY
  DEF IInv, ExpiryFenced, LeafShape, CopiesMatchStatus, Unsent, RunMirrorsLeaf,
      IsActive,
         Closed, UnsafeForTransition
<1>h. HoldsOld' /\ LeaseHasOneHolder'
  BY
  DEF IInv, ExpiryFenced, TypeOK, Worker, HoldsOld, LeaseHasOneHolder, Holding,
      Idle, At, Answered, Retried
<1>f. InFlight'
  BY
  DEF IInv, ExpiryFenced, TypeOK, Worker, InFlight, HoldsOld, Holding, Idle,
      At, Answered, Retried, CopiesMatchStatus, Unsent
<1> QED
  BY <1>t, <1>w, <1>h, <1>f DEF IInv

\* Nor does a claim that raises.
LEMMA ClaimFencedKeeps ==
    ASSUME IInv, NEW w \in Workers, ClaimFenced(w)
    PROVE  IInv'
<1>t. TypeOK'
  BY BoundAssumption
  DEF IInv, ClaimFenced, TypeOK, Worker, Categories, Idle, At, Answered,
      Retried
<1>w. LeafShape' /\ CopiesMatchStatus' /\ Unsent' /\ RunMirrorsLeaf' /\ Closed'
  BY
  DEF IInv, ClaimFenced, LeafShape, CopiesMatchStatus, Unsent, RunMirrorsLeaf,
      IsActive,
         Closed, UnsafeForTransition
<1>h. HoldsOld' /\ LeaseHasOneHolder'
  BY
  DEF IInv, ClaimFenced, TypeOK, Worker, HoldsOld, LeaseHasOneHolder, Holding,
      Idle, At, Answered, Retried
<1>f. InFlight'
  BY
  DEF IInv, ClaimFenced, TypeOK, Worker, InFlight, HoldsOld, Holding, Idle,
      At, Answered, Retried, CopiesMatchStatus, Unsent
<1> QED
  BY <1>t, <1>w, <1>h, <1>f DEF IInv

\* A settlement the database refuses writes nothing.
LEMMA SettleFailsKeeps ==
    ASSUME IInv, NEW w \in Workers, SettleFails(w)
    PROVE  IInv'
<1>t. TypeOK'
  BY BoundAssumption
  DEF IInv, SettleFails, TypeOK, Worker, Categories, Idle, At, Answered,
      Retried
<1>w. LeafShape' /\ CopiesMatchStatus' /\ Unsent' /\ RunMirrorsLeaf' /\ Closed'
  BY
  DEF IInv, SettleFails, LeafShape, CopiesMatchStatus, Unsent, RunMirrorsLeaf,
      IsActive,
         Closed, UnsafeForTransition
<1>h. HoldsOld' /\ LeaseHasOneHolder'
  BY
  DEF IInv, SettleFails, TypeOK, Worker, HoldsOld, LeaseHasOneHolder, Holding,
      Idle, At, Answered, Retried
<1>f. InFlight'
  BY
  DEF IInv, SettleFails, TypeOK, Worker, InFlight, HoldsOld, Holding, Idle, At,
      Answered, Retried, CopiesMatchStatus, Unsent
<1> QED
  BY <1>t, <1>w, <1>h, <1>f DEF IInv

\* A crash forgets what the worker knew, and nothing else.
LEMMA CrashKeeps ==
    ASSUME IInv, NEW w \in Workers, Crash(w)
    PROVE  IInv'
<1>t. TypeOK'
  BY BoundAssumption
  DEF IInv, Crash, TypeOK, Worker, Categories, Idle, At, Answered, Retried
<1>w. LeafShape' /\ CopiesMatchStatus' /\ Unsent' /\ RunMirrorsLeaf' /\ Closed'
  BY
  DEF IInv, Crash, LeafShape, CopiesMatchStatus, Unsent, RunMirrorsLeaf,
      IsActive,
         Closed, UnsafeForTransition
<1>h. HoldsOld' /\ LeaseHasOneHolder'
  BY
  DEF IInv, Crash, TypeOK, Worker, HoldsOld, LeaseHasOneHolder, Holding, Idle,
      At, Answered, Retried
<1>f. InFlight'
  BY
  DEF IInv, Crash, TypeOK, Worker, InFlight, HoldsOld, Holding, Idle, At,
      Answered, Retried, CopiesMatchStatus, Unsent
<1> QED
  BY <1>t, <1>w, <1>h, <1>f DEF IInv

\* A worker that holds the live lease gives it back: the settlements and the
\* cancellations before the request are all of this form.
GivesBack(w, s, a, n, t, p) ==
    /\ w \in Workers
    /\ worker[w].pc \in {"claimed", "checked", "answered"}
    /\ Live(w)
    /\ s \in {"delivered", "failed", "cancelled", "ambiguous", "retry_wait"}
    /\ a \in AttemptStatus \ {"started"}
    /\ n \in Nat
    /\ t \in RunStatus
    /\ p \in SourceStatus
    /\ Mirrors(s, t)
    /\ s = "delivered" => accepted[worker[w].leaf] = 1
    /\ s \in {"failed", "cancelled", "retry_wait"}
          => accepted[worker[w].leaf] = 0
    /\ outbox' = [outbox EXCEPT ![worker[w].leaf] = Released(@, s, a, n)]
    /\ run' = [run EXCEPT ![outbox[worker[w].leaf].run] = RunSet(@, t, p)]
    /\ \/ worker' = [worker EXCEPT ![w] = Idle]
       \/ worker' = [worker EXCEPT ![w] = Retried(@)]
    /\ circuit' \subseteq Scopes
    /\ faults' \in Nat
    /\ UNCHANGED <<clock, mode, accepted>>

\* Giving a live lease back keeps the invariant.
LEMMA GiveBack ==
    ASSUME IInv, NEW w, NEW s, NEW a, NEW n, NEW t, NEW p,
           GivesBack(w, s, a, n, t, p)
    PROVE  IInv'
<1> USE DEF GivesBack
<1> DEFINE i == worker[w].leaf
           q == outbox[i].run
<1>1. /\ i \in Ids /\ q \in Runs /\ run[q].active = i
      /\ outbox[i] \in Outbox /\ outbox[i].status = "leased"
      /\ outbox[i].allocated = worker[w].no
      /\ mode # "legacy_direct"
  BY DEF IInv, TypeOK, HoldsOld, Holding, Live, IsActive, ControlAllows
<1>0. s \in OutboxStatus /\ a \in AttemptStatus
  BY DEF OutboxStatus, Safe, FinalOutbox
<1>2. /\ outbox' = [outbox EXCEPT ![i] = Released(outbox[i], s, a, n)]
      /\ Released(outbox[i], s, a, n) \in Outbox
      /\ Released(outbox[i], s, a, n).run = q
      /\ Released(outbox[i], s, a, n).status = s
      /\ Released(outbox[i], s, a, n).attempt = a
      /\ Released(outbox[i], s, a, n).allocated = outbox[i].allocated
      /\ Released(outbox[i], s, a, n).requested = outbox[i].requested
  BY <1>0, <1>1, ReleasedRow
<1>3. /\ run' = [run EXCEPT ![q] = RunSet(run[q], t, p)]
      /\ RunSet(run[q], t, p) \in Run
      /\ RunSet(run[q], t, p).status = t
      /\ RunSet(run[q], t, p).active = i
      /\ RunSet(run[q], t, p).cleared = run[q].cleared
  BY <1>1, RunSetRow DEF IInv, TypeOK
<1>4. /\ worker[w] \in Worker
      /\ Idle \in Worker /\ Idle.pc = "idle"
      /\ Retried(worker[w]) \in Worker
      /\ Retried(worker[w]).pc = worker[w].pc
      /\ Retried(worker[w]).leaf = i
      /\ Retried(worker[w]).no = worker[w].no
      /\ Retried(worker[w]).result = worker[w].result
  BY WorkerRows DEF IInv, TypeOK, Categories
<1> HIDE DEF i, q
<1>a. TypeOK'
  BY <1>1, <1>2, <1>3, <1>4 DEF IInv, TypeOK
<1>b. LeafShape'
  BY <1>1, <1>2 DEF IInv, TypeOK, LeafShape
<1>c. HoldsOld' /\ LeaseHasOneHolder'
  BY <1>1, <1>2, <1>4
  DEF IInv, TypeOK, HoldsOld, LeaseHasOneHolder, Holding, i
<1>d. CopiesMatchStatus' /\ Unsent'
  BY <1>1, <1>2
  DEF IInv, TypeOK, CopiesMatchStatus, Unsent, Safe, i
<1>e. InFlight'
  <2> SUFFICES ASSUME NEW v \in Workers
               PROVE  InFlight!(v)'
    BY DEF InFlight
  <2>1. CASE v = w
    BY <2>1, <1>1, <1>2, <1>4 DEF IInv, TypeOK, InFlight, i
  <2>2. CASE v # w
    <3>1. worker'[v] = worker[v]
      BY <2>2 DEF IInv, TypeOK
    <3>2. CASE worker[v].leaf # i
      BY <3>1, <3>2, <1>1, <1>2 DEF IInv, TypeOK, InFlight, HoldsOld, Holding
    <3>3. CASE worker[v].leaf = i
      BY <3>1, <3>3, <2>2, <1>1, <1>2
      DEF IInv, TypeOK, InFlight, HoldsOld, LeaseHasOneHolder, Holding, i
    <3> QED
      BY <3>2, <3>3
  <2> QED
    BY <2>1, <2>2
<1>f. RunMirrorsLeaf'
  <2>1. ASSUME NEW r \in Runs
        PROVE  /\ outbox'[run'[r].active].run = r
               /\ Mirrors(outbox'[run'[r].active].status, run'[r].status)
    <3>1. CASE r = q
      BY <3>1, <1>1, <1>2, <1>3 DEF IInv, TypeOK
    <3>2. CASE r # q
      <4>1. run'[r] = run[r] /\ run[r].active \in Ids /\ run[r].active # i
        BY <3>2, <1>1, <1>3 DEF IInv, TypeOK, Run, RunMirrorsLeaf, q
      <4> QED
        BY <4>1, <1>1, <1>2 DEF IInv, TypeOK, RunMirrorsLeaf
    <3> QED
      BY <3>1, <3>2
  <2>2. ASSUME NEW j \in Ids, outbox'[j].status \in Safe \cup {"leased"}
        PROVE  /\ outbox'[j].run \in Runs
               /\ run'[outbox'[j].run].active = j
    <3>1. CASE j = i
      BY <3>1, <1>1, <1>2, <1>3 DEF IInv, TypeOK
    <3>2. CASE j # i
      BY <3>2, <2>2, <1>1, <1>2, <1>3
      DEF IInv, TypeOK, RunMirrorsLeaf, IsActive
    <3> QED
      BY <3>1, <3>2
  <2> QED
    BY <2>1, <2>2 DEF RunMirrorsLeaf, IsActive
<1>g. Closed'
  BY <1>1, <1>3 DEF IInv, TypeOK, Closed
<1> QED
  BY <1>a, <1>b, <1>c, <1>d, <1>e, <1>f, <1>g DEF IInv

\* The preflight cancels a leaf whose source is withdrawn.
LEMMA PreflightCancelsKeeps ==
    ASSUME IInv, NEW w \in Workers, PreflightCancels(w)
    PROVE  IInv'
<1>1. /\ worker[w].pc \in {"claimed", "checked", "answered"} /\ Live(w)
      /\ outbox' = [outbox EXCEPT ![worker[w].leaf] =
                      Released(@, "cancelled", "cancelled_before_send", 0)]
      /\ run' = [run EXCEPT ![outbox[worker[w].leaf].run] =
                   RunSet(@, "failed", "cancelled")]
      /\ worker' = [worker EXCEPT ![w] = Idle]
      /\ UNCHANGED <<clock, mode, circuit, accepted, faults>>
  BY DEF PreflightCancels, CancelBeforeSend
<1>2. worker[w].leaf \in Ids /\ accepted[worker[w].leaf] = 0
  BY
  DEF PreflightCancels, IInv, TypeOK, HoldsOld, Holding, InFlight, Unsent, Live
<1>3. /\ "cancelled_before_send" \in AttemptStatus \ {"started"}
      /\ "failed" \in RunStatus /\ "cancelled" \in SourceStatus
      /\ Mirrors("cancelled", "failed")
      /\ circuit' \subseteq Scopes /\ faults' \in Nat
  BY <1>1 DEF AttemptStatus, RunStatus, SourceStatus, Mirrors, IInv, TypeOK
<1>8. GivesBack(w, "cancelled", "cancelled_before_send", 0,
                "failed", "cancelled")
  BY <1>1, <1>2, <1>3 DEF GivesBack
<1> QED
  BY <1>8, GiveBack

\* The recheck before the request cancels a leaf whose source is withdrawn.
LEMMA StartCancelsKeeps ==
    ASSUME IInv, NEW w \in Workers, StartCancels(w)
    PROVE  IInv'
<1>1. /\ worker[w].pc \in {"claimed", "checked", "answered"} /\ Live(w)
      /\ outbox' = [outbox EXCEPT ![worker[w].leaf] =
                      Released(@, "cancelled", "cancelled_before_send", 0)]
      /\ run' = [run EXCEPT ![outbox[worker[w].leaf].run] =
                   RunSet(@, "failed", "cancelled")]
      /\ worker' = [worker EXCEPT ![w] = Idle]
      /\ UNCHANGED <<clock, mode, circuit, accepted, faults>>
  BY DEF StartCancels, CancelBeforeSend
<1>2. worker[w].leaf \in Ids /\ accepted[worker[w].leaf] = 0
  BY DEF StartCancels, IInv, TypeOK, HoldsOld, Holding, InFlight, Unsent, Live
<1>3. /\ "cancelled_before_send" \in AttemptStatus \ {"started"}
      /\ "failed" \in RunStatus /\ "cancelled" \in SourceStatus
      /\ Mirrors("cancelled", "failed")
      /\ circuit' \subseteq Scopes /\ faults' \in Nat
  BY <1>1 DEF AttemptStatus, RunStatus, SourceStatus, Mirrors, IInv, TypeOK
<1>8. GivesBack(w, "cancelled", "cancelled_before_send", 0,
                "failed", "cancelled")
  BY <1>1, <1>2, <1>3 DEF GivesBack
<1> QED
  BY <1>8, GiveBack

\* The gateway's acceptance is recorded.
LEMMA SettleSucceededKeeps ==
    ASSUME IInv, NEW w \in Workers, SettleSucceeded(w)
    PROVE  IInv'
<1> DEFINE u == run[outbox[worker[w].leaf].run]
           t == IF u.ambiguous \/ outbox[worker[w].leaf].seq > 0
                THEN "succeeded_after_ambiguous_replay" ELSE "succeeded"
           p == IF u.ambiguous /\ outbox[worker[w].leaf].run \in Proactive
                THEN "sent_after_ambiguous_replay" ELSE "sent"
<1>1. /\ worker[w].pc = "answered" /\ Live(w)
      /\ outbox' = [outbox EXCEPT ![worker[w].leaf] =
                      Released(@, "delivered", "succeeded", 0)]
      /\ run' = [run EXCEPT ![outbox[worker[w].leaf].run] =
                   RunSet(@, t, p)]
      /\ UNCHANGED circuit
      /\ Acknowledged(w)
      /\ UNCHANGED <<clock, mode, accepted>>
  BY DEF SettleSucceeded, Settle
<1>2. /\ \/ worker' = [worker EXCEPT ![w] = Idle]
         \/ worker' = [worker EXCEPT ![w] = Retried(@)]
      /\ faults' \in Nat
  BY <1>1 DEF Acknowledged, IInv, TypeOK
<1>3. worker[w].leaf \in Ids /\ worker[w].retry \in Nat
  BY <1>1 DEF IInv, TypeOK, Worker, HoldsOld, Holding
<1>4. accepted[worker[w].leaf] = 1
  BY <1>1, <1>3
  DEF SettleSucceeded, Settle, AttemptSettled, IInv, InFlight, Live
<1>5. circuit' \subseteq Scopes
  BY <1>1 DEF IInv, TypeOK
<1>6. /\ "succeeded" \in AttemptStatus \ {"started"}
      /\ t \in RunStatus /\ p \in SourceStatus
  BY DEF AttemptStatus, RunStatus, SourceStatus
<1>7. Mirrors("delivered", t)
  BY DEF Mirrors
<1> HIDE DEF t, p, u
<1>8. GivesBack(w, "delivered", "succeeded", 0, t, p)
  BY <1>1, <1>2, <1>3, <1>5, <1>6, <1>7, <1>4 DEF GivesBack
<1> QED
  BY <1>8, GiveBack

\* An unknown outcome is recorded.
LEMMA SettleAmbiguousKeeps ==
    ASSUME IInv, NEW w \in Workers, SettleAmbiguous(w)
    PROVE  IInv'
<1>1. /\ worker[w].pc = "answered" /\ Live(w)
      /\ outbox' = [outbox EXCEPT ![worker[w].leaf] =
                      Released(@, "ambiguous", "ambiguous", 0)]
      /\ run' = [run EXCEPT ![outbox[worker[w].leaf].run] =
                   RunSet(@, "ambiguous", "ambiguous")]
      /\ UNCHANGED circuit
      /\ Acknowledged(w)
      /\ UNCHANGED <<clock, mode, accepted>>
  BY DEF SettleAmbiguous, Settle
<1>2. /\ \/ worker' = [worker EXCEPT ![w] = Idle]
         \/ worker' = [worker EXCEPT ![w] = Retried(@)]
      /\ faults' \in Nat
  BY <1>1 DEF Acknowledged, IInv, TypeOK
<1>3. worker[w].leaf \in Ids /\ worker[w].retry \in Nat
  BY <1>1 DEF IInv, TypeOK, Worker, HoldsOld, Holding
<1>5. circuit' \subseteq Scopes
  BY <1>1 DEF IInv, TypeOK
<1>6. /\ "ambiguous" \in AttemptStatus \ {"started"}
      /\ "ambiguous" \in RunStatus /\ "ambiguous" \in SourceStatus
  BY DEF AttemptStatus, RunStatus, SourceStatus
<1>7. Mirrors("ambiguous", "ambiguous")
  BY DEF Mirrors
<1>8. GivesBack(w, "ambiguous", "ambiguous", 0, "ambiguous", "ambiguous")
  BY <1>1, <1>2, <1>3, <1>5, <1>6, <1>7 DEF GivesBack
<1> QED
  BY <1>8, GiveBack

\* A refused payload fails its leaf.
LEMMA SettlePayloadKeeps ==
    ASSUME IInv, NEW w \in Workers, SettlePayload(w)
    PROVE  IInv'
<1>1. /\ worker[w].pc = "answered" /\ Live(w)
      /\ outbox' = [outbox EXCEPT ![worker[w].leaf] =
                      Released(@, "failed", "permanent_failure", 0)]
      /\ run' = [run EXCEPT ![outbox[worker[w].leaf].run] =
                   RunSet(@, "failed", "failed")]
      /\ UNCHANGED circuit
      /\ Acknowledged(w)
      /\ UNCHANGED <<clock, mode, accepted>>
  BY DEF SettlePayload, Settle
<1>2. /\ \/ worker' = [worker EXCEPT ![w] = Idle]
         \/ worker' = [worker EXCEPT ![w] = Retried(@)]
      /\ faults' \in Nat
  BY <1>1 DEF Acknowledged, IInv, TypeOK
<1>3. worker[w].leaf \in Ids /\ worker[w].retry \in Nat
  BY <1>1 DEF IInv, TypeOK, Worker, HoldsOld, Holding
<1>4. accepted[worker[w].leaf] = 0
  BY <1>1, <1>3 DEF SettlePayload, Settle, AttemptSettled, IInv, InFlight, Live
<1>5. circuit' \subseteq Scopes
  BY <1>1 DEF IInv, TypeOK
<1>6. /\ "permanent_failure" \in AttemptStatus \ {"started"}
      /\ "failed" \in RunStatus /\ "failed" \in SourceStatus
  BY DEF AttemptStatus, RunStatus, SourceStatus
<1>7. Mirrors("failed", "failed")
  BY DEF Mirrors
<1>8. GivesBack(w, "failed", "permanent_failure", 0, "failed", "failed")
  BY <1>1, <1>2, <1>3, <1>5, <1>6, <1>7, <1>4 DEF GivesBack
<1> QED
  BY <1>8, GiveBack

\* A refusal that opens a circuit fails the leaf and blocks the run.
LEMMA SettleStableKeeps ==
    ASSUME IInv, NEW w \in Workers, SettleStable(w)
    PROVE  IInv'
<1>1. /\ worker[w].pc = "answered" /\ Live(w)
      /\ outbox' = [outbox EXCEPT ![worker[w].leaf] =
                      Released(@, "failed", "permanent_failure", 0)]
      /\ run' = [run EXCEPT ![outbox[worker[w].leaf].run] =
                   RunSet(@, "blocked", "blocked")]
      /\ circuit' = circuit \cup {ScopeOf(w)}
      /\ Acknowledged(w)
      /\ UNCHANGED <<clock, mode, accepted>>
  BY DEF SettleStable, Settle
<1>2. /\ \/ worker' = [worker EXCEPT ![w] = Idle]
         \/ worker' = [worker EXCEPT ![w] = Retried(@)]
      /\ faults' \in Nat
  BY <1>1 DEF Acknowledged, IInv, TypeOK
<1>3. worker[w].leaf \in Ids /\ worker[w].retry \in Nat
  BY <1>1 DEF IInv, TypeOK, Worker, HoldsOld, Holding
<1>4. accepted[worker[w].leaf] = 0
  BY <1>1, <1>3 DEF SettleStable, Settle, AttemptSettled, IInv, InFlight, Live
<1>5. circuit' \subseteq Scopes
  <2>1. outbox[worker[w].leaf].run \in Runs
    BY <1>1, <1>3 DEF IInv, LeafShape, Live
  <2>2. worker[w].result \in {"endpoint", "destination", "payload_contract"}
    BY DEF SettleStable, Settle
  <2> QED
    BY <1>1, <2>1, <2>2 DEF ScopeOf, Scopes, IInv, TypeOK
<1>6. /\ "permanent_failure" \in AttemptStatus \ {"started"}
      /\ "blocked" \in RunStatus /\ "blocked" \in SourceStatus
  BY DEF AttemptStatus, RunStatus, SourceStatus
<1>7. Mirrors("failed", "blocked")
  BY DEF Mirrors
<1>8. GivesBack(w, "failed", "permanent_failure", 0, "blocked", "blocked")
  BY <1>1, <1>2, <1>3, <1>5, <1>6, <1>7, <1>4 DEF GivesBack
<1> QED
  BY <1>8, GiveBack

\* A transient failure puts the leaf back.
LEMMA SettleRetryKeeps ==
    ASSUME IInv, NEW w \in Workers, SettleRetry(w)
    PROVE  IInv'
<1>1. /\ worker[w].pc = "answered" /\ Live(w)
      /\ outbox' = [outbox EXCEPT ![worker[w].leaf] =
                      Released(@, "retry_wait", "transient_failure",
                               worker[w].retry)]
      /\ run' = [run EXCEPT ![outbox[worker[w].leaf].run] =
                   RunSet(@, "queued", "retry_wait")]
      /\ UNCHANGED circuit
      /\ Acknowledged(w)
      /\ UNCHANGED <<clock, mode, accepted>>
  BY DEF SettleRetry, Settle
<1>2. /\ \/ worker' = [worker EXCEPT ![w] = Idle]
         \/ worker' = [worker EXCEPT ![w] = Retried(@)]
      /\ faults' \in Nat
  BY <1>1 DEF Acknowledged, IInv, TypeOK
<1>3. worker[w].leaf \in Ids /\ worker[w].retry \in Nat
  BY <1>1 DEF IInv, TypeOK, Worker, HoldsOld, Holding
<1>4. accepted[worker[w].leaf] = 0
  BY <1>1, <1>3 DEF SettleRetry, Settle, AttemptSettled, IInv, InFlight, Live
<1>5. circuit' \subseteq Scopes
  BY <1>1 DEF IInv, TypeOK
<1>6. /\ "transient_failure" \in AttemptStatus \ {"started"}
      /\ "queued" \in RunStatus /\ "retry_wait" \in SourceStatus
  BY DEF AttemptStatus, RunStatus, SourceStatus
<1>7. Mirrors("retry_wait", "queued")
  BY DEF Mirrors
<1>8. GivesBack(w, "retry_wait", "transient_failure", worker[w].retry,
                "queued", "retry_wait")
  BY <1>1, <1>2, <1>3, <1>5, <1>6, <1>7, <1>4 DEF GivesBack
<1> QED
  BY <1>8, GiveBack

\* A transient failure without budget fails the leaf.
LEMMA SettleExhaustedKeeps ==
    ASSUME IInv, NEW w \in Workers, SettleExhausted(w)
    PROVE  IInv'
<1>1. /\ worker[w].pc = "answered" /\ Live(w)
      /\ outbox' = [outbox EXCEPT ![worker[w].leaf] =
                      Released(@, "failed", "transient_failure", 0)]
      /\ run' = [run EXCEPT ![outbox[worker[w].leaf].run] =
                   RunSet(@, "failed", "failed")]
      /\ UNCHANGED circuit
      /\ Acknowledged(w)
      /\ UNCHANGED <<clock, mode, accepted>>
  BY DEF SettleExhausted, Settle
<1>2. /\ \/ worker' = [worker EXCEPT ![w] = Idle]
         \/ worker' = [worker EXCEPT ![w] = Retried(@)]
      /\ faults' \in Nat
  BY <1>1 DEF Acknowledged, IInv, TypeOK
<1>3. worker[w].leaf \in Ids /\ worker[w].retry \in Nat
  BY <1>1 DEF IInv, TypeOK, Worker, HoldsOld, Holding
<1>4. accepted[worker[w].leaf] = 0
  BY <1>1, <1>3
  DEF SettleExhausted, Settle, AttemptSettled, IInv, InFlight, Live
<1>5. circuit' \subseteq Scopes
  BY <1>1 DEF IInv, TypeOK
<1>6. /\ "transient_failure" \in AttemptStatus \ {"started"}
      /\ "failed" \in RunStatus /\ "failed" \in SourceStatus
  BY DEF AttemptStatus, RunStatus, SourceStatus
<1>7. Mirrors("failed", "failed")
  BY DEF Mirrors
<1>8. GivesBack(w, "failed", "transient_failure", 0, "failed", "failed")
  BY <1>1, <1>2, <1>3, <1>5, <1>6, <1>7, <1>4 DEF GivesBack
<1> QED
  BY <1>8, GiveBack

\* Expiry sends a lease back, or fails it, only where no request was started.
LEMMA ExpireStaleLeasesKeeps ==
    ASSUME IInv, NEW w \in Workers, ExpireStaleLeases(w)
    PROVE  IInv'
<1> DEFINE at == worker[w].now
<1>0. /\ at \in Nat
      /\ outbox' = [i \in Ids |-> IF Stale(i, at) THEN ExpiredOutbox(i, at)
                                                  ELSE outbox[i]]
      /\ run' = [r \in Runs |-> ExpiredRun(r, at)]
      /\ worker' = [worker EXCEPT ![w] = At("expired", at, 0, 0)]
      /\ UNCHANGED <<clock, mode, circuit, accepted, faults>>
  BY DEF ExpireStaleLeases, IInv, TypeOK, Worker
<1>1. /\ worker' \in [Workers -> Worker]
      /\ \A v \in Workers : v # w => worker'[v] = worker[v]
      /\ worker'[w].pc = "expired"
  BY <1>0, WorkerRows DEF IInv, TypeOK, At, Worker
<1> HIDE DEF at
<1>2. ASSUME NEW i \in Ids
      PROVE  /\ outbox'[i] \in Outbox
             /\ outbox'[i].run = outbox[i].run
             /\ outbox'[i].allocated = outbox[i].allocated
             /\ outbox'[i].requested = outbox[i].requested
             /\ ~Stale(i, at) => outbox'[i] = outbox[i]
             /\ Stale(i, at) =>
                   /\ outbox[i].status = "leased"
                   /\ outbox'[i].attempt # "started"
                   /\ LeaseIsAmbiguous(i) => outbox'[i].status = "ambiguous"
                   /\ ~LeaseIsAmbiguous(i) =>
                         outbox'[i].status =
                            IF at >= Deadline THEN "failed" ELSE "pending"
  <2>1. outbox[i] \in Outbox
    BY DEF IInv, TypeOK
  <2>2. CASE ~Stale(i, at)
    BY <2>1, <2>2, <1>0
  <2>3. CASE Stale(i, at) /\ LeaseIsAmbiguous(i)
    <3>1. outbox'[i] = Released(outbox[i], "ambiguous", "ambiguous", 0)
      BY <2>3, <1>0 DEF ExpiredOutbox
    <3>2. "ambiguous" \in OutboxStatus /\ "ambiguous" \in AttemptStatus
      BY DEF OutboxStatus, FinalOutbox, AttemptStatus
    <3> QED
      BY <2>1, <2>3, <3>1, <3>2, ReleasedRow DEF Stale
  <2>4. CASE Stale(i, at) /\ ~LeaseIsAmbiguous(i)
    <3> DEFINE s == IF at >= Deadline THEN "failed" ELSE "pending"
    <3>1. outbox'[i] = Released(outbox[i], s, "abandoned_before_send", 0)
      BY <2>4, <1>0 DEF ExpiredOutbox
    <3>2. s \in OutboxStatus /\ "abandoned_before_send" \in AttemptStatus
      BY DEF OutboxStatus, FinalOutbox, Safe, AttemptStatus
    <3> HIDE DEF s
    <3>3. /\ outbox'[i] \in Outbox
          /\ outbox'[i].run = outbox[i].run
          /\ outbox'[i].allocated = outbox[i].allocated
          /\ outbox'[i].requested = outbox[i].requested
          /\ outbox'[i].status = s
          /\ outbox'[i].attempt = "abandoned_before_send"
      BY <2>1, <3>1, <3>2, ReleasedRow
    <3> QED
      BY <2>4, <3>3 DEF Stale, s
  <2> QED
    BY <2>2, <2>3, <2>4
<1>3. ASSUME NEW i \in Ids, Stale(i, at)
      PROVE  LeaseIsAmbiguous(i) <=> outbox[i].requested
  BY <1>3, AmbiguousMeansRequested DEF Stale
<1>4. ASSUME NEW r \in Runs
      PROVE  /\ run'[r] \in Run
             /\ run'[r].active = run[r].active
             /\ run'[r].cleared = run[r].cleared
             /\ Mirrors(outbox'[run[r].active].status, run'[r].status)
  <2> DEFINE i == run[r].active
  <2>1. run[r] \in Run /\ i \in Ids /\ Mirrors(outbox[i].status, run[r].status)
    BY DEF IInv, TypeOK, Run, RunMirrorsLeaf
  <2>2. run'[r] = ExpiredRun(r, at)
    BY <1>0
  <2>3. CASE ~Stale(i, at)
    BY <2>1, <2>2, <2>3, <1>2 DEF ExpiredRun
  <2>4. CASE Stale(i, at)
    <3> DEFINE t == IF LeaseIsAmbiguous(i) THEN "ambiguous"
                    ELSE IF at >= Deadline THEN "failed" ELSE "queued"
    <3>1. run'[r] = RunSet(run[r], t, t)
      BY <2>2, <2>4 DEF ExpiredRun
    <3>2. t \in RunStatus /\ t \in SourceStatus
      BY DEF RunStatus, SourceStatus
    <3>3. Mirrors(outbox'[i].status, t)
      BY <2>1, <2>4, <1>2 DEF Mirrors
    <3> HIDE DEF t
    <3> QED
      BY <2>1, <3>1, <3>2, <3>3, RunSetRow
  <2> QED
    BY <2>3, <2>4
<1>a. TypeOK'
  <2>1. outbox' \in [Ids -> Outbox]
    BY <1>0, <1>2
  <2>2. run' \in [Runs -> Run]
    BY <1>0, <1>4
  <2> QED
    BY <1>0, <1>1, <2>1, <2>2 DEF IInv, TypeOK
<1>b. LeafShape'
  BY <1>2 DEF IInv, LeafShape
<1>c. HoldsOld' /\ LeaseHasOneHolder'
  BY <1>1, <1>2 DEF IInv, HoldsOld, LeaseHasOneHolder, Holding
<1>d. CopiesMatchStatus' /\ Unsent'
  BY <1>0, <1>2, <1>3 DEF IInv, CopiesMatchStatus, Unsent, Safe
<1>e. InFlight'
  <2> SUFFICES ASSUME NEW v \in Workers
               PROVE  InFlight!(v)'
    BY DEF InFlight
  <2>1. CASE v = w
    BY <2>1, <1>1
  <2>2. CASE v # w
    <3>1. CASE worker[v].pc \in Holding
      <4>1. worker'[v] = worker[v] /\ worker[v].leaf \in Ids
        BY <2>2, <3>1, <1>1 DEF IInv, HoldsOld
      <4> QED
        BY <4>1, <1>0, <1>2, <1>3 DEF IInv, InFlight
    <3>2. CASE worker[v].pc \notin Holding
      BY <2>2, <3>2, <1>1 DEF Holding
    <3> QED
      BY <3>1, <3>2
  <2> QED
    BY <2>1, <2>2
<1>f. RunMirrorsLeaf'
  <2>1. \A r \in Runs : /\ outbox'[run'[r].active].run = r
                        /\ Mirrors(outbox'[run'[r].active].status,
                                   run'[r].status)
    BY <1>2, <1>4 DEF IInv, TypeOK, Run, RunMirrorsLeaf
  <2>2. \A i \in Ids : outbox'[i].status \in Safe \cup {"leased"} =>
            /\ outbox'[i].run \in Runs
            /\ run'[outbox'[i].run].active = i
    BY <1>2, <1>4 DEF IInv, RunMirrorsLeaf, IsActive, Safe
  <2> QED
    BY <2>1, <2>2 DEF RunMirrorsLeaf, IsActive
<1>g. Closed'
  <2>1. \A r \in Runs : run'[r].cleared => r \in Proactive
    BY <1>4 DEF IInv, Closed
  <2>2. mode' = "legacy_direct" => ~UnsafeForTransition'
    BY <1>0, <1>2, <1>4
    DEF IInv, Closed, UnsafeForTransition, IsActive, Stale, LeafShape
  <2> QED
    BY <2>1, <2>2 DEF Closed
<1> QED
  BY <1>a, <1>b, <1>c, <1>d, <1>e, <1>f, <1>g DEF IInv

\* The writes claim_due_outbox makes on its way to candidate c (0: to none).
Claims(at, c) ==
    /\ at \in Nat
    /\ c \in Ids => Claimable(c, at)
    /\ outbox' = [i \in Ids |-> ClaimedOutbox(i, at, c)]
    /\ run' = [r \in Runs |-> ClaimedRun(r, at, c)]
    /\ UNCHANGED <<clock, mode, circuit, accepted, faults>>

\* What those writes do to one leaf: nothing, or the leaf was waiting and is now
\* leased (candidate c) or parked, with its attempts as they were.
Walked(i, c) ==
    /\ outbox'[i] \in Outbox
    /\ outbox'[i].run = outbox[i].run
    /\ i = c =>
          /\ outbox[i].status \in Safe
          /\ ControlAllows
          /\ outbox'[i].status = "leased"
          /\ outbox'[i].attempt = "started"
          /\ outbox'[i].allocated = outbox[i].allocated + 1
          /\ outbox'[i].token = outbox[i].allocated + 1
          /\ ~outbox'[i].requested
    /\ i # c =>
          \/ outbox'[i] = outbox[i]
          \/ /\ outbox[i].status \in Safe
             /\ outbox'[i].status \in {"failed", "blocked"}
             /\ outbox'[i].attempt = outbox[i].attempt
             /\ outbox'[i].allocated = outbox[i].allocated
             /\ outbox'[i].requested = outbox[i].requested

\* Every leaf is walked that way.
LEMMA ClaimedLeaf ==
    ASSUME IInv, NEW at, NEW c, Claims(at, c)
    PROVE  \A i \in Ids : Walked(i, c)
<1> SUFFICES ASSUME NEW i \in Ids
             PROVE  Walked(i, c)
  OBVIOUS
<1>1. /\ outbox[i] \in Outbox /\ at \in Nat
      /\ outbox'[i] = ClaimedOutbox(i, at, c)
      /\ outbox[i].attempt \in AttemptStatus
  BY DEF Claims, IInv, TypeOK, Outbox
<1>2. CASE i = c
  <2>1. Due(i, at)
    BY <1>2 DEF Claims, Claimable
  <2>2. outbox'[i] = Leased(outbox[i], at)
    BY <1>1, <1>2, <2>1, BoundAssumption
    DEF ClaimedOutbox, Exhausted, Due
  <2>3. /\ outbox'[i] \in Outbox
        /\ outbox'[i].run = outbox[i].run
        /\ outbox'[i].status = "leased"
        /\ outbox'[i].attempt = "started"
        /\ outbox'[i].allocated = outbox[i].allocated + 1
        /\ outbox'[i].token = outbox[i].allocated + 1
        /\ ~outbox'[i].requested
    <3>1. outbox[i] \in Outbox /\ at \in Nat
      BY <1>1
    <3> QED
      BY <2>2, <3>1, LeasedRow
  <2> QED
    BY <1>2, <2>1, <2>3 DEF Due, Walked
<1>3. CASE i # c /\ outbox'[i] = outbox[i]
  BY <1>1, <1>3 DEF Walked
<1>4. CASE i # c /\ outbox'[i] # outbox[i]
  <2>1. /\ outbox[i].status \in Safe
        /\ \/ outbox'[i] = Released(outbox[i], "failed", outbox[i].attempt, 0)
           \/ outbox'[i] = Released(outbox[i], "blocked", outbox[i].attempt, 0)
    BY <1>1, <1>4 DEF ClaimedOutbox, Exhausted, Blocks, Due
  <2>2. PICK s \in {"failed", "blocked"} :
           outbox'[i] = Released(outbox[i], s, outbox[i].attempt, 0)
    BY <2>1
  <2>3. s \in OutboxStatus
    BY <2>2 DEF OutboxStatus, Safe, FinalOutbox
  <2>4. /\ outbox'[i] \in Outbox
        /\ outbox'[i].run = outbox[i].run
        /\ outbox'[i].status = s
        /\ outbox'[i].attempt = outbox[i].attempt
        /\ outbox'[i].allocated = outbox[i].allocated
        /\ outbox'[i].requested = outbox[i].requested
    BY <1>1, <2>2, <2>3, ReleasedRow
  <2> QED
    BY <1>4, <2>1, <2>2, <2>4 DEF Walked
<1> QED
  BY <1>2, <1>3, <1>4

\* The run rows follow their leaves in the same transaction.
LEMMA ClaimedRuns ==
    ASSUME IInv, NEW at, NEW c, Claims(at, c), NEW r \in Runs
    PROVE  /\ run'[r] \in Run
           /\ run'[r].active = run[r].active
           /\ run'[r].cleared = run[r].cleared
           /\ Mirrors(outbox'[run[r].active].status, run'[r].status)
<1> DEFINE i == run[r].active
<1>1. /\ run[r] \in Run /\ i \in Ids /\ at \in Nat
      /\ Mirrors(outbox[i].status, run[r].status)
      /\ outbox[i] \in Outbox
      /\ outbox'[i] = ClaimedOutbox(i, at, c)
      /\ run'[r] = ClaimedRun(r, at, c)
      /\ outbox[i].attempt \in AttemptStatus
  BY DEF Claims, IInv, TypeOK, Run, Outbox, RunMirrorsLeaf
<1>2. /\ "failed" \in OutboxStatus /\ "blocked" \in OutboxStatus
      /\ "failed" \in RunStatus /\ "blocked" \in RunStatus
      /\ "delivering" \in RunStatus
      /\ "failed" \in SourceStatus /\ "blocked" \in SourceStatus
      /\ "delivering" \in SourceStatus
      /\ Mirrors("failed", "failed") /\ Mirrors("blocked", "blocked")
      /\ Mirrors("leased", "delivering")
  BY DEF OutboxStatus, Safe, FinalOutbox, RunStatus, SourceStatus, Mirrors
<1>3. CASE Exhausted(i, at) /\ i # c
  <2>0. ~Blocks(i, at, c)
    BY <1>1, <1>3, BoundAssumption DEF Exhausted, Blocks, Due
  <2>1. /\ run'[r] = RunSet(run[r], "failed", "failed")
        /\ outbox'[i] = Released(outbox[i], "failed", outbox[i].attempt, 0)
    BY <2>0, <1>1, <1>3 DEF ClaimedRun, ClaimedOutbox
  <2>2. outbox'[i].status = "failed"
    BY <2>1 DEF Released
  <2>3. /\ run'[r] \in Run /\ run'[r].status = "failed"
        /\ run'[r].active = run[r].active /\ run'[r].cleared = run[r].cleared
    <3>1. run[r] \in Run /\ "failed" \in RunStatus /\ "failed" \in SourceStatus
      BY <1>1, <1>2
    <3> HIDE DEF i
    <3> QED
      BY <2>1, <3>1, RunSetRow
  <2> QED
    BY <2>2, <2>3, <1>2
<1>4. CASE i = c
  <2>1. ~Exhausted(i, at)
    BY <1>1, <1>4, BoundAssumption DEF Claims, Claimable, Due, Exhausted
  <2>2. run'[r] = RunSet(run[r], "delivering", "delivering")
    BY <1>1, <1>4, <2>1 DEF ClaimedRun
  <2>3. outbox'[i].status = "leased"
    BY <1>1, <1>4, ClaimedLeaf DEF Walked
  <2>4. /\ run'[r] \in Run /\ run'[r].status = "delivering"
        /\ run'[r].active = run[r].active /\ run'[r].cleared = run[r].cleared
    <3>1. /\ run[r] \in Run
          /\ "delivering" \in RunStatus /\ "delivering" \in SourceStatus
      BY <1>1, <1>2
    <3> HIDE DEF i
    <3> QED
      BY <2>2, <3>1, RunSetRow
  <2> QED
    BY <2>3, <2>4, <1>2
<1>5. CASE i # c /\ ~Exhausted(i, at) /\ Blocks(i, at, c)
  <2>1. /\ run'[r] = RunSet(run[r], "blocked", "blocked")
        /\ outbox'[i] = Released(outbox[i], "blocked", outbox[i].attempt, 0)
    BY <1>1, <1>5 DEF ClaimedRun, ClaimedOutbox
  <2>2. outbox'[i].status = "blocked"
    BY <2>1 DEF Released
  <2>3. /\ run'[r] \in Run /\ run'[r].status = "blocked"
        /\ run'[r].active = run[r].active /\ run'[r].cleared = run[r].cleared
    <3>1. /\ run[r] \in Run
          /\ "blocked" \in RunStatus /\ "blocked" \in SourceStatus
      BY <1>1, <1>2
    <3> HIDE DEF i
    <3> QED
      BY <2>1, <3>1, RunSetRow
  <2> QED
    BY <2>2, <2>3, <1>2
<1>6. CASE i # c /\ ~Exhausted(i, at) /\ ~Blocks(i, at, c)
  BY <1>1, <1>6 DEF ClaimedRun, ClaimedOutbox
<1> QED
  BY <1>3, <1>4, <1>5, <1>6

\* The part of the invariant that does not look at the workers.
LEMMA ClaimsKeepRows ==
    ASSUME IInv, NEW at, NEW c, Claims(at, c)
    PROVE  /\ outbox' \in [Ids -> Outbox]
           /\ run' \in [Runs -> Run]
           /\ LeafShape'
           /\ CopiesMatchStatus'
           /\ Unsent'
           /\ RunMirrorsLeaf'
           /\ Closed'
<1>0. \A i \in Ids : Walked(i, c)
  BY ClaimedLeaf
<1>1. outbox' \in [Ids -> Outbox]
  BY <1>0 DEF Claims, Walked
<1>2. run' \in [Runs -> Run]
  BY ClaimedRuns DEF Claims
<1>3. LeafShape'
  <2> SUFFICES ASSUME NEW i \in Ids
               PROVE  LeafShape!(i)'
    BY DEF LeafShape
  <2>1. outbox[i].allocated \in Nat
    BY DEF IInv, TypeOK, Outbox
  <2> QED
    BY <2>1, <1>0 DEF IInv, LeafShape, Safe, Walked
<1>4. CopiesMatchStatus' /\ Unsent'
  <2> SUFFICES ASSUME NEW i \in Ids
               PROVE  CopiesMatchStatus!(i)' /\ Unsent!(i)'
    BY DEF CopiesMatchStatus, Unsent
  <2>1. accepted'[i] = accepted[i]
    BY DEF Claims
  <2> QED
    BY <2>1, <1>0 DEF IInv, CopiesMatchStatus, Unsent, Safe, Walked
<1>5. RunMirrorsLeaf'
  <2>1. ASSUME NEW r \in Runs
        PROVE  /\ outbox'[run'[r].active].run = r
               /\ Mirrors(outbox'[run'[r].active].status, run'[r].status)
    <3>1. run[r].active \in Ids /\ outbox[run[r].active].run = r
      BY DEF IInv, TypeOK, Run, RunMirrorsLeaf
    <3> QED
      BY <3>1, <1>0, ClaimedRuns DEF Walked
  <2>2. ASSUME NEW i \in Ids, outbox'[i].status \in Safe \cup {"leased"}
        PROVE  outbox'[i].run \in Runs /\ run'[outbox'[i].run].active = i
    <3>1. outbox[i].status \in Safe \cup {"leased"}
      BY <2>2, <1>0 DEF Walked
    <3>2. outbox[i].run \in Runs /\ run[outbox[i].run].active = i
      BY <3>1 DEF IInv, RunMirrorsLeaf, IsActive
    <3> QED
      BY <3>2, <1>0, ClaimedRuns DEF Walked
  <2> QED
    BY <2>1, <2>2 DEF RunMirrorsLeaf, IsActive
<1>6. Closed'
  <2>1. \A r \in Runs : run'[r].cleared => r \in Proactive
    BY ClaimedRuns DEF IInv, Closed
  <2>2. ASSUME mode' = "legacy_direct"
        PROVE  ~UnsafeForTransition'
    <3>1. /\ mode = "legacy_direct" /\ ~ControlAllows
          /\ \A i \in Ids : outbox[i].status \notin Safe
      BY <2>2 DEF Claims, ControlAllows, IInv, Closed, UnsafeForTransition
    <3>2. \A i \in Ids : outbox'[i] = outbox[i]
      BY <3>1, <1>0 DEF Walked
    <3>3. \A i \in Ids : IsActive(i)' => IsActive(i)
      BY <3>2, ClaimedRuns DEF IsActive
    <3> QED
      BY <3>1, <3>2, <3>3 DEF IInv, Closed, UnsafeForTransition
  <2> QED
    BY <2>1, <2>2 DEF Closed
<1> QED
  BY <1>1, <1>2, <1>3, <1>4, <1>5, <1>6

\* A claim hands out an attempt number no worker has seen.
LEMMA ClaimDueKeeps ==
    ASSUME IInv, NEW w \in Workers, NEW c \in Ids, ClaimDue(w, c)
    PROVE  IInv'
<1> DEFINE at == worker[w].now
           n == outbox[c].allocated + 1
<1>1. /\ at \in Nat /\ n \in Nat /\ outbox[c].allocated \in Nat
      /\ Claims(at, c)
      /\ worker' = [worker EXCEPT ![w] = At("claimed", at, c, n)]
  BY DEF ClaimDue, Reaches, Claims, IInv, TypeOK, Worker, Outbox
<1>2. /\ worker' \in [Workers -> Worker]
      /\ \A v \in Workers : v # w => worker'[v] = worker[v]
      /\ worker'[w].pc = "claimed"
      /\ worker'[w].leaf = c
      /\ worker'[w].no = n
  BY <1>1, SizeAssumption DEF IInv, TypeOK, At, Worker, Ids
<1>3. /\ outbox'[c].status = "leased"
      /\ outbox'[c].allocated = n
      /\ ~outbox'[c].requested
      /\ outbox[c].status \in Safe
      /\ \A j \in Ids : Walked(j, c)
  <2>1. \A j \in Ids : Walked(j, c)
    BY <1>1, ClaimedLeaf
  <2> QED
    BY <2>1 DEF Walked
<1>4. UNCHANGED <<clock, mode, circuit, accepted, faults>>
  BY <1>1 DEF Claims
<1>5. \A v \in Workers : worker[v].pc \in Holding =>
         worker[v].no \in Nat /\ worker[v].leaf \in Ids
  BY DEF IInv, TypeOK, Worker, HoldsOld
<1> HIDE DEF at
<1>a. TypeOK'
  BY <1>1, <1>2, <1>4, ClaimsKeepRows DEF IInv, TypeOK
<1>c. HoldsOld'
  <2> SUFFICES ASSUME NEW v \in Workers, worker'[v].pc \in Holding
               PROVE  /\ worker'[v].leaf \in Ids
                      /\ outbox'[worker'[v].leaf].status # "absent"
                      /\ worker'[v].no <= outbox'[worker'[v].leaf].allocated
    BY DEF HoldsOld
  <2>1. CASE v = w
    BY <2>1, <1>1, <1>2, <1>3
  <2>2. CASE v # w
    <3> DEFINE j == worker[v].leaf
    <3>1. /\ worker'[v] = worker[v] /\ j \in Ids /\ worker[v].no \in Nat
          /\ outbox[j].status # "absent"
          /\ worker[v].no <= outbox[j].allocated
          /\ outbox[j].allocated \in Nat
      BY <2>2, <1>2, <1>5 DEF IInv, TypeOK, Outbox, HoldsOld
    <3>2. /\ outbox'[j].status # "absent"
          /\ outbox[j].allocated <= outbox'[j].allocated
          /\ outbox'[j].allocated \in Nat
      BY <3>1, <1>3 DEF Walked
    <3> QED
      BY <3>1, <3>2
  <2> QED
    BY <2>1, <2>2
<1>d. LeaseHasOneHolder'
  <2>1. \A v \in Workers : (worker[v].pc \in Holding /\ worker[v].leaf = c) =>
           worker[v].no # n
    BY <1>1, <1>5 DEF IInv, HoldsOld
  <2> QED
    BY <2>1, <1>2 DEF IInv, LeaseHasOneHolder, Holding
<1>e. InFlight'
  <2> SUFFICES ASSUME NEW v \in Workers
               PROVE  InFlight!(v)'
    BY DEF InFlight
  <2>1. CASE v = w
    BY <2>1, <1>2, <1>3
  <2>2. CASE v # w /\ worker[v].pc \notin Holding
    BY <2>2, <1>2 DEF Holding
  <2>3. CASE v # w /\ worker[v].pc \in Holding
    <3> DEFINE j == worker[v].leaf
    <3>1. /\ worker'[v] = worker[v] /\ j \in Ids /\ worker[v].no \in Nat
          /\ worker[v].no <= outbox[j].allocated
          /\ accepted'[j] = accepted[j]
      BY <2>3, <1>2, <1>4, <1>5 DEF IInv, HoldsOld
    <3>2. CASE j = c
      BY <3>1, <3>2, <1>1, <1>3 DEF IInv, InFlight, Safe
    <3>3. CASE j # c
      <4>1. \/ outbox'[j] = outbox[j]
            \/ /\ outbox[j].status \in Safe
               /\ outbox'[j].status \in {"failed", "blocked"}
        BY <3>1, <3>3, <1>3 DEF Walked
      <4> QED
        BY <3>1, <4>1 DEF IInv, InFlight, Safe
    <3> QED
      BY <3>2, <3>3
  <2> QED
    BY <2>1, <2>2, <2>3
<1> QED
  BY <1>1, <1>a, <1>c, <1>d, <1>e, ClaimsKeepRows DEF IInv

\* A walk that claims nothing only parks leaves nobody holds.
LEMMA ClaimNothingKeeps ==
    ASSUME IInv, NEW w \in Workers, ClaimNothing(w)
    PROVE  IInv'
<1> DEFINE at == worker[w].now
<1>1. /\ at \in Nat /\ Claims(at, 0) /\ 0 \notin Ids
      /\ worker' = [worker EXCEPT ![w] = Idle]
  BY DEF ClaimNothing, Reaches, Claims, IInv, TypeOK, Worker, Ids
<1>2. /\ worker' \in [Workers -> Worker]
      /\ \A v \in Workers : v # w => worker'[v] = worker[v]
      /\ worker'[w].pc = "idle"
  BY <1>1 DEF IInv, TypeOK, Idle, Worker
<1>3. UNCHANGED <<clock, mode, circuit, accepted, faults>>
  BY <1>1 DEF Claims
<1> HIDE DEF at
<1>4. \A j \in Ids :
         \/ outbox'[j] = outbox[j]
         \/ /\ outbox[j].status \in Safe
            /\ outbox'[j].status \in {"failed", "blocked"}
            /\ outbox'[j].allocated = outbox[j].allocated
  <2>1. \A j \in Ids : Walked(j, 0) /\ j # 0
    BY <1>1, ClaimedLeaf
  <2> QED
    BY <2>1 DEF Walked
<1>a. TypeOK'
  BY <1>1, <1>2, <1>3, ClaimsKeepRows DEF IInv, TypeOK
<1>c. HoldsOld' /\ LeaseHasOneHolder'
  BY <1>2, <1>4 DEF IInv, HoldsOld, LeaseHasOneHolder, Holding
<1>e. InFlight'
  <2> SUFFICES ASSUME NEW v \in Workers
               PROVE  InFlight!(v)'
    BY DEF InFlight
  <2>1. CASE v = w
    BY <2>1, <1>2
  <2>2. CASE v # w /\ worker[v].pc \notin Holding
    BY <2>2, <1>2 DEF Holding
  <2>3. CASE v # w /\ worker[v].pc \in Holding
    <3>1. worker'[v] = worker[v] /\ worker[v].leaf \in Ids
      BY <2>3, <1>2 DEF IInv, HoldsOld
    <3> QED
      BY <3>1, <1>3, <1>4 DEF IInv, InFlight, Safe
  <2> QED
    BY <2>1, <2>2, <2>3
<1> QED
  BY <1>1, <1>a, <1>c, <1>e, ClaimsKeepRows DEF IInv

\* A waiting leaf is withdrawn, and its run row becomes u.
Withdraws(i, u) ==
    /\ i \in Ids
    /\ outbox[i].status \in Safe
    /\ IsActive(i)
    /\ outbox' = [outbox EXCEPT ![i] =
                    Released(outbox[i], "cancelled", outbox[i].attempt, 0)]
    /\ u \in Run
    /\ u.status = "failed"
    /\ u.active = i
    /\ u.cleared => outbox[i].run \in Proactive
    /\ run' = [run EXCEPT ![outbox[i].run] = u]
    /\ UNCHANGED <<clock, mode, circuit, worker, accepted, faults>>

\* Withdrawing a leaf nobody holds keeps the invariant.
LEMMA WithdrawKeeps ==
    ASSUME IInv, NEW i, NEW u, Withdraws(i, u)
    PROVE  IInv'
<1> DEFINE q == outbox[i].run
           o == Released(outbox[i], "cancelled", outbox[i].attempt, 0)
<1>1. /\ i \in Ids /\ q \in Runs /\ run[q].active = i
      /\ outbox[i] \in Outbox /\ outbox[i].status \in Safe
      /\ outbox[i].attempt # "started"
      /\ mode # "legacy_direct"
  BY DEF Withdraws, IInv, TypeOK, LeafShape, Safe, IsActive, Closed,
         UnsafeForTransition
<1>2. /\ outbox' = [outbox EXCEPT ![i] = o]
      /\ o \in Outbox /\ o.run = q /\ o.status = "cancelled"
      /\ o.attempt = outbox[i].attempt /\ o.allocated = outbox[i].allocated
      /\ o.requested = outbox[i].requested
  <2>1. "cancelled" \in OutboxStatus /\ outbox[i].attempt \in AttemptStatus
    BY <1>1 DEF OutboxStatus, FinalOutbox, Outbox
  <2>2. outbox[i] \in Outbox
    BY <1>1
  <2> QED
    BY <2>1, <2>2, ReleasedRow DEF Withdraws
<1>3. /\ run' = [run EXCEPT ![q] = u] /\ u \in Run /\ u.status = "failed"
      /\ u.active = i /\ (u.cleared => q \in Proactive)
      /\ UNCHANGED <<clock, mode, circuit, worker, accepted, faults>>
  BY DEF Withdraws
<1> HIDE DEF o, q
<1>a. TypeOK'
  BY <1>1, <1>2, <1>3 DEF IInv, TypeOK
<1>b. LeafShape'
  BY <1>1, <1>2 DEF IInv, TypeOK, LeafShape
<1>c. HoldsOld' /\ LeaseHasOneHolder'
  BY <1>1, <1>2, <1>3 DEF IInv, TypeOK, HoldsOld, LeaseHasOneHolder
<1>d. CopiesMatchStatus' /\ Unsent'
  BY <1>1, <1>2, <1>3 DEF IInv, TypeOK, CopiesMatchStatus, Unsent, Safe
<1>e. InFlight'
  <2> SUFFICES ASSUME NEW v \in Workers
               PROVE  InFlight!(v)'
    BY DEF InFlight
  <2>1. worker'[v] = worker[v] /\ accepted' = accepted
    BY <1>3
  <2>2. CASE worker[v].leaf # i
    <3>1. CASE worker[v].pc \in Holding
      BY <2>1, <2>2, <3>1, <1>1, <1>2 DEF IInv, TypeOK, InFlight, HoldsOld
    <3>2. CASE worker[v].pc \notin Holding
      BY <2>1, <3>2 DEF Holding
    <3> QED
      BY <3>1, <3>2
  <2>3. CASE worker[v].leaf = i
    BY <2>1, <2>3, <1>1, <1>2 DEF IInv, TypeOK, InFlight, Safe
  <2> QED
    BY <2>2, <2>3
<1>f. RunMirrorsLeaf'
  <2>1. ASSUME NEW r \in Runs
        PROVE  /\ outbox'[run'[r].active].run = r
               /\ Mirrors(outbox'[run'[r].active].status, run'[r].status)
    <3>1. CASE r = q
      <4>1. Mirrors("cancelled", "failed")
        BY DEF Mirrors
      <4> QED
        BY <3>1, <4>1, <1>1, <1>2, <1>3 DEF IInv, TypeOK
    <3>2. CASE r # q
      <4>1. run'[r] = run[r] /\ run[r].active \in Ids /\ run[r].active # i
        BY <3>2, <1>1, <1>3 DEF IInv, TypeOK, Run, RunMirrorsLeaf, q
      <4> QED
        BY <4>1, <1>1, <1>2 DEF IInv, TypeOK, RunMirrorsLeaf
    <3> QED
      BY <3>1, <3>2
  <2>2. ASSUME NEW j \in Ids, outbox'[j].status \in Safe \cup {"leased"}
        PROVE  /\ outbox'[j].run \in Runs
               /\ run'[outbox'[j].run].active = j
    <3>1. CASE j = i
      BY <3>1, <1>1, <1>2, <1>3 DEF IInv, TypeOK
    <3>2. CASE j # i
      BY <3>2, <2>2, <1>1, <1>2, <1>3
      DEF IInv, TypeOK, RunMirrorsLeaf, IsActive
    <3> QED
      BY <3>1, <3>2
  <2> QED
    BY <2>1, <2>2 DEF RunMirrorsLeaf, IsActive
<1>g. Closed'
  BY <1>1, <1>3 DEF IInv, TypeOK, Closed
<1> QED
  BY <1>a, <1>b, <1>c, <1>d, <1>e, <1>f, <1>g DEF IInv

\* An administrator's cancellation.
LEMMA CancelSafeKeeps ==
    ASSUME IInv, NEW i \in Ids, CancelSafe(i)
    PROVE  IInv'
<1> DEFINE q == outbox[i].run
           u == RunSet(run[q], "failed", "cancelled")
<1>1. q \in Runs /\ run[q] \in Run /\ run[q].active = i
  BY DEF CancelSafe, IsActive, IInv, TypeOK
<1>2. "failed" \in RunStatus /\ "cancelled" \in SourceStatus
  BY DEF RunStatus, SourceStatus
<1>3. /\ u \in Run /\ u.status = "failed" /\ u.active = i
      /\ u.cleared = run[q].cleared
  BY <1>1, <1>2, RunSetRow
<1>4. Withdraws(i, u)
  <2>1. u.cleared => q \in Proactive
    BY <1>1, <1>3 DEF IInv, Closed
  <2> HIDE DEF u
  <2>2. /\ outbox' = [outbox EXCEPT ![i] = SafeCancelled(outbox[i])]
        /\ run' = [run EXCEPT ![q] = u]
    BY DEF CancelSafe, u
  <2> QED
    BY <1>3, <2>1, <2>2 DEF CancelSafe, SafeCancelled, Withdraws
<1> QED
  BY <1>4, WithdrawKeeps

\* A step that only marks run rows, leaving their leaf and status, keeps the
\* invariant.
LEMMA MarksKeep ==
    ASSUME IInv,
           UNCHANGED <<clock, mode, circuit, outbox, worker, accepted>>,
           faults' \in Nat,
           run' \in [Runs -> Run],
           \A q \in Runs : /\ run'[q].active = run[q].active
                           /\ run'[q].status = run[q].status
                           /\ run'[q].cleared => q \in Proactive
    PROVE  IInv'
<1>1. \A j \in Ids : IsActive(j)' <=> IsActive(j)
  BY DEF IsActive
<1>a. TypeOK'
  BY DEF IInv, TypeOK
<1>b. LeafShape' /\ HoldsOld' /\ LeaseHasOneHolder' /\ CopiesMatchStatus'
      /\ Unsent' /\ InFlight'
  BY DEF IInv, LeafShape, HoldsOld, LeaseHasOneHolder, CopiesMatchStatus,
     Unsent, InFlight
<1>c. RunMirrorsLeaf'
  BY <1>1 DEF IInv, RunMirrorsLeaf
<1>d. Closed'
  BY <1>1 DEF IInv, Closed, UnsafeForTransition
<1> QED
  BY <1>a, <1>b, <1>c, <1>d DEF IInv

\* Clearing the history withdraws a waiting leaf and leaves any other alone.
LEMMA ClearHistoryKeeps ==
    ASSUME IInv, NEW r \in Runs, ClearHistory(r)
    PROVE  IInv'
<1> DEFINE i == run[r].active
           s == outbox[i].status \in Safe /\ ~Fenced(r)
           u == [status |-> IF s THEN "failed" ELSE run[r].status,
                 active |-> i, ambiguous |-> run[r].ambiguous,
                 cleared |-> TRUE, bound |-> run[r].bound,
                 source |-> IF s THEN "cancelled" ELSE run[r].source]
<1>1. /\ i \in Ids /\ run[r] \in Run /\ r \in Proactive
      /\ outbox[i] \in Outbox /\ outbox[i].run = r
  BY DEF ClearHistory, IInv, TypeOK, Run, RunMirrorsLeaf
<1>2. /\ run' = [run EXCEPT ![r] = u]
      /\ outbox' = [outbox EXCEPT ![i] = IF s THEN SafeCancelled(outbox[i])
                                              ELSE outbox[i]]
      /\ UNCHANGED <<clock, mode, circuit, worker, accepted, faults>>
  BY DEF ClearHistory
<1>3. u \in Run /\ u.active = i /\ u.cleared
  BY <1>1 DEF Run, RunStatus, SourceStatus
<1>4. CASE s
  <2>1. u.status = "failed"
    BY <1>4
  <2>2. outbox[i].status \in Safe
    BY <1>4
  <2>3. outbox' = [outbox EXCEPT ![i] = SafeCancelled(outbox[i])]
    BY <1>2, <1>4
  <2> HIDE DEF u, s
  <2>4. Withdraws(i, u)
    BY <1>1, <1>2, <1>3, <2>1, <2>2, <2>3 DEF Withdraws, IsActive, SafeCancelled
  <2> QED
    BY <2>4, WithdrawKeeps
<1>5. CASE ~s
  <2>1. u.status = run[r].status
    BY <1>5
  <2>2. outbox' = outbox
    BY <1>1, <1>2, <1>5 DEF IInv, TypeOK
  <2> HIDE DEF u, i, s
  <2>3. /\ run' \in [Runs -> Run]
        /\ \A q \in Runs : /\ run'[q].active = run[q].active
                           /\ run'[q].status = run[q].status
                           /\ run'[q].cleared => q \in Proactive
    BY <1>1, <1>2, <1>3, <2>1 DEF IInv, TypeOK, Closed, i
  <2> QED
    BY <1>2, <2>2, <2>3, MarksKeep DEF IInv, TypeOK
<1> QED
  BY <1>4, <1>5

\* So does a source row that stands for another run, or has changed.
LEMMA SourceMovesKeeps ==
    ASSUME IInv, NEW r \in Runs, RebindTask(r) \/ FenceSource(r)
    PROVE  IInv'
<1> DEFINE u == Unbound(run[r])
<1>1. /\ run' = [run EXCEPT ![r] = u]
      /\ UNCHANGED <<clock, mode, circuit, outbox, worker, accepted>>
      /\ faults' \in Nat
  BY DEF RebindTask, FenceSource, IInv, TypeOK
<1>2. run \in [Runs -> Run] /\ run[r] \in Run
  BY DEF IInv, TypeOK
<1>3. /\ u \in Run /\ u.active = run[r].active /\ u.status = run[r].status
      /\ u.cleared = run[r].cleared
  BY <1>2 DEF Run, Unbound
<1> HIDE DEF u
<1>4. /\ run' \in [Runs -> Run]
      /\ \A q \in Runs : /\ run'[q].active = run[q].active
                         /\ run'[q].status = run[q].status
                         /\ run'[q].cleared => q \in Proactive
  BY <1>1, <1>2, <1>3 DEF IInv, Closed
<1> QED
  BY <1>1, <1>4, MarksKeep

\* The request boundary is only crossed by the one holder of a live lease.
LEMMA StartRequestKeeps ==
    ASSUME IInv, NEW w \in Workers, StartRequest(w)
    PROVE  IInv'
<1> DEFINE i == worker[w].leaf
           o == Requested(outbox[i])
           x == At("sending", worker[w].now, i, worker[w].no)
<1>1. /\ i \in Ids /\ outbox[i] \in Outbox
      /\ outbox[i].status = "leased" /\ outbox[i].allocated = worker[w].no
      /\ ~outbox[i].requested
      /\ worker[w].pc = "checked" /\ worker[w].pc \in Holding
      /\ mode # "legacy_direct"
      /\ worker[w] \in Worker
  BY DEF StartRequest, MayStart, Live, ControlAllows, IInv, TypeOK, HoldsOld,
         Holding
<1>2. /\ outbox' = [outbox EXCEPT ![i] = o]
      /\ worker' = [worker EXCEPT ![w] = x]
      /\ UNCHANGED <<clock, mode, circuit, run, accepted, faults>>
  BY DEF StartRequest
<1>3. /\ o \in Outbox /\ o.run = outbox[i].run
      /\ o.status = "leased" /\ o.attempt = outbox[i].attempt
      /\ o.allocated = outbox[i].allocated /\ o.token = outbox[i].token
      /\ o.requested
  <2>1. outbox[i] \in Outbox
    BY <1>1
  <2> QED
    BY <2>1, <1>1, RequestedRow
<1>4. /\ x \in Worker /\ x.pc = "sending" /\ x.leaf = i
      /\ x.no = worker[w].no
  BY <1>1 DEF At, Worker
<1>5. accepted[i] = 0
  BY <1>1 DEF IInv, Unsent
<1> HIDE DEF i, o, x
<1>a. TypeOK'
  BY <1>1, <1>2, <1>3, <1>4 DEF IInv, TypeOK
<1>b. LeafShape'
  BY <1>1, <1>2, <1>3 DEF IInv, TypeOK, LeafShape
<1>c. HoldsOld' /\ LeaseHasOneHolder'
  BY <1>1, <1>2, <1>3, <1>4
  DEF IInv, TypeOK, HoldsOld, LeaseHasOneHolder, Holding, i
<1>d. CopiesMatchStatus' /\ Unsent'
  BY <1>1, <1>2, <1>3 DEF IInv, TypeOK, CopiesMatchStatus, Unsent, Safe
<1>e. InFlight'
  <2> SUFFICES ASSUME NEW v \in Workers
               PROVE  InFlight!(v)'
    BY DEF InFlight
  <2>1. CASE v = w
    BY <2>1, <1>1, <1>2, <1>3, <1>4, <1>5 DEF IInv, TypeOK
  <2>2. CASE v # w /\ worker[v].pc \notin Holding
    BY <2>2, <1>2 DEF IInv, TypeOK, Holding
  <2>3. CASE v # w /\ worker[v].pc \in Holding
    <3>1. worker'[v] = worker[v] /\ worker[v].leaf \in Ids
          /\ accepted' = accepted
      BY <2>3, <1>2 DEF IInv, TypeOK, HoldsOld
    <3>2. CASE worker[v].leaf # i
      BY <3>1, <3>2, <1>1, <1>2 DEF IInv, TypeOK, InFlight
    <3>3. CASE worker[v].leaf = i
      <4>1. worker[v].no # worker[w].no
        BY <2>3, <3>3, <1>1 DEF IInv, LeaseHasOneHolder, i
      <4> QED
        BY <3>1, <3>3, <4>1, <1>1, <1>2, <1>3 DEF IInv, TypeOK, InFlight
    <3> QED
      BY <3>2, <3>3
  <2> QED
    BY <2>1, <2>2, <2>3
<1>f. RunMirrorsLeaf'
  BY <1>1, <1>2, <1>3 DEF IInv, TypeOK, Run, RunMirrorsLeaf, IsActive
<1>g. Closed'
  BY <1>1, <1>2 DEF IInv, Closed
<1> QED
  BY <1>a, <1>b, <1>c, <1>d, <1>e, <1>f, <1>g DEF IInv

\* The gateway takes the message of a request that has not been taken before.
LEMMA GatewayAcceptsKeeps ==
    ASSUME IInv, NEW w \in Workers, GatewayAccepts(w)
    PROVE  IInv'
<1> DEFINE i == worker[w].leaf
           x == At("accepted", worker[w].now, i, worker[w].no)
<1>1. /\ i \in Ids /\ worker[w] \in Worker
      /\ worker[w].pc = "sending" /\ worker[w].pc \in Holding
      /\ outbox[i].allocated = worker[w].no
      /\ outbox[i].requested
      /\ outbox[i].status \in {"leased", "ambiguous"}
      /\ accepted[i] = 0
  BY DEF GatewayAccepts, IInv, TypeOK, HoldsOld, Holding, InFlight
<1>2. /\ accepted' = [accepted EXCEPT ![i] = 1]
      /\ worker' = [worker EXCEPT ![w] = x]
      /\ UNCHANGED <<clock, mode, circuit, run, outbox, faults>>
  BY <1>1 DEF GatewayAccepts
<1>3. x \in Worker /\ x.pc = "accepted" /\ x.leaf = i /\ x.no = worker[w].no
  BY <1>1 DEF At, Worker
<1> HIDE DEF i, x
<1>a. TypeOK'
  BY <1>1, <1>2, <1>3 DEF IInv, TypeOK
<1>b. LeafShape' /\ RunMirrorsLeaf' /\ Closed'
  BY <1>2 DEF IInv, LeafShape, RunMirrorsLeaf, IsActive, Closed,
     UnsafeForTransition
<1>c. HoldsOld' /\ LeaseHasOneHolder'
  BY <1>1, <1>2, <1>3
  DEF IInv, TypeOK, HoldsOld, LeaseHasOneHolder, Holding, i
<1>d. CopiesMatchStatus' /\ Unsent'
  BY <1>1, <1>2 DEF IInv, TypeOK, CopiesMatchStatus, Unsent, Safe
<1>e. InFlight'
  <2> SUFFICES ASSUME NEW v \in Workers
               PROVE  InFlight!(v)'
    BY DEF InFlight
  <2>1. CASE v = w
    BY <2>1, <1>1, <1>2, <1>3 DEF IInv, TypeOK
  <2>2. CASE v # w /\ worker[v].pc \notin Holding
    BY <2>2, <1>2 DEF IInv, TypeOK, Holding
  <2>3. CASE v # w /\ worker[v].pc \in Holding
    <3>1. worker'[v] = worker[v] /\ worker[v].leaf \in Ids
          /\ outbox' = outbox
      BY <2>3, <1>2 DEF IInv, TypeOK, HoldsOld
    <3>2. CASE worker[v].leaf # i
      BY <3>1, <3>2, <1>1, <1>2 DEF IInv, TypeOK, InFlight
    <3>3. CASE worker[v].leaf = i
      <4>1. worker[v].no # worker[w].no
        BY <2>3, <3>3, <1>1 DEF IInv, LeaseHasOneHolder, i
      <4> QED
        BY <3>1, <3>3, <4>1, <1>1, <1>2 DEF IInv, TypeOK, InFlight
    <3> QED
      BY <3>2, <3>3
  <2> QED
    BY <2>1, <2>2, <2>3
<1> QED
  BY <1>a, <1>b, <1>c, <1>d, <1>e DEF IInv

\* A replay takes a row nobody has used.
LEMMA CreateReplayKeeps ==
    ASSUME IInv, NEW i \in Ids, NEW k \in Ids, CreateReplay(i, k)
    PROVE  IInv'
<1> DEFINE q == outbox[i].run
           o == Leaf(q, outbox[i].seq + 1, "pending")
           u == [status |-> "queued", active |-> k, ambiguous |-> TRUE,
                 cleared |-> run[q].cleared, bound |-> run[q].bound,
                 source |-> run[q].source]
<1>1. /\ q \in Runs /\ run[q].active = i /\ run[q] \in Run
      /\ outbox[i] \in Outbox /\ outbox[i].status = "ambiguous"
      /\ outbox[k].status = "absent" /\ k # i
      /\ mode # "legacy_direct"
      /\ accepted[k] = 0
  BY DEF CreateReplay, IsActive, IInv, TypeOK, CopiesMatchStatus
<1>2. /\ outbox' = [outbox EXCEPT ![k] = o]
      /\ run' = [run EXCEPT ![q] = u]
      /\ UNCHANGED <<clock, mode, circuit, worker, accepted, faults>>
  BY DEF CreateReplay
<1>3. /\ o \in Outbox /\ o.run = q /\ o.status = "pending"
      /\ o.attempt = "none"
  BY <1>1, SizeAssumption
  DEF Leaf, Outbox, OutboxStatus, Safe, AttemptStatus, Runs
<1>4. /\ u \in Run /\ u.status = "queued" /\ u.active = k
      /\ u.cleared = run[q].cleared
  BY <1>1 DEF Run, RunStatus
<1> HIDE DEF q, o, u
<1>a. TypeOK'
  BY <1>1, <1>2, <1>3, <1>4 DEF IInv, TypeOK
<1>b. LeafShape'
  BY <1>1, <1>2, <1>3 DEF IInv, TypeOK, LeafShape
<1>c. HoldsOld' /\ LeaseHasOneHolder'
  BY <1>1, <1>2 DEF IInv, TypeOK, HoldsOld, LeaseHasOneHolder
<1>d. CopiesMatchStatus' /\ Unsent'
  BY <1>1, <1>2, <1>3 DEF IInv, TypeOK, CopiesMatchStatus, Unsent, Safe
<1>e. InFlight'
  <2> SUFFICES ASSUME NEW v \in Workers
               PROVE  InFlight!(v)'
    BY DEF InFlight
  <2>1. CASE worker[v].pc \in Holding
    <3>1. /\ worker' = worker /\ accepted' = accepted
          /\ worker[v].leaf \in Ids /\ worker[v].leaf # k
      BY <2>1, <1>1, <1>2 DEF IInv, HoldsOld
    <3> QED
      BY <3>1, <1>2 DEF IInv, TypeOK, InFlight
  <2>2. CASE worker[v].pc \notin Holding
    BY <2>2, <1>2 DEF Holding
  <2> QED
    BY <2>1, <2>2
<1>f. RunMirrorsLeaf'
  <2>1. ASSUME NEW r \in Runs
        PROVE  /\ outbox'[run'[r].active].run = r
               /\ Mirrors(outbox'[run'[r].active].status, run'[r].status)
    <3>1. CASE r = q
      <4>1. Mirrors("pending", "queued")
        BY DEF Mirrors
      <4> QED
        BY <3>1, <4>1, <1>1, <1>2, <1>3, <1>4 DEF IInv, TypeOK
    <3>2. CASE r # q
      <4>1. run'[r] = run[r] /\ run[r].active \in Ids
        BY <3>2, <1>1, <1>2 DEF IInv, TypeOK, Run
      <4>2. outbox[run[r].active].status # "absent"
        BY DEF IInv, RunMirrorsLeaf, Mirrors
      <4>3. run[r].active # k
        BY <4>2, <1>1
      <4> QED
        BY <4>1, <4>3, <1>1, <1>2 DEF IInv, TypeOK, RunMirrorsLeaf
    <3> QED
      BY <3>1, <3>2
  <2>2. ASSUME NEW j \in Ids, outbox'[j].status \in Safe \cup {"leased"}
        PROVE  /\ outbox'[j].run \in Runs
               /\ run'[outbox'[j].run].active = j
    <3>1. CASE j = k
      BY <3>1, <1>1, <1>2, <1>3, <1>4 DEF IInv, TypeOK
    <3>2. CASE j # k
      <4>1. outbox'[j] = outbox[j]
        BY <3>2, <1>2 DEF IInv, TypeOK
      <4>2. outbox[j].run \in Runs /\ run[outbox[j].run].active = j
        BY <2>2, <4>1 DEF IInv, RunMirrorsLeaf, IsActive
      <4>3. outbox[j].run # q
        BY <4>1, <4>2, <2>2, <1>1 DEF Safe
      <4> QED
        BY <4>1, <4>2, <4>3, <1>2 DEF IInv, TypeOK
    <3> QED
      BY <3>1, <3>2
  <2> QED
    BY <2>1, <2>2 DEF RunMirrorsLeaf, IsActive
<1>g. Closed'
  BY <1>1, <1>2, <1>4 DEF IInv, TypeOK, Closed
<1> QED
  BY <1>a, <1>b, <1>c, <1>d, <1>e, <1>f, <1>g DEF IInv

\* The control row, the circuits and the clock.
LEMMA ControlKeeps ==
    ASSUME IInv,
           \/ \E s \in Scopes : ResetCircuit(s)
           \/ BeginDraining
           \/ CloseEpoch
           \/ Tick
           \/ UNCHANGED vars
    PROVE  IInv'
<1>1. /\ UNCHANGED <<run, outbox, worker, accepted, faults>>
      /\ circuit' \subseteq circuit
      /\ clock' \in Nat
      /\ mode' \in {"outbox_active", "outbox_draining", "legacy_direct"}
      /\ mode' = "legacy_direct" => mode = mode' \/ ~UnsafeForTransition
  BY DEF ResetCircuit, BeginDraining, CloseEpoch, Tick, vars, IInv, TypeOK
<1>a. TypeOK'
  BY <1>1 DEF IInv, TypeOK
<1>b. LeafShape' /\ HoldsOld' /\ LeaseHasOneHolder' /\ CopiesMatchStatus'
      /\ Unsent' /\ InFlight' /\ RunMirrorsLeaf'
  BY <1>1 DEF IInv, LeafShape, HoldsOld, LeaseHasOneHolder, CopiesMatchStatus,
     Unsent, InFlight, RunMirrorsLeaf, IsActive
<1>c. Closed'
  BY <1>1 DEF IInv, Closed, UnsafeForTransition, IsActive
<1> QED
  BY <1>a, <1>b, <1>c DEF IInv

-----------------------------------------------------------------------------
\* The invariant holds when the runs have just been queued.
LEMMA InitInv == Init => IInv
<1> SUFFICES ASSUME Init
             PROVE  IInv
  OBVIOUS
<1>0. Runs \subseteq Ids /\ Runs \subseteq Nat /\ \A i \in Ids : i \in Nat
  BY SizeAssumption DEF Runs, Ids
<1>1. ASSUME NEW i \in Ids
      PROVE  /\ outbox[i] \in Outbox
             /\ i \in Runs => outbox[i].run = i /\ outbox[i].status = "pending"
             /\ i \notin Runs => outbox[i].status = "absent"
             /\ outbox[i].attempt = "none"
  BY <1>0 DEF Init, Leaf, Outbox, OutboxStatus, Safe, AttemptStatus
<1>2. ASSUME NEW r \in Runs
      PROVE  /\ run[r] \in Run /\ run[r].status = "queued"
             /\ run[r].active = r /\ ~run[r].cleared
  BY <1>0 DEF Init, Run, RunStatus, SourceStatus
<1>3. ASSUME NEW w \in Workers
      PROVE  worker[w] \in Worker /\ worker[w].pc = "idle"
  BY DEF Init, Idle, Worker
<1>4. /\ DOMAIN outbox = Ids /\ outbox = [i \in Ids |-> outbox[i]]
      /\ run = [r \in Runs |-> run[r]] /\ worker = [w \in Workers |-> worker[w]]
      /\ clock = 0 /\ mode = "outbox_active" /\ circuit = {} /\ faults = 0
      /\ accepted = [i \in Ids |-> 0]
  BY DEF Init
<1>a. TypeOK
  BY <1>1, <1>2, <1>3, <1>4 DEF TypeOK
<1>b. LeafShape /\ HoldsOld /\ LeaseHasOneHolder /\ CopiesMatchStatus /\ Unsent
      /\ InFlight
  BY <1>1, <1>3, <1>4 DEF LeafShape, HoldsOld, LeaseHasOneHolder, Holding,
     CopiesMatchStatus, Unsent, InFlight, Safe
<1>c. RunMirrorsLeaf
  <2>1. Mirrors("pending", "queued")
    BY DEF Mirrors
  <2> QED
    BY <2>1, <1>0, <1>1, <1>2 DEF RunMirrorsLeaf, IsActive, Safe
<1>d. Closed
  BY <1>2, <1>4 DEF Closed
<1> QED
  BY <1>a, <1>b, <1>c, <1>d DEF IInv

\* Every step keeps the invariant.
LEMMA NextInv == IInv /\ [Next]_vars => IInv'
<1> SUFFICES ASSUME IInv, [Next]_vars
             PROVE  IInv'
  OBVIOUS
<1>1. ASSUME NEW w \in Workers,
             WorkerStep(w) \/ GatewayAccepts(w) \/ SettleFails(w) \/ Crash(w)
      PROVE  IInv'
  BY <1>1, BeginCycleKeeps, ExpireStaleLeasesKeeps, ExpiryFencedKeeps,
     ClaimDueKeeps, ClaimNothingKeeps, ClaimFencedKeeps, PreflightCancelsKeeps, PreflightPassesKeeps,
     PreflightMalformedKeeps, StartCancelsKeeps, StartRequestKeeps,
     RefusedBeforeSendKeeps, AnswerAfterAcceptKeeps, AnswerRefusedKeeps,
     AnswerTransientKeeps, SettleSucceededKeeps, SettleAmbiguousKeeps,
     SettlePayloadKeeps, SettleStableKeeps, SettleRetryKeeps,
     SettleExhaustedKeeps, SettleAgainKeeps, SettleFencedKeeps,
     SettleFailsKeeps, CrashKeeps, GatewayAcceptsKeeps
  DEF WorkerStep
<1>2. ASSUME NEW i \in Ids, CancelSafe(i)
      PROVE  IInv'
  BY <1>2, CancelSafeKeeps
<1>3. ASSUME NEW r \in Runs,
             ClearHistory(r) \/ RebindTask(r) \/ FenceSource(r)
      PROVE  IInv'
  BY <1>3, ClearHistoryKeeps, SourceMovesKeeps
<1>4. ASSUME NEW i \in Ids, NEW k \in Ids, CreateReplay(i, k)
      PROVE  IInv'
  BY <1>4, CreateReplayKeeps
<1> QED
  BY <1>1, <1>2, <1>3, <1>4, ControlKeeps DEF Next

\* The inductive invariant holds in every reachable state.
THEOREM Invariance == Spec => []IInv
  BY InitInv, NextInv, PTL DEF Spec

\* The rows and the coroutines keep their types, for any number of them.
THEOREM TypeCorrect == Spec => []TypeOK
<1>1. IInv => TypeOK
  BY DEF IInv
<1> QED
  BY <1>1, Invariance, PTL

\* One leaf never puts two copies of its message in the chat, and its status
\* never hides one: for any number of workers, crashes, expiries and retries.
THEOREM OneCopyPerLeaf == Spec => []CopiesMatchStatus
<1>1. IInv => CopiesMatchStatus
  BY DEF IInv
<1> QED
  BY <1>1, Invariance, PTL

\* No two workers act under the same attempt number of the same leaf.
THEOREM OneHolder == Spec => []LeaseHasOneHolder
<1>1. IInv => LeaseHasOneHolder
  BY DEF IInv
<1> QED
  BY <1>1, Invariance, PTL

\* The run rows always say what their active leaves say, so none of the CASes
\* on a run row can miss.
THEOREM RunsMirror == Spec => []RunMirrorsLeaf
<1>1. IInv => RunMirrorsLeaf
  BY DEF IInv
<1> QED
  BY <1>1, Invariance, PTL

\* A closed epoch has no request on its way that an operator did not replace.
THEOREM ClosedQuiet == Spec => []ClosedEpochIsQuiet
<1>1. IInv => ClosedEpochIsQuiet
  BY DEF IInv, Closed, UnsafeForTransition, InFlight, HoldsOld, Holding,
         ClosedEpochIsQuiet
<1> QED
  BY <1>1, Invariance, PTL

-----------------------------------------------------------------------------
\* What a step may do to one leaf: a settled leaf is left alone, and the
\* request mark appears only when its worker crosses the request boundary.
Careful(i) ==
    /\ outbox[i].status \in FinalOutbox => outbox'[i] = outbox[i]
    /\ (outbox'[i].requested /\ ~outbox[i].requested) =>
          \E w \in Workers : StartRequest(w) /\ worker[w].leaf = i

\* Giving a lease back is careful.
LEMMA GiveBackCareful ==
    ASSUME IInv, NEW w, NEW s, NEW a, NEW n, Live(w),
           outbox' = [outbox EXCEPT ![worker[w].leaf] = Released(@, s, a, n)],
           NEW i \in Ids
    PROVE  Careful(i)
<1>1. outbox[worker[w].leaf].status = "leased"
  BY DEF Live
<1>2. CASE i = worker[w].leaf
  <2>1. outbox'[i].requested = outbox[i].requested
    BY <1>2 DEF IInv, TypeOK, Released
  <2> QED
    BY <1>1, <1>2, <2>1 DEF Careful, FinalOutbox
<1>3. CASE i # worker[w].leaf
  <2>1. outbox'[i] = outbox[i]
    BY <1>3 DEF IInv, TypeOK
  <2> QED
    BY <2>1 DEF Careful
<1> QED
  BY <1>2, <1>3

\* Every step is careful.
LEMMA StepIsCareful ==
    ASSUME IInv, [Next]_vars, NEW i \in Ids
    PROVE  Careful(i)
<1>1. CASE outbox' = outbox
  BY <1>1 DEF Careful
<1>2. ASSUME NEW w \in Workers, ExpireStaleLeases(w)
      PROVE  Careful(i)
  <2>1. CASE ~Stale(i, worker[w].now)
    <3>1. outbox'[i] = outbox[i]
      BY <1>2, <2>1 DEF ExpireStaleLeases
    <3> QED
      BY <3>1 DEF Careful
  <2>2. CASE Stale(i, worker[w].now)
    <3>1. outbox'[i] = ExpiredOutbox(i, worker[w].now)
      BY <1>2, <2>2 DEF ExpireStaleLeases
    <3>2. outbox'[i].requested = outbox[i].requested
      BY <3>1 DEF ExpiredOutbox, Released
    <3> QED
      BY <2>2, <3>2 DEF Careful, Stale, FinalOutbox
  <2> QED
    BY <2>1, <2>2
<1>3. ASSUME NEW w \in Workers, NEW c \in Ids, ClaimDue(w, c)
      PROVE  Careful(i)
  <2>1. Claims(worker[w].now, c)
    BY <1>3 DEF ClaimDue, Reaches, Claims, IInv, TypeOK, Worker, Ids
  <2>2. Walked(i, c)
    BY <2>1, ClaimedLeaf
  <2> QED
    BY <2>2 DEF Walked, Careful, Safe, FinalOutbox
<1>4. ASSUME NEW w \in Workers, ClaimNothing(w)
      PROVE  Careful(i)
  <2>1. Claims(worker[w].now, 0)
    BY <1>4 DEF ClaimNothing, Reaches, Claims, IInv, TypeOK, Worker, Ids
  <2>2. Walked(i, 0)
    BY <2>1, ClaimedLeaf
  <2> QED
    BY <2>2 DEF Walked, Careful, Safe, FinalOutbox
<1>5. ASSUME NEW w \in Workers, PreflightCancels(w) \/ StartCancels(w)
      PROVE  Careful(i)
  <2>1. /\ Live(w)
        /\ outbox' = [outbox EXCEPT ![worker[w].leaf] =
                        Released(@, "cancelled", "cancelled_before_send", 0)]
    BY <1>5 DEF PreflightCancels, StartCancels, CancelBeforeSend
  <2> QED
    BY <2>1, GiveBackCareful
<1>6. ASSUME NEW w \in Workers, NEW g, NEW s, NEW a, NEW n, NEW t, NEW p,
             Settle(w, g, s, a, n, t, p)
      PROVE  Careful(i)
  BY <1>6, GiveBackCareful DEF Settle
<1>7. ASSUME NEW w \in Workers,
             \/ SettleSucceeded(w) \/ SettleAmbiguous(w) \/ SettlePayload(w)
             \/ SettleStable(w) \/ SettleRetry(w) \/ SettleExhausted(w)
      PROVE  Careful(i)
  BY <1>6, <1>7 DEF SettleSucceeded, SettleAmbiguous, SettlePayload,
     SettleStable, SettleRetry, SettleExhausted
<1>8. ASSUME NEW w \in Workers, StartRequest(w)
      PROVE  Careful(i)
  <2>1. CASE i = worker[w].leaf
    BY <1>8, <2>1
    DEF Careful, StartRequest, MayStart, Live, FinalOutbox
  <2>2. CASE i # worker[w].leaf
    <3>1. outbox'[i] = outbox[i]
      BY <1>8, <2>2 DEF StartRequest, IInv, TypeOK
    <3> QED
      BY <3>1 DEF Careful
  <2> QED
    BY <2>1, <2>2
<1>9. ASSUME NEW j, \/ j \in Ids /\ CancelSafe(j)
                    \/ \E r \in Runs : ClearHistory(r) /\ j = run[r].active
      PROVE  Careful(i)
  <2>1. \/ outbox' = [outbox EXCEPT ![j] = SafeCancelled(outbox[j])]
        \/ outbox' = [outbox EXCEPT ![j] = outbox[j]]
    BY <1>9 DEF CancelSafe, ClearHistory
  <2>2. CASE i = j /\ outbox[i].status \in Safe
    <3>1. outbox'[i].requested = outbox[i].requested
      BY <2>1, <2>2 DEF IInv, TypeOK, SafeCancelled, Released
    <3> QED
      BY <2>2, <3>1 DEF Careful, Safe, FinalOutbox
  <2>3. CASE i # j \/ outbox[i].status \notin Safe
    <3>1. outbox'[i] = outbox[i]
      BY <2>1, <2>3 DEF IInv, TypeOK, SafeCancelled
    <3> QED
      BY <3>1 DEF Careful
  <2> QED
    BY <2>2, <2>3
<1>10. ASSUME NEW j \in Ids, NEW k \in Ids, CreateReplay(j, k)
       PROVE  Careful(i)
  <2>1. CASE i = k
    BY <1>10, <2>1
    DEF CreateReplay, Careful, Leaf, FinalOutbox, IInv, TypeOK
  <2>2. CASE i # k
    <3>1. outbox'[i] = outbox[i]
      BY <1>10, <2>2 DEF CreateReplay, IInv, TypeOK
    <3> QED
      BY <3>1 DEF Careful
  <2> QED
    BY <2>1, <2>2
<1>11. CASE UNCHANGED vars
  BY <1>1, <1>11 DEF vars
<1>12. CASE Next
  <2>1. ASSUME NEW w \in Workers,
               WorkerStep(w) \/ GatewayAccepts(w) \/ SettleFails(w) \/ Crash(w)
        PROVE  Careful(i)
    <3>1. \/ outbox' = outbox
          \/ ExpireStaleLeases(w) \/ (\E c \in Ids : ClaimDue(w, c))
          \/ ClaimNothing(w) \/ PreflightCancels(w) \/ StartCancels(w)
          \/ StartRequest(w)
          \/ SettleSucceeded(w) \/ SettleAmbiguous(w) \/ SettlePayload(w)
          \/ SettleStable(w) \/ SettleRetry(w) \/ SettleExhausted(w)
      BY <2>1 DEF WorkerStep, BeginCycle, PreflightPasses, PreflightMalformed,
         RefusedBeforeSend, AnswerAfterAccept, AnswerRefused, AnswerTransient,
         SettleAgain, SettleFenced, ExpiryFenced, ClaimFenced, GatewayAccepts,
         SettleFails, Crash
    <3> QED
      BY <3>1, <1>1, <1>2, <1>3, <1>4, <1>5, <1>7, <1>8
  <2>2. CASE (\E s \in Scopes : ResetCircuit(s)) \/ BeginDraining
             \/ CloseEpoch \/ Tick
    BY <2>2, <1>1 DEF ResetCircuit, BeginDraining, CloseEpoch, Tick
  <2>3. ASSUME NEW r \in Runs, RebindTask(r) \/ FenceSource(r)
        PROVE  Careful(i)
    BY <2>3, <1>1 DEF RebindTask, FenceSource
  <2> QED
    BY <1>12, <2>1, <2>2, <2>3, <1>9, <1>10 DEF Next
<1> QED
  BY <1>11, <1>12

\* A settled leaf is never written again, by any worker or operator.
THEOREM SettledForGood == Spec => FinalIsFinal
<1>1. IInv /\ [Next]_vars => [FinalKept]_vars
  BY StepIsCareful DEF FinalKept, Careful
<1> QED
  BY <1>1, Invariance, PTL DEF Spec, FinalIsFinal

\* After the user cleared the history, or the outreach row changed under its
\* run, no request of that run starts.
THEOREM ClearedIsNotSent == Spec => ClearStopsSends
<1>1. ASSUME IInv, [Next]_vars
      PROVE  NoSendAfterClear
  <2> SUFFICES ASSUME NEW i \in Ids, outbox'[i].requested, ~outbox[i].requested
               PROVE  /\ ~run'[outbox[i].run].cleared
                      /\ outbox[i].run \in Proactive =>
                            run'[outbox[i].run].bound
    BY DEF NoSendAfterClear
  <2>1. PICK w \in Workers : StartRequest(w) /\ worker[w].leaf = i
    BY <1>1, StepIsCareful DEF Careful
  <2>2. /\ run' = run /\ outbox[i].run \in Runs
        /\ ~SourceInvalid(outbox[i].run)
    BY <2>1 DEF StartRequest, MayStart, Live, IsActive
  <2> QED
    BY <1>1, <2>2 DEF IInv, Closed, SourceInvalid, Fenced
<1> QED
  BY <1>1, Invariance, PTL DEF Spec, ClearStopsSends

\* No request starts while a circuit that concerns its run is open.
THEOREM CircuitIsHonoured == Spec => CircuitStopsSends
<1>1. ASSUME IInv, [Next]_vars
      PROVE  NoSendOnOpenCircuit
  <2> SUFFICES ASSUME NEW i \in Ids, outbox'[i].requested, ~outbox[i].requested
               PROVE  ~CircuitOpen(outbox[i].run)
    BY DEF NoSendOnOpenCircuit
  <2>1. PICK w \in Workers : StartRequest(w) /\ worker[w].leaf = i
    BY <1>1, StepIsCareful DEF Careful
  <2> QED
    BY <2>1 DEF StartRequest, MayStart
<1> QED
  BY <1>1, Invariance, PTL DEF Spec, CircuitStopsSends
-----------------------------------------------------------------------------
\* A run whose outcome was never in doubt has one leaf, its active one; and a
\* plain success was never in doubt.
Chain ==
    \A r \in Runs :
        /\ ~run[r].ambiguous =>
              \A i \in Ids : outbox[i].run = r => i = run[r].active
        /\ run[r].status = "succeeded" => ~run[r].ambiguous

\* What every step but a replay does to the chains: a leaf keeps its place, and
\* a run keeps its leaf and either its columns or writes status and source
\* together, the source as long as its row stands for the run.
Placed(i) == outbox'[i].run = outbox[i].run /\ outbox'[i].seq = outbox[i].seq
Follows(r) ==
    /\ run'[r].active = run[r].active
    /\ run'[r].bound => run[r].bound
    /\ \/ /\ run'[r].status = run[r].status
          /\ run'[r].source = run[r].source
          /\ run'[r].ambiguous = run[r].ambiguous
       \/ /\ run'[r].bound => run'[r].source \in SourcesOf(run'[r].status)
          /\ run'[r].status = "succeeded" => ~run'[r].ambiguous
          /\ ~run'[r].ambiguous => ~run[r].ambiguous
InPlace == (\A i \in Ids : Placed(i)) /\ (\A r \in Runs : Follows(r))

\* Writing a run row with a source that fits keeps it in place.
LEMMA RunSetFollows ==
    ASSUME NEW r, NEW s, NEW p, run'[r] = RunSet(run[r], s, p),
           p \in SourcesOf(s), s = "succeeded" => ~run[r].ambiguous
    PROVE  Follows(r)
<1>1. /\ run'[r].status = s
      /\ run'[r].active = run[r].active
      /\ run'[r].bound = run[r].bound
      /\ run'[r].bound => run'[r].source = p
  BY DEF RunSet
<1>2. run'[r].ambiguous = (run[r].ambiguous \/ s = "ambiguous")
  BY DEF RunSet
<1>3. s = "succeeded" => ~run'[r].ambiguous
  BY <1>2
<1> QED
  BY <1>1, <1>2, <1>3 DEF Follows

\* The pairs of run status and source status the transactions write.
LEMMA Pairs ==
    /\ "failed" \in SourcesOf("failed") /\ "cancelled" \in SourcesOf("failed")
    /\ "ambiguous" \in SourcesOf("ambiguous")
    /\ "queued" \in SourcesOf("queued") /\ "retry_wait" \in SourcesOf("queued")
    /\ "delivering" \in SourcesOf("delivering")
    /\ "blocked" \in SourcesOf("blocked")
    /\ "sent" \in SourcesOf("succeeded")
    /\ "sent" \in SourcesOf("succeeded_after_ambiguous_replay")
    /\ "sent_after_ambiguous_replay"
          \in SourcesOf("succeeded_after_ambiguous_replay")
  BY DEF SourcesOf

\* Lease expiry leaves every leaf in place and writes run and source together.
LEMMA ExpireInPlace ==
    ASSUME IInv, NEW w, ExpireStaleLeases(w)
    PROVE  InPlace
<1> DEFINE at == worker[w].now
<1>1. ASSUME NEW i \in Ids
      PROVE  Placed(i)
  <2>1. outbox'[i] = IF Stale(i, at) THEN ExpiredOutbox(i, at) ELSE outbox[i]
    BY DEF ExpireStaleLeases
  <2> QED
    BY <2>1 DEF Placed, ExpiredOutbox, Released
<1>2. ASSUME NEW r \in Runs
      PROVE  Follows(r)
  <2>1. run'[r] = ExpiredRun(r, at)
    BY DEF ExpireStaleLeases
  <2>2. \/ run'[r] = run[r]
        \/ run'[r] = RunSet(run[r], "ambiguous", "ambiguous")
        \/ run'[r] = RunSet(run[r], "failed", "failed")
        \/ run'[r] = RunSet(run[r], "queued", "queued")
    BY <2>1 DEF ExpiredRun
  <2> QED
    BY <2>2, Pairs, RunSetFollows DEF Follows
<1> QED
  BY <1>1, <1>2 DEF InPlace

\* So do the writes of claim_due_outbox.
LEMMA ClaimsInPlace ==
    ASSUME IInv, NEW at, NEW c, Claims(at, c)
    PROVE  InPlace
<1>1. ASSUME NEW i \in Ids
      PROVE  Placed(i)
  <2>1. outbox'[i] = ClaimedOutbox(i, at, c)
    BY DEF Claims
  <2>2. \/ outbox'[i] = outbox[i]
        \/ outbox'[i] = Released(outbox[i], "failed", outbox[i].attempt, 0)
        \/ outbox'[i] = Leased(outbox[i], at)
        \/ outbox'[i] = Released(outbox[i], "blocked", outbox[i].attempt, 0)
    BY <2>1 DEF ClaimedOutbox
  <2> QED
    BY <2>2 DEF Placed, Released, Leased
<1>2. ASSUME NEW r \in Runs
      PROVE  Follows(r)
  <2>1. run'[r] = ClaimedRun(r, at, c)
    BY DEF Claims
  <2>2. \/ run'[r] = run[r]
        \/ run'[r] = RunSet(run[r], "failed", "failed")
        \/ run'[r] = RunSet(run[r], "delivering", "delivering")
        \/ run'[r] = RunSet(run[r], "blocked", "blocked")
    BY <2>1 DEF ClaimedRun
  <2> QED
    BY <2>2, Pairs, RunSetFollows DEF Follows
<1> QED
  BY <1>1, <1>2 DEF InPlace

\* So does a worker that gives its lease back.
LEMMA GiveBackInPlace ==
    ASSUME IInv, NEW w \in Workers, worker[w].pc \in Holding, Live(w),
           NEW s, NEW a, NEW n, NEW t, NEW p,
           outbox' = [outbox EXCEPT ![worker[w].leaf] = Released(@, s, a, n)],
           run' = [run EXCEPT ![outbox[worker[w].leaf].run] = RunSet(@, t, p)],
           p \in SourcesOf(t),
           t = "succeeded" => ~run[outbox[worker[w].leaf].run].ambiguous
    PROVE  InPlace
<1>1. PICK j \in Ids, q \in Runs : j = worker[w].leaf /\ q = outbox[j].run
  BY DEF IInv, HoldsOld, Live, IsActive
<1>2. ASSUME NEW i \in Ids
      PROVE  Placed(i)
  <2>1. CASE i = j
    <3>1. outbox'[i] = Released(outbox[i], s, a, n)
      BY <1>1, <2>1 DEF IInv, TypeOK
    <3> QED
      BY <3>1 DEF Placed, Released
  <2>2. CASE i # j
    <3>1. outbox'[i] = outbox[i]
      BY <1>1, <2>2 DEF IInv, TypeOK
    <3> QED
      BY <3>1 DEF Placed
  <2> QED
    BY <2>1, <2>2
<1>3. ASSUME NEW r \in Runs
      PROVE  Follows(r)
  <2>1. CASE r = q
    <3>1. run'[r] = RunSet(run[r], t, p)
      BY <1>1, <2>1 DEF IInv, TypeOK
    <3>2. t = "succeeded" => ~run[r].ambiguous
      BY <1>1, <2>1
    <3> QED
      BY <3>1, <3>2, RunSetFollows
  <2>2. CASE r # q
    <3>1. run'[r] = run[r]
      BY <1>1, <2>2 DEF IInv, TypeOK
    <3> QED
      BY <3>1 DEF Follows
  <2> QED
    BY <2>1, <2>2
<1> QED
  BY <1>2, <1>3 DEF InPlace

\* A settlement writes a source that fits, and calls a success plain only when
\* the outcome of the run was never in doubt.
LEMMA SettleInPlace ==
    ASSUME IInv, NEW w \in Workers,
           \/ SettleSucceeded(w) \/ SettleAmbiguous(w) \/ SettlePayload(w)
           \/ SettleStable(w) \/ SettleRetry(w) \/ SettleExhausted(w)
    PROVE  InPlace
<1> DEFINE u == run[outbox[worker[w].leaf].run]
<1>1. worker[w].pc \in Holding
  BY DEF SettleSucceeded, SettleAmbiguous, SettlePayload, SettleStable,
         SettleRetry, SettleExhausted, Holding
<1>2. ASSUME NEW g, NEW s, NEW a, NEW n, NEW t, NEW p,
             Settle(w, g, s, a, n, t, p), p \in SourcesOf(t),
             t = "succeeded" => ~u.ambiguous
      PROVE  InPlace
  <2>1. /\ Live(w)
        /\ outbox' = [outbox EXCEPT ![worker[w].leaf] = Released(@, s, a, n)]
        /\ run' = [run EXCEPT ![outbox[worker[w].leaf].run] = RunSet(@, t, p)]
    BY <1>2 DEF Settle
  <2> QED
    BY <1>1, <1>2, <2>1, GiveBackInPlace
<1>3. CASE SettleSucceeded(w)
  <2> DEFINE t == IF u.ambiguous \/ outbox[worker[w].leaf].seq > 0
                  THEN "succeeded_after_ambiguous_replay" ELSE "succeeded"
             p == IF u.ambiguous /\ outbox[worker[w].leaf].run \in Proactive
                  THEN "sent_after_ambiguous_replay" ELSE "sent"
  <2>1. Settle(w, {"success"}, "delivered", "succeeded", 0, t, p)
    BY <1>3 DEF SettleSucceeded
  <2>2. p \in SourcesOf(t)
    BY Pairs
  <2>3. t = "succeeded" => ~u.ambiguous
    OBVIOUS
  <2> HIDE DEF t, p, u
  <2> QED
    BY <1>2, <2>1, <2>2, <2>3
<1>4. CASE SettleAmbiguous(w)
  BY <1>2, <1>4, Pairs DEF SettleAmbiguous
<1>5. CASE SettlePayload(w)
  BY <1>2, <1>5, Pairs DEF SettlePayload
<1>6. CASE SettleStable(w)
  BY <1>2, <1>6, Pairs DEF SettleStable
<1>7. CASE SettleRetry(w)
  BY <1>2, <1>7, Pairs DEF SettleRetry
<1>8. CASE SettleExhausted(w)
  BY <1>2, <1>8, Pairs DEF SettleExhausted
<1> QED
  BY <1>3, <1>4, <1>5, <1>6, <1>7, <1>8

\* So do the cancellations before the request.
LEMMA CancelInPlace ==
    ASSUME IInv, NEW w \in Workers, PreflightCancels(w) \/ StartCancels(w)
    PROVE  InPlace
<1>1. /\ worker[w].pc \in Holding
      /\ Live(w)
      /\ outbox' = [outbox EXCEPT ![worker[w].leaf] =
                      Released(@, "cancelled", "cancelled_before_send", 0)]
      /\ run' = [run EXCEPT ![outbox[worker[w].leaf].run] =
                   RunSet(@, "failed", "cancelled")]
  BY DEF PreflightCancels, StartCancels, CancelBeforeSend, Holding
<1> QED
  BY <1>1, Pairs, GiveBackInPlace

\* An administrator's cancellation, and the user's clear point.
LEMMA WithdrawInPlace ==
    ASSUME IInv, \/ \E i \in Ids : CancelSafe(i)
                 \/ \E r \in Runs : ClearHistory(r)
    PROVE  InPlace
<1>1. PICK j \in Ids : \/ outbox' = [outbox EXCEPT ![j] = SafeCancelled(@)]
                       \/ outbox' = [outbox EXCEPT ![j] = @]
  BY DEF CancelSafe, ClearHistory, IInv, TypeOK, Run
<1>2. ASSUME NEW i \in Ids
      PROVE  Placed(i)
  <2>1. outbox'[i] \in {outbox[i],
                        Released(outbox[i], "cancelled", outbox[i].attempt, 0)}
    BY <1>1 DEF IInv, TypeOK, SafeCancelled
  <2> QED
    BY <2>1 DEF Placed, Released
<1>3. ASSUME NEW i \in Ids, CancelSafe(i), NEW r \in Runs
      PROVE  Follows(r)
  <2>1. run'[r] = run[r] \/ run'[r] = RunSet(run[r], "failed", "cancelled")
    BY <1>3 DEF CancelSafe, IInv, TypeOK
  <2> QED
    BY <2>1, Pairs, RunSetFollows DEF Follows
<1>4. ASSUME NEW q \in Runs, ClearHistory(q), NEW r \in Runs
      PROVE  Follows(r)
  <2>1. CASE r # q
    <3>1. run'[r] = run[r]
      BY <1>4, <2>1 DEF ClearHistory, IInv, TypeOK
    <3> QED
      BY <3>1 DEF Follows
  <2>2. CASE r = q
    <3> DEFINE s == outbox[run[r].active].status \in Safe /\ ~Fenced(r)
    <3>1. run'[r] = [status |-> IF s THEN "failed" ELSE run[r].status,
                     active |-> run[r].active, ambiguous |-> run[r].ambiguous,
                     cleared |-> TRUE, bound |-> run[r].bound,
                     source |-> IF s THEN "cancelled" ELSE run[r].source]
      BY <1>4, <2>2 DEF ClearHistory, IInv, TypeOK
    <3>2. /\ run'[r].active = run[r].active
          /\ run'[r].ambiguous = run[r].ambiguous
          /\ run'[r].bound = run[r].bound
          /\ run'[r].status = IF s THEN "failed" ELSE run[r].status
          /\ run'[r].source = IF s THEN "cancelled" ELSE run[r].source
      BY <3>1
    <3> HIDE DEF s
    <3> QED
      BY <3>2, Pairs DEF Follows
  <2> QED
    BY <2>1, <2>2
<1> QED
  BY <1>2, <1>3, <1>4 DEF InPlace

\* Every step but a replay leaves the chains in place.
LEMMA StepsInPlace ==
    ASSUME IInv, [Next]_vars
    PROVE  InPlace \/ \E i, k \in Ids : CreateReplay(i, k)
<1>1. CASE outbox' = outbox /\ run' = run
  BY <1>1 DEF InPlace, Placed, Follows
<1>2. ASSUME NEW w \in Workers, NEW c \in Ids, ClaimDue(w, c)
      PROVE  InPlace
  <2>1. Claims(worker[w].now, c)
    BY <1>2 DEF ClaimDue, Reaches, Claims, IInv, TypeOK, Worker, Ids
  <2> QED
    BY <2>1, ClaimsInPlace
<1>3. ASSUME NEW w \in Workers, ClaimNothing(w)
      PROVE  InPlace
  <2>1. Claims(worker[w].now, 0)
    BY <1>3 DEF ClaimNothing, Reaches, Claims, IInv, TypeOK, Worker, Ids
  <2> QED
    BY <2>1, ClaimsInPlace
<1>4. ASSUME NEW w \in Workers, StartRequest(w)
      PROVE  InPlace
  <2>1. run' = run
    BY <1>4 DEF StartRequest
  <2>2. ASSUME NEW i \in Ids
        PROVE  Placed(i)
    <3>1. outbox'[i] = outbox[i] \/ outbox'[i] = Requested(outbox[i])
      BY <1>4 DEF StartRequest, IInv, TypeOK
    <3> QED
      BY <3>1 DEF Placed, Requested
  <2> QED
    BY <2>1, <2>2 DEF InPlace, Follows
<1>5. CASE UNCHANGED vars
  BY <1>1, <1>5 DEF vars
<1>6. CASE Next
  <2>1. ASSUME NEW w \in Workers,
               WorkerStep(w) \/ GatewayAccepts(w) \/ SettleFails(w) \/ Crash(w)
        PROVE  InPlace
    <3>1. \/ outbox' = outbox /\ run' = run
          \/ ExpireStaleLeases(w) \/ (\E c \in Ids : ClaimDue(w, c))
          \/ ClaimNothing(w) \/ PreflightCancels(w) \/ StartCancels(w)
          \/ StartRequest(w)
          \/ SettleSucceeded(w) \/ SettleAmbiguous(w) \/ SettlePayload(w)
          \/ SettleStable(w) \/ SettleRetry(w) \/ SettleExhausted(w)
      BY <2>1 DEF WorkerStep, BeginCycle, PreflightPasses, PreflightMalformed,
         RefusedBeforeSend, AnswerAfterAccept, AnswerRefused, AnswerTransient,
         SettleAgain, SettleFenced, ExpiryFenced, ClaimFenced, GatewayAccepts,
         SettleFails, Crash
    <3>2. CASE ExpireStaleLeases(w)
      BY <3>2, ExpireInPlace
    <3>3. CASE PreflightCancels(w) \/ StartCancels(w)
      BY <3>3, CancelInPlace
    <3>4. CASE \/ SettleSucceeded(w) \/ SettleAmbiguous(w) \/ SettlePayload(w)
               \/ SettleStable(w) \/ SettleRetry(w) \/ SettleExhausted(w)
      BY <3>4, SettleInPlace
    <3>5. CASE outbox' = outbox /\ run' = run
      BY <3>5 DEF InPlace, Placed, Follows
    <3> QED
      BY <3>1, <3>2, <3>3, <3>4, <3>5, <1>2, <1>3, <1>4
  <2>2. CASE (\E s \in Scopes : ResetCircuit(s)) \/ BeginDraining
             \/ CloseEpoch \/ Tick
    BY <2>2, <1>1 DEF ResetCircuit, BeginDraining, CloseEpoch, Tick
  <2>3. CASE (\E i \in Ids : CancelSafe(i)) \/ (\E r \in Runs : ClearHistory(r))
    BY <2>3, WithdrawInPlace
  <2>4. ASSUME NEW q \in Runs, RebindTask(q) \/ FenceSource(q)
        PROVE  InPlace
    <3>1. outbox' = outbox /\ run' = [run EXCEPT ![q] = Unbound(run[q])]
      BY <2>4 DEF RebindTask, FenceSource
    <3>2. ASSUME NEW r \in Runs
          PROVE  Follows(r)
      <4>1. run'[r] = run[r] \/ run'[r] = Unbound(run[r])
        BY <3>1 DEF IInv, TypeOK
      <4> QED
        BY <4>1 DEF Follows, Unbound
    <3> QED
      BY <3>1, <3>2 DEF InPlace, Placed
  <2> QED
    BY <1>6, <2>1, <2>2, <2>3, <2>4 DEF Next
<1> QED
  BY <1>5, <1>6

\* A step that leaves the chains in place keeps Chain and SourceMirrorsRun.
LEMMA InPlaceKeeps ==
    ASSUME IInv, Chain, SourceMirrorsRun, InPlace
    PROVE  Chain' /\ SourceMirrorsRun'
<1> SUFFICES ASSUME NEW r \in Runs
             PROVE  /\ ~run'[r].ambiguous =>
                          \A i \in Ids : outbox'[i].run = r => i = run'[r].active
                    /\ run'[r].status = "succeeded" => ~run'[r].ambiguous
                    /\ \/ ~run'[r].bound
                       \/ run'[r].source \in SourcesOf(run'[r].status)
                       \/ /\ run'[r].source = "ambiguous"
                          /\ run'[r].status = "queued"
                          /\ outbox'[run'[r].active].seq > 0
  BY DEF Chain, SourceMirrorsRun
<1>1. Follows(r) /\ \A i \in Ids : Placed(i)
  BY DEF InPlace
<1>2. run[r].active \in Ids
  BY DEF IInv, TypeOK, Run
<1>3. ASSUME ~run'[r].ambiguous, NEW i \in Ids, outbox'[i].run = r
      PROVE  i = run'[r].active
  <2>1. ~run[r].ambiguous /\ run'[r].active = run[r].active
    BY <1>1, <1>3 DEF Follows
  <2>2. outbox[i].run = r
    BY <1>1, <1>3 DEF Placed
  <2> QED
    BY <2>1, <2>2 DEF Chain
<1>4. run'[r].status = "succeeded" => ~run'[r].ambiguous
  BY <1>1 DEF Follows, Chain
<1>5. outbox'[run'[r].active].seq = outbox[run[r].active].seq
  BY <1>1, <1>2 DEF Follows, Placed
<1>6. \/ ~run'[r].bound
      \/ run'[r].source \in SourcesOf(run'[r].status)
      \/ /\ run'[r].source = "ambiguous"
         /\ run'[r].status = "queued"
         /\ outbox'[run'[r].active].seq > 0
  BY <1>1, <1>5 DEF Follows, SourceMirrorsRun
<1> QED
  BY <1>3, <1>4, <1>6

\* A replay adds a leaf to a chain whose outcome is in doubt, and leaves the
\* source at "ambiguous".
LEMMA ReplayKeepsChains ==
    ASSUME IInv, Chain, SourceMirrorsRun,
           NEW i \in Ids, NEW k \in Ids, CreateReplay(i, k)
    PROVE  Chain' /\ SourceMirrorsRun'
<1> SUFFICES ASSUME NEW r \in Runs
             PROVE  /\ ~run'[r].ambiguous =>
                          \A j \in Ids : outbox'[j].run = r => j = run'[r].active
                    /\ run'[r].status = "succeeded" => ~run'[r].ambiguous
                    /\ \/ ~run'[r].bound
                       \/ run'[r].source \in SourcesOf(run'[r].status)
                       \/ /\ run'[r].source = "ambiguous"
                          /\ run'[r].status = "queued"
                          /\ outbox'[run'[r].active].seq > 0
  BY DEF Chain, SourceMirrorsRun
<1>1. PICK q \in Runs : q = outbox[i].run
  BY DEF CreateReplay, IsActive
<1>2. /\ outbox'[k] = Leaf(q, outbox[i].seq + 1, "pending")
      /\ \A j \in Ids : j # k => outbox'[j] = outbox[j]
      /\ \A t \in Runs : t # q => run'[t] = run[t]
      /\ run'[q] = [status |-> "queued", active |-> k, ambiguous |-> TRUE,
                    cleared |-> run[q].cleared, bound |-> run[q].bound,
                    source |-> run[q].source]
      /\ run[q].status = "ambiguous"
      /\ outbox[k].status = "absent"
  BY <1>1 DEF CreateReplay, IInv, TypeOK
<1>3. outbox'[k].run = q /\ outbox'[k].seq = outbox[i].seq + 1
  BY <1>2 DEF Leaf
<1>4. CASE r = q
  <2>1. run'[r].ambiguous = TRUE
    BY <1>2, <1>4
  <2>2. /\ run'[r].status = "queued" /\ run'[r].active = k
        /\ run'[r].source = run[r].source
        /\ run'[r].bound = run[r].bound
    BY <1>2, <1>4
  <2>3. run[r].bound => run[r].source = "ambiguous"
    BY <1>2, <1>4 DEF SourceMirrorsRun, SourcesOf
  <2>4. outbox'[k].seq > 0
    BY <1>3 DEF IInv, TypeOK, Outbox
  <2> QED
    BY <2>1, <2>2, <2>3, <2>4
<1>5. CASE r # q
  <2>1. run'[r] = run[r]
    BY <1>2, <1>5
  <2>2. run[r].active \in Ids /\ run[r].active # k
    BY <1>2 DEF IInv, TypeOK, Run, RunMirrorsLeaf, Mirrors
  <2>3. outbox'[run[r].active] = outbox[run[r].active]
    BY <1>2, <2>2
  <2>4. ASSUME NEW j \in Ids, outbox'[j].run = r
        PROVE  outbox[j].run = r
    BY <1>2, <1>3, <1>5, <2>4
  <2> QED
    BY <2>1, <2>3, <2>4 DEF Chain, SourceMirrorsRun
<1> QED
  BY <1>4, <1>5

\* Initially every run has one leaf and its source is queued with it.
LEMMA InitChains == Init => Chain /\ SourceMirrorsRun
<1> SUFFICES ASSUME Init, NEW r \in Runs
             PROVE  /\ ~run[r].ambiguous =>
                          \A i \in Ids : outbox[i].run = r => i = run[r].active
                    /\ run[r].status = "succeeded" => ~run[r].ambiguous
                    /\ run[r].source \in SourcesOf(run[r].status)
  BY DEF Chain, SourceMirrorsRun
<1>1. /\ run[r].status = "queued" /\ run[r].source = "queued"
      /\ run[r].active = r
  BY DEF Init
<1>2. ASSUME NEW i \in Ids, outbox[i].run = r
      PROVE  i = r
  BY <1>2, SizeAssumption DEF Init, Leaf, Runs, Ids
<1> QED
  BY <1>1, <1>2, Pairs

\* The chains of leaves and the source rows, for every behaviour.
THEOREM Chains == Spec => [](Chain /\ SourceMirrorsRun)
<1>1. IInv /\ (Chain /\ SourceMirrorsRun) /\ [Next]_vars
        => (Chain /\ SourceMirrorsRun)'
  BY StepsInPlace, InPlaceKeeps, ReplayKeepsChains
<1> QED
  BY <1>1, InitChains, Invariance, PTL DEF Spec

\* As long as the scheduled task or the proactive log stands for the run, the
\* status a user sees on it is never one the run does not have: every
\* transaction that moves a run projects it on the source row or moves nothing,
\* and only a replay leaves it behind, at "ambiguous".
THEOREM SourceFollowsRun == Spec => []SourceMirrorsRun
<1>1. Chain /\ SourceMirrorsRun => SourceMirrorsRun
  OBVIOUS
<1> QED
  BY <1>1, Chains, PTL

\* Counting the copies of a run from its chain.
LEMMA CountCopies ==
    ASSUME IInv, Chain
    PROVE  PlainSuccessIsOneCopy
<1> SUFFICES ASSUME NEW r \in Runs
             PROVE  /\ run[r].status = "succeeded" => CopiesOf(r) = 1
                    /\ CopiesOf(r) > 1 => run[r].ambiguous
  BY DEF PlainSuccessIsOneCopy
<1> DEFINE S == {i \in Ids : outbox[i].run = r /\ accepted[i] > 0}
           a == run[r].active
<1>1. CopiesOf(r) = Cardinality(S)
  BY DEF CopiesOf
<1>2. a \in Ids /\ outbox[a].run = r
  BY DEF IInv, TypeOK, Run, RunMirrorsLeaf
<1>3. ASSUME ~run[r].ambiguous
      PROVE  S \in SUBSET {a}
  BY <1>3 DEF Chain
<1>4. ASSUME run[r].status = "succeeded"
      PROVE  CopiesOf(r) = 1
  <2>1. ~run[r].ambiguous
    BY <1>4 DEF Chain
  <2>2. outbox[a].status = "delivered"
    BY <1>4 DEF IInv, RunMirrorsLeaf, Mirrors
  <2>3. accepted[a] = 1
    BY <1>2, <2>2 DEF IInv, CopiesMatchStatus
  <2>4. a \in S
    BY <1>2, <2>3
  <2>5. S = {a}
    BY <1>3, <2>1, <2>4
  <2> HIDE DEF S, a
  <2> QED
    BY <1>1, <2>5, FS_Singleton
<1>5. ASSUME ~run[r].ambiguous
      PROVE  ~(CopiesOf(r) > 1)
  <2>1. S \in SUBSET {a}
    BY <1>3, <1>5
  <2> HIDE DEF S, a
  <2>2. IsFiniteSet({a}) /\ Cardinality({a}) = 1
    BY FS_Singleton
  <2>3. Cardinality(S) \in Nat /\ Cardinality(S) <= 1
    BY <2>1, <2>2, FS_Subset, FS_CardinalityType
  <2> QED
    BY <1>1, <2>3
<1> QED
  BY <1>4, <1>5

\* A run that is reported as plainly succeeded put exactly one copy in the chat,
\* and a second copy is only ever made under the mark of the replay.
THEOREM PlainSuccess == Spec => []PlainSuccessIsOneCopy
<1>1. IInv /\ (Chain /\ SourceMirrorsRun) => PlainSuccessIsOneCopy
  BY CountCopies
<1> QED
  BY <1>1, Invariance, Chains, PTL
=============================================================================
