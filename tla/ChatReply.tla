----------------------------- MODULE ChatReply -----------------------------
(***************************************************************************)
(* One private message and everything that may answer it.                  *)
(*                                                                         *)
(* The client sends the message as often as it likes: each request of Reqs *)
(* is one POST /chat with the same message id.  The requests compete for   *)
(* the claim on the message (inbound_message_claims); the one that gets it *)
(* runs the agent, writes the answer and a recovery marker to the request  *)
(* journal in one transaction, and completes the claim in another.  When   *)
(* the client of a stream is gone, the answer is registered in             *)
(* chat_delivery_outbox instead, and pushed by the request's own delivery  *)
(* task or by a worker.                                                    *)
(*                                                                         *)
(* Every database transaction is one step, and any of them may fail.  A    *)
(* request acquires at most once and draws a fresh token, so the request   *)
(* itself is its token, and also the name of the answer it computes.       *)
(* Leases carry no numbers: a lease that is not renewed may run out at any *)
(* moment (LeaseExpires, DeliveryLeaseExpires), and renewing it takes that *)
(* back.  The guard of DeliveryLeaseExpires states what clocks rule out.    *)
(***************************************************************************)
EXTENDS Naturals, FiniteSets

CONSTANTS Reqs,     \* requests for the message
          Blank,    \* those for which the agent returns an empty answer
          Workers,  \* delivery workers
          Early     \* the completion of a message that is not answered

None == "none"
Answers == Reqs \cup {Early}
Publishers == Reqs \cup Workers

ASSUME NamesAssumption ==
    /\ Blank \subseteq Reqs
    /\ Reqs \cap Workers = {}
    /\ Early \notin Reqs /\ None \notin Answers \cup Workers

VARIABLES
    claim,   \* the InboundMessageClaim row
    marker,  \* inbound_claim_recovery of the request journal
    rows,    \* assistant ChatLog rows of the message, by author
    req,     \* the requests
    outbox,  \* the ChatDeliveryOutbox row
    pub,     \* whoever publishes: delivery tasks and workers
    shown,   \* answers the gateway took
    late     \* a lease ran out under a request on its way to a write

vars == <<claim, marker, rows, req, outbox, pub, shown, late>>

-----------------------------------------------------------------------------
(* Rows *)

Claim == [status : {"absent", "processing", "completed", "failed"},
          owner : Reqs \cup {None}, attempts : Nat, expired : BOOLEAN,
          response : Answers \cup {None}]

Places == {"new", "acquired", "preparing", "finishing", "cold", "starting",
           "running", "returned", "answered", "persisted", "completing",
           "handing", "registering", "closing", "delivering", "failing",
           "ended", "dead"}

Request == [pc : Places,
            stream : BOOLEAN,     \* req.stream
            first : BOOLEAN,      \* handle.attempt_count <= 1
            gone : BOOLEAN,       \* the client of the stream has left
            renewing : BOOLEAN,   \* the renewal loop is running
            unusable : BOOLEAN,   \* owner._unusable_event
            settled : BOOLEAN,    \* claim_completion_succeeded
            exact : BOOLEAN,      \* its row holds the answer as it was given
            answer : Answers \cup {None},
            told : {"nothing", "duplicate", "error", "answer", "lost"}]

Delivery == [status : {"absent", "pending", "sending", "ambiguous",
                       "delivered", "failed"},
             owner : Publishers \cup {None}, expired : BOOLEAN,
             due : BOOLEAN, envelope : Answers \cup {None}]

Publisher == [pc : {"idle", "sending", "taken", "settling"},
              result : {None, "delivered", "failed", "ambiguous"}]

TypeOK ==
    /\ claim \in Claim
    /\ marker \in Answers \cup {None}
    /\ rows \subseteq Reqs
    /\ req \in [Reqs -> Request]
    /\ outbox \in Delivery
    /\ pub \in [Publishers -> Publisher]
    /\ shown \subseteq Answers
    /\ late \in BOOLEAN

NewRequest ==
    [pc |-> "new", stream |-> FALSE, first |-> FALSE, gone |-> FALSE,
     renewing |-> FALSE, unusable |-> FALSE, settled |-> FALSE,
     exact |-> TRUE, answer |-> None, told |-> "nothing"]

Idle == [pc |-> "idle", result |-> None]

Init ==
    /\ claim = [status |-> "absent", owner |-> None, attempts |-> 0,
                expired |-> FALSE, response |-> None]
    /\ marker = None
    /\ rows = {}
    /\ req = [q \in Reqs |-> NewRequest]
    /\ outbox = [status |-> "absent", owner |-> None, expired |-> FALSE,
                 due |-> FALSE, envelope |-> None]
    /\ pub = [p \in Publishers |-> Idle]
    /\ shown = {}
    /\ late = FALSE

-----------------------------------------------------------------------------
(* The claim: core/inbound_idempotency.py *)

\* Mutant of Owns: the owner token is not compared.
OwnsAnyway(q) == claim.status = "processing"

\* The fence of renew, complete and fail.
Owns(q) == claim.status = "processing" /\ claim.owner = q

\* Mutant of MayTakeOver: the lease is not looked at.
MayTakeOverLive == claim.status \in {"failed", "processing"}

\* takeover_statement
MayTakeOver == \/ claim.status = "failed"
               \/ claim.status = "processing" /\ claim.expired

Renewed == [claim EXCEPT !.expired = FALSE]
Completed(a) == [claim EXCEPT !.status = "completed", !.expired = FALSE,
                              !.response = a]

\* Mutant of Failed: the word of the route for the status of the claim.
FailedRaw == [claim EXCEPT !.status = "error", !.expired = FALSE,
                           !.response = None]

Failed == [claim EXCEPT !.status = "failed", !.expired = FALSE,
                        !.response = None]

At(q, pc) == req[q].pc = pc
Becomes(q, row) == req' = [req EXCEPT ![q] = row]
Goto(q, pc) == Becomes(q, [req[q] EXCEPT !.pc = pc])

\* The request is over and what it had in memory is gone: there remain how its
\* row was written and what its client was told.
Over(q, told) ==
    [NewRequest EXCEPT !.pc = "ended", !.told = told, !.exact = req[q].exact,
                       !.answer = IF told = "answer" THEN req[q].answer ELSE None]
Ends(q) == Becomes(q, Over(q, req[q].told))

\* An exception: the claim is to be failed, and a client that is still there
\* is told of an error.
Error(q) == IF req[q].gone THEN "nothing" ELSE "error"
Fails(q) == Becomes(q, [req[q] EXCEPT !.pc = "failing", !.told = Error(q)])

\* acquire_inbound_claim inserts the row or takes it over; start() starts the
\* renewal loop.
Acquire(q, stream) ==
    /\ At(q, "new")
    /\ claim.status = "absent" \/ MayTakeOver
    /\ claim' = [status |-> "processing", owner |-> q,
                 attempts |-> claim.attempts + 1, expired |-> FALSE,
                 response |-> None]
    /\ Becomes(q, [req[q] EXCEPT !.pc = "acquired", !.stream = stream,
                                 !.first = claim.attempts = 0,
                                 !.renewing = TRUE])
    /\ UNCHANGED <<marker, rows, outbox, pub, shown, late>>

\* DUPLICATE_INFLIGHT
DuplicateInflight(q) ==
    /\ At(q, "new")
    /\ claim.status = "processing" /\ ~MayTakeOver
    /\ Becomes(q, [req[q] EXCEPT !.pc = "ended", !.told = "duplicate"])
    /\ UNCHANGED <<claim, marker, rows, outbox, pub, shown, late>>

\* REPLAY: the stored response answers the request.
Replay(q) ==
    /\ At(q, "new")
    /\ claim.status = "completed"
    /\ Becomes(q, [req[q] EXCEPT !.pc = "ended", !.told = "answer",
                                 !.answer = claim.response])
    /\ UNCHANGED <<claim, marker, rows, outbox, pub, shown, late>>

\* From here to its next write the request does not look at its claim again:
\* persist_claimed_chat_turn and the early completions are not fenced.
Unfenced(q) == req[q].pc \in {"acquired", "preparing", "answered"}

\* The lease runs out: the renewal loop has stopped or the process stands still
\* for a whole lease.  Of an unfenced request late keeps a record; one that has
\* lost its loop gets there also by a client that is slow to read its stream,
\* since the events are yielded between the last checkpoint and the write.
LeaseExpires ==
    /\ claim.status = "processing" /\ ~claim.expired
    /\ claim' = [claim EXCEPT !.expired = TRUE]
    /\ late' = (late \/ Unfenced(claim.owner))
    /\ UNCHANGED <<marker, rows, req, outbox, pub, shown>>

\* One turn of _renew_loop.
Renew(q) ==
    /\ req[q].renewing /\ Owns(q) /\ claim.expired
    /\ claim' = Renewed
    /\ UNCHANGED <<marker, rows, req, outbox, pub, shown, late>>

\* The loop meets a database error or finds the claim gone; it stops and sets
\* the unusable event.
RenewalStops(q) ==
    /\ req[q].renewing
    /\ Becomes(q, [req[q] EXCEPT !.renewing = FALSE, !.unusable = TRUE])
    /\ UNCHANGED <<claim, marker, rows, outbox, pub, shown, late>>

-----------------------------------------------------------------------------
(* The route up to the agent: api/routes.py, api/chat_persistence.py *)

\* sanitize_persisted_content: what the assistant row holds is the answer,
\* unless a host path, inline data or an asset token was cut out of it.
HoldsAnswer(q) == req[q].exact

\* load_private_recoverable_completion: the marker of an answer must have one
\* assistant row, and the row must hold that answer.
Recoverable ==
    marker = Early \/ (marker \in Reqs /\ rows = {marker} /\ HoldsAnswer(marker))

\* Mutant of JournalPhase: a take-over does not look for a completion.
JournalPhaseBlind(q) ==
    /\ At(q, "acquired")
    /\ Goto(q, "preparing")
    /\ UNCHANGED <<claim, marker, rows, outbox, pub, shown, late>>

\* journal_phase: a take-over that finds a completion recovers it, and stops
\* when the journal contradicts itself.
JournalPhase(q) ==
    /\ At(q, "acquired")
    /\ \/ /\ req[q].first \/ marker = None
          /\ Goto(q, "preparing")
       \/ /\ ~req[q].first /\ marker # None /\ Recoverable
          /\ Becomes(q, [req[q] EXCEPT !.pc = "finishing", !.answer = marker])
       \/ /\ ~req[q].first /\ marker # None /\ ~Recoverable
          /\ Fails(q)
    /\ UNCHANGED <<claim, marker, rows, outbox, pub, shown, late>>

\* persist_private_claim_completion: blocked, silent and the other outcomes
\* without an answer.
PersistEarly(q) ==
    /\ At(q, "preparing")
    /\ \/ /\ marker \in {None, Early}
          /\ marker' = Early
          /\ Becomes(q, [req[q] EXCEPT !.pc = "finishing", !.answer = Early])
       \/ /\ marker \notin {None, Early}
          /\ marker' = marker
          /\ Fails(q)
    /\ UNCHANGED <<claim, rows, outbox, pub, shown, late>>

\* persist_claimed_response with an answer: a template for small talk, or what
\* is archived for a silenced message, is written without running the agent.
\* There is nothing in a template to be cleaned.
PersistReply(q, a) ==
    /\ At(q, "preparing")
    /\ rows' = rows \cup {q}
    /\ marker' = a
    /\ Becomes(q, [req[q] EXCEPT !.pc = "finishing", !.answer = a])
    /\ UNCHANGED <<claim, outbox, pub, shown, late>>

\* The request goes to the agent; a stream first waits, without renewal, for
\* the client to pull its body.
Prepared(q) ==
    /\ At(q, "preparing")
    /\ Becomes(q, [req[q] EXCEPT
                      !.pc = IF req[q].stream THEN "cold" ELSE "starting",
                      !.renewing = req[q].renewing /\ ~req[q].stream])
    /\ UNCHANGED <<claim, marker, rows, outbox, pub, shown, late>>

\* ColdChatStreamingBody.__anext__: the first pull resumes the owner, which
\* renews the claim or finds it gone.
Pull(q) ==
    /\ At(q, "cold")
    /\ \/ /\ Owns(q)
          /\ claim' = Renewed
          /\ Becomes(q, [req[q] EXCEPT !.pc = "starting", !.renewing = TRUE])
       \/ /\ ~Owns(q)
          /\ claim' = claim
          /\ Becomes(q, [req[q] EXCEPT !.pc = "failing", !.told = "error",
                                       !.unusable = TRUE])
    /\ UNCHANGED <<marker, rows, outbox, pub, shown, late>>

\* Any step up to the write of the answer may raise: a database error, the
\* agent, the prompt audit, a stream closed before its first pull.
Raises(q) ==
    /\ req[q].pc \in {"acquired", "preparing", "cold", "starting", "running",
                      "returned", "answered"}
    /\ Fails(q)
    /\ UNCHANGED <<claim, marker, rows, outbox, pub, shown, late>>

-----------------------------------------------------------------------------
(* The agent under its guard: api/chat_route_runner.py *)

\* InboundClaimOwner.checkpoint: a fenced renewal.
Checkpoint(q, from, to) ==
    /\ At(q, from)
    /\ \/ Owns(q) /\ claim' = Renewed /\ Goto(q, to)
       \/ ~Owns(q) /\ claim' = claim /\ Fails(q)
    /\ UNCHANGED <<marker, rows, outbox, pub, shown, late>>

CheckpointBefore(q) == Checkpoint(q, "starting", "running")
CheckpointAfter(q) == Checkpoint(q, "returned", "answered")

\* wait_unusable wins the race against the agent.
GuardCancels(q) ==
    /\ At(q, "running") /\ req[q].unusable
    /\ Fails(q)
    /\ UNCHANGED <<claim, marker, rows, outbox, pub, shown, late>>

\* The agent returns and the guard has not fired.
AgentReturns(q) ==
    /\ At(q, "running") /\ ~req[q].unusable
    /\ Goto(q, "returned")
    /\ UNCHANGED <<claim, marker, rows, outbox, pub, shown, late>>

\* persist_claimed_chat_turn: assistant row and marker in one transaction.
\* It looks at the journal, not at the claim, and replaces a marker.
Persist(q) ==
    /\ At(q, "answered")
    /\ rows' = rows \cup {q}
    /\ marker' = q
    /\ \E exact \in BOOLEAN :
         /\ q \in Blank => exact
         /\ Becomes(q, [req[q] EXCEPT
                           !.answer = q, !.exact = exact,
                           !.pc = IF req[q].stream THEN "persisted"
                                                   ELSE "finishing"])
    /\ UNCHANGED <<claim, outbox, pub, shown, late>>

-----------------------------------------------------------------------------
(* The end of a request that answers over its own connection *)

\* Mutant of Completes: the update does not look at the row.
CompletesAnyway(q) == claim' = Completed(req[q].answer)

\* complete_inbound_claim under its fence.
Completes(q) == Owns(q) /\ claim' = Completed(req[q].answer)

\* complete() raises: the claim is lost, or the database refuses, or the
\* commit is done and its acknowledgement lost.
CompletionRaises(q) ==
    /\ claim' = claim \/ Completes(q)
    /\ Becomes(q, [req[q] EXCEPT !.pc = "failing", !.told = Error(q),
                                 !.renewing = FALSE])

\* A completion without stream: early, recovered, or of a plain request.
Finish(q) ==
    /\ At(q, "finishing")
    /\ \/ /\ Completes(q)
          /\ Becomes(q, Over(q, "answer"))
       \/ CompletionRaises(q)
    /\ UNCHANGED <<marker, rows, outbox, pub, shown, late>>

\* complete_claim_once starts the completion of a stream that is still read.
BeginCompletion(q) ==
    /\ At(q, "persisted") /\ ~req[q].gone
    /\ Goto(q, "completing")
    /\ UNCHANGED <<claim, marker, rows, outbox, pub, shown, late>>

CompleteStream(q) ==
    /\ At(q, "completing")
    /\ \/ /\ Completes(q)
          /\ Becomes(q, [req[q] EXCEPT !.pc = "handing", !.settled = TRUE,
                                       !.renewing = FALSE])
       \/ CompletionRaises(q)
    /\ UNCHANGED <<marker, rows, outbox, pub, shown, late>>

\* done_handed_off is set and the done event is yielded; the connection may
\* break under it.
HandOff(q) ==
    /\ At(q, "handing") /\ ~req[q].gone
    /\ \E t \in {"answer", "lost"} :
           Becomes(q, Over(q, t))
    /\ UNCHANGED <<claim, marker, rows, outbox, pub, shown, late>>

\* The client of a stream leaves; the generator is closed, the agent and the
\* finalizer go on.
Disconnect(q) ==
    /\ req[q].stream /\ ~req[q].gone
    /\ req[q].pc \in {"starting", "running", "returned", "answered",
                      "persisted", "completing", "handing"}
    /\ Becomes(q, [req[q] EXCEPT !.gone = TRUE])
    /\ UNCHANGED <<claim, marker, rows, outbox, pub, shown, late>>

\* _best_effort_fail_claim
FailClaim(q) ==
    /\ At(q, "failing")
    /\ claim' = claim \/ (Owns(q) /\ claim' = Failed)
    /\ Ends(q)
    /\ UNCHANGED <<marker, rows, outbox, pub, shown, late>>

\* The process of a request dies, and all it had in memory; of its row remains
\* how it was written.
Crash(q) ==
    /\ req[q].pc \notin {"new", "ended", "dead"}
    /\ Becomes(q, [NewRequest EXCEPT !.pc = "dead", !.exact = req[q].exact])
    /\ UNCHANGED <<claim, marker, rows, outbox, pub, shown, late>>

-----------------------------------------------------------------------------
(* deliver_after_finalizer: the client is gone *)

BeginDelivery(q) ==
    /\ req[q].pc \in {"persisted", "handing"} /\ req[q].gone
    /\ Goto(q, "registering")
    /\ UNCHANGED <<claim, marker, rows, outbox, pub, shown, late>>

\* Where deliver_after_finalizer goes once the delivery is registered.
AfterRegistration(q) == IF req[q].settled THEN "delivering" ELSE "closing"

\* An empty answer registers nothing.
RegisterNothing(q) ==
    /\ At(q, "registering") /\ q \in Blank
    /\ Goto(q, IF req[q].settled THEN "ended" ELSE "closing")
    /\ UNCHANGED <<claim, marker, rows, outbox, pub, shown, late>>

\* enqueue_chat_delivery inserts the row or keeps the one that is there.
Registered(q) ==
    IF outbox.status = "absent"
    THEN [status |-> "pending", owner |-> None, expired |-> FALSE,
          due |-> TRUE, envelope |-> req[q].answer]
    ELSE outbox

Register(q) ==
    /\ At(q, "registering") /\ q \notin Blank
    /\ \/ /\ outbox.status = "absent" \/ outbox.envelope = req[q].answer
          /\ outbox' = Registered(q)
          /\ Goto(q, AfterRegistration(q))
       \/ outbox' = outbox /\ Fails(q)
    /\ UNCHANGED <<claim, marker, rows, pub, shown, late>>

\* The claim is completed after the registration.
CompleteRegistered(q) ==
    /\ At(q, "closing")
    /\ \/ /\ Completes(q)
          /\ Becomes(q, [req[q] EXCEPT
                            !.settled = TRUE, !.renewing = FALSE,
                            !.pc = IF q \in Blank THEN "ended"
                                                  ELSE "delivering"])
       \/ CompletionRaises(q)
    /\ UNCHANGED <<marker, rows, outbox, pub, shown, late>>

-----------------------------------------------------------------------------
(* Publishing: core/chat_delivery_service.py, core/chat_delivery_outbox.py *)

\* Mutant of Stale: nobody looks for expired leases.
NeverStale == FALSE

Stale == outbox.status = "sending" /\ outbox.expired

\* Mutant of Claimable: a delivery that is being sent is claimed as well.
ClaimableAnyway == outbox.status \in {"pending", "ambiguous", "sending"}

\* claim_chat_delivery, claim_due_chat_delivery
Claimable == outbox.status \in {"pending", "ambiguous"} /\ outbox.due

\* What recover_stale_chat_deliveries and an uncertain answer leave behind:
\* a delivery that waits for its backoff.
Ambiguous == [outbox EXCEPT !.status = "ambiguous", !.owner = None,
                                       !.expired = FALSE, !.due = FALSE]

Starts(p) == IF p \in Reqs THEN At(p, "delivering") ELSE pub[p].pc = "idle"

\* A delivery task makes one attempt, a worker goes on for ever.
Leaves(p) == IF p \in Reqs THEN Ends(p) ELSE req' = req

\* _claim_attempt: recover, then claim, in one transaction.
ClaimAttempt(p) ==
    /\ Starts(p)
    /\ Claimable
    /\ outbox' = [outbox EXCEPT !.status = "sending", !.owner = p,
                                       !.expired = FALSE]
    /\ pub' = [pub EXCEPT ![p] = [pc |-> "sending", result |-> None]]
    /\ Leaves(p)
    /\ UNCHANGED <<claim, marker, rows, shown, late>>

RecoverStale(p) ==
    /\ Starts(p)
    /\ Stale
    /\ outbox' = Ambiguous
    /\ Leaves(p)
    /\ UNCHANGED <<claim, marker, rows, pub, shown, late>>

\* The delivery task finds nothing to claim, or the database refuses.
ClaimNothing(q) ==
    /\ At(q, "delivering")
    /\ Ends(q)
    /\ UNCHANGED <<claim, marker, rows, outbox, pub, shown, late>>

\* The gateway takes the message.
GatewayTakes(p) ==
    /\ pub[p].pc = "sending"
    /\ shown' = shown \cup {outbox.envelope}
    /\ pub' = [pub EXCEPT ![p] = [pc |-> "taken", result |-> None]]
    /\ UNCHANGED <<claim, marker, rows, req, outbox, late>>

\* The publisher returns True, False, or something else, raises, or is timed
\* out.
Answer(p, r) ==
    /\ r = "delivered" => pub[p].pc = "taken"
    /\ r = "failed" => pub[p].pc = "sending"
    /\ pub[p].pc \in {"sending", "taken"}
    /\ pub' = [pub EXCEPT ![p] = [pc |-> "settling", result |-> r]]
    /\ UNCHANGED <<claim, marker, rows, req, outbox, shown, late>>

\* Mutant of Fenced: status and token are not compared.
NotFenced(p) == TRUE

\* _settle_chat_delivery
Fenced(p) == outbox.status = "sending" /\ outbox.owner = p

SettleAttempt(p) ==
    /\ pub[p].pc = "settling"
    /\ outbox' = CASE ~Fenced(p) -> outbox
                   [] Fenced(p) /\ pub[p].result = "ambiguous" -> Ambiguous
                   [] OTHER -> [outbox EXCEPT !.status = pub[p].result,
                                       !.owner = None, !.due = FALSE,
                                       !.expired = FALSE]
    /\ pub' = [pub EXCEPT ![p] = Idle]
    /\ UNCHANGED <<claim, marker, rows, req, shown, late>>

\* The process dies, the attempt is cancelled, or the settlement fails.
AbandonAttempt(p) ==
    /\ pub[p].pc # "idle"
    /\ pub' = [pub EXCEPT ![p] = Idle]
    /\ UNCHANGED <<claim, marker, rows, req, outbox, shown, late>>

\* An attempt is cut off before its lease ends (_validate_attempt_window), so
\* the lease of a publisher that is still sending does not run out.
DeliveryLeaseExpires ==
    /\ outbox.status = "sending" /\ ~outbox.expired
    /\ pub[outbox.owner].pc \notin {"sending", "taken"}
    /\ outbox' = [outbox EXCEPT !.expired = TRUE]
    /\ UNCHANGED <<claim, marker, rows, req, pub, shown, late>>

BackoffElapses ==
    /\ outbox.status = "ambiguous" /\ ~outbox.due
    /\ outbox' = [outbox EXCEPT !.due = TRUE]
    /\ UNCHANGED <<claim, marker, rows, req, pub, shown, late>>

-----------------------------------------------------------------------------
(* Specification *)

RequestStep(q) ==
    \/ \E s \in BOOLEAN : Acquire(q, s)
    \/ DuplicateInflight(q) \/ Replay(q)
    \/ Renew(q) \/ RenewalStops(q)
    \/ JournalPhase(q) \/ PersistEarly(q)
    \/ \E a \in {q, Early} : PersistReply(q, a)
    \/ Prepared(q) \/ Pull(q)
    \/ Raises(q) \/ CheckpointBefore(q) \/ GuardCancels(q)
    \/ AgentReturns(q) \/ CheckpointAfter(q) \/ Persist(q)
    \/ Finish(q) \/ BeginCompletion(q) \/ CompleteStream(q) \/ HandOff(q)
    \/ Disconnect(q) \/ FailClaim(q) \/ Crash(q)
    \/ BeginDelivery(q) \/ RegisterNothing(q) \/ Register(q)
    \/ CompleteRegistered(q) \/ ClaimNothing(q)

PublisherStep(p) ==
    \/ ClaimAttempt(p) \/ RecoverStale(p) \/ GatewayTakes(p)
    \/ \E r \in {"delivered", "failed", "ambiguous"} : Answer(p, r)
    \/ SettleAttempt(p) \/ AbandonAttempt(p)

Next ==
    \/ LeaseExpires \/ DeliveryLeaseExpires \/ BackoffElapses
    \/ \E q \in Reqs : RequestStep(q)
    \/ \E p \in Publishers : PublisherStep(p)

Spec == Init /\ [][Next]_vars

\* The clock runs, every attempt is cut off by its time-out if it does not end
\* before, a worker keeps polling and does not die or stand still for a lease
\* in every settlement, and the gateway is not uncertain for ever: without an
\* answer of True or False the code retries without end.
AttemptEnds(p) ==
    \/ \E r \in {"delivered", "failed", "ambiguous"} : Answer(p, r)
    \/ AbandonAttempt(p)

DeliveryFairness ==
    /\ WF_vars(DeliveryLeaseExpires)
    /\ WF_vars(BackoffElapses)
    /\ \A p \in Publishers : WF_vars(AttemptEnds(p))
    /\ \A w \in Workers :
         /\ WF_vars(ClaimAttempt(w)) /\ WF_vars(RecoverStale(w))
         /\ SF_vars(Answer(w, "delivered") \/ Answer(w, "failed"))
         /\ SF_vars(Fenced(w) /\ pub[w].result # "ambiguous"
                              /\ SettleAttempt(w))

FairSpec == Spec /\ DeliveryFairness

-----------------------------------------------------------------------------
(* Properties *)

\* Whatever interleaving of retries, take-overs and crashes: every client
\* that was told a success was told the one response on record.
ClientsAgree ==
    \A q \in Reqs : req[q].told = "answer" =>
        claim.status = "completed" /\ claim.response = req[q].answer

\* A completed claim keeps its response for ever.
CompletedKept == claim.status = "completed" => UNCHANGED claim
CompletedIsFinal == [][CompletedKept]_vars

\* Unless a lease ran out under a request on its way to a write, the journal
\* never contradicts itself or the claim: an answer in the marker has its one
\* assistant row, and a completed claim answers with the marker.
JournalAgrees ==
    ~late =>
        /\ marker \in Reqs => rows = {marker}
        /\ claim.status = "completed" => marker = claim.response

\* The agent and its tools are not run again for a message whose completion
\* has been written, with the same exception.
StartsUnanswered ==
    ~late =>
        \A q \in Reqs :
            (req[q].pc # "running" /\ req'[q].pc = "running") => marker = None
AnsweredOnce == [][StartsUnanswered]_vars

\* What is pushed is the answer in the journal, whichever request registered
\* it and whichever completed the claim, with the same exception.
PushIsTheAnswer ==
    ~late =>
        /\ outbox.status # "absent" => outbox.envelope = marker
        /\ shown \subseteq {marker}

\* Two publishers are never at the gateway with the same reply at once.
OneSender ==
    \A p1, p2 \in Publishers :
        (pub[p1].pc \in {"sending", "taken"}
           /\ pub[p2].pc \in {"sending", "taken"}) => p1 = p2

\* A delivery that was delivered or refused is never touched again.
DeliveryKept ==
    outbox.status \in {"delivered", "failed"} => UNCHANGED outbox
DeliveryIsFinal == [][DeliveryKept]_vars

\* A reply on record as delivered was taken by the gateway.
DeliveredWasTaken ==
    outbox.status = "delivered" => outbox.envelope \in shown

\* Every registered reply is delivered or refused in the end, although its
\* publishers die, time out and lose their leases.
DeliveryConverges ==
    outbox.status # "absent" ~> outbox.status \in {"delivered", "failed"}
=============================================================================
