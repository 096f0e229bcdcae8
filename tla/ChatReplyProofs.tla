-------------------------- MODULE ChatReplyProofs --------------------------
(***************************************************************************)
(* Theorems about ChatReply, for any number of requests and workers.       *)
(*                                                                         *)
(* RequestSteps reads the actions of a request once and sorts them by what *)
(* they do to the claim and to the journal; the invariants are preserved   *)
(* by each sort.  Base, Told and Sent hold whatever the clocks do.  Journal*)
(* holds until late is set: a request that is about to write to the journal*)
(* holds the claim, so the marker of the journal is written once.          *)
(***************************************************************************)
EXTENDS ChatReply, TLAPS

\* From the write of its completion to its end, a request has an answer.
Finishing == {"finishing", "persisted", "completing", "handing",
              "registering", "closing"}

\* Between the journal phase and that write.
Working == {"preparing", "cold", "starting", "running", "returned",
            "answered"}

-----------------------------------------------------------------------------
(* What the steps of a request do *)

\* Only the row of q changes, and it stays a row.
Own(q) == /\ req'[q] \in Request
          /\ \A r \in Reqs \ {q} : req'[r] = req[r]
          /\ req' \in [Reqs -> Request]

\* The claim is left alone or renewed by its owner.
ClaimKept(q) == claim' = claim \/ (Owns(q) /\ claim' = Renewed)

\* Nobody is told an answer who was not told before.
Silent(q) == /\ req'[q].told # "answer" \/ req'[q].told = req[q].told
             /\ req[q].pc = "ended" => req'[q].pc = "ended"

\* q takes the claim.
Takes(q) ==
    /\ At(q, "new")
    /\ claim.status = "absent" \/ MayTakeOver
    /\ claim' = [status |-> "processing", owner |-> q,
                 attempts |-> claim.attempts + 1, expired |-> FALSE,
                 response |-> None]
    /\ req'[q].pc = "acquired" /\ (req'[q].first => claim.attempts = 0)
    /\ Silent(q)
    /\ UNCHANGED <<marker, rows, outbox>>

\* The stored response answers q.
Replays(q) ==
    /\ claim.status = "completed" /\ req'[q].pc = "ended"
    /\ req'[q].answer = claim.response
    /\ UNCHANGED <<claim, marker, rows, outbox>>

\* A place of the request that needs nothing of the journal.
Passes(q) ==
    \/ req'[q].pc = req[q].pc /\ (req'[q].first => req[q].first)
    \/ req'[q].pc \in {"failing", "ended", "dead", "delivering"}
    \/ /\ At(q, "acquired") /\ req'[q].pc = "preparing"
       /\ req[q].first \/ marker = None
    \/ /\ req[q].pc \in Working
       /\ req'[q].pc \in Working \ {"preparing", "running", "answered"}
    \/ req[q].pc \in Working /\ req'[q].pc = "running" /\ Owns(q)
    \/ /\ req[q].pc \in Working /\ req'[q].pc = "answered"
       /\ Owns(q) /\ claim' = Renewed
    \/ req[q].pc \in Finishing /\ req'[q].pc \in Finishing \ {"handing"}

\* A request that is over forgets its answer, unless its client was told it.
Remembers(q) ==
    \/ req'[q].answer = req[q].answer
    \/ req'[q].told # "answer" /\ req'[q].pc \in {"ended", "dead"}

\* A step that leaves the journal as it is and ends nothing.
Advances(q) ==
    /\ ClaimKept(q) /\ Silent(q) /\ Passes(q) /\ Remembers(q)
    /\ UNCHANGED <<marker, rows, outbox>>

\* q takes its answer from the marker.
Recovers(q) ==
    /\ At(q, "acquired") /\ marker # None
    /\ req'[q].pc = "finishing" /\ req'[q].answer = marker /\ Silent(q)
    /\ UNCHANGED <<claim, marker, rows, outbox>>

\* An early completion or an answer enters the journal.
Writes(q) ==
    /\ req'[q].pc \in Finishing \ {"handing"} /\ Silent(q)
    /\ req'[q].answer = marker' /\ marker' # None
    /\ req[q].pc \in {"preparing", "answered"}
    /\ \/ marker' = Early /\ rows' \in {rows, rows \cup {q}}
       \/ marker' = q /\ rows' = rows \cup {q}
    /\ UNCHANGED <<claim, outbox>>

\* q completes the claim with its answer.
Closes(q) ==
    /\ req[q].pc \in Finishing \ {"handing"}
    /\ Completes(q)
    /\ req'[q].answer = req[q].answer
    /\ req'[q].pc \in {"ended", "handing", "delivering", "failing"}
    /\ \/ req'[q].told # "answer" \/ req'[q].told = req[q].told
       \/ req'[q].pc = "ended"
    /\ UNCHANGED <<marker, rows, outbox>>

\* q fails the claim.
GivesUp(q) ==
    /\ At(q, "failing") /\ Owns(q) /\ claim' = Failed
    /\ req'[q].pc = "ended" /\ req'[q].told = req[q].told
    /\ UNCHANGED <<marker, rows, outbox>>

\* The done event is yielded.
HandsOver(q) ==
    /\ At(q, "handing") /\ req'[q].pc = "ended" /\ Remembers(q)
    /\ UNCHANGED <<claim, marker, rows, outbox>>

\* q registers its answer for delivery.
Registers(q) ==
    /\ At(q, "registering") /\ outbox.status = "absent"
    /\ outbox' = [status |-> "pending", owner |-> None, expired |-> FALSE,
                  due |-> TRUE, envelope |-> req[q].answer]
    /\ req'[q].pc \in {"delivering", "closing"} /\ Silent(q)
    /\ req'[q].answer = req[q].answer
    /\ UNCHANGED <<claim, marker, rows>>

Does(q) == \/ Takes(q) \/ Replays(q) \/ Advances(q) \/ Recovers(q)
           \/ Writes(q) \/ Closes(q) \/ GivesUp(q) \/ HandsOver(q)
           \/ Registers(q)

\* The row of q keeps what the proofs look at.
Same(q) == /\ req'[q].answer = req[q].answer /\ req'[q].told = req[q].told
           /\ req'[q].first => req[q].first

\* A request that becomes a row of the right type changes no other row.
LEMMA Put ==
    ASSUME TypeOK, NEW q \in Reqs, NEW row \in Request, Becomes(q, row)
    PROVE  Own(q) /\ req'[q] = row
BY DEF Becomes, Own, TypeOK

\* A request goes to another place.
LEMMA GotoRow ==
    ASSUME TypeOK, NEW q \in Reqs, NEW pc \in Places, Goto(q, pc)
    PROVE  Own(q) /\ req'[q].pc = pc /\ Same(q)
<1>1. req[q] \in Request
  BY DEF TypeOK
<1>2. [req[q] EXCEPT !.pc = pc] \in Request
  BY <1>1 DEF Request, Places
<1>3. Own(q) /\ req'[q] = [req[q] EXCEPT !.pc = pc]
  BY <1>2, Put DEF Goto
<1> QED
  BY <1>1, <1>3 DEF Request, Same

\* A request meets an exception.
LEMMA FailsRow ==
    ASSUME TypeOK, NEW q \in Reqs, Fails(q)
    PROVE  /\ Own(q) /\ req'[q].pc = "failing" /\ req'[q].told # "answer"
           /\ req'[q].answer = req[q].answer
<1>1. req[q] \in Request
  BY DEF TypeOK
<1>2. PICK t \in {"nothing", "error"} : t = Error(q)
  BY DEF Error
<1>3. [req[q] EXCEPT !.pc = "failing", !.told = t] \in Request
  BY <1>1 DEF Request, Places
<1>4. Own(q) /\ req'[q] = [req[q] EXCEPT !.pc = "failing", !.told = t]
  BY <1>2, <1>3, Put DEF Fails
<1> QED
  BY <1>1, <1>4 DEF Request

\* The completion of the claim raises.
LEMMA RaisesRow ==
    ASSUME TypeOK, NEW q \in Reqs, CompletionRaises(q)
    PROVE  /\ Own(q) /\ req'[q].pc = "failing" /\ req'[q].told # "answer"
           /\ req'[q].answer = req[q].answer
           /\ claim' = claim \/ Completes(q)
<1>1. req[q] \in Request
  BY DEF TypeOK
<1>2. PICK t \in {"nothing", "error"} : t = Error(q)
  BY DEF Error
<1> DEFINE row == [req[q] EXCEPT !.pc = "failing", !.told = t,
                                 !.renewing = FALSE]
<1>3. row \in Request
  BY <1>1 DEF Request, Places
<1>4. Own(q) /\ req'[q] = row
  BY <1>2, <1>3, Put DEF CompletionRaises
<1>5. claim' = claim \/ Completes(q)
  BY DEF CompletionRaises
<1> QED
  BY <1>1, <1>4, <1>5 DEF Request

\* A request is over.
LEMMA OverRow ==
    ASSUME TypeOK, NEW q \in Reqs,
           NEW told \in {"nothing", "duplicate", "error", "answer", "lost"},
           Becomes(q, Over(q, told))
    PROVE  /\ Own(q) /\ req'[q].pc = "ended" /\ req'[q].told = told
           /\ req'[q].answer = req[q].answer \/ told # "answer"
           /\ ~req'[q].first
<1>1. req[q] \in Request
  BY DEF TypeOK
<1> DEFINE row == [NewRequest EXCEPT !.pc = "ended", !.told = told,
                      !.exact = req[q].exact,
                      !.answer = IF told = "answer" THEN req[q].answer ELSE None]
<1>2. row \in Request
  <2>1. PICK a \in Answers \cup {None} :
              a = IF told = "answer" THEN req[q].answer ELSE None
    BY <1>1 DEF Request
  <2>2. req[q].exact \in BOOLEAN
    BY <1>1 DEF Request
  <2>3. [NewRequest EXCEPT !.pc = "ended", !.told = told, !.exact = req[q].exact,
                           !.answer = a] \in Request
    BY <2>2 DEF NewRequest, Request, Places
  <2> QED
    BY <2>1, <2>3
<1>3. Own(q) /\ req'[q] = row
  BY <1>2, Put DEF Over
<1> QED
  BY <1>1, <1>3 DEF NewRequest, Request

\* The same, with what the client was told before.
LEMMA EndsRow ==
    ASSUME TypeOK, NEW q \in Reqs, Ends(q)
    PROVE  /\ Own(q) /\ req'[q].pc = "ended" /\ req'[q].told = req[q].told
           /\ req'[q].answer = req[q].answer \/ req'[q].told # "answer"
           /\ ~req'[q].first
<1>1. req[q].told \in {"nothing", "duplicate", "error", "answer", "lost"}
  BY DEF TypeOK, Request
<1> QED
  BY <1>1, OverRow DEF Ends

\* Every step of a request is of one of these sorts.
LEMMA RequestSteps ==
    ASSUME TypeOK, NEW q \in Reqs, RequestStep(q)
    PROVE  Own(q) /\ Does(q) /\ UNCHANGED <<pub, shown, late>>
<1>0. req[q] \in Request
  BY DEF TypeOK
<1>1. CASE \E s \in BOOLEAN : Acquire(q, s)
  <2>1. PICK s \in BOOLEAN : Acquire(q, s)
    BY <1>1
  <2>2. PICK f \in BOOLEAN : f <=> claim.attempts = 0
    OBVIOUS
  <2> DEFINE row == [req[q] EXCEPT !.pc = "acquired", !.stream = s,
                                   !.first = f, !.renewing = TRUE]
  <2>3. row \in Request
    BY <1>0 DEF Request, Places
  <2>4. Own(q) /\ req'[q] = row
    BY <2>1, <2>2, <2>3, Put DEF Acquire
  <2> QED
    BY <2>1, <2>2, <2>4, <1>0 DEF Acquire, Request, Does, Takes, Silent, At
<1>2. CASE DuplicateInflight(q)
  <2> DEFINE row == [req[q] EXCEPT !.pc = "ended", !.told = "duplicate"]
  <2>1. row \in Request
    BY <1>0 DEF Request, Places
  <2>2. Own(q) /\ req'[q] = row
    BY <1>2, <2>1, Put DEF DuplicateInflight
  <2> QED
    BY <1>2, <1>0, <2>2 DEF DuplicateInflight, Request, Does, Advances, Remembers,
        ClaimKept, Silent, Passes, Working, Finishing
<1>3. CASE Replay(q)
  <2> DEFINE row == [req[q] EXCEPT !.pc = "ended", !.told = "answer",
                                   !.answer = claim.response]
  <2>1. row \in Request
    BY <1>0 DEF Request, Places, TypeOK, Claim
  <2>2. Own(q) /\ req'[q] = row
    BY <1>3, <2>1, Put DEF Replay
  <2> QED
    BY <1>3, <1>0, <2>2 DEF Replay, Request, Does, Replays
<1>4. CASE Renew(q)
  BY <1>4, <1>0 DEF Renew, Own, TypeOK, Does, Advances, Remembers, ClaimKept, Silent,
      Passes, Working, Finishing
<1>5. CASE RenewalStops(q)
  <2> DEFINE row == [req[q] EXCEPT !.renewing = FALSE, !.unusable = TRUE]
  <2>1. row \in Request
    BY <1>0 DEF Request, Places
  <2>2. Own(q) /\ req'[q] = row
    BY <1>5, <2>1, Put DEF RenewalStops
  <2> QED
    BY <1>5, <1>0, <2>2 DEF RenewalStops, Request, Does, Advances, Remembers,
        ClaimKept, Silent, Passes, Working, Finishing
<1>6. CASE JournalPhase(q)
  <2>1. CASE (req[q].first \/ marker = None) /\ Goto(q, "preparing")
    BY <1>6, <2>1, GotoRow DEF JournalPhase, Places, At, Same, Does,
        Advances, Remembers, ClaimKept, Silent, Passes, Working, Finishing
  <2>2. CASE /\ marker # None
             /\ Becomes(q, [req[q] EXCEPT !.pc = "finishing",
                                          !.answer = marker])
    <3> DEFINE row == [req[q] EXCEPT !.pc = "finishing", !.answer = marker]
    <3>1. row \in Request
      BY <1>0 DEF Request, Places, TypeOK
    <3>2. Own(q) /\ req'[q] = row
      BY <2>2, <3>1, Put
    <3> QED
      BY <1>6, <2>2, <1>0, <3>2
      DEF JournalPhase, Request, Does, Recovers, Silent, At
  <2>3. CASE Fails(q)
    BY <1>6, <2>3, FailsRow DEF JournalPhase, At, Does, Advances, Remembers,
        ClaimKept, Silent, Passes, Working, Finishing
  <2> QED
    BY <1>6, <2>1, <2>2, <2>3 DEF JournalPhase
<1>7. CASE PersistEarly(q)
  <2>1. CASE /\ marker' = Early
             /\ Becomes(q, [req[q] EXCEPT !.pc = "finishing",
                                          !.answer = Early])
    <3> DEFINE row == [req[q] EXCEPT !.pc = "finishing", !.answer = Early]
    <3>1. row \in Request
      BY <1>0 DEF Request, Places, Answers
    <3>2. Own(q) /\ req'[q] = row
      BY <2>1, <3>1, Put
    <3> QED
      BY <1>7, <2>1, <1>0, <3>2, NamesAssumption
      DEF PersistEarly, Request, Does, Writes, Silent, At, Finishing, Answers
  <2>2. CASE marker' = marker /\ Fails(q)
    BY <1>7, <2>2, FailsRow DEF PersistEarly, At, Does, Advances, Remembers,
        ClaimKept, Silent, Passes, Working, Finishing
  <2> QED
    BY <1>7, <2>1, <2>2 DEF PersistEarly
<1>8. CASE Prepared(q)
  <2>1. PICK pc \in {"cold", "starting"} :
              pc = IF req[q].stream THEN "cold" ELSE "starting"
    OBVIOUS
  <2>2. PICK b \in BOOLEAN : b = (req[q].renewing /\ ~req[q].stream)
    OBVIOUS
  <2> DEFINE row == [req[q] EXCEPT !.pc = pc, !.renewing = b]
  <2>3. row \in Request
    BY <1>0 DEF Request, Places
  <2>4. Own(q) /\ req'[q] = row
    BY <1>8, <2>1, <2>2, <2>3, Put DEF Prepared
  <2> QED
    BY <1>8, <1>0, <2>4 DEF Prepared, At, Request, Does, Advances, Remembers,
        ClaimKept, Silent, Passes, Working, Finishing
<1>9. CASE Pull(q)
  <2>1. CASE /\ Owns(q) /\ claim' = Renewed
             /\ Becomes(q, [req[q] EXCEPT !.pc = "starting",
                                          !.renewing = TRUE])
    <3> DEFINE row == [req[q] EXCEPT !.pc = "starting", !.renewing = TRUE]
    <3>1. row \in Request
      BY <1>0 DEF Request, Places
    <3>2. Own(q) /\ req'[q] = row
      BY <2>1, <3>1, Put
    <3> QED
      BY <1>9, <2>1, <1>0, <3>2 DEF Pull, At, Request, Does, Advances, Remembers,
          ClaimKept, Silent, Passes, Working, Finishing
  <2>2. CASE /\ claim' = claim
             /\ Becomes(q, [req[q] EXCEPT !.pc = "failing", !.told = "error",
                                          !.unusable = TRUE])
    <3> DEFINE row == [req[q] EXCEPT !.pc = "failing", !.told = "error",
                                     !.unusable = TRUE]
    <3>1. row \in Request
      BY <1>0 DEF Request, Places
    <3>2. Own(q) /\ req'[q] = row
      BY <2>2, <3>1, Put
    <3> QED
      BY <1>9, <2>2, <1>0, <3>2 DEF Pull, At, Request, Does, Advances, Remembers,
          ClaimKept, Silent, Passes, Working, Finishing
  <2> QED
    BY <1>9, <2>1, <2>2 DEF Pull
<1>10. CASE Raises(q)
  BY <1>10, FailsRow DEF Raises, Does, Advances, Remembers, ClaimKept, Silent, Passes,
      Working, Finishing, Same
<1>11. CASE CheckpointBefore(q)
  <2>1. CASE Owns(q) /\ claim' = Renewed /\ Goto(q, "running")
    BY <1>11, <2>1, GotoRow DEF CheckpointBefore, Checkpoint, At, Places,
        Same, Does, Advances, Remembers, ClaimKept, Silent, Passes, Working, Finishing
  <2>2. CASE claim' = claim /\ Fails(q)
    BY <1>11, <2>2, FailsRow DEF CheckpointBefore, Checkpoint, At, Does,
        Advances, Remembers, ClaimKept, Silent, Passes, Working, Finishing
  <2> QED
    BY <1>11, <2>1, <2>2 DEF CheckpointBefore, Checkpoint
<1>12. CASE GuardCancels(q)
  BY <1>12, FailsRow DEF GuardCancels, At, Does, Advances, Remembers, ClaimKept,
      Silent, Passes, Working, Finishing, Same
<1>13. CASE AgentReturns(q)
  BY <1>13, GotoRow DEF AgentReturns, At, Places, Does, Advances, Remembers, ClaimKept,
      Silent, Passes, Working, Finishing, Same
<1>14. CASE CheckpointAfter(q)
  <2>1. CASE Owns(q) /\ claim' = Renewed /\ Goto(q, "answered")
    BY <1>14, <2>1, GotoRow DEF CheckpointAfter, Checkpoint, At, Places,
        Same, Does, Advances, Remembers, ClaimKept, Silent, Passes, Working, Finishing
  <2>2. CASE claim' = claim /\ Fails(q)
    BY <1>14, <2>2, FailsRow DEF CheckpointAfter, Checkpoint, At, Does,
        Advances, Remembers, ClaimKept, Silent, Passes, Working, Finishing
  <2> QED
    BY <1>14, <2>1, <2>2 DEF CheckpointAfter, Checkpoint
<1>15. CASE Persist(q)
  <2>1. PICK pc \in {"persisted", "finishing"} :
              pc = IF req[q].stream THEN "persisted" ELSE "finishing"
    OBVIOUS
  <2>0. PICK exact \in BOOLEAN :
              Becomes(q, [req[q] EXCEPT
                            !.answer = q, !.exact = exact,
                            !.pc = IF req[q].stream THEN "persisted"
                                                    ELSE "finishing"])
    BY <1>15 DEF Persist
  <2> DEFINE row == [req[q] EXCEPT !.answer = q, !.exact = exact, !.pc = pc]
  <2>2. row \in Request
    BY <1>0 DEF Request, Places, Answers
  <2>3. Own(q) /\ req'[q] = row
    BY <2>0, <2>1, <2>2, Put
  <2> QED
    BY <1>15, <1>0, <2>3, NamesAssumption
    DEF Persist, At, Request, Does, Writes, Silent, Finishing, Answers
<1>16. CASE Finish(q)
  <2>1. CASE Completes(q) /\ Becomes(q, Over(q, "answer"))
    BY <1>16, <2>1, OverRow DEF Finish, At, Does, Closes, Finishing
  <2>2. CASE CompletionRaises(q)
    <3>1. claim' = claim \/ Completes(q)
      BY <2>2, RaisesRow
    <3> QED
      BY <1>16, <2>2, <3>1, RaisesRow DEF Finish, At, Closes, Does,
          Advances, Remembers, ClaimKept, Silent, Passes, Working, Finishing
  <2> QED
    BY <1>16, <2>1, <2>2 DEF Finish
<1>17. CASE BeginCompletion(q)
  BY <1>17, GotoRow DEF BeginCompletion, At, Places, Does, Advances, Remembers,
      ClaimKept, Silent, Passes, Working, Finishing, Same
<1>18. CASE CompleteStream(q)
  <2>1. CASE Completes(q) /\ Becomes(q, [req[q] EXCEPT !.pc = "handing",
                       !.settled = TRUE, !.renewing = FALSE])
    <3> DEFINE row == [req[q] EXCEPT !.pc = "handing", !.settled = TRUE,
                                     !.renewing = FALSE]
    <3>1. row \in Request
      BY <1>0 DEF Request, Places
    <3>2. Own(q) /\ req'[q] = row
      BY <2>1, <3>1, Put
    <3> QED
      BY <1>18, <2>1, <1>0, <3>2 DEF CompleteStream, At, Request, Does,
          Closes, Finishing
  <2>2. CASE CompletionRaises(q)
    <3>1. claim' = claim \/ Completes(q)
      BY <2>2, RaisesRow
    <3> QED
      BY <1>18, <2>2, <3>1, RaisesRow DEF CompleteStream, At, Closes,
          Does, Advances, Remembers, ClaimKept, Silent, Passes, Working, Finishing
  <2> QED
    BY <1>18, <2>1, <2>2 DEF CompleteStream
<1>19. CASE HandOff(q)
  <2>1. PICK t \in {"answer", "lost"} : Becomes(q, Over(q, t))
    BY <1>19 DEF HandOff
  <2> QED
    BY <1>19, <2>1, OverRow DEF HandOff, At, Does, HandsOver, Remembers
<1>20. CASE Disconnect(q)
  <2> DEFINE row == [req[q] EXCEPT !.gone = TRUE]
  <2>1. row \in Request
    BY <1>0 DEF Request, Places
  <2>2. Own(q) /\ req'[q] = row
    BY <1>20, <2>1, Put DEF Disconnect
  <2> QED
    BY <1>20, <1>0, <2>2 DEF Disconnect, Request, Does, Advances, Remembers, ClaimKept,
        Silent, Passes, Working, Finishing
<1>21. CASE FailClaim(q)
  <2>1. Ends(q) /\ (claim' = claim \/ (Owns(q) /\ claim' = Failed))
    BY <1>21 DEF FailClaim
  <2> QED
    BY <1>21, <2>1, EndsRow DEF FailClaim, At, Does, Advances, Remembers,
        ClaimKept, Silent, Passes, GivesUp
<1>22. CASE Crash(q)
  <2> DEFINE row == [NewRequest EXCEPT !.pc = "dead", !.exact = req[q].exact]
  <2>1. row \in Request
    BY <1>0 DEF NewRequest, Request, Places
  <2>2. Own(q) /\ req'[q] = row
    BY <1>22, <2>1, Put DEF Crash
  <2> QED
    BY <1>22, <1>0, <2>2 DEF Crash, NewRequest, Request, Does, Advances,
        Remembers, ClaimKept, Silent, Passes
<1>23. CASE BeginDelivery(q)
  BY <1>23, GotoRow DEF BeginDelivery, Places, Does, Advances, Remembers, ClaimKept,
      Silent, Passes, Working, Finishing, Same
<1>24. CASE RegisterNothing(q)
  <2>1. PICK pc \in {"ended", "closing"} : Goto(q, pc)
    BY <1>24 DEF RegisterNothing
  <2> QED
    BY <1>24, <2>1, GotoRow DEF RegisterNothing, At, Places, Same, Does,
        Advances, Remembers, ClaimKept, Silent, Passes, Working, Finishing
<1>25. CASE Register(q)
  <2>1. CASE outbox' = outbox /\ Fails(q)
    BY <1>25, <2>1, FailsRow DEF Register, At, Does, Advances, Remembers, ClaimKept,
        Silent, Passes, Working, Finishing
  <2>2. CASE outbox' = Registered(q) /\ Goto(q, AfterRegistration(q))
    <3>1. PICK pc \in {"delivering", "closing"} : Goto(q, pc)
      BY <2>2 DEF AfterRegistration
    <3>2. CASE outbox.status = "absent"
      BY <1>25, <2>2, <3>1, <3>2, GotoRow
      DEF Register, Registered, At, Places, Same, Does, Registers, Silent
    <3>3. CASE outbox.status # "absent"
      BY <1>25, <2>2, <3>1, <3>3, GotoRow
      DEF Register, Registered, At, Places, Same, Does, Advances, Remembers,
          ClaimKept, Silent, Passes, Working, Finishing
    <3> QED
      BY <3>2, <3>3
  <2> QED
    BY <1>25, <2>1, <2>2 DEF Register
<1>26. CASE CompleteRegistered(q)
  <2>1. CASE Completes(q) /\ Becomes(q, [req[q] EXCEPT
                 !.settled = TRUE, !.renewing = FALSE,
                 !.pc = IF q \in Blank THEN "ended" ELSE "delivering"])
    <3>0. PICK pc \in {"ended", "delivering"} :
                pc = IF q \in Blank THEN "ended" ELSE "delivering"
      OBVIOUS
    <3> DEFINE row == [req[q] EXCEPT !.settled = TRUE, !.renewing = FALSE,
                                     !.pc = pc]
    <3>1. row \in Request
      BY <1>0 DEF Request, Places
    <3>2. Own(q) /\ req'[q] = row
      BY <2>1, <3>0, <3>1, Put
    <3> QED
      BY <1>26, <2>1, <1>0, <3>2 DEF CompleteRegistered, At, Request,
          Does, Closes, Finishing
  <2>2. CASE CompletionRaises(q)
    <3>1. claim' = claim \/ Completes(q)
      BY <2>2, RaisesRow
    <3> QED
      BY <1>26, <2>2, <3>1, RaisesRow DEF CompleteRegistered, At, Closes,
          Does, Advances, Remembers, ClaimKept, Silent, Passes, Working, Finishing
  <2> QED
    BY <1>26, <2>1, <2>2 DEF CompleteRegistered
<1>27. CASE ClaimNothing(q)
  BY <1>27, EndsRow DEF ClaimNothing, At, Does, Advances, Remembers, ClaimKept,
      Silent, Passes
<1>28. ASSUME NEW a \in {q, Early}, PersistReply(q, a)
       PROVE  Own(q) /\ Does(q) /\ UNCHANGED <<pub, shown, late>>
  <2> DEFINE row == [req[q] EXCEPT !.pc = "finishing", !.answer = a]
  <2>1. row \in Request
    BY <1>0 DEF Request, Places, Answers
  <2>2. Own(q) /\ req'[q] = row
    BY <1>28, <2>1, Put DEF PersistReply
  <2> QED
    BY <1>28, <1>0, <2>2, NamesAssumption
    DEF PersistReply, Request, Does, Writes, Silent, At, Finishing, Answers
<1> QED
  BY <1>1, <1>2, <1>3, <1>4, <1>5, <1>6, <1>7, <1>8, <1>9, <1>10, <1>11,
      <1>12, <1>13, <1>14, <1>15, <1>16, <1>17, <1>18, <1>19, <1>20, <1>21,
      <1>22, <1>23, <1>24, <1>25, <1>26, <1>27, <1>28 DEF RequestStep

\* The claim stays a row, and a completed one stays as it is.
LEMMA ClaimRow ==
    ASSUME TypeOK, NEW q \in Reqs, Own(q), Does(q)
    PROVE  claim' \in Claim /\ (claim.status = "completed" => claim' = claim)
<1>0. claim \in Claim /\ req[q].answer \in Answers \cup {None}
  BY DEF TypeOK, Request
<1>1. CASE Takes(q)
  BY <1>0, <1>1 DEF Takes, MayTakeOver, Claim
<1>2. CASE Owns(q) /\ claim' = Renewed
  BY <1>0, <1>2 DEF Owns, Renewed, Claim
<1>3. CASE Completes(q)
  BY <1>0, <1>3 DEF Completes, Owns, Completed, Claim
<1>4. CASE Owns(q) /\ claim' = Failed
  BY <1>0, <1>4 DEF Owns, Failed, Claim
<1>5. CASE claim' = claim
  BY <1>0, <1>5
<1> QED
  BY <1>1, <1>2, <1>3, <1>4, <1>5
  DEF Does, Replays, Advances, ClaimKept, Recovers, Writes, Closes, GivesUp,
      HandsOver, Registers

-----------------------------------------------------------------------------
(* Types *)

\* A request that has something to say has an answer, a registered delivery
\* has an envelope, and a publisher has a delivery.
Base ==
    /\ TypeOK
    /\ \A q \in Reqs : req[q].pc \in Finishing => req[q].answer # None
    /\ outbox.status # "absent" => outbox.envelope # None
    /\ \A p \in Publishers :
         /\ pub[p].pc # "idle" => outbox.status # "absent"
         /\ pub[p].pc = "settling" => pub[p].result # None

\* A step of a request preserves Base.
LEMMA BaseRequest ==
    ASSUME Base, NEW q \in Reqs, RequestStep(q)
    PROVE  Base'
<1>1. /\ TypeOK /\ Own(q) /\ Does(q) /\ UNCHANGED <<pub, shown, late>>
      /\ req' \in [Reqs -> Request]
  BY RequestSteps DEF Base, Own
<1>2. claim' \in Claim
  BY <1>1, ClaimRow
<1>3. marker' \in Answers \cup {None} /\ rows' \subseteq Reqs
  BY <1>1 DEF Does, Takes, Replays, Advances, Recovers, Writes, Closes,
              GivesUp, HandsOver, Registers, TypeOK, Answers
<1>4. outbox' = outbox \/ Registers(q)
  BY <1>1 DEF Does, Takes, Replays, Advances, Recovers, Writes, Closes,
              GivesUp, HandsOver
<1>5. req[q].answer \in Answers \cup {None}
  BY <1>1 DEF TypeOK, Request
<1>6. outbox' \in Delivery
  <2>1. CASE outbox' = outbox
    BY <1>1, <2>1 DEF TypeOK
  <2>2. CASE Registers(q)
    BY <1>5, <2>2 DEF Registers, Delivery
  <2> QED
    BY <1>4, <2>1, <2>2
<1>7. TypeOK'
  BY <1>1, <1>2, <1>3, <1>6 DEF TypeOK
<1>8. req'[q].pc \in Finishing => req'[q].answer # None
  <2>1. CASE Advances(q)
    BY <2>1 DEF Base, Advances, Remembers, Passes, Working, Finishing
  <2>2. CASE ~Advances(q)
    BY <1>1, <2>2, NamesAssumption
    DEF Base, Does, Takes, Replays, Recovers, Writes, Closes, GivesUp,
        HandsOver, Registers, Finishing, At
  <2> QED
    BY <2>1, <2>2
<1>9. \A r \in Reqs : req'[r].pc \in Finishing => req'[r].answer # None
  BY <1>1, <1>8 DEF Base, Own
<1>10. CASE outbox' = outbox
  BY <1>1, <1>7, <1>9, <1>10 DEF Base
<1>11. CASE Registers(q)
  <2>1. outbox'.status # "absent" /\ outbox'.envelope # None
    BY <1>11 DEF Registers, Base, At, Finishing
  <2> QED
    BY <1>1, <1>7, <1>9, <2>1 DEF Base
<1> QED
  BY <1>4, <1>10, <1>11

\* A step of a publisher touches neither claim nor journal, and a delivery
\* task has come to its end.
Apart == /\ UNCHANGED <<claim, marker, rows, late>>
         /\ req' \in [Reqs -> Request]
         /\ \A q \in Reqs :
              \/ req'[q] = req[q]
              \/ /\ At(q, "delivering") /\ req'[q].pc = "ended"
                 /\ req'[q].told = req[q].told

\* A step of a publisher leaves the claim and the journal alone.
LEMMA PublisherApart ==
    ASSUME TypeOK, NEW p \in Publishers, PublisherStep(p)
    PROVE  Apart
<1>0. TypeOK /\ req \in [Reqs -> Request]
  BY DEF TypeOK
<1>1. CASE req' = req
  <2>1. UNCHANGED <<claim, marker, rows, late>>
    BY DEF PublisherStep, ClaimAttempt, RecoverStale, GatewayTakes, Answer,
           SettleAttempt, AbandonAttempt
  <2> QED
    BY <1>0, <1>1, <2>1 DEF Apart
<1>2. CASE p \in Reqs /\ Starts(p) /\ Leaves(p)
  <2>1. UNCHANGED <<claim, marker, rows, late>>
    BY DEF PublisherStep, ClaimAttempt, RecoverStale, GatewayTakes, Answer,
           SettleAttempt, AbandonAttempt
  <2>2. p \in Reqs /\ At(p, "delivering") /\ Ends(p)
    BY <1>2 DEF Starts, Leaves
  <2>3. Own(p) /\ req'[p].pc = "ended" /\ req'[p].told = req[p].told
    BY <1>0, <2>2, EndsRow
  <2> QED
    BY <2>1, <2>2, <2>3 DEF Apart, Own
<1> QED
  BY <1>1, <1>2 DEF PublisherStep, ClaimAttempt, RecoverStale, GatewayTakes,
                    Answer, SettleAttempt, AbandonAttempt, Leaves

\* A step of a publisher preserves Base.
LEMMA BasePublisher ==
    ASSUME Base, NEW p \in Publishers, PublisherStep(p)
    PROVE  Base'
<1>1. /\ TypeOK /\ Apart /\ outbox \in Delivery
      /\ pub \in [Publishers -> Publisher]
  BY PublisherApart DEF Base, TypeOK
<1>2. \A q \in Reqs : req'[q].pc \in Finishing => req'[q].answer # None
  BY <1>1 DEF Base, Apart, Finishing
<1>3. outbox' \in Delivery /\ pub' \in [Publishers -> Publisher]
      /\ shown' \subseteq Answers
      /\ (outbox.status # "absent" =>
            outbox'.status # "absent" /\ outbox'.envelope = outbox.envelope)
      /\ (outbox.status = "absent" => outbox' = outbox)
      /\ \A s \in Publishers :
           /\ pub'[s].pc # "idle" => outbox'.status # "absent"
           /\ pub'[s].pc = "settling" => pub'[s].result # None
  <2>1. CASE ClaimAttempt(p)
    BY <1>1, <2>1
    DEF ClaimAttempt, Claimable, Base, TypeOK, Delivery, Publisher
  <2>2. CASE RecoverStale(p)
    BY <1>1, <2>2
    DEF RecoverStale, Stale, Ambiguous, Base, TypeOK, Delivery, Publisher
  <2>3. CASE GatewayTakes(p)
    BY <1>1, <2>3 DEF GatewayTakes, Base, TypeOK, Delivery, Publisher
  <2>4. CASE \E r \in {"delivered", "failed", "ambiguous"} : Answer(p, r)
    BY <1>1, <2>4 DEF Answer, Base, TypeOK, Publisher, None
  <2>5. CASE SettleAttempt(p)
    BY <1>1, <2>5
    DEF SettleAttempt, Fenced, Ambiguous, Idle, Base, TypeOK, Delivery,
        Publisher
  <2>6. CASE AbandonAttempt(p)
    BY <1>1, <2>6 DEF AbandonAttempt, Idle, Base, TypeOK, Delivery, Publisher
  <2> QED
    BY <2>1, <2>2, <2>3, <2>4, <2>5, <2>6 DEF PublisherStep
<1>4. TypeOK'
  BY <1>1, <1>3 DEF TypeOK, Apart
<1> QED
  BY <1>2, <1>3, <1>4 DEF Base

\* Base is inductive.
LEMMA BaseStep ==
    ASSUME Base, [Next]_vars
    PROVE  Base'
<1>1. CASE UNCHANGED vars
  BY <1>1 DEF Base, TypeOK, vars
<1>2. CASE LeaseExpires
  <2>1. claim' \in Claim
    BY <1>2 DEF LeaseExpires, Base, TypeOK, Claim
  <2> QED
    BY <1>2, <2>1 DEF LeaseExpires, Base, TypeOK
<1>3. CASE DeliveryLeaseExpires
  <2>1. /\ outbox' \in Delivery /\ outbox'.status # "absent"
        /\ outbox'.envelope = outbox.envelope /\ outbox.status # "absent"
    BY <1>3 DEF DeliveryLeaseExpires, Base, TypeOK, Delivery
  <2> QED
    BY <1>3, <2>1 DEF DeliveryLeaseExpires, Base, TypeOK
<1>4. CASE BackoffElapses
  <2>1. /\ outbox' \in Delivery /\ outbox'.status # "absent"
        /\ outbox'.envelope = outbox.envelope /\ outbox.status # "absent"
    BY <1>4 DEF BackoffElapses, Base, TypeOK, Delivery
  <2> QED
    BY <1>4, <2>1 DEF BackoffElapses, Base, TypeOK
<1> QED
  BY <1>1, <1>2, <1>3, <1>4, BaseRequest, BasePublisher DEF Next

\* Base holds initially.
LEMMA BaseInit ==
    Init => Base
<1> SUFFICES ASSUME Init PROVE Base
  OBVIOUS
<1>1. NewRequest \in Request
  BY DEF NewRequest, Request, Places
<1>2. Idle \in Publisher
  BY DEF Idle, Publisher
<1>3. TypeOK
  BY <1>1, <1>2 DEF Init, TypeOK, Claim, Delivery
<1>4. \A q \in Reqs : req[q].pc = "new"
  BY DEF Init, NewRequest
<1>5. \A p \in Publishers : pub[p].pc = "idle"
  BY DEF Init, Idle
<1> QED
  BY <1>3, <1>4, <1>5 DEF Base, Finishing, Init

\* Base is an invariant.
LEMMA BaseAlways ==
    Spec => []Base
<1>1. Base /\ [Next]_vars => Base'
  BY BaseStep
<1> QED
  BY BaseInit, <1>1, PTL DEF Spec

\* Every reachable state is well typed: the places of a request, a claim and
\* a delivery are those the code knows, and a settled delivery gets its
\* status from a definite answer.
THEOREM TypeCorrect ==
    Spec => []TypeOK
<1>1. Base => TypeOK
  BY DEF Base
<1> QED
  BY BaseAlways, <1>1, PTL

-----------------------------------------------------------------------------
(* What the clients are told *)

\* A request that was told, or is about to hand over, its answer has ended
\* the claim with it.
Told ==
    \A q \in Reqs :
        /\ req[q].told = "answer" => req[q].pc = "ended"
        /\ (req[q].told = "answer" \/ req[q].pc = "handing") =>
               claim.status = "completed" /\ claim.response = req[q].answer

\* No step changes a completed claim.
LEMMA ClaimStep ==
    ASSUME Base, [Next]_vars
    PROVE  CompletedKept
<1>1. ASSUME NEW q \in Reqs, RequestStep(q) PROVE CompletedKept
  BY <1>1, RequestSteps, ClaimRow DEF Base, CompletedKept
<1>2. ASSUME NEW p \in Publishers, PublisherStep(p) PROVE CompletedKept
  BY <1>2, PublisherApart DEF Base, Apart, CompletedKept
<1> QED
  BY <1>1, <1>2 DEF Next, vars, LeaseExpires, DeliveryLeaseExpires,
                    BackoffElapses, CompletedKept

\* A step of a request preserves Told.
LEMMA ToldRequest ==
    ASSUME Base, Told, NEW q \in Reqs, RequestStep(q)
    PROVE  Told'
<1>1. /\ TypeOK /\ Own(q) /\ Does(q)
      /\ claim.status = "completed" => claim' = claim
  BY RequestSteps, ClaimRow DEF Base
<1> DEFINE Good(r) ==
      /\ req'[r].told = "answer" => req'[r].pc = "ended"
      /\ (req'[r].told = "answer" \/ req'[r].pc = "handing") =>
             claim'.status = "completed" /\ claim'.response = req'[r].answer
<1>2. \A r \in Reqs \ {q} : Good(r)
  BY <1>1 DEF Told, Own
<1>3. Good(q)
  <2>1. CASE Takes(q)
    BY <2>1 DEF Takes, Told, Silent, At
  <2>2. CASE Replays(q)
    BY <2>2 DEF Replays
  <2>3. CASE Advances(q)
    BY <1>1, <2>3 DEF Advances, Remembers, Silent, Passes, Told, Working,
                      Finishing
  <2>4. CASE Recovers(q) \/ Writes(q) \/ Registers(q)
    BY <1>1, <2>4 DEF Recovers, Writes, Registers, Silent, Told, At, Finishing
  <2>5. CASE Closes(q)
    <3>1. claim'.status = "completed" /\ claim'.response = req'[q].answer
      BY <2>5 DEF Closes, Completes, Completed, Base, TypeOK, Claim
    <3> QED
      BY <2>5, <3>1 DEF Closes, Told, Finishing
  <2>6. CASE GivesUp(q)
    BY <1>1, <2>6 DEF GivesUp, Told, At
  <2>7. CASE HandsOver(q)
    BY <1>1, <2>7 DEF HandsOver, Remembers, Told, At
  <2> QED
    BY <1>1, <2>1, <2>2, <2>3, <2>4, <2>5, <2>6, <2>7 DEF Does
<1> QED
  BY <1>2, <1>3 DEF Told

\* Told is inductive relative to Base.
LEMMA ToldStep ==
    ASSUME Base, Told, [Next]_vars
    PROVE  Told'
<1>1. claim.status = "completed" => claim' = claim
  BY ClaimStep DEF CompletedKept
<1>2. ASSUME NEW p \in Publishers, PublisherStep(p) PROVE Told'
  BY <1>2, PublisherApart DEF Base, Apart, Told, At
<1>3. CASE req' = req
  BY <1>1, <1>3 DEF Told
<1> QED
  BY <1>2, <1>3, ToldRequest
  DEF Next, vars, LeaseExpires, DeliveryLeaseExpires, BackoffElapses

\* A response on record is never replaced: neither by a late owner, nor by a
\* take-over, nor by a failure that is reported after the completion.
THEOREM CompletedFinal ==
    Spec => CompletedIsFinal
<1>1. Base /\ [Next]_vars => CompletedKept
  BY ClaimStep
<1>2. Base /\ [Next]_vars => [CompletedKept]_vars
  BY <1>1
<1> QED
  BY BaseAlways, <1>2, PTL DEF Spec, CompletedIsFinal

\* However many requests are made for a message, and whatever the leases do,
\* no two clients are told different answers.
THEOREM SameAnswer ==
    Spec => []ClientsAgree
<1>1. Init => Told
  BY DEF Init, NewRequest, Told
<1>2. Base /\ Told /\ [Next]_vars => Told'
  BY ToldStep
<1>3. Told => ClientsAgree
  BY DEF Told, ClientsAgree
<1> QED
  BY BaseAlways, <1>1, <1>2, <1>3, PTL DEF Spec

-----------------------------------------------------------------------------
(* Who is at the gateway *)

\* Whoever is at the gateway holds the live lease of the delivery, and what
\* counts as delivered was taken.
Sent ==
    /\ \A p \in Publishers :
         /\ pub[p].pc \in {"sending", "taken"} =>
              outbox.status = "sending" /\ outbox.owner = p /\ ~outbox.expired
         /\ pub[p].pc = "taken"
              \/ (pub[p].pc = "settling" /\ pub[p].result = "delivered") =>
                outbox.envelope \in shown
    /\ outbox.status = "delivered" => outbox.envelope \in shown

\* A request that registers a delivery meets no publisher.
LEMMA SentRequest ==
    ASSUME Base, Sent, NEW q \in Reqs, RequestStep(q)
    PROVE  Sent' /\ DeliveryKept
<1>1. Does(q) /\ UNCHANGED <<pub, shown>>
  BY RequestSteps DEF Base
<1>2. CASE outbox' = outbox
  BY <1>1, <1>2 DEF Sent, DeliveryKept
<1>3. CASE Registers(q)
  <2>1. \A p \in Publishers : pub'[p].pc = "idle"
    BY <1>1, <1>3 DEF Registers, Base
  <2> QED
    BY <1>3, <2>1 DEF Registers, Sent, DeliveryKept
<1> QED
  BY <1>1, <1>2, <1>3 DEF Does, Takes, Replays, Advances, Recovers, Writes,
                          Closes, GivesUp, HandsOver

\* The lease of the delivery keeps the other publishers away.
LEMMA SentPublisher ==
    ASSUME Base, Sent, NEW p \in Publishers, PublisherStep(p)
    PROVE  Sent' /\ DeliveryKept
<1>0. outbox \in Delivery /\ pub \in [Publishers -> Publisher]
  BY DEF Base, TypeOK
<1>1. CASE ClaimAttempt(p)
  BY <1>0, <1>1
  DEF ClaimAttempt, Claimable, Delivery, Publisher, Sent, DeliveryKept
<1>2. CASE RecoverStale(p)
  BY <1>0, <1>2
  DEF RecoverStale, Stale, Ambiguous, Delivery, Sent, DeliveryKept
<1>3. CASE GatewayTakes(p)
  BY <1>0, <1>3 DEF GatewayTakes, Publisher, Sent, DeliveryKept
<1>4. CASE \E r \in {"delivered", "failed", "ambiguous"} : Answer(p, r)
  BY <1>0, <1>4 DEF Answer, Publisher, Sent, DeliveryKept
<1>5. CASE SettleAttempt(p)
  <2>1. pub'[p].pc = "idle" /\ \A s \in Publishers \ {p} : pub'[s] = pub[s]
    BY <1>0, <1>5 DEF SettleAttempt, Idle
  <2>2. CASE ~Fenced(p)
    BY <1>5, <2>1, <2>2 DEF SettleAttempt, Sent, DeliveryKept
  <2>3. CASE Fenced(p)
    <3>1. \A s \in Publishers \ {p} : pub[s].pc \notin {"sending", "taken"}
      BY <2>3 DEF Fenced, Sent
    <3>2. /\ outbox'.envelope = outbox.envelope
          /\ outbox'.status = "delivered" => pub[p].result = "delivered"
      BY <1>0, <1>5, <2>3 DEF SettleAttempt, Ambiguous, Delivery
    <3> QED
      BY <1>5, <2>1, <2>3, <3>1, <3>2
      DEF SettleAttempt, Fenced, Sent, DeliveryKept
  <2> QED
    BY <2>2, <2>3
<1>6. CASE AbandonAttempt(p)
  BY <1>0, <1>6 DEF AbandonAttempt, Idle, Sent, DeliveryKept
<1> QED
  BY <1>1, <1>2, <1>3, <1>4, <1>5, <1>6 DEF PublisherStep

\* Sent is inductive relative to Base.
LEMMA SentStep ==
    ASSUME Base, Sent, [Next]_vars
    PROVE  Sent' /\ DeliveryKept
<1>0. outbox \in Delivery
  BY DEF Base, TypeOK
<1>1. CASE DeliveryLeaseExpires
  BY <1>0, <1>1 DEF DeliveryLeaseExpires, Delivery, Sent, DeliveryKept
<1>2. CASE BackoffElapses
  BY <1>0, <1>2 DEF BackoffElapses, Delivery, Sent, DeliveryKept
<1>3. CASE LeaseExpires \/ UNCHANGED vars
  BY <1>3 DEF LeaseExpires, vars, Sent, DeliveryKept
<1> QED
  BY <1>1, <1>2, <1>3, SentRequest, SentPublisher DEF Next

\* Sent is an invariant.
LEMMA SentAlways ==
    Spec => []Sent
<1>1. Init => Sent
  BY DEF Init, Idle, Sent
<1>2. Base /\ Sent /\ [Next]_vars => Sent'
  BY SentStep
<1> QED
  BY BaseAlways, <1>1, <1>2, PTL DEF Spec

\* However many workers and delivery tasks there are, one at most has handed
\* the reply to the gateway and waits for its answer.
THEOREM OneAtTheGateway ==
    Spec => []OneSender
<1>1. Sent => OneSender
  BY DEF Sent, OneSender
<1> QED
  BY SentAlways, <1>1, PTL

\* A delivery is on record as delivered only if the gateway took the reply,
\* although the publisher that says so may be late.
THEOREM TakenBeforeDelivered ==
    Spec => []DeliveredWasTaken
<1>1. Sent => DeliveredWasTaken
  BY DEF Sent, DeliveredWasTaken
<1> QED
  BY SentAlways, <1>1, PTL

\* No late settlement, recovery or second registration touches a delivery
\* that has come to its end.
THEOREM DeliveryFinal ==
    Spec => DeliveryIsFinal
<1>1. Base /\ Sent /\ [Next]_vars => [DeliveryKept]_vars
  BY SentStep
<1> QED
  BY BaseAlways, SentAlways, <1>1, PTL DEF Spec, DeliveryIsFinal

-----------------------------------------------------------------------------
(* The journal, when no process stands still for a whole lease *)

\* Whoever is about to write to the journal holds a live claim on a message
\* that has no completion yet; so the marker is written once, and everything
\* that is said later says the same.
Journal ==
    /\ \A q \in Reqs :
         /\ req[q].pc \in {"acquired", "preparing", "answered"} =>
              Owns(q) /\ ~claim.expired
         /\ req[q].pc \in Working /\ Owns(q) => marker = None
         /\ At(q, "acquired") /\ req[q].first => marker = None
         /\ req[q].pc \in Finishing => req[q].answer = marker
    /\ claim.attempts = 0 => claim.status = "absent"
    /\ claim.status = "absent" => marker = None
    /\ claim.status = "completed" => marker = claim.response
    /\ marker \in Reqs => rows = {marker}
    /\ marker = None => rows = {}
    /\ marker = None => outbox.status = "absent" /\ shown = {}
    /\ outbox.status # "absent" => outbox.envelope = marker
    /\ shown \subseteq {marker}

\* A take-over meets nobody who is about to write.
LEMMA JournalTakes ==
    ASSUME Base, Journal, NEW q \in Reqs, Own(q), Takes(q),
           UNCHANGED <<pub, shown>>
    PROVE  Journal'
<1>1. /\ claim'.status = "processing" /\ claim'.owner = q /\ ~claim'.expired
      /\ claim'.attempts # 0 /\ claim.attempts \in Nat
  BY DEF Takes, Base, TypeOK, Claim
<1>2. \A r \in Reqs \ {q} :
        /\ req'[r] = req[r]
        /\ req[r].pc \notin {"acquired", "preparing", "answered"}
  BY DEF Own, Takes, MayTakeOver, Owns, Journal
<1>3. /\ req'[q].pc = "acquired" /\ (req'[q].first => marker = None)
      /\ UNCHANGED <<marker, rows, outbox, shown>>
  BY DEF Takes, Journal
<1> QED
  BY <1>1, <1>2, <1>3 DEF Journal, Owns, At, Working, Finishing

\* A step that writes nothing preserves Journal.
LEMMA JournalAdvances ==
    ASSUME Base, Journal, NEW q \in Reqs, Own(q), Advances(q),
           UNCHANGED <<pub, shown>>
    PROVE  Journal'
<1>1. UNCHANGED <<marker, rows, outbox, shown>>
  BY DEF Advances
<1>2. /\ UNCHANGED <<claim.status, claim.owner, claim.attempts,
                     claim.response>>
      /\ claim'.expired => claim.expired
      /\ claim' = claim \/ (Owns(q) /\ ~claim'.expired)
      /\ claim' = Renewed => ~claim'.expired
  BY DEF Advances, ClaimKept, Renewed, Base, TypeOK, Claim
<1>3. \A r \in Reqs : Owns(r)' <=> Owns(r)
  BY <1>2 DEF Owns
<1>4. /\ req'[q].pc \in {"acquired", "preparing", "answered"} =>
           Owns(q) /\ ~claim'.expired
      /\ req'[q].pc \in Working /\ Owns(q) => marker = None
      /\ req'[q].pc = "acquired" /\ req'[q].first => marker = None
      /\ req'[q].pc \in Finishing => req'[q].answer = marker
  BY <1>2 DEF Advances, Remembers, Passes, Journal, Working, Finishing, At
<1>5. \A r \in Reqs \ {q} : req'[r] = req[r]
  BY DEF Own
<1> QED
  BY <1>1, <1>2, <1>3, <1>4, <1>5 DEF Journal, At

\* The write itself: the request owns the claim, hence nobody else is about
\* to write and nothing was written before.
LEMMA JournalWrites ==
    ASSUME Base, Journal, NEW q \in Reqs, Own(q), Writes(q),
           UNCHANGED <<pub, shown>>
    PROVE  Journal'
<1>1. Owns(q) /\ ~claim.expired /\ marker = None
  BY DEF Writes, Journal, At, Working
<1>2. rows = {} /\ outbox.status = "absent" /\ shown = {}
  BY <1>1, NamesAssumption DEF Journal, Answers
<1>3. \A r \in Reqs \ {q} :
        /\ req'[r] = req[r] /\ ~Owns(r)
        /\ req[r].pc \notin Finishing
  BY <1>1 DEF Own, Owns, Journal, Base
<1>4. \A r \in Reqs \ {q} :
        req[r].pc \notin {"acquired", "preparing", "answered"}
  BY <1>3 DEF Journal
<1>5. /\ UNCHANGED <<claim, outbox, shown>>
      /\ marker' # None /\ req'[q].answer = marker'
      /\ req'[q].pc \in Finishing
      /\ marker' \in Reqs => rows' = {marker'}
  BY <1>2, NamesAssumption DEF Writes
<1> QED
  BY <1>1, <1>2, <1>3, <1>4, <1>5
  DEF Journal, Owns, At, Working, Finishing

\* The claim comes to an end, with the marker as its response or without.
LEMMA JournalEnds ==
    ASSUME Base, Journal, NEW q \in Reqs, Own(q), Closes(q) \/ GivesUp(q),
           UNCHANGED <<pub, shown>>
    PROVE  Journal'
<1>1. Owns(q) /\ UNCHANGED <<marker, rows, outbox, shown>>
  BY DEF Closes, GivesUp, Completes
<1>2. /\ claim'.status \in {"completed", "failed"}
      /\ claim'.attempts = claim.attempts
      /\ claim'.status = "completed" => claim'.response = marker
  BY DEF Closes, GivesUp, Completes, Completed, Failed, Base, TypeOK, Claim,
         Journal
<1>3. claim.status = "processing" /\ claim.attempts # 0
  BY <1>1 DEF Owns, Journal
<1>4. \A r \in Reqs \ {q} :
        /\ req'[r] = req[r]
        /\ req[r].pc \notin {"acquired", "preparing", "answered"}
  BY <1>1 DEF Own, Owns, Journal
<1>5. /\ req'[q].pc \notin {"acquired"} \cup Working
      /\ req'[q].pc \in Finishing => req'[q].answer = marker
  BY DEF Closes, GivesUp, Journal, Working, Finishing
<1> QED
  BY <1>1, <1>2, <1>3, <1>4, <1>5 DEF Journal, Owns, At, Working

\* A step of a request preserves Journal.
LEMMA JournalRequest ==
    ASSUME Base, Journal, NEW q \in Reqs, RequestStep(q)
    PROVE  Journal'
<1>1. TypeOK /\ Own(q) /\ Does(q) /\ UNCHANGED <<pub, shown>>
  BY RequestSteps DEF Base
<1>2. CASE Replays(q) \/ HandsOver(q)
  BY <1>1, <1>2 DEF Replays, HandsOver, Own, Journal, Owns, At, Working,
                    Finishing
<1>3. CASE Recovers(q)
  BY <1>1, <1>3 DEF Recovers, Own, Journal, Owns, At, Working, Finishing
<1>4. CASE Registers(q)
  <2>1. req[q].answer = marker /\ marker # None
    BY <1>4 DEF Registers, Journal, Base, At, Finishing
  <2>2. req'[q].pc \in {"delivering", "closing"} /\ req'[q].answer = marker
    BY <1>4, <2>1 DEF Registers
  <2>3. /\ UNCHANGED <<claim, marker, rows, shown>>
        /\ outbox'.status = "pending" /\ outbox'.envelope = marker
    BY <1>1, <1>4, <2>1 DEF Registers
  <2> QED
    BY <1>1, <2>1, <2>2, <2>3 DEF Own, Journal, Owns, At, Working, Finishing
<1> QED
  BY <1>1, <1>2, <1>3, <1>4, JournalTakes, JournalAdvances, JournalWrites,
     JournalEnds DEF Does

\* A publisher adds to what is shown what is in the journal.
LEMMA JournalPublisher ==
    ASSUME Base, Journal, NEW p \in Publishers, PublisherStep(p)
    PROVE  Journal'
<1>1. Apart /\ Base'
  BY PublisherApart, BasePublisher DEF Base
<1>2. /\ outbox.status = "absent" =>
           outbox' = outbox /\ shown' = shown
      /\ outbox.status # "absent" =>
           /\ outbox'.status # "absent"
           /\ outbox'.envelope = outbox.envelope
           /\ shown' \subseteq shown \cup {outbox.envelope}
  <2>0. outbox \in Delivery
    BY DEF Base, TypeOK
  <2>1. CASE ClaimAttempt(p)
    BY <2>0, <2>1 DEF ClaimAttempt, Claimable, Delivery
  <2>2. CASE RecoverStale(p)
    BY <2>0, <2>2 DEF RecoverStale, Stale, Ambiguous, Delivery
  <2>3. CASE GatewayTakes(p)
    BY <2>0, <2>3 DEF GatewayTakes, Base
  <2>4. CASE SettleAttempt(p)
    BY <2>0, <2>4 DEF SettleAttempt, Fenced, Ambiguous, Delivery, Base,
                      TypeOK, Publisher
  <2>5. CASE outbox' = outbox /\ shown' = shown
    BY <2>5
  <2> QED
    BY <2>1, <2>2, <2>3, <2>4, <2>5 DEF PublisherStep, Answer, AbandonAttempt
<1>3. \A q \in Reqs : req'[q] = req[q] \/ req'[q].pc = "ended"
  BY <1>1 DEF Apart
<1> QED
  BY <1>1, <1>2, <1>3 DEF Apart, Journal, Owns, At, Working, Finishing

\* Journal is inductive relative to Base, until a lease runs out under an
\* unfenced request.
LEMMA JournalStep ==
    ASSUME Base, Journal, [Next]_vars, ~late'
    PROVE  Journal'
<1>0. claim \in Claim /\ outbox \in Delivery
  BY DEF Base, TypeOK
<1>1. CASE LeaseExpires
  <2>1. /\ claim'.status = claim.status /\ claim'.owner = claim.owner
        /\ claim'.attempts = claim.attempts
        /\ claim'.response = claim.response
    BY <1>0, <1>1 DEF LeaseExpires, Claim
  <2>2. \A q \in Reqs : Owns(q) =>
          req[q].pc \notin {"acquired", "preparing", "answered"}
    BY <1>1 DEF LeaseExpires, Unfenced, Owns
  <2> QED
    BY <1>1, <2>1, <2>2 DEF LeaseExpires, Journal, Owns, At
<1>2. CASE DeliveryLeaseExpires \/ BackoffElapses
  <2>1. /\ outbox.status # "absent" /\ outbox'.status # "absent"
        /\ outbox'.envelope = outbox.envelope
        /\ UNCHANGED <<claim, marker, rows, req, shown>>
    BY <1>0, <1>2 DEF DeliveryLeaseExpires, BackoffElapses, Delivery
  <2> QED
    BY <2>1 DEF Journal, Owns, At
<1>3. CASE UNCHANGED vars
  BY <1>3 DEF vars, Journal, Owns, At
<1> QED
  BY <1>1, <1>2, <1>3, JournalRequest, JournalPublisher DEF Next

\* What has happened late stays on record.
LEMMA LateStays ==
    ASSUME Base, [Next]_vars, late
    PROVE  late'
<1>1. CASE LeaseExpires
  BY <1>1 DEF LeaseExpires
<1>2. CASE UNCHANGED late
  BY <1>2
<1>3. ASSUME NEW q \in Reqs, RequestStep(q)
      PROVE  UNCHANGED late
  BY <1>3, RequestSteps DEF Base
<1>4. ASSUME NEW p \in Publishers, PublisherStep(p)
      PROVE  UNCHANGED late
  BY <1>4, PublisherApart DEF Base, Apart
<1> QED
  BY <1>1, <1>2, <1>3, <1>4
  DEF Next, vars, DeliveryLeaseExpires, BackoffElapses

\* Until then Journal is an invariant.
LEMMA JournalAlways == Spec => [](late \/ Journal)
<1>1. Init => Journal
  BY NamesAssumption
  DEF Init, NewRequest, Journal, Owns, At, Working, Finishing, Answers
<1>2. Base /\ (late \/ Journal) /\ [Next]_vars => (late \/ Journal)'
  BY JournalStep, LateStays
<1> QED
  BY BaseAlways, <1>1, <1>2, PTL DEF Spec

\* Unless a lease runs out under a request on its way to a write, a take-over
\* finds a journal it can recover from, and the claim is completed with what is
\* in it.
THEOREM JournalSound == Spec => []JournalAgrees
<1>1. late \/ Journal => JournalAgrees
  BY DEF Journal, JournalAgrees
<1> QED
  BY JournalAlways, <1>1, PTL

\* With the same exception, what reaches the gateway is the answer of the
\* journal, whoever registered it and whoever sends it.
THEOREM PushesTheAnswer == Spec => []PushIsTheAnswer
<1>1. late \/ Journal => PushIsTheAnswer
  BY DEF Journal, PushIsTheAnswer
<1> QED
  BY JournalAlways, <1>1, PTL

\* With the same exception, the agent is not started for a message whose
\* completion is in the journal: a retry replays or recovers it.
THEOREM AgentRunsUnanswered == Spec => AnsweredOnce
<1>1. ASSUME Base, Journal, [Next]_vars PROVE StartsUnanswered
  <2>1. ASSUME NEW q \in Reqs, RequestStep(q) PROVE StartsUnanswered
    <3>1. Own(q) /\ Does(q)
      BY <1>1, <2>1, RequestSteps DEF Base
    <3>2. (req[q].pc # "running" /\ req'[q].pc = "running") => marker = None
      <4>1. CASE Advances(q)
        BY <1>1, <4>1 DEF Advances, Passes, Journal, Working, Finishing
      <4>2. CASE ~Advances(q)
        BY <3>1, <4>2 DEF Does, Takes, Replays, Recovers, Writes, Closes,
                          GivesUp, HandsOver, Registers, Finishing
      <4> QED
        BY <4>1, <4>2
    <3> QED
      BY <3>1, <3>2 DEF Own, StartsUnanswered
  <2>2. ASSUME NEW p \in Publishers, PublisherStep(p) PROVE StartsUnanswered
    BY <1>1, <2>2, PublisherApart DEF Base, Apart, StartsUnanswered
  <2>3. CASE req' = req
    BY <2>3 DEF StartsUnanswered
  <2> QED
    BY <1>1, <2>1, <2>2, <2>3
    DEF Next, vars, LeaseExpires, DeliveryLeaseExpires, BackoffElapses
<1>2. Base /\ (late \/ Journal) /\ [Next]_vars => [StartsUnanswered]_vars
  BY <1>1 DEF StartsUnanswered
<1> QED
  BY BaseAlways, JournalAlways, <1>2, PTL DEF Spec, AnsweredOnce
=============================================================================
