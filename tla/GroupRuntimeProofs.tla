------------------------- MODULE GroupRuntimeProofs -------------------------
(***************************************************************************)
(* What holds of GroupRuntime for every set of messages and calls, every   *)
(* threshold and every limit.                                              *)
(*                                                                         *)
(* The generation is what ties a verdict and a timer to the messages they  *)
(* are about.  It grows with every message that is received, so it is      *)
(* bounded by the messages sent plus the calls that failed (Counted), and  *)
(* gates and timers are never of a later one (GateShape, TimersOld).  As   *)
(* long as no message is sent again, a generation belongs to one holder: a *)
(* timer of it or a gate of it, never both and never two gates, and the    *)
(* gate's snapshot holds exactly the messages that are pending             *)
(* (OneHolder).  That is why a message is answered once and nothing unseen *)
(* is dropped.                                                             *)
(***************************************************************************)
EXTENDS GroupRuntime, FiniteSetTheorems, SequenceTheorems, TLAPS

\* An open gate was begun while none was running, about no later generation.
GateShape ==
    \A c \in Calls : Asking(c) =>
        /\ ~gate[c].snapshot.running
        /\ gate[c].snapshot.generation <= state.generation
        /\ Len(gate[c].snapshot.pending) <= MaxPending

\* The client was never told a generation that is still to come.
TimersOld == \A g \in timers : g <= state.generation

\* Every message received is a new one or one whose call failed.
Counted ==
    /\ state.generation + Cardinality(failed) <= Cardinality(sent) + faults
    /\ faults <= MaxFaults

\* Until a message is sent again, the current generation has one holder, who
\* knows all that is pending.
OneHolder ==
    ~retried =>
        \A c \in Calls : (Asking(c) /\ GateIsCurrent(c)) =>
            /\ state.generation \notin timers
            /\ gate[c].snapshot.pending = state.pending
            /\ \A d \in Calls : (Asking(d) /\ GateIsCurrent(d)) => d = c

\* Until a message is sent again, what is pending has not been answered.
Unanswered ==
    ~retried =>
        \A m \in Msgs :
            /\ m \in Ids(state.pending) => m \in sent /\ answered[m] = 0
            /\ m \notin sent => answered[m] = 0

IInv ==
    /\ TypeOK /\ GateShape /\ TimersOld /\ Counted
    /\ RunningIsHeld /\ Covered
    /\ OneHolder /\ Unanswered /\ AnsweredOnce

-----------------------------------------------------------------------------
(* The state of a group *)

\* A state the runtime can leave behind.
Room(s) == s \in Chat /\ Len(s.pending) <= MaxPending

\* What the generation, the gates and the timers are about.
SameCore(s, t) ==
    s.pending = t.pending /\ s.generation = t.generation /\ s.running = t.running

\* The columns of a GroupChatState, one by one.
LEMMA ChatFields ==
    ASSUME NEW s \in Chat
    PROVE  /\ s.pending \in Seq(Pending) /\ s.generation \in Nat
           /\ s.running \in BOOLEAN /\ s.wait \in Wait /\ s.force \in BOOLEAN
           /\ s.last \in Triggers /\ s.linger \in Linger /\ s.spoken \in Nat
           /\ s.recent \in BOOLEAN /\ s.ago \in {"long", "warm", "hot"}
  BY DEF Chat

\* The fields that a step of the life cycle rewrites.
LEMMA ChatUpdates ==
    ASSUME NEW s, Room(s), NEW w \in Wait, NEW b \in BOOLEAN, NEW l \in Linger,
           NEW n \in Nat, NEW a \in {"long", "warm", "hot"}
    PROVE  /\ Room([s EXCEPT !.wait = w])
           /\ Room([s EXCEPT !.force = b])
           /\ Room([s EXCEPT !.running = b])
           /\ Room([s EXCEPT !.recent = b])
           /\ Room([s EXCEPT !.linger = l])
           /\ Room([s EXCEPT !.spoken = n])
           /\ Room([s EXCEPT !.ago = a])
           /\ Room([s EXCEPT !.linger = l, !.spoken = n])
           /\ Room([s EXCEPT !.linger = l, !.force = b])
           /\ Room([s EXCEPT !.force = b, !.wait = w])
           /\ Room([s EXCEPT !.ago = a, !.linger = l])
  BY DEF Room, Chat

\* Waits stay waits.
LEMMA WaitUpdates ==
    ASSUME NEW w \in Wait, NEW b \in BOOLEAN
    PROVE  /\ NoWait \in Wait
           /\ StartWait(w) \in Wait
           /\ EndWait(w, b) \in Wait
           /\ [w EXCEPT !.fresh = b] \in Wait
           /\ [EndWait(w, b) EXCEPT !.fresh = TRUE] \in Wait
           /\ [w EXCEPT !.fresh = TRUE, !.due = FALSE] \in Wait
           /\ [w EXCEPT !.due = b] \in Wait
           /\ [w EXCEPT !.over = b] \in Wait
<1> DEFINE spent == w.spent \/ (w.on /\ b)
           over == IF w.on THEN w.over ELSE FALSE
           more == w.count + 1
<1>1. /\ w.on \in BOOLEAN /\ w.due \in BOOLEAN /\ w.over \in BOOLEAN
      /\ w.count \in Nat /\ w.fresh \in BOOLEAN /\ w.spent \in BOOLEAN
  BY DEF Wait
<1>2. spent \in BOOLEAN
  OBVIOUS
<1>3. /\ over \in BOOLEAN
      /\ more \in Nat
  <2>1. over \in BOOLEAN
    BY <1>1, Zenon
  <2>2. more \in Nat
    BY <1>1
  <2> QED
    BY <2>1, <2>2
<1>4. EndWait(w, b) = [w EXCEPT !.on = FALSE, !.due = FALSE, !.over = FALSE,
                                !.spent = spent]
  BY DEF EndWait
<1>5. StartWait(w) = [w EXCEPT !.on = TRUE, !.due = FALSE, !.over = over,
                               !.count = more, !.fresh = FALSE]
  BY DEF StartWait
<1> HIDE DEF spent, over, more
<1>6. EndWait(w, b) \in Wait /\ [EndWait(w, b) EXCEPT !.fresh = TRUE] \in Wait
  BY <1>2, <1>4 DEF Wait
<1>7. StartWait(w) \in Wait
  BY <1>1, <1>3, <1>5 DEF Wait
<1>8. NoWait \in Wait
  BY DEF Wait, NoWait
<1>9. /\ [w EXCEPT !.fresh = b] \in Wait
      /\ [w EXCEPT !.fresh = TRUE, !.due = FALSE] \in Wait
      /\ [w EXCEPT !.due = b] \in Wait
      /\ [w EXCEPT !.over = b] \in Wait
  BY DEF Wait
<1> QED
  BY <1>6, <1>7, <1>8, <1>9

\* A verdict is applied: what was pending goes, unless it is to wait.
LEMMA AppliedFacts ==
    ASSUME NEW s, Room(s), NEW a
    PROVE  /\ Room(Applied(s, a))
           /\ Applied(s, a).generation = s.generation
           /\ ~Applied(s, a).running
           /\ Applied(s, a).pending = IF a = "wait" THEN s.pending ELSE <<>>
<1>1. StartWait(s.wait) \in Wait /\ NoWait \in Wait
  BY WaitUpdates, ChatFields DEF Room
<1>2. <<>> \in Seq(Pending) /\ Len(<<>>) = 0 /\ 0 <= MaxPending
  BY LimitAssumption
<1> QED
  BY <1>1, <1>2 DEF Room, Chat, Applied

\* A message is added: at most MaxPending stay, and nothing else comes in.
LEMMA AddedFacts ==
    ASSUME NEW s, Room(s), NEW m \in Msgs, NEW tr \in Triggers,
           NEW k \in 0..Len(s.pending)
    PROVE  /\ Room(Added(s, m, tr, k))
           /\ Added(s, m, tr, k).generation = s.generation + 1
           /\ Added(s, m, tr, k).running = s.running
           /\ Added(s, m, tr, k).wait = s.wait
           /\ Ids(Added(s, m, tr, k).pending) \subseteq Ids(s.pending) \cup {m}
<1> DEFINE kept == SubSeq(s.pending, k + 1, Len(s.pending))
           all == Append(kept, [msg |-> m, trigger |-> tr])
           new == IF Len(all) > MaxPending THEN Tail(all) ELSE all
<1>1. s.pending \in Seq(Pending) /\ Len(s.pending) <= MaxPending
      /\ Len(s.pending) \in Nat
  BY DEF Room, Chat
<1>2. /\ kept \in Seq(Pending) /\ Len(kept) <= Len(s.pending)
      /\ \A i \in 1..Len(kept) : kept[i] = s.pending[k + i]
      /\ \A i \in 1..Len(kept) : k + i \in 1..Len(s.pending)
  BY <1>1
<1>3. [msg |-> m, trigger |-> tr] \in Pending
  BY DEF Pending
<1>4. /\ all \in Seq(Pending) /\ Len(all) = Len(kept) + 1
      /\ \A i \in 1..Len(kept) : all[i] = kept[i]
      /\ all[Len(kept) + 1] = [msg |-> m, trigger |-> tr]
  <2> HIDE DEF kept
  <2> QED
    BY <1>2, <1>3
<1> HIDE DEF all, kept
<1>5. /\ new \in Seq(Pending) /\ Len(new) <= MaxPending
      /\ \A i \in 1..Len(new) : \E j \in 1..Len(all) : new[i] = all[j]
  BY <1>1, <1>2, <1>4, LimitAssumption
<1> HIDE DEF new
<1>6. \A j \in 1..Len(all) : all[j].msg \in Ids(s.pending) \cup {m}
  <2> SUFFICES ASSUME NEW j \in 1..Len(all)
               PROVE  all[j].msg \in Ids(s.pending) \cup {m}
    OBVIOUS
  <2>1. CASE j = Len(kept) + 1
    BY <1>4, <2>1
  <2>2. CASE j \in 1..Len(kept)
    BY <1>2, <1>4, <2>2 DEF Ids
  <2> QED
    BY <1>2, <1>4, <2>1, <2>2
<1>7. Ids(new) \subseteq Ids(s.pending) \cup {m}
  BY <1>5, <1>6 DEF Ids
<1>8. Added(s, m, tr, k) = [s EXCEPT !.pending = new, !.generation = @ + 1,
                                     !.last = tr]
  BY DEF Added, new, all, kept
<1>9. s \in Chat /\ s.generation + 1 \in Nat
  BY DEF Room, Chat
<1>10. /\ Added(s, m, tr, k).pending = new
       /\ Added(s, m, tr, k).generation = s.generation + 1
       /\ Added(s, m, tr, k).running = s.running
       /\ Added(s, m, tr, k).wait = s.wait
  BY <1>8, <1>9 DEF Chat
<1>11. Added(s, m, tr, k) \in Chat
  BY <1>5, <1>8, <1>9 DEF Chat
<1> QED
  BY <1>5, <1>7, <1>10, <1>11 DEF Room

\* A snapshot is put back.
LEMMA RestoredFacts ==
    ASSUME NEW s, Room(s), NEW snap \in Snapshot, Len(snap.pending) <= MaxPending
    PROVE  /\ Room(Restored(s, snap))
           /\ Restored(s, snap).pending = snap.pending
           /\ Restored(s, snap).generation = snap.generation
           /\ Restored(s, snap).running = snap.running
<1> DEFINE due == snap.wait.due \/ (snap.wait.on /\ (s.wait.due \/ ~s.wait.on))
           over == snap.wait.over \/ (snap.wait.on /\ s.wait.over)
           wait == [snap.wait EXCEPT !.due = due, !.over = over]
           on == snap.linger.on /\ s.linger.on
           linger == [snap.linger EXCEPT !.on = on]
           recent == s.recent /\ snap.recent
<1>1. due \in BOOLEAN /\ over \in BOOLEAN /\ on \in BOOLEAN /\ recent \in BOOLEAN
  BY Zenon
<1>2. Restored(s, snap) = [s EXCEPT !.pending = snap.pending,
                             !.running = snap.running,
                             !.generation = snap.generation,
                             !.force = snap.force, !.wait = wait,
                             !.linger = linger, !.recent = recent]
  BY DEF Restored
<1>3. /\ snap.pending \in Seq(Pending) /\ snap.generation \in Nat
      /\ snap.running \in BOOLEAN /\ snap.wait \in Wait /\ snap.force \in BOOLEAN
      /\ snap.linger \in Linger
  BY DEF Snapshot
<1> HIDE DEF due, over, on, recent
<1>4. wait \in Wait /\ linger \in Linger
  BY <1>1, <1>3 DEF Wait, Linger
<1> HIDE DEF wait, linger
<1>5. s \in Chat
  BY DEF Room
<1>6. Restored(s, snap) \in Chat
  BY <1>1, <1>2, <1>3, <1>4, <1>5 DEF Chat
<1>7. /\ Restored(s, snap).pending = snap.pending
      /\ Restored(s, snap).generation = snap.generation
      /\ Restored(s, snap).running = snap.running
  BY <1>2, <1>5 DEF Chat
<1> QED
  BY <1>6, <1>7 DEF Room

\* A transaction is aborted: the group is where it was, or where the messages
\* that came in have brought it, and it is not running.
LEMMA AbortedFacts ==
    ASSUME NEW s, Room(s), NEW snap \in Snapshot, Len(snap.pending) <= MaxPending,
           ~snap.running
    PROVE  /\ Room(Aborted(s, snap))
           /\ Aborted(s, snap).generation = s.generation
           /\ ~Aborted(s, snap).running
           /\ Aborted(s, snap).pending =
                IF s.generation = snap.generation THEN snap.pending ELSE s.pending
<1>1. CASE s.generation = snap.generation
  BY <1>1, RestoredFacts DEF Aborted
<1>2. CASE s.generation # snap.generation
  <2> DEFINE recent == s.recent /\ snap.recent
  <2>1. recent \in BOOLEAN /\ snap.running \in BOOLEAN
    BY DEF Snapshot
  <2>2. Aborted(s, snap) = [s EXCEPT !.running = snap.running, !.recent = recent]
    BY <1>2 DEF Aborted
  <2> HIDE DEF recent
  <2> QED
    BY <1>2, <2>1, <2>2 DEF Room, Chat
<1> QED
  BY <1>1, <1>2

-----------------------------------------------------------------------------
(* How a call ends *)

\* The messages in saw are handed to the agent.
Handed(saw) ==
    [m \in Msgs |-> IF m \in Ids(saw) THEN answered[m] + 1 ELSE answered[m]]

\* From s, with the timers ts left, a call ends in one of four ways: the
\* client is to call back, what is pending is decided on, it is addressed to
\* others and stays, or the call raises.
Ends(s, saw, ts) ==
    /\ Room(state')
    /\ state'.generation = s.generation
    /\ state'.running => s.running
    /\ owed' \in Nat
    /\ \/ /\ state'.pending = s.pending /\ timers' = ts \cup {s.generation}
          /\ answered' = answered /\ faults' = faults
       \/ /\ state'.pending = <<>> /\ timers' = ts
          /\ answered' \in {answered, Handed(saw)} /\ faults' = faults
       \/ /\ state'.pending = s.pending /\ timers' = ts /\ Suppressed(state')
          /\ answered' = answered /\ faults' = faults
       \/ /\ state'.pending = s.pending /\ timers' = ts
          /\ answered' = answered /\ faults < MaxFaults /\ faults' = faults + 1

\* From s, a call has begun to ask a model.
Asked(s, ts) ==
    /\ Room(state')
    /\ state'.generation = s.generation /\ state'.pending = s.pending
    /\ timers' = ts
    /\ UNCHANGED <<answered, owed, faults>>
    /\ \E c \in Calls, g \in Gate :
          /\ gate[c] = NoGate
          /\ gate' = [gate EXCEPT ![c] = g]
          /\ g.snapshot.pending = s.pending
          /\ g.snapshot.generation = s.generation
          /\ ~g.snapshot.running

\* What a call does under the lock, up to its end or its question.
Called(s, saw, ts) == (Ends(s, saw, ts) /\ gate' = gate) \/ Asked(s, ts)

\* Only what is pending, the generation and the flag matter.
LEMMA CalledCore ==
    ASSUME NEW s, NEW t, SameCore(s, t), NEW saw, NEW ts
    PROVE  /\ Ends(s, saw, ts) => Ends(t, saw, ts)
           /\ Asked(s, ts) => Asked(t, ts)
           /\ Called(s, saw, ts) => Called(t, saw, ts)
  BY DEF SameCore, Ends, Asked, Called

\* A call that waits or raises ends without asking a model.
LEMMA WaitsEnds ==
    ASSUME TypeOK, NEW s, Room(s), NEW saw, NEW ts, Waits(s, ts) \/ Raises(s, ts)
    PROVE  Ends(s, saw, ts)
  BY DEF TypeOK, Waits, Raises, Ends

\* A call that cannot score messages to others ends and leaves them.
LEMMA DropsEnds ==
    ASSUME TypeOK, NEW s, Room(s), NEW saw, NEW ts, Suppressed(s), Drops(s, ts)
    PROVE  Ends(s, saw, ts)
  BY DEF TypeOK, Drops, Ends

\* A call that decides ends, and clears the flag of the gate.
LEMMA DecidesEnds ==
    ASSUME TypeOK, NEW s, Room(s), NEW saw, NEW acts \in SUBSET Actions, NEW ts,
           Decides(s, saw, acts, ts)
    PROVE  Ends(s, saw, ts) /\ ~state'.running
<1>1. PICK a \in acts :
         LET action == IF a = "wait" /\ AntiLoop(s.wait) THEN "no_reply" ELSE a
             goes == action = "continue"
         IN  /\ state' = Applied(s, action)
             /\ timers' = IF action = "wait" THEN ts \cup {s.generation} ELSE ts
             /\ answered' = [m \in Msgs |-> IF goes /\ m \in Ids(saw)
                                              THEN answered[m] + 1
                                              ELSE answered[m]]
             /\ owed' = IF goes THEN owed + 1 ELSE owed
             /\ UNCHANGED faults
  BY DEF Decides
<1> DEFINE action == IF a = "wait" /\ AntiLoop(s.wait) THEN "no_reply" ELSE a
<1>2. /\ state' = Applied(s, action) /\ faults' = faults
      /\ timers' = IF action = "wait" THEN ts \cup {s.generation} ELSE ts
      /\ answered' = [m \in Msgs |-> IF action = "continue" /\ m \in Ids(saw)
                                       THEN answered[m] + 1
                                       ELSE answered[m]]
      /\ owed' = IF action = "continue" THEN owed + 1 ELSE owed
  BY <1>1
<1> HIDE DEF action
<1>3. answered \in [Msgs -> Nat] /\ owed \in Nat
  BY DEF TypeOK
<1>4. answered' = IF action = "continue" THEN Handed(saw) ELSE answered
  BY <1>2, <1>3 DEF Handed
<1>5. owed' \in Nat
  BY <1>2, <1>3
<1>6. /\ Room(state') /\ state'.generation = s.generation /\ ~state'.running
      /\ state'.pending = IF action = "wait" THEN s.pending ELSE <<>>
  BY <1>2, AppliedFacts
<1> QED
  BY <1>2, <1>4, <1>5, <1>6 DEF Ends

\* A call that asks a model leaves a gate with what is pending now.
LEMMA AsksAsked ==
    ASSUME TypeOK, NEW s, Room(s), ~s.running,
           NEW kind \in {"message", "timer", "proactive"},
           NEW m \in Msgs \cup {NoMsg}, NEW forced \in BOOLEAN, NEW ts,
           Asks(s, kind, m, forced, ts)
    PROVE  Asked(s, ts)
<1>1. PICK c \in Calls :
         /\ gate[c] = NoGate
         /\ state' = [s EXCEPT !.running = TRUE]
         /\ gate' = [gate EXCEPT ![c] = GateOf(kind, m, s, forced)]
         /\ timers' = ts
         /\ UNCHANGED <<answered, owed, faults>>
  BY DEF Asks
<1>2. /\ Room(state') /\ state'.generation = s.generation
      /\ state'.pending = s.pending
  <2>1. Room([s EXCEPT !.running = TRUE])
    BY DEF Room, Chat
  <2> QED
    BY <1>1, <2>1 DEF Room, Chat
<1>3. Capture(s) \in Snapshot
  BY DEF Room, Chat, Capture, Snapshot
<1>4. GateOf(kind, m, s, forced) \in Gate
  BY <1>3 DEF GateOf, Gate
<1>5. /\ GateOf(kind, m, s, forced).snapshot.pending = s.pending
      /\ GateOf(kind, m, s, forced).snapshot.generation = s.generation
      /\ ~GateOf(kind, m, s, forced).snapshot.running
  BY DEF GateOf, Capture
<1> QED
  BY <1>1, <1>2, <1>4, <1>5 DEF Asked

\* process_message, once the message is pending and no wait is on.
LEMMA ConsidersCalled ==
    ASSUME TypeOK, NEW s, Room(s), NEW m \in Msgs, NEW tr, Considers(s, m, tr)
    PROVE  Called(s, s.pending, timers)
<1> DEFINE u == [s EXCEPT !.force = FALSE]
<1>1. Room(u) /\ SameCore(u, s)
  BY DEF Room, Chat, SameCore
<1> HIDE DEF u
<1>2. Actions \in SUBSET Actions /\ {"wait", "no_reply"} \in SUBSET Actions
  BY DEF Actions
<1>3. \/ (Waits(s, timers) \/ Raises(s, timers)) /\ gate' = gate
      \/ \E acts \in SUBSET Actions :
            Decides(s, s.pending, acts, timers) /\ gate' = gate
      \/ Decides(u, s.pending, Actions, timers) /\ gate' = gate
      \/ /\ ~s.running
         /\ \E kind \in {"message", "proactive"}, forced \in BOOLEAN :
               Asks(s, kind, m, forced, timers)
      \/ Suppressed(s) /\ Drops(s, timers) /\ gate' = gate
  BY <1>2 DEF Considers, u
<1>4. CASE (Waits(s, timers) \/ Raises(s, timers)) /\ gate' = gate
  BY <1>4, WaitsEnds DEF Called
<1>5. CASE \E acts \in SUBSET Actions :
              Decides(s, s.pending, acts, timers) /\ gate' = gate
  BY <1>5, DecidesEnds DEF Called
<1>6. CASE Decides(u, s.pending, Actions, timers) /\ gate' = gate
  BY <1>1, <1>2, <1>6, DecidesEnds, CalledCore DEF Called
<1>7. CASE /\ ~s.running
           /\ \E kind \in {"message", "proactive"}, forced \in BOOLEAN :
                 Asks(s, kind, m, forced, timers)
  BY <1>7, AsksAsked DEF Called
<1>8. CASE Suppressed(s) /\ Drops(s, timers) /\ gate' = gate
  BY <1>8, DropsEnds DEF Called
<1> QED
  BY <1>3, <1>4, <1>5, <1>6, <1>7, <1>8

-----------------------------------------------------------------------------
(* What the operations do, in these terms *)

\* The state in which a message is received: it may push out older ones.
Received(s, m) ==
    /\ Room(s)
    /\ s.generation = state.generation + 1
    /\ s.running = state.running
    /\ Ids(s.pending) \subseteq Ids(state.pending) \cup {m}

\* process_message of a new message: it is received, then a call.
LEMMA ReceiveCalled ==
    ASSUME TypeOK, NEW m \in Msgs, ReceiveMessage(m)
    PROVE  \E s : Received(s, m) /\ Called(s, s.pending, timers)
<1>1. PICK tr \in TriggersOf(m), k \in 0..Len(state.pending) :
         LET s == Added(state, m, tr, k) IN
         \/ /\ Waits([s EXCEPT !.wait.fresh = TRUE, !.wait.due = FALSE], timers)
            /\ UNCHANGED gate
         \/ \E b \in BOOLEAN :
               Considers([Heard(s, tr) EXCEPT
                            !.wait = [EndWait(@, b) EXCEPT !.fresh = TRUE]], m, tr)
         \/ Considers(Heard(s, tr), m, tr)
  BY DEF ReceiveMessage
<1> DEFINE s == Added(state, m, tr, k)
<1>2. tr \in Triggers
  BY DEF TriggersOf, Triggers
<1>3. Room(state)
  BY DEF TypeOK, Room
<1>4. Received(s, m)
  BY <1>2, <1>3, AddedFacts DEF Received
<1> DEFINE w == [s EXCEPT !.wait.fresh = TRUE, !.wait.due = FALSE]
           h == Heard(s, tr)
           e(b) == [h EXCEPT !.wait = [EndWait(@, b) EXCEPT !.fresh = TRUE]]
<1>5. \/ Waits(w, timers) /\ gate' = gate
      \/ \E b \in BOOLEAN : Considers(e(b), m, tr)
      \/ Considers(h, m, tr)
  BY <1>1
<1> HIDE DEF s
<1>6. s \in Chat /\ s.wait \in Wait
  BY <1>4 DEF Received, Room, Chat
<1>7. Received(w, m)
  <2> DEFINE x == [s.wait EXCEPT !.fresh = TRUE, !.due = FALSE]
  <2>1. x \in Wait
    BY <1>6, WaitUpdates
  <2>2. w = [s EXCEPT !.wait = x]
    BY <1>6 DEF Chat, Wait
  <2> HIDE DEF x, w
  <2>3. Room(w) /\ SameCore(w, s)
    BY <1>4, <1>6, <2>1, <2>2 DEF Received, Room, Chat, SameCore
  <2> QED
    BY <1>4, <2>3 DEF Received, SameCore
<1>8. Received(h, m) /\ h \in Chat
  <2>1. Room(h) /\ SameCore(h, s)
    <3>1. 0 \in 0..LingerMax
      BY LimitAssumption
    <3>2. [on |-> TRUE, used |-> 0] \in Linger
      BY <3>1 DEF Linger
    <3> QED
      BY <1>4, <1>6, <3>2 DEF Received, Heard, Addressed, Room, Chat, SameCore
  <2> QED
    BY <1>4, <2>1 DEF Received, SameCore, Room
<1> HIDE DEF h, w
<1>9. ASSUME NEW b \in BOOLEAN
      PROVE  Received(e(b), m)
  <2> DEFINE x == [EndWait(h.wait, b) EXCEPT !.fresh = TRUE]
  <2>1. x \in Wait
    BY <1>8, WaitUpdates, ChatFields
  <2>2. e(b) = [h EXCEPT !.wait = x]
    OBVIOUS
  <2> HIDE DEF x, e
  <2>3. Room(e(b)) /\ SameCore(e(b), h)
    BY <1>8, <2>1, <2>2 DEF Received, Room, Chat, SameCore
  <2> QED
    BY <1>8, <2>3 DEF Received, SameCore
<1> HIDE DEF e
<1>10. CASE Waits(w, timers) /\ gate' = gate
  BY <1>7, <1>10, WaitsEnds DEF Called, Received
<1>11. ASSUME NEW b \in BOOLEAN, Considers(e(b), m, tr)
       PROVE  Received(e(b), m) /\ Called(e(b), e(b).pending, timers)
  <2>1. Received(e(b), m) /\ Room(e(b))
    BY <1>9 DEF Received
  <2> QED
    BY <1>11, <2>1, ConsidersCalled
<1>12. CASE Considers(h, m, tr)
  BY <1>8, <1>12, ConsidersCalled DEF Received
<1> QED
  BY <1>5, <1>10, <1>11, <1>12

\* process_message of a message that is pending already: only a call.
LEMMA RepeatCalled ==
    ASSUME TypeOK, NEW m \in Msgs, RepeatMessage(m)
    PROVE  Called(state, state.pending, timers)
<1>1. PICK tr \in TriggersOf(m) :
         \/ Waits(state, timers) /\ UNCHANGED gate
         \/ \E b \in BOOLEAN : Considers([state EXCEPT !.wait = EndWait(@, b)], m, tr)
         \/ Considers(state, m, tr)
  BY DEF RepeatMessage
<1>2. Room(state)
  BY DEF TypeOK, Room
<1>3. ASSUME NEW b \in BOOLEAN, Considers([state EXCEPT !.wait = EndWait(@, b)], m, tr)
      PROVE  Called(state, state.pending, timers)
  <2> DEFINE e == [state EXCEPT !.wait = EndWait(@, b)]
             x == EndWait(state.wait, b)
  <2>1. x \in Wait
    BY <1>2, WaitUpdates, ChatFields DEF Room
  <2>2. e = [state EXCEPT !.wait = x]
    OBVIOUS
  <2> HIDE DEF x
  <2>3. Room(e) /\ SameCore(e, state)
    BY <1>2, <2>1, <2>2 DEF Room, Chat, SameCore
  <2>4. Considers(e, m, tr)
    BY <1>3
  <2> HIDE DEF e
  <2>5. Called(e, e.pending, timers)
    BY <2>3, <2>4, ConsidersCalled
  <2> QED
    BY <2>3, <2>5, CalledCore DEF SameCore
<1> QED
  BY <1>1, <1>2, <1>3, WaitsEnds, ConsidersCalled DEF Called

\* handle_timer_fired: nothing for an old generation, else a call.
LEMMA TimerCalled ==
    ASSUME TypeOK, NEW g, TimerFired(g)
    PROVE  /\ g \in timers
           /\ \/ /\ g # state.generation /\ state' = state /\ gate' = gate
                 /\ timers' = timers \ {g}
                 /\ UNCHANGED <<answered, owed, faults>>
              \/ /\ g = state.generation
                 /\ Called(state, state.pending, timers \ {g})
<1> DEFINE ts == timers \ {g}
<1>1. Room(state)
  BY DEF TypeOK, Room
<1>2. Actions \in SUBSET Actions /\ CooldownActions \in SUBSET Actions
  BY DEF Actions, CooldownActions
<1> DEFINE e(b) == IF state.wait.on THEN [state EXCEPT !.wait = EndWait(@, b)]
                                    ELSE state
<1>3. /\ g \in timers
      /\ \/ g # state.generation /\ Drops(state, ts) /\ gate' = gate
         \/ /\ g = state.generation
            /\ \/ (Waits(state, ts) \/ Raises(state, ts)) /\ gate' = gate
               \/ \E acts \in SUBSET Actions :
                     Decides(state, state.pending, acts, ts) /\ gate' = gate
               \/ \E b \in BOOLEAN :
                     Decides(e(b), e(b).pending, Actions, ts) /\ gate' = gate
               \/ ~state.running /\ Asks(state, "timer", NoMsg, FALSE, ts)
  BY <1>2 DEF TimerFired, TimerIsCurrent, CanTriggerGate
<1>4. ASSUME NEW b \in BOOLEAN
      PROVE  Room(e(b)) /\ SameCore(e(b), state)
  <2> DEFINE x == EndWait(state.wait, b)
  <2>1. x \in Wait
    BY <1>1, WaitUpdates, ChatFields DEF Room
  <2>2. e(b) = IF state.wait.on THEN [state EXCEPT !.wait = x] ELSE state
    OBVIOUS
  <2> HIDE DEF x, e
  <2> QED
    BY <1>1, <2>1, <2>2 DEF Room, Chat, SameCore
<1> HIDE DEF e, ts
<1>6. ASSUME Waits(state, ts) \/ Raises(state, ts), gate' = gate
      PROVE  Called(state, state.pending, ts)
  BY <1>1, <1>6, WaitsEnds DEF Called
<1>7. ASSUME NEW acts \in SUBSET Actions, Decides(state, state.pending, acts, ts),
             gate' = gate
      PROVE  Called(state, state.pending, ts)
  BY <1>1, <1>7, DecidesEnds DEF Called
<1>8. ASSUME NEW b \in BOOLEAN,
             Decides(e(b), e(b).pending, Actions, ts) /\ gate' = gate
      PROVE  Called(state, state.pending, ts)
  <2>1. Ends(e(b), e(b).pending, ts)
    BY <1>2, <1>4, <1>8, DecidesEnds
  <2> QED
    BY <1>4, <1>8, <2>1, CalledCore DEF Called, SameCore
<1>9. ASSUME ~state.running, Asks(state, "timer", NoMsg, FALSE, ts)
      PROVE  Called(state, state.pending, ts)
  BY <1>1, <1>9, AsksAsked DEF Called
<1>10. CASE g # state.generation
  BY <1>3, <1>10 DEF ts, Drops
<1>11. CASE g = state.generation
  <2>1. Called(state, state.pending, ts)
    BY <1>3, <1>6, <1>7, <1>8, <1>9, <1>11
  <2> QED
    BY <1>3, <1>11, <2>1 DEF ts
<1> QED
  BY <1>10, <1>11

\* A gate that ends is closed and the group not running.  A verdict is applied
\* to the messages of the snapshot, dropped when messages have arrived, or
\* never comes.
GateClosed(c) ==
    /\ Asking(c)
    /\ gate' = [gate EXCEPT ![c] = NoGate]
    /\ Room(state') /\ ~state'.running
    /\ state'.generation = state.generation
    /\ owed' \in Nat
    /\ \/ /\ GateIsCurrent(c)
          /\ Ends(state, gate[c].snapshot.pending, timers)
          /\ failed' = failed
       \/ /\ ~GateIsCurrent(c)
          /\ state'.pending = state.pending
          /\ UNCHANGED <<timers, answered, faults, failed>>
       \/ /\ state'.pending = IF GateIsCurrent(c) THEN gate[c].snapshot.pending
                                                  ELSE state.pending
          /\ faults < MaxFaults /\ faults' = faults + 1
          /\ failed' = failed \cup ({gate[c].msg} \ {NoMsg})
          /\ UNCHANGED <<timers, answered>>
    /\ UNCHANGED <<sent, retried, replied>>

\* The gate of a call that asks.
LEMMA GateTyped ==
    ASSUME TypeOK, NEW c \in Calls, Asking(c)
    PROVE  /\ gate[c] \in Gate
           /\ gate[c].snapshot \in Snapshot
           /\ gate[c].snapshot.pending \in Seq(Pending)
           /\ gate[c].snapshot.generation \in Nat
           /\ gate[c].snapshot.wait \in Wait
           /\ gate[c].msg \in Msgs \cup {NoMsg}
  BY DEF TypeOK, Asking, Gate, Snapshot

\* However a gate ends, it is closed as GateClosed says.
LEMMA GateEndsClosed ==
    ASSUME IInv, NEW c \in Calls, GateEnds(c)
    PROVE  GateClosed(c)
<1>1. TypeOK /\ Room(state) /\ owed \in Nat
  BY DEF IInv, TypeOK, Room
<1>2. Asking(c) /\ gate' = [gate EXCEPT ![c] = NoGate]
      /\ UNCHANGED <<sent, retried, replied>>
  BY DEF GateEnds, GateOutdated, GateReturns, ProactiveReturns, GateFails
<1> DEFINE snap == gate[c].snapshot
<1>3. snap \in Snapshot /\ Len(snap.pending) <= MaxPending /\ ~snap.running
      /\ snap.wait \in Wait
  BY <1>1, <1>2, GateTyped DEF IInv, GateShape
<1>4. Actions \in SUBSET Actions /\ {"continue"} \in SUBSET Actions
      /\ {"no_reply"} \in SUBSET Actions
  BY DEF Actions
<1>5. CASE GateOutdated(c)
  <2>1. /\ ~GateIsCurrent(c) /\ state' = Aborted(state, snap)
        /\ UNCHANGED <<timers, answered, owed, faults, failed>>
    BY <1>5 DEF GateOutdated, Drops
  <2> HIDE DEF snap
  <2>2. /\ Room(state') /\ ~state'.running /\ state'.generation = state.generation
        /\ state'.pending = IF state.generation = snap.generation THEN snap.pending
                                                                 ELSE state.pending
    BY <1>1, <1>3, <2>1, AbortedFacts
  <2> QED
    BY <1>1, <1>2, <2>1, <2>2 DEF GateClosed, GateIsCurrent, snap
<1>6. CASE GateFails(c)
  <2>1. /\ state' = Aborted(state, snap)
        /\ faults < MaxFaults /\ faults' = faults + 1
        /\ failed' = failed \cup ({gate[c].msg} \ {NoMsg})
        /\ UNCHANGED <<timers, answered, owed>>
    BY <1>6 DEF GateFails, Raises
  <2> HIDE DEF snap
  <2>2. /\ Room(state') /\ ~state'.running /\ state'.generation = state.generation
        /\ state'.pending = IF state.generation = snap.generation THEN snap.pending
                                                                 ELSE state.pending
    BY <1>1, <1>3, <2>1, AbortedFacts
  <2> QED
    BY <1>1, <1>2, <2>1, <2>2 DEF GateClosed, GateIsCurrent, snap
<1>7. ASSUME NEW s, Room(s), SameCore(s, state), NEW acts \in SUBSET Actions,
             Decides(s, snap.pending, acts, timers), GateIsCurrent(c),
             failed' = failed
      PROVE  GateClosed(c)
  <2>1. Ends(s, snap.pending, timers) /\ ~state'.running
    BY <1>1, <1>7, DecidesEnds
  <2>2. Ends(state, snap.pending, timers)
    BY <1>7, <2>1, CalledCore
  <2> QED
    BY <1>2, <1>7, <2>1, <2>2 DEF GateClosed, Ends
<1>8. CASE GateReturns(c)
  <2>1. PICK b \in BOOLEAN :
           Decides([state EXCEPT
                      !.force = @ /\ ~gate[c].forced,
                      !.wait = IF gate[c].kind = "timer" /\ snap.wait.on
                                 THEN EndWait(@, b) ELSE @],
                   snap.pending, Actions, timers)
    BY <1>8 DEF GateReturns
  <2> DEFINE f == state.force /\ ~gate[c].forced
             w == IF gate[c].kind = "timer" /\ snap.wait.on
                    THEN EndWait(state.wait, b) ELSE state.wait
             s == [state EXCEPT !.force = f, !.wait = w]
  <2>2. Decides(s, snap.pending, Actions, timers)
    BY <2>1
  <2>3. f \in BOOLEAN /\ w \in Wait
    <3>1. state.wait \in Wait /\ EndWait(state.wait, b) \in Wait
      BY <1>1, WaitUpdates, ChatFields DEF Room
    <3>2. w \in Wait
      BY <3>1
    <3>3. f \in BOOLEAN
      OBVIOUS
    <3> QED
      BY <3>2, <3>3
  <2> HIDE DEF f, w
  <2>4. Room(s) /\ SameCore(s, state)
    BY <1>1, <2>3 DEF Room, Chat, SameCore
  <2>5. GateIsCurrent(c) /\ failed' = failed
    BY <1>8 DEF GateReturns
  <2> HIDE DEF s, snap
  <2> QED
    BY <1>4, <1>7, <2>2, <2>4, <2>5
<1>9. CASE ProactiveReturns(c)
  <2> DEFINE l == [on |-> TRUE, used |-> 0]
             n == state.spoken + 1
             s == [state EXCEPT !.linger = l, !.spoken = n]
  <2>1. \/ Decides(s, snap.pending, {"continue"}, timers)
        \/ Decides(state, snap.pending, {"no_reply"}, timers)
    BY <1>9 DEF ProactiveReturns
  <2>2. l \in Linger /\ n \in Nat
    BY <1>1, LimitAssumption DEF Linger, Room, Chat
  <2> HIDE DEF l, n
  <2>3. Room(s) /\ SameCore(s, state) /\ SameCore(state, state)
    BY <1>1, <2>2 DEF Room, Chat, SameCore
  <2>4. GateIsCurrent(c) /\ failed' = failed
    BY <1>9 DEF ProactiveReturns
  <2> HIDE DEF s, snap
  <2> QED
    BY <1>1, <1>4, <1>7, <2>1, <2>3, <2>4
<1> QED
  BY <1>5, <1>6, <1>8, <1>9 DEF GateEnds

\* The bot's replies and the passing of time: nothing the gates are about.
Quiet ==
    /\ Room(state') /\ SameCore(state', state)
    /\ gate' = gate
    /\ owed' \in Nat /\ replied' \in Nat
    /\ UNCHANGED <<timers, sent, failed, faults, retried, answered>>

\* Replies and the passing of time leave gates, timers and generation alone.
LEMMA QuietSteps ==
    ASSUME TypeOK,
           \/ BridgeReplies \/ RouteReplies \/ RouteSuppresses \/ AgentSilent
           \/ WaitDue \/ WaitOver \/ IntervalOver \/ LingerOver \/ WindowSlides
           \/ ReplyAges
    PROVE  Quiet
<1>1. Room(state) /\ owed \in Nat /\ replied \in Nat
  BY DEF TypeOK, Room
<1>2. /\ state.wait \in Wait /\ state.linger \in Linger /\ state.spoken \in Nat
      /\ state.ago \in {"long", "warm", "hot"}
  BY <1>1, ChatFields DEF Room
<1>3. /\ gate' = gate
      /\ UNCHANGED <<timers, sent, failed, faults, retried, answered>>
  BY DEF BridgeReplies, RouteReplies, RouteSuppresses, AgentSilent, WaitDue,
         WaitOver, IntervalOver, LingerOver, WindowSlides, ReplyAges, Passes,
         Elsewhere
<1>4. owed' \in Nat /\ replied' \in Nat
  <2>1. \/ owed' = owed \/ (owed > 0 /\ owed' = owed - 1)
    BY DEF BridgeReplies, RouteReplies, RouteSuppresses, AgentSilent, WaitDue,
           WaitOver, IntervalOver, LingerOver, WindowSlides, ReplyAges, Passes
  <2>2. \/ replied' = replied \/ replied' = replied + 1
        \/ (replied > 0 /\ replied' = replied - 1)
    BY DEF BridgeReplies, RouteReplies, RouteSuppresses, AgentSilent, WaitDue,
           WaitOver, IntervalOver, LingerOver, WindowSlides, ReplyAges, Passes
  <2> QED
    BY <1>1, <2>1, <2>2
<1>5. Room(state') /\ SameCore(state', state)
  <2>1. CASE RouteSuppresses \/ AgentSilent
    BY <1>1, <2>1 DEF RouteSuppresses, AgentSilent, SameCore
  <2>2. CASE BridgeReplies \/ RouteReplies
    <3> DEFINE n == IF state.linger.on /\ state.linger.used < LingerMax
                      THEN state.linger.used + 1 ELSE state.linger.used
               l == [state.linger EXCEPT !.used = n]
    <3>1. state' = Noted(state)
      BY <2>2 DEF BridgeReplies, RouteReplies
    <3>2. n \in 0..LingerMax
      BY <1>2, LimitAssumption DEF Linger
    <3>3. Noted(state) = [state EXCEPT !.ago = "hot", !.linger = l]
      BY <1>1 DEF Noted, Room, Chat
    <3> HIDE DEF n
    <3>4. l \in Linger
      BY <1>2, <3>2 DEF Linger
    <3> HIDE DEF l
    <3> QED
      BY <1>1, <3>1, <3>3, <3>4 DEF Room, Chat, SameCore
  <2>3. CASE WaitDue \/ WaitOver
    <3>1. PICK w \in Wait : state' = [state EXCEPT !.wait = w]
      <4>1. /\ [state.wait EXCEPT !.due = TRUE] \in Wait
            /\ [state.wait EXCEPT !.over = TRUE] \in Wait
        BY <1>2, WaitUpdates
      <4>2. \/ state' = [state EXCEPT !.wait = [state.wait EXCEPT !.due = TRUE]]
            \/ state' = [state EXCEPT !.wait = [state.wait EXCEPT !.over = TRUE]]
        BY <2>3 DEF WaitDue, WaitOver, Passes
      <4> QED
        BY <4>1, <4>2
    <3> QED
      BY <1>1, <3>1 DEF Room, Chat, SameCore
  <2>4. CASE IntervalOver
    BY <1>1, <2>4 DEF IntervalOver, Passes, Room, Chat, SameCore
  <2>5. CASE LingerOver
    <3>1. [state.linger EXCEPT !.on = FALSE] \in Linger
      BY <1>2 DEF Linger
    <3>2. PICK l \in Linger : state' = [state EXCEPT !.linger = l]
      BY <2>5, <3>1 DEF LingerOver, Passes
    <3> QED
      BY <1>1, <3>2 DEF Room, Chat, SameCore
  <2>6. CASE WindowSlides
    BY <1>1, <1>2, <2>6 DEF WindowSlides, Passes, Room, Chat, SameCore
  <2>7. CASE ReplyAges
    BY <1>1, <1>2, <2>7 DEF ReplyAges, Passes, Room, Chat, SameCore
  <2> QED
    BY <2>1, <2>2, <2>3, <2>4, <2>5, <2>6, <2>7
<1> QED
  BY <1>3, <1>4, <1>5 DEF Quiet

-----------------------------------------------------------------------------
(* Preservation, part by part *)

\* The messages that are pending are messages.
LEMMA IdsAreMsgs ==
    ASSUME NEW p \in Seq(Pending)
    PROVE  Ids(p) \subseteq Msgs
<1>1. \A i \in 1..Len(p) : p[i] \in Pending
  BY ElementOfSeq
<1>2. \A e \in Pending : e.msg \in Msgs
  BY DEF Pending
<1> QED
  BY <1>1, <1>2 DEF Ids

\* Handing messages over counts them once.
LEMMA HandedFacts ==
    ASSUME TypeOK, NEW saw
    PROVE  /\ Handed(saw) \in [Msgs -> Nat]
           /\ \A m \in Msgs : Handed(saw)[m] = IF m \in Ids(saw) THEN answered[m] + 1
                                                              ELSE answered[m]
  BY DEF TypeOK, Handed

\* The state a call works on: the group's own, or with a new message.
Base(s, ts) ==
    /\ Room(s) /\ s.running = state.running
    /\ s.generation \in {state.generation, state.generation + 1}
    /\ ts \subseteq timers

\* Types, gates, timers, the running flag and who the pending messages wait
\* for, after a call.
LEMMA CalledKeeps ==
    ASSUME IInv, NEW s, NEW ts, Base(s, ts), Called(s, s.pending, ts)
    PROVE  /\ Room(state') /\ state'.generation = s.generation
           /\ gate' \in [Calls -> Gate \cup {NoGate}]
           /\ answered' \in [Msgs -> Nat] /\ owed' \in Nat
           /\ faults' \in Nat /\ faults' <= MaxFaults
           /\ faults' \in {faults, faults + 1}
           /\ timers' \subseteq timers \cup {state'.generation}
           /\ GateShape' /\ TimersOld' /\ RunningIsHeld' /\ Covered'
<1>1. /\ state.generation \in Nat /\ s.generation \in Nat
      /\ state.generation <= s.generation
      /\ gate \in [Calls -> Gate \cup {NoGate}] /\ answered \in [Msgs -> Nat]
      /\ faults \in Nat /\ faults <= MaxFaults /\ MaxFaults \in Nat /\ owed \in Nat
      /\ timers \subseteq Nat
  BY LimitAssumption DEF IInv, TypeOK, Base, Counted, Chat, Room, Generations
<1>2. \A c \in Calls : Asking(c) =>
         /\ gate[c] \in Gate /\ gate[c].snapshot.generation \in Nat
         /\ ~gate[c].snapshot.running
         /\ gate[c].snapshot.generation <= state.generation
         /\ Len(gate[c].snapshot.pending) <= MaxPending
  BY GateTyped DEF IInv, GateShape
<1>3. \A g \in timers : g <= s.generation
  <2> SUFFICES ASSUME NEW g \in timers
               PROVE  g <= s.generation
    OBVIOUS
  <2>1. g \in Nat /\ g <= state.generation
    BY <1>1 DEF IInv, TimersOld
  <2> QED
    BY <1>1, <2>1
<1>4. CASE Ends(s, s.pending, ts) /\ gate' = gate
  <2>1. /\ Room(state') /\ state'.generation = s.generation /\ owed' \in Nat
        /\ state'.running => state.running
        /\ answered' \in [Msgs -> Nat]
        /\ faults' \in {faults, faults + 1} /\ faults' <= MaxFaults
        /\ timers' \subseteq timers \cup {s.generation}
        /\ \/ s.generation \in timers' \/ state'.pending = <<>>
           \/ Suppressed(state') \/ faults' # 0
    <3>1. Handed(s.pending) \in [Msgs -> Nat]
      BY HandedFacts DEF IInv
    <3>2. faults + 1 # 0 /\ (faults < MaxFaults => faults + 1 <= MaxFaults)
      BY <1>1
    <3> QED
      BY <1>1, <1>4, <3>1, <3>2 DEF Ends, Base
  <2>2. GateShape'
    BY <1>1, <1>2, <1>4, <2>1 DEF GateShape, Asking
  <2>3. TimersOld'
    <3>1. s.generation <= s.generation
      BY <1>1
    <3>2. \A g \in timers' : g <= s.generation
      BY <1>3, <2>1, <3>1, Zenon
    <3> QED
      BY <2>1, <3>2 DEF TimersOld
  <2>4. RunningIsHeld' /\ Covered'
    BY <1>4, <2>1 DEF IInv, RunningIsHeld, Covered, Asking
  <2> QED
    BY <1>1, <1>4, <2>1, <2>2, <2>3, <2>4
<1>5. CASE Asked(s, ts)
  <2>1. /\ Room(state') /\ state'.generation = s.generation
        /\ state'.pending = s.pending
        /\ timers' = ts /\ ts \subseteq timers
        /\ UNCHANGED <<answered, owed, faults>>
    BY <1>5 DEF Asked, Base
  <2>2. PICK c \in Calls, g \in Gate :
           /\ gate[c] = NoGate
           /\ gate' = [gate EXCEPT ![c] = g]
           /\ g.snapshot.pending = s.pending
           /\ g.snapshot.generation = s.generation
           /\ ~g.snapshot.running
    BY <1>5 DEF Asked
  <2>3. g # NoGate
    BY DEF Gate, NoGate
  <2>4. /\ gate' \in [Calls -> Gate \cup {NoGate}]
        /\ gate'[c] = g
        /\ \A d \in Calls \ {c} : gate'[d] = gate[d]
    BY <1>1, <2>2
  <2>5. GateShape'
    BY <1>1, <1>2, <2>1, <2>2, <2>4 DEF GateShape, Asking, Base, Room
  <2>6. TimersOld'
    BY <1>1, <1>3, <2>1 DEF TimersOld
  <2>7. RunningIsHeld' /\ Covered'
    BY <2>1, <2>2, <2>3, <2>4 DEF RunningIsHeld, Covered, Asking, GateIsCurrent
  <2> QED
    BY <1>1, <2>1, <2>4, <2>5, <2>6, <2>7
<1> QED
  BY <1>4, <1>5 DEF Called

\* A call that finds no holder of its generation leaves at most one.
LEMMA CalledHolder ==
    ASSUME IInv, NEW s, NEW ts, Called(s, s.pending, ts), s.generation \notin ts,
           \A c \in Calls : Asking(c) => gate[c].snapshot.generation # s.generation
    PROVE  OneHolder'
<1>1. gate \in [Calls -> Gate \cup {NoGate}]
  BY DEF IInv, TypeOK
<1>2. CASE Ends(s, s.pending, ts) /\ gate' = gate
  <2>1. \A c \in Calls : ~(Asking(c) /\ GateIsCurrent(c))'
    BY <1>2 DEF Ends, Asking, GateIsCurrent
  <2> QED
    BY <2>1 DEF OneHolder
<1>3. CASE Asked(s, ts)
  <2>1. /\ state'.generation = s.generation /\ state'.pending = s.pending
        /\ timers' = ts
    BY <1>3 DEF Asked
  <2>2. PICK c \in Calls, g \in Gate :
           /\ gate' = [gate EXCEPT ![c] = g]
           /\ g.snapshot.pending = s.pending
    BY <1>3 DEF Asked
  <2>3. /\ gate'[c] = g
        /\ \A d \in Calls \ {c} : gate'[d] = gate[d]
    BY <1>1, <2>2
  <2>4. \A d \in Calls : (Asking(d) /\ GateIsCurrent(d))' => d = c
    BY <2>1, <2>3 DEF Asking, GateIsCurrent
  <2> QED
    BY <2>1, <2>2, <2>3, <2>4 DEF OneHolder
<1> QED
  BY <1>2, <1>3 DEF Called

\* Unanswered messages that are handed over are answered once, and then they
\* are not pending.
LEMMA CalledAnswers ==
    ASSUME IInv, NEW s, Room(s), NEW ts,
           Ends(s, s.pending, ts) \/ Asked(s, ts),
           ~retried' => \A m \in Msgs :
               /\ m \in Ids(s.pending) => m \in sent' /\ answered[m] = 0
               /\ m \notin sent' => answered[m] = 0
               /\ answered[m] <= 1
    PROVE  Unanswered' /\ AnsweredOnce'
<1>1. TypeOK
  BY DEF IInv
<1>2. Ids(<<>>) = {}
  BY DEF Ids
<1>3. \/ state'.pending = s.pending /\ answered' = answered
      \/ state'.pending = <<>> /\ answered' \in {answered, Handed(s.pending)}
  BY DEF Ends, Asked
<1>4. CASE answered' = answered
  BY <1>2, <1>3, <1>4 DEF Unanswered, AnsweredOnce
<1>5. CASE state'.pending = <<>> /\ answered' = Handed(s.pending)
  <2>1. ASSUME NEW m \in Msgs, ~retried'
        PROVE  /\ m \notin sent' => answered'[m] = 0
               /\ answered'[m] <= 1
    BY <1>1, <1>5, <2>1, HandedFacts
  <2> QED
    BY <1>2, <1>5, <2>1 DEF Unanswered, AnsweredOnce
<1> QED
  BY <1>3, <1>4, <1>5

\* The generation is bounded by what was sent and what failed, and so are the
\* timers.
LEMMA TimersBounded ==
    ASSUME NEW gen \in Nat, NEW fs \in Nat, fs <= MaxFaults,
           NEW ts \in SUBSET Nat, \A g \in ts : g <= gen,
           NEW out \in SUBSET Msgs, NEW back \in SUBSET Msgs,
           gen + Cardinality(back) <= Cardinality(out) + fs
    PROVE  ts \subseteq Generations
<1>1. /\ Cardinality(out) \in Nat /\ Cardinality(back) \in Nat
      /\ Cardinality(out) <= Cardinality(Msgs) /\ Cardinality(Msgs) \in Nat
  BY MessageAssumption, FS_Subset, FS_CardinalityType
<1>2. gen <= Cardinality(Msgs) + MaxFaults
  BY <1>1, LimitAssumption
<1> QED
  BY <1>1, <1>2, LimitAssumption DEF Generations

\* All parts together, from what the operations establish.
LEMMA Parts ==
    ASSUME IInv, Room(state'), gate' \in [Calls -> Gate \cup {NoGate}],
           timers' \subseteq timers \cup {state'.generation},
           sent' \subseteq Msgs, failed' \subseteq Msgs, faults' \in Nat,
           retried' \in BOOLEAN, answered' \in [Msgs -> Nat],
           owed' \in Nat, replied' \in Nat,
           GateShape', TimersOld', Counted', RunningIsHeld', Covered', OneHolder',
           Unanswered', AnsweredOnce'
    PROVE  IInv'
<1>1. state' \in Chat /\ Len(state'.pending) <= MaxPending
      /\ state'.generation \in Nat
  BY DEF Room, Chat
<1>2. timers' \subseteq Nat
  BY <1>1 DEF IInv, TypeOK, Generations
<1>3. timers' \subseteq Generations
  BY <1>1, <1>2, TimersBounded DEF TimersOld, Counted
<1> QED
  BY <1>1, <1>3 DEF IInv, TypeOK

\* The books of what was sent and what failed, when a message is received.
LEMMA CountedReceive ==
    ASSUME IInv, NEW m \in Msgs, m \notin sent \/ m \in failed,
           sent' = sent \cup {m}, faults' \in {faults, faults + 1},
           faults' <= MaxFaults, Resent(m),
           state'.generation = state.generation + 1
    PROVE  failed' \subseteq Msgs /\ Counted'
<1>1. /\ IsFiniteSet(sent) /\ IsFiniteSet(failed)
      /\ sent \subseteq Msgs /\ failed \subseteq Msgs
      /\ state.generation \in Nat /\ faults \in Nat
      /\ state.generation + Cardinality(failed) <= Cardinality(sent) + faults
  BY MessageAssumption, FS_Subset DEF IInv, TypeOK, Counted, Chat
<1>2. Cardinality(sent) \in Nat /\ Cardinality(failed) \in Nat
  BY <1>1, FS_CardinalityType
<1>3. Cardinality(sent') = IF m \in sent THEN Cardinality(sent)
                                         ELSE Cardinality(sent) + 1
  BY <1>1, FS_AddElement
<1>4. CASE faults' = faults
  <2>1. failed' = failed \ {m}
    BY <1>1, <1>4 DEF Resent
  <2>2. Cardinality(failed') = IF m \in failed THEN Cardinality(failed) - 1
                                               ELSE Cardinality(failed)
    BY <1>1, <2>1, FS_RemoveElement
  <2>3. state'.generation + Cardinality(failed') <= Cardinality(sent') + faults'
    BY <1>1, <1>2, <1>3, <1>4, <2>2
  <2> QED
    BY <1>1, <2>1, <2>3 DEF Counted
<1>5. CASE faults' = faults + 1
  <2>1. failed' = failed \cup {m}
    BY <1>1, <1>5 DEF Resent
  <2>2. Cardinality(failed') = IF m \in failed THEN Cardinality(failed)
                                               ELSE Cardinality(failed) + 1
    BY <1>1, <2>1, FS_AddElement
  <2>3. state'.generation + Cardinality(failed') <= Cardinality(sent') + faults'
    BY <1>1, <1>2, <1>3, <1>5, <2>2
  <2> QED
    BY <1>1, <2>1, <2>3 DEF Counted
<1> QED
  BY <1>4, <1>5

\* Nothing is received: the generation stays, and a failure is counted.
LEMMA CountedStays ==
    ASSUME IInv, sent' = sent, state'.generation = state.generation,
           faults' <= MaxFaults,
           \/ faults' = faults /\ failed' \subseteq failed
           \/ faults' = faults + 1 /\ \E m : failed' \subseteq failed \cup {m}
    PROVE  Counted'
<1>1. /\ IsFiniteSet(sent) /\ IsFiniteSet(failed)
      /\ state.generation \in Nat /\ faults \in Nat
      /\ state.generation + Cardinality(failed) <= Cardinality(sent) + faults
  BY MessageAssumption, FS_Subset DEF IInv, TypeOK, Counted, Chat
<1>2. Cardinality(sent) \in Nat /\ Cardinality(failed) \in Nat
  BY <1>1, FS_CardinalityType
<1>3. CASE faults' = faults /\ failed' \subseteq failed
  <2>1. Cardinality(failed') \in Nat /\ Cardinality(failed') <= Cardinality(failed)
    BY <1>1, <1>3, FS_Subset, FS_CardinalityType
  <2>2. state'.generation + Cardinality(failed') <= Cardinality(sent') + faults'
    BY <1>1, <1>2, <1>3, <2>1
  <2> QED
    BY <2>2 DEF Counted
<1>4. CASE faults' = faults + 1 /\ \E m : failed' \subseteq failed \cup {m}
  <2>1. PICK m : failed' \subseteq failed \cup {m}
    BY <1>4
  <2>2. /\ IsFiniteSet(failed \cup {m})
        /\ Cardinality(failed \cup {m}) \in Nat
        /\ Cardinality(failed \cup {m}) <= Cardinality(failed) + 1
    BY <1>1, <1>2, FS_AddElement
  <2>3. /\ Cardinality(failed') \in Nat
        /\ Cardinality(failed') <= Cardinality(failed \cup {m})
    BY <2>1, <2>2, FS_Subset, FS_CardinalityType
  <2>4. state'.generation + Cardinality(failed') <= Cardinality(sent') + faults'
    BY <1>1, <1>2, <1>4, <2>2, <2>3
  <2> QED
    BY <2>4 DEF Counted
<1> QED
  BY <1>3, <1>4

\* A message is received.
LEMMA ReceiveKeeps ==
    ASSUME IInv, NEW m \in Msgs, ReceiveMessage(m)
    PROVE  IInv'
<1>1. PICK s : Received(s, m) /\ Called(s, s.pending, timers)
  BY ReceiveCalled DEF IInv
<1>2. /\ m \notin sent \/ m \in failed
      /\ sent' = sent \cup {m} /\ retried' = (retried \/ m \in sent)
      /\ Resent(m) /\ replied' = replied
  BY DEF ReceiveMessage
<1>3. Base(s, timers) /\ s.generation = state.generation + 1
  BY <1>1 DEF Received, Base
<1>4. /\ Room(state') /\ state'.generation = s.generation
      /\ gate' \in [Calls -> Gate \cup {NoGate}]
      /\ answered' \in [Msgs -> Nat] /\ owed' \in Nat
      /\ faults' \in Nat /\ faults' <= MaxFaults
      /\ faults' \in {faults, faults + 1}
      /\ timers' \subseteq timers \cup {state'.generation}
      /\ GateShape' /\ TimersOld' /\ RunningIsHeld' /\ Covered'
  BY <1>1, <1>3, CalledKeeps
<1>5. failed' \subseteq Msgs /\ Counted'
  BY <1>2, <1>3, <1>4, CountedReceive
<1>6. state.generation \in Nat /\ timers \subseteq Nat
  BY DEF IInv, TypeOK, Chat, Generations
<1>7. s.generation \notin timers
  <2> SUFFICES ASSUME s.generation \in timers
               PROVE  FALSE
    OBVIOUS
  <2>1. s.generation <= state.generation
    BY DEF IInv, TimersOld
  <2> QED
    BY <1>3, <1>6, <2>1
<1>8. \A c \in Calls : Asking(c) => gate[c].snapshot.generation # s.generation
  BY <1>3, <1>6 DEF IInv, GateShape
<1>9. OneHolder'
  BY <1>1, <1>7, <1>8, CalledHolder
<1>10. Unanswered' /\ AnsweredOnce'
  <2>1. ASSUME ~retried', NEW n \in Msgs
        PROVE  /\ n \in Ids(s.pending) => n \in sent' /\ answered[n] = 0
               /\ n \notin sent' => answered[n] = 0
               /\ answered[n] <= 1
    <3>1. ~retried /\ m \notin sent
      BY <1>2, <2>1
    <3> QED
      BY <1>1, <1>2, <3>1 DEF Received, IInv, Unanswered, AnsweredOnce
  <2>2. Room(s)
    BY <1>1 DEF Received
  <2> QED
    BY <1>1, <2>1, <2>2, CalledAnswers DEF Called
<1>11. sent' \subseteq Msgs /\ retried' \in BOOLEAN /\ replied' \in Nat
  <2>1. sent' \subseteq Msgs /\ replied' \in Nat
    BY <1>2 DEF IInv, TypeOK
  <2>2. retried' \in BOOLEAN
    BY <1>2, Zenon
  <2> QED
    BY <2>1, <2>2
<1> QED
  BY <1>4, <1>5, <1>9, <1>10, <1>11, Parts

\* A message that is pending is sent again.
LEMMA RepeatKeeps ==
    ASSUME IInv, NEW m \in Msgs, RepeatMessage(m)
    PROVE  IInv'
<1>1. Called(state, state.pending, timers)
  BY RepeatCalled DEF IInv
<1>2. /\ retried' = TRUE /\ sent' = sent /\ replied' = replied
      /\ failed' = IF faults' > faults THEN failed \cup {m} ELSE failed \ {m}
  BY DEF RepeatMessage, Resent
<1>3. Base(state, timers)
  BY DEF IInv, TypeOK, Base, Room
<1>4. /\ Room(state') /\ state'.generation = state.generation
      /\ gate' \in [Calls -> Gate \cup {NoGate}]
      /\ answered' \in [Msgs -> Nat] /\ owed' \in Nat
      /\ faults' \in Nat /\ faults' <= MaxFaults
      /\ faults' \in {faults, faults + 1}
      /\ timers' \subseteq timers \cup {state'.generation}
      /\ GateShape' /\ TimersOld' /\ RunningIsHeld' /\ Covered'
  BY <1>1, <1>3, CalledKeeps
<1>5. /\ \/ faults' = faults /\ failed' \subseteq failed
         \/ faults' = faults + 1 /\ \E n : failed' \subseteq failed \cup {n}
      /\ failed' \subseteq Msgs
  <2>1. faults \in Nat /\ failed \subseteq Msgs
    BY DEF IInv, TypeOK
  <2>2. CASE faults' = faults
    BY <1>2, <2>1, <2>2
  <2>3. CASE faults' = faults + 1
    BY <1>2, <2>1, <2>3
  <2> QED
    BY <1>4, <2>2, <2>3
<1>6. Counted'
  BY <1>2, <1>4, <1>5, CountedStays
<1>7. OneHolder' /\ Unanswered' /\ AnsweredOnce'
  BY <1>2 DEF OneHolder, Unanswered, AnsweredOnce
<1>8. sent' \subseteq Msgs /\ retried' \in BOOLEAN /\ replied' \in Nat
  BY <1>2 DEF IInv, TypeOK
<1> QED
  BY <1>4, <1>5, <1>6, <1>7, <1>8, Parts

\* The client calls back.
LEMMA TimerKeeps ==
    ASSUME IInv, NEW g, TimerFired(g)
    PROVE  IInv'
<1>1. /\ UNCHANGED <<sent, failed, retried, replied>>
      /\ sent' \subseteq Msgs /\ failed' \subseteq Msgs /\ retried' \in BOOLEAN
      /\ replied' \in Nat
  BY DEF TimerFired, IInv, TypeOK
<1>2. g \in timers
  BY DEF TimerFired
<1>3. CASE /\ g # state.generation /\ state' = state /\ gate' = gate
           /\ timers' = timers \ {g}
           /\ UNCHANGED <<answered, owed, faults>>
  <2>1. /\ Room(state') /\ gate' \in [Calls -> Gate \cup {NoGate}]
        /\ faults' \in Nat /\ answered' \in [Msgs -> Nat] /\ owed' \in Nat
        /\ timers' \subseteq timers
    BY <1>3 DEF IInv, TypeOK, Room
  <2>2. GateShape' /\ TimersOld' /\ RunningIsHeld' /\ Counted'
    BY <1>1, <1>3
    DEF IInv, GateShape, TimersOld, RunningIsHeld, Counted, Asking
  <2>3. Covered'
    BY <1>3 DEF IInv, Covered, Asking, GateIsCurrent
  <2>4. OneHolder' /\ Unanswered' /\ AnsweredOnce'
    BY <1>1, <1>3
    DEF IInv, OneHolder, Unanswered, AnsweredOnce, Asking, GateIsCurrent
  <2> QED
    BY <1>1, <2>1, <2>2, <2>3, <2>4, Parts
<1>4. CASE g = state.generation /\ Called(state, state.pending, timers \ {g})
  <2>1. Base(state, timers \ {g})
    BY DEF IInv, TypeOK, Base, Room
  <2>2. /\ Room(state') /\ state'.generation = state.generation
        /\ gate' \in [Calls -> Gate \cup {NoGate}]
        /\ answered' \in [Msgs -> Nat] /\ owed' \in Nat
        /\ faults' \in Nat /\ faults' <= MaxFaults
        /\ faults' \in {faults, faults + 1}
        /\ timers' \subseteq timers \cup {state'.generation}
        /\ GateShape' /\ TimersOld' /\ RunningIsHeld' /\ Covered'
    BY <1>4, <2>1, CalledKeeps
  <2>3. Counted'
    BY <1>1, <2>2, CountedStays
  <2>4. OneHolder'
    <3>1. CASE retried
      BY <1>1, <3>1 DEF OneHolder
    <3>2. CASE ~retried
      <4>1. \A c \in Calls : Asking(c) => gate[c].snapshot.generation # state.generation
        BY <1>2, <1>4, <3>2 DEF IInv, OneHolder, GateIsCurrent
      <4>2. state.generation \notin timers \ {g}
        BY <1>4
      <4> QED
        BY <1>4, <4>1, <4>2, CalledHolder
    <3> QED
      BY <3>1, <3>2
  <2>5. Unanswered' /\ AnsweredOnce'
    <3>1. ~retried' => \A m \in Msgs :
               /\ m \in Ids(state.pending) => m \in sent' /\ answered[m] = 0
               /\ m \notin sent' => answered[m] = 0
               /\ answered[m] <= 1
      BY <1>1 DEF IInv, Unanswered, AnsweredOnce
    <3>2. Room(state)
      BY <2>1 DEF Base
    <3> QED
      BY <1>4, <3>1, <3>2, CalledAnswers DEF Called
  <2> QED
    BY <1>1, <2>2, <2>3, <2>4, <2>5, Parts
<1> QED
  BY <1>3, <1>4, TimerCalled DEF IInv

\* A gate ends.
LEMMA GateKeeps ==
    ASSUME IInv, NEW c \in Calls, GateEnds(c)
    PROVE  IInv'
<1>1. GateClosed(c)
  BY GateEndsClosed
<1>2. /\ Asking(c) /\ gate' = [gate EXCEPT ![c] = NoGate]
      /\ Room(state') /\ ~state'.running
      /\ state'.generation = state.generation
      /\ owed' \in Nat
      /\ UNCHANGED <<sent, retried, replied>>
  BY <1>1 DEF GateClosed
<1>3. /\ gate \in [Calls -> Gate \cup {NoGate}] /\ NoGate \notin Gate
      /\ answered \in [Msgs -> Nat] /\ faults \in Nat
      /\ state.generation \in Nat /\ timers \subseteq Nat
      /\ failed \subseteq Msgs /\ faults <= MaxFaults /\ MaxFaults \in Nat
  BY LimitAssumption
  DEF IInv, TypeOK, Gate, NoGate, Chat, Generations, Counted
<1>4. /\ gate' \in [Calls -> Gate \cup {NoGate}]
      /\ gate'[c] = NoGate
      /\ \A d \in Calls \ {c} : gate'[d] = gate[d]
  BY <1>2, <1>3
<1>5. /\ answered' \in [Msgs -> Nat]
      /\ faults' \in {faults, faults + 1} /\ faults' \in Nat /\ faults' <= MaxFaults
      /\ timers' \subseteq timers \cup {state'.generation}
      /\ \/ faults' = faults /\ failed' \subseteq failed
         \/ faults' = faults + 1 /\ \E m : failed' \subseteq failed \cup {m}
      /\ failed' \subseteq Msgs
  <2>1. Handed(gate[c].snapshot.pending) \in [Msgs -> Nat]
    BY HandedFacts DEF IInv
  <2>2. gate[c].msg \in Msgs \cup {NoMsg}
    BY <1>2, GateTyped DEF IInv
  <2>3. faults < MaxFaults => faults + 1 \in Nat /\ faults + 1 <= MaxFaults
    BY <1>3
  <2>4. CASE Ends(state, gate[c].snapshot.pending, timers) /\ failed' = failed
    <3>1. answered' \in {answered, Handed(gate[c].snapshot.pending)}
      BY <2>4 DEF Ends
    <3>2. timers' = timers \/ timers' = timers \cup {state.generation}
      BY <2>4 DEF Ends
    <3>3. faults' = faults \/ (faults < MaxFaults /\ faults' = faults + 1)
      BY <2>4 DEF Ends
    <3>4. failed' \subseteq failed /\ failed' \subseteq failed \cup {NoMsg}
      BY <2>4
    <3> QED
      BY <1>2, <1>3, <2>1, <2>3, <2>4, <3>1, <3>2, <3>3, <3>4
  <2>5. CASE UNCHANGED <<timers, answered, faults, failed>>
    BY <1>3, <2>5
  <2>6. CASE /\ faults < MaxFaults /\ faults' = faults + 1
             /\ failed' = failed \cup ({gate[c].msg} \ {NoMsg})
             /\ UNCHANGED <<timers, answered>>
    <3>1. failed' \subseteq failed \cup {gate[c].msg} /\ failed' \subseteq Msgs
      BY <1>3, <2>2, <2>6
    <3> QED
      BY <1>3, <2>3, <2>6, <3>1
  <2> QED
    BY <1>1, <2>4, <2>5, <2>6 DEF GateClosed
<1>6. GateShape'
  BY <1>2, <1>4 DEF IInv, GateShape, Asking
<1>7. TimersOld'
  <2>1. state.generation <= state.generation
    BY <1>3
  <2> QED
    BY <1>2, <1>5, <2>1 DEF IInv, TimersOld
<1>8. RunningIsHeld'
  BY <1>2 DEF RunningIsHeld
<1>9. Counted'
  BY <1>2, <1>5, CountedStays
<1>10. Covered'
  <2>1. CASE GateIsCurrent(c) /\ Ends(state, gate[c].snapshot.pending, timers)
    <3>1. \/ state.generation \in timers' \/ state'.pending = <<>>
          \/ Suppressed(state') \/ faults' # 0
      BY <1>3, <2>1 DEF Ends
    <3> QED
      BY <1>2, <3>1 DEF Covered
  <2>2. CASE /\ ~GateIsCurrent(c) /\ state'.pending = state.pending
             /\ UNCHANGED <<timers, faults>>
    <3>1. Suppressed(state') = Suppressed(state)
      BY <2>2 DEF Suppressed
    <3> QED
      BY <1>2, <1>4, <2>2, <3>1 DEF IInv, Covered, Asking, GateIsCurrent
  <2>3. CASE faults' = faults + 1
    <3>1. faults' # 0
      BY <1>3, <2>3
    <3> QED
      BY <3>1 DEF Covered
  <2> QED
    BY <1>1, <2>1, <2>2, <2>3 DEF GateClosed
<1>11. ASSUME ~retried, GateIsCurrent(c)
       PROVE  /\ gate[c].snapshot.pending = state.pending
              /\ \A d \in Calls : ~(Asking(d) /\ GateIsCurrent(d))'
  <2>1. /\ gate[c].snapshot.pending = state.pending
        /\ \A d \in Calls : (Asking(d) /\ GateIsCurrent(d)) => d = c
    BY <1>2, <1>11 DEF IInv, OneHolder
  <2> QED
    BY <1>2, <1>4, <2>1 DEF Asking, GateIsCurrent
<1>12. OneHolder'
  <2>1. CASE retried
    BY <1>2, <2>1 DEF OneHolder
  <2>2. CASE ~retried /\ GateIsCurrent(c)
    BY <1>11, <2>2 DEF OneHolder
  <2>3. CASE ~retried /\ ~GateIsCurrent(c)
    <3>1. state'.pending = state.pending /\ timers' = timers
      BY <1>1, <2>3 DEF GateClosed
    <3> QED
      BY <1>2, <1>4, <2>3, <3>1 DEF IInv, OneHolder, Asking, GateIsCurrent
  <2> QED
    BY <2>1, <2>2, <2>3
<1>13. Unanswered' /\ AnsweredOnce'
  <2>1. CASE retried
    BY <1>2, <2>1 DEF Unanswered, AnsweredOnce
  <2>2. CASE ~retried /\ answered' = answered /\ state'.pending = state.pending
    BY <1>2, <2>2 DEF IInv, Unanswered, AnsweredOnce
  <2>3. CASE /\ ~retried /\ GateIsCurrent(c)
             /\ Ends(state, gate[c].snapshot.pending, timers)
    <3>1. Ends(state, state.pending, timers)
      BY <1>11, <2>3
    <3>2. ~retried' => \A m \in Msgs :
               /\ m \in Ids(state.pending) => m \in sent' /\ answered[m] = 0
               /\ m \notin sent' => answered[m] = 0
               /\ answered[m] <= 1
      BY <1>2 DEF IInv, Unanswered, AnsweredOnce
    <3>3. Room(state)
      BY DEF IInv, TypeOK, Room
    <3> QED
      BY <3>1, <3>2, <3>3, CalledAnswers
  <2> QED
    BY <1>1, <1>11, <2>1, <2>2, <2>3 DEF GateClosed
<1> QED
  BY <1>2, <1>4, <1>5, <1>6, <1>7, <1>8, <1>9, <1>10, <1>12, <1>13, Parts
     DEF IInv, TypeOK

\* The rest of the bot, time, and steps that change nothing.
LEMMA QuietKeeps ==
    ASSUME IInv, Quiet
    PROVE  IInv'
<1>1. /\ state'.pending = state.pending /\ state'.generation = state.generation
      /\ state'.running = state.running /\ Room(state')
      /\ UNCHANGED <<gate, timers, sent, failed, faults, retried, answered>>
      /\ owed' \in Nat /\ replied' \in Nat
  BY DEF Quiet, SameCore
<1>2. GateShape' /\ TimersOld' /\ Counted' /\ RunningIsHeld' /\ Covered'
  <2>1. Suppressed(state') = Suppressed(state)
    BY <1>1 DEF Suppressed
  <2> QED
    BY <1>1, <2>1 DEF IInv, GateShape, TimersOld, Counted, RunningIsHeld, Covered,
                      Asking, GateIsCurrent
<1>3. OneHolder' /\ Unanswered' /\ AnsweredOnce'
  BY <1>1 DEF IInv, OneHolder, Unanswered, AnsweredOnce, Asking, GateIsCurrent
<1> QED
  BY <1>1, <1>2, <1>3, Parts DEF IInv, TypeOK

-----------------------------------------------------------------------------
(* The theorems *)

\* The inductive invariant.
THEOREM Invariance == Spec => []IInv
<1>1. Init => IInv
  <2> SUFFICES ASSUME Init
               PROVE  IInv
    OBVIOUS
  <2>1. /\ 0 \in 0..LingerMax /\ 0 <= MaxPending /\ <<>> \in Seq(Pending)
        /\ Len(<<>>) = 0 /\ Cardinality(Msgs) \in Nat
    BY LimitAssumption, MessageAssumption, FS_CardinalityType
  <2>2. Fresh \in Chat
    BY <2>1 DEF Fresh, Chat, NoWait, Wait, Linger, Triggers
  <2>3. /\ Fresh.pending = <<>> /\ Fresh.generation = 0 /\ ~Fresh.running
        /\ Ids(<<>>) = {}
    BY DEF Fresh, Ids
  <2>4. TypeOK
    BY <2>1, <2>2, <2>3, LimitAssumption DEF Init, TypeOK
  <2>5. GateShape /\ TimersOld /\ RunningIsHeld /\ Covered /\ OneHolder
    BY <2>3 DEF Init, GateShape, TimersOld, RunningIsHeld, Covered, OneHolder,
                Asking
  <2>6. Counted
    BY <2>3, FS_EmptySet, LimitAssumption DEF Init, Counted
  <2>7. Unanswered /\ AnsweredOnce
    BY <2>3 DEF Init, Unanswered, AnsweredOnce
  <2> QED
    BY <2>4, <2>5, <2>6, <2>7 DEF IInv
<1>2. IInv /\ [Next]_vars => IInv'
  <2> SUFFICES ASSUME IInv, [Next]_vars
               PROVE  IInv'
    OBVIOUS
  <2>1. ASSUME NEW m \in Msgs, ReceiveMessage(m) \/ RepeatMessage(m)
        PROVE  IInv'
    BY <2>1, ReceiveKeeps, RepeatKeeps
  <2>2. ASSUME NEW g \in Generations, TimerFired(g)
        PROVE  IInv'
    BY <2>2, TimerKeeps
  <2>3. ASSUME NEW c \in Calls, GateEnds(c)
        PROVE  IInv'
    BY <2>3, GateKeeps
  <2>4. CASE \/ BridgeReplies \/ RouteReplies \/ RouteSuppresses \/ AgentSilent
             \/ WaitDue \/ WaitOver \/ IntervalOver \/ LingerOver \/ WindowSlides
             \/ ReplyAges
    BY <2>4, QuietSteps, QuietKeeps DEF IInv
  <2>5. CASE UNCHANGED vars
    <3>1. Quiet
      BY <2>5 DEF vars, Quiet, IInv, TypeOK, Room, SameCore
    <3> QED
      BY <3>1, QuietKeeps
  <2> QED
    BY <2>1, <2>2, <2>3, <2>4, <2>5 DEF Next
<1> QED
  BY <1>1, <1>2, PTL DEF Spec

\* Type correctness; in particular no client is told a generation the group
\* has not reached (the wait answers of runtime.py), and MAX_PENDING holds.
THEOREM TypeCorrect == Spec => []TypeOK
<1>1. IInv => TypeOK
  BY DEF IInv
<1> QED
  BY <1>1, Invariance, PTL

\* The gate flag is never left behind: _guard_gate_lifecycle and
\* _abort_gate_sync clear it however a call ends.
THEOREM NeverLockedOut == Spec => []RunningIsHeld
<1>1. IInv => RunningIsHeld
  BY DEF IInv
<1> QED
  BY <1>1, Invariance, PTL

\* As long as no call failed, somebody will come back to what is pending,
\* unless all of it addresses somebody else.
THEOREM PendingIsCovered == Spec => []Covered
<1>1. IInv => Covered
  BY DEF IInv
<1> QED
  BY <1>1, Invariance, PTL

\* The generation check of process_message and handle_timer_fired keeps two
\* deciders from handing the same message to the agent.
THEOREM NoSecondAnswer == Spec => []AnsweredOnce
<1>1. IInv => AnsweredOnce
  BY DEF IInv
<1> QED
  BY <1>1, Invariance, PTL

\* A verdict that is applied, or a rollback, clears only messages that the
\* gate's snapshot holds.
THEOREM UnseenMessagesStay == Spec => NothingUnseenIsDropped
<1>1. IInv /\ [Next]_vars => [UnseenKept]_vars
  <2> SUFFICES ASSUME IInv, Next, ~retried, state'.generation = state.generation,
                      ~(Ids(state.pending) \subseteq Ids(state'.pending)),
                      gate' # gate
               PROVE  \E c \in Calls :
                         /\ Asking(c) /\ gate'[c] = NoGate
                         /\ Ids(state.pending) \subseteq Ids(gate[c].snapshot.pending)
    BY DEF UnseenKept
  <2>1. TypeOK /\ state.generation \in Nat
    BY DEF IInv, TypeOK, Chat
  <2>2. ASSUME NEW m \in Msgs, ReceiveMessage(m)
        PROVE  FALSE
    <3>1. PICK s : Received(s, m) /\ Called(s, s.pending, timers)
      BY <2>1, <2>2, ReceiveCalled
    <3>2. state'.generation = state.generation + 1
      BY <3>1 DEF Received, Called, Ends, Asked
    <3> QED
      BY <2>1, <3>2
  <2>3. ASSUME NEW m \in Msgs, RepeatMessage(m)
        PROVE  FALSE
    <3>1. Asked(state, timers)
      BY <2>1, <2>3, RepeatCalled DEF Called
    <3> QED
      BY <3>1 DEF Asked
  <2>4. ASSUME NEW g \in Generations, TimerFired(g)
        PROVE  FALSE
    <3>1. Asked(state, timers \ {g})
      BY <2>1, <2>4, TimerCalled DEF Called
    <3> QED
      BY <3>1 DEF Asked
  <2>5. ASSUME NEW c \in Calls, GateEnds(c)
        PROVE  \E d \in Calls :
                  /\ Asking(d) /\ gate'[d] = NoGate
                  /\ Ids(state.pending) \subseteq Ids(gate[d].snapshot.pending)
    <3>1. GateClosed(c)
      BY <2>5, GateEndsClosed
    <3>2. Asking(c) /\ gate'[c] = NoGate
      BY <2>1, <3>1 DEF GateClosed, TypeOK
    <3>3. GateIsCurrent(c)
      BY <3>1 DEF GateClosed
    <3>4. gate[c].snapshot.pending = state.pending
      BY <3>2, <3>3 DEF IInv, OneHolder
    <3> QED
      BY <3>2, <3>4
  <2>6. CASE \/ BridgeReplies \/ RouteReplies \/ RouteSuppresses \/ AgentSilent
             \/ WaitDue \/ WaitOver \/ IntervalOver \/ LingerOver \/ WindowSlides
             \/ ReplyAges
    BY <2>1, <2>6, QuietSteps DEF Quiet
  <2> QED
    BY <2>2, <2>3, <2>4, <2>5, <2>6 DEF Next
<1> QED
  BY <1>1, Invariance, PTL DEF Spec, NothingUnseenIsDropped
=============================================================================
