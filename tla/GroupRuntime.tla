---------------------------- MODULE GroupRuntime ----------------------------
(***************************************************************************)
(* When to speak in a group: core/group_runtime (runtime.py, state.py,     *)
(* scoring.py), for one group.                                             *)
(*                                                                         *)
(* process_message and handle_timer_fired run under one lock up to the     *)
(* point where they ask a model; they give the lock back while they wait   *)
(* for it, and take it again to apply its verdict.  Meanwhile messages     *)
(* arrive, the client is told to call back (a timer that carries the       *)
(* generation it was told), requests are retried, calls are cancelled.     *)
(* The generation counts the messages; a gate transaction keeps a snapshot *)
(* to go back to.                                                          *)
(*                                                                         *)
(* What a text scores is data: decide_timing gives any action it can give, *)
(* in any stage.  Time is a set of marks (an interval is over or it is     *)
(* not), and each mark falls in a step of its own.                         *)
(***************************************************************************)
EXTENDS Naturals, Sequences, FiniteSets

CONSTANTS Msgs,        \* messages of the group, by message_id
          Direct,      \* those that address the bot
          Named,       \* those that only name the bot: no at, no reply
          Other,       \* those that address somebody else
          Calls,       \* handler coroutines that wait for a model
          Thresholds,  \* pending messages _talk_threshold may ask for
          MaxPending,  \* MAX_PENDING
          LingerMax,   \* LINGER_MAX_MESSAGES
          MaxSpoken,   \* timing_gate.proactive.max_per_window
          Commands,    \* collaboration commands being answered at the start
          MaxFaults,   \* bound of the model: calls that fail
          NoMsg        \* no message: the call of a timer

ASSUME MessageAssumption ==
    /\ IsFiniteSet(Msgs)
    /\ Direct \subseteq Msgs /\ Other \subseteq Msgs /\ NoMsg \notin Msgs
    /\ Named \subseteq Direct

ASSUME LimitAssumption ==
    /\ Thresholds \subseteq Nat \ {0} /\ Thresholds # {}
    /\ MaxPending \in Nat \ {0} /\ LingerMax \in Nat \ {0}
    /\ MaxSpoken \in Nat \ {0} /\ MaxFaults \in Nat /\ Commands \in Nat

VARIABLES
    state,     \* GroupChatState of the group
    gate,      \* _GateTransaction of each call that waits for a model
    timers,    \* generations the client will call back with
    sent,      \* messages that have reached the runtime
    failed,    \* messages whose call failed: the client will send them again
    faults,    \* calls that failed so far
    retried,   \* some message was sent again
    answered,  \* how often a message was handed to the agent
    owed,      \* answers the agent is still working on
    replied    \* answers that are on their way from the agent to the group

vars == <<state, gate, timers, sent, failed, faults, retried, answered, owed,
          replied>>

-----------------------------------------------------------------------------
(* The state of a group *)

Triggers == {"direct", "ambient", "followup"}
Pending == [msg : Msgs, trigger : Triggers]

\* waiting_for_more, wait_until and max_wait_until passed, wait_count,
\* new_messages_during_wait is not empty, total_wait_s reached MAX_WAIT_SEC.
Wait == [on : BOOLEAN, due : BOOLEAN, over : BOOLEAN, count : Nat,
         fresh : BOOLEAN, spent : BOOLEAN]

\* linger_active_until has not passed; linger_reply_count.
Linger == [on : BOOLEAN, used : 0..LingerMax]

\* recent: MIN_INTERVAL since last_gate_completed_ts is not over.  ago: how
\* long the bot has been silent, "hot" below BOT_REPLY_COOLDOWN_SEC, "warm"
\* below BOT_FOLLOWUP_WINDOW_SEC.  spoken: proactive_ts_window.
Chat == [pending : Seq(Pending), generation : Nat, running : BOOLEAN,
         wait : Wait, force : BOOLEAN, last : Triggers, linger : Linger,
         spoken : Nat, recent : BOOLEAN, ago : {"long", "warm", "hot"}]

NoWait == [on |-> FALSE, due |-> FALSE, over |-> FALSE, count |-> 0,
           fresh |-> FALSE, spent |-> FALSE]

Fresh == [pending |-> <<>>, generation |-> 0, running |-> FALSE,
          wait |-> NoWait, force |-> FALSE, last |-> "ambient",
          linger |-> [on |-> FALSE, used |-> 0], spoken |-> 0,
          recent |-> FALSE, ago |-> "long"]

\* GateStateSnapshot.  (proactive_ts_window is in it, too; only the gate that
\* commits ever adds to it.)
Snapshot == [pending : Seq(Pending), generation : Nat, running : BOOLEAN,
             wait : Wait, force : BOOLEAN, linger : Linger, recent : BOOLEAN]

Capture(s) ==
    [pending |-> s.pending, generation |-> s.generation,
     running |-> s.running, wait |-> s.wait, force |-> s.force,
     linger |-> s.linger, recent |-> s.recent]

NoGate == [kind |-> "none"]
GateOf(kind, msg, s, forced) ==
    [kind |-> kind, msg |-> msg, snapshot |-> Capture(s), forced |-> forced]
Gate == [kind : {"message", "timer", "proactive"}, msg : Msgs \cup {NoMsg},
         snapshot : Snapshot, forced : BOOLEAN]

Ids(p) == {p[i].msg : i \in 1..Len(p)}
HasDirect(p) == \E i \in 1..Len(p) : p[i].trigger = "direct"
LingerActive(s) == s.linger.on /\ s.linger.used < LingerMax
Asking(c) == gate[c] # NoGate

Init ==
    /\ state = Fresh
    /\ gate = [c \in Calls |-> NoGate]
    /\ timers = {}
    /\ sent = {} /\ failed = {}
    /\ faults = 0 /\ retried = FALSE
    /\ answered = [m \in Msgs |-> 0]
    /\ owed = 0 /\ replied = Commands

-----------------------------------------------------------------------------
(* GroupChatState *)

\* add_message: the k messages older than MAX_AGE_SEC go, MAX_PENDING stay.
Added(s, m, tr, k) ==
    LET all == Append(SubSeq(s.pending, k + 1, Len(s.pending)),
                      [msg |-> m, trigger |-> tr])
    IN  [s EXCEPT !.pending = IF Len(all) > MaxPending THEN Tail(all) ELSE all,
                  !.generation = @ + 1,
                  !.last = tr]

\* Mutant of StartWait: the counter that ends the waiting is not moved.
StartWaitUncounted(w) ==
    [w EXCEPT !.on = TRUE, !.due = FALSE, !.over = IF w.on THEN @ ELSE FALSE,
              !.fresh = FALSE]

\* start_wait: the hard deadline of a wait that goes on stays.
StartWait(w) ==
    [w EXCEPT !.on = TRUE, !.due = FALSE, !.over = IF w.on THEN @ ELSE FALSE,
              !.count = @ + 1, !.fresh = FALSE]

\* end_wait: the time waited is added up and may reach MAX_WAIT_SEC.
EndWait(w, spent) ==
    [w EXCEPT !.on = FALSE, !.due = FALSE, !.over = FALSE,
              !.spent = @ \/ (w.on /\ spent)]

\* is_wait_expired; wait_count never passes MAX_RETRIES.
WaitExpired(w) == w.due \/ w.spent

\* _wait_anti_loop_reason.
AntiLoop(w) ==
    \/ w.count >= 1 /\ ~w.fresh
    \/ w.count >= 2
    \/ w.spent

\* activate_linger and arm_force_continue, for a message that addresses the
\* bot.
Addressed(s) ==
    [s EXCEPT !.linger = [on |-> TRUE, used |-> 0], !.force = TRUE]

\* _should_cooldown, for a trigger that does not bypass it.
Cooldown(s) == s.ago = "hot" /\ ~s.force /\ ~LingerActive(s)

\* _should_gate_by_frequency fails: fewer than _talk_threshold messages.
Infrequent(s) == \E t \in Thresholds : Len(s.pending) < t
Frequent(s) == \E t \in Thresholds : Len(s.pending) >= t

\* can_trigger_gate.
CanTriggerGate(s) == ~s.running /\ ~s.recent

\* should_suppress_directed_to_other.
Suppressed(s) ==
    /\ s.pending # <<>>
    /\ Ids(s.pending) \subseteq Other
    /\ \A i \in 1..Len(s.pending) : s.pending[i].trigger = "ambient"

\* _proactive_precheck, but for the activity of the group: it looks for an at
\* and a reply, not for the other ways to address the bot.
ProactivePrecheck(s) ==
    /\ \A i \in 1..Len(s.pending) :
          s.pending[i].trigger = "direct" => s.pending[i].msg \in Named
    /\ ~LingerActive(s)
    /\ s.spoken < MaxSpoken

\* Mutant of Applied: handle_continue leaves the messages pending.
AppliedKeeping(s, action) ==
    IF action = "wait"
      THEN [s EXCEPT !.wait = StartWait(@), !.running = FALSE, !.recent = TRUE]
      ELSE [s EXCEPT !.pending = IF action = "continue" THEN @ ELSE <<>>,
                     !.wait = NoWait, !.running = FALSE, !.recent = TRUE]

\* handle_continue, handle_no_reply and start_wait, then mark_gate_done.
Applied(s, action) ==
    IF action = "wait"
      THEN [s EXCEPT !.wait = StartWait(@), !.running = FALSE, !.recent = TRUE]
      ELSE [s EXCEPT !.pending = <<>>, !.wait = NoWait,
                     !.running = FALSE, !.recent = TRUE]

\* restore_exact.  A time stamp that is put back has passed, if it has passed.
Restored(s, snap) ==
    [s EXCEPT
        !.pending = snap.pending, !.running = snap.running,
        !.generation = snap.generation, !.force = snap.force,
        !.wait = [snap.wait EXCEPT
                    !.due = @ \/ (snap.wait.on /\ (s.wait.due \/ ~s.wait.on)),
                    !.over = @ \/ (snap.wait.on /\ s.wait.over)],
        !.linger = [snap.linger EXCEPT !.on = @ /\ s.linger.on],
        !.recent = @ /\ snap.recent]

\* Mutant of Aborted: the flag is cleared by a commit only.
AbortedRunning(s, snap) ==
    IF s.generation = snap.generation
      THEN [Restored(s, snap) EXCEPT !.running = TRUE]
      ELSE s

\* Mutant of Aborted: the snapshot is put back whatever has arrived since.
AbortedExactly(s, snap) == Restored(s, snap)

\* _abort_gate_sync: everything is put back, or only the life cycle when
\* messages have arrived since.
Aborted(s, snap) ==
    IF s.generation = snap.generation
      THEN Restored(s, snap)
      ELSE [s EXCEPT !.running = snap.running, !.recent = @ /\ snap.recent]

-----------------------------------------------------------------------------
(* How a call ends, from the state s it has made so far and the timers ts    *)
(* that are left                                                             *)

\* Mutant of Waits: the client is told the generation to come.
WaitsForNext(s, ts) ==
    /\ state' = s
    /\ timers' = ts \cup {s.generation + 1}
    /\ UNCHANGED <<answered, owed, faults>>

\* The response is "wait": the client calls back with the generation.
Waits(s, ts) ==
    /\ state' = s
    /\ timers' = ts \cup {s.generation}
    /\ UNCHANGED <<answered, owed, faults>>

\* The response is "no_reply" and nothing is decided.
Drops(s, ts) ==
    /\ state' = s
    /\ timers' = ts
    /\ UNCHANGED <<answered, owed, faults>>

\* The rules, or a model, decide on the messages saw: begin, apply, commit.
\* A "wait" that would go round is turned into "no_reply".
Decides(s, saw, actions, ts) ==
    \E a \in actions :
        LET action == IF a = "wait" /\ AntiLoop(s.wait) THEN "no_reply" ELSE a
            goes == action = "continue"
        IN  /\ state' = Applied(s, action)
            /\ timers' = IF action = "wait" THEN ts \cup {s.generation} ELSE ts
            /\ answered' = [m \in Msgs |-> IF goes /\ m \in Ids(saw)
                                             THEN answered[m] + 1
                                             ELSE answered[m]]
            /\ owed' = IF goes THEN owed + 1 ELSE owed
            /\ UNCHANGED faults

Actions == {"continue", "wait", "no_reply"}

\* The call raises: the transaction, if one has begun, is rolled back, and
\* the client has no answer to act on.
Raises(s, ts) ==
    /\ faults < MaxFaults
    /\ faults' = faults + 1
    /\ state' = s
    /\ timers' = ts
    /\ UNCHANGED <<answered, owed>>

\* _begin_gate, and the lock is given back to ask a model.
Asks(s, kind, msg, forced, ts) ==
    \E c \in Calls :
        /\ gate[c] = NoGate
        /\ state' = [s EXCEPT !.running = TRUE]
        /\ gate' = [gate EXCEPT ![c] = GateOf(kind, msg, s, forced)]
        /\ timers' = ts
        /\ UNCHANGED <<answered, owed, faults>>

-----------------------------------------------------------------------------
(* process_message *)

\* From here on the message is one of the pending ones, and no wait is on.
\* When messages to others cannot be scored the error is swallowed (Unscored):
\* the answer is "no_reply", and they stay.
Considers(s, m, tr) ==
    LET cools == tr = "ambient" /\ Cooldown(s)
        Answers == Decides(s, s.pending, Actions, timers) /\ UNCHANGED gate
        Later == Waits(s, timers) /\ UNCHANGED gate
        Unscored == Drops(s, timers) /\ UNCHANGED gate
    IN  \/ s.running /\ Later
        \/ ~s.running /\ Raises(s, timers) /\ UNCHANGED gate
        \/ ~s.running /\ Suppressed(s) /\ (Answers \/ Unscored)
        \/ /\ ~s.running
           /\ cools
           /\ \/ Later
              \/ /\ Decides(s, s.pending, {"wait", "no_reply"}, timers)
                 /\ UNCHANGED gate
        \/ /\ ~s.running
           /\ ~cools
           /\ s.force
           /\ \/ /\ Decides([s EXCEPT !.force = FALSE], s.pending, Actions, timers)
                 /\ UNCHANGED gate
              \/ Asks(s, "message", m, TRUE, timers)
        \/ /\ ~s.running
           /\ ~cools
           /\ ~s.force
           /\ \/ tr = "ambient" /\ ~LingerActive(s) /\ Infrequent(s) /\ Later
              \/ s.recent /\ Later
              \/ /\ tr # "ambient" \/ LingerActive(s) \/ Frequent(s)
                 /\ ~s.recent
                 /\ \/ Answers
                    \/ Asks(s, "message", m, FALSE, timers)
                    \/ /\ tr = "ambient" /\ ProactivePrecheck(s)
                       /\ Asks(s, "proactive", m, FALSE, timers)

\* _looks_like_recent_bot_followup turns an ambient message into a follow-up.
TriggersOf(m) ==
    IF m \in Direct THEN {"direct"}
    ELSE {"ambient"} \cup (IF state.ago # "long" THEN {"followup"} ELSE {})

Heard(s, tr) == IF tr = "direct" THEN Addressed(s) ELSE s

\* The client sends a message again after its call has failed, once for
\* every failure.
Resent(m) == failed' = IF faults' > faults THEN failed \cup {m} ELSE failed \ {m}

\* A message that is not pending, or is too old to count.  While the runtime
\* waits for more it is only noted and the timer refreshed, until the hard
\* deadline of the wait.
ReceiveMessage(m) ==
    /\ m \notin sent \/ m \in failed
    /\ sent' = sent \cup {m}
    /\ retried' = (retried \/ m \in sent)
    /\ \E tr \in TriggersOf(m), k \in 0..Len(state.pending) :
         LET s == Added(state, m, tr, k) IN
         /\ m \notin Ids(SubSeq(state.pending, k + 1, Len(state.pending)))
         /\ \/ /\ s.wait.on /\ ~s.wait.over
               /\ Waits([s EXCEPT !.wait.fresh = TRUE, !.wait.due = FALSE], timers)
               /\ UNCHANGED gate
            \/ /\ s.wait.on /\ s.wait.over
               /\ \E b \in BOOLEAN :
                    Considers([Heard(s, tr) EXCEPT
                                 !.wait = [EndWait(@, b) EXCEPT !.fresh = TRUE]],
                              m, tr)
            \/ ~s.wait.on /\ Considers(Heard(s, tr), m, tr)
    /\ Resent(m)
    /\ UNCHANGED replied

\* A message sent again while it is pending: nothing is added.
RepeatMessage(m) ==
    /\ m \in failed \cap Ids(state.pending)
    /\ retried' = TRUE
    /\ \E tr \in TriggersOf(m) :
         \/ /\ state.wait.on /\ ~WaitExpired(state.wait)
            /\ Waits(state, timers)
            /\ UNCHANGED gate
         \/ /\ state.wait.on /\ WaitExpired(state.wait)
            /\ \E b \in BOOLEAN :
                 Considers([state EXCEPT !.wait = EndWait(@, b)], m, tr)
         \/ ~state.wait.on /\ Considers(state, m, tr)
    /\ Resent(m)
    /\ UNCHANGED <<sent, replied>>

-----------------------------------------------------------------------------
(* handle_timer_fired *)

TimerIsCurrent(g) == g = state.generation

\* In a cooldown the trigger is "timer" when the cooldown is looked at and the
\* last trigger of the group when the rules score: only an ambient one holds
\* them back.
CooldownActions ==
    IF state.last = "ambient" THEN {"wait", "no_reply"} ELSE Actions

\* The rules may decide in a cooldown; it is looked at before the rate limit
\* and before a gate that is running.  A client that passes on a direct
\* trigger skips it.
TimerFired(g) ==
    LET ts == timers \ {g} IN
    /\ g \in timers
    /\ \/ ~TimerIsCurrent(g) /\ Drops(state, ts) /\ UNCHANGED gate
       \/ /\ TimerIsCurrent(g)
          /\ state.last = "ambient" /\ ~LingerActive(state) /\ Infrequent(state)
          /\ Waits(state, ts) /\ UNCHANGED gate
       \/ /\ TimerIsCurrent(g)
          /\ state.last # "ambient" \/ LingerActive(state) \/ Frequent(state)
          /\ \/ /\ Cooldown(state)
                /\ \/ Waits(state, ts)
                   \/ Decides(state, state.pending, CooldownActions, ts)
                /\ UNCHANGED gate
             \/ ~CanTriggerGate(state) /\ Waits(state, ts) /\ UNCHANGED gate
             \/ /\ CanTriggerGate(state)
                /\ \E b \in BOOLEAN :
                     LET s == IF state.wait.on
                                THEN [state EXCEPT !.wait = EndWait(@, b)]
                                ELSE state
                     IN  Decides(s, s.pending, Actions, ts)
                /\ UNCHANGED gate
             \/ /\ CanTriggerGate(state)
                /\ Asks(state, "timer", NoMsg, FALSE, ts)
             \/ Raises(state, ts) /\ UNCHANGED gate
    /\ UNCHANGED <<sent, failed, retried, replied>>

-----------------------------------------------------------------------------
(* The model answers *)

\* Mutant of GateIsCurrent: the verdict is applied whatever arrived since.
GateIsCurrent0(c) == TRUE

GateIsCurrent(c) == state.generation = gate[c].snapshot.generation

\* Messages have arrived: the verdict is dropped.
GateOutdated(c) ==
    /\ Asking(c)
    /\ ~GateIsCurrent(c)
    /\ gate' = [gate EXCEPT ![c] = NoGate]
    /\ Drops(Aborted(state, gate[c].snapshot), timers)
    /\ UNCHANGED <<sent, failed, retried, replied>>

\* _apply_gate_result, or the rules when the model is only shadowed.
GateReturns(c) ==
    /\ Asking(c)
    /\ gate[c].kind \in {"message", "timer"}
    /\ GateIsCurrent(c)
    /\ gate' = [gate EXCEPT ![c] = NoGate]
    /\ \E b \in BOOLEAN :
         Decides([state EXCEPT
                    !.force = @ /\ ~gate[c].forced,
                    !.wait = IF gate[c].kind = "timer" /\ gate[c].snapshot.wait.on
                               THEN EndWait(@, b) ELSE @],
                 gate[c].snapshot.pending, Actions, timers)
    /\ UNCHANGED <<sent, failed, retried, replied>>

\* _run_proactive: the model says whether to speak.
ProactiveReturns(c) ==
    /\ Asking(c)
    /\ gate[c].kind = "proactive"
    /\ GateIsCurrent(c)
    /\ gate' = [gate EXCEPT ![c] = NoGate]
    /\ \/ Decides([state EXCEPT !.linger = [on |-> TRUE, used |-> 0],
                                !.spoken = @ + 1],
                  gate[c].snapshot.pending, {"continue"}, timers)
       \/ Decides(state, gate[c].snapshot.pending, {"no_reply"}, timers)
    /\ UNCHANGED <<sent, failed, retried, replied>>

\* The model call raises, or the request is cancelled while it waits.
GateFails(c) ==
    /\ Asking(c)
    /\ gate' = [gate EXCEPT ![c] = NoGate]
    /\ Raises(Aborted(state, gate[c].snapshot), timers)
    /\ failed' = failed \cup ({gate[c].msg} \ {NoMsg})
    /\ UNCHANGED <<sent, retried, replied>>

-----------------------------------------------------------------------------
(* The rest of the bot, and time *)

Elsewhere == UNCHANGED <<timers, sent, failed, faults, retried, answered>>

\* note_bot_replied.
Noted(s) ==
    [s EXCEPT !.ago = "hot",
              !.linger.used = IF s.linger.on /\ @ < LingerMax THEN @ + 1 ELSE @]

\* The bridge has an answer and notes it ...
BridgeReplies ==
    /\ owed > 0
    /\ owed' = owed - 1
    /\ replied' = replied + 1
    /\ state' = Noted(state)
    /\ UNCHANGED gate /\ Elsewhere

\* ... and the route that sends it to the group notes it again, as it does
\* the answer to a collaboration command.
RouteReplies ==
    /\ replied > 0
    /\ replied' = replied - 1
    /\ state' = Noted(state)
    /\ UNCHANGED <<gate, owed>> /\ Elsewhere

\* An answer that repeats a recent one is not sent.
RouteSuppresses ==
    /\ replied > 0
    /\ replied' = replied - 1
    /\ UNCHANGED <<state, gate, owed>> /\ Elsewhere

\* The agent has nothing to say.
AgentSilent ==
    /\ owed > 0
    /\ owed' = owed - 1
    /\ UNCHANGED <<state, gate, replied>> /\ Elsewhere

Passes(s) == state' = s /\ UNCHANGED <<gate, owed, replied>> /\ Elsewhere

WaitDue == state.wait.on /\ ~state.wait.due /\ Passes([state EXCEPT !.wait.due = TRUE])
WaitOver == state.wait.on /\ ~state.wait.over /\ Passes([state EXCEPT !.wait.over = TRUE])
IntervalOver == state.recent /\ Passes([state EXCEPT !.recent = FALSE])
LingerOver == state.linger.on /\ Passes([state EXCEPT !.linger.on = FALSE])
WindowSlides == state.spoken > 0 /\ Passes([state EXCEPT !.spoken = @ - 1])
ReplyAges ==
    /\ state.ago # "long"
    /\ Passes([state EXCEPT !.ago = IF @ = "hot" THEN "warm" ELSE "long"])

-----------------------------------------------------------------------------

GateEnds(c) == GateOutdated(c) \/ GateReturns(c) \/ ProactiveReturns(c) \/ GateFails(c)

Generations == 0..(Cardinality(Msgs) + MaxFaults)

Next ==
    \/ \E m \in Msgs : ReceiveMessage(m) \/ RepeatMessage(m)
    \/ \E g \in Generations : TimerFired(g)
    \/ \E c \in Calls : GateEnds(c)
    \/ BridgeReplies \/ RouteReplies \/ RouteSuppresses \/ AgentSilent
    \/ WaitDue \/ WaitOver \/ IntervalOver \/ LingerOver \/ WindowSlides \/ ReplyAges

Spec == Init /\ [][Next]_vars

\* The client calls back when it was told to, a model answers or times out,
\* and time passes.
Fairness ==
    /\ \A g \in Generations : WF_vars(TimerFired(g))
    /\ WF_vars(\E c \in Calls : GateEnds(c))
    /\ WF_vars(IntervalOver) /\ WF_vars(ReplyAges)

FairSpec == Spec /\ Fairness

-----------------------------------------------------------------------------
(* Properties *)

TypeOK ==
    /\ state \in Chat
    /\ Len(state.pending) <= MaxPending
    /\ gate \in [Calls -> Gate \cup {NoGate}]
    /\ timers \subseteq Generations
    /\ sent \subseteq Msgs /\ failed \subseteq Msgs
    /\ faults \in Nat /\ retried \in BOOLEAN
    /\ answered \in [Msgs -> Nat]
    /\ owed \in Nat /\ replied \in Nat

\* The group is never locked out: "running" is set only while some call is
\* really asking a model, whatever was cancelled, raised or replaced.
RunningIsHeld == state.running => \E c \in Calls : Asking(c)

\* One gate per group at a time: the running flag keeps a second call from
\* asking a model about messages another call is already asking about.
OneGate == Cardinality({c \in Calls : Asking(c)}) <= 1

\* Messages wait for somebody: the client holds a timer of the current
\* generation or a gate of it is running.  Left alone are only messages whose
\* call failed, and those that all address somebody else, which process_message
\* answers with "no_reply" when it cannot score them.
Covered ==
    (state.pending # <<>> /\ faults = 0 /\ ~Suppressed(state)) =>
        \/ state.generation \in timers
        \/ \E c \in Calls : Asking(c) /\ GateIsCurrent(c)

\* A message goes to the agent once.
AnsweredOnce == ~retried => \A m \in Msgs : answered[m] <= 1

\* A decision clears only what was shown to the one who decided: a message
\* that arrives while a model is asked is not thrown away with the others.
\* (A message that is sent again does not move the generation; from then on
\* two gates of one generation may be open.)
UnseenKept ==
    (/\ ~retried
     /\ state'.generation = state.generation
     /\ ~(Ids(state.pending) \subseteq Ids(state'.pending))) =>
        \/ gate' = gate
        \/ \E c \in Calls : /\ Asking(c) /\ gate'[c] = NoGate
                            /\ Ids(state.pending) \subseteq Ids(gate[c].snapshot.pending)
NothingUnseenIsDropped == [][UnseenKept]_vars

\* A message that addresses the bot does not stay pending for ever: it is
\* decided on, or crowded out by MAX_PENDING or MAX_AGE_SEC, unless a call
\* failed or the linger ran out under an ambient message.
DirectIsDecided ==
    HasDirect(state.pending) ~>
        \/ ~HasDirect(state.pending)
        \/ faults > 0
        \/ state.last = "ambient" /\ ~LingerActive(state)
=============================================================================
