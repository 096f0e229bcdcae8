-------------------------- MODULE OutboundLifecycle --------------------------
(***************************************************************************)
(* What the outbound subsystem promises about one occurrence (a cron slot, *)
(* a manual trigger, a proactive message), however many processes try to   *)
(* produce it and whatever lane carries it: its text is frozen once, by    *)
(* one producer; a frozen text is never generated again; a delivered or    *)
(* dropped occurrence stays so; and an occurrence whose delivery is in     *)
(* doubt is sent again only by an explicit replay.                         *)
(***************************************************************************)
CONSTANTS Occs,       \* occurrences
          Producers,  \* processes that generate texts
          Nobody

VARIABLES phase,   \* how far each occurrence is
          author   \* whose text was frozen

avars == <<phase, author>>

Phase == {"absent", "open", "queued", "sending", "delivered", "dropped",
          "unknown"}

Init ==
    /\ phase = [o \in Occs |-> "absent"]
    /\ author = [o \in Occs |-> Nobody]

\* One occurrence moves and keeps its author.
Move(o, from, to) ==
    /\ phase[o] \in from
    /\ phase' = [phase EXCEPT ![o] = to]
    /\ UNCHANGED author

\* A text is frozen: the only step that names an author.
Freeze(o, p) ==
    /\ phase[o] \in {"absent", "open"}
    /\ phase' = [phase EXCEPT ![o] = "queued"]
    /\ author' = [author EXCEPT ![o] = p]

Next ==
    \E o \in Occs :
        \/ Move(o, {"absent"}, "open")
        \/ \E p \in Producers : Freeze(o, p)
        \/ Move(o, {"queued"}, "sending")
        \/ Move(o, {"sending"}, "queued")
        \/ Move(o, {"sending"}, "delivered")
        \/ Move(o, {"sending"}, "unknown")
        \/ Move(o, {"unknown"}, "queued")
        \/ Move(o, {"open", "queued", "sending"}, "dropped")

Spec == Init /\ [][Next]_avars
=============================================================================
