---------------------------- MODULE SandboxLease ----------------------------
(***************************************************************************)
(* One Lease of the sandbox daemon: its container, its network, the        *)
(* snapshot file that indexes them, the processes executed in it, and the  *)
(* threads that work on it.                                                *)
(*                                                                         *)
(* The request threads of sandboxd, the reader and the watchdog of every   *)
(* process and the reconciler share the Lease lock (lease_backend.py), but *)
(* not everything happens under it: the notification of a recycled Lease   *)
(* is sent after the lock is released, the reconciler decides on facts it  *)
(* read without it, the sweep of orphan networks and the read of a Lease   *)
(* never take it.  Containers, networks, processes and files survive the   *)
(* daemon; records, permits, threads and the lock do not.                  *)
(*                                                                         *)
(* Time is two marks, set when the idle and the maximal TTL have passed.   *)
(* A step that holds the lock to its end is one action; it is split where  *)
(* a crash, a step without the lock or the failure of a later part can     *)
(* come in between.                                                        *)
(***************************************************************************)
EXTENDS Naturals, FiniteSets

CONSTANTS
    Procs,        \* process ids (a request id each)
    Limit,        \* the profile's max_processes
    Lease,        \* the argument of threads that are not about one process
    MaxEpoch,     \* bound on daemon lives
    MaxBoots,     \* bound on attempts to create the container
    MaxTrouble    \* bound on requests to recycle, Docker troubles and crashes

ASSUME SandboxBounds ==
    /\ Lease \notin Procs
    /\ Limit \in Nat \ {0} /\ MaxEpoch \in Nat \ {0}
    /\ MaxBoots \in Nat /\ MaxTrouble \in Nat

VARIABLES
    up,       \* the daemon: down, booting (start-up recovery) or serving
    epoch,    \* LeaseStore.controller_epoch
    cont,     \* the Lease container and its labels: Docker facts
    execs,    \* processes running inside the container
    net,      \* the Lease network and its proxy
    snap,     \* the snapshot file; epoch 0 when there is none
    rec,      \* LeaseProcessManager._records: execution_status
    permit,   \* processes whose ConcurrencyPermit is not marked as released
    inUse,    \* the limiter's count of the Lease's permits
    owed,     \* records whose permit a thread has yet to release
    giving,   \* the permit a thread is releasing; Lease: none, or a dropped one
    raced,    \* history: a permit was given back by two threads
    lock,     \* holder of the Lease lock
    pc,       \* where each thread is
    found,    \* the active processes a starting thread read under the lock
    last,     \* readers in their exception handler
    stale,    \* a get() under way: the attempt whose labels it will save, or 0
    boots, troubles

permits == <<permit, inUse, owed, giving, raced>>
daemon == <<rec, permits, lock, pc, found, last, stale>>
docker == <<cont, execs, net>>
counters == <<boots, troubles>>
vars == <<up, epoch, docker, snap, daemon, counters>>

Threads == ({"start", "read", "watch"} \X Procs)
              \cup ({"client", "admin", "reconciler"} \X {Lease})
Client == <<"client", Lease>>
Reconciler == <<"reconciler", Lease>>
Free == <<"free", Lease>>

Container == [st : {"none", "stopped", "running"}, ep : 0..MaxEpoch, old : BOOLEAN]
Snapshot == [ep : 0..MaxEpoch, active : SUBSET Procs, idle : BOOLEAN, old : BOOLEAN]
NoCont == [st |-> "none", ep |-> 0, old |-> FALSE]
NoSnap == [ep |-> 0, active |-> {}, idle |-> FALSE, old |-> FALSE]
NetState == {"none", "ready", "drifted", "foreign"}
RecState == {"none", "running", "completed", "lost"}

\* Where a thread can be; between taking the Lease lock and releasing it.
Places == {"idle", "begin", "exec", "want", "removed", "empty", "notify", "undo",
           "giveup", "release", "giving", "yield", "yielding", "reading",
           "health", "complete", "record", "armed", "make", "net", "save",
           "sweep", "clean"}
Locked == {"exec", "removed", "empty", "yield", "yielding", "make", "net", "save"}

Columns ==
    /\ up \in {"down", "booting", "serving"}
    /\ epoch \in 1..MaxEpoch
    /\ cont \in Container
    /\ execs \in SUBSET Procs
    /\ net \in NetState
    /\ snap \in Snapshot
    /\ rec \in [Procs -> RecState]
    /\ permit \in SUBSET Procs
    /\ inUse \in Nat
    /\ owed \in [Threads -> SUBSET Procs]
    /\ giving \in [Threads -> Procs \cup {Lease}]
    /\ raced \in BOOLEAN
    /\ lock \in Threads \cup {Free}
    /\ pc \in [Threads -> Places]
    /\ found \in [Procs -> SUBSET Procs]
    /\ last \in SUBSET Procs
    /\ stale \in 0..MaxBoots
    /\ boots \in 0..MaxBoots /\ troubles \in 0..MaxTrouble

\* The lock is held in exactly the steps between taking and releasing it.
LockMatches == \A t \in Threads : lock = t <=> pc[t] \in Locked

\* What runs in a container needs the container to run.
ExecsInContainer == execs # {} => cont.st = "running"

TypeOK == Columns /\ LockMatches /\ ExecsInContainer

Init ==
    /\ up = "serving"
    /\ epoch = 1
    /\ cont = NoCont
    /\ execs = {}
    /\ net = "none"
    /\ snap = NoSnap
    /\ rec = [p \in Procs |-> "none"]
    /\ permit = {} /\ inUse = 0
    /\ owed = [t \in Threads |-> {}]
    /\ giving = [t \in Threads |-> Lease]
    /\ raced = FALSE
    /\ lock = Free
    /\ pc = [t \in Threads |-> "idle"]
    /\ found = [p \in Procs |-> {}]
    /\ last = {}
    /\ stale = 0
    /\ boots = 0 /\ troubles = 0

-----------------------------------------------------------------------------
(* The snapshot file.                                                      *)

\* LeaseStore.touch: refused from the maximal TTL on, else the idle time
\* starts anew.
TouchRefused == snap.old
Touched(active) == [snap EXCEPT !.active = active, !.idle = FALSE]

\* _snapshot_from_container: no processes, and the times of the creation.
\* The idle time may be over by then: IdlePasses, at once.
FromLabels(old) == [ep |-> cont.ep, active |-> {}, idle |-> FALSE, old |-> old]

\* A network without its proxy, and what is left of one when its removal fails.
Broken == IF net = "foreign" THEN "foreign" ELSE "drifted"
HalfRemoved == {net, Broken}

Goto(t, to) == pc' = [pc EXCEPT ![t] = to]
Trouble == troubles < MaxTrouble /\ troubles' = troubles + 1

Running(p) == rec[p] = "running"
Started(p) == pc[<<"start", p>>]
Live == up = "serving"

-----------------------------------------------------------------------------
(* recycle: the container, the network and the snapshot go, and only then, *)
(* without the lock, every process of the Lease is told.                   *)

\* Where the caller goes on after its recycle: "told" when the observers were
\* notified, "nothing" when there was nothing to recycle, "raised" when it
\* failed.  _recycle_for_process makes an error of "nothing", and the reader
\* tries once more from its exception handler.
After(t, how) ==
    CASE t[1] = "start" -> "undo"
      [] t[1] = "read" -> IF how # "told" /\ Running(t[2]) /\ t[2] \notin last
                          THEN "want" ELSE "idle"
      [] t[1] \in {"watch", "admin"} -> "idle"
      [] t[1] = "reconciler" -> "sweep"

Returns(t, how) ==
    /\ Goto(t, After(t, how))
    /\ last' = IF t[1] = "read" /\ After(t, how) = "want" THEN last \cup {t[2]} ELSE last

\* The Lease lock is taken and the container removed; _safe_remove may fail,
\* with the container stopped or not.
RecycleRemove(t) ==
    /\ pc[t] = "want" /\ lock = Free
    /\ \/ /\ lock' = t
          /\ Goto(t, IF cont.st # "none" \/ snap.ep # 0 THEN "removed" ELSE "empty")
          /\ cont' = NoCont /\ execs' = {}
          /\ UNCHANGED <<last, troubles>>
       \/ /\ cont.st # "none" /\ Trouble
          /\ \/ cont' = [cont EXCEPT !.st = "stopped"] /\ execs' = {}
             \/ UNCHANGED <<cont, execs>>
          /\ Returns(t, "raised")
          /\ UNCHANGED lock
    /\ UNCHANGED <<up, epoch, net, snap, rec, permits, found, stale, boots>>

\* The network and the snapshot are removed and the lock released; the
\* network may resist, and then the snapshot stays and nobody is notified.
RecycleForget(t) ==
    /\ pc[t] \in {"removed", "empty"}
    /\ lock' = Free
    /\ \/ /\ net' = "none" /\ snap' = NoSnap
          /\ IF pc[t] = "removed" \/ net # "none"
             THEN Goto(t, "notify") /\ UNCHANGED last
             ELSE Returns(t, "nothing")
          /\ UNCHANGED troubles
       \/ /\ net # "none" /\ Trouble
          /\ net' \in HalfRemoved
          /\ Returns(t, "raised")
          /\ UNCHANGED snap
    /\ UNCHANGED <<up, epoch, cont, execs, rec, permits, found, stale, boots>>

\* on_lease_recycled: every running record of the Lease is lost, whichever
\* container its process runs in, and its permit is still to be released.
Lost == [p \in Procs |-> IF Running(p) THEN "lost" ELSE rec[p]]
\* Mutant of Closed: the permits of lost processes are forgotten.
ClosedForGood == {}
Closed == {p \in Procs : Running(p)}
Notifies(t) ==
    /\ rec' = Lost
    /\ owed' = [owed EXCEPT ![t] = Closed]
    /\ UNCHANGED <<permit, inUse, giving, raced>>

\* The thread has released what it had to.
Released(t) ==
    IF pc[t] \in {"yield", "yielding"}
    THEN lock' = Free /\ Goto(t, "idle") /\ UNCHANGED last
    ELSE Returns(t, "told") /\ UNCHANGED lock

RecycleNotify(t) ==
    /\ pc[t] = "notify"
    /\ Notifies(t)
    /\ IF Closed = {} THEN Released(t) ELSE Goto(t, "release") /\ UNCHANGED <<lock, last>>
    /\ UNCHANGED <<up, epoch, docker, snap, found, stale, counters>>

\* ConcurrencyPermit.release looks at its mark without a lock, gives the slot
\* back, and only then sets the mark.  First the look: permits that are
\* already marked are skipped.
Release(t) ==
    /\ pc[t] \in {"release", "yield"}
    /\ \/ \E p \in owed[t] \cap permit :
             /\ owed' = [owed EXCEPT ![t] = @ \ {p}]
             /\ giving' = [giving EXCEPT ![t] = p]
             /\ Goto(t, IF pc[t] = "yield" THEN "yielding" ELSE "giving")
             /\ UNCHANGED <<lock, last>>
       \/ /\ owed[t] \cap permit = {}
          /\ owed' = [owed EXCEPT ![t] = {}]
          /\ Released(t)
          /\ UNCHANGED giving
    /\ UNCHANGED <<up, epoch, docker, snap, rec, permit, inUse, raced, found, stale,
                   counters>>

\* Then the count, and the mark.
Returned(p) ==
    /\ inUse' = inUse - 1
    /\ permit' = permit \ {p}
    /\ raced' = (raced \/ p \notin permit)

\* Below zero the limiter raises, and the thread leaves its other permits alone.
Underflows(t) ==
    /\ owed' = [owed EXCEPT ![t] = {}]
    /\ giving' = [giving EXCEPT ![t] = Lease]
    /\ raced' = TRUE
    /\ UNCHANGED <<permit, inUse>>

ReleaseGive(t) ==
    /\ pc[t] \in {"giving", "yielding"}
    /\ IF inUse > 0 THEN /\ Returned(giving[t])
                         /\ giving' = [giving EXCEPT ![t] = Lease]
                         /\ UNCHANGED owed
                    ELSE Underflows(t)
    /\ IF owed'[t] = {}
       THEN Released(t)
       ELSE /\ Goto(t, IF pc[t] = "yielding" THEN "yield" ELSE "release")
            /\ UNCHANGED <<lock, last>>
    /\ UNCHANGED <<up, epoch, docker, snap, rec, found, stale, counters>>

\* admin_recycle, recreate, terminate_all, terminate_workspace, a client's
\* terminate and the recycle requests: any of them, at any time.
AskRecycle ==
    LET t == <<"admin", Lease>> IN
    /\ Live /\ pc[t] = "idle" /\ Trouble
    /\ Goto(t, "want")
    /\ UNCHANGED <<up, epoch, docker, snap, rec, permits, lock, found, last, stale, boots>>

-----------------------------------------------------------------------------
(* ensure, by a client's request, which may be the second half of recreate. *)

\* A running container of this epoch: its snapshot is restored if it is
\* missing, and the Lease is used as it is when its network is in order.
Reuse(t) ==
    /\ cont.st = "running" /\ cont.ep = epoch /\ net = "ready"
    /\ snap' = IF snap.ep = 0 THEN FromLabels(cont.old) ELSE snap
    /\ Goto(t, "idle")
    /\ UNCHANGED <<docker, rec, permits, lock, boots, troubles>>

\* The environment cannot be prepared: the Lease is given up, and this path
\* notifies, with the lock still held, unless the network resists.
ReuseFails(t) ==
    /\ cont.st = "running" /\ cont.ep = epoch /\ net = "ready"
    /\ Trouble
    /\ cont' = NoCont /\ execs' = {}
    /\ \/ /\ net' = "none" /\ snap' = NoSnap
          /\ Notifies(t)
          /\ IF Closed = {} THEN Goto(t, "idle") /\ UNCHANGED lock
                           ELSE Goto(t, "yield") /\ lock' = t
       \/ /\ net' \in HalfRemoved
          /\ Goto(t, "idle")
          /\ UNCHANGED <<snap, rec, permits, lock>>
    /\ UNCHANGED boots

\* A container in the way: one with a drifted network goes with its snapshot,
\* a stopped one without; nobody is notified of either.
Replace(t) ==
    /\ cont.st # "none" => cont.ep = epoch
    /\ ~(cont.st = "running" /\ net = "ready")
    /\ boots < MaxBoots /\ boots' = boots + 1
    /\ cont' = NoCont /\ execs' = {}
    /\ net' = IF cont.st = "none" THEN net ELSE "none"
    /\ snap' = IF cont.st = "running" THEN NoSnap ELSE snap
    /\ lock' = t
    /\ Goto(t, "make")
    /\ UNCHANGED <<rec, permits, troubles>>

\* A container of another epoch is refused; one that is in the way may resist,
\* or leave its network and its snapshot behind.
Refuse(t) ==
    /\ cont.st # "none"
    /\ \/ cont.ep # epoch /\ UNCHANGED <<docker, troubles>>
       \/ /\ cont.ep = epoch /\ ~(cont.st = "running" /\ net = "ready") /\ Trouble
          /\ \/ UNCHANGED docker
             \/ cont' = NoCont /\ execs' = {} /\ net # "none" /\ net' \in HalfRemoved
    /\ Goto(t, "idle")
    /\ UNCHANGED <<snap, rec, permits, lock, boots>>

EnsureLook(t) ==
    /\ Live /\ pc[t] = "idle" /\ lock = Free
    /\ Reuse(t) \/ ReuseFails(t) \/ Replace(t) \/ Refuse(t)
    /\ UNCHANGED <<up, epoch, found, last, stale>>

\* NetworkPolicyManager.prepare: a network of an earlier epoch is refused, a
\* missing proxy replaced.  Its failure is not cleaned up after.
EnsureNetwork(t) ==
    /\ pc[t] = "make"
    /\ \/ /\ net # "foreign"
          /\ net' = "ready"
          /\ Goto(t, "net")
          /\ UNCHANGED <<lock, troubles>>
       \/ /\ IF net = "foreign" THEN UNCHANGED <<net, troubles>>
                               ELSE Trouble /\ net' \in {net, "drifted"}
          /\ Goto(t, "idle")
          /\ lock' = Free
    /\ UNCHANGED <<up, epoch, cont, execs, snap, rec, permits, found, last, stale, boots>>

\* The container is created and started; without its network it is not.  What
\* a failure leaves is removed, as far as it can be.
EnsureCreate(t) ==
    /\ pc[t] = "net"
    /\ \/ /\ net = "ready"
          /\ cont' = [st |-> "running", ep |-> epoch, old |-> FALSE]
          /\ Goto(t, "save")
          /\ UNCHANGED <<execs, net, lock, troubles>>
       \/ /\ IF net = "ready" THEN Trouble ELSE UNCHANGED troubles
          /\ net' = "none"
          /\ Goto(t, "idle")
          /\ lock' = Free
          /\ UNCHANGED <<cont, execs>>
       \/ /\ net # "none" /\ Trouble
          /\ net' \in HalfRemoved
          /\ \/ cont' = [st |-> "stopped", ep |-> epoch, old |-> FALSE] /\ execs' = {}
             \/ UNCHANGED <<cont, execs>>
          /\ Goto(t, "idle")
          /\ lock' = Free
    /\ UNCHANGED <<up, epoch, snap, rec, permits, found, last, stale, boots>>

\* The network is checked once more, the environment prepared and the
\* snapshot saved; if one of them fails, what was made is removed, as far as
\* it can be.
EnsureSave(t) ==
    LET good == cont.st = "running" /\ net = "ready" IN
    /\ pc[t] = "save"
    /\ lock' = Free
    /\ Goto(t, "idle")
    /\ \/ /\ good
          /\ snap' = [ep |-> epoch, active |-> {}, idle |-> FALSE, old |-> cont.old]
          /\ UNCHANGED <<docker, troubles>>
       \/ /\ IF good THEN Trouble ELSE UNCHANGED troubles
          /\ cont' = NoCont /\ execs' = {} /\ net' = "none"
          /\ UNCHANGED snap
       \/ /\ Trouble
          /\ net' = Broken
          /\ UNCHANGED <<cont, execs, snap>>
       \/ /\ net # "none" /\ Trouble
          /\ net' \in HalfRemoved
          /\ cont' = NoCont /\ execs' = {}
          /\ UNCHANGED snap
    /\ UNCHANGED <<up, epoch, rec, permits, found, last, stale, boots>>

-----------------------------------------------------------------------------
(* get: reads without the lock, and saves what it read.                    *)

GetRead ==
    /\ Live /\ stale = 0
    /\ snap.ep = 0 /\ cont.st # "none" /\ cont.ep = epoch
    /\ stale' = boots
    /\ UNCHANGED <<up, epoch, docker, snap, rec, permits, lock, pc, found, last, counters>>

\* By now the labels may be those of a container that has been replaced.
GetSave ==
    /\ stale # 0
    /\ stale' = 0
    /\ \E aged \in BOOLEAN :
          /\ aged => stale # boots
          /\ snap' = [ep |-> epoch, active |-> {}, idle |-> FALSE, old |-> cont.old \/ aged]
    /\ UNCHANGED <<up, epoch, docker, rec, permits, lock, pc, found, last, counters>>

-----------------------------------------------------------------------------
(* LeaseProcessManager.start, with starting_process around the Docker exec. *)

\* The request id is new, the snapshot is of this epoch, and there is a
\* permit left.
StartBegin(p) ==
    /\ Live /\ Started(p) = "idle" /\ rec[p] = "none"
    /\ snap.ep = epoch
    /\ inUse < Limit
    /\ permit' = permit \cup {p}
    /\ inUse' = inUse + 1
    /\ Goto(<<"start", p>>, "begin")
    /\ UNCHANGED <<up, epoch, docker, snap, rec, owed, giving, raced, lock, found, last, stale, counters>>

\* Mutant of MayStart: the snapshot is believed, the container not looked at.
MayStartListed(p) == snap.ep = epoch /\ p \notin snap.active /\ ~snap.old

\* What starting_process requires of the Lease, under the lock.
MayStart(p) ==
    /\ snap.ep = epoch /\ p \notin snap.active /\ ~snap.old
    /\ cont.st = "running" /\ cont.ep = epoch
    /\ net = "ready"

\* The exec is created and started and the record entered, with the lock
\* kept; or it is refused; or nobody knows whether it was started.
StartExec(p) ==
    LET t == <<"start", p>> IN
    /\ pc[t] = "begin" /\ lock = Free
    /\ \/ /\ MayStart(p)
          /\ execs' = execs \cup {p}
          /\ rec' = [rec EXCEPT ![p] = "running"]
          /\ found' = [found EXCEPT ![p] = snap.active]
          /\ lock' = t
          /\ Goto(t, "exec")
          /\ UNCHANGED troubles
       \/ /\ IF MayStart(p) THEN Trouble ELSE UNCHANGED troubles
          /\ Goto(t, "undo")
          /\ UNCHANGED <<execs, rec, found, lock>>
       \/ /\ MayStart(p) /\ Trouble
          /\ execs' \in {execs, execs \cup {p}}
          /\ Goto(t, "want")
          /\ UNCHANGED <<rec, found, lock>>
    /\ UNCHANGED <<up, epoch, cont, net, snap, permits, last, stale, boots>>

\* starting_process lists the process in the snapshot and releases the lock;
\* at the maximal TTL the touch raises and the Lease is recycled.
StartTouch(p) ==
    LET t == <<"start", p>> IN
    /\ pc[t] = "exec"
    /\ lock' = Free
    /\ found' = [found EXCEPT ![p] = {}]
    /\ IF TouchRefused
       THEN Goto(t, "want") /\ UNCHANGED snap
       ELSE /\ snap' = Touched(found[p] \cup {p})
            /\ pc' = [pc EXCEPT ![t] = "idle", ![<<"read", p>>] = "reading",
                                ![<<"watch", p>>] = "armed"]
    /\ UNCHANGED <<up, epoch, docker, rec, permits, last, stale, counters>>

\* The failed start forgets its record.  Who still has this permit to release
\* will find it marked; who has just found it unmarked gives it back once more.
Forgets(p) ==
    /\ rec' = [rec EXCEPT ![p] = "none"]
    /\ owed' = [t \in Threads |-> owed[t] \ {p}]
    /\ giving' = [t \in Threads |-> IF giving[t] = p THEN Lease ELSE giving[t]]

\* Before that it releases the permit, unless a notifier has.  Should the
\* limiter raise, the record stays.
StartUndo(p) ==
    LET t == <<"start", p>> IN
    /\ pc[t] = "undo"
    /\ \/ /\ p \in permit
          /\ giving' = [giving EXCEPT ![t] = p]
          /\ Goto(t, "giveup")
          /\ UNCHANGED <<rec, owed>>
       \/ /\ p \notin permit
          /\ Forgets(p)
          /\ Goto(t, "idle")
    /\ UNCHANGED <<up, epoch, docker, snap, permit, inUse, raced, lock, found, last, stale,
                   counters>>

StartGive(p) ==
    LET t == <<"start", p>> IN
    /\ pc[t] = "giveup"
    /\ IF inUse > 0 THEN Returned(p) /\ Forgets(p)
                    ELSE Underflows(t) /\ UNCHANGED rec
    /\ Goto(t, "idle")
    /\ UNCHANGED <<up, epoch, docker, snap, lock, found, last, stale, counters>>

-----------------------------------------------------------------------------
(* The threads of a process: the watchdog and the reader of its output.    *)

WatchTimeout(p) ==
    /\ pc[<<"watch", p>>] = "armed"
    /\ Goto(<<"watch", p>>, IF Running(p) THEN "want" ELSE "idle")
    /\ UNCHANGED <<up, epoch, docker, snap, rec, permits, lock, found, last, stale, counters>>

\* The stream ends, breaks or exceeds its limit.  A reader that learns how
\* its process ended goes on to the health check; one that does not recycles
\* the Lease, from its exception handler if the inspection raised.
ReadEnds(p) ==
    LET t == <<"read", p>> IN
    /\ pc[t] = "reading"
    /\ IF ~Running(p)
       THEN Goto(t, "idle") /\ UNCHANGED last
       ELSE \/ p \notin execs /\ Goto(t, "health") /\ UNCHANGED last
            \/ Goto(t, "want") /\ last' \in {last, last \cup {p}}
    /\ UNCHANGED <<up, epoch, docker, snap, rec, permits, lock, found, stale, counters>>

\* process_lease_health, then the decision: only in a running container that
\* did not run out of memory has the process ended by itself.
ReadHealth(p) ==
    LET t == <<"read", p>> IN
    /\ pc[t] = "health" /\ lock = Free
    /\ IF ~Running(p)
       THEN Goto(t, "idle")
       ELSE \/ Goto(t, "want")
            \/ cont.st = "running" /\ Goto(t, "complete")
    /\ UNCHANGED <<up, epoch, docker, snap, rec, permits, lock, found, last, stale, counters>>

\* finish_process takes the process off the snapshot.
ReadFinish(p) ==
    LET t == <<"read", p>> IN
    /\ pc[t] = "complete" /\ lock = Free
    /\ IF snap.ep # epoch
       THEN Goto(t, IF Running(p) THEN "want" ELSE "idle") /\ UNCHANGED <<snap, last>>
       ELSE IF TouchRefused
       THEN /\ Goto(t, IF Running(p) THEN "want" ELSE "idle")
            /\ last' = last \cup {p}
            /\ UNCHANGED snap
       ELSE /\ snap' = Touched(snap.active \ {p})
            /\ Goto(t, "record")
            /\ UNCHANGED last
    /\ UNCHANGED <<up, epoch, docker, rec, permits, lock, found, stale, counters>>

\* Mutant of MayComplete: the record is not looked at again.
MayCompleteLate(p) == rec[p] # "none"

\* _complete_process records the exit unless the record is already closed,
\* and then releases the permit.
MayComplete(p) == Running(p)
ReadRecord(p) ==
    LET t == <<"read", p>> IN
    /\ pc[t] = "record"
    /\ IF MayComplete(p)
       THEN /\ rec' = [rec EXCEPT ![p] = "completed"]
            /\ owed' = [owed EXCEPT ![t] = {p}]
            /\ Goto(t, "release")
       ELSE Goto(t, "idle") /\ UNCHANGED <<rec, owed>>
    /\ UNCHANGED <<up, epoch, docker, snap, permit, inUse, giving, raced, lock, found,
                   last, stale, counters>>

-----------------------------------------------------------------------------
(* LeaseReconciler: the start-up recovery and the periodic pass.           *)

\* Mutant of Outlived: a Lease with processes is never too old.
OutlivedWhenIdle == cont.st = "running" /\ snap.old /\ snap.active = {}

\* The facts of list(), read without the lock: the times are the snapshot's
\* where there is one and the labels' where not.
Foreign ==
    /\ cont.st # "none"
    /\ cont.ep # epoch \/ (Live /\ snap.ep \notin {0, epoch})
Missing == cont.st # "running" /\ (cont.st # "none" \/ snap.ep # 0)
Drifted == cont.st = "running" /\ net # "ready"
Outlived == cont.st = "running" /\ (IF snap.ep # 0 THEN snap.old ELSE cont.old)
Unlisted == cont.st = "running" /\ snap.ep = 0
Idle == cont.st = "running" /\ snap.ep # 0 /\ snap.active = {} /\ snap.idle

\* Mutant of Due: a snapshot alone or a stopped container is not a reason.
DueWhenRunning == Foreign \/ (Live /\ (Drifted \/ Outlived \/ Idle))

\* recover_previous_controller looks at the epochs only, reconcile at all.
Due ==
    \/ Foreign
    \/ Live /\ (Missing \/ Drifted \/ Outlived \/ Idle)

\* The Lease is found due; a pass that finds nothing changes nothing.  A
\* container without a snapshot may be past the idle time of its label, or
\* may just have been created and not be running yet.
ReconcileList ==
    LET t == Reconciler IN
    /\ pc[t] = "idle"
    /\ \/ up # "down" /\ Due /\ Goto(t, "want")
       \/ Live /\ Unlisted /\ Goto(t, "want")
       \/ up = "booting" /\ ~Due /\ Goto(t, "sweep")
    /\ UNCHANGED <<up, epoch, docker, snap, rec, permits, lock, found, last, stale, counters>>

\* cleanup_orphan_networks lists the containers, and then removes the
\* networks that had none; the last step of the start-up recovery.
ReconcileSweep ==
    LET t == Reconciler IN
    /\ \/ /\ pc[t] = "sweep" \/ (Live /\ pc[t] = "idle")
          /\ cont.st = "none" /\ net # "none"
          /\ Goto(t, "clean")
          /\ UNCHANGED <<up, net>>
       \/ /\ pc[t] = "sweep" /\ (cont.st # "none" \/ net = "none")
          /\ Goto(t, "idle")
          /\ up' = "serving"
          /\ UNCHANGED net
       \/ /\ pc[t] = "clean"
          /\ net' = IF cont.st = "none" \/ net = "none" THEN "none" ELSE Broken
          /\ Goto(t, "idle")
          /\ up' = "serving"
    /\ UNCHANGED <<epoch, cont, execs, snap, rec, permits, lock, found, last, stale, counters>>

-----------------------------------------------------------------------------
(* The daemon dies and starts again; Docker and time.                      *)

Crash ==
    /\ up # "down"
    /\ epoch < MaxEpoch /\ Trouble
    /\ up' = "down"
    /\ rec' = [p \in Procs |-> "none"]
    /\ permit' = {} /\ inUse' = 0
    /\ owed' = [t \in Threads |-> {}]
    /\ giving' = [t \in Threads |-> Lease]
    /\ raced' = FALSE
    /\ lock' = Free
    /\ pc' = [t \in Threads |-> "idle"]
    /\ found' = [p \in Procs |-> {}]
    /\ last' = {} /\ stale' = 0
    /\ UNCHANGED <<epoch, docker, snap, boots>>

\* start_controller publishes a new epoch; networks of the old one are now
\* somebody else's.
Restart ==
    /\ up = "down"
    /\ up' = "booting"
    /\ epoch' = epoch + 1
    /\ net' = IF net = "none" THEN "none" ELSE "foreign"
    /\ UNCHANGED <<cont, execs, snap, daemon, counters>>

ExecExits(p) ==
    /\ p \in execs
    /\ execs' = execs \ {p}
    /\ UNCHANGED <<up, epoch, cont, net, snap, daemon, counters>>

ContainerDies ==
    /\ cont.st = "running" /\ Trouble
    /\ cont' = [cont EXCEPT !.st = "stopped"]
    /\ execs' = {}
    /\ UNCHANGED <<up, epoch, net, snap, daemon, boots>>

NetworkDrifts ==
    /\ net = "ready" /\ Trouble
    /\ net' = "drifted"
    /\ UNCHANGED <<up, epoch, cont, execs, snap, daemon, boots>>

\* The marks are set where a step reads them: the idle time counts while no
\* process is listed and the maximal TTL has not passed.
IdlePasses ==
    /\ cont.st = "running" /\ snap.ep # 0 /\ snap.active = {} /\ ~snap.idle /\ ~snap.old
    /\ snap' = [snap EXCEPT !.idle = TRUE]
    /\ UNCHANGED <<up, epoch, docker, daemon, counters>>

MaxPasses ==
    /\ cont.st = "running" /\ ~cont.old
    /\ cont' = [cont EXCEPT !.old = TRUE]
    /\ snap' = IF snap.ep # 0 THEN [snap EXCEPT !.old = TRUE, !.idle = FALSE] ELSE snap
    /\ UNCHANGED <<up, epoch, execs, net, daemon, counters>>

-----------------------------------------------------------------------------
Recycle(t) ==
    \/ RecycleRemove(t) \/ RecycleForget(t) \/ RecycleNotify(t)
    \/ Release(t) \/ ReleaseGive(t)
Make(t) == EnsureNetwork(t) \/ EnsureCreate(t) \/ EnsureSave(t)
Start(p) == StartExec(p) \/ StartTouch(p) \/ StartUndo(p) \/ StartGive(p)
Read(p) == ReadHealth(p) \/ ReadFinish(p) \/ ReadRecord(p)

Next ==
    \/ \E t \in Threads : Recycle(t)
    \/ EnsureLook(Client) \/ Make(Client)
    \/ AskRecycle \/ GetRead \/ GetSave
    \/ \E p \in Procs :
          \/ StartBegin(p) \/ Start(p)
          \/ WatchTimeout(p) \/ ReadEnds(p) \/ Read(p)
          \/ ExecExits(p)
    \/ ReconcileList \/ ReconcileSweep
    \/ Crash \/ Restart
    \/ ContainerDies \/ NetworkDrifts \/ IdlePasses \/ MaxPasses

Spec == Init /\ [][Next]_vars

\* What the daemon's threads have begun: as long as one of them can go on, one
\* of them does; nobody has to take turns.
ThreadSteps ==
    \/ \E t \in Threads \ {Reconciler} : Recycle(t)
    \/ Make(Client) \/ GetSave
    \/ \E p \in Procs : Start(p) \/ Read(p) \/ WatchTimeout(p)

\* The reconciler makes its passes, or, when the daemon is dead, it is started
\* again; and the maximal TTL passes.  A request, the end of a process or of its
\* output, and a fault may not come.
Fairness ==
    /\ WF_vars(ThreadSteps)
    /\ WF_vars(Recycle(Reconciler) \/ ReconcileList \/ ReconcileSweep \/ Restart)
    /\ WF_vars(MaxPasses)

FairSpec == Spec /\ Fairness

-----------------------------------------------------------------------------
(* Properties.                                                             *)

\* Somebody will still release the permit of p: whoever closes or has closed
\* its record, or the start that has no record yet or fails.
Carried(p) ==
    Running(p) \/ \E t \in Threads : p \in owed[t] \/ giving[t] = p
Kept(p) == Carried(p) \/ Started(p) \notin {"idle", "exec"}
Held == {p \in permit : Kept(p)}

\* The process limit counts what runs: a process on record as running has its
\* permit, and the limiter counts no permit that nobody is left to release,
\* whatever failed start, exit, recycle and crash come together; it also
\* counts every one that is held, as long as no two threads have released the
\* same permit at once (they may: the mark is tested and set without a lock).
PermitsBalance ==
    /\ \A p \in Procs : Running(p) => p \in permit
    /\ inUse <= Cardinality(Held)
    /\ ~raced => inUse = Cardinality(Held)

\* What a client was told of a process stands: an exit on record is not
\* turned into a loss by a late recycle, nor the reverse.  Only a start that
\* fails takes its own record back, and a crash all of them.
OutcomeKept ==
    \A p \in Procs : rec[p] \in {"completed", "lost"} /\ up' # "down"
        => rec'[p] = rec[p] \/ Started(p) \in {"undo", "giveup"}
OutcomeStands == [][OutcomeKept]_vars

\* A process on record as ended is not executing any more.
LostIsGone == \A p \in Procs : rec[p] = "lost" => p \notin execs

\* What the Lease leaves behind, wherever a thread failed or the daemon died:
\* a container or a snapshot of an earlier life, one that stopped or lost its network, a
\* snapshot or a network without a container.
Leftover ==
    \/ /\ cont.st # "none"
       /\ \/ cont.ep # epoch \/ snap.ep \notin {0, epoch}
          \/ cont.st = "stopped" \/ net # "ready"
    \/ cont.st = "none" /\ (snap.ep # 0 \/ net # "none")
LeftoversGo == Leftover ~> ~Leftover

\* No command runs for ever, on record or not.
EveryCommandStops == \A p \in Procs : p \in execs ~> p \notin execs
=============================================================================
