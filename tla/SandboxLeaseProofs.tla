------------------------- MODULE SandboxLeaseProofs -------------------------
(***************************************************************************)
(* What holds of SandboxLease for every number of processes, permits,      *)
(* daemon lives, containers and faults.                                    *)
(*                                                                         *)
(* Nothing but the order of steps protects a permit: a notifier closes the *)
(* records of running processes, looks at the marks of their permits, and  *)
(* gives the slots back, all without the Lease lock, while a start may     *)
(* hold it or be undoing itself.  The induction follows a permit from hand *)
(* to hand.  It needs to know of a start that is about to execute          *)
(* (BeginIsNew), of one that has executed (ExecIsListed: if its record is  *)
(* closed, somebody has the permit to release), that who has a permit to   *)
(* release has closed the record or is its failed start (OwedIsClosed),    *)
(* and that such a thread is where it will go on to release it (InTime).   *)
(* BeginIsNew is also why a start never overwrites an outcome.             *)
(***************************************************************************)
EXTENDS SandboxLease, FiniteSetTheorems, TLAPS

\* A start that has its permit, and its record not yet.
BeginIsNew ==
    \A p \in Procs : Started(p) = "begin" => rec[p] = "none" /\ p \in permit

\* A start that has executed has its record: nobody closed it and forgot the
\* permit.
IsClosed(p) == rec[p] \in {"completed", "lost"}
ExecIsListed ==
    \A p \in Procs :
        /\ Started(p) = "exec" => Running(p) \/ IsClosed(p)
        /\ Started(p) = "exec" /\ p \in permit /\ ~raced => Carried(p)

\* Who has a permit to release has closed the record, or is the failed start.
OwedIsClosed ==
    \A p \in Procs, t \in Threads :
        /\ p \in owed[t] => IsClosed(p)
        /\ giving[t] = p => IsClosed(p) \/ (t = <<"start", p>> /\ Started(p) = "giveup")

\* A thread with permits to release is where it releases them.
Owing == {"release", "giving", "yield", "yielding"}
Giving == {"giving", "yielding", "giveup"}
InTime ==
    \A t \in Threads : /\ owed[t] # {} => pc[t] \in Owing
                       /\ giving[t] # Lease => pc[t] \in Giving
GiveupGives == \A p \in Procs : Started(p) = "giveup" => giving[<<"start", p>>] = p

\* The reader and the watchdog of a process run once its start is done.
Threaded ==
    \A p \in Procs :
        pc[<<"read", p>>] # "idle" \/ pc[<<"watch", p>>] # "idle"
            => Started(p) = "idle" /\ rec[p] # "none"

\* A running process has its permit.
RunningHas == \A p \in Procs : Running(p) => p \in permit

\* The count.
Counted ==
    /\ IsFiniteSet(permit)
    /\ inUse <= Cardinality(Held)
    /\ ~raced => inUse = Cardinality(Held)

Permits ==
    /\ Counted /\ RunningHas /\ BeginIsNew /\ ExecIsListed /\ OwedIsClosed
    /\ InTime /\ GiveupGives /\ Threaded

\* The types, by what changes together: Docker, the snapshot and the counters;
\* the records and the permits; the lock and the threads.
World ==
    /\ up \in {"down", "booting", "serving"} /\ epoch \in 1..MaxEpoch
    /\ cont \in Container /\ execs \in SUBSET Procs /\ net \in NetState
    /\ snap \in Snapshot
    /\ found \in [Procs -> SUBSET Procs] /\ last \in SUBSET Procs
    /\ stale \in 0..MaxBoots
    /\ boots \in 0..MaxBoots /\ troubles \in 0..MaxTrouble
    /\ ExecsInContainer
    /\ up = "down" => epoch < MaxEpoch
Books ==
    /\ rec \in [Procs -> RecState]
    /\ permit \in SUBSET Procs
    /\ inUse \in Nat
    /\ owed \in [Threads -> SUBSET Procs]
    /\ giving \in [Threads -> Procs \cup {Lease}]
    /\ raced \in BOOLEAN
Moves ==
    /\ lock \in Threads \cup {Free}
    /\ pc \in [Threads -> Places]
    /\ LockMatches

\* A client's request only ensures; it alone notifies with the lock held.
ClientPlace ==
    /\ pc[Client] \in {"idle", "make", "net", "save", "yield", "yielding"}
    /\ \A t \in Threads : pc[t] \in {"yield", "yielding"} => t = Client

IInv == World /\ Books /\ Moves /\ ClientPlace /\ Permits

-----------------------------------------------------------------------------
(* Threads *)

\* The threads are distinct and none of them is "free".
LEMMA ThreadFacts ==
    /\ Free \notin Threads
    /\ \A p \in Procs : /\ <<"start", p>> \in Threads
                        /\ <<"read", p>> \in Threads
                        /\ <<"watch", p>> \in Threads
    /\ Client \in Threads
    /\ <<"admin", Lease>> \in Threads
    /\ <<"reconciler", Lease>> \in Threads
    /\ \A t \in Threads :
         /\ t[1] \in {"start", "read", "watch", "client", "admin", "reconciler"}
         /\ t[1] = "start" => \E p \in Procs : t = <<"start", p>>
         /\ t[1] = "read" => t[2] \in Procs
         /\ t[1] = "client" => t = Client
  BY DEF Threads, Free, Client

\* Where a recycle leaves its thread: without the lock, and a start with its
\* failure to undo.
LEMMA AfterFacts ==
    ASSUME NEW t \in Threads, t # Client, NEW how
    PROVE  /\ After(t, how) \in {"undo", "want", "idle", "sweep"}
           /\ t[1] = "start" => After(t, how) = "undo"
<1>1. t[1] \in {"start", "read", "watch", "admin", "reconciler"}
  BY ThreadFacts
<1>2. CASE t[1] = "start"
  BY <1>2 DEF After
<1>3. CASE t[1] = "read"
  BY <1>3 DEF After
<1>4. CASE t[1] \in {"watch", "admin"}
  BY <1>4 DEF After
<1>5. CASE t[1] = "reconciler"
  BY <1>5 DEF After
<1> QED
  BY <1>1, <1>2, <1>3, <1>4, <1>5

\* One thread moves.
LEMMA MoveRows ==
    ASSUME Moves, NEW t \in Threads, NEW x \in Places, pc' = [pc EXCEPT ![t] = x]
    PROVE  /\ pc' \in [Threads -> Places]
           /\ pc'[t] = x
           /\ \A u \in Threads : u # t => pc'[u] = pc[u]
           /\ \A p \in Procs : /\ t = <<"start", p>> => Started(p)' = x
                               /\ t # <<"start", p>> => Started(p)' = Started(p)
  BY ThreadFacts DEF Moves, Started

\* A thread takes the lock, releases it or leaves it alone.
LEMMA LockMove ==
    ASSUME Moves, NEW t \in Threads, NEW x \in Places,
           pc' = [pc EXCEPT ![t] = x],
           \/ lock' = lock /\ (pc[t] \in Locked <=> x \in Locked)
           \/ lock = Free /\ lock' = t /\ x \in Locked
           \/ pc[t] \in Locked /\ lock' = Free /\ x \notin Locked
    PROVE  Moves'
  BY ThreadFacts DEF Moves, LockMatches

\* The reader and the watchdog stay where they are in the life of a start, and
\* begin nothing by themselves.
LEMMA ThreadedMove ==
    ASSUME IInv, NEW t \in Threads, NEW x \in Places, pc' = [pc EXCEPT ![t] = x],
           t[1] \in {"start", "read", "watch"} => pc[t] # "idle",
           \A p \in Procs : rec'[p] = "none" => rec[p] = "none" \/ t = <<"start", p>>
    PROVE  Threaded'
<1> SUFFICES ASSUME NEW p \in Procs,
                    pc'[<<"read", p>>] # "idle" \/ pc'[<<"watch", p>>] # "idle"
             PROVE  Started(p)' = "idle" /\ rec'[p] # "none"
  BY DEF Threaded
<1>1. /\ <<"read", p>> \in Threads /\ <<"watch", p>> \in Threads
      /\ <<"read", p>>[1] = "read" /\ <<"watch", p>>[1] = "watch"
      /\ <<"start", p>>[1] = "start" /\ <<"start", p>> \in Threads
  BY ThreadFacts
<1>2. pc[<<"read", p>>] # "idle" \/ pc[<<"watch", p>>] # "idle"
  BY <1>1, MoveRows DEF IInv
<1>3. Started(p) = "idle" /\ rec[p] # "none"
  BY <1>2 DEF IInv, Permits, Threaded
<1>4. t # <<"start", p>>
  BY <1>1, <1>3 DEF Started
<1>5. Started(p)' = Started(p)
  BY <1>4, MoveRows DEF IInv
<1> QED
  BY <1>3, <1>4, <1>5

-----------------------------------------------------------------------------
(* Counting *)

\* The permits that are held are finitely many.
LEMMA HeldFinite ==
    ASSUME IInv
    PROVE  IsFiniteSet(permit) /\ IsFiniteSet(Held) /\ Cardinality(Held) \in Nat
<1>1. IsFiniteSet(permit) /\ Held \subseteq permit
  BY DEF IInv, Permits, Counted, Held
<1> QED
  BY <1>1, FS_Subset, FS_CardinalityType

\* Nobody takes a permit or gives one back.
LEMMA CountSame ==
    ASSUME IInv, permit' = permit, inUse' = inUse, raced' = raced,
           \A p \in permit : Kept(p)' <=> Kept(p)
    PROVE  Counted'
<1>1. Held' = Held
  BY DEF Held
<1> QED
  BY <1>1 DEF IInv, Permits, Counted

\* A permit is given back: the count and what is held go down together, if
\* the permit was still held, and the count alone if it was not.
LEMMA CountLess ==
    ASSUME IInv, NEW q, inUse > 0, Returned(q), q \in permit => Kept(q),
           \A p \in permit \ {q} : Kept(p)' <=> Kept(p)
    PROVE  Counted' /\ permit' \in SUBSET Procs /\ inUse' \in Nat /\ raced' \in BOOLEAN
<1>1. Held' = Held \ {q}
  BY DEF Held, Returned
<1>2. /\ IsFiniteSet(permit) /\ IsFiniteSet(Held) /\ Cardinality(Held) \in Nat
      /\ inUse \in Nat /\ permit \in SUBSET Procs /\ raced \in BOOLEAN
      /\ inUse <= Cardinality(Held) /\ (~raced => inUse = Cardinality(Held))
  BY HeldFinite DEF IInv, Books, Permits, Counted
<1>3. permit' = permit \ {q} /\ inUse' = inUse - 1 /\ raced' = (raced \/ q \notin permit)
  BY DEF Returned
<1>4. IsFiniteSet(permit')
  BY <1>2, <1>3, FS_Subset
<1>5. CASE q \in permit
  <2>1. q \in Held
    BY <1>5 DEF Held
  <2>2. Cardinality(Held') = Cardinality(Held) - 1
    BY <1>1, <1>2, <2>1, FS_RemoveElement
  <2>3. inUse' <= Cardinality(Held') /\ inUse' \in Nat
    BY <1>2, <1>3, <2>2
  <2>4. ~raced' => inUse' = Cardinality(Held')
    <3> SUFFICES ASSUME ~raced'
                 PROVE  inUse' = Cardinality(Held')
      OBVIOUS
    <3>1. ~raced
      BY <1>3
    <3> QED
      BY <1>2, <1>3, <2>2, <3>1
  <2>5. permit' \in SUBSET Procs /\ raced' \in BOOLEAN
    BY <1>2, <1>3
  <2> QED
    BY <1>4, <2>3, <2>4, <2>5 DEF Counted
<1>6. CASE q \notin permit
  <2>1. Held' = Held
    BY <1>1, <1>6 DEF Held
  <2>2. inUse' <= Cardinality(Held') /\ inUse' \in Nat
    BY <1>2, <1>3, <2>1
  <2>3. raced' /\ raced' \in BOOLEAN /\ permit' \in SUBSET Procs
    BY <1>2, <1>3, <1>6
  <2> QED
    BY <1>4, <2>2, <2>3 DEF Counted
<1> QED
  BY <1>5, <1>6

\* The limiter raises: it counts nothing, and the permits are as many as before.
LEMMA CountRaised ==
    ASSUME IInv, NEW t, ~(inUse > 0), Underflows(t)
    PROVE  Counted' /\ permit' \in SUBSET Procs /\ inUse' \in Nat /\ raced' \in BOOLEAN
<1>1. inUse = 0 /\ permit' = permit /\ inUse' = inUse /\ raced' = TRUE
  BY DEF IInv, Books, Underflows
<1>2. IsFiniteSet(permit') /\ Held' \subseteq permit'
  BY <1>1 DEF Held, IInv, Permits, Counted
<1>3. Cardinality(Held') \in Nat
  BY <1>2, FS_Subset, FS_CardinalityType
<1> QED
  BY <1>1, <1>2, <1>3 DEF Counted, IInv, Books

-----------------------------------------------------------------------------
(* How a permit passes from hand to hand *)

\* A thread moves that has nothing to release, and the books stay as they are.
LEMMA QuietMove ==
    ASSUME IInv, NEW t \in Threads, NEW x \in Places,
           pc' = [pc EXCEPT ![t] = x], rec' = rec, UNCHANGED permits,
           pc[t] \notin Owing \cup Giving, x \notin Owing \cup Giving,
           t[1] = "start" => /\ x \notin {"idle", "begin", "exec"}
                             /\ pc[t] \notin {"idle", "exec"},
           t[1] \in {"read", "watch"} => pc[t] # "idle",
           t = Client => x \in {"idle", "make", "net", "save"}
    PROVE  Books' /\ Permits' /\ ClientPlace'
<1>1. /\ permit' = permit /\ inUse' = inUse /\ owed' = owed /\ giving' = giving
      /\ raced' = raced
  BY DEF permits
<1>2. Moves
  BY DEF IInv
<1>3. ASSUME NEW p \in Procs
      PROVE  /\ Started(p)' \in {"idle", "exec"} <=> Started(p) \in {"idle", "exec"}
             /\ Started(p)' = "begin" => Started(p) = "begin"
             /\ Started(p)' = "exec" => Started(p) = "exec"
             /\ Started(p)' = "giveup" <=> Started(p) = "giveup"
  <2>1. CASE t = <<"start", p>>
    <3>1. t[1] = "start" /\ Started(p) = pc[t] /\ Started(p)' = x
      BY <1>2, <2>1, MoveRows DEF Started
    <3> QED
      BY <3>1 DEF Giving
  <2>2. CASE t # <<"start", p>>
    BY <1>2, <2>2, MoveRows
  <2> QED
    BY <2>1, <2>2
<1>4. ASSUME NEW p \in Procs
      PROVE  /\ Carried(p)' <=> Carried(p)
             /\ Kept(p)' <=> Kept(p)
             /\ Running(p)' <=> Running(p)
             /\ IsClosed(p)' <=> IsClosed(p)
  BY <1>1, <1>3 DEF Carried, Kept, Running, IsClosed
<1>5. Books'
  BY <1>1 DEF IInv, Books
<1>6. Counted'
  BY <1>1, <1>4, CountSame DEF IInv, Books
<1>7. RunningHas' /\ BeginIsNew' /\ ExecIsListed'
  BY <1>1, <1>3, <1>4 DEF IInv, Permits, RunningHas, BeginIsNew, ExecIsListed
<1>8. OwedIsClosed' /\ GiveupGives'
  BY <1>1, <1>3, <1>4 DEF IInv, Permits, OwedIsClosed, GiveupGives
<1>9. InTime'
  <2> SUFFICES ASSUME NEW u \in Threads
               PROVE  /\ owed[u] # {} => pc'[u] \in Owing
                      /\ giving[u] # Lease => pc'[u] \in Giving
    BY <1>1 DEF InTime
  <2>1. /\ owed[u] # {} => pc[u] \in Owing
        /\ giving[u] # Lease => pc[u] \in Giving
    BY DEF IInv, Permits, InTime
  <2> QED
    BY <1>2, <2>1, MoveRows
<1>10. Threaded'
  BY ThreadedMove
<1>11. ClientPlace'
  <2>1. x \notin {"yield", "yielding"}
    BY DEF Owing
  <2> QED
    BY <1>2, <2>1, MoveRows, ThreadFacts DEF IInv, ClientPlace
<1> QED
  BY <1>5, <1>6, <1>7, <1>8, <1>9, <1>10, <1>11 DEF Permits

\* What stays the same when the books change for a thread t that stays, or
\* moves on, in the places of release: the rest of the invariant follows from
\* the rows of records, permits and threads.
LEMMA HandRows ==
    ASSUME IInv, Books', NEW t \in Threads, NEW x \in Places,
           pc' = [pc EXCEPT ![t] = x],
           t = Client => x \in {"idle", "make", "net", "save", "yield", "yielding"},
           x \in {"yield", "yielding"} => t = Client,
           x # "giveup",
           owed'[t] # {} => x \in Owing,
           giving'[t] # Lease => x \in Giving,
           \A u \in Threads \ {t} : owed'[u] = owed[u] /\ giving'[u] = giving[u]
    PROVE  InTime' /\ GiveupGives' /\ ClientPlace'
<1>1. Moves
  BY DEF IInv
<1>2. InTime'
  <2> SUFFICES ASSUME NEW u \in Threads
               PROVE  /\ owed'[u] # {} => pc'[u] \in Owing
                      /\ giving'[u] # Lease => pc'[u] \in Giving
    BY DEF InTime
  <2>1. CASE u = t
    BY <1>1, <2>1, MoveRows
  <2>2. CASE u # t
    BY <1>1, <2>2, MoveRows DEF IInv, Permits, InTime
  <2> QED
    BY <2>1, <2>2
<1>3. GiveupGives'
  <2> SUFFICES ASSUME NEW p \in Procs, Started(p)' = "giveup"
               PROVE  giving'[<<"start", p>>] = p
    BY DEF GiveupGives
  <2>1. t # <<"start", p>>
    BY <1>1, MoveRows
  <2>2. Started(p) = "giveup"
    BY <1>1, <2>1, MoveRows
  <2>3. <<"start", p>> \in Threads \ {t}
    BY <2>1, ThreadFacts
  <2> QED
    BY <2>2, <2>3 DEF IInv, Permits, GiveupGives
<1>4. ClientPlace'
  BY <1>1, MoveRows, ThreadFacts DEF IInv, ClientPlace
<1> QED
  BY <1>2, <1>3, <1>4

\* A thread that has nothing to release closes the running records, and has
\* their permits to release.
LEMMA NotifyMove ==
    ASSUME IInv, NEW t \in Threads, NEW x \in Places,
           pc' = [pc EXCEPT ![t] = x], Notifies(t),
           pc[t] \notin Owing \cup Giving, x \notin Giving,
           Closed # {} => x \in Owing,
           t[1] \in {"start", "read", "watch"} => pc[t] # "idle",
           t[1] = "start" => pc[t] # "exec" /\ x \notin {"idle", "begin", "exec"},
           t = Client => x \in {"idle", "yield"},
           x \in {"yield", "yielding"} => t = Client
    PROVE  Books' /\ Permits' /\ ClientPlace'
<1>1. /\ rec' = Lost /\ owed' = [owed EXCEPT ![t] = Closed]
      /\ permit' = permit /\ inUse' = inUse /\ giving' = giving /\ raced' = raced
  BY DEF Notifies
<1>2. Moves /\ Books
  BY DEF IInv
<1>3. Books'
  BY <1>1, <1>2 DEF Books, Lost, Closed, RecState
<1>4. owed[t] = {} /\ giving[t] = Lease /\ owed'[t] = Closed
      /\ \A u \in Threads \ {t} : owed'[u] = owed[u] /\ giving'[u] = giving[u]
  BY <1>1, <1>2 DEF IInv, Permits, InTime, Books
<1>5. ASSUME NEW p \in Procs
      PROVE  /\ ~Running(p)'
             /\ rec'[p] = "none" <=> rec[p] = "none"
             /\ IsClosed(p)' <=> IsClosed(p) \/ Running(p)
             /\ p \in Closed <=> Running(p)
  BY <1>1, <1>2 DEF Lost, Closed, Running, IsClosed, Books
<1>6. ASSUME NEW p \in Procs
      PROVE  Carried(p)' <=> Carried(p)
  <2>1. ASSUME Carried(p)'
        PROVE  Carried(p)
    <3>1. PICK u \in Threads : p \in owed'[u] \/ giving'[u] = p
      BY <1>5, <2>1 DEF Carried
    <3> QED
      BY <1>1, <1>4, <1>5, <3>1 DEF Carried
  <2>2. ASSUME Carried(p)
        PROVE  Carried(p)'
    <3>1. CASE Running(p)
      BY <1>4, <1>5, <3>1 DEF Carried
    <3>2. CASE \E u \in Threads : p \in owed[u] \/ giving[u] = p
      <4>1. PICK u \in Threads : p \in owed[u] \/ giving[u] = p
        BY <3>2
      <4>2. p \in owed'[u] \/ giving'[u] = p
        BY <1>1, <1>4, <4>1
      <4> QED
        BY <4>2 DEF Carried
    <3> QED
      BY <2>2, <3>1, <3>2 DEF Carried
  <2> QED
    BY <2>1, <2>2
<1>7. ASSUME NEW p \in Procs
      PROVE  /\ Started(p)' \in {"idle", "exec"} <=> Started(p) \in {"idle", "exec"}
             /\ Started(p)' = "begin" => Started(p) = "begin"
             /\ Started(p)' = "exec" => Started(p) = "exec"
             /\ Started(p) = "giveup" => Started(p)' = "giveup"
  <2>1. CASE t = <<"start", p>>
    <3>1. t[1] = "start" /\ Started(p) = pc[t] /\ Started(p)' = x
      BY <1>2, <2>1, MoveRows DEF Started
    <3> QED
      BY <3>1 DEF Giving
  <2>2. CASE t # <<"start", p>>
    BY <1>2, <2>2, MoveRows
  <2> QED
    BY <2>1, <2>2
<1>8. Counted'
  <2>1. \A p \in permit : Kept(p)' <=> Kept(p)
    BY <1>2, <1>6, <1>7 DEF Kept, Books
  <2> QED
    BY <1>1, <2>1, CountSame
<1>9. RunningHas' /\ BeginIsNew' /\ ExecIsListed'
  BY <1>1, <1>5, <1>6, <1>7
  DEF IInv, Permits, RunningHas, BeginIsNew, ExecIsListed
<1>10. OwedIsClosed'
  <2> SUFFICES ASSUME NEW p \in Procs, NEW u \in Threads
               PROVE  /\ p \in owed'[u] => IsClosed(p)'
                      /\ giving'[u] = p => \/ IsClosed(p)'
                                           \/ u = <<"start", p>> /\ Started(p)' = "giveup"
    BY DEF OwedIsClosed
  <2>1. /\ p \in owed[u] => IsClosed(p)
        /\ giving[u] = p => \/ IsClosed(p)
                            \/ u = <<"start", p>> /\ Started(p) = "giveup"
    BY DEF IInv, Permits, OwedIsClosed
  <2>2. p \in owed'[u] => IsClosed(p)'
    BY <1>4, <1>5, <2>1
  <2>3. giving'[u] = giving[u]
    BY <1>1
  <2> QED
    BY <1>5, <1>7, <2>1, <2>2, <2>3
<1>11. InTime' /\ GiveupGives' /\ ClientPlace'
  <2>1. giving'[t] = Lease
    BY <1>1, <1>4
  <2>2. x # "giveup"
    BY DEF Giving
  <2> QED
    BY <1>3, <1>4, <2>1, <2>2, HandRows
<1>12. Threaded'
  BY <1>5, ThreadedMove
<1> QED
  BY <1>3, <1>8, <1>9, <1>10, <1>11, <1>12 DEF Permits

\* A thread finds a permit it has to release unmarked: it takes it in hand.
LEMMA LookMove ==
    ASSUME IInv, NEW t \in Threads, NEW x \in Places, NEW q \in owed[t] \cap permit,
           pc' = [pc EXCEPT ![t] = x],
           \/ pc[t] = "release" /\ x = "giving"
           \/ pc[t] = "yield" /\ x = "yielding",
           owed' = [owed EXCEPT ![t] = @ \ {q}], giving' = [giving EXCEPT ![t] = q],
           rec' = rec, permit' = permit, inUse' = inUse, raced' = raced
    PROVE  Books' /\ Permits' /\ ClientPlace'
<1>2. Moves /\ Books
  BY DEF IInv
<1>3. Books'
  BY <1>2 DEF Books
<1>4. /\ giving[t] = Lease /\ q \in Procs /\ q \in owed[t]
      /\ owed'[t] = owed[t] \ {q} /\ giving'[t] = q
      /\ \A u \in Threads \ {t} : owed'[u] = owed[u] /\ giving'[u] = giving[u]
  BY <1>2 DEF IInv, Permits, InTime, Books, Giving
<1>5. Lease \notin Procs
  BY SandboxBounds
<1>6. ASSUME NEW p \in Procs
      PROVE  /\ Carried(p)' <=> Carried(p)
             /\ Running(p)' <=> Running(p)
             /\ IsClosed(p)' <=> IsClosed(p)
  <2>1. /\ Running(p)' <=> Running(p)
        /\ IsClosed(p)' <=> IsClosed(p)
    BY DEF Running, IsClosed
  <2>2. ASSUME NEW u \in Threads, p \in owed'[u] \/ giving'[u] = p
        PROVE  p \in owed[u] \/ giving[u] = p
    BY <1>4, <2>2
  <2>3. ASSUME NEW u \in Threads, p \in owed[u] \/ giving[u] = p
        PROVE  p \in owed'[u] \/ giving'[u] = p
    BY <1>4, <1>5, <2>3
  <2> QED
    BY <2>1, <2>2, <2>3 DEF Carried
<1>7. ASSUME NEW p \in Procs
      PROVE  /\ Started(p)' \in {"idle", "exec"} <=> Started(p) \in {"idle", "exec"}
             /\ Started(p)' = "begin" => Started(p) = "begin"
             /\ Started(p)' = "exec" => Started(p) = "exec"
             /\ Started(p) = "giveup" => Started(p)' = "giveup"
  <2>1. CASE t = <<"start", p>>
    <3>1. Started(p) = pc[t] /\ Started(p)' = x
      BY <1>2, <2>1, MoveRows DEF Started
    <3> QED
      BY <3>1
  <2>2. CASE t # <<"start", p>>
    BY <1>2, <2>2, MoveRows
  <2> QED
    BY <2>1, <2>2
<1>8. Counted'
  <2>1. \A p \in permit : Kept(p)' <=> Kept(p)
    BY <1>2, <1>6, <1>7 DEF Kept, Books
  <2> QED
    BY <2>1, CountSame
<1>9. RunningHas' /\ BeginIsNew' /\ ExecIsListed'
  BY <1>6, <1>7 DEF IInv, Permits, RunningHas, BeginIsNew, ExecIsListed
<1>10. OwedIsClosed'
  <2> SUFFICES ASSUME NEW p \in Procs, NEW u \in Threads
               PROVE  /\ p \in owed'[u] => IsClosed(p)'
                      /\ giving'[u] = p => \/ IsClosed(p)'
                                           \/ u = <<"start", p>> /\ Started(p)' = "giveup"
    BY DEF OwedIsClosed
  <2>1. /\ p \in owed[u] => IsClosed(p)
        /\ giving[u] = p => \/ IsClosed(p)
                            \/ u = <<"start", p>> /\ Started(p) = "giveup"
    BY DEF IInv, Permits, OwedIsClosed
  <2> QED
    BY <1>4, <1>6, <1>7, <2>1
<1>11. InTime' /\ GiveupGives' /\ ClientPlace'
  <2>1. owed'[t] # {} => x \in Owing
    BY DEF Owing
  <2>2. giving'[t] # Lease => x \in Giving
    BY DEF Giving
  <2>3. x \in {"yield", "yielding"} <=> t = Client
    BY DEF IInv, ClientPlace
  <2> QED
    BY <1>3, <1>4, <2>1, <2>2, <2>3, HandRows
<1>12. Threaded'
  BY ThreadedMove
<1> QED
  BY <1>3, <1>8, <1>9, <1>10, <1>11, <1>12 DEF Permits

\* Every permit a thread still has to release is marked: it goes on.
LEMMA SkipMove ==
    ASSUME IInv, NEW t \in Threads, NEW x \in Places,
           pc' = [pc EXCEPT ![t] = x], pc[t] \in {"release", "yield"},
           x \notin Owing \cup Giving,
           t[1] = "start" => x \notin {"idle", "begin", "exec"},
           t = Client => x = "idle",
           owed[t] \cap permit = {}, owed' = [owed EXCEPT ![t] = {}],
           giving' = giving, rec' = rec, permit' = permit, inUse' = inUse,
           raced' = raced
    PROVE  Books' /\ Permits' /\ ClientPlace'
<1>2. Moves /\ Books
  BY DEF IInv
<1>3. Books'
  BY <1>2 DEF Books
<1>4. /\ giving'[t] = Lease /\ owed'[t] = {}
      /\ \A u \in Threads \ {t} : owed'[u] = owed[u] /\ giving'[u] = giving[u]
  BY <1>2 DEF IInv, Permits, InTime, Books, Giving
<1>6. ASSUME NEW p \in Procs
      PROVE  /\ p \in permit => (Carried(p)' <=> Carried(p))
             /\ Running(p)' <=> Running(p)
             /\ IsClosed(p)' <=> IsClosed(p)
  <2>1. /\ Running(p)' <=> Running(p)
        /\ IsClosed(p)' <=> IsClosed(p)
    BY DEF Running, IsClosed
  <2>2. ASSUME NEW u \in Threads, p \in owed'[u] \/ giving'[u] = p
        PROVE  p \in owed[u] \/ giving[u] = p
    BY <1>4, <2>2
  <2>3. ASSUME p \in permit, NEW u \in Threads, p \in owed[u] \/ giving[u] = p
        PROVE  p \in owed'[u] \/ giving'[u] = p
    BY <1>4, <2>3
  <2> QED
    BY <2>1, <2>2, <2>3 DEF Carried
<1>7. ASSUME NEW p \in Procs
      PROVE  /\ Started(p)' \in {"idle", "exec"} <=> Started(p) \in {"idle", "exec"}
             /\ Started(p)' = "begin" => Started(p) = "begin"
             /\ Started(p)' = "exec" => Started(p) = "exec"
             /\ Started(p) = "giveup" => Started(p)' = "giveup"
  <2>1. CASE t = <<"start", p>>
    <3>1. t[1] = "start" /\ Started(p) = pc[t] /\ Started(p)' = x
      BY <1>2, <2>1, MoveRows DEF Started
    <3> QED
      BY <3>1
  <2>2. CASE t # <<"start", p>>
    BY <1>2, <2>2, MoveRows
  <2> QED
    BY <2>1, <2>2
<1>8. Counted'
  <2>1. \A p \in permit : Kept(p)' <=> Kept(p)
    BY <1>2, <1>6, <1>7 DEF Kept, Books
  <2> QED
    BY <2>1, CountSame
<1>9. RunningHas' /\ BeginIsNew' /\ ExecIsListed'
  BY <1>6, <1>7 DEF IInv, Permits, RunningHas, BeginIsNew, ExecIsListed
<1>10. OwedIsClosed'
  <2> SUFFICES ASSUME NEW p \in Procs, NEW u \in Threads
               PROVE  /\ p \in owed'[u] => IsClosed(p)'
                      /\ giving'[u] = p => \/ IsClosed(p)'
                                           \/ u = <<"start", p>> /\ Started(p)' = "giveup"
    BY DEF OwedIsClosed
  <2>1. /\ p \in owed[u] => IsClosed(p)
        /\ giving[u] = p => \/ IsClosed(p)
                            \/ u = <<"start", p>> /\ Started(p) = "giveup"
    BY DEF IInv, Permits, OwedIsClosed
  <2> QED
    BY <1>4, <1>6, <1>7, <2>1
<1>11. InTime' /\ GiveupGives' /\ ClientPlace'
  <2>1. x \notin {"yield", "yielding", "giveup"}
    BY DEF Owing, Giving
  <2> QED
    BY <1>3, <1>4, <2>1, HandRows
<1>12. Threaded'
  BY ThreadedMove
<1> QED
  BY <1>3, <1>8, <1>9, <1>10, <1>11, <1>12 DEF Permits

\* A notifier gives the slot of a permit back and marks it.
LEMMA GiveMove ==
    ASSUME IInv, NEW t \in Threads, NEW x \in Places,
           pc' = [pc EXCEPT ![t] = x], pc[t] \in {"giving", "yielding"},
           inUse > 0, Returned(giving[t]), giving' = [giving EXCEPT ![t] = Lease],
           owed' = owed, rec' = rec,
           x \notin Giving,
           owed[t] # {} => x \in Owing,
           x = "yield" => t = Client,
           t = Client => x \in {"idle", "yield"},
           t[1] = "start" => x \notin {"idle", "begin", "exec"}
    PROVE  Books' /\ Permits' /\ ClientPlace'
<1> DEFINE q == giving[t]
<1>1. Moves /\ Books
  BY DEF IInv
<1>2. /\ giving'[t] = Lease
      /\ \A u \in Threads \ {t} : owed'[u] = owed[u] /\ giving'[u] = giving[u]
  BY <1>1 DEF Books
<1>3. permit' = permit \ {q} /\ raced' = (raced \/ q \notin permit)
  BY DEF Returned
<1>4. ASSUME NEW p \in Procs, p # q
      PROVE  Carried(p)' <=> Carried(p)
  <2>1. Running(p)' <=> Running(p)
    BY DEF Running
  <2>2. ASSUME NEW u \in Threads
        PROVE  p \in owed'[u] \/ giving'[u] = p <=> p \in owed[u] \/ giving[u] = p
    <3>1. CASE u = t
      <4>1. giving'[u] # p /\ giving[u] # p
        BY <1>2, <1>4, <3>1, SandboxBounds
      <4> QED
        BY <4>1
    <3>2. CASE u # t
      BY <1>2, <3>2
    <3> QED
      BY <3>1, <3>2
  <2> QED
    BY <2>1, <2>2 DEF Carried
<1>5. q \in Procs => IsClosed(q)
  <2> SUFFICES ASSUME q \in Procs
               PROVE  IsClosed(q)
    OBVIOUS
  <2>1. IsClosed(q) \/ (t = <<"start", q>> /\ Started(q) = "giveup")
    BY DEF IInv, Permits, OwedIsClosed
  <2>2. ~(t = <<"start", q>> /\ Started(q) = "giveup")
    BY DEF Started
  <2> QED
    BY <2>1, <2>2
<1>6. ASSUME NEW p \in Procs
      PROVE  /\ Running(p)' <=> Running(p)
             /\ IsClosed(p)' <=> IsClosed(p)
             /\ rec[p] \in {"none", "running"} /\ p \in permit => p \in permit'
  BY <1>3, <1>5 DEF Running, IsClosed
<1>7. ASSUME NEW p \in Procs
      PROVE  /\ Started(p)' \in {"idle", "exec"} <=> Started(p) \in {"idle", "exec"}
             /\ Started(p)' = "begin" => Started(p) = "begin"
             /\ Started(p)' = "exec" => Started(p) = "exec"
             /\ Started(p) = "giveup" => Started(p)' = "giveup"
  <2>1. CASE t = <<"start", p>>
    <3>1. t[1] = "start" /\ Started(p) = pc[t] /\ Started(p)' = x
      BY <1>1, <2>1, MoveRows DEF Started
    <3> QED
      BY <3>1
  <2>2. CASE t # <<"start", p>>
    BY <1>1, <2>2, MoveRows
  <2> QED
    BY <2>1, <2>2
<1>8. /\ Counted' /\ permit' \in SUBSET Procs /\ inUse' \in Nat /\ raced' \in BOOLEAN
  <2>1. q \in permit => Kept(q)
    BY <1>1 DEF Books, Kept, Carried
  <2>2. \A p \in permit \ {q} : Kept(p)' <=> Kept(p)
    BY <1>1, <1>4, <1>7 DEF Books, Kept
  <2> QED
    BY <2>1, <2>2, CountLess
<1>9. Books'
  BY <1>1, <1>8 DEF Books
<1>10. RunningHas' /\ BeginIsNew'
  <2>1. RunningHas'
    BY <1>6 DEF IInv, Permits, RunningHas, Running
  <2>2. BeginIsNew'
    BY <1>6, <1>7 DEF IInv, Permits, BeginIsNew
  <2> QED
    BY <2>1, <2>2
<1>11. ExecIsListed'
  <2>1. ASSUME NEW p \in Procs, Started(p)' = "exec", p \in permit', ~raced'
        PROVE  Carried(p)'
    <3>1. p # q /\ p \in permit /\ ~raced
      BY <1>3, <2>1
    <3>2. Carried(p)
      BY <1>7, <2>1, <3>1 DEF IInv, Permits, ExecIsListed
    <3> QED
      BY <1>4, <3>1, <3>2
  <2>2. ASSUME NEW p \in Procs, Started(p)' = "exec"
        PROVE  Running(p)' \/ IsClosed(p)'
    BY <1>6, <1>7, <2>2 DEF IInv, Permits, ExecIsListed
  <2> QED
    BY <2>1, <2>2 DEF ExecIsListed
<1>12. OwedIsClosed'
  <2> SUFFICES ASSUME NEW p \in Procs, NEW u \in Threads
               PROVE  /\ p \in owed'[u] => IsClosed(p)'
                      /\ giving'[u] = p => \/ IsClosed(p)'
                                           \/ u = <<"start", p>> /\ Started(p)' = "giveup"
    BY DEF OwedIsClosed
  <2>1. /\ p \in owed[u] => IsClosed(p)
        /\ giving[u] = p => \/ IsClosed(p)
                            \/ u = <<"start", p>> /\ Started(p) = "giveup"
    BY DEF IInv, Permits, OwedIsClosed
  <2>2. giving'[u] = p => giving[u] = p
    BY <1>2, SandboxBounds
  <2> QED
    BY <1>6, <1>7, <2>1, <2>2
<1>13. InTime' /\ GiveupGives' /\ ClientPlace'
  <2>1. x # "giveup" /\ x # "yielding"
    BY DEF Giving
  <2> QED
    BY <1>2, <1>9, <2>1, HandRows
<1>14. Threaded'
  BY ThreadedMove
<1> QED
  BY <1>8, <1>9, <1>10, <1>11, <1>12, <1>13, <1>14 DEF Permits

\* The limiter raises: the thread leaves its permits and its record alone.
LEMMA RaiseMove ==
    ASSUME IInv, NEW t \in Threads, NEW x \in Places,
           pc' = [pc EXCEPT ![t] = x], pc[t] \in Giving,
           ~(inUse > 0), Underflows(t), rec' = rec,
           x \notin Owing \cup Giving,
           t = Client => x = "idle",
           t[1] = "start" => x \notin {"begin", "exec"}
    PROVE  Books' /\ Permits' /\ ClientPlace'
<1>1. Moves /\ Books
  BY DEF IInv
<1>2. /\ giving'[t] = Lease /\ owed'[t] = {} /\ permit' = permit /\ raced' = TRUE
      /\ \A u \in Threads \ {t} : owed'[u] = owed[u] /\ giving'[u] = giving[u]
      /\ owed' = [owed EXCEPT ![t] = {}] /\ giving' = [giving EXCEPT ![t] = Lease]
  BY <1>1 DEF Books, Underflows
<1>3. /\ Counted' /\ permit' \in SUBSET Procs /\ inUse' \in Nat /\ raced' \in BOOLEAN
  BY CountRaised
<1>4. Books'
  BY <1>1, <1>2, <1>3 DEF Books
<1>5. ASSUME NEW p \in Procs
      PROVE  /\ Started(p)' = "begin" => Started(p) = "begin"
             /\ Started(p)' = "exec" => Started(p) = "exec"
             /\ t # <<"start", p>> /\ Started(p) = "giveup" => Started(p)' = "giveup"
             /\ Running(p)' <=> Running(p)
             /\ IsClosed(p)' <=> IsClosed(p)
  <2>1. CASE t = <<"start", p>>
    <3>1. t[1] = "start" /\ Started(p)' = x
      BY <1>1, <2>1, MoveRows
    <3> QED
      BY <2>1, <3>1 DEF Running, IsClosed
  <2>2. CASE t # <<"start", p>>
    BY <1>1, <2>2, MoveRows DEF Running, IsClosed
  <2> QED
    BY <2>1, <2>2
<1>6. RunningHas' /\ BeginIsNew' /\ ExecIsListed'
  BY <1>2, <1>5 DEF IInv, Permits, RunningHas, BeginIsNew, ExecIsListed
<1>7. OwedIsClosed'
  <2> SUFFICES ASSUME NEW p \in Procs, NEW u \in Threads
               PROVE  /\ p \in owed'[u] => IsClosed(p)'
                      /\ giving'[u] = p => \/ IsClosed(p)'
                                           \/ u = <<"start", p>> /\ Started(p)' = "giveup"
    BY DEF OwedIsClosed
  <2>1. /\ p \in owed[u] => IsClosed(p)
        /\ giving[u] = p => \/ IsClosed(p)
                            \/ u = <<"start", p>> /\ Started(p) = "giveup"
    BY DEF IInv, Permits, OwedIsClosed
  <2>2. CASE u = t
    BY <1>2, <2>2, SandboxBounds
  <2>3. CASE u # t
    BY <1>2, <1>5, <2>1, <2>3
  <2> QED
    BY <2>2, <2>3
<1>8. InTime' /\ GiveupGives' /\ ClientPlace'
  <2>1. x \notin {"yield", "yielding", "giveup"}
    BY DEF Owing, Giving
  <2> QED
    BY <1>2, <1>4, <2>1, HandRows
<1>9. Threaded'
  <2>1. pc[t] # "idle"
    BY DEF Giving
  <2> QED
    BY <2>1, ThreadedMove
<1> QED
  BY <1>3, <1>4, <1>6, <1>7, <1>8, <1>9 DEF Permits

\* A failed start forgets its record and its permit: nothing changes for other
\* processes.
LEMMA ForgetRows ==
    ASSUME IInv, NEW p \in Procs, Forgets(p),
           pc' = [pc EXCEPT ![<<"start", p>>] = "idle"]
    PROVE  /\ rec' \in [Procs -> RecState]
           /\ owed' \in [Threads -> SUBSET Procs]
           /\ giving' \in [Threads -> Procs \cup {Lease}]
           /\ rec'[p] = "none" /\ Started(p)' = "idle"
           /\ \A t \in Threads : p \notin owed'[t] /\ giving'[t] # p
           /\ \A t \in Threads : /\ owed[t] = {} => owed'[t] = {}
                                 /\ giving[t] = Lease => giving'[t] = Lease
           /\ \A r \in Procs \ {p} :
                /\ rec'[r] = rec[r] /\ Started(r)' = Started(r)
                /\ \A t \in Threads : /\ r \in owed'[t] <=> r \in owed[t]
                                      /\ giving'[t] = r <=> giving[t] = r
                /\ Carried(r)' <=> Carried(r)
                /\ Kept(r)' <=> Kept(r)
<1>1. Moves /\ Books
  BY DEF IInv
<1>2. /\ rec' = [rec EXCEPT ![p] = "none"]
      /\ owed' = [t \in Threads |-> owed[t] \ {p}]
      /\ giving' = [t \in Threads |-> IF giving[t] = p THEN Lease ELSE giving[t]]
  BY DEF Forgets
<1>3. "none" \in RecState /\ "idle" \in Places /\ <<"start", p>> \in Threads
      /\ Lease \notin Procs
  BY ThreadFacts, SandboxBounds DEF RecState, Places
<1>4. /\ rec' \in [Procs -> RecState]
      /\ owed' \in [Threads -> SUBSET Procs]
      /\ giving' \in [Threads -> Procs \cup {Lease}]
      /\ rec'[p] = "none"
  BY <1>1, <1>2, <1>3 DEF Books
<1>5. \A t \in Threads : /\ p \notin owed'[t] /\ giving'[t] # p
                         /\ owed[t] = {} => owed'[t] = {}
                         /\ giving[t] = Lease => giving'[t] = Lease
  BY <1>2, <1>3
<1>6. Started(p)' = "idle"
  BY <1>1, <1>3, MoveRows
<1>7. ASSUME NEW r \in Procs \ {p}
      PROVE  /\ rec'[r] = rec[r] /\ Started(r)' = Started(r)
             /\ \A t \in Threads : /\ r \in owed'[t] <=> r \in owed[t]
                                   /\ giving'[t] = r <=> giving[t] = r
             /\ Carried(r)' <=> Carried(r)
             /\ Kept(r)' <=> Kept(r)
  <2>1. rec'[r] = rec[r] /\ (Running(r)' <=> Running(r))
    BY <1>1, <1>2 DEF Books, Running
  <2>2. \A t \in Threads : /\ r \in owed'[t] <=> r \in owed[t]
                           /\ giving'[t] = r <=> giving[t] = r
    BY <1>2, <1>3
  <2>3. Started(r)' = Started(r)
    <3>1. <<"start", p>> # <<"start", r>>
      OBVIOUS
    <3> QED
      BY <1>1, <1>3, <3>1, MoveRows
  <2>4. Carried(r)' <=> Carried(r)
    BY <2>1, <2>2 DEF Carried
  <2> QED
    BY <2>1, <2>2, <2>3, <2>4 DEF Kept
<1> QED
  BY <1>4, <1>5, <1>6, <1>7

\* Hence the rest of the invariant, once the count is right.
LEMMA ForgetMove ==
    ASSUME IInv, NEW p \in Procs, Forgets(p),
           pc' = [pc EXCEPT ![<<"start", p>>] = "idle"],
           Started(p) \in {"undo", "giveup"},
           permit' = permit \ {p}, inUse' \in Nat, raced' \in BOOLEAN,
           raced => raced', Counted'
    PROVE  Books' /\ Permits' /\ ClientPlace'
<1> DEFINE t == <<"start", p>>
<1>1. Moves /\ Books
  BY DEF IInv
<1>2. /\ t \in Threads /\ "idle" \in Places /\ t[1] = "start" /\ t # Client
      /\ pc[t] \in {"undo", "giveup"}
  BY ThreadFacts DEF Places, Client, Started
<1>3. Books'
  BY <1>1, ForgetRows DEF Books
<1>4. RunningHas' /\ BeginIsNew' /\ ExecIsListed'
  <2> SUFFICES ASSUME NEW r \in Procs
               PROVE  /\ Running(r)' => r \in permit'
                      /\ Started(r)' = "begin" => rec'[r] = "none" /\ r \in permit'
                      /\ Started(r)' = "exec" => Running(r)' \/ IsClosed(r)'
                      /\ Started(r)' = "exec" /\ r \in permit' /\ ~raced' => Carried(r)'
    BY DEF RunningHas, BeginIsNew, ExecIsListed
  <2>1. CASE r = p
    BY <2>1, ForgetRows DEF Running
  <2>2. CASE r # p
    <3>1. /\ rec'[r] = rec[r] /\ Started(r)' = Started(r) /\ (Carried(r)' <=> Carried(r))
          /\ r \in permit' <=> r \in permit
      BY <2>2, ForgetRows
    <3>2. /\ Running(r) => r \in permit
          /\ Started(r) = "begin" => rec[r] = "none" /\ r \in permit
          /\ Started(r) = "exec" => Running(r) \/ IsClosed(r)
          /\ Started(r) = "exec" /\ r \in permit /\ ~raced => Carried(r)
      BY DEF IInv, Permits, RunningHas, BeginIsNew, ExecIsListed
    <3> QED
      BY <3>1, <3>2 DEF Running, IsClosed
  <2> QED
    BY <2>1, <2>2
<1>5. OwedIsClosed'
  <2> SUFFICES ASSUME NEW r \in Procs, NEW u \in Threads
               PROVE  /\ r \in owed'[u] => IsClosed(r)'
                      /\ giving'[u] = r => \/ IsClosed(r)'
                                           \/ u = <<"start", r>> /\ Started(r)' = "giveup"
    BY DEF OwedIsClosed
  <2>1. CASE r = p
    BY <2>1, ForgetRows
  <2>2. CASE r # p
    <3>1. /\ rec'[r] = rec[r] /\ Started(r)' = Started(r)
          /\ r \in owed'[u] <=> r \in owed[u]
          /\ giving'[u] = r <=> giving[u] = r
      BY <2>2, ForgetRows
    <3>2. /\ r \in owed[u] => IsClosed(r)
          /\ giving[u] = r => \/ IsClosed(r)
                              \/ u = <<"start", r>> /\ Started(r) = "giveup"
      BY DEF IInv, Permits, OwedIsClosed
    <3> QED
      BY <3>1, <3>2 DEF IsClosed
  <2> QED
    BY <2>1, <2>2
<1>6. InTime'
  <2> SUFFICES ASSUME NEW u \in Threads
               PROVE  /\ owed'[u] # {} => pc'[u] \in Owing
                      /\ giving'[u] # Lease => pc'[u] \in Giving
    BY DEF InTime
  <2>1. CASE u # t
    <3>1. pc'[u] = pc[u]
      BY <1>1, <1>2, <2>1, MoveRows
    <3> QED
      BY <3>1, ForgetRows DEF IInv, Permits, InTime
  <2>2. CASE u = t
    <3>1. owed[t] = {}
      BY <1>2 DEF IInv, Permits, InTime, Owing
    <3>2. giving[t] \in {Lease, p}
      <4>1. CASE pc[t] = "undo"
        BY <1>2, <4>1 DEF IInv, Permits, InTime, Giving
      <4>2. CASE pc[t] = "giveup"
        BY <4>2 DEF IInv, Permits, GiveupGives, Started
      <4> QED
        BY <1>2, <4>1, <4>2
    <3>3. giving'[t] = Lease
      BY <1>2, <3>2 DEF Forgets
    <3>4. owed'[t] = {}
      BY <1>2, <3>1, ForgetRows
    <3> QED
      BY <2>2, <3>3, <3>4
  <2> QED
    BY <2>1, <2>2
<1>7. GiveupGives'
  <2> SUFFICES ASSUME NEW r \in Procs, Started(r)' = "giveup"
               PROVE  giving'[<<"start", r>>] = r
    BY DEF GiveupGives
  <2>1. r # p
    BY ForgetRows
  <2>2. Started(r) = "giveup" /\ <<"start", r>> \in Threads
    BY <2>1, ForgetRows, ThreadFacts
  <2>3. giving[<<"start", r>>] = r
    BY <2>2 DEF IInv, Permits, GiveupGives
  <2> QED
    BY <2>1, <2>2, <2>3, ForgetRows
<1>8. Threaded'
  <2>1. \A r \in Procs : rec'[r] = "none" => rec[r] = "none" \/ t = <<"start", r>>
    BY ForgetRows
  <2>2. pc[t] # "idle"
    BY <1>2
  <2> HIDE DEF t
  <2>3. pc' = [pc EXCEPT ![t] = "idle"]
    BY DEF t
  <2> QED
    BY <1>2, <2>1, <2>2, <2>3, ThreadedMove
<1>9. ClientPlace'
  <2>1. \A u \in Threads : u # t => pc'[u] = pc[u]
    BY <1>1, <1>2, MoveRows
  <2>2. pc'[t] = "idle"
    BY <1>1, <1>2, MoveRows
  <2> QED
    BY <1>2, <2>1, <2>2, ThreadFacts DEF IInv, ClientPlace
<1> QED
  BY <1>3, <1>4, <1>5, <1>6, <1>7, <1>8, <1>9 DEF Permits

\* The parts of the world that the books' steps leave alone.
LEMMA SameWorld ==
    ASSUME World,
           UNCHANGED <<up, epoch, cont, execs, net, snap, found, last, stale, boots,
                       troubles>>
    PROVE  World'
  BY DEF World, ExecsInContainer

\* A failed start releases its permit and forgets its record.
LEMMA UndoKeeps ==
    ASSUME IInv, NEW p \in Procs, StartUndo(p) \/ StartGive(p)
    PROVE  IInv'
<1> DEFINE t == <<"start", p>>
<1>1. /\ t \in Threads /\ Moves /\ Books /\ t[1] = "start" /\ t # Client
      /\ pc[t] \in {"undo", "giveup"} /\ Started(p) = pc[t]
      /\ {"idle", "giveup"} \subseteq Places
  BY ThreadFacts DEF IInv, StartUndo, StartGive, Client, Started, Places
<1>2. /\ UNCHANGED <<up, epoch, cont, execs, net, snap, found, last, stale, boots,
                     troubles, lock>>
      /\ \E x \in {"idle", "giveup"} : pc' = [pc EXCEPT ![t] = x]
  BY DEF StartUndo, StartGive, Goto, docker, counters
<1>3. World'
  BY <1>2, SameWorld DEF IInv
<1>4. Moves'
  <2>1. PICK x \in {"idle", "giveup"} : pc' = [pc EXCEPT ![t] = x]
    BY <1>2
  <2>2. x \notin Locked /\ pc[t] \notin Locked /\ x \in Places
    BY <1>1 DEF Locked
  <2> HIDE DEF t
  <2> QED
    BY <1>1, <1>2, <2>1, <2>2, LockMove
<1>5. CASE StartGive(p) /\ ~(inUse > 0)
  <2>1. /\ pc' = [pc EXCEPT ![t] = "idle"] /\ Underflows(t) /\ rec' = rec
        /\ pc[t] \in Giving /\ "idle" \notin Owing \cup Giving /\ "idle" \in Places
    BY <1>1, <1>5 DEF StartGive, Goto, Giving, Owing
  <2> HIDE DEF t
  <2>2. Books' /\ Permits' /\ ClientPlace'
    BY <1>1, <1>5, <2>1, RaiseMove
  <2> QED
    BY <1>3, <1>4, <2>2 DEF IInv
<1>6. CASE StartGive(p) /\ inUse > 0
  <2>1. /\ pc' = [pc EXCEPT ![<<"start", p>>] = "idle"] /\ Forgets(p) /\ Returned(p)
    BY <1>6 DEF StartGive, Goto
  <2>2. p \in permit => Kept(p)
    BY <1>1 DEF Kept
  <2>3. \A r \in permit \ {p} : Kept(r)' <=> Kept(r)
    BY <1>1, <2>1, ForgetRows DEF Books
  <2>4. Counted' /\ permit' \in SUBSET Procs /\ inUse' \in Nat /\ raced' \in BOOLEAN
    BY <1>6, <2>1, <2>2, <2>3, CountLess
  <2>5. permit' = permit \ {p} /\ (raced => raced')
    BY <2>1 DEF Returned
  <2>6. Books' /\ Permits' /\ ClientPlace'
    BY <1>1, <2>1, <2>4, <2>5, ForgetMove
  <2> QED
    BY <1>3, <1>4, <2>6 DEF IInv
<1>7. CASE StartUndo(p) /\ p \notin permit
  <2>1. /\ pc' = [pc EXCEPT ![<<"start", p>>] = "idle"] /\ Forgets(p)
        /\ permit' = permit /\ inUse' = inUse /\ raced' = raced
    BY <1>7 DEF StartUndo, Goto
  <2>2. \A r \in permit : Kept(r)' <=> Kept(r)
    BY <1>1, <1>7, <2>1, ForgetRows DEF Books
  <2>3. Counted'
    BY <2>1, <2>2, CountSame
  <2>4. permit' = permit \ {p} /\ inUse' \in Nat /\ raced' \in BOOLEAN
    BY <1>1, <1>7, <2>1 DEF Books
  <2>5. Books' /\ Permits' /\ ClientPlace'
    BY <1>1, <2>1, <2>3, <2>4, ForgetMove
  <2> QED
    BY <1>3, <1>4, <2>5 DEF IInv
<1>8. CASE StartUndo(p) /\ p \in permit
  <2>1. /\ pc' = [pc EXCEPT ![t] = "giveup"] /\ pc[t] = "undo"
        /\ giving' = [giving EXCEPT ![t] = p]
        /\ rec' = rec /\ owed' = owed /\ permit' = permit /\ inUse' = inUse
        /\ raced' = raced
    BY <1>8 DEF StartUndo, Goto, Forgets
  <2>2. /\ giving[t] = Lease /\ giving'[t] = p /\ owed[t] = {}
        /\ \A u \in Threads \ {t} : giving'[u] = giving[u]
    <3> HIDE DEF t
    <3> QED
      BY <1>1, <2>1 DEF IInv, Permits, InTime, Books, Giving, Owing
  <2>3. Books'
    BY <1>1, <2>1 DEF Books
  <2>4. /\ pc'[t] = "giveup" /\ Started(p)' = "giveup"
        /\ \A u \in Threads : u # t => pc'[u] = pc[u]
        /\ \A r \in Procs : r # p => Started(r)' = Started(r)
    <3>1. \A r \in Procs : r # p => t # <<"start", r>>
      OBVIOUS
    <3> QED
      BY <1>1, <2>1, <3>1, MoveRows
  <2>5. ASSUME NEW r \in Procs
        PROVE  /\ Running(r)' <=> Running(r)
               /\ IsClosed(r)' <=> IsClosed(r)
               /\ r # p => (Carried(r)' <=> Carried(r))
               /\ Carried(r) => Carried(r)'
               /\ Kept(r)' <=> Kept(r)
    <3>1. (Running(r)' <=> Running(r)) /\ (IsClosed(r)' <=> IsClosed(r))
      BY <2>1 DEF Running, IsClosed
    <3>2. CASE r # p
      <4>1. ASSUME NEW u \in Threads
            PROVE  giving'[u] = r <=> giving[u] = r
        <5>1. CASE u = t
          BY <2>2, <3>2, <5>1, SandboxBounds
        <5>2. CASE u # t
          BY <2>2, <5>2
        <5> QED
          BY <5>1, <5>2
      <4>2. Carried(r)' <=> Carried(r)
        BY <2>1, <3>1, <4>1 DEF Carried
      <4> QED
        BY <2>4, <3>1, <3>2, <4>2 DEF Kept
    <3>3. CASE r = p
      <4>1. Carried(r)'
        BY <1>1, <2>2, <3>3 DEF Carried
      <4> QED
        BY <1>1, <2>1, <3>1, <3>3, <4>1 DEF Kept
    <3> QED
      BY <3>2, <3>3
  <2>6. Counted'
    BY <1>1, <2>1, <2>5, CountSame DEF Books
  <2>7. RunningHas' /\ BeginIsNew' /\ ExecIsListed'
    <3>1. RunningHas'
      BY <2>1, <2>5 DEF IInv, Permits, RunningHas
    <3>2. BeginIsNew'
      BY <2>1, <2>4 DEF IInv, Permits, BeginIsNew
    <3>3. ExecIsListed'
      BY <2>1, <2>4, <2>5 DEF IInv, Permits, ExecIsListed
    <3> QED
      BY <3>1, <3>2, <3>3
  <2>8. OwedIsClosed'
    <3> SUFFICES ASSUME NEW r \in Procs, NEW u \in Threads
                 PROVE  /\ r \in owed'[u] => IsClosed(r)'
                        /\ giving'[u] = r => \/ IsClosed(r)'
                                             \/ u = <<"start", r>> /\ Started(r)' = "giveup"
      BY DEF OwedIsClosed
    <3>1. /\ r \in owed[u] => IsClosed(r)
          /\ giving[u] = r => \/ IsClosed(r)
                              \/ u = <<"start", r>> /\ Started(r) = "giveup"
      BY DEF IInv, Permits, OwedIsClosed
    <3>2. r \in owed'[u] => IsClosed(r)'
      BY <2>1, <2>5, <3>1
    <3>3. CASE u = t
      BY <2>2, <2>4, <3>2, <3>3
    <3>4. CASE u # t
      BY <2>2, <2>4, <2>5, <3>1, <3>2, <3>4
    <3> QED
      BY <3>3, <3>4
  <2>9. InTime'
    <3> SUFFICES ASSUME NEW u \in Threads
                 PROVE  /\ owed'[u] # {} => pc'[u] \in Owing
                        /\ giving'[u] # Lease => pc'[u] \in Giving
      BY DEF InTime
    <3>1. CASE u = t
      BY <2>1, <2>2, <2>4, <3>1 DEF Giving
    <3>2. CASE u # t
      BY <2>1, <2>2, <2>4, <3>2 DEF IInv, Permits, InTime
    <3> QED
      BY <3>1, <3>2
  <2>10. GiveupGives'
    <3> SUFFICES ASSUME NEW r \in Procs, Started(r)' = "giveup"
                 PROVE  giving'[<<"start", r>>] = r
      BY DEF GiveupGives
    <3>1. CASE r = p
      BY <2>2, <3>1
    <3>2. CASE r # p
      <4>1. Started(r) = "giveup" /\ <<"start", r>> \in Threads \ {t}
        BY <2>4, <3>2, ThreadFacts
      <4> QED
        BY <2>2, <4>1 DEF IInv, Permits, GiveupGives
    <3> QED
      BY <3>1, <3>2
  <2>11. Threaded'
    <3>1. "giveup" \in Places /\ pc[t] # "idle"
      BY <1>1
    <3> HIDE DEF t
    <3> QED
      BY <1>1, <2>1, <3>1, ThreadedMove
  <2>12. ClientPlace'
    BY <1>1, <2>4, ThreadFacts DEF IInv, ClientPlace
  <2> QED
    BY <1>3, <1>4, <2>3, <2>6, <2>7, <2>8, <2>9, <2>10, <2>11, <2>12 DEF IInv, Permits
<1> QED
  BY <1>5, <1>6, <1>7, <1>8

\* Only the start of p moves.
LEMMA StartRows ==
    ASSUME IInv, NEW p \in Procs, NEW x \in Places,
           pc' = [pc EXCEPT ![<<"start", p>>] = x]
    PROVE  /\ Started(p)' = x
           /\ pc'[<<"start", p>>] = x
           /\ \A u \in Threads : u # <<"start", p>> => pc'[u] = pc[u]
           /\ \A r \in Procs : r # p => Started(r)' = Started(r)
           /\ x \notin {"yield", "yielding"} => ClientPlace'
<1>1. \A r \in Procs : r # p => <<"start", p>> # <<"start", r>>
  OBVIOUS
<1>2. <<"start", p>> \in Threads /\ <<"start", p>> # Client
  BY ThreadFacts DEF Client
<1>3. /\ Started(p)' = x
      /\ pc'[<<"start", p>>] = x
      /\ \A u \in Threads : u # <<"start", p>> => pc'[u] = pc[u]
      /\ \A r \in Procs : r # p => Started(r)' = Started(r)
  BY <1>1, <1>2, MoveRows DEF IInv
<1>4. x \notin {"yield", "yielding"} => ClientPlace'
  BY <1>2, <1>3, ThreadFacts DEF IInv, ClientPlace
<1> QED
  BY <1>3, <1>4

\* A start takes a permit.
LEMMA BeginKeeps ==
    ASSUME IInv, NEW p \in Procs, StartBegin(p)
    PROVE  IInv'
<1> DEFINE t == <<"start", p>>
<1>1. /\ t \in Threads /\ Moves /\ Books /\ pc[t] = "idle" /\ rec[p] = "none"
      /\ pc' = [pc EXCEPT ![t] = "begin"] /\ Started(p) = "idle"
      /\ permit' = permit \cup {p} /\ inUse' = inUse + 1
      /\ rec' = rec /\ owed' = owed /\ giving' = giving /\ raced' = raced /\ lock' = lock
      /\ UNCHANGED <<up, epoch, cont, execs, net, snap, found, last, stale, boots, troubles>>
      /\ "begin" \in Places
  BY ThreadFacts DEF IInv, StartBegin, Started, Goto, docker, counters, Places
<1>2. World'
  BY <1>1, SameWorld DEF IInv
<1>3. Moves'
  <2>1. pc[t] \notin Locked /\ "begin" \notin Locked
    BY <1>1 DEF Locked
  <2> HIDE DEF t
  <2> QED
    BY <1>1, <2>1, LockMove
<1>4. Books'
  BY <1>1 DEF Books
<1>5. /\ Started(p)' = "begin" /\ ClientPlace'
      /\ \A r \in Procs : r # p => Started(r)' = Started(r)
      /\ \A u \in Threads : u # t => pc'[u] = pc[u]
      /\ pc'[t] = "begin"
  BY <1>1, StartRows
<1>6. \A r \in Procs : /\ Carried(r)' <=> Carried(r)
                       /\ Running(r)' <=> Running(r)
                       /\ IsClosed(r)' <=> IsClosed(r)
  BY <1>1 DEF Carried, Running, IsClosed
<1>7. ~Carried(p)
  BY <1>1 DEF Carried, Running, IInv, Permits, OwedIsClosed, IsClosed
<1>8. Counted'
  <2>1. Kept(p)' /\ ~Kept(p)
    BY <1>1, <1>5, <1>7 DEF Kept
  <2>2. \A r \in Procs : r # p => (Kept(r)' <=> Kept(r))
    BY <1>5, <1>6 DEF Kept
  <2>3. Held' = Held \cup {p} /\ p \notin Held
    BY <1>1, <2>1, <2>2 DEF Held, Books
  <2>4. /\ IsFiniteSet(permit) /\ IsFiniteSet(Held) /\ Cardinality(Held) \in Nat
    BY HeldFinite
  <2>5. Cardinality(Held') = Cardinality(Held) + 1
    BY <2>3, <2>4, FS_AddElement
  <2>6. IsFiniteSet(permit')
    BY <1>1, <2>4, FS_AddElement
  <2> QED
    BY <1>1, <2>4, <2>5, <2>6 DEF Counted, IInv, Permits, Books
<1>9. RunningHas' /\ BeginIsNew'
  BY <1>1, <1>5, <1>6 DEF IInv, Permits, RunningHas, BeginIsNew
<1>10. ExecIsListed'
  BY <1>1, <1>5, <1>6 DEF IInv, Permits, ExecIsListed
<1>11. OwedIsClosed'
  <2> SUFFICES ASSUME NEW r \in Procs, NEW u \in Threads
               PROVE  /\ r \in owed'[u] => IsClosed(r)'
                      /\ giving'[u] = r => \/ IsClosed(r)'
                                           \/ u = <<"start", r>> /\ Started(r)' = "giveup"
    BY DEF OwedIsClosed
  <2>1. /\ r \in owed[u] => IsClosed(r)
        /\ giving[u] = r => \/ IsClosed(r)
                            \/ u = <<"start", r>> /\ Started(r) = "giveup"
    BY DEF IInv, Permits, OwedIsClosed
  <2> QED
    BY <1>1, <1>5, <1>6, <2>1
<1>12. InTime'
  BY <1>1, <1>5 DEF IInv, Permits, InTime, Owing, Giving
<1>13. GiveupGives'
  BY <1>1, <1>5 DEF IInv, Permits, GiveupGives
<1>14. Threaded'
  <2> SUFFICES ASSUME NEW r \in Procs,
                      pc'[<<"read", r>>] # "idle" \/ pc'[<<"watch", r>>] # "idle"
               PROVE  Started(r)' = "idle" /\ rec'[r] # "none"
    BY DEF Threaded
  <2>1. pc'[<<"read", r>>] = pc[<<"read", r>>] /\ pc'[<<"watch", r>>] = pc[<<"watch", r>>]
    <3>1. t # <<"read", r>> /\ t # <<"watch", r>>
      OBVIOUS
    <3> QED
      BY <1>5, <3>1, ThreadFacts
  <2>2. Started(r) = "idle" /\ rec[r] # "none"
    BY <2>1 DEF IInv, Permits, Threaded
  <2> QED
    BY <1>1, <1>5, <2>2
<1> QED
  BY <1>2, <1>3, <1>4, <1>5, <1>8, <1>9, <1>10, <1>11, <1>12, <1>13, <1>14
  DEF IInv, Permits

\* The exec is started and recorded, refused, or nobody knows.
LEMMA ExecKeeps ==
    ASSUME IInv, NEW p \in Procs, StartExec(p)
    PROVE  IInv'
<1> DEFINE t == <<"start", p>>
<1>1. /\ t \in Threads /\ Moves /\ Books /\ pc[t] = "begin" /\ Started(p) = "begin"
      /\ lock = Free /\ t[1] = "start" /\ t # Client
      /\ UNCHANGED <<up, epoch, cont, net, snap, last, stale, boots>>
      /\ UNCHANGED permits
      /\ {"exec", "undo", "want"} \subseteq Places
  BY ThreadFacts DEF IInv, StartExec, Started, Client, Places
<1>2. rec[p] = "none" /\ p \in permit
  BY <1>1 DEF IInv, Permits, BeginIsNew
<1>3. World'
  <2>1. troubles' \in 0..MaxTrouble
    <3>1. troubles' = troubles \/ (troubles < MaxTrouble /\ troubles' = troubles + 1)
      BY DEF StartExec, Trouble
    <3> QED
      BY <3>1, SandboxBounds DEF IInv, World
  <2>2. execs' \in SUBSET Procs /\ ExecsInContainer'
    <3>1. \/ execs' = execs
          \/ execs' = execs \cup {p} /\ cont.st = "running"
      BY DEF StartExec, MayStart
    <3> QED
      BY <1>1, <3>1 DEF IInv, World, ExecsInContainer
  <2>3. found' \in [Procs -> SUBSET Procs]
    <3>1. snap.active \in SUBSET Procs
      BY DEF IInv, World, Snapshot
    <3>2. found' = found \/ found' = [found EXCEPT ![p] = snap.active]
      BY DEF StartExec
    <3> QED
      BY <3>1, <3>2 DEF IInv, World
  <2> QED
    BY <1>1, <2>1, <2>2, <2>3 DEF IInv, World
<1>4. \/ /\ pc' = [pc EXCEPT ![t] = "exec"] /\ lock' = t
         /\ rec' = [rec EXCEPT ![p] = "running"]
      \/ /\ \E x \in {"undo", "want"} : pc' = [pc EXCEPT ![t] = x]
         /\ lock' = lock /\ rec' = rec
  BY DEF StartExec, Goto
<1>5. CASE \E x \in {"undo", "want"} : pc' = [pc EXCEPT ![t] = x] /\ lock' = lock /\ rec' = rec
  <2>1. PICK x \in {"undo", "want"} : pc' = [pc EXCEPT ![t] = x] /\ lock' = lock /\ rec' = rec
    BY <1>5
  <2>2. /\ x \in Places /\ pc[t] \notin Locked /\ x \notin Locked
        /\ pc[t] \notin Owing \cup Giving /\ x \notin Owing \cup Giving
    BY <1>1 DEF Locked, Owing, Giving
  <2>3. pc[t] \notin {"idle", "exec"} /\ x \notin {"idle", "begin", "exec"}
    BY <1>1
  <2> HIDE DEF t
  <2>4. Books' /\ Permits' /\ ClientPlace'
    BY <1>1, <2>1, <2>2, <2>3, QuietMove
  <2>5. Moves'
    BY <1>1, <2>1, <2>2, LockMove
  <2> QED
    BY <1>3, <2>4, <2>5 DEF IInv
<1>6. CASE /\ pc' = [pc EXCEPT ![t] = "exec"] /\ lock' = t
           /\ rec' = [rec EXCEPT ![p] = "running"]
  <2>1. Moves'
    <3>1. "exec" \in Locked /\ "exec" \in Places
      BY DEF Locked, Places
    <3> HIDE DEF t
    <3> QED
      BY <1>1, <1>6, <3>1, LockMove
  <2>2. /\ permit' = permit /\ inUse' = inUse /\ owed' = owed /\ giving' = giving
        /\ raced' = raced
    BY <1>1 DEF permits
  <2>3. Books' /\ rec'[p] = "running" /\ \A r \in Procs : r # p => rec'[r] = rec[r]
    BY <1>1, <1>6, <2>2 DEF Books, RecState
  <2>4. /\ Started(p)' = "exec" /\ ClientPlace'
        /\ \A r \in Procs : r # p => Started(r)' = Started(r)
        /\ \A u \in Threads : u # t => pc'[u] = pc[u]
        /\ pc'[t] = "exec"
    BY <1>1, <1>6, StartRows
  <2>5. \A u \in Threads : p \notin owed[u] /\ giving[u] # p
    BY <1>1, <1>2 DEF IInv, Permits, OwedIsClosed, IsClosed
  <2>6. /\ Carried(p)'
        /\ \A r \in Procs : r # p => /\ Carried(r)' <=> Carried(r)
                                     /\ Running(r)' <=> Running(r)
                                     /\ IsClosed(r)' <=> IsClosed(r)
    BY <2>2, <2>3 DEF Carried, Running, IsClosed
  <2>7. Counted'
    <3>1. \A r \in Procs : Kept(r)' <=> Kept(r)
      BY <1>1, <2>4, <2>6 DEF Kept
    <3> QED
      BY <1>1, <2>2, <3>1, CountSame DEF Books
  <2>8. RunningHas' /\ BeginIsNew' /\ ExecIsListed'
    <3>1. RunningHas'
      BY <1>2, <2>2, <2>6 DEF IInv, Permits, RunningHas
    <3>2. BeginIsNew'
      BY <2>2, <2>3, <2>4 DEF IInv, Permits, BeginIsNew
    <3>3. ExecIsListed'
      <4>1. Running(p)'
        BY <2>3 DEF Running
      <4> QED
        BY <2>2, <2>4, <2>6, <4>1 DEF IInv, Permits, ExecIsListed
    <3> QED
      BY <3>1, <3>2, <3>3
  <2>9. OwedIsClosed'
    <3> SUFFICES ASSUME NEW r \in Procs, NEW u \in Threads
                 PROVE  /\ r \in owed'[u] => IsClosed(r)'
                        /\ giving'[u] = r => \/ IsClosed(r)'
                                             \/ u = <<"start", r>> /\ Started(r)' = "giveup"
      BY DEF OwedIsClosed
    <3>1. /\ r \in owed[u] => IsClosed(r)
          /\ giving[u] = r => \/ IsClosed(r)
                              \/ u = <<"start", r>> /\ Started(r) = "giveup"
      BY DEF IInv, Permits, OwedIsClosed
    <3>2. CASE r = p
      BY <2>2, <2>5, <3>2
    <3>3. CASE r # p
      BY <2>2, <2>4, <2>6, <3>1, <3>3
    <3> QED
      BY <3>2, <3>3
  <2>10. InTime'
    <3> SUFFICES ASSUME NEW u \in Threads
                 PROVE  /\ owed'[u] # {} => pc'[u] \in Owing
                        /\ giving'[u] # Lease => pc'[u] \in Giving
      BY DEF InTime
    <3>1. /\ owed[u] # {} => pc[u] \in Owing
          /\ giving[u] # Lease => pc[u] \in Giving
      BY DEF IInv, Permits, InTime
    <3>2. "begin" \notin Owing \cup Giving
      BY DEF Owing, Giving
    <3> HIDE DEF t
    <3>3. CASE u = t
      BY <1>1, <2>2, <3>1, <3>2, <3>3
    <3>4. CASE u # t
      BY <2>2, <2>4, <3>1, <3>4
    <3> QED
      BY <3>3, <3>4
  <2>11. GiveupGives'
    BY <2>2, <2>4 DEF IInv, Permits, GiveupGives
  <2>12. Threaded'
    <3>1. \A r \in Procs : rec'[r] = "none" => rec[r] = "none"
      BY <2>3
    <3>2. "exec" \in Places /\ pc[t] # "idle"
      BY <1>1
    <3> HIDE DEF t
    <3> QED
      BY <1>1, <1>6, <3>1, <3>2, ThreadedMove
  <2> QED
    BY <1>3, <2>1, <2>3, <2>4, <2>7, <2>8, <2>9, <2>10, <2>11, <2>12 DEF IInv, Permits
<1> QED
  BY <1>4, <1>5, <1>6

\* Containers and snapshots as the actions write them.
LEMMA DockerRows ==
    ASSUME World
    PROVE  /\ NoCont \in Container /\ NoCont.st = "none"
           /\ [cont EXCEPT !.st = "stopped"] \in Container
           /\ [cont EXCEPT !.st = "stopped"].st = "stopped"
           /\ [cont EXCEPT !.old = TRUE] \in Container
           /\ [cont EXCEPT !.old = TRUE].st = cont.st
           /\ \A s \in {"stopped", "running"} :
                [st |-> s, ep |-> epoch, old |-> FALSE] \in Container
           /\ NoSnap \in Snapshot
           /\ cont.old \in BOOLEAN
           /\ FromLabels(cont.old) \in Snapshot
           /\ \A a \in SUBSET Procs : Touched(a) \in Snapshot
           /\ \A o \in BOOLEAN :
                [ep |-> epoch, active |-> {}, idle |-> FALSE, old |-> o] \in Snapshot
           /\ [snap EXCEPT !.idle = TRUE] \in Snapshot
           /\ [snap EXCEPT !.old = TRUE, !.idle = FALSE] \in Snapshot
<1>1. 0 \in 0..MaxEpoch /\ epoch \in 0..MaxEpoch
  BY SandboxBounds DEF World
<1>2. cont \in Container /\ snap \in Snapshot
  BY DEF World
<1> QED
  BY <1>1, <1>2 DEF Container, Snapshot, NoCont, NoSnap, FromLabels, Touched

\* The process is listed and its threads started, or the Lease is too old.
LEMMA TouchKeeps ==
    ASSUME IInv, NEW p \in Procs, StartTouch(p)
    PROVE  IInv'
<1> DEFINE t == <<"start", p>>
           rd == <<"read", p>>
           wt == <<"watch", p>>
<1>1. /\ t \in Threads /\ rd \in Threads /\ wt \in Threads
      /\ t # rd /\ t # wt /\ rd # wt /\ Client \notin {t, rd, wt}
      /\ Moves /\ Books /\ pc[t] = "exec" /\ Started(p) = "exec" /\ lock' = Free
      /\ UNCHANGED <<up, epoch, cont, execs, net, last, stale, boots, troubles, rec>>
      /\ UNCHANGED permits
  BY ThreadFacts DEF IInv, StartTouch, Started, docker, counters, Client
<1>2. World'
  <2>1. found' \in [Procs -> SUBSET Procs] /\ snap' \in Snapshot
    <3>1. found[p] \cup {p} \in SUBSET Procs
      BY DEF IInv, World
    <3>2. /\ snap' = snap \/ snap' = Touched(found[p] \cup {p})
          /\ found' = [found EXCEPT ![p] = {}]
      BY DEF StartTouch
    <3> QED
      BY <3>1, <3>2, DockerRows DEF IInv, World
  <2> QED
    BY <1>1, <2>1 DEF IInv, World, ExecsInContainer
<1>3. /\ permit' = permit /\ inUse' = inUse /\ owed' = owed /\ giving' = giving
      /\ raced' = raced
  BY <1>1 DEF permits
<1>4. Books'
  BY <1>1, <1>3 DEF Books
<1>5. \A r \in Procs : /\ Carried(r)' <=> Carried(r)
                       /\ Running(r)' <=> Running(r)
                       /\ IsClosed(r)' <=> IsClosed(r)
  BY <1>1, <1>3 DEF Carried, Running, IsClosed
<1>6. /\ "want" \in Places /\ "want" \notin Locked /\ pc[t] \in Locked
      /\ {"idle", "reading", "armed"} \subseteq Places
      /\ {"idle", "reading", "armed"} \cap Locked = {}
      /\ "exec" \notin Owing \cup Giving /\ "idle" \notin Owing \cup Giving
      /\ {"idle", "reading", "armed", "want"} \cap (Owing \cup Giving) = {}
  BY <1>1 DEF Places, Locked, Owing, Giving
<1>7. pc[rd] = "idle" /\ pc[wt] = "idle"
  BY <1>1 DEF IInv, Permits, Threaded
<1>8. owed[t] = {} /\ giving[t] = Lease /\ owed[rd] = {} /\ giving[rd] = Lease
      /\ owed[wt] = {} /\ giving[wt] = Lease
  <2> HIDE DEF t, rd, wt
  <2> QED
    BY <1>1, <1>6, <1>7 DEF IInv, Permits, InTime
<1>9. CASE pc' = [pc EXCEPT ![t] = "want"]
  <2>1. Moves'
    <3> HIDE DEF t
    <3> QED
      BY <1>1, <1>6, <1>9, LockMove
  <2>2. /\ Started(p)' = "want" /\ pc'[t] = "want"
        /\ \A u \in Threads : u # t => pc'[u] = pc[u]
        /\ \A r \in Procs : r # p => Started(r)' = Started(r)
        /\ ClientPlace'
    BY <1>6, <1>9, StartRows
  <2>3. Counted'
    <3>1. \A r \in Procs : r # p => (Kept(r)' <=> Kept(r))
      BY <1>5, <2>2 DEF Kept
    <3>2. CASE p \in permit /\ ~Carried(p)
      <4>1. raced
        BY <1>1, <3>2 DEF IInv, Permits, ExecIsListed
      <4>2. Held' = Held \cup {p} /\ p \notin Held
        BY <1>1, <1>3, <2>2, <3>1, <3>2 DEF Held, Kept, Books
      <4>3. /\ IsFiniteSet(permit) /\ IsFiniteSet(Held) /\ Cardinality(Held) \in Nat
        BY HeldFinite
      <4>4. Cardinality(Held') = Cardinality(Held) + 1
        BY <4>2, <4>3, FS_AddElement
      <4> QED
        BY <1>1, <1>3, <4>1, <4>3, <4>4 DEF IInv, Permits, Counted, Books
    <3>3. CASE p \in permit => Carried(p)
      <4>1. \A r \in permit : Kept(r)' <=> Kept(r)
        <5>1. p \in permit => (Kept(p)' <=> Kept(p))
          BY <1>5, <3>3 DEF Kept
        <5> QED
          BY <1>1, <3>1, <5>1 DEF Books
      <4> QED
        BY <1>3, <4>1, CountSame
    <3> QED
      BY <3>2, <3>3
  <2>4. RunningHas' /\ BeginIsNew' /\ ExecIsListed'
    <3>1. RunningHas'
      BY <1>3, <1>5 DEF IInv, Permits, RunningHas
    <3>2. BeginIsNew'
      BY <1>1, <1>3, <2>2 DEF IInv, Permits, BeginIsNew
    <3>3. ExecIsListed'
      BY <1>3, <1>5, <2>2 DEF IInv, Permits, ExecIsListed
    <3> QED
      BY <3>1, <3>2, <3>3
  <2>5. OwedIsClosed'
    <3> SUFFICES ASSUME NEW r \in Procs, NEW u \in Threads
                 PROVE  /\ r \in owed'[u] => IsClosed(r)'
                        /\ giving'[u] = r => \/ IsClosed(r)'
                                             \/ u = <<"start", r>> /\ Started(r)' = "giveup"
      BY DEF OwedIsClosed
    <3>1. /\ r \in owed[u] => IsClosed(r)
          /\ giving[u] = r => \/ IsClosed(r)
                              \/ u = <<"start", r>> /\ Started(r) = "giveup"
      BY DEF IInv, Permits, OwedIsClosed
    <3> QED
      BY <1>1, <1>3, <1>5, <2>2, <3>1
  <2>6. InTime'
    <3> SUFFICES ASSUME NEW u \in Threads
                 PROVE  /\ owed'[u] # {} => pc'[u] \in Owing
                        /\ giving'[u] # Lease => pc'[u] \in Giving
      BY DEF InTime
    <3>1. CASE u = t
      BY <1>3, <1>8, <3>1
    <3>2. CASE u # t
      BY <1>3, <2>2, <3>2 DEF IInv, Permits, InTime
    <3> QED
      BY <3>1, <3>2
  <2>7. GiveupGives'
    BY <1>3, <2>2 DEF IInv, Permits, GiveupGives
  <2>8. Threaded'
    <3>1. \A r \in Procs : rec'[r] = "none" => rec[r] = "none"
      BY <1>1
    <3>2. pc[t] # "idle"
      BY <1>1
    <3> HIDE DEF t
    <3> QED
      BY <1>1, <1>6, <1>9, <3>1, <3>2, ThreadedMove
  <2> QED
    BY <1>2, <1>4, <2>1, <2>2, <2>3, <2>4, <2>5, <2>6, <2>7, <2>8 DEF IInv, Permits
<1>10. CASE pc' = [pc EXCEPT ![t] = "idle", ![rd] = "reading", ![wt] = "armed"]
  <2>1. /\ pc' \in [Threads -> Places]
        /\ pc'[t] = "idle" /\ pc'[rd] = "reading" /\ pc'[wt] = "armed"
        /\ \A u \in Threads \ {t, rd, wt} : pc'[u] = pc[u]
    <3> HIDE DEF t, rd, wt
    <3> QED
      BY <1>1, <1>6, <1>10 DEF Moves
  <2>2. Moves'
    <3> HIDE DEF t, rd, wt
    <3> QED
      BY <1>1, <1>6, <1>7, <2>1, ThreadFacts DEF Moves, LockMatches
  <2>3. /\ Started(p)' = "idle"
        /\ \A r \in Procs \ {p} : Started(r)' = Started(r)
    BY <2>1, ThreadFacts DEF Started
  <2>4. ClientPlace'
    BY <1>1, <2>1, ThreadFacts DEF IInv, ClientPlace
  <2>5. Counted'
    <3>1. \A r \in permit : Kept(r)' <=> Kept(r)
      BY <1>1, <1>5, <2>3 DEF Kept, Books
    <3> QED
      BY <1>3, <3>1, CountSame
  <2>6. RunningHas' /\ BeginIsNew' /\ ExecIsListed'
    <3>1. RunningHas'
      BY <1>3, <1>5 DEF IInv, Permits, RunningHas
    <3>2. BeginIsNew'
      BY <1>1, <1>3, <2>3 DEF IInv, Permits, BeginIsNew
    <3>3. ExecIsListed'
      BY <1>3, <1>5, <2>3 DEF IInv, Permits, ExecIsListed
    <3> QED
      BY <3>1, <3>2, <3>3
  <2>7. OwedIsClosed'
    <3> SUFFICES ASSUME NEW r \in Procs, NEW u \in Threads
                 PROVE  /\ r \in owed'[u] => IsClosed(r)'
                        /\ giving'[u] = r => \/ IsClosed(r)'
                                             \/ u = <<"start", r>> /\ Started(r)' = "giveup"
      BY DEF OwedIsClosed
    <3>1. /\ r \in owed[u] => IsClosed(r)
          /\ giving[u] = r => \/ IsClosed(r)
                              \/ u = <<"start", r>> /\ Started(r) = "giveup"
      BY DEF IInv, Permits, OwedIsClosed
    <3> QED
      BY <1>1, <1>3, <1>5, <2>3, <3>1
  <2>8. InTime'
    <3> SUFFICES ASSUME NEW u \in Threads
                 PROVE  /\ owed'[u] # {} => pc'[u] \in Owing
                        /\ giving'[u] # Lease => pc'[u] \in Giving
      BY DEF InTime
    <3> HIDE DEF t, rd, wt
    <3>1. CASE u \in {t, rd, wt}
      BY <1>3, <1>8, <3>1
    <3>2. CASE u \notin {t, rd, wt}
      BY <1>3, <2>1, <3>2 DEF IInv, Permits, InTime
    <3> QED
      BY <3>1, <3>2
  <2>9. GiveupGives'
    BY <1>3, <2>3 DEF IInv, Permits, GiveupGives
  <2>10. Threaded'
    <3> SUFFICES ASSUME NEW r \in Procs,
                        pc'[<<"read", r>>] # "idle" \/ pc'[<<"watch", r>>] # "idle"
                 PROVE  Started(r)' = "idle" /\ rec'[r] # "none"
      BY DEF Threaded
    <3>1. CASE r = p
      <4>1. rec[p] # "none"
        BY <1>1 DEF IInv, Permits, ExecIsListed, Running, IsClosed
      <4> QED
        BY <1>1, <2>3, <3>1, <4>1
    <3>2. CASE r # p
      <4>1. <<"read", r>> \in Threads \ {t, rd, wt} /\ <<"watch", r>> \in Threads \ {t, rd, wt}
        BY <3>2, ThreadFacts
      <4>2. Started(r) = "idle" /\ rec[r] # "none"
        BY <2>1, <4>1 DEF IInv, Permits, Threaded
      <4> QED
        BY <1>1, <2>3, <3>2, <4>2
    <3> QED
      BY <3>1, <3>2
  <2> QED
    BY <1>2, <1>4, <2>2, <2>4, <2>5, <2>6, <2>7, <2>8, <2>9, <2>10 DEF IInv, Permits
<1> QED
  BY <1>9, <1>10 DEF StartTouch, Goto

\* A reader records the exit of its process and has its permit to release, or
\* finds the record closed.
LEMMA RecordKeeps ==
    ASSUME IInv, NEW p \in Procs, ReadRecord(p)
    PROVE  IInv'
<1> DEFINE t == <<"read", p>>
<1>1. /\ t \in Threads /\ Moves /\ Books /\ t[1] = "read" /\ t # Client
      /\ pc[t] = "record" /\ {"idle", "release"} \subseteq Places
      /\ pc[t] \notin Locked \cup Owing \cup Giving
      /\ "idle" \notin Locked \cup Owing \cup Giving /\ "release" \notin Locked \cup Giving
      /\ "release" \in Owing
  BY ThreadFacts DEF IInv, ReadRecord, Client, Places, Locked, Owing, Giving
<1>2. /\ UNCHANGED <<up, epoch, cont, execs, net, snap, found, last, stale, boots,
                     troubles, lock, permit, inUse, giving, raced>>
      /\ \/ pc' = [pc EXCEPT ![t] = "idle"] /\ rec' = rec /\ owed' = owed
         \/ /\ pc' = [pc EXCEPT ![t] = "release"] /\ Running(p)
            /\ rec' = [rec EXCEPT ![p] = "completed"]
            /\ owed' = [owed EXCEPT ![t] = {p}]
  BY DEF ReadRecord, MayComplete, Goto, docker, counters
<1>3. World'
  BY <1>2, SameWorld DEF IInv
<1>4. Moves'
  <2> HIDE DEF t
  <2> QED
    BY <1>1, <1>2, LockMove
<1>5. CASE pc' = [pc EXCEPT ![t] = "idle"] /\ rec' = rec /\ owed' = owed
  <2>1. UNCHANGED permits
    BY <1>2, <1>5 DEF permits
  <2> HIDE DEF t
  <2>2. Books' /\ Permits' /\ ClientPlace'
    BY <1>1, <1>5, <2>1, QuietMove
  <2> QED
    BY <1>3, <1>4, <2>2 DEF IInv
<1>6. CASE /\ pc' = [pc EXCEPT ![t] = "release"] /\ Running(p)
           /\ rec' = [rec EXCEPT ![p] = "completed"]
           /\ owed' = [owed EXCEPT ![t] = {p}]
  <2>1. /\ Books' /\ rec'[p] = "completed" /\ owed'[t] = {p}
        /\ \A r \in Procs \ {p} : rec'[r] = rec[r]
        /\ \A u \in Threads \ {t} : owed'[u] = owed[u] /\ giving'[u] = giving[u]
    BY <1>1, <1>2, <1>6 DEF Books, RecState
  <2>2. owed[t] = {} /\ giving[t] = Lease
    BY <1>1 DEF IInv, Permits, InTime
  <2>3. /\ pc'[t] = "release"
        /\ \A u \in Threads : u # t => pc'[u] = pc[u]
        /\ \A r \in Procs : Started(r)' = Started(r)
    <3>1. \A r \in Procs : t # <<"start", r>>
      OBVIOUS
    <3> HIDE DEF t
    <3> QED
      BY <1>1, <1>6, <3>1, MoveRows
  <2>4. ASSUME NEW r \in Procs
        PROVE  Carried(r)' <=> Carried(r)
    <3>1. CASE r = p
      <4>1. Carried(p)'
        BY <1>1, <2>1 DEF Carried
      <4>2. Carried(p)
        BY <1>6 DEF Carried
      <4> QED
        BY <3>1, <4>1, <4>2
    <3>2. CASE r # p
      <4>1. Running(r)' <=> Running(r)
        BY <2>1, <3>2 DEF Running
      <4>2. ASSUME NEW u \in Threads
            PROVE  r \in owed'[u] \/ giving'[u] = r <=> r \in owed[u] \/ giving[u] = r
        BY <1>2, <2>1, <2>2, <3>2
      <4> QED
        BY <4>1, <4>2 DEF Carried
    <3> QED
      BY <3>1, <3>2
  <2>5. ASSUME NEW r \in Procs
        PROVE  /\ Running(r)' => Running(r)
               /\ IsClosed(r) => IsClosed(r)'
               /\ Running(r) \/ IsClosed(r) <=> Running(r)' \/ IsClosed(r)'
               /\ r \in owed'[t] => IsClosed(r)'
               /\ rec'[r] = "none" <=> rec[r] = "none"
    <3>1. CASE r = p
      BY <1>6, <2>1, <3>1 DEF Running, IsClosed
    <3>2. CASE r # p
      BY <2>1, <3>2 DEF Running, IsClosed
    <3> QED
      BY <3>1, <3>2
  <2>6. Counted'
    <3>1. \A r \in permit : Kept(r)' <=> Kept(r)
      BY <1>1, <2>3, <2>4 DEF Kept, Books
    <3> QED
      BY <1>2, <3>1, CountSame
  <2>7. RunningHas' /\ BeginIsNew' /\ ExecIsListed'
    <3>1. RunningHas'
      BY <1>2, <2>5 DEF IInv, Permits, RunningHas
    <3>2. BeginIsNew'
      BY <1>2, <2>3, <2>5 DEF IInv, Permits, BeginIsNew
    <3>3. ExecIsListed'
      BY <1>2, <2>3, <2>4, <2>5 DEF IInv, Permits, ExecIsListed
    <3> QED
      BY <3>1, <3>2, <3>3
  <2>8. OwedIsClosed'
    <3> SUFFICES ASSUME NEW r \in Procs, NEW u \in Threads
                 PROVE  /\ r \in owed'[u] => IsClosed(r)'
                        /\ giving'[u] = r => \/ IsClosed(r)'
                                             \/ u = <<"start", r>> /\ Started(r)' = "giveup"
      BY DEF OwedIsClosed
    <3>1. /\ r \in owed[u] => IsClosed(r)
          /\ giving[u] = r => \/ IsClosed(r)
                              \/ u = <<"start", r>> /\ Started(r) = "giveup"
      BY DEF IInv, Permits, OwedIsClosed
    <3>2. r \in owed'[u] => IsClosed(r)'
      BY <2>1, <2>5, <3>1
    <3> QED
      BY <1>2, <2>3, <2>5, <3>1, <3>2
  <2>9. InTime' /\ GiveupGives' /\ ClientPlace'
    <3>1. giving'[t] = Lease /\ "release" \notin {"yield", "yielding", "giveup"}
      BY <1>2, <2>2
    <3> HIDE DEF t
    <3> QED
      BY <1>1, <1>6, <2>1, <3>1, HandRows
  <2>10. Threaded'
    <3>1. pc[t] # "idle"
      BY <1>1
    <3> HIDE DEF t
    <3> QED
      BY <1>1, <1>6, <2>5, <3>1, ThreadedMove
  <2> QED
    BY <1>3, <1>4, <2>1, <2>6, <2>7, <2>8, <2>9, <2>10 DEF IInv, Permits
<1> QED
  BY <1>2, <1>5, <1>6

-----------------------------------------------------------------------------
(* Recycling *)

\* A step of the counter of troubles.
LEMMA TroubleCounted ==
    ASSUME World, troubles' = troubles \/ Trouble
    PROVE  troubles' \in 0..MaxTrouble
  BY SandboxBounds DEF World, Trouble

\* A thread that has released what it had to goes on, without the lock.
LEMMA ReleasedFacts ==
    ASSUME IInv, NEW t \in Threads, Released(t),
           pc[t] \in {"notify", "release", "giving", "yield", "yielding"}
    PROVE  /\ Moves'
           /\ \E x \in Places :
                /\ pc' = [pc EXCEPT ![t] = x]
                /\ x \notin Owing \cup Giving
                /\ t[1] = "start" => x \notin {"idle", "begin", "exec"}
                /\ t = Client => x = "idle"
<1>1. Moves /\ ClientPlace
  BY DEF IInv
<1>2. t = Client <=> pc[t] \in {"yield", "yielding"}
  BY <1>1 DEF ClientPlace
<1>3. CASE pc[t] \in {"yield", "yielding"}
  <2>1. lock' = Free /\ pc' = [pc EXCEPT ![t] = "idle"]
    BY <1>3 DEF Released, Goto
  <2>2. pc[t] \in Locked /\ "idle" \notin Locked /\ "idle" \in Places
        /\ "idle" \notin Owing \cup Giving
    BY <1>3 DEF Locked, Places, Owing, Giving
  <2>3. t[1] # "start"
    BY <1>2, <1>3 DEF Client
  <2> QED
    BY <1>1, <2>1, <2>2, <2>3, LockMove
<1>4. CASE pc[t] \notin {"yield", "yielding"}
  <2> DEFINE x == After(t, "told")
  <2>1. lock' = lock /\ pc' = [pc EXCEPT ![t] = x]
    BY <1>4 DEF Released, Returns, Goto
  <2>2. x \in {"undo", "want", "idle", "sweep"} /\ (t[1] = "start" => x = "undo")
    BY <1>2, <1>4, AfterFacts
  <2> HIDE DEF x
  <2>3. /\ x \in Places /\ x \notin Locked /\ pc[t] \notin Locked
        /\ x \notin Owing \cup Giving
    BY <1>4, <2>2 DEF Locked, Places, Owing, Giving
  <2>4. Moves'
    BY <1>1, <2>1, <2>3, LockMove
  <2>5. t = Client => x = "idle"
    BY <1>2, <1>4
  <2> QED
    BY <2>1, <2>2, <2>3, <2>4, <2>5
<1> QED
  BY <1>3, <1>4

\* What a recycle does to Docker and the files.
LEMMA RecycleWorld ==
    ASSUME IInv, NEW t \in Threads, Recycle(t)
    PROVE  World'
<1> USE DEF Recycle, RecycleRemove, RecycleForget, RecycleNotify, Release, ReleaseGive
<1>1. World
  BY DEF IInv
<1>2. last' \in SUBSET Procs
  <2>1. last' = last \/ (t[1] = "read" /\ last' = last \cup {t[2]})
    BY DEF Returns, Released
  <2> QED
    BY <1>1, <2>1, ThreadFacts DEF World
<1>3. troubles' \in 0..MaxTrouble
  <2>1. troubles' = troubles \/ Trouble
    BY DEF counters
  <2> QED
    BY <1>1, <2>1, TroubleCounted
<1>4. net' \in NetState
  BY <1>1 DEF HalfRemoved, Broken, docker, World, NetState
<1>5. /\ cont' \in Container /\ execs' \in SUBSET Procs /\ ExecsInContainer'
      /\ snap' \in Snapshot
  <2>1. \/ cont' = NoCont /\ execs' = {}
        \/ cont' = [cont EXCEPT !.st = "stopped"] /\ execs' = {}
        \/ cont' = cont /\ execs' = execs
    BY DEF docker
  <2>2. snap' = snap \/ snap' = NoSnap
    OBVIOUS
  <2> QED
    BY <1>1, <2>1, <2>2, DockerRows DEF World, ExecsInContainer
<1>6. /\ up' = up /\ epoch' = epoch /\ found' = found /\ stale' = stale
      /\ boots' = boots
  BY DEF counters
<1> QED
  BY <1>1, <1>2, <1>3, <1>4, <1>5, <1>6 DEF World

\* A recycle removes the container, forgets the Lease, notifies, and releases
\* the permits of the processes it closed.
LEMMA RecycleKeeps ==
    ASSUME IInv, NEW t \in Threads, Recycle(t)
    PROVE  IInv'
<1>1. World' /\ Moves /\ Books /\ ClientPlace
  BY RecycleWorld DEF IInv
<1>2. /\ t[1] \in {"start", "read", "watch", "client", "admin", "reconciler"}
      /\ t = Client => t[1] = "client"
  BY ThreadFacts DEF Client
<1>3. CASE RecycleRemove(t) \/ RecycleForget(t)
  <2>1. /\ pc[t] \in {"want", "removed", "empty"} /\ t # Client
        /\ rec' = rec /\ UNCHANGED permits
    BY <1>1, <1>3 DEF RecycleRemove, RecycleForget, ClientPlace
  <2>2. PICK x : /\ pc' = [pc EXCEPT ![t] = x]
                 /\ \/ /\ pc[t] = "want"
                       /\ \/ x \in {"removed", "empty"} /\ lock = Free /\ lock' = t
                          \/ x = After(t, "raised") /\ lock' = lock
                    \/ /\ pc[t] \in {"removed", "empty"} /\ lock' = Free
                       /\ \/ x = "notify"
                          \/ x = After(t, "nothing") \/ x = After(t, "raised")
    BY <1>3 DEF RecycleRemove, RecycleForget, Returns, Goto
  <2>3. /\ x \in {"removed", "empty", "notify", "undo", "want", "idle", "sweep"}
        /\ t[1] = "start" => x \notin {"idle", "begin", "exec"}
        /\ \/ lock' = lock /\ (pc[t] \in Locked <=> x \in Locked)
           \/ lock = Free /\ lock' = t /\ x \in Locked
           \/ pc[t] \in Locked /\ lock' = Free /\ x \notin Locked
    <3>1. \A how : /\ After(t, how) \in {"undo", "want", "idle", "sweep"}
                   /\ t[1] = "start" => After(t, how) = "undo"
      BY <2>1, AfterFacts
    <3> QED
      BY <2>2, <3>1 DEF Locked
  <2>4. /\ x \in Places /\ x \notin Owing \cup Giving
        /\ pc[t] \notin Owing \cup Giving /\ pc[t] \notin {"idle", "exec"}
    BY <2>1, <2>3 DEF Places, Owing, Giving
  <2>5. Moves'
    BY <1>1, <2>2, <2>3, <2>4, LockMove
  <2>6. Books' /\ Permits' /\ ClientPlace'
    BY <2>1, <2>2, <2>3, <2>4, QuietMove
  <2> QED
    BY <1>1, <2>5, <2>6 DEF IInv
<1>4. CASE RecycleNotify(t)
  <2>1. pc[t] = "notify" /\ Notifies(t) /\ t # Client
        /\ pc[t] \notin Owing \cup Giving
    BY <1>1, <1>4 DEF RecycleNotify, ClientPlace, Owing, Giving
  <2>2. CASE Closed = {}
    <3>1. Released(t)
      BY <1>4, <2>2 DEF RecycleNotify
    <3>2. Moves'
      BY <2>1, <3>1, ReleasedFacts
    <3>3. PICK x \in Places : /\ pc' = [pc EXCEPT ![t] = x]
                              /\ x \notin Owing \cup Giving
                              /\ t[1] = "start" => x \notin {"idle", "begin", "exec"}
      BY <2>1, <3>1, ReleasedFacts
    <3>4. x \notin {"yield", "yielding"}
      BY <3>3 DEF Owing
    <3>5. Books' /\ Permits' /\ ClientPlace'
      BY <2>1, <2>2, <3>3, <3>4, NotifyMove
    <3> QED
      BY <1>1, <3>2, <3>5 DEF IInv
  <2>3. CASE Closed # {}
    <3>1. pc' = [pc EXCEPT ![t] = "release"] /\ lock' = lock
      BY <1>4, <2>3 DEF RecycleNotify, Goto
    <3>2. /\ "release" \in Places /\ "release" \notin Locked /\ pc[t] \notin Locked
          /\ "release" \in Owing /\ "release" \notin Giving
      BY <2>1 DEF Places, Locked, Owing, Giving
    <3>3. Moves'
      BY <1>1, <3>1, <3>2, LockMove
    <3>4. Books' /\ Permits' /\ ClientPlace'
      BY <2>1, <3>1, <3>2, NotifyMove
    <3> QED
      BY <1>1, <3>3, <3>4 DEF IInv
  <2> QED
    BY <2>2, <2>3
<1>5. CASE Release(t)
  <2>1. /\ pc[t] \in {"release", "yield"}
        /\ rec' = rec /\ permit' = permit /\ inUse' = inUse /\ raced' = raced
    BY <1>5 DEF Release
  <2>2. CASE owed[t] \cap permit = {}
    <3>1. Released(t) /\ owed' = [owed EXCEPT ![t] = {}] /\ giving' = giving
      BY <1>5, <2>2 DEF Release
    <3>2. Moves'
      BY <2>1, <3>1, ReleasedFacts
    <3>3. PICK x \in Places : /\ pc' = [pc EXCEPT ![t] = x]
                              /\ x \notin Owing \cup Giving
                              /\ t[1] = "start" => x \notin {"idle", "begin", "exec"}
                              /\ t = Client => x = "idle"
      BY <2>1, <3>1, ReleasedFacts
    <3>4. Books' /\ Permits' /\ ClientPlace'
      BY <2>1, <2>2, <3>1, <3>3, SkipMove
    <3> QED
      BY <1>1, <3>2, <3>4 DEF IInv
  <2>3. CASE owed[t] \cap permit # {}
    <3>1. PICK q \in owed[t] \cap permit :
             /\ owed' = [owed EXCEPT ![t] = @ \ {q}]
             /\ giving' = [giving EXCEPT ![t] = q]
             /\ Goto(t, IF pc[t] = "yield" THEN "yielding" ELSE "giving")
             /\ lock' = lock
      BY <1>5, <2>3 DEF Release
    <3>2. PICK x \in {"giving", "yielding"} :
             /\ pc' = [pc EXCEPT ![t] = x]
             /\ \/ pc[t] = "release" /\ x = "giving"
                \/ pc[t] = "yield" /\ x = "yielding"
      BY <2>1, <3>1 DEF Goto
    <3>3. x \in Places /\ (pc[t] \in Locked <=> x \in Locked)
      BY <3>2 DEF Places, Locked
    <3>4. Moves'
      BY <1>1, <3>1, <3>2, <3>3, LockMove
    <3>5. Books' /\ Permits' /\ ClientPlace'
      BY <2>1, <3>1, <3>2, <3>3, LookMove
    <3> QED
      BY <1>1, <3>4, <3>5 DEF IInv
  <2> QED
    BY <2>2, <2>3
<1>6. CASE ReleaseGive(t)
  <2>1. pc[t] \in {"giving", "yielding"} /\ pc[t] \in Giving /\ rec' = rec
    BY <1>6 DEF ReleaseGive, Giving
  <2>2. pc[t] = "yielding" <=> t = Client
    BY <1>1, <2>1 DEF ClientPlace
  <2>3. CASE inUse > 0
    <3>1. /\ Returned(giving[t]) /\ giving' = [giving EXCEPT ![t] = Lease]
          /\ owed' = owed
      BY <1>6, <2>3 DEF ReleaseGive
    <3>2. CASE owed[t] = {}
      <4>1. Released(t)
        BY <1>6, <3>1, <3>2 DEF ReleaseGive
      <4>2. Moves'
        BY <2>1, <4>1, ReleasedFacts
      <4>3. PICK x \in Places : /\ pc' = [pc EXCEPT ![t] = x]
                                /\ x \notin Owing \cup Giving
                                /\ t[1] = "start" => x \notin {"idle", "begin", "exec"}
                                /\ t = Client => x = "idle"
        BY <2>1, <4>1, ReleasedFacts
      <4>4. x # "yield"
        BY <4>3 DEF Owing
      <4>5. Books' /\ Permits' /\ ClientPlace'
        BY <2>1, <2>3, <3>1, <3>2, <4>3, <4>4, GiveMove
      <4> QED
        BY <1>1, <4>2, <4>5 DEF IInv
    <3>3. CASE owed[t] # {}
      <4>1. PICK x \in {"release", "yield"} :
               /\ pc' = [pc EXCEPT ![t] = x] /\ lock' = lock
               /\ x = "yield" <=> pc[t] = "yielding"
        BY <1>6, <2>1, <3>1, <3>3 DEF ReleaseGive, Goto
      <4>2. /\ x \in Places /\ x \notin Giving /\ x \in Owing
            /\ pc[t] \in Locked <=> x \in Locked
        BY <2>1, <4>1 DEF Places, Locked, Owing, Giving
      <4>3. Moves'
        BY <1>1, <4>1, <4>2, LockMove
      <4>4. x = "yield" <=> t = Client
        BY <2>2, <4>1
      <4>5. Books' /\ Permits' /\ ClientPlace'
        BY <2>1, <2>3, <3>1, <4>1, <4>2, <4>4, GiveMove
      <4> QED
        BY <1>1, <4>3, <4>5 DEF IInv
    <3> QED
      BY <3>2, <3>3
  <2>4. CASE ~(inUse > 0)
    <3>1. Underflows(t)
      BY <1>6, <2>4 DEF ReleaseGive
    <3>2. owed'[t] = {}
      BY <1>1, <3>1 DEF Underflows, Books
    <3>3. Released(t)
      BY <1>6, <3>2 DEF ReleaseGive
    <3>4. Moves'
      BY <2>1, <3>3, ReleasedFacts
    <3>5. PICK x \in Places : /\ pc' = [pc EXCEPT ![t] = x]
                              /\ x \notin Owing \cup Giving
                              /\ t[1] = "start" => x \notin {"idle", "begin", "exec"}
                              /\ t = Client => x = "idle"
      BY <2>1, <3>3, ReleasedFacts
    <3>6. Books' /\ Permits' /\ ClientPlace'
      BY <2>1, <2>4, <3>1, <3>5, RaiseMove
    <3> QED
      BY <1>1, <3>4, <3>6 DEF IInv
  <2> QED
    BY <2>3, <2>4
<1> QED
  BY <1>3, <1>4, <1>5, <1>6 DEF Recycle

-----------------------------------------------------------------------------
(* Ensuring *)

\* What looking at the Lease, and making it, do to Docker and the files.
LEMMA EnsureWorld ==
    ASSUME IInv, EnsureLook(Client) \/ Make(Client)
    PROVE  World'
<1> USE DEF EnsureLook, Reuse, ReuseFails, Replace, Refuse, Make, EnsureNetwork,
            EnsureCreate, EnsureSave
<1>1. World
  BY DEF IInv
<1>2. /\ up' = up /\ epoch' = epoch /\ found' = found /\ last' = last
      /\ stale' = stale
  OBVIOUS
<1>3. /\ cont' \in Container /\ execs' \in SUBSET Procs /\ ExecsInContainer'
  <2>1. \/ cont' = NoCont /\ execs' = {}
        \/ cont' = cont /\ execs' = execs
        \/ /\ \E s \in {"stopped", "running"} :
                 cont' = [st |-> s, ep |-> epoch, old |-> FALSE]
           /\ \/ cont'.st = "running" /\ execs' = execs
              \/ execs' = {}
    <3>1. CASE EnsureLook(Client)
      BY <3>1 DEF docker
    <3>2. CASE EnsureNetwork(Client) \/ EnsureSave(Client)
      BY <3>2 DEF docker
    <3>3. CASE EnsureCreate(Client)
      BY <3>3 DEF docker
    <3> QED
      BY <3>1, <3>2, <3>3
  <2>2. cont' \in Container
    BY <1>1, <2>1, DockerRows DEF World
  <2> QED
    BY <1>1, <2>1, <2>2, DockerRows DEF World, ExecsInContainer
<1>4. snap' \in Snapshot
  <2>1. \/ snap' = snap \/ snap' = NoSnap \/ snap' = FromLabels(cont.old)
        \/ snap' = [ep |-> epoch, active |-> {}, idle |-> FALSE, old |-> cont.old]
    OBVIOUS
  <2> QED
    BY <1>1, <2>1, DockerRows DEF World
<1>5. net' \in NetState
  BY <1>1 DEF docker, HalfRemoved, Broken, World, NetState
<1>6. boots' \in 0..MaxBoots /\ troubles' \in 0..MaxTrouble
  <2>1. boots' = boots \/ (boots < MaxBoots /\ boots' = boots + 1)
    OBVIOUS
  <2>2. troubles' = troubles \/ Trouble
    OBVIOUS
  <2> QED
    BY <1>1, <2>1, <2>2, TroubleCounted, SandboxBounds DEF World
<1> QED
  BY <1>1, <1>2, <1>3, <1>4, <1>5, <1>6 DEF World

\* A client finds a Lease to reuse, gives it up, replaces what is in its way,
\* or is refused; or it makes the network, the container and the snapshot.
LEMMA EnsureKeeps ==
    ASSUME IInv, EnsureLook(Client) \/ Make(Client)
    PROVE  IInv'
<1>1. /\ World' /\ Moves /\ Client \in Threads /\ Client[1] = "client"
  BY EnsureWorld, ThreadFacts DEF IInv, Client
<1>2. \/ /\ Notifies(Client) /\ pc[Client] = "idle" /\ lock = Free
         /\ \/ Closed = {} /\ pc' = [pc EXCEPT ![Client] = "idle"] /\ lock' = lock
            \/ Closed # {} /\ pc' = [pc EXCEPT ![Client] = "yield"] /\ lock' = Client
      \/ /\ rec' = rec /\ UNCHANGED permits
         /\ pc[Client] \in {"idle", "make", "net", "save"}
         /\ \E x \in {"idle", "make", "net", "save"} :
               /\ pc' = [pc EXCEPT ![Client] = x]
               /\ \/ lock' = lock /\ (pc[Client] \in Locked <=> x \in Locked)
                  \/ lock = Free /\ lock' = Client /\ x \in Locked
                  \/ pc[Client] \in Locked /\ lock' = Free /\ x \notin Locked
  <2>1. CASE EnsureLook(Client) /\ ReuseFails(Client)
    BY <2>1 DEF EnsureLook, ReuseFails, Goto, Locked
  <2>2. CASE EnsureLook(Client) /\ ~ReuseFails(Client)
    BY <2>2 DEF EnsureLook, Reuse, Replace, Refuse, Goto, Locked
  <2>3. CASE Make(Client)
    BY <2>3 DEF Make, EnsureNetwork, EnsureCreate, EnsureSave, Goto, Locked
  <2> QED
    BY <2>1, <2>2, <2>3
<1>3. /\ {"idle", "yield", "make", "net", "save"} \subseteq Places
      /\ "idle" \notin Locked /\ "yield" \in Locked /\ "yield" \in Owing
      /\ "yield" \notin Giving
      /\ {"idle", "make", "net", "save"} \cap (Owing \cup Giving) = {}
  BY DEF Places, Locked, Owing, Giving
<1>4. CASE /\ Notifies(Client) /\ pc[Client] = "idle" /\ lock = Free
           /\ \/ Closed = {} /\ pc' = [pc EXCEPT ![Client] = "idle"] /\ lock' = lock
              \/ Closed # {} /\ pc' = [pc EXCEPT ![Client] = "yield"] /\ lock' = Client
  <2>1. Moves'
    BY <1>1, <1>3, <1>4, LockMove
  <2>2. Books' /\ Permits' /\ ClientPlace'
    BY <1>1, <1>3, <1>4, NotifyMove
  <2> QED
    BY <1>1, <2>1, <2>2 DEF IInv
<1>5. ASSUME NEW x \in {"idle", "make", "net", "save"},
             rec' = rec, UNCHANGED permits,
             pc[Client] \in {"idle", "make", "net", "save"},
             pc' = [pc EXCEPT ![Client] = x],
             \/ lock' = lock /\ (pc[Client] \in Locked <=> x \in Locked)
             \/ lock = Free /\ lock' = Client /\ x \in Locked
             \/ pc[Client] \in Locked /\ lock' = Free /\ x \notin Locked
      PROVE  IInv'
  <2>1. x \in Places /\ x \notin Owing \cup Giving /\ pc[Client] \notin Owing \cup Giving
    BY <1>3, <1>5
  <2>2. Moves'
    BY <1>1, <1>5, <2>1, LockMove
  <2>3. Books' /\ Permits' /\ ClientPlace'
    BY <1>1, <1>5, <2>1, QuietMove
  <2> QED
    BY <1>1, <2>2, <2>3 DEF IInv
<1> QED
  BY <1>2, <1>4, <1>5

-----------------------------------------------------------------------------
(* Readers, watchdogs, the reconciler, Docker and the daemon's life *)

\* Steps that move one thread and leave the lock, the books, Docker and the
\* daemon alone.
LEMMA ThreadStep ==
    ASSUME IInv, NEW t \in Threads, NEW x \in Places,
           pc' = [pc EXCEPT ![t] = x],
           pc[t] \notin Locked \cup Owing \cup Giving, x \notin Locked \cup Owing \cup Giving,
           t[1] \notin {"start", "client"}, t[1] \in {"read", "watch"} => pc[t] # "idle",
           UNCHANGED <<epoch, cont, execs, rec, lock, found, stale, boots>>,
           UNCHANGED permits,
           up' \in {up, "serving"},
           net' \in NetState, snap' \in Snapshot, last' \in SUBSET Procs,
           troubles' \in 0..MaxTrouble
    PROVE  IInv'
<1>1. Moves'
  BY LockMove DEF IInv
<1>2. Books' /\ Permits' /\ ClientPlace'
  <2>1. t # Client /\ t[1] # "start"
    BY DEF Client
  <2>2. pc[t] \notin Owing \cup Giving /\ x \notin Owing \cup Giving
    OBVIOUS
  <2> QED
    BY <2>1, <2>2, QuietMove
<1>3. World'
  BY DEF IInv, World, ExecsInContainer
<1> QED
  BY <1>1, <1>2, <1>3 DEF IInv

\* A recycle is asked for, a Lease is listed or swept.
LEMMA RequestsKeep ==
    ASSUME IInv, AskRecycle \/ ReconcileList \/ ReconcileSweep
    PROVE  IInv'
<1> DEFINE xs == {"want", "sweep", "clean", "idle"}
<1>1. PICK t \in {<<"admin", Lease>>, <<"reconciler", Lease>>} :
         /\ pc[t] \in {"idle", "sweep", "clean"}
         /\ \E x \in xs : pc' = [pc EXCEPT ![t] = x]
  BY DEF AskRecycle, ReconcileList, ReconcileSweep, Reconciler, Goto
<1>2. t \in Threads /\ t[1] \in {"admin", "reconciler"}
  BY ThreadFacts
<1>3. /\ xs \subseteq Places /\ xs \cap (Locked \cup Owing \cup Giving) = {}
      /\ pc[t] \notin Locked \cup Owing \cup Giving
  BY <1>1 DEF Places, Locked, Owing, Giving
<1>4. /\ UNCHANGED <<epoch, cont, execs, rec, lock, found, stale, boots>>
      /\ UNCHANGED permits
      /\ snap' \in Snapshot /\ last' \in SUBSET Procs /\ up' \in {up, "serving"}
  BY DEF AskRecycle, ReconcileList, ReconcileSweep, docker, counters, IInv, World
<1>5. troubles' \in 0..MaxTrouble
  <2>1. troubles' = troubles \/ Trouble
    BY DEF AskRecycle, ReconcileList, ReconcileSweep, counters
  <2> QED
    BY <2>1, TroubleCounted DEF IInv
<1>6. net' \in NetState
  BY DEF AskRecycle, ReconcileList, ReconcileSweep, docker, Broken, NetState, IInv, World
<1> HIDE DEF xs
<1> QED
  BY <1>1, <1>2, <1>3, <1>4, <1>5, <1>6, ThreadStep

\* A process is watched, read, or taken off the snapshot.
LEMMA ThreadsKeep ==
    ASSUME IInv, NEW p \in Procs,
           WatchTimeout(p) \/ ReadEnds(p) \/ ReadHealth(p) \/ ReadFinish(p)
    PROVE  IInv'
<1> DEFINE xs == {"idle", "health", "want", "complete", "record"}
<1>1. PICK t \in {<<"watch", p>>, <<"read", p>>} :
         /\ pc[t] \in {"armed", "reading", "health", "complete"}
         /\ \E x \in xs : pc' = [pc EXCEPT ![t] = x]
  BY DEF WatchTimeout, ReadEnds, ReadHealth, ReadFinish, Goto
<1>2. t \in Threads /\ t[1] \in {"watch", "read"}
  BY ThreadFacts
<1>3. /\ xs \subseteq Places /\ xs \cap (Locked \cup Owing \cup Giving) = {}
      /\ pc[t] \notin Locked \cup Owing \cup Giving /\ pc[t] # "idle"
  BY <1>1 DEF Places, Locked, Owing, Giving
<1>4. /\ UNCHANGED <<up, epoch, cont, execs, rec, lock, found, stale, boots>>
      /\ UNCHANGED permits
      /\ net' \in NetState /\ troubles' \in 0..MaxTrouble
  BY DEF WatchTimeout, ReadEnds, ReadHealth, ReadFinish, docker, counters, IInv, World
<1>5. last' \in SUBSET Procs
  <2>1. last' = last \/ last' = last \cup {p}
    BY DEF WatchTimeout, ReadEnds, ReadHealth, ReadFinish
  <2> QED
    BY <2>1 DEF IInv, World
<1>6. snap' \in Snapshot
  <2>1. snap.active \ {p} \in SUBSET Procs
    BY DEF IInv, World, Snapshot
  <2>2. snap' = snap \/ snap' = Touched(snap.active \ {p})
    BY DEF WatchTimeout, ReadEnds, ReadHealth, ReadFinish
  <2> QED
    BY <2>1, <2>2, DockerRows DEF IInv, World
<1> HIDE DEF xs
<1> QED
  BY <1>1, <1>2, <1>3, <1>4, <1>5, <1>6, ThreadStep

\* What the daemon's memory is about does not depend on Docker and time.
LEMMA SameMemory ==
    ASSUME IInv, UNCHANGED <<rec, permits, lock, pc>>
    PROVE  Books' /\ Moves' /\ ClientPlace' /\ Permits'
<1>1. UNCHANGED <<rec, permit, inUse, owed, giving, raced, lock, pc>>
  BY DEF permits
<1>2. \A p \in Procs : /\ Carried(p)' <=> Carried(p)
                       /\ Kept(p)' <=> Kept(p)
                       /\ Running(p)' <=> Running(p)
                       /\ IsClosed(p)' <=> IsClosed(p)
                       /\ Started(p)' = Started(p)
  BY <1>1 DEF Carried, Kept, Running, IsClosed, Started
<1>3. Counted'
  BY <1>1, <1>2, CountSame DEF IInv, Books
<1>4. Books' /\ Moves' /\ ClientPlace'
  BY <1>1 DEF IInv, Books, Moves, LockMatches, ClientPlace
<1>5. RunningHas' /\ BeginIsNew' /\ ExecIsListed'
  BY <1>1, <1>2 DEF IInv, Permits, RunningHas, BeginIsNew, ExecIsListed
<1>6. OwedIsClosed' /\ InTime' /\ GiveupGives' /\ Threaded'
  BY <1>1, <1>2 DEF IInv, Permits, OwedIsClosed, InTime, GiveupGives, Threaded
<1> QED
  BY <1>3, <1>4, <1>5, <1>6 DEF Permits

\* Docker, the passing of time and a get that reads touch nothing of that.
LEMMA WorldKeeps ==
    ASSUME IInv,
           \/ ContainerDies \/ NetworkDrifts \/ IdlePasses \/ MaxPasses
           \/ GetRead \/ GetSave
           \/ \E p \in Procs : ExecExits(p)
    PROVE  IInv'
<1> USE DEF ContainerDies, NetworkDrifts, IdlePasses, MaxPasses, GetRead, GetSave,
            ExecExits
<1>1. /\ UNCHANGED <<up, epoch, found, last, boots>>
      /\ UNCHANGED <<rec, permits, lock, pc>>
  BY DEF daemon, counters
<1>2. World
  BY DEF IInv
<1>3. stale' \in 0..MaxBoots
  <2>1. stale' = stale \/ stale' = boots \/ stale' = 0
    BY DEF daemon
  <2> QED
    BY <1>2, <2>1, SandboxBounds DEF World
<1>4. troubles' \in 0..MaxTrouble
  <2>1. troubles' = troubles \/ Trouble
    BY DEF counters
  <2> QED
    BY <1>2, <2>1, TroubleCounted
<1>5. net' \in NetState
  BY <1>2 DEF docker, World, NetState
<1>6. cont' \in Container /\ execs' \in SUBSET Procs /\ ExecsInContainer'
  <2>1. \/ cont' = cont /\ (execs' = execs \/ \E p \in Procs : execs' = execs \ {p})
        \/ cont' = [cont EXCEPT !.st = "stopped"] /\ execs' = {}
        \/ cont' = [cont EXCEPT !.old = TRUE] /\ execs' = execs
    BY DEF docker
  <2> QED
    BY <1>2, <2>1, DockerRows DEF World, ExecsInContainer
<1>7. snap' \in Snapshot
  <2>1. \/ snap' = snap
        \/ snap' = [snap EXCEPT !.idle = TRUE]
        \/ snap' = [snap EXCEPT !.old = TRUE, !.idle = FALSE]
        \/ \E aged \in BOOLEAN :
              snap' = [ep |-> epoch, active |-> {}, idle |-> FALSE, old |-> cont.old \/ aged]
    OBVIOUS
  <2>2. \A aged \in BOOLEAN : (cont.old \/ aged) \in BOOLEAN
    OBVIOUS
  <2> QED
    BY <1>2, <2>1, <2>2, DockerRows DEF World
<1>8. World'
  BY <1>1, <1>2, <1>3, <1>4, <1>5, <1>6, <1>7 DEF World
<1>9. Books' /\ Moves' /\ ClientPlace' /\ Permits'
  BY <1>1, SameMemory
<1> QED
  BY <1>8, <1>9 DEF IInv

\* The memory of the daemon is empty: nobody holds anything.
LEMMA EmptyMemory ==
    ASSUME rec = [p \in Procs |-> "none"], permit = {}, inUse = 0,
           owed = [t \in Threads |-> {}], giving = [t \in Threads |-> Lease],
           raced = FALSE, lock = Free, pc = [t \in Threads |-> "idle"]
    PROVE  Books /\ Moves /\ ClientPlace /\ Permits
<1>1. "none" \in RecState /\ "idle" \in Places /\ "idle" \notin Locked
  BY DEF RecState, Places, Locked
<1>2. Books /\ Moves /\ ClientPlace
  BY <1>1, ThreadFacts DEF Books, Moves, LockMatches, ClientPlace
<1>3. ASSUME NEW p \in Procs
      PROVE  Started(p) = "idle" /\ ~Running(p) /\ ~IsClosed(p)
  BY <1>1, ThreadFacts DEF Started, Running, IsClosed
<1>4. Counted
  <2>1. Held = {}
    BY DEF Held
  <2> QED
    BY <2>1, FS_EmptySet DEF Counted
<1>5. RunningHas /\ BeginIsNew /\ ExecIsListed /\ GiveupGives
  BY <1>3 DEF RunningHas, BeginIsNew, ExecIsListed, GiveupGives
<1>6. InTime
  BY DEF InTime
<1>7. OwedIsClosed
  BY SandboxBounds DEF OwedIsClosed
<1>8. Threaded
  BY ThreadFacts DEF Threaded
<1> QED
  BY <1>2, <1>4, <1>5, <1>6, <1>7, <1>8 DEF Permits

\* The daemon dies, and starts again in the next epoch.
LEMMA DaemonKeeps ==
    ASSUME IInv, Crash \/ Restart
    PROVE  IInv'
<1>1. CASE Crash
  <2>1. /\ UNCHANGED <<epoch, cont, execs, net, snap, boots>>
        /\ up' = "down" /\ epoch < MaxEpoch
        /\ found' = [p \in Procs |-> {}] /\ last' = {} /\ stale' = 0
    BY <1>1 DEF Crash, docker
  <2>2. troubles' \in 0..MaxTrouble
    BY <1>1, TroubleCounted DEF Crash, IInv
  <2>3. World'
    BY <2>1, <2>2, SandboxBounds DEF IInv, World, ExecsInContainer
  <2>4. /\ rec' = [p \in Procs |-> "none"] /\ permit' = {} /\ inUse' = 0
        /\ owed' = [t \in Threads |-> {}] /\ giving' = [t \in Threads |-> Lease]
        /\ raced' = FALSE /\ lock' = Free /\ pc' = [t \in Threads |-> "idle"]
    BY <1>1 DEF Crash
  <2>5. Books' /\ Moves' /\ ClientPlace' /\ Permits'
    <3>1. "none" \in RecState /\ "idle" \in Places /\ "idle" \notin Locked
      BY DEF RecState, Places, Locked
    <3>2. Books' /\ Moves' /\ ClientPlace'
      BY <2>4, <3>1, ThreadFacts DEF Books, Moves, LockMatches, ClientPlace
    <3>3. ASSUME NEW p \in Procs
          PROVE  Started(p)' = "idle" /\ ~Running(p)' /\ ~IsClosed(p)'
      BY <2>4, <3>1, ThreadFacts DEF Started, Running, IsClosed
    <3>4. Counted'
      <4>1. Held' = {}
        BY <2>4 DEF Held
      <4> QED
        BY <2>4, <4>1, FS_EmptySet DEF Counted
    <3>5. RunningHas' /\ BeginIsNew' /\ ExecIsListed' /\ GiveupGives'
      BY <3>3 DEF RunningHas, BeginIsNew, ExecIsListed, GiveupGives
    <3>6. InTime' /\ OwedIsClosed' /\ Threaded'
      BY <2>4, SandboxBounds, ThreadFacts DEF InTime, OwedIsClosed, Threaded
    <3> QED
      BY <3>2, <3>4, <3>5, <3>6 DEF Permits
  <2> QED
    BY <2>3, <2>5 DEF IInv
<1>2. CASE Restart
  <2>1. /\ UNCHANGED <<cont, execs, snap, found, last, stale, boots, troubles>>
        /\ UNCHANGED <<rec, permits, lock, pc>>
        /\ up = "down" /\ up' = "booting" /\ epoch' = epoch + 1
        /\ net' \in NetState
    BY <1>2 DEF Restart, daemon, counters, NetState
  <2>2. World'
    BY <2>1, SandboxBounds DEF IInv, World, ExecsInContainer
  <2> QED
    BY <2>1, <2>2, SameMemory DEF IInv
<1> QED
  BY <1>1, <1>2

\* A step that changes nothing.
LEMMA StutterKeeps ==
    ASSUME IInv, UNCHANGED vars
    PROVE  IInv'
<1>1. /\ UNCHANGED <<up, epoch, cont, execs, net, snap, found, last, stale, boots,
                     troubles>>
      /\ UNCHANGED <<rec, permits, lock, pc>>
  BY DEF vars, docker, daemon, counters
<1> QED
  BY <1>1, SameWorld, SameMemory DEF IInv

-----------------------------------------------------------------------------
(* The theorems *)

\* The inductive invariant: types, the lock, and who has which permit.
THEOREM Invariance == Spec => []IInv
<1>1. Init => IInv
  <2> SUFFICES ASSUME Init
               PROVE  IInv
    OBVIOUS
  <2>1. World
    <3>1. /\ 0 \in 0..MaxEpoch /\ 1 \in 1..MaxEpoch /\ 0 \in 0..MaxBoots
          /\ 0 \in 0..MaxTrouble
      BY SandboxBounds
    <3>2. cont \in Container /\ snap \in Snapshot
      BY <3>1 DEF Init, Container, Snapshot, NoCont, NoSnap
    <3> QED
      BY <3>1, <3>2 DEF Init, World, ExecsInContainer, NetState
  <2>2. Books /\ Moves /\ ClientPlace /\ Permits
    BY EmptyMemory DEF Init
  <2> QED
    BY <2>1, <2>2 DEF IInv
<1>2. IInv /\ [Next]_vars => IInv'
  <2> SUFFICES ASSUME IInv, [Next]_vars
               PROVE  IInv'
    OBVIOUS
  <2>1. ASSUME NEW t \in Threads, Recycle(t)
        PROVE  IInv'
    BY <2>1, RecycleKeeps
  <2>2. CASE EnsureLook(Client) \/ Make(Client)
    BY <2>2, EnsureKeeps
  <2>3. CASE AskRecycle \/ ReconcileList \/ ReconcileSweep
    BY <2>3, RequestsKeep
  <2>4. ASSUME NEW p \in Procs,
               \/ StartBegin(p) \/ Start(p)
               \/ WatchTimeout(p) \/ ReadEnds(p) \/ Read(p)
        PROVE  IInv'
    BY <2>4, BeginKeeps, ExecKeeps, TouchKeeps, UndoKeeps, RecordKeeps, ThreadsKeep
    DEF Start, Read
  <2>5. CASE Crash \/ Restart
    BY <2>5, DaemonKeeps
  <2>6. CASE \/ ContainerDies \/ NetworkDrifts \/ IdlePasses \/ MaxPasses
             \/ GetRead \/ GetSave
             \/ \E p \in Procs : ExecExits(p)
    BY <2>6, WorldKeeps
  <2>7. CASE UNCHANGED vars
    BY <2>7, StutterKeeps
  <2> QED
    BY <2>1, <2>2, <2>3, <2>4, <2>5, <2>6, <2>7 DEF Next
<1> QED
  BY <1>1, <1>2, PTL DEF Spec

\* Every variable keeps its type, the Lease lock is held in exactly the steps
\* between taking and releasing it (lease_backend.py), and nothing executes in
\* a container that does not run.
THEOREM TypeCorrect == Spec => []TypeOK
<1>1. IInv => TypeOK
  BY DEF IInv, World, Books, Moves, TypeOK, Columns
<1> QED
  BY <1>1, Invariance, PTL

\* The permits of process_manager.py balance although on_lease_recycled,
\* _complete_process and a failed start mark and return them without a lock:
\* a running process has its permit, the limiter never counts a permit that
\* nobody is left to release, and it misses one that is held only after two
\* threads have released the same permit at once.
THEOREM PermitsAreBalanced == Spec => []PermitsBalance
<1>1. IInv => PermitsBalance
  BY DEF IInv, Permits, Counted, RunningHas, PermitsBalance
<1> QED
  BY <1>1, Invariance, PTL

\* What a step other than a failed start's undo does to a closed record of a
\* living daemon: nothing.
LEMMA RecordSteps ==
    ASSUME IInv, [Next]_vars
    PROVE  OutcomeKept
<1> SUFFICES ASSUME NEW p \in Procs, rec[p] \in {"completed", "lost"}, up' # "down",
                    Started(p) \notin {"undo", "giveup"}
             PROVE  rec'[p] = rec[p]
  BY DEF OutcomeKept
<1>1. rec \in [Procs -> RecState]
  BY DEF IInv, Books
<1>2. ASSUME NEW t \in Threads, Recycle(t)
      PROVE  rec'[p] = rec[p]
  <2>1. rec' = rec \/ rec' = Lost
    BY <1>2 DEF Recycle, RecycleRemove, RecycleForget, RecycleNotify, Notifies,
                Release, ReleaseGive
  <2> QED
    BY <1>1, <2>1 DEF Lost, Running
<1>3. ASSUME EnsureLook(Client) \/ Make(Client)
      PROVE  rec'[p] = rec[p]
  <2>1. rec' = rec \/ rec' = Lost
    BY <1>3 DEF EnsureLook, Reuse, ReuseFails, Notifies, Replace, Refuse, Make,
                EnsureNetwork, EnsureCreate, EnsureSave
  <2> QED
    BY <1>1, <2>1 DEF Lost, Running
<1>4. ASSUME NEW q \in Procs, StartExec(q)
      PROVE  rec'[p] = rec[p]
  <2>1. rec[q] = "none"
    BY <1>4 DEF StartExec, IInv, Permits, BeginIsNew, Started
  <2>2. rec' = rec \/ rec' = [rec EXCEPT ![q] = "running"]
    BY <1>4 DEF StartExec
  <2> QED
    BY <1>1, <2>1, <2>2
<1>5. ASSUME NEW q \in Procs, StartUndo(q) \/ StartGive(q)
      PROVE  rec'[p] = rec[p]
  <2>1. p # q /\ (rec' = rec \/ rec' = [rec EXCEPT ![q] = "none"])
    BY <1>5 DEF StartUndo, StartGive, Forgets, Started
  <2> QED
    BY <1>1, <2>1
<1>6. ASSUME NEW q \in Procs, ReadRecord(q)
      PROVE  rec'[p] = rec[p]
  <2>1. rec' = rec \/ (rec[q] = "running" /\ rec' = [rec EXCEPT ![q] = "completed"])
    BY <1>6 DEF ReadRecord, MayComplete, Running
  <2> QED
    BY <1>1, <2>1
<1>7. ASSUME NEW q \in Procs,
             \/ StartBegin(q) \/ StartTouch(q) \/ WatchTimeout(q) \/ ReadEnds(q)
             \/ ReadHealth(q) \/ ReadFinish(q) \/ ExecExits(q)
      PROVE  rec' = rec
  BY <1>7 DEF StartBegin, StartTouch, WatchTimeout, ReadEnds, ReadHealth,
              ReadFinish, ExecExits, daemon
<1>8. CASE \/ AskRecycle \/ GetRead \/ GetSave \/ ReconcileList \/ ReconcileSweep
           \/ Restart \/ ContainerDies \/ NetworkDrifts \/ IdlePasses \/ MaxPasses
           \/ UNCHANGED vars
  BY <1>8 DEF AskRecycle, GetRead, GetSave, ReconcileList, ReconcileSweep, Restart,
              ContainerDies, NetworkDrifts, IdlePasses, MaxPasses, daemon, vars
<1>9. ~Crash
  BY DEF Crash
<1> QED
  BY <1>2, <1>3, <1>4, <1>5, <1>6, <1>7, <1>8, <1>9 DEF Next, Start, Read

\* An outcome a client was told of is final while the daemon lives: neither
\* on_lease_recycled nor _complete_process nor a new start rewrites a closed
\* record; only the start that made it takes it back.
THEOREM OutcomesStand == Spec => OutcomeStands
<1>1. IInv /\ [Next]_vars => [OutcomeKept]_vars
  BY RecordSteps
<1> QED
  BY <1>1, Invariance, PTL DEF Spec, OutcomeStands
=============================================================================
