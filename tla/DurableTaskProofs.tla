------------------------- MODULE DurableTaskProofs -------------------------
(***************************************************************************)
(* Proofs about DurableTask, for every set of Runs, every lease and        *)
(* timeout and every batch limit of the reconciler.                        *)
(***************************************************************************)
EXTENDS DurableTask, TLAPS

\* What the coroutine will report is decided when it leaves the execution.
OutcomeKnown ==
    \A r \in Runs : pc[r] \in {"finishing", "settling", "settled"}
                        => outcome[r] \in RunWords

\* The rows of a Run that was never admitted.
Unborn(r) ==
    /\ ledger[r] = EmptyLedger
    /\ run[r] = "absent"
    /\ rop[r] = "absent"
    /\ pc[r] = "idle"
    /\ ~canc[r]

\* What the status of a task says about the other rows of its Run.
RowShape(r) ==
    /\ task[r].status = "absent" => Unborn(r)
    /\ task[r].status = "accepted" =>
          /\ r \in RecoveryRuns
          /\ LedgerOpen(r)
          /\ run[r] = "accepted"
          /\ rop[r] = "prepared"
          /\ pc[r] = "idle"
    /\ task[r].status = "running" =>
          /\ LedgerOpen(r)
          /\ task[r].token > 0
          /\ run[r] = "running"
          /\ rop[r] = IF r \in RecoveryRuns THEN "running" ELSE "absent"
    /\ task[r].status # "running" => task[r].token = 0
    /\ task[r].status \in Terminal => ledger[r].terminal > 0

\* What the reconciler holds was admitted; the rows of the scan were open.
RecShape ==
    /\ \A r \in recBatch :
          /\ task[r].status # "absent"
          /\ recLoaded => recSnap[r].status \in Open
    /\ recPc = "commit" => recRow.status # "absent"

\* The inductive invariant that holds for every batch limit.
IInv ==
    /\ TypeOK
    /\ OutcomeKnown
    /\ \A r \in Runs : RowShape(r)
    /\ RecShape

-----------------------------------------------------------------------------
(* The records the operations write                                        *)

Head == [last : Nat, terminal : Nat, status : {"none"} \cup RunWords]

\* A settled row is a row without a lease (Settled, service.py settle).
LEMMA SettledRow ==
    ASSUME NEW row \in Row, NEW status \in Terminal
    PROVE  /\ Settled(row, status) \in Row
           /\ Settled(row, status).status = status
           /\ Settled(row, status).token = 0
  BY DEF Settled, Row

\* A claimed row is running and has a token (Claimed, service.py claim_prepared).
LEMMA ClaimedRow ==
    ASSUME NEW row \in Row, NEW at \in Nat
    PROVE  /\ Claimed(row, at) \in Row
           /\ Claimed(row, at).status = "running"
           /\ Claimed(row, at).token > 0
  BY TimeAssumption DEF Claimed, Row, Open

\* A renewal changes the expiry only (Renewed, service.py heartbeat).
LEMMA RenewedRow ==
    ASSUME NEW row \in Row, NEW at \in Nat
    PROVE  /\ Renewed(row, at) \in Row
           /\ Renewed(row, at).status = row.status
           /\ Renewed(row, at).token = row.token
  BY TimeAssumption DEF Renewed, Row

\* A fact lengthens the stream and leaves it as open as it was (Appended).
LEMMA AppendedHead ==
    ASSUME NEW l \in Head
    PROVE  /\ Appended(l) \in Head
           /\ Appended(l).last = l.last + 1
           /\ Appended(l).terminal = l.terminal
           /\ Appended(l).status = l.status
  BY DEF Appended, Head

\* The terminal fact closes the stream (Terminated).
LEMMA TerminatedHead ==
    ASSUME NEW l \in Head, NEW word \in RunWords
    PROVE  /\ Terminated(l, word) \in Head
           /\ Terminated(l, word).terminal > 0
           /\ Terminated(l, word).status = word
  BY DEF Terminated, Head

\* Every word has a task status (run_status_to_task_status).
LEMMA TaskStatusTerminal ==
    ASSUME NEW word \in RunWords
    PROVE  TaskStatus(word) \in Terminal
  BY DEF TaskStatus, RunWords, Terminal

\* AdmitRunning keeps the invariant.
LEMMA AdmitRunningKeeps ==
    ASSUME IInv, NEW r \in Runs, AdmitRunning(r)
    PROVE  IInv'
<1>a. /\ ledger[r] \in Head
      /\ ledger \in [Runs -> Head]
      /\ Appended(ledger[r]) \in Head
      /\ Appended(Appended(ledger[r])) \in Head
      /\ Appended(ledger[r]).last > 0
      /\ Appended(Appended(ledger[r])).last > 0
      /\ Appended(ledger[r]).terminal = ledger[r].terminal
      /\ Appended(Appended(ledger[r])).terminal = ledger[r].terminal
  BY AppendedHead DEF IInv, TypeOK, Head
<1>1. TypeOK'
  <2>1. task' \in [Runs -> Row]
    BY <1>a, RunsAssumption, TimeAssumption
    DEF IInv, AdmitRunning, taskVars, execVars, hbVars, recVars, TypeOK, Row,
        NoTask, Open, Terminal
  <2>2. ledger' \in [Runs -> Head]
    BY <1>a, RunsAssumption
    DEF IInv, AdmitRunning, taskVars, execVars, hbVars, recVars, TypeOK, Head
  <2>3. now' \in Nat /\ run' \in [Runs -> {"absent"} \cup Open \cup RunWords]
    BY <1>a, RunsAssumption
    DEF IInv, AdmitRunning, taskVars, execVars, hbVars, recVars, TypeOK, Row,
        NoTask, NoLease, EmptyLedger, Live, Running, Open, Terminal, RunWords
  <2>4. rop' \in [Runs -> {"absent", "prepared", "running"} \cup Terminal]
    BY <1>a, RunsAssumption
    DEF IInv, AdmitRunning, taskVars, execVars, hbVars, recVars, TypeOK, Row,
        NoTask, NoLease, EmptyLedger, Live, Running, Open, Terminal, RunWords
  <2>5. QED
    BY <1>a, <2>1, <2>2, <2>3, <2>4, RunsAssumption, TimeAssumption
    DEF IInv, AdmitRunning, taskVars, execVars, hbVars, recVars, TypeOK, Head,
        NoLease, Row, Live, Running, NoTask, Terminal, RunWords
<1>2. OutcomeKnown'
  BY
  DEF IInv, AdmitRunning, taskVars, execVars, hbVars, recVars, TypeOK,
      OutcomeKnown, Live, Running, RunWords,
     Terminal
<1>3. ASSUME NEW s \in Runs PROVE RowShape(s)'
  BY <1>a, RunsAssumption, TimeAssumption
  DEF IInv, AdmitRunning, taskVars, execVars, hbVars, recVars, TypeOK,
      OutcomeKnown, RowShape, RecShape, Unborn, LedgerOpen, Row, NoTask,
      EmptyLedger, Live, Running, Open, Terminal
<1>4. RecShape'
  BY <1>a, RunsAssumption
  DEF IInv, AdmitRunning, taskVars, execVars, hbVars, recVars, TypeOK,
      RowShape, RecShape, Row, NoTask, Open, Terminal
<1>5. QED
  BY <1>1, <1>2, <1>3, <1>4 DEF IInv

\* AdmitPrepared keeps the invariant.
LEMMA AdmitPreparedKeeps ==
    ASSUME IInv, NEW r \in Runs, AdmitPrepared(r)
    PROVE  IInv'
<1>a. /\ ledger[r] \in Head
      /\ ledger \in [Runs -> Head]
      /\ Appended(ledger[r]) \in Head
      /\ Appended(Appended(ledger[r])) \in Head
      /\ Appended(ledger[r]).last > 0
      /\ Appended(Appended(ledger[r])).last > 0
      /\ Appended(ledger[r]).terminal = ledger[r].terminal
      /\ Appended(Appended(ledger[r])).terminal = ledger[r].terminal
  BY AppendedHead DEF IInv, TypeOK, Head
<1>1. TypeOK'
  <2>1. task' \in [Runs -> Row]
    BY <1>a, RunsAssumption, TimeAssumption
    DEF IInv, AdmitPrepared, taskVars, execVars, hbVars, recVars, TypeOK, Row,
        NoTask, Open, Terminal
  <2>2. ledger' \in [Runs -> Head]
    BY <1>a, RunsAssumption
    DEF IInv, AdmitPrepared, taskVars, execVars, hbVars, recVars, TypeOK, Head
  <2>3. now' \in Nat /\ run' \in [Runs -> {"absent"} \cup Open \cup RunWords]
    BY <1>a, RunsAssumption
    DEF IInv, AdmitPrepared, taskVars, execVars, hbVars, recVars, TypeOK, Row,
        NoTask, NoLease, EmptyLedger, Live, Running, Open, Terminal, RunWords
  <2>4. rop' \in [Runs -> {"absent", "prepared", "running"} \cup Terminal]
    BY <1>a, RunsAssumption
    DEF IInv, AdmitPrepared, taskVars, execVars, hbVars, recVars, TypeOK, Row,
        NoTask, NoLease, EmptyLedger, Live, Running, Open, Terminal, RunWords
  <2>5. QED
    BY <1>a, <2>1, <2>2, <2>3, <2>4, RunsAssumption, TimeAssumption
    DEF IInv, AdmitPrepared, taskVars, execVars, hbVars, recVars, TypeOK, Head,
        NoLease, Row, Live, Running, NoTask, Terminal, RunWords
<1>2. OutcomeKnown'
  BY
  DEF IInv, AdmitPrepared, taskVars, execVars, hbVars, recVars, TypeOK,
      OutcomeKnown, Live, Running, RunWords,
     Terminal
<1>3. ASSUME NEW s \in Runs PROVE RowShape(s)'
  BY <1>a, RunsAssumption, TimeAssumption
  DEF IInv, AdmitPrepared, taskVars, execVars, hbVars, recVars, TypeOK,
      OutcomeKnown, RowShape, RecShape, Unborn, LedgerOpen, Row, NoTask,
      EmptyLedger, Live, Running, Open, Terminal
<1>4. RecShape'
  BY <1>a, RunsAssumption
  DEF IInv, AdmitPrepared, taskVars, execVars, hbVars, recVars, TypeOK,
      RowShape, RecShape, Row, NoTask, Open, Terminal
<1>5. QED
  BY <1>1, <1>2, <1>3, <1>4 DEF IInv

\* ClaimPrepared keeps the invariant.
LEMMA ClaimPreparedKeeps ==
    ASSUME IInv, NEW r \in Runs, ClaimPrepared(r)
    PROVE  IInv'
<1>a. /\ ledger[r] \in Head
      /\ ledger \in [Runs -> Head]
      /\ Appended(ledger[r]) \in Head
      /\ Appended(Appended(ledger[r])) \in Head
      /\ Appended(ledger[r]).last > 0
      /\ Appended(Appended(ledger[r])).last > 0
      /\ Appended(ledger[r]).terminal = ledger[r].terminal
      /\ Appended(Appended(ledger[r])).terminal = ledger[r].terminal
  BY AppendedHead DEF IInv, TypeOK, Head
<1>b. /\ Claimed(task[r], now) \in Row
      /\ Claimed(task[r], now).status = "running"
      /\ Claimed(task[r], now).token > 0
  BY ClaimedRow DEF IInv, TypeOK
<1>1. TypeOK'
  <2>1. task' \in [Runs -> Row]
    BY <1>a, <1>b, RunsAssumption, TimeAssumption
    DEF IInv, ClaimPrepared, taskVars, execVars, hbVars, recVars, Claimable,
        TypeOK, Row, NoTask, Open, Terminal
  <2>2. ledger' \in [Runs -> Head]
    BY <1>a, <1>b, RunsAssumption
    DEF IInv, ClaimPrepared, taskVars, execVars, hbVars, recVars, Claimable,
        TypeOK, Head
  <2>3. now' \in Nat /\ run' \in [Runs -> {"absent"} \cup Open \cup RunWords]
    BY <1>a, <1>b, RunsAssumption
    DEF IInv, ClaimPrepared, taskVars, execVars, hbVars, recVars, Claimable,
        TypeOK, Row, NoTask, NoLease, EmptyLedger, Live, Running, Open,
        Terminal, RunWords
  <2>4. rop' \in [Runs -> {"absent", "prepared", "running"} \cup Terminal]
    BY <1>a, <1>b, RunsAssumption
    DEF IInv, ClaimPrepared, taskVars, execVars, hbVars, recVars, Claimable,
        TypeOK, Row, NoTask, NoLease, EmptyLedger, Live, Running, Open,
        Terminal, RunWords
  <2>5. QED
    BY <1>a, <1>b, <2>1, <2>2, <2>3, <2>4, RunsAssumption, TimeAssumption
    DEF IInv, ClaimPrepared, taskVars, execVars, hbVars, recVars, Claimable,
        TypeOK, Head, NoLease, Row, Live, Running, NoTask, Terminal, RunWords
<1>2. OutcomeKnown'
  BY
  DEF IInv, ClaimPrepared, taskVars, execVars, hbVars, recVars, Claimable,
      TypeOK, OutcomeKnown, Live, Running, RunWords,
     Terminal
<1>3. ASSUME NEW s \in Runs PROVE RowShape(s)'
  BY <1>a, <1>b, RunsAssumption, TimeAssumption
  DEF IInv, ClaimPrepared, taskVars, execVars, hbVars, recVars, Claimable,
      TypeOK, OutcomeKnown, RowShape, RecShape, Unborn, LedgerOpen, Row,
      NoTask, EmptyLedger, Live, Running, Open, Terminal
<1>4. RecShape'
  BY <1>a, <1>b, RunsAssumption
  DEF IInv, ClaimPrepared, taskVars, execVars, hbVars, recVars, Claimable,
      TypeOK, RowShape, RecShape, Row, NoTask, Open, Terminal
<1>5. QED
  BY <1>1, <1>2, <1>3, <1>4 DEF IInv

\* HeartbeatRead keeps the invariant.
LEMMA HeartbeatReadKeeps ==
    ASSUME IInv, NEW r \in Runs, HeartbeatRead(r)
    PROVE  IInv'
<1>1. TypeOK'
  BY RunsAssumption, TimeAssumption
  DEF IInv, HeartbeatRead, taskVars, execVars, hbVars, recVars, TypeOK, Row,
      NoTask, NoLease, EmptyLedger, Live, Running, Open, Terminal, RunWords
<1>2. OutcomeKnown'
  BY
  DEF IInv, HeartbeatRead, taskVars, execVars, hbVars, recVars, TypeOK,
      OutcomeKnown, Live, Running, RunWords,
     Terminal
<1>3. ASSUME NEW s \in Runs PROVE RowShape(s)'
  BY RunsAssumption, TimeAssumption
  DEF IInv, HeartbeatRead, taskVars, execVars, hbVars, recVars, TypeOK,
      OutcomeKnown, RowShape, RecShape, Unborn, LedgerOpen, Row, NoTask,
      EmptyLedger, Live, Running, Open, Terminal
<1>4. RecShape'
  BY RunsAssumption
  DEF IInv, HeartbeatRead, taskVars, execVars, hbVars, recVars, TypeOK,
      RowShape, RecShape, Row, NoTask, Open, Terminal
<1>5. QED
  BY <1>1, <1>2, <1>3, <1>4 DEF IInv

\* HeartbeatRefused keeps the invariant.
LEMMA HeartbeatRefusedKeeps ==
    ASSUME IInv, NEW r \in Runs, HeartbeatRefused(r)
    PROVE  IInv'
<1>1. TypeOK'
  BY RunsAssumption, TimeAssumption
  DEF IInv, HeartbeatRefused, taskVars, execVars, hbVars, recVars,
      CancelExecution, HeartbeatReason, TypeOK, Row, NoTask, NoLease,
      EmptyLedger, Live, Running, Open, Terminal, RunWords
<1>2. OutcomeKnown'
  BY
  DEF IInv, HeartbeatRefused, taskVars, execVars, hbVars, recVars,
      CancelExecution, HeartbeatReason, TypeOK, OutcomeKnown, Live, Running,
      RunWords,
     Terminal
<1>3. ASSUME NEW s \in Runs PROVE RowShape(s)'
  BY RunsAssumption, TimeAssumption
  DEF IInv, HeartbeatRefused, taskVars, execVars, hbVars, recVars,
      CancelExecution, HeartbeatReason, TypeOK, OutcomeKnown, RowShape,
      RecShape, Unborn, LedgerOpen, Row, NoTask, EmptyLedger, Live, Running,
      Open, Terminal
<1>4. RecShape'
  BY RunsAssumption
  DEF IInv, HeartbeatRefused, taskVars, execVars, hbVars, recVars,
      CancelExecution, HeartbeatReason, TypeOK, RowShape, RecShape, Row,
      NoTask, Open, Terminal
<1>5. QED
  BY <1>1, <1>2, <1>3, <1>4 DEF IInv

\* HeartbeatRenews keeps the invariant.
LEMMA HeartbeatRenewsKeeps ==
    ASSUME IInv, NEW r \in Runs, HeartbeatRenews(r)
    PROVE  IInv'
<1>a. /\ Renewed(task[r], hbAt[r]) \in Row
      /\ Renewed(task[r], hbAt[r]).status = task[r].status
      /\ Renewed(task[r], hbAt[r]).token = task[r].token
  BY RenewedRow DEF IInv, TypeOK
<1>1. TypeOK'
  <2>1. task' \in [Runs -> Row]
    BY <1>a, RunsAssumption, TimeAssumption
    DEF IInv, HeartbeatRenews, taskVars, execVars, hbVars, recVars, TypeOK,
        Row, NoTask, Open, Terminal
  <2>2. ledger' \in [Runs -> Head]
    BY <1>a, RunsAssumption
    DEF IInv, HeartbeatRenews, taskVars, execVars, hbVars, recVars, TypeOK,
        Head
  <2>3. now' \in Nat /\ run' \in [Runs -> {"absent"} \cup Open \cup RunWords]
    BY <1>a, RunsAssumption
    DEF IInv, HeartbeatRenews, taskVars, execVars, hbVars, recVars, TypeOK,
        Row, NoTask, NoLease, EmptyLedger, Live, Running, Open, Terminal,
        RunWords
  <2>4. rop' \in [Runs -> {"absent", "prepared", "running"} \cup Terminal]
    BY <1>a, RunsAssumption
    DEF IInv, HeartbeatRenews, taskVars, execVars, hbVars, recVars, TypeOK,
        Row, NoTask, NoLease, EmptyLedger, Live, Running, Open, Terminal,
        RunWords
  <2>5. QED
    BY <1>a, <2>1, <2>2, <2>3, <2>4, RunsAssumption, TimeAssumption
    DEF IInv, HeartbeatRenews, taskVars, execVars, hbVars, recVars, TypeOK,
        Head, NoLease, Row, Live, Running, NoTask, Terminal, RunWords
<1>2. OutcomeKnown'
  BY
  DEF IInv, HeartbeatRenews, taskVars, execVars, hbVars, recVars, TypeOK,
      OutcomeKnown, Live, Running, RunWords,
     Terminal
<1>3. ASSUME NEW s \in Runs PROVE RowShape(s)'
  BY <1>a, RunsAssumption, TimeAssumption
  DEF IInv, HeartbeatRenews, taskVars, execVars, hbVars, recVars, TypeOK,
      OutcomeKnown, RowShape, RecShape, Unborn, LedgerOpen, Row, NoTask,
      EmptyLedger, Live, Running, Open, Terminal
<1>4. RecShape'
  BY <1>a, RunsAssumption
  DEF IInv, HeartbeatRenews, taskVars, execVars, hbVars, recVars, TypeOK,
      RowShape, RecShape, Row, NoTask, Open, Terminal
<1>5. QED
  BY <1>1, <1>2, <1>3, <1>4 DEF IInv

\* HeartbeatLost keeps the invariant.
LEMMA HeartbeatLostKeeps ==
    ASSUME IInv, NEW r \in Runs, HeartbeatLost(r)
    PROVE  IInv'
<1>1. TypeOK'
  BY RunsAssumption, TimeAssumption
  DEF IInv, HeartbeatLost, taskVars, execVars, hbVars, recVars,
      CancelExecution, TypeOK, Row, NoTask, NoLease, EmptyLedger, Live,
      Running, Open, Terminal, RunWords
<1>2. OutcomeKnown'
  BY
  DEF IInv, HeartbeatLost, taskVars, execVars, hbVars, recVars,
      CancelExecution, TypeOK, OutcomeKnown, Live, Running, RunWords,
     Terminal
<1>3. ASSUME NEW s \in Runs PROVE RowShape(s)'
  BY RunsAssumption, TimeAssumption
  DEF IInv, HeartbeatLost, taskVars, execVars, hbVars, recVars,
      CancelExecution, TypeOK, OutcomeKnown, RowShape, RecShape, Unborn,
      LedgerOpen, Row, NoTask, EmptyLedger, Live, Running, Open, Terminal
<1>4. RecShape'
  BY RunsAssumption
  DEF IInv, HeartbeatLost, taskVars, execVars, hbVars, recVars,
      CancelExecution, TypeOK, RowShape, RecShape, Row, NoTask, Open, Terminal
<1>5. QED
  BY <1>1, <1>2, <1>3, <1>4 DEF IInv

\* PrepareEffect keeps the invariant.
LEMMA PrepareEffectKeeps ==
    ASSUME IInv, NEW r \in Runs, PrepareEffect(r)
    PROVE  IInv'
<1>a. /\ ledger[r] \in Head
      /\ ledger \in [Runs -> Head]
      /\ Appended(ledger[r]) \in Head
      /\ Appended(Appended(ledger[r])) \in Head
      /\ Appended(ledger[r]).last > 0
      /\ Appended(Appended(ledger[r])).last > 0
      /\ Appended(ledger[r]).terminal = ledger[r].terminal
      /\ Appended(Appended(ledger[r])).terminal = ledger[r].terminal
  BY AppendedHead DEF IInv, TypeOK, Head
<1>1. TypeOK'
  <2>1. task' \in [Runs -> Row]
    BY <1>a, RunsAssumption, TimeAssumption
    DEF IInv, PrepareEffect, taskVars, execVars, hbVars, recVars, TypeOK, Row,
        NoTask, Open, Terminal
  <2>2. ledger' \in [Runs -> Head]
    BY <1>a, RunsAssumption
    DEF IInv, PrepareEffect, taskVars, execVars, hbVars, recVars, TypeOK, Head
  <2>3. now' \in Nat /\ run' \in [Runs -> {"absent"} \cup Open \cup RunWords]
    BY <1>a, RunsAssumption
    DEF IInv, PrepareEffect, taskVars, execVars, hbVars, recVars, TypeOK, Row,
        NoTask, NoLease, EmptyLedger, Live, Running, Open, Terminal, RunWords
  <2>4. rop' \in [Runs -> {"absent", "prepared", "running"} \cup Terminal]
    BY <1>a, RunsAssumption
    DEF IInv, PrepareEffect, taskVars, execVars, hbVars, recVars, TypeOK, Row,
        NoTask, NoLease, EmptyLedger, Live, Running, Open, Terminal, RunWords
  <2>5. QED
    BY <1>a, <2>1, <2>2, <2>3, <2>4, RunsAssumption, TimeAssumption
    DEF IInv, PrepareEffect, taskVars, execVars, hbVars, recVars, TypeOK, Head,
        NoLease, Row, Live, Running, NoTask, Terminal, RunWords
<1>2. OutcomeKnown'
  BY
  DEF IInv, PrepareEffect, taskVars, execVars, hbVars, recVars, TypeOK,
      OutcomeKnown, Live, Running, RunWords,
     Terminal
<1>3. ASSUME NEW s \in Runs PROVE RowShape(s)'
  BY <1>a, RunsAssumption, TimeAssumption
  DEF IInv, PrepareEffect, taskVars, execVars, hbVars, recVars, TypeOK,
      OutcomeKnown, RowShape, RecShape, Unborn, LedgerOpen, Row, NoTask,
      EmptyLedger, Live, Running, Open, Terminal
<1>4. RecShape'
  BY <1>a, RunsAssumption
  DEF IInv, PrepareEffect, taskVars, execVars, hbVars, recVars, TypeOK,
      RowShape, RecShape, Row, NoTask, Open, Terminal
<1>5. QED
  BY <1>1, <1>2, <1>3, <1>4 DEF IInv

\* ToolReturns keeps the invariant.
LEMMA ToolReturnsKeeps ==
    ASSUME IInv, NEW r \in Runs, ToolReturns(r)
    PROVE  IInv'
<1>a. /\ ledger[r] \in Head
      /\ ledger \in [Runs -> Head]
      /\ Appended(ledger[r]) \in Head
      /\ Appended(Appended(ledger[r])) \in Head
      /\ Appended(ledger[r]).last > 0
      /\ Appended(Appended(ledger[r])).last > 0
      /\ Appended(ledger[r]).terminal = ledger[r].terminal
      /\ Appended(Appended(ledger[r])).terminal = ledger[r].terminal
  BY AppendedHead DEF IInv, TypeOK, Head
<1>1. TypeOK'
  <2>1. task' \in [Runs -> Row]
    BY <1>a, RunsAssumption, TimeAssumption
    DEF IInv, ToolReturns, taskVars, execVars, hbVars, recVars, SettleEffect,
        TypeOK, Row, NoTask, Open, Terminal
  <2>2. ledger' \in [Runs -> Head]
    BY <1>a, RunsAssumption
    DEF IInv, ToolReturns, taskVars, execVars, hbVars, recVars, SettleEffect,
        TypeOK, Head
  <2>3. now' \in Nat /\ run' \in [Runs -> {"absent"} \cup Open \cup RunWords]
    BY <1>a, RunsAssumption
    DEF IInv, ToolReturns, taskVars, execVars, hbVars, recVars, SettleEffect,
        TypeOK, Row, NoTask, NoLease, EmptyLedger, Live, Running, Open,
        Terminal, RunWords
  <2>4. rop' \in [Runs -> {"absent", "prepared", "running"} \cup Terminal]
    BY <1>a, RunsAssumption
    DEF IInv, ToolReturns, taskVars, execVars, hbVars, recVars, SettleEffect,
        TypeOK, Row, NoTask, NoLease, EmptyLedger, Live, Running, Open,
        Terminal, RunWords
  <2>5. QED
    BY <1>a, <2>1, <2>2, <2>3, <2>4, RunsAssumption, TimeAssumption
    DEF IInv, ToolReturns, taskVars, execVars, hbVars, recVars, SettleEffect,
        TypeOK, Head, NoLease, Row, Live, Running, NoTask, Terminal, RunWords
<1>2. OutcomeKnown'
  BY
  DEF IInv, ToolReturns, taskVars, execVars, hbVars, recVars, SettleEffect,
      TypeOK, OutcomeKnown, Live, Running, RunWords,
     Terminal
<1>3. ASSUME NEW s \in Runs PROVE RowShape(s)'
  BY <1>a, RunsAssumption, TimeAssumption
  DEF IInv, ToolReturns, taskVars, execVars, hbVars, recVars, SettleEffect,
      TypeOK, OutcomeKnown, RowShape, RecShape, Unborn, LedgerOpen, Row,
      NoTask, EmptyLedger, Live, Running, Open, Terminal
<1>4. RecShape'
  BY <1>a, RunsAssumption
  DEF IInv, ToolReturns, taskVars, execVars, hbVars, recVars, SettleEffect,
      TypeOK, RowShape, RecShape, Row, NoTask, Open, Terminal
<1>5. QED
  BY <1>1, <1>2, <1>3, <1>4 DEF IInv

\* ToolUnknown keeps the invariant.
LEMMA ToolUnknownKeeps ==
    ASSUME IInv, NEW r \in Runs, ToolUnknown(r)
    PROVE  IInv'
<1>a. /\ ledger[r] \in Head
      /\ ledger \in [Runs -> Head]
      /\ Appended(ledger[r]) \in Head
      /\ Appended(Appended(ledger[r])) \in Head
      /\ Appended(ledger[r]).last > 0
      /\ Appended(Appended(ledger[r])).last > 0
      /\ Appended(ledger[r]).terminal = ledger[r].terminal
      /\ Appended(Appended(ledger[r])).terminal = ledger[r].terminal
  BY AppendedHead DEF IInv, TypeOK, Head
<1>1. TypeOK'
  <2>1. task' \in [Runs -> Row]
    BY <1>a, RunsAssumption, TimeAssumption
    DEF IInv, ToolUnknown, taskVars, execVars, hbVars, recVars, SettleEffect,
        TypeOK, Row, NoTask, Open, Terminal
  <2>2. ledger' \in [Runs -> Head]
    BY <1>a, RunsAssumption
    DEF IInv, ToolUnknown, taskVars, execVars, hbVars, recVars, SettleEffect,
        TypeOK, Head
  <2>3. now' \in Nat /\ run' \in [Runs -> {"absent"} \cup Open \cup RunWords]
    BY <1>a, RunsAssumption
    DEF IInv, ToolUnknown, taskVars, execVars, hbVars, recVars, SettleEffect,
        TypeOK, Row, NoTask, NoLease, EmptyLedger, Live, Running, Open,
        Terminal, RunWords
  <2>4. rop' \in [Runs -> {"absent", "prepared", "running"} \cup Terminal]
    BY <1>a, RunsAssumption
    DEF IInv, ToolUnknown, taskVars, execVars, hbVars, recVars, SettleEffect,
        TypeOK, Row, NoTask, NoLease, EmptyLedger, Live, Running, Open,
        Terminal, RunWords
  <2>5. QED
    BY <1>a, <2>1, <2>2, <2>3, <2>4, RunsAssumption, TimeAssumption
    DEF IInv, ToolUnknown, taskVars, execVars, hbVars, recVars, SettleEffect,
        TypeOK, Head, NoLease, Row, Live, Running, NoTask, Terminal, RunWords
<1>2. OutcomeKnown'
  BY
  DEF IInv, ToolUnknown, taskVars, execVars, hbVars, recVars, SettleEffect,
      TypeOK, OutcomeKnown, Live, Running, RunWords,
     Terminal
<1>3. ASSUME NEW s \in Runs PROVE RowShape(s)'
  BY <1>a, RunsAssumption, TimeAssumption
  DEF IInv, ToolUnknown, taskVars, execVars, hbVars, recVars, SettleEffect,
      TypeOK, OutcomeKnown, RowShape, RecShape, Unborn, LedgerOpen, Row,
      NoTask, EmptyLedger, Live, Running, Open, Terminal
<1>4. RecShape'
  BY <1>a, RunsAssumption
  DEF IInv, ToolUnknown, taskVars, execVars, hbVars, recVars, SettleEffect,
      TypeOK, RowShape, RecShape, Row, NoTask, Open, Terminal
<1>5. QED
  BY <1>1, <1>2, <1>3, <1>4 DEF IInv

\* ToolUnconfirmed keeps the invariant.
LEMMA ToolUnconfirmedKeeps ==
    ASSUME IInv, NEW r \in Runs, ToolUnconfirmed(r)
    PROVE  IInv'
<1>1. TypeOK'
  BY RunsAssumption, TimeAssumption
  DEF IInv, ToolUnconfirmed, taskVars, execVars, hbVars, recVars, TypeOK, Row,
      NoTask, NoLease, EmptyLedger, Live, Running, Open, Terminal, RunWords
<1>2. OutcomeKnown'
  BY
  DEF IInv, ToolUnconfirmed, taskVars, execVars, hbVars, recVars, TypeOK,
      OutcomeKnown, Live, Running, RunWords,
     Terminal
<1>3. ASSUME NEW s \in Runs PROVE RowShape(s)'
  BY RunsAssumption, TimeAssumption
  DEF IInv, ToolUnconfirmed, taskVars, execVars, hbVars, recVars, TypeOK,
      OutcomeKnown, RowShape, RecShape, Unborn, LedgerOpen, Row, NoTask,
      EmptyLedger, Live, Running, Open, Terminal
<1>4. RecShape'
  BY RunsAssumption
  DEF IInv, ToolUnconfirmed, taskVars, execVars, hbVars, recVars, TypeOK,
      RowShape, RecShape, Row, NoTask, Open, Terminal
<1>5. QED
  BY <1>1, <1>2, <1>3, <1>4 DEF IInv

\* ReportAmbiguous keeps the invariant.
LEMMA ReportAmbiguousKeeps ==
    ASSUME IInv, NEW r \in Runs, ReportAmbiguous(r)
    PROVE  IInv'
<1>a. /\ ledger[r] \in Head
      /\ ledger \in [Runs -> Head]
      /\ Appended(ledger[r]) \in Head
      /\ Appended(Appended(ledger[r])) \in Head
      /\ Appended(ledger[r]).last > 0
      /\ Appended(Appended(ledger[r])).last > 0
      /\ Appended(ledger[r]).terminal = ledger[r].terminal
      /\ Appended(Appended(ledger[r])).terminal = ledger[r].terminal
  BY AppendedHead DEF IInv, TypeOK, Head
<1>1. TypeOK'
  <2>1. task' \in [Runs -> Row]
    BY <1>a, RunsAssumption, TimeAssumption
    DEF IInv, ReportAmbiguous, taskVars, execVars, hbVars, recVars,
        TypeOK, Row, NoTask, Open, Terminal
  <2>2. ledger' \in [Runs -> Head]
    BY <1>a, RunsAssumption
    DEF IInv, ReportAmbiguous, taskVars, execVars, hbVars, recVars,
        TypeOK, Head
  <2>3. now' \in Nat /\ run' \in [Runs -> {"absent"} \cup Open \cup RunWords]
    BY <1>a, RunsAssumption
    DEF IInv, ReportAmbiguous, taskVars, execVars, hbVars, recVars,
        TypeOK, Row, NoTask, NoLease, EmptyLedger, Live, Running, Open,
        Terminal, RunWords
  <2>4. rop' \in [Runs -> {"absent", "prepared", "running"} \cup Terminal]
    BY <1>a, RunsAssumption
    DEF IInv, ReportAmbiguous, taskVars, execVars, hbVars, recVars,
        TypeOK, Row, NoTask, NoLease, EmptyLedger, Live, Running, Open,
        Terminal, RunWords
  <2>5. QED
    BY <1>a, <2>1, <2>2, <2>3, <2>4, RunsAssumption, TimeAssumption
    DEF IInv, ReportAmbiguous, taskVars, execVars, hbVars, recVars,
        TypeOK, Head, NoLease, Row, Live, Running, NoTask, Terminal, RunWords
<1>2. OutcomeKnown'
  BY
  DEF IInv, ReportAmbiguous, taskVars, execVars, hbVars, recVars,
      TypeOK, OutcomeKnown, Live, Running, RunWords,
     Terminal
<1>3. ASSUME NEW s \in Runs PROVE RowShape(s)'
  BY <1>a, RunsAssumption, TimeAssumption
  DEF IInv, ReportAmbiguous, taskVars, execVars, hbVars, recVars,
      TypeOK, OutcomeKnown, RowShape, RecShape, Unborn, LedgerOpen, Row,
      NoTask, EmptyLedger, Live, Running, Open, Terminal
<1>4. RecShape'
  BY <1>a, RunsAssumption
  DEF IInv, ReportAmbiguous, taskVars, execVars, hbVars, recVars,
      TypeOK, RowShape, RecShape, Row, NoTask, Open, Terminal
<1>5. QED
  BY <1>1, <1>2, <1>3, <1>4 DEF IInv

\* ReportFails keeps the invariant.
LEMMA ReportFailsKeeps ==
    ASSUME IInv, NEW r \in Runs, ReportFails(r)
    PROVE  IInv'
<1>1. TypeOK'
  BY RunsAssumption, TimeAssumption
  DEF IInv, ReportFails, taskVars, execVars, hbVars, recVars, TypeOK, Row,
      NoTask, NoLease, EmptyLedger, Live, Running, Open, Terminal, RunWords
<1>2. OutcomeKnown'
  BY
  DEF IInv, ReportFails, taskVars, execVars, hbVars, recVars, TypeOK,
      OutcomeKnown, Live, Running, RunWords,
     Terminal
<1>3. ASSUME NEW s \in Runs PROVE RowShape(s)'
  BY RunsAssumption, TimeAssumption
  DEF IInv, ReportFails, taskVars, execVars, hbVars, recVars, TypeOK,
      OutcomeKnown, RowShape, RecShape, Unborn, LedgerOpen, Row, NoTask,
      EmptyLedger, Live, Running, Open, Terminal
<1>4. RecShape'
  BY RunsAssumption
  DEF IInv, ReportFails, taskVars, execVars, hbVars, recVars, TypeOK,
      RowShape, RecShape, Row, NoTask, Open, Terminal
<1>5. QED
  BY <1>1, <1>2, <1>3, <1>4 DEF IInv

\* ReportSwallowed keeps the invariant.
LEMMA ReportSwallowedKeeps ==
    ASSUME IInv, NEW r \in Runs, ReportSwallowed(r)
    PROVE  IInv'
<1>1. TypeOK'
  BY RunsAssumption, TimeAssumption
  DEF IInv, ReportSwallowed, taskVars, execVars, hbVars, recVars, TypeOK, Row,
      NoTask, NoLease, EmptyLedger, Live, Running, Open, Terminal, RunWords
<1>2. OutcomeKnown'
  BY
  DEF IInv, ReportSwallowed, taskVars, execVars, hbVars, recVars, TypeOK,
      OutcomeKnown, Live, Running, RunWords,
     Terminal
<1>3. ASSUME NEW s \in Runs PROVE RowShape(s)'
  BY RunsAssumption, TimeAssumption
  DEF IInv, ReportSwallowed, taskVars, execVars, hbVars, recVars, TypeOK,
      OutcomeKnown, RowShape, RecShape, Unborn, LedgerOpen, Row, NoTask,
      EmptyLedger, Live, Running, Open, Terminal
<1>4. RecShape'
  BY RunsAssumption
  DEF IInv, ReportSwallowed, taskVars, execVars, hbVars, recVars, TypeOK,
      RowShape, RecShape, Row, NoTask, Open, Terminal
<1>5. QED
  BY <1>1, <1>2, <1>3, <1>4 DEF IInv

\* ExecutionEnds keeps the invariant.
LEMMA ExecutionEndsKeeps ==
    ASSUME IInv, NEW r \in Runs, ExecutionEnds(r)
    PROVE  IInv'
<1>1. TypeOK'
  BY RunsAssumption, TimeAssumption
  DEF IInv, ExecutionEnds, taskVars, execVars, hbVars, recVars, EndWords,
      TypeOK, Row, NoTask, NoLease, EmptyLedger, Live, Running, Open, Terminal,
      RunWords
<1>2. OutcomeKnown'
  BY
  DEF IInv, ExecutionEnds, taskVars, execVars, hbVars, recVars, EndWords,
      TypeOK, OutcomeKnown, Live, Running, RunWords,
     Terminal
<1>3. ASSUME NEW s \in Runs PROVE RowShape(s)'
  BY RunsAssumption, TimeAssumption
  DEF IInv, ExecutionEnds, taskVars, execVars, hbVars, recVars, EndWords,
      TypeOK, OutcomeKnown, RowShape, RecShape, Unborn, LedgerOpen, Row,
      NoTask, EmptyLedger, Live, Running, Open, Terminal
<1>4. RecShape'
  BY RunsAssumption
  DEF IInv, ExecutionEnds, taskVars, execVars, hbVars, recVars, EndWords,
      TypeOK, RowShape, RecShape, Row, NoTask, Open, Terminal
<1>5. QED
  BY <1>1, <1>2, <1>3, <1>4 DEF IInv

\* ExecutionCancelled keeps the invariant.
LEMMA ExecutionCancelledKeeps ==
    ASSUME IInv, NEW r \in Runs, ExecutionCancelled(r)
    PROVE  IInv'
<1>1. TypeOK'
  BY RunsAssumption, TimeAssumption
  DEF IInv, ExecutionCancelled, taskVars, execVars, hbVars, recVars,
      CancelStatus, TypeOK, Row, NoTask, NoLease, EmptyLedger, Live, Running,
      Open, Terminal, RunWords
<1>2. OutcomeKnown'
  BY
  DEF IInv, ExecutionCancelled, taskVars, execVars, hbVars, recVars,
      CancelStatus, TypeOK, OutcomeKnown, Live, Running, RunWords,
     Terminal
<1>3. ASSUME NEW s \in Runs PROVE RowShape(s)'
  BY RunsAssumption, TimeAssumption
  DEF IInv, ExecutionCancelled, taskVars, execVars, hbVars, recVars,
      CancelStatus, TypeOK, OutcomeKnown, RowShape, RecShape, Unborn,
      LedgerOpen, Row, NoTask, EmptyLedger, Live, Running, Open, Terminal
<1>4. RecShape'
  BY RunsAssumption
  DEF IInv, ExecutionCancelled, taskVars, execVars, hbVars, recVars,
      CancelStatus, TypeOK, RowShape, RecShape, Row, NoTask, Open, Terminal
<1>5. QED
  BY <1>1, <1>2, <1>3, <1>4 DEF IInv

\* StopOwner keeps the invariant.
LEMMA StopOwnerKeeps ==
    ASSUME IInv, NEW r \in Runs, StopOwner(r)
    PROVE  IInv'
<1>1. TypeOK'
  BY RunsAssumption, TimeAssumption
  DEF IInv, StopOwner, taskVars, execVars, hbVars, recVars, TypeOK, Row,
      NoTask, NoLease, EmptyLedger, Live, Running, Open, Terminal, RunWords
<1>2. OutcomeKnown'
  BY
  DEF IInv, StopOwner, taskVars, execVars, hbVars, recVars, TypeOK,
      OutcomeKnown, Live, Running, RunWords,
     Terminal
<1>3. ASSUME NEW s \in Runs PROVE RowShape(s)'
  BY RunsAssumption, TimeAssumption
  DEF IInv, StopOwner, taskVars, execVars, hbVars, recVars, TypeOK,
      OutcomeKnown, RowShape, RecShape, Unborn, LedgerOpen, Row, NoTask,
      EmptyLedger, Live, Running, Open, Terminal
<1>4. RecShape'
  BY RunsAssumption
  DEF IInv, StopOwner, taskVars, execVars, hbVars, recVars, TypeOK, RowShape,
      RecShape, Row, NoTask, Open, Terminal
<1>5. QED
  BY <1>1, <1>2, <1>3, <1>4 DEF IInv

\* FinishRun keeps the invariant.
LEMMA FinishRunKeeps ==
    ASSUME IInv, NEW r \in Runs, FinishRun(r)
    PROVE  IInv'
<1>a. /\ outcome[r] \in RunWords
      /\ TaskStatus(outcome[r]) \in Terminal
  BY TaskStatusTerminal DEF IInv, OutcomeKnown, FinishRun
<1>b. /\ Settled(task[r], TaskStatus(outcome[r])) \in Row
      /\ Settled(task[r], TaskStatus(outcome[r])).status = TaskStatus(outcome[r])
      /\ Settled(task[r], TaskStatus(outcome[r])).token = 0
  BY <1>a, SettledRow DEF IInv, TypeOK
<1>c. /\ ledger \in [Runs -> Head]
      /\ Terminated(ledger[r], outcome[r]) \in Head
      /\ Terminated(ledger[r], outcome[r]).terminal > 0
  BY <1>a, TerminatedHead DEF IInv, TypeOK, Head
<1>1. TypeOK'
  <2>1. task' \in [Runs -> Row]
    BY <1>a, <1>b, <1>c, RunsAssumption, TimeAssumption
    DEF IInv, FinishRun, taskVars, execVars, hbVars, recVars, TypeOK, Row,
        NoTask, Open, Terminal
  <2>2. ledger' \in [Runs -> Head]
    BY <1>a, <1>b, <1>c, RunsAssumption
    DEF IInv, FinishRun, taskVars, execVars, hbVars, recVars, TypeOK, Head
  <2>3. now' \in Nat /\ run' \in [Runs -> {"absent"} \cup Open \cup RunWords]
    BY <1>a, <1>b, <1>c, RunsAssumption
    DEF IInv, FinishRun, taskVars, execVars, hbVars, recVars, TypeOK, Row,
        NoTask, NoLease, EmptyLedger, Live, Running, Open, Terminal, RunWords
  <2>4. rop' \in [Runs -> {"absent", "prepared", "running"} \cup Terminal]
    BY <1>a, <1>b, <1>c, RunsAssumption
    DEF IInv, FinishRun, taskVars, execVars, hbVars, recVars, TypeOK, Row,
        NoTask, NoLease, EmptyLedger, Live, Running, Open, Terminal, RunWords
  <2>5. QED
    BY <1>a, <1>b, <1>c, <2>1, <2>2, <2>3, <2>4, RunsAssumption, TimeAssumption
    DEF IInv, FinishRun, taskVars, execVars, hbVars, recVars, TypeOK, Head,
        NoLease, Row, Live, Running, NoTask, Terminal, RunWords
<1>2. OutcomeKnown'
  BY
  DEF IInv, FinishRun, taskVars, execVars, hbVars, recVars, TypeOK,
      OutcomeKnown, Live, Running, RunWords,
     Terminal
<1>3. ASSUME NEW s \in Runs PROVE RowShape(s)'
  BY <1>a, <1>b, <1>c, RunsAssumption, TimeAssumption
  DEF IInv, FinishRun, taskVars, execVars, hbVars, recVars, TypeOK,
      OutcomeKnown, RowShape, RecShape, Unborn, LedgerOpen, Row, NoTask,
      EmptyLedger, Live, Running, Open, Terminal
<1>4. RecShape'
  BY <1>a, <1>b, <1>c, RunsAssumption
  DEF IInv, FinishRun, taskVars, execVars, hbVars, recVars, TypeOK, RowShape,
      RecShape, Row, NoTask, Open, Terminal
<1>5. QED
  BY <1>1, <1>2, <1>3, <1>4 DEF IInv

\* FinishFails keeps the invariant.
LEMMA FinishFailsKeeps ==
    ASSUME IInv, NEW r \in Runs, FinishFails(r)
    PROVE  IInv'
<1>1. TypeOK'
  BY RunsAssumption, TimeAssumption
  DEF IInv, FinishFails, taskVars, execVars, hbVars, recVars, TypeOK, Row,
      NoTask, NoLease, EmptyLedger, Live, Running, Open, Terminal, RunWords
<1>2. OutcomeKnown'
  BY
  DEF IInv, FinishFails, taskVars, execVars, hbVars, recVars, TypeOK,
      OutcomeKnown, Live, Running, RunWords,
     Terminal
<1>3. ASSUME NEW s \in Runs PROVE RowShape(s)'
  BY RunsAssumption, TimeAssumption
  DEF IInv, FinishFails, taskVars, execVars, hbVars, recVars, TypeOK,
      OutcomeKnown, RowShape, RecShape, Unborn, LedgerOpen, Row, NoTask,
      EmptyLedger, Live, Running, Open, Terminal
<1>4. RecShape'
  BY RunsAssumption
  DEF IInv, FinishFails, taskVars, execVars, hbVars, recVars, TypeOK, RowShape,
      RecShape, Row, NoTask, Open, Terminal
<1>5. QED
  BY <1>1, <1>2, <1>3, <1>4 DEF IInv

\* Crash keeps the invariant.
LEMMA CrashKeeps ==
    ASSUME IInv, NEW r \in Runs, Crash(r)
    PROVE  IInv'
<1>1. TypeOK'
  BY RunsAssumption, TimeAssumption
  DEF IInv, Crash, taskVars, execVars, hbVars, recVars, TypeOK, Row, NoTask,
      NoLease, EmptyLedger, Live, Running, Open, Terminal, RunWords
<1>2. OutcomeKnown'
  BY
  DEF IInv, Crash, taskVars, execVars, hbVars, recVars, TypeOK, OutcomeKnown,
      Live, Running, RunWords,
     Terminal
<1>3. ASSUME NEW s \in Runs PROVE RowShape(s)'
  BY RunsAssumption, TimeAssumption
  DEF IInv, Crash, taskVars, execVars, hbVars, recVars, TypeOK, OutcomeKnown,
      RowShape, RecShape, Unborn, LedgerOpen, Row, NoTask, EmptyLedger, Live,
      Running, Open, Terminal
<1>4. RecShape'
  BY RunsAssumption
  DEF IInv, Crash, taskVars, execVars, hbVars, recVars, TypeOK, RowShape,
      RecShape, Row, NoTask, Open, Terminal
<1>5. QED
  BY <1>1, <1>2, <1>3, <1>4 DEF IInv

\* RequestCancelRead keeps the invariant.
LEMMA RequestCancelReadKeeps ==
    ASSUME IInv, NEW r \in Runs, RequestCancelRead(r)
    PROVE  IInv'
<1>1. TypeOK'
  BY RunsAssumption, TimeAssumption
  DEF IInv, RequestCancelRead, taskVars, execVars, hbVars, recVars, TypeOK,
      Row, NoTask, NoLease, EmptyLedger, Live, Running, Open, Terminal,
      RunWords
<1>2. OutcomeKnown'
  BY
  DEF IInv, RequestCancelRead, taskVars, execVars, hbVars, recVars, TypeOK,
      OutcomeKnown, Live, Running, RunWords,
     Terminal
<1>3. ASSUME NEW s \in Runs PROVE RowShape(s)'
  BY RunsAssumption, TimeAssumption
  DEF IInv, RequestCancelRead, taskVars, execVars, hbVars, recVars, TypeOK,
      OutcomeKnown, RowShape, RecShape, Unborn, LedgerOpen, Row, NoTask,
      EmptyLedger, Live, Running, Open, Terminal
<1>4. RecShape'
  BY RunsAssumption
  DEF IInv, RequestCancelRead, taskVars, execVars, hbVars, recVars, TypeOK,
      RowShape, RecShape, Row, NoTask, Open, Terminal
<1>5. QED
  BY <1>1, <1>2, <1>3, <1>4 DEF IInv

\* RequestCancelWrite keeps the invariant.
LEMMA RequestCancelWriteKeeps ==
    ASSUME IInv, NEW r \in Runs, RequestCancelWrite(r)
    PROVE  IInv'
<1>a. /\ [task[r] EXCEPT !.cancel = TRUE] \in Row
      /\ task' = [task EXCEPT ![r] = [task[r] EXCEPT !.cancel = TRUE]]
  BY DEF IInv, TypeOK, Row, RequestCancelWrite
<1>1. TypeOK'
  <2>1. task' \in [Runs -> Row]
    BY <1>a, RunsAssumption, TimeAssumption
    DEF IInv, RequestCancelWrite, taskVars, execVars, hbVars, recVars, TypeOK,
        Row, NoTask, Open, Terminal
  <2>2. ledger' \in [Runs -> Head]
    BY <1>a, RunsAssumption
    DEF IInv, RequestCancelWrite, taskVars, execVars, hbVars, recVars, TypeOK,
        Head
  <2>3. now' \in Nat /\ run' \in [Runs -> {"absent"} \cup Open \cup RunWords]
    BY <1>a, RunsAssumption
    DEF IInv, RequestCancelWrite, taskVars, execVars, hbVars, recVars, TypeOK,
        Row, NoTask, NoLease, EmptyLedger, Live, Running, Open, Terminal,
        RunWords
  <2>4. rop' \in [Runs -> {"absent", "prepared", "running"} \cup Terminal]
    BY <1>a, RunsAssumption
    DEF IInv, RequestCancelWrite, taskVars, execVars, hbVars, recVars, TypeOK,
        Row, NoTask, NoLease, EmptyLedger, Live, Running, Open, Terminal,
        RunWords
  <2>5. QED
    BY <1>a, <2>1, <2>2, <2>3, <2>4, RunsAssumption, TimeAssumption
    DEF IInv, RequestCancelWrite, taskVars, execVars, hbVars, recVars, TypeOK,
        Head, NoLease, Row, Live, Running, NoTask, Terminal, RunWords
<1>2. OutcomeKnown'
  BY
  DEF IInv, RequestCancelWrite, taskVars, execVars, hbVars, recVars, TypeOK,
      OutcomeKnown, Live, Running, RunWords,
     Terminal
<1>3. ASSUME NEW s \in Runs PROVE RowShape(s)'
  BY <1>a, RunsAssumption, TimeAssumption
  DEF IInv, RequestCancelWrite, taskVars, execVars, hbVars, recVars, TypeOK,
      OutcomeKnown, RowShape, RecShape, Unborn, LedgerOpen, Row, NoTask,
      EmptyLedger, Live, Running, Open, Terminal
<1>4. RecShape'
  BY <1>a, RunsAssumption
  DEF IInv, RequestCancelWrite, taskVars, execVars, hbVars, recVars, TypeOK,
      RowShape, RecShape, Row, NoTask, Open, Terminal
<1>5. QED
  BY <1>1, <1>2, <1>3, <1>4 DEF IInv

\* ReconcileDecide keeps the invariant.
LEMMA ReconcileDecideKeeps ==
    ASSUME IInv, NEW r \in Runs, ReconcileDecide(r)
    PROVE  IInv'
<1>1. TypeOK'
  BY RunsAssumption, TimeAssumption
  DEF IInv, ReconcileDecide, taskVars, execVars, hbVars, recVars,
      ExpiredStatus, TypeOK, Row, NoTask, NoLease, EmptyLedger, Live, Running,
      Open, Terminal, RunWords
<1>2. OutcomeKnown'
  BY
  DEF IInv, ReconcileDecide, taskVars, execVars, hbVars, recVars,
      ExpiredStatus, TypeOK, OutcomeKnown, Live, Running, RunWords,
     Terminal
<1>3. ASSUME NEW s \in Runs PROVE RowShape(s)'
  BY RunsAssumption, TimeAssumption
  DEF IInv, ReconcileDecide, taskVars, execVars, hbVars, recVars,
      ExpiredStatus, TypeOK, OutcomeKnown, RowShape, RecShape, Unborn,
      LedgerOpen, Row, NoTask, EmptyLedger, Live, Running, Open, Terminal
<1>4. RecShape'
  BY RunsAssumption
  DEF IInv, ReconcileDecide, taskVars, execVars, hbVars, recVars,
      ExpiredStatus, TypeOK, RowShape, RecShape, Row, NoTask, Open, Terminal
<1>5. QED
  BY <1>1, <1>2, <1>3, <1>4 DEF IInv

\* ReconcileScan keeps the invariant.
LEMMA ReconcileScanKeeps ==
    ASSUME IInv, ReconcileScan
    PROVE  IInv'
<1>1. TypeOK'
  BY RunsAssumption, TimeAssumption
  DEF IInv, ReconcileScan, taskVars, execVars, hbVars, recVars, Candidates,
      Expired, TypeOK, Row, NoTask, NoLease, EmptyLedger, Live, Running, Open,
      Terminal, RunWords
<1>2. OutcomeKnown'
  BY
  DEF IInv, ReconcileScan, taskVars, execVars, hbVars, recVars, Candidates,
      Expired, TypeOK, OutcomeKnown, Live, Running, RunWords,
     Terminal
<1>3. ASSUME NEW s \in Runs PROVE RowShape(s)'
  BY RunsAssumption, TimeAssumption
  DEF IInv, ReconcileScan, taskVars, execVars, hbVars, recVars, Candidates,
      Expired, TypeOK, OutcomeKnown, RowShape, RecShape, Unborn, LedgerOpen,
      Row, NoTask, EmptyLedger, Live, Running, Open, Terminal
<1>4. RecShape'
  BY RunsAssumption
  DEF IInv, ReconcileScan, taskVars, execVars, hbVars, recVars, Candidates,
      Expired, TypeOK, RowShape, RecShape, Row, NoTask, Open, Terminal
<1>5. QED
  BY <1>1, <1>2, <1>3, <1>4 DEF IInv

\* ReconcileSettles keeps the invariant.
LEMMA ReconcileSettlesKeeps ==
    ASSUME IInv, ReconcileSettles
    PROVE  IInv'
<1>a. recRun \in Runs /\ recStatus \in Terminal /\ recStatus \in RunWords
  BY DEF IInv, TypeOK, RunWords
<1>b. /\ Settled(task[recRun], recStatus) \in Row
      /\ Settled(task[recRun], recStatus).status = recStatus
      /\ Settled(task[recRun], recStatus).token = 0
  BY <1>a, SettledRow DEF IInv, TypeOK
<1>c. /\ ledger \in [Runs -> Head]
      /\ Terminated(ledger[recRun], recStatus) \in Head
      /\ Terminated(ledger[recRun], recStatus).terminal > 0
  BY <1>a, TerminatedHead DEF IInv, TypeOK, Head
<1>1. TypeOK'
  <2>1. task' \in [Runs -> Row]
    BY <1>a, <1>b, <1>c, RunsAssumption, TimeAssumption
    DEF IInv, ReconcileSettles, taskVars, execVars, hbVars, recVars,
        ReconcileHits, ReconcileNext, TypeOK, Row, NoTask, Open, Terminal
  <2>2. ledger' \in [Runs -> Head]
    BY <1>a, <1>b, <1>c, RunsAssumption
    DEF IInv, ReconcileSettles, taskVars, execVars, hbVars, recVars,
        ReconcileHits, ReconcileNext, TypeOK, Head
  <2>3. now' \in Nat /\ run' \in [Runs -> {"absent"} \cup Open \cup RunWords]
    BY <1>a, <1>b, <1>c, RunsAssumption
    DEF IInv, ReconcileSettles, taskVars, execVars, hbVars, recVars,
        ReconcileHits, ReconcileNext, TypeOK, Row, NoTask, NoLease,
        EmptyLedger, Live, Running, Open, Terminal, RunWords
  <2>4. rop' \in [Runs -> {"absent", "prepared", "running"} \cup Terminal]
    BY <1>a, <1>b, <1>c, RunsAssumption
    DEF IInv, ReconcileSettles, taskVars, execVars, hbVars, recVars,
        ReconcileHits, ReconcileNext, TypeOK, Row, NoTask, NoLease,
        EmptyLedger, Live, Running, Open, Terminal, RunWords
  <2>5. QED
    BY <1>a, <1>b, <1>c, <2>1, <2>2, <2>3, <2>4, RunsAssumption, TimeAssumption
    DEF IInv, ReconcileSettles, taskVars, execVars, hbVars, recVars,
        ReconcileHits, ReconcileNext, TypeOK, Head, NoLease, Row, Live,
        Running, NoTask, Terminal, RunWords
<1>2. OutcomeKnown'
  BY
  DEF IInv, ReconcileSettles, taskVars, execVars, hbVars, recVars,
      ReconcileHits, ReconcileNext, TypeOK, OutcomeKnown, Live, Running,
      RunWords,
     Terminal
<1>3. ASSUME NEW s \in Runs PROVE RowShape(s)'
  BY <1>a, <1>b, <1>c, RunsAssumption, TimeAssumption
  DEF IInv, ReconcileSettles, taskVars, execVars, hbVars, recVars,
      ReconcileHits, ReconcileNext, TypeOK, OutcomeKnown, RowShape, RecShape,
      Unborn, LedgerOpen, Row, NoTask, EmptyLedger, Live, Running, Open,
      Terminal
<1>4. RecShape'
  BY <1>a, <1>b, <1>c, RunsAssumption
  DEF IInv, ReconcileSettles, taskVars, execVars, hbVars, recVars,
      ReconcileHits, ReconcileNext, TypeOK, RowShape, RecShape, Row, NoTask,
      Open, Terminal
<1>5. QED
  BY <1>1, <1>2, <1>3, <1>4 DEF IInv

\* ReconcileMisses keeps the invariant.
LEMMA ReconcileMissesKeeps ==
    ASSUME IInv, ReconcileMisses
    PROVE  IInv'
<1>1. TypeOK'
  BY RunsAssumption, TimeAssumption
  DEF IInv, ReconcileMisses, taskVars, execVars, hbVars, recVars,
      ReconcileNext, TypeOK, Row, NoTask, NoLease, EmptyLedger, Live, Running,
      Open, Terminal, RunWords
<1>2. OutcomeKnown'
  BY
  DEF IInv, ReconcileMisses, taskVars, execVars, hbVars, recVars,
      ReconcileNext, TypeOK, OutcomeKnown, Live, Running, RunWords,
     Terminal
<1>3. ASSUME NEW s \in Runs PROVE RowShape(s)'
  BY RunsAssumption, TimeAssumption
  DEF IInv, ReconcileMisses, taskVars, execVars, hbVars, recVars,
      ReconcileNext, TypeOK, OutcomeKnown, RowShape, RecShape, Unborn,
      LedgerOpen, Row, NoTask, EmptyLedger, Live, Running, Open, Terminal
<1>4. RecShape'
  BY RunsAssumption
  DEF IInv, ReconcileMisses, taskVars, execVars, hbVars, recVars,
      ReconcileNext, TypeOK, RowShape, RecShape, Row, NoTask, Open, Terminal
<1>5. QED
  BY <1>1, <1>2, <1>3, <1>4 DEF IInv

\* ReconcileAborts keeps the invariant.
LEMMA ReconcileAbortsKeeps ==
    ASSUME IInv, ReconcileAborts
    PROVE  IInv'
<1>1. TypeOK'
  BY RunsAssumption, TimeAssumption
  DEF IInv, ReconcileAborts, taskVars, execVars, hbVars, recVars, TypeOK, Row,
      NoTask, NoLease, EmptyLedger, Live, Running, Open, Terminal, RunWords
<1>2. OutcomeKnown'
  BY
  DEF IInv, ReconcileAborts, taskVars, execVars, hbVars, recVars, TypeOK,
      OutcomeKnown, Live, Running, RunWords,
     Terminal
<1>3. ASSUME NEW s \in Runs PROVE RowShape(s)'
  BY RunsAssumption, TimeAssumption
  DEF IInv, ReconcileAborts, taskVars, execVars, hbVars, recVars, TypeOK,
      OutcomeKnown, RowShape, RecShape, Unborn, LedgerOpen, Row, NoTask,
      EmptyLedger, Live, Running, Open, Terminal
<1>4. RecShape'
  BY RunsAssumption
  DEF IInv, ReconcileAborts, taskVars, execVars, hbVars, recVars, TypeOK,
      RowShape, RecShape, Row, NoTask, Open, Terminal
<1>5. QED
  BY <1>1, <1>2, <1>3, <1>4 DEF IInv

\* Tick keeps the invariant.
LEMMA TickKeeps ==
    ASSUME IInv, Tick
    PROVE  IInv'
<1>1. TypeOK'
  BY RunsAssumption, TimeAssumption
  DEF IInv, Tick, taskVars, execVars, hbVars, recVars, TypeOK, Row, NoTask,
      NoLease, EmptyLedger, Live, Running, Open, Terminal, RunWords
<1>2. OutcomeKnown'
  BY
  DEF IInv, Tick, taskVars, execVars, hbVars, recVars, TypeOK, OutcomeKnown,
      Live, Running, RunWords,
     Terminal
<1>3. ASSUME NEW s \in Runs PROVE RowShape(s)'
  BY RunsAssumption, TimeAssumption
  DEF IInv, Tick, taskVars, execVars, hbVars, recVars, TypeOK, OutcomeKnown,
      RowShape, RecShape, Unborn, LedgerOpen, Row, NoTask, EmptyLedger, Live,
      Running, Open, Terminal
<1>4. RecShape'
  BY RunsAssumption
  DEF IInv, Tick, taskVars, execVars, hbVars, recVars, TypeOK, RowShape,
      RecShape, Row, NoTask, Open, Terminal
<1>5. QED
  BY <1>1, <1>2, <1>3, <1>4 DEF IInv

\* The initial state satisfies the invariant.
LEMMA InitIInv == Init => IInv
<1> SUFFICES ASSUME Init PROVE IInv
  OBVIOUS
<1>1. TypeOK
  BY DEF Init, TypeOK, Row, NoTask, NoLease, EmptyLedger, Terminal
<1>2. OutcomeKnown
  BY DEF Init, OutcomeKnown
<1>3. ASSUME NEW r \in Runs PROVE RowShape(r)
  BY DEF Init, RowShape, Unborn, NoTask, Terminal
<1>4. RecShape
  BY DEF Init, RecShape
<1>5. QED
  BY <1>1, <1>2, <1>3, <1>4 DEF IInv

\* Every step preserves the invariant.
LEMMA NextIInv == IInv /\ [Next]_vars => IInv'
<1> SUFFICES ASSUME IInv, [Next]_vars PROVE IInv'
  OBVIOUS
<1>1. CASE UNCHANGED vars
  BY <1>1 DEF vars, IInv, TypeOK, OutcomeKnown, RowShape, RecShape, Unborn,
              LedgerOpen
<1>2. ASSUME NEW r \in Runs, AdmitRunning(r) \/ AdmitPrepared(r) \/ ClaimPrepared(r)
      PROVE IInv'
  BY <1>2, AdmitRunningKeeps, AdmitPreparedKeeps, ClaimPreparedKeeps
<1>3. ASSUME NEW r \in Runs, Heartbeat(r) PROVE IInv'
  BY <1>3, HeartbeatReadKeeps, HeartbeatRefusedKeeps, HeartbeatRenewsKeeps,
     HeartbeatLostKeeps DEF Heartbeat
<1>4. ASSUME NEW r \in Runs, Execute(r) PROVE IInv'
  BY <1>4, PrepareEffectKeeps, ToolReturnsKeeps, ToolUnknownKeeps,
     ToolUnconfirmedKeeps, ReportAmbiguousKeeps, ReportFailsKeeps,
     ReportSwallowedKeeps, ExecutionEndsKeeps, ExecutionCancelledKeeps,
     StopOwnerKeeps, FinishRunKeeps, FinishFailsKeeps, CrashKeeps DEF Execute
<1>5. ASSUME NEW r \in Runs, RequestCancelRead(r) \/ RequestCancelWrite(r)
      PROVE IInv'
  BY <1>5, RequestCancelReadKeeps, RequestCancelWriteKeeps
<1>6. ASSUME NEW r \in Runs, ReconcileDecide(r) PROVE IInv'
  BY <1>6, ReconcileDecideKeeps
<1>7. CASE ReconcileScan \/ ReconcileSettles \/ ReconcileMisses
           \/ ReconcileAborts \/ Tick
  BY <1>7, ReconcileScanKeeps, ReconcileSettlesKeeps, ReconcileMissesKeeps,
     ReconcileAbortsKeeps, TickKeeps
<1>8. QED
  BY <1>1, <1>2, <1>3, <1>4, <1>5, <1>6, <1>7 DEF Next

\* The inductive invariant holds in every reachable state.
THEOREM Invariance == Spec => []IInv
  BY InitIInv, NextIInv, PTL DEF Spec

\* Every column and control state keeps its type, for any batch limit.
THEOREM TypeCorrect == Spec => []TypeOK
<1>1. IInv => TypeOK
  BY DEF IInv
<1>2. QED
  BY <1>1, Invariance, PTL

\* A task that is owned or waiting to be claimed has an open ledger stream and
\* matching projections; a task that is not running holds no token.
THEOREM OwnedOpen == Spec => []OwnedMeansOpen
<1>1. IInv => OwnedMeansOpen
  BY DEF IInv, RowShape, OwnedMeansOpen
<1>2. QED
  BY <1>1, Invariance, PTL

\* No step touches a terminated stream or the receipt of its Run.
LEMMA LedgerStep == IInv /\ [Next]_vars => LedgerKept
<1> SUFFICES ASSUME IInv, [Next]_vars PROVE LedgerKept
  OBVIOUS
<1> USE DEF LedgerKept
<1>1. CASE UNCHANGED vars
  BY <1>1 DEF vars
<1>2. ASSUME NEW r \in Runs, AdmitRunning(r) \/ AdmitPrepared(r)
      PROVE LedgerKept
  BY <1>2 DEF AdmitRunning, AdmitPrepared, IInv, TypeOK, RowShape, Unborn,
              EmptyLedger
<1>3. ASSUME NEW r \in Runs, ClaimPrepared(r) PROVE LedgerKept
  BY <1>3 DEF ClaimPrepared, IInv, TypeOK, LedgerOpen
<1>4. ASSUME NEW r \in Runs, Heartbeat(r) PROVE LedgerKept
  BY <1>4 DEF Heartbeat, HeartbeatRead, HeartbeatRefused, HeartbeatRenews,
              HeartbeatLost, taskVars
<1>5. ASSUME NEW r \in Runs, PrepareEffect(r) \/ ToolReturns(r)
             \/ ToolUnknown(r) \/ ReportAmbiguous(r)
      PROVE LedgerKept
  BY <1>5 DEF PrepareEffect, ToolReturns, ToolUnknown, ReportAmbiguous,
              SettleEffect, IInv, TypeOK, LedgerOpen
<1>6. ASSUME NEW r \in Runs, FinishRun(r) PROVE LedgerKept
  BY <1>6 DEF FinishRun, IInv, TypeOK, LedgerOpen
<1>7. ASSUME NEW r \in Runs, ToolUnconfirmed(r) \/ ReportFails(r)
             \/ ReportSwallowed(r) \/ ExecutionEnds(r)
             \/ ExecutionCancelled(r) \/ StopOwner(r) \/ FinishFails(r) \/ Crash(r)
      PROVE LedgerKept
  BY <1>7 DEF ToolUnconfirmed, ReportFails, ReportSwallowed, ExecutionEnds, ExecutionCancelled, StopOwner,
              FinishFails, Crash, taskVars
<1>8. ASSUME NEW r \in Runs, RequestCancelRead(r) \/ RequestCancelWrite(r)
             \/ ReconcileDecide(r)
      PROVE LedgerKept
  BY <1>8
  DEF RequestCancelRead, RequestCancelWrite, ReconcileDecide, taskVars
<1>9. CASE ReconcileSettles
  BY <1>9 DEF ReconcileSettles, ReconcileNext, IInv, TypeOK, LedgerOpen
<1>10. CASE ReconcileScan \/ ReconcileMisses \/ ReconcileAborts \/ Tick
  BY <1>10
  DEF ReconcileScan, ReconcileMisses, ReconcileNext, ReconcileAborts,
               Tick, taskVars
<1>11. QED
  BY <1>1, <1>2, <1>3, <1>4, <1>5, <1>6, <1>7, <1>8, <1>9, <1>10
  DEF Next, Execute

\* A terminated stream takes no further fact and its Run starts or settles no
\* further side effect, for any batch limit (persistence.py append).
THEOREM LedgerFinal == Spec => LedgerIsFinal
  BY LedgerStep, Invariance, PTL DEF Spec, LedgerIsFinal

-----------------------------------------------------------------------------
(* One result, and who may rewrite it                                      *)

\* What the reconciler decides is never a success, and a candidate judged by
\* the row of the scan was open then.  Together with what the ledger decides
\* this is inductive.
ResultInv ==
    /\ LedgerDecides
    /\ recStatus # "succeeded"
    /\ recPc = "commit" /\ recLoaded => recRow.status \in Open

\* A task status is its own word (run_status_to_task_status).
LEMMA TaskStatusFixed ==
    ASSUME NEW status \in Terminal
    PROVE  TaskStatus(status) = status
  BY DEF TaskStatus, Terminal

\* Initially no candidate is held and no task is terminal.
LEMMA InitResultInv == Init => ResultInv
  BY DEF Init, ResultInv, LedgerDecides, NoTask, Terminal

\* The steps of a Run's own actors.
LEMMA OwnStepsKeepResult ==
    ASSUME IInv, ResultInv, NEW r \in Runs,
           \/ AdmitRunning(r) \/ AdmitPrepared(r) \/ ClaimPrepared(r)
           \/ Heartbeat(r) \/ Execute(r)
           \/ RequestCancelRead(r) \/ RequestCancelWrite(r)
    PROVE  ResultInv'
<1>1. recVars' = recVars
  BY DEF AdmitRunning, AdmitPrepared, ClaimPrepared, Heartbeat, HeartbeatRead,
         HeartbeatRefused, HeartbeatRenews, HeartbeatLost, Execute,
         PrepareEffect, ToolReturns, ToolUnknown, ToolUnconfirmed, SettleEffect,
         ReportAmbiguous, ReportFails, ReportSwallowed,
         ExecutionEnds, ExecutionCancelled, StopOwner, FinishRun, FinishFails,
         Crash, RequestCancelRead, RequestCancelWrite
<1>2. LedgerDecides'
  <2> USE DEF ResultInv, LedgerDecides
  <2>1. CASE AdmitRunning(r)
    BY <2>1 DEF AdmitRunning, IInv, TypeOK, RowShape, Unborn, Terminal, Row
  <2>2. CASE AdmitPrepared(r)
    BY <2>2 DEF AdmitPrepared, IInv, TypeOK, RowShape, Unborn, Terminal, Row,
                execVars
  <2>3. CASE ClaimPrepared(r)
    <3>1. Claimed(task[r], now).status = "running"
      BY ClaimedRow DEF IInv, TypeOK
    <3>2. QED
      BY <2>3, <3>1
      DEF ClaimPrepared, Claimable, IInv, TypeOK, RowShape, Terminal
  <2>4. CASE HeartbeatRenews(r)
    <3>1. Renewed(task[r], hbAt[r]).status = task[r].status
      BY RenewedRow DEF IInv, TypeOK
    <3>2. QED
      BY <2>4, <3>1 DEF HeartbeatRenews, IInv, TypeOK, execVars
  <2>5. CASE HeartbeatRead(r) \/ HeartbeatRefused(r) \/ HeartbeatLost(r)
    BY <2>5
    DEF HeartbeatRead, HeartbeatRefused, HeartbeatLost, taskVars, execVars
  <2>6. CASE PrepareEffect(r) \/ ToolReturns(r) \/ ToolUnknown(r)
             \/ ReportAmbiguous(r)
    <3>1. task[r].status \notin Terminal
      BY <2>6 DEF PrepareEffect, ToolReturns, ToolUnknown, ReportAmbiguous,
                  SettleEffect, IInv, TypeOK, RowShape, LedgerOpen
    <3>2. QED
      BY <2>6, <3>1 DEF PrepareEffect, ToolReturns, ToolUnknown,
                        ReportAmbiguous, SettleEffect, IInv, TypeOK
  <2>7. CASE ToolUnconfirmed(r) \/ ReportFails(r) \/ ReportSwallowed(r)
             \/ ExecutionEnds(r) \/ ExecutionCancelled(r)
             \/ StopOwner(r) \/ FinishFails(r) \/ Crash(r)
    BY <2>7 DEF ToolUnconfirmed, ReportFails, ReportSwallowed, ExecutionEnds,
                ExecutionCancelled, StopOwner, FinishFails, Crash, taskVars,
                IInv, TypeOK, Live, Running
  <2>8. CASE FinishRun(r)
    <3>1. outcome[r] \in RunWords
      BY <2>8 DEF FinishRun, IInv, OutcomeKnown
    <3>2. TaskStatus(outcome[r]) \in Terminal
      BY <3>1, TaskStatusTerminal
    <3>3. Settled(task[r], TaskStatus(outcome[r])).status = TaskStatus(outcome[r])
      BY <3>2, SettledRow DEF IInv, TypeOK
    <3>4. /\ Terminated(ledger[r], outcome[r]).terminal > 0
          /\ Terminated(ledger[r], outcome[r]).status = outcome[r]
      BY <3>1, TerminatedHead DEF IInv, TypeOK, Head
    <3>5. r \notin RecoveryRuns => rop[r] = "absent"
      BY <2>8 DEF FinishRun, Matches, IInv, RowShape
    <3>6. QED
      BY <2>8, <3>1, <3>2, <3>3, <3>4, <3>5 DEF FinishRun, IInv, TypeOK
  <2>9. CASE RequestCancelRead(r) \/ RequestCancelWrite(r)
    <3>1. \A s \in Runs : task'[s].status = task[s].status
      <4>1. CASE RequestCancelRead(r)
        BY <4>1 DEF RequestCancelRead, taskVars
      <4>2. CASE RequestCancelWrite(r)
        BY <4>2 DEF RequestCancelWrite, IInv, TypeOK, Row
      <4>3. QED
        BY <2>9, <4>1, <4>2
    <3>2. QED
      BY <2>9, <3>1
      DEF RequestCancelRead, RequestCancelWrite, taskVars, execVars
  <2>10. QED
    BY <2>1, <2>2, <2>3, <2>4, <2>5, <2>6, <2>7, <2>8, <2>9
    DEF Heartbeat, Execute
<1>3. QED
  BY <1>1, <1>2 DEF ResultInv, recVars

\* The reconciler's settlement: an open row gets its one result; a terminal row
\* it took for the expected value is rewritten in the task and in agent_runs
\* alone, and not to a success.
LEMMA SettlementKeepsResult ==
    ASSUME IInv, ResultInv, ReconcileSettles
    PROVE  LedgerDecides'
<1>1. /\ recRun \in Runs /\ recStatus \in Terminal /\ recStatus \in RunWords
      /\ recStatus # "succeeded"
  BY DEF IInv, TypeOK, RunWords, ResultInv
<1>2. Settled(task[recRun], recStatus).status = recStatus
  BY <1>1, SettledRow DEF IInv, TypeOK
<1>3. TaskStatus(recStatus) = recStatus
  BY <1>1, TaskStatusFixed
<1>4. task[recRun].status \in Open \cup Terminal
  BY <1>1 DEF ReconcileSettles, ReconcileHits, IInv, TypeOK, Row, RecShape
<1>5. /\ pc' = pc /\ outcome' = outcome
      /\ task' = [task EXCEPT ![recRun] = Settled(@, recStatus)]
      /\ run' = [run EXCEPT ![recRun] = recStatus]
  BY DEF ReconcileSettles, ReconcileNext, execVars
<1>6. CASE task[recRun].status \in Open
  <2>1. LedgerOpen(recRun)
    BY <1>1, <1>6 DEF IInv, RowShape, Open
  <2>2. rop[recRun] \in {"absent", "prepared", "running"}
    BY <1>1, <1>6 DEF IInv, RowShape, Open
  <2>3. /\ Terminated(ledger[recRun], recStatus).terminal > 0
        /\ Terminated(ledger[recRun], recStatus).status = recStatus
    BY <1>1, TerminatedHead DEF IInv, TypeOK, Head
  <2>4. pc[recRun] # "settled"
    BY <1>1, <2>1 DEF ResultInv, LedgerDecides, LedgerOpen, IInv, TypeOK
  <2>5. QED
    BY <1>1, <1>2, <1>3, <1>5, <2>1, <2>2, <2>3, <2>4
    DEF ReconcileSettles, ResultInv, LedgerDecides, IInv, TypeOK
<1>7. CASE task[recRun].status \in Terminal
  <2>1. ~LedgerOpen(recRun)
    BY <1>1, <1>7 DEF IInv, RowShape, LedgerOpen
  <2>2. ledger' = ledger
    BY <2>1 DEF ReconcileSettles
  <2>3. rop[recRun] # "running"
    BY <1>1, <1>7 DEF ResultInv, LedgerDecides, TaskStatus
  <2>4. rop' = rop
    BY <2>3 DEF ReconcileSettles
  <2>5. QED
    BY <1>1, <1>2, <1>3, <1>5, <1>7, <2>2, <2>4
    DEF ResultInv, LedgerDecides, IInv, TypeOK
<1>8. QED
  BY <1>4, <1>6, <1>7

\* The reconciler's steps and the clock.
LEMMA ReconcilerKeepsResult ==
    ASSUME IInv, ResultInv,
           \/ \E r \in Runs : ReconcileDecide(r)
           \/ ReconcileScan \/ ReconcileSettles \/ ReconcileMisses
           \/ ReconcileAborts \/ Tick
    PROVE  ResultInv'
<1>1. CASE \E r \in Runs : ReconcileDecide(r)
  <2>1. PICK r \in Runs : ReconcileDecide(r)
    BY <1>1
  <2>2. /\ taskVars' = taskVars /\ pc' = pc /\ outcome' = outcome
        /\ recLoaded' = recLoaded /\ r \in recBatch
        /\ recRow' = IF recLoaded THEN recSnap[r] ELSE task[r]
        /\ recStatus' = ExpiredStatus(receipt[r], recRow', recAt)
    BY <2>1 DEF ReconcileDecide, execVars
  <2>3. recStatus' # "succeeded"
    BY <2>2 DEF ExpiredStatus
  <2>4. recLoaded' => recRow'.status \in Open
    BY <2>2 DEF IInv, RecShape
  <2>5. QED
    BY <2>2, <2>3, <2>4 DEF ResultInv, LedgerDecides, taskVars
<1>2. CASE ReconcileScan
  BY <1>2 DEF ReconcileScan, ResultInv, LedgerDecides, taskVars, execVars
<1>3. CASE ReconcileSettles
  <2>1. recPc' # "commit" /\ recStatus' # "succeeded"
    BY <1>3 DEF ReconcileSettles, ReconcileNext
  <2>2. QED
    BY <1>3, <2>1, SettlementKeepsResult DEF ResultInv
<1>4. CASE ReconcileMisses \/ ReconcileAborts \/ Tick
  BY <1>4 DEF ReconcileMisses, ReconcileNext, ReconcileAborts, Tick, ResultInv,
              LedgerDecides, taskVars, execVars, recVars
<1>5. QED
  BY <1>1, <1>2, <1>3, <1>4

\* Every step preserves the invariant, for any batch limit.
LEMMA NextResultInv == IInv /\ ResultInv /\ [Next]_vars => ResultInv'
<1>1. ASSUME ResultInv, UNCHANGED vars PROVE ResultInv'
  BY <1>1 DEF ResultInv, LedgerDecides, vars
<1>2. QED
  BY <1>1, OwnStepsKeepResult, ReconcilerKeepsResult DEF Next

\* The invariant of the results holds in every reachable state.
THEOREM ResultInvariance == Spec => []ResultInv
  BY Invariance, InitResultInv, NextResultInv, PTL DEF Spec

\* The ledger decides, for any batch limit: it holds what the owner was told,
\* the executed recovery operation agrees with it, the AgentRun row with the
\* task, and neither shows a success the ledger does not hold.
THEOREM LedgerIsDecisive == Spec => []LedgerDecides
<1>1. ResultInv => LedgerDecides
  BY DEF ResultInv
<1>2. QED
  BY <1>1, ResultInvariance, PTL

\* Whoever is late, only the reconciler can touch a terminal status.
LEMMA TerminalStep ==
    ASSUME IInv, [Next]_vars, ~ReconcileSettles,
           NEW s \in Runs, task[s].status \in Terminal
    PROVE  task'[s].status = task[s].status
<1>1. CASE UNCHANGED vars
  BY <1>1 DEF vars
<1>2. ASSUME NEW r \in Runs, AdmitRunning(r) \/ AdmitPrepared(r)
             \/ ClaimPrepared(r)
      PROVE  task'[s].status = task[s].status
  BY <1>2 DEF AdmitRunning, AdmitPrepared, ClaimPrepared, Claimable, IInv,
              TypeOK, Terminal
<1>3. ASSUME NEW r \in Runs, Heartbeat(r)
      PROVE  task'[s].status = task[s].status
  <2>1. Renewed(task[r], hbAt[r]).status = task[r].status
    BY RenewedRow DEF IInv, TypeOK
  <2>2. QED
    BY <1>3, <2>1 DEF Heartbeat, HeartbeatRead, HeartbeatRefused,
                      HeartbeatRenews, HeartbeatLost, taskVars, IInv, TypeOK
<1>4. ASSUME NEW r \in Runs, FinishRun(r)
      PROVE  task'[s].status = task[s].status
  BY <1>4 DEF FinishRun, Matches, IInv, TypeOK, Terminal
<1>5. ASSUME NEW r \in Runs, PrepareEffect(r) \/ ToolReturns(r)
             \/ ToolUnknown(r) \/ ToolUnconfirmed(r) \/ ReportAmbiguous(r)
             \/ ReportFails(r) \/ ReportSwallowed(r) \/ ExecutionEnds(r)
             \/ ExecutionCancelled(r) \/ StopOwner(r) \/ FinishFails(r)
             \/ Crash(r) \/ RequestCancelRead(r) \/ ReconcileDecide(r)
      PROVE  task'[s].status = task[s].status
  BY <1>5 DEF PrepareEffect, ToolReturns, ToolUnknown, SettleEffect,
              ToolUnconfirmed, ReportAmbiguous, ReportFails, ReportSwallowed,
              ExecutionEnds, ExecutionCancelled, StopOwner,
              FinishFails, Crash, RequestCancelRead, ReconcileDecide, taskVars
<1>6. ASSUME NEW r \in Runs, RequestCancelWrite(r)
      PROVE  task'[s].status = task[s].status
  BY <1>6 DEF RequestCancelWrite, IInv, TypeOK, Row
<1>7. CASE ReconcileScan \/ ReconcileMisses \/ ReconcileAborts \/ Tick
  BY <1>7 DEF ReconcileScan, ReconcileMisses, ReconcileNext, ReconcileAborts,
              Tick, taskVars
<1>8. QED
  BY <1>1, <1>2, <1>3, <1>4, <1>5, <1>6, <1>7 DEF Next, Execute

\* A terminal status is rewritten by one step only, for any batch limit: the
\* reconciler's, for a candidate it read again after another one's commit, and
\* never to a success (reconciler.py, service.py _matches).
THEOREM RewriteIsReread == Spec => OnlyRereadRewrites
<1>1. IInv /\ ResultInv /\ [Next]_vars => TerminalRewrite
  <2> SUFFICES ASSUME IInv, ResultInv, [Next]_vars,
                      NEW r \in Runs, task[r].status \in Terminal,
                      task'[r].status # task[r].status
               PROVE  /\ recPc = "commit" /\ recRun = r /\ ~recLoaded
                      /\ recRow.status \in Terminal
                      /\ task'[r].status # "succeeded"
    BY DEF TerminalRewrite
  <2>1. ReconcileSettles
    BY TerminalStep
  <2>2. /\ recPc = "commit" /\ recRun \in Runs /\ recStatus \in Terminal
        /\ task[recRun].status = recRow.status
        /\ task' = [task EXCEPT ![recRun] = Settled(@, recStatus)]
    BY <2>1 DEF ReconcileSettles, ReconcileHits, IInv, TypeOK
  <2>3. recRun = r
    BY <2>2 DEF IInv, TypeOK
  <2>4. task'[r].status = recStatus
    BY <2>2, <2>3, SettledRow DEF IInv, TypeOK
  <2>5. recRow.status \in Terminal /\ recRow.status \notin Open
    BY <2>2, <2>3 DEF Open, Terminal
  <2>6. QED
    BY <2>2, <2>3, <2>4, <2>5 DEF ResultInv
<1>2. QED
  BY <1>1, Invariance, ResultInvariance, PTL DEF Spec, OnlyRereadRewrites

\* Only the owner's settlement makes a task a success.
LEMMA NewSuccess ==
    ASSUME IInv, ResultInv, [Next]_vars, NEW s \in Runs,
           task[s].status # "succeeded", task'[s].status = "succeeded"
    PROVE  FinishRun(s)
<1>1. CASE UNCHANGED vars
  BY <1>1 DEF vars
<1>2. ASSUME NEW r \in Runs, AdmitRunning(r) \/ AdmitPrepared(r)
      PROVE  FinishRun(s)
  <2>1. task'[r].status # "succeeded"
    BY <1>2 DEF AdmitRunning, AdmitPrepared, IInv, TypeOK
  <2>2. r # s => task'[s] = task[s]
    BY <1>2 DEF AdmitRunning, AdmitPrepared, IInv, TypeOK
  <2>3. QED
    BY <2>1, <2>2
<1>3. ASSUME NEW r \in Runs, ClaimPrepared(r) PROVE FinishRun(s)
  <2>1. Claimed(task[r], now).status = "running"
    BY ClaimedRow DEF IInv, TypeOK
  <2>2. QED
    BY <1>3, <2>1 DEF ClaimPrepared, IInv, TypeOK
<1>4. ASSUME NEW r \in Runs, Heartbeat(r) PROVE FinishRun(s)
  <2>1. Renewed(task[r], hbAt[r]).status = task[r].status
    BY RenewedRow DEF IInv, TypeOK
  <2>2. QED
    BY <1>4, <2>1 DEF Heartbeat, HeartbeatRead, HeartbeatRefused,
                      HeartbeatRenews, HeartbeatLost, taskVars, IInv, TypeOK
<1>5. ASSUME NEW r \in Runs, FinishRun(r) PROVE FinishRun(s)
  <2>1. CASE r = s
    BY <1>5, <2>1
  <2>2. CASE r # s
    <3>1. task'[s] = task[s]
      BY <1>5, <2>2 DEF FinishRun, IInv, TypeOK
    <3>2. QED
      BY <3>1
  <2>3. QED
    BY <2>1, <2>2
<1>6. ASSUME NEW r \in Runs, PrepareEffect(r) \/ ToolReturns(r)
             \/ ToolUnknown(r) \/ ToolUnconfirmed(r) \/ ReportAmbiguous(r)
             \/ ReportFails(r) \/ ReportSwallowed(r) \/ ExecutionEnds(r)
             \/ ExecutionCancelled(r) \/ StopOwner(r) \/ FinishFails(r)
             \/ Crash(r) \/ RequestCancelRead(r) \/ ReconcileDecide(r)
      PROVE  FinishRun(s)
  BY <1>6 DEF PrepareEffect, ToolReturns, ToolUnknown, SettleEffect,
              ToolUnconfirmed, ReportAmbiguous, ReportFails, ReportSwallowed,
              ExecutionEnds, ExecutionCancelled, StopOwner,
              FinishFails, Crash, RequestCancelRead, ReconcileDecide, taskVars
<1>7. ASSUME NEW r \in Runs, RequestCancelWrite(r) PROVE FinishRun(s)
  BY <1>7 DEF RequestCancelWrite, IInv, TypeOK, Row
<1>8. CASE ReconcileSettles
  <2>1. /\ recRun \in Runs /\ recStatus \in Terminal /\ recStatus # "succeeded"
        /\ task' = [task EXCEPT ![recRun] = Settled(@, recStatus)]
    BY <1>8 DEF ReconcileSettles, IInv, TypeOK, ResultInv
  <2>2. Settled(task[recRun], recStatus).status = recStatus
    BY <2>1, SettledRow DEF IInv, TypeOK
  <2>3. QED
    BY <2>1, <2>2 DEF IInv, TypeOK
<1>9. CASE ReconcileScan \/ ReconcileMisses \/ ReconcileAborts \/ Tick
  BY <1>9 DEF ReconcileScan, ReconcileMisses, ReconcileNext, ReconcileAborts,
              Tick, taskVars
<1>10. QED
  BY <1>1, <1>2, <1>3, <1>4, <1>5, <1>6, <1>7, <1>8, <1>9 DEF Next, Execute

-----------------------------------------------------------------------------
(* The side effect a recovery child leaves in doubt                        *)

\* A recovery child leaves its tool call with the receipt settled, or on the
\* way of an exception whose word is not a success.
EffectKnown ==
    \A r \in RecoveryRuns :
        /\ pc[r] = "idle" => receipt[r] = "none"
        /\ pc[r] = "executing" => ~Doubtful(r)
        /\ (pc[r] \in {"finishing", "settling", "settled"} /\ Doubtful(r))
              => TaskStatus(outcome[r]) # "succeeded"
        /\ task[r].status = "succeeded" => ~Doubtful(r)

\* Initially there is no receipt.
LEMMA InitEffectKnown == Init => EffectKnown
  BY RunsAssumption DEF Init, EffectKnown, Doubtful, NoTask

\* Every step preserves it, for any batch limit.
LEMMA NextEffectKnown ==
    IInv /\ ResultInv /\ EffectKnown /\ [Next]_vars => EffectKnown'
<1> SUFFICES ASSUME IInv, ResultInv, EffectKnown, [Next]_vars,
                    NEW s \in RecoveryRuns
             PROVE  /\ pc'[s] = "idle" => receipt'[s] = "none"
                    /\ pc'[s] = "executing" => ~Doubtful(s)'
                    /\ (pc'[s] \in {"finishing", "settling", "settled"}
                          /\ Doubtful(s)')
                          => TaskStatus(outcome'[s]) # "succeeded"
                    /\ task'[s].status = "succeeded" => ~Doubtful(s)'
  BY DEF EffectKnown
<1> DEFINE Own == /\ pc'[s] = "idle" => receipt'[s] = "none"
                  /\ pc'[s] = "executing" => ~Doubtful(s)'
                  /\ (pc'[s] \in {"finishing", "settling", "settled"}
                        /\ Doubtful(s)')
                        => TaskStatus(outcome'[s]) # "succeeded"
<1>a. s \in Runs
  BY RunsAssumption
<1>b. LedgerKept
  BY LedgerStep
<1>1. Own
  <2> USE <1>a DEF EffectKnown, Doubtful
  <2>1. CASE pc' = pc /\ receipt' = receipt /\ outcome' = outcome
    BY <2>1
  <2>2. ASSUME NEW r \in Runs, AdmitRunning(r) \/ ClaimPrepared(r) PROVE Own
    <3>1. pc[r] = "idle"
      BY <2>2 DEF AdmitRunning, ClaimPrepared, Claimable, IInv, RowShape, Unborn
    <3>2. QED
      BY <2>2, <3>1 DEF AdmitRunning, ClaimPrepared, IInv, TypeOK
  <2>3. ASSUME NEW r \in Runs, PrepareEffect(r) PROVE Own
    BY <2>3 DEF PrepareEffect, IInv, TypeOK
  <2>4. ASSUME NEW r \in Runs, ToolReturns(r) \/ ToolUnknown(r) PROVE Own
    BY <2>4 DEF ToolReturns, ToolUnknown, SettleEffect, IInv, TypeOK
  <2>5. ASSUME NEW r \in Runs, ToolUnconfirmed(r) \/ ReportSwallowed(r)
        PROVE Own
    BY <2>5 DEF ToolUnconfirmed, ReportSwallowed, IInv, TypeOK
  <2>6. ASSUME NEW r \in Runs, ReportAmbiguous(r) \/ ReportFails(r) PROVE Own
    <3>1. \A word \in {"ambiguous", "failed", "error", "timed_out",
                        "cancelled"} :
             TaskStatus(word) # "succeeded"
      BY DEF TaskStatus
    <3>2. PICK word \in {"ambiguous", "failed", "error", "timed_out",
                        "cancelled"} :
             outcome' = [outcome EXCEPT ![r] = word]
      BY <2>6 DEF ReportAmbiguous, ReportFails
    <3>3. /\ receipt' = receipt
          /\ pc' = [pc EXCEPT ![r] = "finishing"]
      BY <2>6 DEF ReportAmbiguous, ReportFails
    <3>4. TaskStatus(word) # "succeeded"
      BY <3>1
    <3>5. QED
      BY <3>2, <3>3, <3>4 DEF IInv, TypeOK
  <2>7. ASSUME NEW r \in Runs, ExecutionEnds(r) PROVE Own
    BY <2>7 DEF ExecutionEnds, IInv, TypeOK
  <2>8. ASSUME NEW r \in Runs, ExecutionCancelled(r) PROVE Own
    <3>1. \A msg \in {"cancelled", "timed_out", "lease_lost"} :
             TaskStatus(CancelStatus(msg)) # "succeeded"
      BY DEF TaskStatus, CancelStatus
    <3>2. cancelMsg[r] \in {"cancelled", "timed_out", "lease_lost"}
      BY <2>8 DEF ExecutionCancelled, IInv, TypeOK
    <3>3. QED
      BY <2>8, <3>1, <3>2 DEF ExecutionCancelled, IInv, TypeOK
  <2>9. ASSUME NEW r \in Runs, StopOwner(r) \/ FinishRun(r) \/ FinishFails(r)
        PROVE Own
    BY <2>9 DEF StopOwner, FinishRun, FinishFails, IInv, TypeOK
  <2>10. ASSUME NEW r \in Runs, Crash(r) PROVE Own
    BY <2>10 DEF Crash, IInv, TypeOK
  <2>11. ASSUME NEW r \in Runs,
                \/ AdmitPrepared(r) \/ Heartbeat(r) \/ RequestCancelRead(r)
                \/ RequestCancelWrite(r) \/ ReconcileDecide(r)
         PROVE  Own
    <3>1. pc' = pc /\ receipt' = receipt /\ outcome' = outcome
      BY <2>11 DEF AdmitPrepared, Heartbeat, HeartbeatRead, HeartbeatRefused,
         HeartbeatRenews, HeartbeatLost, RequestCancelRead, RequestCancelWrite,
         ReconcileDecide, execVars
    <3>2. QED
      BY <2>1, <3>1
  <2>12. CASE \/ ReconcileScan \/ ReconcileSettles \/ ReconcileMisses
              \/ ReconcileAborts \/ Tick \/ UNCHANGED vars
    <3>1. pc' = pc /\ receipt' = receipt /\ outcome' = outcome
      BY <2>12 DEF ReconcileScan, ReconcileSettles, ReconcileMisses,
         ReconcileNext, ReconcileAborts, Tick, execVars, vars
    <3>2. QED
      BY <2>1, <3>1
  <2>13. QED
    BY <2>2, <2>3, <2>4, <2>5, <2>6, <2>7, <2>8, <2>9, <2>10, <2>11, <2>12
    DEF Next, Execute
<1>2. ASSUME task'[s].status = "succeeded" PROVE ~Doubtful(s)'
  <2>1. CASE task[s].status = "succeeded"
    <3>1. ledger[s].terminal > 0
      BY <1>a, <2>1 DEF IInv, RowShape, Terminal
    <3>2. receipt'[s] = receipt[s]
      BY <1>a, <1>b, <3>1 DEF LedgerKept
    <3>3. QED
      BY <2>1, <3>2 DEF EffectKnown, Doubtful
  <2>2. CASE task[s].status # "succeeded"
    <3>1. FinishRun(s)
      BY <1>a, <1>2, <2>2, NewSuccess
    <3>2. /\ TaskStatus(outcome[s]) \in Terminal /\ receipt' = receipt
          /\ pc[s] = "settling"
          /\ task' = [task EXCEPT ![s] = Settled(@, TaskStatus(outcome[s]))]
      BY <1>a, <3>1, TaskStatusTerminal DEF FinishRun, IInv, OutcomeKnown
    <3>3. task'[s].status = TaskStatus(outcome[s])
      BY <1>a, <3>2, SettledRow DEF IInv, TypeOK
    <3>4. QED
      BY <1>2, <3>2, <3>3 DEF EffectKnown, Doubtful
  <2>3. QED
    BY <2>1, <2>2
<1>3. QED
  BY <1>1, <1>2

\* A recovery child on record as a success has a settled receipt, whoever
\* wrote the record and for any batch limit.
THEOREM SuccessIsCertain == Spec => []RecoverySuccessIsCertain
<1>1. Spec => []EffectKnown
  BY Invariance, ResultInvariance, InitEffectKnown, NextEffectKnown, PTL
  DEF Spec
<1>2. EffectKnown => RecoverySuccessIsCertain
  BY DEF EffectKnown, RecoverySuccessIsCertain
<1>3. QED
  BY <1>1, <1>2, PTL
=============================================================================
