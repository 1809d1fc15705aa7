------------------------- MODULE SumUpCheckoutProofs -------------------------
(***************************************************************************)
(* Proofs about SumUpCheckout, for any number of registrations, checkouts, *)
(* requests and disturbances.  One lemma per action shows that the action  *)
(* keeps the inductive invariant IInv; the theorems follow at the end.     *)
(***************************************************************************)
EXTENDS SumUpCheckout, FiniteSetTheorems, TLAPS

LEMMA InitInv == Init => IInv
<1> SUFFICES ASSUME Init PROVE IInv
    OBVIOUS
<1> USE BoundsAssumption DEF Init
<1>1. TypeOK
  BY DEF TypeOK, JobType, IdleJob, NoRow, ProvStates, TxStatuses, Reasons, Notes, Pcs, RegStatuses,
         SeatHolding, ProvType, TxType, RegType
<1>2. \A c \in Checkouts : RowOK(c)
  BY DEF RowOK, NoRow
<1>3. \A j \in Jobs : JobOK(j) /\ LockOK(j)
  BY DEF JobOK, LockOK, IdleJob
<1>4. SeatPaidByCapture
  BY DEF SeatPaidByCapture
<1>5. QED
  BY <1>1, <1>2, <1>3, <1>4 DEF IInv

-----------------------------------------------------------------------------
(* What the operators that update a job or a row return *)

LEMMA AtFacts ==
  ASSUME NEW J \in JobType, NEW pc \in Pcs
  PROVE  /\ At(J, pc) \in JobType
         /\ At(J, pc).pc = pc
         /\ \A f \in {"reg", "on", "olds", "killed", "quote", "ans", "tries", "was", "noting"} :
               At(J, pc)[f] = J[f]
  BY DEF JobType, At

LEMMA HoldingFacts ==
  ASSUME NEW J \in JobType, NEW live \in SUBSET Checkouts
  PROVE  /\ Holding(J, live) \in JobType
         /\ Holding(J, live).pc = "lockreg"
         /\ Holding(J, live).olds = live
         /\ \A f \in {"reg", "on", "killed"} : Holding(J, live)[f] = J[f]
  BY DEF JobType, Holding, Pcs

LEMMA AnsweredFacts ==
  ASSUME NEW J \in JobType, NEW c \in Checkouts
  PROVE  /\ Answered(J, c, TRUE) \in JobType
         /\ Answered(J, c, TRUE).pc = J.pc /\ Answered(J, c, TRUE).reg = J.reg
         /\ Answered(J, c, TRUE).olds = J.olds \ {c}
         /\ Answered(J, c, TRUE).killed = J.killed \cup {c}
         /\ Answered(J, c, FALSE) \in JobType
         /\ Answered(J, c, FALSE).pc = J.pc /\ Answered(J, c, FALSE).reg = J.reg
         /\ Answered(J, c, FALSE).olds = J.olds \ {c}
         /\ Answered(J, c, FALSE).killed = J.killed
  BY DEF JobType, Answered

LEMMA PricedFacts ==
  ASSUME NEW J \in JobType, NEW price \in Nat
  PROVE  /\ Priced(J, price) \in JobType
         /\ Priced(J, price).pc = "create"
         /\ \A f \in {"reg", "on", "olds", "killed"} : Priced(J, price)[f] = J[f]
  BY DEF JobType, Priced, Pcs

LEMMA HeardFacts ==
  ASSUME NEW J \in JobType, NEW pc \in Pcs, NEW p \in ProvType
  PROVE  /\ Heard(J, pc, p) \in JobType
         /\ Heard(J, pc, p).pc = pc
         /\ Heard(J, pc, p).ans = p.state
         /\ \A f \in {"reg", "on", "was"} : Heard(J, pc, p)[f] = J[f]
  BY DEF JobType, Heard, ProvType

LEMMA IdleFacts == IdleJob \in JobType /\ IdleJob.pc = "idle"
  BY DEF JobType, IdleJob, Pcs, ProvStates, TxStatuses

LEMMA JobTyped ==
  ASSUME TypeOK, NEW j \in Jobs
  PROVE  /\ job \in [Jobs -> JobType] /\ job[j] \in JobType
         /\ job[j].olds \subseteq Checkouts /\ job[j].killed \subseteq Checkouts
         /\ job[j].tries \in Nat /\ job[j].ans \in ProvStates /\ job[j].quote \in Nat
         /\ job[j].pc \in Pcs
  BY DEF TypeOK, JobType

LEMMA PaidFacts ==
  ASSUME NEW row \in TxType, NEW n \in Nat
  PROVE  /\ PaidRow(row, n) \in TxType /\ PaidRow(row, n).status = "paid"
         /\ PaidRow(row, n).reg = row.reg
         /\ PaidRow(row, n).reason = "" /\ PaidRow(row, n).note = ""
  BY DEF TxType, TxStatuses, Reasons, Notes, PaidRow

LEMMA ClosedFacts ==
  ASSUME NEW row \in TxType, NEW n \in Nat
  PROVE  /\ Closed(row, n) \in TxType /\ Closed(row, n).status = "failed"
         /\ Closed(row, n).reg = row.reg
  BY DEF TxType, TxStatuses, Reasons, Notes, Closed

LEMMA RefusedFacts ==
  ASSUME NEW row \in TxType, NEW n \in Nat
  PROVE  /\ Refused(row, n) \in TxType /\ Refused(row, n).status = row.status
         /\ Refused(row, n).reg = row.reg
  BY DEF TxType, TxStatuses, Reasons, Notes, Refused

LEMMA NotedFacts ==
  ASSUME NEW row \in TxType
  PROVE  /\ Noted(row) \in TxType /\ Noted(row).status = row.status
         /\ Noted(row).reg = row.reg
  BY DEF TxType, TxStatuses, Reasons, Notes, Noted

LEMMA SupersededFacts ==
  ASSUME NEW row \in TxType
  PROVE  /\ Superseded(row) \in TxType /\ Superseded(row).status = "cancelled"
         /\ Superseded(row).reg = row.reg
         /\ Superseded(row).reason = "superseded" /\ Superseded(row).note = ""
  BY DEF TxType, TxStatuses, Reasons, Notes, Superseded

LEMMA RefreshedFacts ==
  ASSUME NEW row \in TxType, NEW n \in Nat, NEW ans \in ProvStates
  PROVE  LET new == Refreshed(row, ans, n) IN
         /\ new \in TxType
         /\ new.status = row.status /\ new.reg = row.reg
         /\ ans = "paid" => new.reason = "" /\ new.note = ""
         /\ ans # "paid" /\ row.status = "cancelled" =>
               new.reason = row.reason /\ new.note = row.note
  BY DEF TxType, Refreshed, TxStatuses, Reasons, Notes

LEMMA NewRowFacts ==
  ASSUME NEW J \in JobType
  PROVE  /\ NewRow(J) \in TxType
         /\ NewRow(J).status = "pending" /\ NewRow(J).reg = J.reg
  BY DEF TxType, NewRow, NoRow, JobType, TxStatuses, Reasons, Notes

LEMMA ConfirmedFacts ==
  ASSUME NEW row \in RegType
  PROVE  Confirmed(row) \in RegType /\ Confirmed(row).byHand = row.byHand
  BY DEF RegType, Confirmed, RegStatuses, SeatHolding

\* The rows a creator withdrew, and no others, are superseded by its commit.
LEMMA KilledFacts ==
  ASSUME TypeOK, NEW j \in Jobs
  PROVE  /\ WithKilled(j) \in [Checkouts -> TxType]
         /\ \A c \in Checkouts :
               /\ WithKilled(j)[c].reg = tx[c].reg
               /\ c \notin job[j].killed => WithKilled(j)[c] = tx[c]
               /\ c \in job[j].killed => /\ WithKilled(j)[c].status = "cancelled"
                                         /\ WithKilled(j)[c].reason = "superseded"
                                         /\ WithKilled(j)[c].note = ""
<1>1. \A c \in Checkouts : tx[c] \in TxType
  BY DEF TypeOK
<1>2. \A c \in Checkouts : /\ Superseded(tx[c]) \in TxType
                           /\ Superseded(tx[c]).status = "cancelled"
                           /\ Superseded(tx[c]).reg = tx[c].reg
                           /\ Superseded(tx[c]).reason = "superseded"
                           /\ Superseded(tx[c]).note = ""
  BY <1>1, SupersededFacts
<1>3. \A c \in Checkouts :
         WithKilled(j)[c] = IF c \in job[j].killed THEN Superseded(tx[c]) ELSE tx[c]
  BY DEF WithKilled
<1>4. QED
  BY <1>1, <1>2, <1>3 DEF WithKilled

-----------------------------------------------------------------------------
(* How a job ends, goes on, and leaves the others alone *)

\* Only job j changed.
OnlyJob(j) == /\ job' \in [Jobs -> JobType]
              /\ \A k \in Jobs \ {j} : job'[k] = job[k]

LEMMA FinishFacts ==
  ASSUME TypeOK, NEW j \in Jobs, Finish(j)
  PROVE  OnlyJob(j) /\ job'[j].pc = "idle"
  BY IdleFacts DEF TypeOK, Finish, OnlyJob

LEMMA GotoFacts ==
  ASSUME TypeOK, NEW j \in Jobs, NEW pc \in Pcs, Goto(j, pc)
  PROVE  /\ OnlyJob(j) /\ job'[j].pc = pc
         /\ \A f \in {"reg", "on", "olds", "killed", "was"} : job'[j][f] = job[j][f]
<1>1. job[j] \in JobType
  BY DEF TypeOK
<1>2. QED
  BY <1>1, AtFacts DEF TypeOK, Goto, OnlyJob

LEMMA AfterSyncFacts ==
  ASSUME TypeOK, NEW j \in Jobs, AfterSync(j)
  PROVE  /\ OnlyJob(j)
         /\ job'[j].pc = "idle" \/ (job'[j].pc = "note" /\ job'[j].on = job[j].on)
<1>1. CASE job[j].noting
  BY <1>1, GotoFacts DEF AfterSync, Pcs
<1>2. CASE ~job[j].noting
  BY <1>2, FinishFacts DEF AfterSync
<1>3. QED
  BY <1>1, <1>2

\* A transaction's end gives back its own locks and nobody else's.
LEMMA EndFacts ==
  ASSUME TypeOK, NEW j \in Jobs, EndTransaction(j)
  PROVE  /\ txLock' \in [Checkouts -> Jobs \cup {None}]
         /\ regLock' \in [Regs -> Jobs \cup {None}]
         /\ \A c \in Checkouts : txLock'[c] # j
         /\ \A r \in Regs : regLock'[r] # j
         /\ \A k \in Jobs \ {j} : /\ \A c \in Checkouts : txLock'[c] = k <=> txLock[c] = k
                                  /\ \A r \in Regs : regLock'[r] = k <=> regLock[r] = k
  BY BoundsAssumption DEF TypeOK, EndTransaction, Released

LEMMA NoLocksOK ==
  ASSUME NEW j \in Jobs,
         \A c \in Checkouts : txLock'[c] # j, \A r \in Regs : regLock'[r] # j,
         \/ job'[j].pc = "idle"
         \/ /\ job'[j].pc = "note" /\ job'[j].on \in Checkouts
            /\ tx'[job'[j].on].status # "none"
  PROVE  JobOK(j)' /\ LockOK(j)'
  BY DEF JobOK, LockOK

\* A step that keeps SumUp's final answers, drops no row and touches neither
\* the locks of k nor the rows k has locked leaves k's part of IInv alone.
LEMMA JobUndisturbed ==
  ASSUME NEW k \in Jobs, JobOK(k), LockOK(k), job[k] \in JobType, job'[k] = job[k],
         \A c \in Checkouts :
            /\ prov[c].state \in {"paid", "dead"} => prov'[c].state = prov[c].state
            /\ tx[c].status # "none" => tx'[c].status # "none"
            /\ txLock[c] = k => /\ txLock'[c] = k
                                /\ tx[c].status = "pending" => tx'[c].status = "pending"
            /\ txLock'[c] = k => txLock[c] = k,
         \A r \in Regs : regLock'[r] = k => regLock[r] = k
  PROVE  JobOK(k)' /\ LockOK(k)'
<1>1. JobOK(k)'
  BY DEF JobOK, JobType
<1>2. LockOK(k)'
  BY DEF LockOK
<1>3. QED
  BY <1>1, <1>2

\* Paid rows stay paid, so a seat they settled stays explained.
LEMMA SeatsKept ==
  ASSUME SeatPaidByCapture, UNCHANGED <<reg>>,
         \A c \in Checkouts :
            /\ prov[c].state = "paid" => prov'[c].state = "paid"
            /\ tx[c].status = "paid" => tx'[c].status = "paid" /\ tx'[c].reg = tx[c].reg
  PROVE  SeatPaidByCapture'
  BY DEF SeatPaidByCapture

\* A row nobody wrote, of a checkout whose state stands.
LEMMA RowKept ==
  ASSUME NEW x \in Checkouts, RowOK(x), tx'[x] = tx[x], prov'[x].state = prov[x].state
  PROVE  RowOK(x)'
  BY DEF RowOK

\* A pending row that its creator withdrew.
LEMMA RowWithdrawn ==
  ASSUME NEW x \in Checkouts, RowOK(x), tx[x].status = "pending",
         prov[x].state = "dead", prov'[x].state = "dead",
         tx'[x].status = "cancelled", tx'[x].reg = tx[x].reg,
         tx'[x].reason = "superseded", tx'[x].note = ""
  PROVE  RowOK(x)'
  BY DEF RowOK

\* What the transaction of a creator that ends may assume about its rows, and
\* what writing them leaves behind for the other rows and jobs.
LEMMA KilledOwned ==
  ASSUME IInv, NEW j \in Jobs, job[j].pc \in {"deactivate", "create"}
  PROVE  \A x \in job[j].killed : /\ x \in Checkouts /\ txLock[x] = j
                                  /\ tx[x].status = "pending" /\ prov[x].state = "dead"
  BY JobTyped DEF IInv, JobOK

LEMMA WithdrawalKeeps ==
  ASSUME IInv, NEW j \in Jobs, job[j].pc \in {"deactivate", "create"},
         tx' = WithKilled(j), prov' = prov, EndTransaction(j), OnlyJob(j)
  PROVE  /\ tx' \in [Checkouts -> TxType]
         /\ \A x \in Checkouts : RowOK(x)'
         /\ \A k \in Jobs \ {j} : (JobOK(k) /\ LockOK(k))'
         /\ reg' = reg => SeatPaidByCapture'
<1>1. /\ TypeOK /\ SeatPaidByCapture
      /\ \A x \in Checkouts : RowOK(x)
      /\ \A k \in Jobs : JobOK(k) /\ LockOK(k)
  BY DEF IInv
<1>2. \A x \in job[j].killed : /\ x \in Checkouts /\ txLock[x] = j
                               /\ tx[x].status = "pending" /\ prov[x].state = "dead"
  BY KilledOwned
<1>3. tx' \in [Checkouts -> TxType]
  BY <1>1, KilledFacts
<1>4. ASSUME NEW x \in Checkouts
      PROVE  /\ tx'[x].reg = tx[x].reg
             /\ x \notin job[j].killed => tx'[x] = tx[x]
             /\ x \in job[j].killed => /\ tx'[x].status = "cancelled"
                                       /\ tx'[x].reason = "superseded"
                                       /\ tx'[x].note = ""
  BY <1>1, KilledFacts
<1>5. ASSUME NEW x \in Checkouts PROVE RowOK(x)'
  <2>1. CASE x \in job[j].killed
    BY <2>1, <1>1, <1>2, <1>4, RowWithdrawn
  <2>2. CASE x \notin job[j].killed
    BY <2>2, <1>1, <1>4, RowKept
  <2>3. QED
    BY <2>1, <2>2
<1>6. ASSUME NEW x \in Checkouts
      PROVE  /\ tx[x].status # "none" => tx'[x].status # "none"
             /\ tx[x].status = "paid" => tx'[x].status = "paid"
             /\ txLock[x] # j => tx'[x] = tx[x]
  <2>1. CASE x \in job[j].killed
    BY <2>1, <1>2, <1>4
  <2>2. CASE x \notin job[j].killed
    BY <2>2, <1>4
  <2>3. QED
    BY <2>1, <2>2
<1>7. ASSUME NEW k \in Jobs \ {j} PROVE (JobOK(k) /\ LockOK(k))'
  <2>1. \A r \in Regs : regLock'[r] = k => regLock[r] = k
    BY <1>1, EndFacts
  <2>2. \A x \in Checkouts : txLock'[x] = k <=> txLock[x] = k
    BY <1>1, EndFacts
  <2>3. job[k] \in JobType /\ job'[k] = job[k]
    BY <1>1, JobTyped DEF OnlyJob
  <2>4. QED
    BY <2>1, <2>2, <2>3, <1>1, <1>6, JobUndisturbed
<1>8. ASSUME reg' = reg PROVE SeatPaidByCapture'
  BY <1>1, <1>4, <1>6, <1>8, SeatsKept
<1>9. QED
  BY <1>3, <1>5, <1>7, <1>8

\* A row written by the one job that asked for it: everything else stands.
LEMMA RowWritten ==
  ASSUME IInv, NEW j \in Jobs, NEW c \in Checkouts,
         tx' \in [Checkouts -> TxType],
         \A x \in Checkouts \ {c} : tx'[x] = tx[x],
         tx'[c].reg = tx[c].reg,
         tx[c].status # "none" => tx'[c].status # "none",
         tx[c].status = "paid" => tx'[c].status = "paid",
         txLock[c] = None,
         RowOK(c)',
         UNCHANGED <<prov, reg, cardMails, fee, off, txLock, regLock, moves>>,
         OnlyJob(j)
  PROVE  /\ TypeOK' /\ SeatPaidByCapture'
         /\ \A x \in Checkouts : RowOK(x)'
         /\ \A k \in Jobs \ {j} : (JobOK(k) /\ LockOK(k))'
<1>1. /\ TypeOK /\ SeatPaidByCapture
      /\ \A x \in Checkouts : RowOK(x)
      /\ \A k \in Jobs : JobOK(k) /\ LockOK(k)
  BY DEF IInv
<1>2. TypeOK'
  BY <1>1 DEF TypeOK, OnlyJob
<1>3. SeatPaidByCapture'
  BY <1>1, SeatsKept
<1>4. \A x \in Checkouts : RowOK(x)'
  BY <1>1, RowKept
<1>5. ASSUME NEW k \in Jobs \ {j} PROVE (JobOK(k) /\ LockOK(k))'
  <2>1. job[k] \in JobType /\ job'[k] = job[k]
    BY <1>1, JobTyped DEF OnlyJob
  <2>2. k # None
    BY BoundsAssumption
  <2>3. QED
    BY <1>1, <2>1, <2>2, JobUndisturbed
<1>6. QED
  BY <1>2, <1>3, <1>4, <1>5

-----------------------------------------------------------------------------
(* Every action keeps IInv *)

LEMMA CustomerPaysInv ==
  ASSUME IInv, NEW c \in Checkouts, CustomerPays(c)
  PROVE  IInv'
<1> USE BoundsAssumption DEF IInv, CustomerPays, Payable, provVars, tableVars, eventVars,
           lockVars
<1>1. TypeOK'
  <2>1. prov' \in [Checkouts -> ProvType]
    BY DEF TypeOK, ProvType, ProvStates
  <2>2. QED
    BY <2>1 DEF TypeOK
<1>2. \A x \in Checkouts : RowOK(x)'
  BY DEF RowOK, TypeOK, ProvType, TxType
<1>3. \A k \in Jobs : (JobOK(k) /\ LockOK(k))'
  BY DEF JobOK, LockOK, TypeOK, ProvType
<1>4. SeatPaidByCapture'
  BY DEF SeatPaidByCapture, TypeOK
<1>5. QED
  BY <1>1, <1>2, <1>3, <1>4

LEMMA CardDeclinedInv ==
  ASSUME IInv, NEW c \in Checkouts, CardDeclined(c)
  PROVE  IInv'
<1> USE DEF IInv, CardDeclined, Payable, provVars, tableVars, eventVars, lockVars
<1>1. /\ prov' \in [Checkouts -> ProvType]
      /\ \A x \in Checkouts : prov'[x].state = prov[x].state
  BY DEF TypeOK, ProvType, ProvStates
<1>2. TypeOK'
  BY <1>1 DEF TypeOK
<1>3. \A x \in Checkouts : RowOK(x)'
  BY <1>1 DEF RowOK
<1>4. \A k \in Jobs : (JobOK(k) /\ LockOK(k))'
  BY <1>1, JobUndisturbed, JobTyped
<1>5. SeatPaidByCapture'
  BY <1>1, SeatsKept
<1>6. QED
  BY <1>2, <1>3, <1>4, <1>5

LEMMA CheckoutExpiresInv ==
  ASSUME IInv, NEW c \in Checkouts, CheckoutExpires(c)
  PROVE  IInv'
<1> USE BoundsAssumption DEF IInv, CheckoutExpires, Payable, provVars, tableVars,
           eventVars, lockVars
<1>1. TypeOK'
  <2>1. prov' \in [Checkouts -> ProvType]
    BY DEF TypeOK, ProvType, ProvStates
  <2>2. QED
    BY <2>1 DEF TypeOK
<1>2. \A x \in Checkouts : RowOK(x)'
  BY DEF RowOK, TypeOK, ProvType, TxType
<1>3. \A k \in Jobs : (JobOK(k) /\ LockOK(k))'
  BY DEF JobOK, LockOK, TypeOK, ProvType
<1>4. SeatPaidByCapture'
  BY DEF SeatPaidByCapture, TypeOK
<1>5. QED
  BY <1>1, <1>2, <1>3, <1>4

LEMMA CreateBeginInv ==
  ASSUME IInv, NEW j \in Jobs, NEW r \in Regs, CreateBegin(j, r)
  PROVE  IInv'
<1> USE BoundsAssumption DEF IInv, CreateBegin, IdleJob, Pending, provVars, tableVars,
           eventVars, lockVars
<1>1. TypeOK'
  <2>1. job' \in [Jobs -> JobType]
    BY DEF TypeOK, JobType, Pcs, ProvStates, TxStatuses
  <2>2. QED
    BY <2>1 DEF TypeOK
<1>2. \A x \in Checkouts : RowOK(x)'
  BY DEF RowOK
<1>3. \A k \in Jobs : (JobOK(k) /\ LockOK(k))'
  BY DEF JobOK, LockOK, TypeOK
<1>4. SeatPaidByCapture'
  BY DEF SeatPaidByCapture, TypeOK
<1>5. QED
  BY <1>1, <1>2, <1>3, <1>4

LEMMA CreateLockTxsInv ==
  ASSUME IInv, NEW j \in Jobs, CreateLockTxs(j)
  PROVE  IInv'
<1> DEFINE live == {c \in job[j].olds : StillPending(c)}
<1> USE DEF IInv, CreateLockTxs, provVars, tableVars, eventVars
<1>1. live \in SUBSET Checkouts /\ job[j] \in JobType
  BY JobTyped
<1>2. /\ OnlyJob(j) /\ job'[j].pc = "lockreg" /\ job'[j].olds = live
      /\ job'[j].reg = job[j].reg /\ job'[j].killed = job[j].killed
  BY <1>1, HoldingFacts DEF TypeOK, OnlyJob
<1>3. \A c \in Checkouts : txLock'[c] = IF c \in live THEN j ELSE txLock[c]
  OBVIOUS
<1>4. \A c \in live : txLock[c] = None
  OBVIOUS
<1>5. TypeOK'
  BY <1>2, <1>1 DEF TypeOK, OnlyJob
<1>6. \A x \in Checkouts : RowOK(x)'
  BY DEF RowOK
<1>7. \A k \in Jobs \ {j} : (JobOK(k) /\ LockOK(k))'
  BY <1>2, <1>3, <1>4, BoundsAssumption, JobUndisturbed, JobTyped DEF OnlyJob
<1>8. job[j].killed = {}
  BY DEF JobOK
<1>9. (JobOK(j) /\ LockOK(j))'
  BY <1>1, <1>2, <1>3, <1>8 DEF JobOK, LockOK, StillPending
<1>10. SeatPaidByCapture'
  BY DEF SeatPaidByCapture
<1>11. QED
  BY <1>5, <1>6, <1>7, <1>9, <1>10

LEMMA CreateLockRegInv ==
  ASSUME IInv, NEW j \in Jobs, CreateLockReg(j)
  PROVE  IInv'
<1> USE DEF IInv, CreateLockReg, provVars, tableVars, eventVars
<1>1. CASE Eligible(job[j].reg)
  <2>1. /\ OnlyJob(j) /\ job'[j].pc = "deactivate"
        /\ \A f \in {"reg", "on", "olds", "killed", "was"} : job'[j][f] = job[j][f]
    BY <1>1, GotoFacts DEF Pcs
  <2>2. /\ txLock' = txLock
        /\ regLock' = [regLock EXCEPT ![job[j].reg] = j]
        /\ regLock[job[j].reg] \in {None, j}
    BY <1>1
  <2>3. TypeOK'
    BY <2>1, <2>2 DEF TypeOK, OnlyJob
  <2>4. \A x \in Checkouts : RowOK(x)'
    BY DEF RowOK
  <2>5. \A k \in Jobs \ {j} : (JobOK(k) /\ LockOK(k))'
    BY <2>1, <2>2, JobUndisturbed, JobTyped DEF OnlyJob, TypeOK
  <2>6. job[j].killed = {}
    BY DEF JobOK
  <2>7. (JobOK(j) /\ LockOK(j))'
    BY <2>1, <2>2, <2>6 DEF JobOK, LockOK
  <2>8. SeatPaidByCapture'
    BY DEF SeatPaidByCapture
  <2>9. QED
    BY <2>3, <2>4, <2>5, <2>7, <2>8
<1>2. CASE ~Eligible(job[j].reg)
  <2>1. OnlyJob(j) /\ job'[j].pc = "idle"
    BY <1>2, FinishFacts
  <2>2. EndTransaction(j)
    BY <1>2
  <2>3. TypeOK'
    BY <2>1, <2>2, EndFacts DEF TypeOK, OnlyJob
  <2>4. \A x \in Checkouts : RowOK(x)'
    BY DEF RowOK
  <2>5. \A k \in Jobs \ {j} : (JobOK(k) /\ LockOK(k))'
    BY <2>1, <2>2, EndFacts, JobUndisturbed, JobTyped DEF OnlyJob
  <2>6. (JobOK(j) /\ LockOK(j))'
    BY <2>1, <2>2, EndFacts, NoLocksOK
  <2>7. SeatPaidByCapture'
    BY DEF SeatPaidByCapture
  <2>8. QED
    BY <2>3, <2>4, <2>5, <2>6, <2>7
<1>3. QED
  BY <1>1, <1>2

LEMMA CreateDeactivatesInv ==
  ASSUME IInv, NEW j \in Jobs, NEW c \in Checkouts, CreateDeactivates(j, c)
  PROVE  IInv'
<1> USE DEF IInv, CreateDeactivates, provVars, tableVars, eventVars, lockVars
<1>1. /\ prov' \in [Checkouts -> ProvType]
      /\ \A x \in Checkouts : prov'[x].state = prov[x].state \/ (x = c /\ prov'[x].state = "dead")
      /\ prov[c].state # "paid" /\ tx[c].status = "pending"
  BY DEF TypeOK, ProvType, ProvStates, Deactivated, JobOK
<1>2. /\ moves' \in Nat /\ OnlyJob(j) /\ job'[j].pc = "deactivate" /\ job'[j].reg = job[j].reg
      /\ job'[j].olds = job[j].olds \ {c}
      /\ job'[j].killed = job[j].killed \cup {c}
  <2>1. /\ job[j] \in JobType /\ job \in [Jobs -> JobType]
        /\ job' = [job EXCEPT ![j] = Answered(job[j], c, TRUE)]
    BY JobTyped
  <2>2. /\ Answered(job[j], c, TRUE) \in JobType
        /\ Answered(job[j], c, TRUE).pc = job[j].pc /\ Answered(job[j], c, TRUE).reg = job[j].reg
        /\ Answered(job[j], c, TRUE).olds = job[j].olds \ {c}
        /\ Answered(job[j], c, TRUE).killed = job[j].killed \cup {c}
    BY <2>1, AnsweredFacts
  <2>3. moves' \in Nat /\ job[j].pc = "deactivate"
    BY DEF TypeOK
  <2>4. QED
    BY <2>1, <2>2, <2>3 DEF OnlyJob
<1>3. TypeOK'
  BY <1>1, <1>2 DEF TypeOK, OnlyJob
<1>4. \A x \in Checkouts : RowOK(x)'
  BY <1>1 DEF RowOK
<1>5. prov'[c].state = "dead" /\ \A x \in job[j].killed : prov'[x].state = "dead"
  BY <1>1, JobTyped DEF TypeOK, ProvType, Deactivated, JobOK
<1>6. \A k \in Jobs \ {j} : (JobOK(k) /\ LockOK(k))'
  BY <1>1, <1>2, JobUndisturbed, JobTyped DEF OnlyJob
<1>7. (JobOK(j) /\ LockOK(j))'
  <2>1. /\ job[j].reg \in Regs
        /\ \A x \in job[j].olds \cup job[j].killed \cup {c} :
              txLock[x] = j /\ tx[x].status = "pending"
    BY DEF JobOK
  <2>2. JobOK(j)'
    BY <1>2, <1>5, <2>1 DEF JobOK
  <2>3. LockOK(j)'
    BY <1>2 DEF LockOK
  <2>4. QED
    BY <2>2, <2>3
<1>8. SeatPaidByCapture'
  BY <1>1, SeatsKept
<1>9. QED
  BY <1>3, <1>4, <1>6, <1>7, <1>8

LEMMA CreateCannotDeactivateInv ==
  ASSUME IInv, NEW j \in Jobs, NEW c \in Checkouts, CreateCannotDeactivate(j, c)
  PROVE  IInv'
<1> USE DEF IInv, CreateCannotDeactivate, provVars, tableVars, eventVars, lockVars
<1>1. prov' = prov
  OBVIOUS
<1>2. /\ moves' \in Nat /\ OnlyJob(j) /\ job'[j].pc = "deactivate" /\ job'[j].reg = job[j].reg
      /\ job'[j].olds = job[j].olds \ {c}
      /\ job'[j].killed = job[j].killed
  <2>1. /\ job[j] \in JobType /\ job \in [Jobs -> JobType]
        /\ job' = [job EXCEPT ![j] = Answered(job[j], c, FALSE)]
    BY JobTyped
  <2>2. /\ Answered(job[j], c, FALSE) \in JobType
        /\ Answered(job[j], c, FALSE).pc = job[j].pc /\ Answered(job[j], c, FALSE).reg = job[j].reg
        /\ Answered(job[j], c, FALSE).olds = job[j].olds \ {c}
        /\ Answered(job[j], c, FALSE).killed = job[j].killed
    BY <2>1, AnsweredFacts
  <2>3. moves' \in Nat /\ job[j].pc = "deactivate"
    BY DEF TypeOK
  <2>4. QED
    BY <2>1, <2>2, <2>3 DEF OnlyJob
<1>3. TypeOK'
  BY <1>1, <1>2 DEF TypeOK, OnlyJob
<1>4. \A x \in Checkouts : RowOK(x)'
  BY <1>1 DEF RowOK
<1>5. \A x \in job[j].killed : prov'[x].state = "dead"
  BY <1>1, JobTyped DEF JobOK
<1>6. \A k \in Jobs \ {j} : (JobOK(k) /\ LockOK(k))'
  BY <1>1, <1>2, JobUndisturbed, JobTyped DEF OnlyJob
<1>7. (JobOK(j) /\ LockOK(j))'
  <2>1. /\ job[j].reg \in Regs
        /\ \A x \in job[j].olds \cup job[j].killed \cup {c} :
              txLock[x] = j /\ tx[x].status = "pending"
    BY DEF JobOK
  <2>2. JobOK(j)'
    BY <1>2, <1>5, <2>1 DEF JobOK
  <2>3. LockOK(j)'
    BY <1>2 DEF LockOK
  <2>4. QED
    BY <2>2, <2>3
<1>8. SeatPaidByCapture'
  BY <1>1, SeatsKept
<1>9. QED
  BY <1>3, <1>4, <1>6, <1>7, <1>8

LEMMA CreateDeactivationLostInv ==
  ASSUME IInv, NEW j \in Jobs, NEW c \in Checkouts, CreateDeactivationLost(j, c)
  PROVE  IInv'
<1> USE DEF IInv, CreateDeactivationLost, provVars, tableVars, eventVars, lockVars, Disturb
<1>1. /\ prov' \in [Checkouts -> ProvType]
      /\ \A x \in Checkouts : prov'[x].state = prov[x].state \/ (x = c /\ prov'[x].state = "dead")
      /\ prov[c].state # "paid" /\ tx[c].status = "pending"
  BY DEF TypeOK, ProvType, ProvStates, Deactivated, JobOK
<1>2. /\ moves' \in Nat /\ OnlyJob(j) /\ job'[j].pc = "deactivate" /\ job'[j].reg = job[j].reg
      /\ job'[j].olds = job[j].olds \ {c}
      /\ job'[j].killed = job[j].killed
  <2>1. /\ job[j] \in JobType /\ job \in [Jobs -> JobType]
        /\ job' = [job EXCEPT ![j] = Answered(job[j], c, FALSE)]
    BY JobTyped
  <2>2. /\ Answered(job[j], c, FALSE) \in JobType
        /\ Answered(job[j], c, FALSE).pc = job[j].pc /\ Answered(job[j], c, FALSE).reg = job[j].reg
        /\ Answered(job[j], c, FALSE).olds = job[j].olds \ {c}
        /\ Answered(job[j], c, FALSE).killed = job[j].killed
    BY <2>1, AnsweredFacts
  <2>3. moves' \in Nat /\ job[j].pc = "deactivate"
    BY DEF TypeOK
  <2>4. QED
    BY <2>1, <2>2, <2>3 DEF OnlyJob
<1>3. TypeOK'
  BY <1>1, <1>2 DEF TypeOK, OnlyJob
<1>4. \A x \in Checkouts : RowOK(x)'
  BY <1>1 DEF RowOK
<1>5. \A x \in job[j].killed : prov'[x].state = "dead"
  BY <1>1, JobTyped DEF JobOK
<1>6. \A k \in Jobs \ {j} : (JobOK(k) /\ LockOK(k))'
  BY <1>1, <1>2, JobUndisturbed, JobTyped DEF OnlyJob
<1>7. (JobOK(j) /\ LockOK(j))'
  <2>1. /\ job[j].reg \in Regs
        /\ \A x \in job[j].olds \cup job[j].killed \cup {c} :
              txLock[x] = j /\ tx[x].status = "pending"
    BY DEF JobOK
  <2>2. JobOK(j)'
    BY <1>2, <1>5, <2>1 DEF JobOK
  <2>3. LockOK(j)'
    BY <1>2 DEF LockOK
  <2>4. QED
    BY <2>2, <2>3
<1>8. SeatPaidByCapture'
  BY <1>1, SeatsKept
<1>9. QED
  BY <1>3, <1>4, <1>6, <1>7, <1>8

LEMMA CreateRecheckInv ==
  ASSUME IInv, NEW j \in Jobs, CreateRecheck(j)
  PROVE  IInv'
<1>1. /\ TypeOK /\ SeatPaidByCapture
      /\ \A x \in Checkouts : RowOK(x)
      /\ \A k \in Jobs : JobOK(k) /\ LockOK(k)
  BY DEF IInv
<1>2. /\ job[j].pc = "deactivate"
      /\ UNCHANGED <<prov, reg, cardMails, fee, off, moves>>
  BY DEF CreateRecheck, provVars, eventVars
<1>3. CASE off
  <2>1. tx' = WithKilled(j) /\ EndTransaction(j) /\ Finish(j)
    BY <1>3 DEF CreateRecheck
  <2>2. OnlyJob(j) /\ job'[j].pc = "idle"
    BY <1>1, <2>1, FinishFacts
  <2>3. /\ tx' \in [Checkouts -> TxType] /\ SeatPaidByCapture'
        /\ \A x \in Checkouts : RowOK(x)'
        /\ \A k \in Jobs \ {j} : (JobOK(k) /\ LockOK(k))'
    BY <1>2, <2>1, <2>2, WithdrawalKeeps
  <2>4. TypeOK'
    BY <1>1, <1>2, <2>1, <2>2, <2>3, EndFacts DEF TypeOK, OnlyJob
  <2>5. (JobOK(j) /\ LockOK(j))'
    BY <1>1, <2>1, <2>2, EndFacts, NoLocksOK
  <2>6. QED
    BY <2>3, <2>4, <2>5 DEF IInv
<1>4. CASE ~off
  <2>1. fee \in Nat
    BY <1>1, BoundsAssumption DEF TypeOK
  <2>2. /\ UNCHANGED <<tx, txLock, regLock>>
        /\ job' = [job EXCEPT ![j] = Priced(@, fee)]
    BY <1>4 DEF CreateRecheck, lockVars
  <2>3. /\ OnlyJob(j) /\ job'[j].pc = "create"
        /\ \A f \in {"reg", "on", "olds", "killed"} : job'[j][f] = job[j][f]
    BY <1>1, <2>1, <2>2, PricedFacts, JobTyped DEF OnlyJob
  <2>4. TypeOK'
    BY <1>1, <1>2, <2>2, <2>3 DEF TypeOK, OnlyJob
  <2>5. \A x \in Checkouts : RowOK(x)'
    BY <1>1, <1>2, <2>2, RowKept
  <2>6. ASSUME NEW k \in Jobs \ {j} PROVE (JobOK(k) /\ LockOK(k))'
    BY <1>1, <1>2, <2>2, <2>3, JobUndisturbed, JobTyped DEF OnlyJob
  <2>7. (JobOK(j) /\ LockOK(j))'
    BY <1>1, <1>2, <2>2, <2>3 DEF JobOK, LockOK
  <2>8. SeatPaidByCapture'
    BY <1>1, <1>2, <2>2 DEF SeatPaidByCapture
  <2>9. QED
    BY <2>4, <2>5, <2>6, <2>7, <2>8 DEF IInv
<1>5. QED
  BY <1>3, <1>4

LEMMA CreateCommitsInv ==
  ASSUME IInv, NEW j \in Jobs, NEW c \in Checkouts, CreateCommits(j, c)
  PROVE  IInv'
<1>1. /\ TypeOK /\ SeatPaidByCapture
      /\ \A x \in Checkouts : RowOK(x)
      /\ \A k \in Jobs : JobOK(k) /\ LockOK(k)
  BY DEF IInv
<1>2. /\ job[j].pc = "create" /\ prov[c].state = "none"
      /\ prov' = [prov EXCEPT ![c].state = "open"]
      /\ tx' = [WithKilled(j) EXCEPT ![c] = NewRow(job[j])]
      /\ EndTransaction(j) /\ Finish(j)
      /\ UNCHANGED <<reg, cardMails, fee, off, moves>>
  BY DEF CreateCommits, eventVars
<1>3. OnlyJob(j) /\ job'[j].pc = "idle"
  BY <1>1, <1>2, FinishFacts
<1>4. \A x \in job[j].killed : /\ x \in Checkouts /\ txLock[x] = j
                               /\ tx[x].status = "pending" /\ prov[x].state = "dead"
  BY <1>2, KilledOwned
<1>5. job[j].reg \in Regs /\ tx[c].status = "none" /\ c \notin job[j].killed
  BY <1>1, <1>2, <1>4 DEF JobOK, RowOK
<1>6. /\ prov' \in [Checkouts -> ProvType] /\ prov'[c].state = "open"
      /\ \A x \in Checkouts \ {c} : prov'[x].state = prov[x].state
  BY <1>1, <1>2 DEF TypeOK, ProvType, ProvStates
<1>7. NewRow(job[j]) \in TxType /\ NewRow(job[j]).status = "pending" /\ NewRow(job[j]).reg \in Regs
  BY <1>1, <1>5, JobTyped, NewRowFacts
<1>8. WithKilled(j) \in [Checkouts -> TxType]
  BY <1>1, KilledFacts
<1>9. /\ tx' \in [Checkouts -> TxType] /\ tx'[c] = NewRow(job[j])
      /\ \A x \in Checkouts \ {c} : tx'[x] = WithKilled(j)[x]
  BY <1>2, <1>7, <1>8
<1>10. ASSUME NEW x \in Checkouts \ {c}
       PROVE  /\ tx'[x].reg = tx[x].reg
              /\ x \notin job[j].killed => tx'[x] = tx[x]
              /\ x \in job[j].killed => /\ tx'[x].status = "cancelled"
                                        /\ tx'[x].reason = "superseded"
                                        /\ tx'[x].note = ""
  <2>1. tx'[x] = WithKilled(j)[x]
    BY <1>9
  <2>2. /\ WithKilled(j)[x].reg = tx[x].reg
        /\ x \notin job[j].killed => WithKilled(j)[x] = tx[x]
        /\ x \in job[j].killed => /\ WithKilled(j)[x].status = "cancelled"
                                  /\ WithKilled(j)[x].reason = "superseded"
                                  /\ WithKilled(j)[x].note = ""
    BY <1>1, KilledFacts
  <2>3. QED
    BY <2>1, <2>2
<1>11. TypeOK'
  BY <1>1, <1>2, <1>3, <1>6, <1>9, EndFacts DEF TypeOK, OnlyJob
<1>12. ASSUME NEW x \in Checkouts PROVE RowOK(x)'
  <2>1. CASE x = c
    BY <2>1, <1>6, <1>7, <1>9 DEF RowOK
  <2>2. CASE x # c /\ x \in job[j].killed
    BY <2>2, <1>1, <1>4, <1>6, <1>10, RowWithdrawn
  <2>3. CASE x # c /\ x \notin job[j].killed
    BY <2>3, <1>1, <1>6, <1>10, RowKept
  <2>4. QED
    BY <2>1, <2>2, <2>3
<1>13. ASSUME NEW x \in Checkouts
       PROVE  /\ tx[x].status # "none" => tx'[x].status # "none"
              /\ tx[x].status = "paid" => tx'[x].status = "paid" /\ tx'[x].reg = tx[x].reg
              /\ txLock[x] # j /\ tx[x].status = "pending" => tx'[x].status = "pending"
              /\ prov[x].state \in {"paid", "dead"} => prov'[x].state = prov[x].state
  <2>1. CASE x = c
    BY <2>1, <1>2, <1>5
  <2>2. CASE x # c /\ x \in job[j].killed
    BY <2>2, <1>4, <1>6, <1>10
  <2>3. CASE x # c /\ x \notin job[j].killed
    BY <2>3, <1>6, <1>10
  <2>4. QED
    BY <2>1, <2>2, <2>3
<1>14. ASSUME NEW k \in Jobs \ {j} PROVE (JobOK(k) /\ LockOK(k))'
  <2>1. \A r \in Regs : regLock'[r] = k => regLock[r] = k
    BY <1>1, <1>2, EndFacts
  <2>2. \A x \in Checkouts : txLock'[x] = k <=> txLock[x] = k
    BY <1>1, <1>2, EndFacts
  <2>3. job[k] \in JobType /\ job'[k] = job[k]
    BY <1>1, <1>3, JobTyped DEF OnlyJob
  <2>4. QED
    BY <2>1, <2>2, <2>3, <1>1, <1>13, JobUndisturbed
<1>15. (JobOK(j) /\ LockOK(j))'
  BY <1>1, <1>2, <1>3, EndFacts, NoLocksOK
<1>16. SeatPaidByCapture'
  BY <1>1, <1>2, <1>13, SeatsKept
<1>17. QED
  BY <1>11, <1>12, <1>14, <1>15, <1>16 DEF IInv

LEMMA CreateFailsInv ==
  ASSUME IInv, NEW j \in Jobs, CreateFails(j)
  PROVE  IInv'
<1>1. /\ TypeOK /\ SeatPaidByCapture
      /\ \A x \in Checkouts : RowOK(x)
      /\ \A k \in Jobs : JobOK(k) /\ LockOK(k)
  BY DEF IInv
<1>2. /\ job[j].pc = "create"
      /\ tx' = WithKilled(j) /\ EndTransaction(j) /\ Finish(j)
      /\ UNCHANGED <<prov, reg, cardMails, fee, off>>
      /\ moves' \in Nat
  BY <1>1 DEF CreateFails, Disturb, provVars, eventVars, TypeOK
<1>3. OnlyJob(j) /\ job'[j].pc = "idle"
  BY <1>1, <1>2, FinishFacts
<1>4. /\ tx' \in [Checkouts -> TxType] /\ SeatPaidByCapture'
      /\ \A x \in Checkouts : RowOK(x)'
      /\ \A k \in Jobs \ {j} : (JobOK(k) /\ LockOK(k))'
  BY <1>2, <1>3, WithdrawalKeeps
<1>5. TypeOK'
  BY <1>1, <1>2, <1>3, <1>4, EndFacts DEF TypeOK, OnlyJob
<1>6. (JobOK(j) /\ LockOK(j))'
  BY <1>1, <1>2, <1>3, EndFacts, NoLocksOK
<1>7. QED
  BY <1>4, <1>5, <1>6 DEF IInv

LEMMA SyncBeginInv ==
  ASSUME IInv, NEW j \in Jobs, NEW c \in Checkouts, NEW b \in BOOLEAN, SyncBegin(j, c, b)
  PROVE  IInv'
<1> USE BoundsAssumption DEF IInv, SyncBegin, IdleJob, provVars, tableVars, eventVars,
           lockVars
<1>1. TypeOK'
  <2>1. job' \in [Jobs -> JobType]
    BY DEF TypeOK, JobType, Pcs, ProvStates, TxStatuses
  <2>2. QED
    BY <2>1 DEF TypeOK
<1>2. \A x \in Checkouts : RowOK(x)'
  BY DEF RowOK
<1>3. \A k \in Jobs : (JobOK(k) /\ LockOK(k))'
  BY DEF JobOK, LockOK, TypeOK
<1>4. SeatPaidByCapture'
  BY DEF SeatPaidByCapture, TypeOK
<1>5. QED
  BY <1>1, <1>2, <1>3, <1>4

LEMMA ReportBeginInv ==
  ASSUME IInv, NEW j \in Jobs, NEW c \in Checkouts, ReportBegin(j, c)
  PROVE  IInv'
<1> USE BoundsAssumption DEF IInv, ReportBegin, IdleJob, provVars, tableVars, eventVars,
           lockVars
<1>1. TypeOK'
  <2>1. job' \in [Jobs -> JobType]
    BY DEF TypeOK, JobType, Pcs, ProvStates, TxStatuses
  <2>2. QED
    BY <2>1 DEF TypeOK
<1>2. \A x \in Checkouts : RowOK(x)'
  BY DEF RowOK
<1>3. \A k \in Jobs : (JobOK(k) /\ LockOK(k))'
  BY DEF JobOK, LockOK, TypeOK
<1>4. SeatPaidByCapture'
  BY DEF SeatPaidByCapture, TypeOK
<1>5. QED
  BY <1>1, <1>2, <1>3, <1>4

LEMMA AskInv ==
  ASSUME IInv, NEW j \in Jobs, Ask(j)
  PROVE  IInv'
<1> DEFINE p == prov[job[j].on]
<1> USE DEF IInv, Ask, provVars, tableVars, eventVars, lockVars
<1>1. /\ job[j].on \in Checkouts /\ tx[job[j].on].status # "none"
      /\ \A c \in Checkouts : txLock[c] # j
      /\ \A r \in Regs : regLock[r] # j
  BY DEF JobOK, LockOK
<1>2. p \in ProvType
  BY <1>1 DEF TypeOK
<1>3. \/ /\ OnlyJob(j)
         /\ job'[j].pc = "idle" \/ (job'[j].pc = "note" /\ job'[j].on = job[j].on)
      \/ /\ OnlyJob(j)
         /\ job'[j].pc = Verdict(p) /\ Verdict(p) \in {"applytx", "terminal", "declined"}
         /\ job'[j].on = job[j].on
  <2>1. CASE Verdict(p) = "nothing"
    BY <2>1, AfterSyncFacts
  <2>2. CASE Verdict(p) # "nothing"
    <3>1. Verdict(p) \in {"applytx", "terminal", "declined"}
      BY <2>2 DEF Verdict
    <3>2. Verdict(p) \in Pcs
      BY <3>1 DEF Pcs
    <3>3. QED
      BY <2>2, <3>1, <3>2, <1>2, HeardFacts, JobTyped DEF OnlyJob
  <2>3. QED
    BY <2>1, <2>2
<1>4. TypeOK'
  BY <1>3 DEF TypeOK, OnlyJob
<1>5. \A x \in Checkouts : RowOK(x)'
  BY DEF RowOK
<1>6. \A k \in Jobs \ {j} : (JobOK(k) /\ LockOK(k))'
  BY <1>3, JobUndisturbed, JobTyped DEF OnlyJob
<1>7. (JobOK(j) /\ LockOK(j))'
  BY <1>1, <1>3 DEF JobOK, LockOK, Verdict
<1>8. SeatPaidByCapture'
  BY DEF SeatPaidByCapture
<1>9. QED
  BY <1>4, <1>5, <1>6, <1>7, <1>8

LEMMA AskFailsInv ==
  ASSUME IInv, NEW j \in Jobs, AskFails(j)
  PROVE  IInv'
<1> USE DEF IInv, AskFails, Disturb, provVars, tableVars, eventVars, lockVars
<1>1. /\ job[j].on \in Checkouts /\ tx[job[j].on].status # "none"
      /\ \A c \in Checkouts : txLock[c] # j
      /\ \A r \in Regs : regLock[r] # j
  BY DEF JobOK, LockOK
<1>2. /\ OnlyJob(j)
      /\ job'[j].pc = "idle" \/ (job'[j].pc = "note" /\ job'[j].on = job[j].on)
  BY AfterSyncFacts
<1>3. TypeOK'
  BY <1>2 DEF TypeOK, OnlyJob
<1>4. \A x \in Checkouts : RowOK(x)'
  BY DEF RowOK
<1>5. \A k \in Jobs \ {j} : (JobOK(k) /\ LockOK(k))'
  BY <1>2, JobUndisturbed, JobTyped DEF OnlyJob
<1>6. (JobOK(j) /\ LockOK(j))'
  BY <1>1, <1>2, NoLocksOK
<1>7. SeatPaidByCapture'
  BY DEF SeatPaidByCapture
<1>8. QED
  BY <1>3, <1>4, <1>5, <1>6, <1>7

LEMMA ApplyLockTxInv ==
  ASSUME IInv, NEW j \in Jobs, ApplyLockTx(j)
  PROVE  IInv'
<1> DEFINE c == job[j].on
<1> USE DEF IInv, ApplyLockTx, provVars, tableVars, eventVars, lockVars
<1>1. /\ c \in Checkouts /\ tx[c].status # "none" /\ prov[c].state = "paid"
      /\ \A x \in Checkouts : txLock[x] # j
      /\ \A r \in Regs : regLock[r] # j
  BY DEF JobOK, LockOK
<1>2. CASE AlreadyPaid(c)
  <2>1. /\ OnlyJob(j) /\ txLock' = txLock
        /\ job'[j].pc = "idle" \/ (job'[j].pc = "note" /\ job'[j].on = job[j].on)
    BY <1>2, AfterSyncFacts
  <2>2. TypeOK'
    BY <2>1 DEF TypeOK, OnlyJob
  <2>3. \A x \in Checkouts : RowOK(x)'
    BY DEF RowOK
  <2>4. \A k \in Jobs \ {j} : (JobOK(k) /\ LockOK(k))'
    BY <2>1, JobUndisturbed, JobTyped DEF OnlyJob
  <2>5. (JobOK(j) /\ LockOK(j))'
    BY <1>1, <2>1, NoLocksOK
  <2>6. SeatPaidByCapture'
    BY DEF SeatPaidByCapture
  <2>7. QED
    BY <2>2, <2>3, <2>4, <2>5, <2>6
<1>3. CASE ~AlreadyPaid(c)
  <2>1. /\ OnlyJob(j) /\ job'[j].pc = "applyreg" /\ job'[j].on = job[j].on
    BY <1>3, GotoFacts DEF Pcs
  <2>2. txLock' = [txLock EXCEPT ![c] = j] /\ txLock[c] = None
    BY <1>3
  <2>3. TypeOK'
    BY <2>1, <2>2 DEF TypeOK, OnlyJob
  <2>4. \A x \in Checkouts : RowOK(x)'
    BY DEF RowOK
  <2>5. \A k \in Jobs \ {j} : (JobOK(k) /\ LockOK(k))'
    BY <2>1, <2>2, BoundsAssumption, JobUndisturbed, JobTyped DEF OnlyJob, TypeOK
  <2>6. (JobOK(j) /\ LockOK(j))'
    BY <1>1, <2>1, <2>2 DEF JobOK, LockOK, TypeOK
  <2>7. SeatPaidByCapture'
    BY DEF SeatPaidByCapture
  <2>8. QED
    BY <2>3, <2>4, <2>5, <2>6, <2>7
<1>4. QED
  BY <1>2, <1>3

LEMMA ApplyCommitInv ==
  ASSUME IInv, NEW j \in Jobs, ApplyCommit(j)
  PROVE  IInv'
<1> DEFINE c == job[j].on
           r == tx[c].reg
<1> USE DEF IInv, ApplyCommit, provVars, eventVars
<1>1. /\ c \in Checkouts /\ tx[c].status # "none" /\ prov[c].state = "paid"
      /\ txLock[c] = j /\ r \in Regs
  BY DEF JobOK, RowOK
<1>2. /\ OnlyJob(j) /\ EndTransaction(j)
      /\ job'[j].pc = "idle" \/ (job'[j].pc = "note" /\ job'[j].on = job[j].on)
  BY AfterSyncFacts
<1>3. /\ PaidRow(tx[c], job[j].tries) \in TxType
      /\ PaidRow(tx[c], job[j].tries).status = "paid"
      /\ PaidRow(tx[c], job[j].tries).reg = r
      /\ PaidRow(tx[c], job[j].tries).reason = "" /\ PaidRow(tx[c], job[j].tries).note = ""
  BY <1>1, PaidFacts, JobTyped DEF TypeOK
<1>4. /\ tx' \in [Checkouts -> TxType]
      /\ tx'[c].status = "paid" /\ tx'[c].reg = r /\ tx'[c].reason = "" /\ tx'[c].note = ""
      /\ \A x \in Checkouts \ {c} : tx'[x] = tx[x]
  BY <1>1, <1>3 DEF TypeOK
<1>5. /\ reg' \in [Regs -> RegType]
      /\ \A q \in Regs \ {r} : reg'[q] = reg[q]
      /\ reg'[r] = reg[r] \/ reg'[r].byHand = reg[r].byHand
      /\ cardMails' \in [Regs -> Nat]
  <2>1. CASE Confirms(c)
    <3>1. Confirmed(reg[r]) \in RegType /\ Confirmed(reg[r]).byHand = reg[r].byHand
      BY <1>1, ConfirmedFacts DEF TypeOK
    <3>2. reg' = [reg EXCEPT ![r] = Confirmed(@)] /\ cardMails' = [cardMails EXCEPT ![r] = @ + 1]
      BY <2>1
    <3>3. QED
      BY <1>1, <3>1, <3>2 DEF TypeOK
  <2>2. CASE ~Confirms(c)
    BY <2>2 DEF TypeOK
  <2>3. QED
    BY <2>1, <2>2
<1>6. TypeOK'
  BY <1>2, <1>4, <1>5, EndFacts DEF TypeOK, OnlyJob
<1>7. \A x \in Checkouts : RowOK(x)'
  BY <1>1, <1>4 DEF RowOK
<1>8. ASSUME NEW k \in Jobs \ {j} PROVE (JobOK(k) /\ LockOK(k))'
  <2>1. \A x \in Checkouts :
           /\ tx[x].status # "none" => tx'[x].status # "none"
           /\ txLock[x] = k => tx'[x] = tx[x]
    BY <1>1, <1>4
  <2>2. QED
    BY <2>1, <1>2, EndFacts, JobUndisturbed, JobTyped DEF OnlyJob
<1>9. (JobOK(j) /\ LockOK(j))'
  BY <1>1, <1>2, <1>4, EndFacts, NoLocksOK
<1>10. ASSUME NEW q \in Regs, reg'[q].paid
       PROVE  \/ reg'[q].byHand
              \/ \E x \in Checkouts : /\ tx'[x].reg = q /\ tx'[x].status = "paid"
                                      /\ prov'[x].state = "paid"
  <2>1. CASE q = r
    BY <2>1, <1>1, <1>4
  <2>2. CASE q # r
    <3>1. reg'[q] = reg[q]
      BY <2>2, <1>5
    <3>2. CASE reg[q].byHand
      BY <3>1, <3>2
    <3>3. CASE \E x \in Checkouts : /\ tx[x].reg = q /\ tx[x].status = "paid"
                                    /\ prov[x].state = "paid"
      <4>1. PICK x \in Checkouts : /\ tx[x].reg = q /\ tx[x].status = "paid"
                                   /\ prov[x].state = "paid"
        BY <3>3
      <4>2. x # c
        BY <4>1, <2>2
      <4>3. QED
        BY <4>1, <4>2, <1>4
    <3>4. QED
      BY <1>10, <3>1, <3>2, <3>3 DEF SeatPaidByCapture
  <2>3. QED
    BY <2>1, <2>2
<1>11. QED
  BY <1>6, <1>7, <1>8, <1>9, <1>10 DEF SeatPaidByCapture

LEMMA RecordTerminalInv ==
  ASSUME IInv, NEW j \in Jobs, RecordTerminal(j)
  PROVE  IInv'
<1>1. /\ TypeOK /\ SeatPaidByCapture
      /\ \A x \in Checkouts : RowOK(x)
      /\ \A k \in Jobs : JobOK(k) /\ LockOK(k)
  BY DEF IInv
<1>2. PICK c \in Checkouts : c = job[j].on
  BY <1>1 DEF RecordTerminal, JobOK
<1> DEFINE new == Closed(tx[c], job[j].tries)
<1>3. /\ AfterSync(j) /\ txLock[c] = None
      /\ tx' = IF StillPending(c) THEN [tx EXCEPT ![c] = new] ELSE tx
      /\ UNCHANGED <<prov, reg, cardMails, fee, off, txLock, regLock, moves>>
  BY <1>2 DEF RecordTerminal, provVars, eventVars, lockVars
<1>4. /\ tx[c].status # "none" /\ prov[c].state = "dead"
      /\ \A x \in Checkouts : txLock[x] # j
      /\ \A q \in Regs : regLock[q] # j
  BY <1>1, <1>2 DEF RecordTerminal, JobOK, LockOK
<1>5. OnlyJob(j) /\ (job'[j].pc = "idle" \/ (job'[j].pc = "note" /\ job'[j].on = c))
  BY <1>1, <1>2, <1>3, AfterSyncFacts
<1>6. tx[c] \in TxType /\ RowOK(c) /\ tx \in [Checkouts -> TxType]
  BY <1>1, <1>4 DEF TypeOK
<1>7. /\ new \in TxType /\ new.status = "failed" /\ new.reg = tx[c].reg
  BY <1>1, <1>6, JobTyped, ClosedFacts
<1>8. CASE StillPending(c)
  <2>1. /\ tx'[c] = new /\ tx' \in [Checkouts -> TxType]
        /\ \A x \in Checkouts \ {c} : tx'[x] = tx[x]
    BY <1>3, <1>4, <1>6, <1>7, <1>8
  <2>2. RowOK(c)'
    <3> HIDE DEF new
    <3>1. QED
      BY <1>3, <1>4, <1>6, <1>7, <1>8, <2>1 DEF RowOK, StillPending
  <2>3. /\ tx'[c].status # "none" /\ tx'[c].reg = tx[c].reg
        /\ tx[c].status = "paid" => tx'[c].status = "paid"
    BY <1>4, <1>7, <1>8, <2>1 DEF StillPending
  <2>4. QED
    BY <1>1, <1>3, <1>4, <1>5, <2>1, <2>2, <2>3, RowWritten, NoLocksOK DEF IInv
<1>9. CASE ~(StillPending(c))
  <2>1. tx' = tx
    BY <1>3, <1>9
  <2>2. RowOK(c)'
    BY <1>3, <1>4, <1>6, <2>1, RowKept
  <2>3. QED
    BY <1>1, <1>3, <1>4, <1>5, <1>6, <2>1, <2>2, RowWritten, NoLocksOK DEF IInv
<1>10. QED
  BY <1>8, <1>9

LEMMA RecordDeclinedInv ==
  ASSUME IInv, NEW j \in Jobs, RecordDeclined(j)
  PROVE  IInv'
<1>1. /\ TypeOK /\ SeatPaidByCapture
      /\ \A x \in Checkouts : RowOK(x)
      /\ \A k \in Jobs : JobOK(k) /\ LockOK(k)
  BY DEF IInv
<1>2. PICK c \in Checkouts : c = job[j].on
  BY <1>1 DEF RecordDeclined, JobOK
<1> DEFINE new == Refused(tx[c], job[j].tries)
<1>3. /\ AfterSync(j) /\ txLock[c] = None
      /\ tx' = IF StillPending(c) THEN [tx EXCEPT ![c] = new] ELSE tx
      /\ UNCHANGED <<prov, reg, cardMails, fee, off, txLock, regLock, moves>>
  BY <1>2 DEF RecordDeclined, provVars, eventVars, lockVars
<1>4. /\ tx[c].status # "none"
      /\ \A x \in Checkouts : txLock[x] # j
      /\ \A q \in Regs : regLock[q] # j
  BY <1>1, <1>2 DEF RecordDeclined, JobOK, LockOK
<1>5. OnlyJob(j) /\ (job'[j].pc = "idle" \/ (job'[j].pc = "note" /\ job'[j].on = c))
  BY <1>1, <1>2, <1>3, AfterSyncFacts
<1>6. tx[c] \in TxType /\ RowOK(c) /\ tx \in [Checkouts -> TxType]
  BY <1>1, <1>4 DEF TypeOK
<1>7. /\ new \in TxType /\ new.status = tx[c].status /\ new.reg = tx[c].reg
  BY <1>1, <1>6, JobTyped, RefusedFacts
<1>8. CASE StillPending(c)
  <2>1. /\ tx'[c] = new /\ tx' \in [Checkouts -> TxType]
        /\ \A x \in Checkouts \ {c} : tx'[x] = tx[x]
    BY <1>3, <1>4, <1>6, <1>7, <1>8
  <2>2. RowOK(c)'
    <3> HIDE DEF new
    <3>1. QED
      BY <1>3, <1>4, <1>6, <1>7, <1>8, <2>1 DEF RowOK, StillPending
  <2>3. /\ tx'[c].status # "none" /\ tx'[c].reg = tx[c].reg
        /\ tx[c].status = "paid" => tx'[c].status = "paid"
    BY <1>4, <1>7, <1>8, <2>1 DEF StillPending
  <2>4. QED
    BY <1>1, <1>3, <1>4, <1>5, <2>1, <2>2, <2>3, RowWritten, NoLocksOK DEF IInv
<1>9. CASE ~(StillPending(c))
  <2>1. tx' = tx
    BY <1>3, <1>9
  <2>2. RowOK(c)'
    BY <1>3, <1>4, <1>6, <2>1, RowKept
  <2>3. QED
    BY <1>1, <1>3, <1>4, <1>5, <1>6, <2>1, <2>2, RowWritten, NoLocksOK DEF IInv
<1>10. QED
  BY <1>8, <1>9

LEMMA AppendNoteInv ==
  ASSUME IInv, NEW j \in Jobs, AppendNote(j)
  PROVE  IInv'
<1>1. /\ TypeOK /\ SeatPaidByCapture
      /\ \A x \in Checkouts : RowOK(x)
      /\ \A k \in Jobs : JobOK(k) /\ LockOK(k)
  BY DEF IInv
<1>2. PICK c \in Checkouts : c = job[j].on
  BY <1>1 DEF AppendNote, JobOK
<1> DEFINE new == Noted(tx[c])
<1>3. /\ Finish(j) /\ txLock[c] = None
      /\ tx' = IF tx[c].status \in {"pending", "failed"} THEN [tx EXCEPT ![c] = new] ELSE tx
      /\ UNCHANGED <<prov, reg, cardMails, fee, off, txLock, regLock, moves>>
  BY <1>2 DEF AppendNote, provVars, eventVars, lockVars
<1>4. /\ tx[c].status # "none"
      /\ \A x \in Checkouts : txLock[x] # j
      /\ \A q \in Regs : regLock[q] # j
  BY <1>1, <1>2 DEF AppendNote, JobOK, LockOK
<1>5. OnlyJob(j) /\ (job'[j].pc = "idle")
  BY <1>1, <1>2, <1>3, FinishFacts
<1>6. tx[c] \in TxType /\ RowOK(c) /\ tx \in [Checkouts -> TxType]
  BY <1>1, <1>4 DEF TypeOK
<1>7. /\ new \in TxType /\ new.status = tx[c].status /\ new.reg = tx[c].reg
  BY <1>1, <1>6, JobTyped, NotedFacts
<1>8. CASE tx[c].status \in {"pending", "failed"}
  <2>1. /\ tx'[c] = new /\ tx' \in [Checkouts -> TxType]
        /\ \A x \in Checkouts \ {c} : tx'[x] = tx[x]
    BY <1>3, <1>4, <1>6, <1>7, <1>8
  <2>2. RowOK(c)'
    <3> HIDE DEF new
    <3>1. QED
      BY <1>3, <1>4, <1>6, <1>7, <1>8, <2>1 DEF RowOK
  <2>3. /\ tx'[c].status # "none" /\ tx'[c].reg = tx[c].reg
        /\ tx[c].status = "paid" => tx'[c].status = "paid"
    BY <1>4, <1>7, <1>8, <2>1 
  <2>4. QED
    BY <1>1, <1>3, <1>4, <1>5, <2>1, <2>2, <2>3, RowWritten, NoLocksOK DEF IInv
<1>9. CASE ~(tx[c].status \in {"pending", "failed"})
  <2>1. tx' = tx
    BY <1>3, <1>9
  <2>2. RowOK(c)'
    BY <1>3, <1>4, <1>6, <2>1, RowKept
  <2>3. QED
    BY <1>1, <1>3, <1>4, <1>5, <1>6, <2>1, <2>2, RowWritten, NoLocksOK DEF IInv
<1>10. QED
  BY <1>8, <1>9

LEMMA RefreshBeginInv ==
  ASSUME IInv, NEW j \in Jobs, NEW c \in Checkouts, RefreshBegin(j, c)
  PROVE  IInv'
<1> DEFINE K == [IdleJob EXCEPT !.pc = "refreshask", !.on = c, !.was = tx[c].status]
<1> USE DEF IInv, RefreshBegin, provVars, tableVars, eventVars, lockVars
<1>1. K \in JobType /\ K.pc = "refreshask" /\ K.on = c /\ K.was = tx[c].status
  BY DEF TypeOK, TxType, JobType, IdleJob, Pcs, ProvStates, TxStatuses
<1>2. OnlyJob(j) /\ job'[j] = K
  BY <1>1 DEF TypeOK, OnlyJob
<1>3. TypeOK'
  BY <1>2 DEF TypeOK, OnlyJob
<1>4. \A x \in Checkouts : RowOK(x)'
  BY DEF RowOK
<1>5. \A k \in Jobs \ {j} : (JobOK(k) /\ LockOK(k))'
  BY <1>2, JobUndisturbed, JobTyped DEF OnlyJob
<1>6. (JobOK(j) /\ LockOK(j))'
  <2>1. /\ tx[c].status # "none"
        /\ tx[c].status = "paid" => prov[c].state = "paid"
        /\ tx[c].status = "cancelled" => prov[c].state = "dead"
    BY DEF RowOK
  <2>2. (\A x \in Checkouts : txLock[x] # j) /\ (\A r \in Regs : regLock[r] # j)
    BY DEF LockOK
  <2>3. /\ job'[j].pc = "refreshask" /\ job'[j].on = c /\ job'[j].was = tx[c].status
        /\ UNCHANGED <<prov, tx, txLock, regLock>>
    BY <1>1, <1>2
  <2>4. JobOK(j)'
    BY <2>1, <2>3 DEF JobOK
  <2>5. LockOK(j)'
    BY <2>2, <2>3 DEF LockOK
  <2>6. QED
    BY <2>4, <2>5
<1>7. SeatPaidByCapture'
  BY DEF SeatPaidByCapture
<1>8. QED
  BY <1>3, <1>4, <1>5, <1>6, <1>7

LEMMA RefreshAskInv ==
  ASSUME IInv, NEW j \in Jobs, RefreshAsk(j)
  PROVE  IInv'
<1> DEFINE p == prov[job[j].on]
<1> USE DEF IInv, RefreshAsk, Disturb, provVars, tableVars, eventVars, lockVars
<1>1. /\ job[j].on \in Checkouts /\ tx[job[j].on].status # "none"
      /\ job[j].was = "paid" => p.state = "paid"
      /\ job[j].was = "cancelled" => p.state = "dead"
      /\ \A c \in Checkouts : txLock[c] # j
      /\ \A r \in Regs : regLock[r] # j
  BY DEF JobOK, LockOK
<1>2. p \in ProvType
  BY <1>1 DEF TypeOK
<1>3. /\ OnlyJob(j) /\ moves' \in Nat
      /\ \/ job'[j].pc = "idle"
         \/ /\ job'[j].pc = "refresh" /\ job'[j].ans = p.state
            /\ job'[j].on = job[j].on /\ job'[j].was = job[j].was
  <2>1. CASE Finish(j)
    BY <2>1, FinishFacts DEF TypeOK
  <2>2. CASE job' = [job EXCEPT ![j] = Heard(@, "refresh", p)]
    <3>1. "refresh" \in Pcs
      BY DEF Pcs
    <3>2. QED
      BY <2>2, <3>1, <1>2, HeardFacts, JobTyped DEF OnlyJob, TypeOK
  <2>3. QED
    BY <2>1, <2>2
<1>4. TypeOK'
  BY <1>3 DEF TypeOK, OnlyJob
<1>5. \A x \in Checkouts : RowOK(x)'
  BY DEF RowOK
<1>6. \A k \in Jobs \ {j} : (JobOK(k) /\ LockOK(k))'
  BY <1>3, JobUndisturbed, JobTyped DEF OnlyJob
<1>7. (JobOK(j) /\ LockOK(j))'
  BY <1>1, <1>3 DEF JobOK, LockOK
<1>8. SeatPaidByCapture'
  BY DEF SeatPaidByCapture
<1>9. QED
  BY <1>4, <1>5, <1>6, <1>7, <1>8

LEMMA RefreshWriteInv ==
  ASSUME IInv, NEW j \in Jobs, RefreshWrite(j)
  PROVE  IInv'
<1>1. /\ TypeOK /\ SeatPaidByCapture
      /\ \A x \in Checkouts : RowOK(x)
      /\ \A k \in Jobs : JobOK(k) /\ LockOK(k)
  BY DEF IInv
<1>2. PICK c \in Checkouts : c = job[j].on
  BY <1>1 DEF RefreshWrite, JobOK
<1> DEFINE new == Refreshed(tx[c], job[j].ans, job[j].tries)
<1>3. /\ Finish(j) /\ txLock[c] = None
      /\ tx' = IF tx[c].status = job[j].was THEN [tx EXCEPT ![c] = new] ELSE tx
      /\ UNCHANGED <<prov, reg, cardMails, fee, off, txLock, regLock, moves>>
  BY <1>2 DEF RefreshWrite, provVars, eventVars, lockVars
<1>4. /\ tx[c].status # "none"
      /\ job[j].was = "paid" => job[j].ans = "paid"
      /\ job[j].was = "cancelled" => job[j].ans # "paid"
      /\ \A x \in Checkouts : txLock[x] # j
      /\ \A q \in Regs : regLock[q] # j
  BY <1>1, <1>2 DEF RefreshWrite, JobOK, LockOK
<1>5. OnlyJob(j) /\ (job'[j].pc = "idle")
  BY <1>1, <1>2, <1>3, FinishFacts
<1>6. tx[c] \in TxType /\ RowOK(c) /\ tx \in [Checkouts -> TxType]
  BY <1>1, <1>4 DEF TypeOK
<1>7. /\ new \in TxType
      /\ new.status = tx[c].status /\ new.reg = tx[c].reg
      /\ job[j].ans = "paid" => new.reason = "" /\ new.note = ""
      /\ job[j].ans # "paid" /\ tx[c].status = "cancelled" =>
            new.reason = tx[c].reason /\ new.note = tx[c].note
  BY <1>1, <1>6, JobTyped, RefreshedFacts
<1>8. CASE tx[c].status = job[j].was
  <2> HIDE DEF new
  <2>1. /\ tx'[c] = new /\ tx' \in [Checkouts -> TxType]
        /\ \A x \in Checkouts \ {c} : tx'[x] = tx[x]
    <3>1. tx' = [tx EXCEPT ![c] = new]
      BY <1>3, <1>8
    <3>2. new \in TxType
      BY <1>7
    <3>3. QED
      BY <1>6, <3>1, <3>2
  <2>2. /\ new.status = "paid" => new.reason = "" /\ new.note = ""
        /\ new.status = "cancelled" => new.reason = tx[c].reason /\ new.note = tx[c].note
    BY <1>4, <1>7, <1>8
  <2>3. RowOK(c)'
    <3>1. prov'[c] = prov[c] /\ new.status = tx[c].status /\ new.reg = tx[c].reg
      BY <1>3, <1>7
    <3>2. QED
      BY <1>6, <2>1, <2>2, <3>1 DEF RowOK
  <2>4. /\ tx'[c].status = tx[c].status /\ tx'[c].reg = tx[c].reg
    BY <1>7, <2>1
  <2>5. QED
    BY <1>1, <1>3, <1>4, <1>5, <2>1, <2>3, <2>4, RowWritten, NoLocksOK DEF IInv
<1>9. CASE ~(tx[c].status = job[j].was)
  <2>1. tx' = tx
    BY <1>3, <1>9
  <2>2. RowOK(c)'
    BY <1>3, <1>4, <1>6, <2>1, RowKept
  <2>3. QED
    BY <1>1, <1>3, <1>4, <1>5, <1>6, <2>1, <2>2, RowWritten, NoLocksOK DEF IInv
<1>10. QED
  BY <1>8, <1>9

LEMMA RowMovedInv ==
  ASSUME IInv, NEW r \in Regs, NEW s \in RegStatuses, RowMoved(r, s)
  PROVE  IInv'
<1> USE BoundsAssumption DEF IInv, RowMoved, Disturb, provVars, tableVars, eventVars,
           lockVars
<1>1. TypeOK'
  <2>1. reg' \in [Regs -> RegType]
    BY DEF TypeOK, RegType, RegStatuses, SeatHolding
  <2>2. cardMails' \in [Regs -> Nat] /\ fee' \in Fees /\ off' \in BOOLEAN /\ moves' \in Nat
    BY DEF TypeOK
  <2>3. QED
    BY <2>1, <2>2 DEF TypeOK
<1>2. \A x \in Checkouts : RowOK(x)'
  BY DEF RowOK
<1>3. \A k \in Jobs : (JobOK(k) /\ LockOK(k))'
  BY DEF JobOK, LockOK, TypeOK
<1>4. SeatPaidByCapture'
  BY DEF SeatPaidByCapture, TypeOK
<1>5. QED
  BY <1>1, <1>2, <1>3, <1>4

LEMMA StaffEditsInv ==
  ASSUME IInv, NEW r \in Regs, NEW s \in RegStatuses, NEW p \in BOOLEAN, StaffEdits(r, s, p)
  PROVE  IInv'
<1> USE DEF IInv, StaffEdits, Disturb, provVars, eventVars, lockVars
<1>1. Edited(reg[r], s, p) \in RegType
  BY DEF TypeOK, RegType, RegStatuses, SeatHolding, Edited
<1>2. TypeOK'
  BY <1>1 DEF TypeOK
<1>3. \A x \in Checkouts : RowOK(x)'
  BY DEF RowOK
<1>4. \A k \in Jobs : (JobOK(k) /\ LockOK(k))'
  BY DEF JobOK, LockOK
<1>5. \A q \in Regs : reg'[q].paid => reg'[q].byHand \/ (reg[q].paid /\ ~reg[q].byHand)
  BY DEF TypeOK, RegType, Edited
<1>6. SeatPaidByCapture'
  BY <1>5 DEF SeatPaidByCapture
<1>7. QED
  BY <1>2, <1>3, <1>4, <1>6

LEMMA FeeChangesInv ==
  ASSUME IInv, NEW f \in Fees, FeeChanges(f)
  PROVE  IInv'
<1> USE BoundsAssumption DEF IInv, FeeChanges, Disturb, provVars, tableVars, eventVars,
           lockVars
<1>1. TypeOK'
  <2>1. cardMails' \in [Regs -> Nat] /\ fee' \in Fees /\ off' \in BOOLEAN /\ moves' \in Nat
    BY DEF TypeOK
  <2>2. QED
    BY <2>1 DEF TypeOK
<1>2. \A x \in Checkouts : RowOK(x)'
  BY DEF RowOK
<1>3. \A k \in Jobs : (JobOK(k) /\ LockOK(k))'
  BY DEF JobOK, LockOK, TypeOK
<1>4. SeatPaidByCapture'
  BY DEF SeatPaidByCapture, TypeOK
<1>5. QED
  BY <1>1, <1>2, <1>3, <1>4

LEMMA EventCancelledInv ==
  ASSUME IInv, EventCancelled
  PROVE  IInv'
<1> USE BoundsAssumption DEF IInv, EventCancelled, Disturb, provVars, tableVars,
           eventVars, lockVars
<1>1. TypeOK'
  <2>1. cardMails' \in [Regs -> Nat] /\ fee' \in Fees /\ off' \in BOOLEAN /\ moves' \in Nat
    BY DEF TypeOK
  <2>2. QED
    BY <2>1 DEF TypeOK
<1>2. \A x \in Checkouts : RowOK(x)'
  BY DEF RowOK
<1>3. \A k \in Jobs : (JobOK(k) /\ LockOK(k))'
  BY DEF JobOK, LockOK, TypeOK
<1>4. SeatPaidByCapture'
  BY DEF SeatPaidByCapture, TypeOK
<1>5. QED
  BY <1>1, <1>2, <1>3, <1>4

LEMMA CrashInv ==
  ASSUME IInv, NEW j \in Jobs, Crash(j)
  PROVE  IInv'
<1> USE BoundsAssumption DEF IInv, Crash, EndTransaction, Released, Finish, IdleJob,
           Disturb, provVars, tableVars, eventVars, lockVars
<1>1. TypeOK'
  <2>1. job' \in [Jobs -> JobType]
    BY DEF TypeOK, JobType, Pcs, ProvStates, TxStatuses
  <2>2. txLock' \in [Checkouts -> Jobs \cup {None}] /\ regLock' \in [Regs -> Jobs \cup {None}]
    BY DEF TypeOK
  <2>3. cardMails' \in [Regs -> Nat] /\ fee' \in Fees /\ off' \in BOOLEAN /\ moves' \in Nat
    BY DEF TypeOK
  <2>4. QED
    BY <2>1, <2>2, <2>3 DEF TypeOK
<1>2. \A x \in Checkouts : RowOK(x)'
  BY DEF RowOK
<1>3. \A k \in Jobs : (JobOK(k) /\ LockOK(k))'
  BY DEF JobOK, LockOK, TypeOK, JobType
<1>4. SeatPaidByCapture'
  BY DEF SeatPaidByCapture, TypeOK
<1>5. QED
  BY <1>1, <1>2, <1>3, <1>4

-----------------------------------------------------------------------------
(* The invariant of the specification *)

LEMMA ArrivalInv ==
  ASSUME IInv, NEW j \in Jobs, Arrival(j)
  PROVE  IInv'
<1>1. CASE \E r \in Regs : CreateBegin(j, r)
  BY <1>1, CreateBeginInv
<1>2. CASE \E c \in Checkouts, b \in BOOLEAN : SyncBegin(j, c, b)
  BY <1>2, SyncBeginInv
<1>3. CASE \E c \in Checkouts : ReportBegin(j, c)
  BY <1>3, ReportBeginInv
<1>4. CASE \E c \in Checkouts : RefreshBegin(j, c)
  BY <1>4, RefreshBeginInv
<1>5. QED
  BY <1>1, <1>2, <1>3, <1>4 DEF Arrival

LEMMA StepInv ==
  ASSUME IInv, NEW j \in Jobs, Step(j)
  PROVE  IInv'
<1>1. CASE CreateLockTxs(j)
  BY <1>1, CreateLockTxsInv
<1>2. CASE CreateLockReg(j)
  BY <1>2, CreateLockRegInv
<1>3. CASE CreateRecheck(j)
  BY <1>3, CreateRecheckInv
<1>4. CASE CreateFails(j)
  BY <1>4, CreateFailsInv
<1>5. CASE \E c \in Checkouts : \/ CreateDeactivates(j, c) \/ CreateCannotDeactivate(j, c)
                                \/ CreateDeactivationLost(j, c) \/ CreateCommits(j, c)
  BY <1>5, CreateDeactivatesInv, CreateCannotDeactivateInv, CreateDeactivationLostInv,
     CreateCommitsInv
<1>6. CASE Ask(j)
  BY <1>6, AskInv
<1>7. CASE AskFails(j)
  BY <1>7, AskFailsInv
<1>8. CASE ApplyLockTx(j)
  BY <1>8, ApplyLockTxInv
<1>9. CASE ApplyCommit(j)
  BY <1>9, ApplyCommitInv
<1>10. CASE RecordTerminal(j)
  BY <1>10, RecordTerminalInv
<1>11. CASE RecordDeclined(j)
  BY <1>11, RecordDeclinedInv
<1>12. CASE AppendNote(j)
  BY <1>12, AppendNoteInv
<1>13. CASE RefreshAsk(j)
  BY <1>13, RefreshAskInv
<1>14. CASE RefreshWrite(j)
  BY <1>14, RefreshWriteInv
<1>15. QED
  BY <1>1, <1>2, <1>3, <1>4, <1>5, <1>6, <1>7, <1>8, <1>9, <1>10, <1>11, <1>12, <1>13,
     <1>14 DEF Step

LEMMA NextInv == IInv /\ [Next]_vars => IInv'
<1> SUFFICES ASSUME IInv, [Next]_vars PROVE IInv'
    OBVIOUS
<1>1. CASE Customer
  BY <1>1, CustomerPaysInv, CardDeclinedInv, CheckoutExpiresInv DEF Customer
<1>2. CASE Surroundings
  BY <1>2, RowMovedInv, StaffEditsInv, FeeChangesInv, EventCancelledInv, CrashInv
     DEF Surroundings
<1>3. CASE \E j \in Jobs : Arrival(j) \/ Step(j)
  BY <1>3, ArrivalInv, StepInv
<1>4. CASE UNCHANGED vars
  <2>1. /\ TypeOK /\ SeatPaidByCapture
        /\ \A c \in Checkouts : RowOK(c)
        /\ \A j \in Jobs : JobOK(j) /\ LockOK(j)
    BY DEF IInv
  <2>2. TypeOK'
    BY <1>4, <2>1 DEF TypeOK, vars
  <2>3. SeatPaidByCapture'
    BY <1>4, <2>1 DEF SeatPaidByCapture, vars
  <2>4. \A c \in Checkouts : RowOK(c)'
    BY <1>4, <2>1 DEF RowOK, vars
  <2>5. \A j \in Jobs : (JobOK(j) /\ LockOK(j))'
    BY <1>4, <2>1, JobUndisturbed, JobTyped DEF vars
  <2>6. QED
    BY <2>2, <2>3, <2>4, <2>5 DEF IInv
<1>5. QED
  BY <1>1, <1>2, <1>3, <1>4 DEF Next

\* The inductive invariant holds in every reachable state: rows, the jobs that
\* hold them and SumUp's answers agree, however requests, crashes and lost calls
\* interleave.
THEOREM Invariance == Spec => []IInv
  BY InitInv, NextInv, PTL DEF Spec

-----------------------------------------------------------------------------
(* What follows from it *)

\* Every table, lock and request holds values of its type: a status, a reason
\* and a note in particular are always ours, never SumUp's words.
THEOREM TypeCorrect == Spec => []TypeOK
<1>1. IInv => TypeOK
  BY DEF IInv
<1>2. QED
  BY <1>1, Invariance, PTL

\* Money SumUp took is never written off, for any number of checkouts, requests
\* and failures: the row of a captured checkout is PENDING or PAID.
THEOREM CapturesSurvive == Spec => []CaptureNotLost
<1>1. IInv => CaptureNotLost
  BY DEF IInv, TypeOK, TxType, TxStatuses, RowOK, CaptureNotLost
<1>2. QED
  BY <1>1, Invariance, PTL

\* No row says PAID unless SumUp captured the money: no path through the sync
\* applies a payment on anything but SumUp's own final answer.
THEOREM PaidMeansCaptured == Spec => []PaidRowIsCaptured
<1>1. IInv => PaidRowIsCaptured
  BY DEF IInv, RowOK, PaidRowIsCaptured
<1>2. QED
  BY <1>1, Invariance, PTL

\* A paid row carries no failure reason and no widget note, however late the
\* decline, the report or the admin's snapshot is written.
THEOREM PaidIsSilent == Spec => []PaidRowSilent
<1>1. IInv => PaidRowSilent
  BY DEF IInv, RowOK, PaidRowSilent
<1>2. QED
  BY <1>1, Invariance, PTL

\* A withdrawn checkout keeps the reason we gave it and can never be charged.
THEOREM WithdrawnStaysDead == Spec => []SupersededKeepsItsAccount
<1>1. IInv => SupersededKeepsItsAccount
  BY DEF IInv, RowOK, SupersededKeepsItsAccount
<1>2. QED
  BY <1>1, Invariance, PTL

\* A seat counts as paid only because of a capture made for it, or by hand.
THEOREM SeatsArePaidFor == Spec => []SeatPaidByCapture
<1>1. IInv => SeatPaidByCapture
  BY DEF IInv
<1>2. QED
  BY <1>1, Invariance, PTL

\* No request waits for a payment row while it holds a registration row: the
\* webhook and the checkout creator take their locks in one order.
THEOREM LocksInOrder == Spec => []LockOrder
<1>1. IInv => LockOrder
  BY DEF IInv, LockOK, LockOrder
<1>2. QED
  BY <1>1, Invariance, PTL

-----------------------------------------------------------------------------
(* How a step of the payment code shows in the rows *)

\* All that can happen to a row and its checkout in one step: nothing the
\* ledger sees, or one of five moves.
Quiet(c) == tx'[c].status = tx[c].status /\ tx'[c].reg = tx[c].reg /\ prov'[c].state = prov[c].state
Opened(c) == /\ tx[c].status = "none" /\ tx'[c].status = "pending" /\ tx'[c].reg \in Regs
             /\ prov[c].state = "none" /\ prov'[c].state = "open"
Charged(c) == /\ tx[c].status = "pending" /\ tx'[c].status = "pending" /\ tx'[c].reg = tx[c].reg
              /\ prov[c].state = "open" /\ prov'[c].state = "paid"
Died(c) == /\ tx[c].status = "pending" /\ tx'[c].status = "pending" /\ tx'[c].reg = tx[c].reg
           /\ prov[c].state = "open" /\ prov'[c].state = "dead"
Shut(c) == /\ tx[c].status = "pending" /\ tx'[c].status \in {"failed", "cancelled"}
           /\ tx'[c].reg = tx[c].reg
           /\ prov[c].state = "dead" /\ prov'[c].state = "dead"
Booked(c) == /\ tx[c].status \in {"pending", "paid"} /\ tx'[c].status = "paid"
             /\ tx'[c].reg = tx[c].reg
             /\ prov[c].state = "paid" /\ prov'[c].state = "paid"

\* The registrations that count as paid stay the same.
MarksKept == \A r \in Regs : reg'[r].paid = reg[r].paid

\* What booking c may do to the seat it was for.
SeatSpared(c) ==
    LET r == tx[c].reg IN
    /\ reg'[r].status # reg[r].status =>
           reg[r].status = "pending" /\ reg'[r].status = "confirmed" /\ reg'[r].paid
    /\ reg'[r].paid /\ ~reg[r].paid => ~off /\ tx[c].amount = fee

\* What a step may do, row by row: a payment is applied, with a mail at most for
\* its registration, or none is.
BookShape(c) ==
    /\ \A x \in Checkouts \ {c} : Quiet(x)
    /\ Booked(c) /\ SeatSpared(c)
    /\ \A r \in Regs \ {tx[c].reg} : reg'[r].paid = reg[r].paid
    /\ reg[tx[c].reg].paid => reg'[tx[c].reg].paid
    /\ cardMails' \in {cardMails, [cardMails EXCEPT ![tx[c].reg] = @ + 1]}
PlainShape ==
    /\ cardMails' = cardMails
    /\ \/ (\A c \in Checkouts : Quiet(c) \/ Shut(c)) /\ MarksKept
       \/ \E c \in Checkouts : /\ \A x \in Checkouts \ {c} : Quiet(x) \/ Shut(x)
                               /\ Opened(c) \/ Charged(c) \/ Died(c)
                               /\ MarksKept
       \/ /\ \A c \in Checkouts : Quiet(c)
          /\ \E r \in Regs : \A q \in Regs \ {r} : reg'[q].paid = reg[q].paid
StepShape == PlainShape \/ \E c \in Checkouts : BookShape(c)

\* A step that leaves the rows, SumUp and the registrations alone.
LEMMA IdleShape == UNCHANGED <<prov, tx, reg, cardMails>> => PlainShape
  BY DEF PlainShape, Quiet, MarksKept

LEMMA WithdrawalShape ==
  ASSUME IInv, NEW j \in Jobs, job[j].pc \in {"deactivate", "create"},
         NEW x \in Checkouts, tx'[x] = WithKilled(j)[x], prov'[x].state = prov[x].state
  PROVE  Quiet(x) \/ Shut(x)
<1>1. TypeOK
  BY DEF IInv
<1>2. CASE x \in job[j].killed
  <2>1. tx[x].status = "pending" /\ prov[x].state = "dead"
    BY <1>2, KilledOwned
  <2>2. WithKilled(j)[x].status = "cancelled" /\ WithKilled(j)[x].reg = tx[x].reg
    BY <1>1, <1>2, KilledFacts
  <2>3. QED
    BY <2>1, <2>2 DEF Shut
<1>3. CASE x \notin job[j].killed
  BY <1>1, <1>3, KilledFacts DEF Quiet
<1>4. QED
  BY <1>2, <1>3

LEMMA CustomerShape ==
  ASSUME IInv, NEW c \in Checkouts, CustomerPays(c) \/ CardDeclined(c) \/ CheckoutExpires(c)
  PROVE  PlainShape
<1>1. /\ tx' = tx /\ reg' = reg /\ cardMails' = cardMails /\ prov[c].state = "open" /\ tx[c].status # "none"
      /\ \/ prov' = [prov EXCEPT ![c].state = "paid"]
         \/ prov' = [prov EXCEPT ![c].tries = @ + 1]
         \/ prov' = [prov EXCEPT ![c].state = "dead"]
  BY DEF CustomerPays, CardDeclined, CheckoutExpires, Payable, tableVars
<1>2. prov \in [Checkouts -> ProvType] /\ prov[c] \in ProvType
  BY DEF IInv, TypeOK
<1>3. tx[c].status = "pending"
  BY <1>1 DEF IInv, RowOK, TypeOK, TxType, TxStatuses
<1>4. \A x \in Checkouts \ {c} : prov'[x] = prov[x]
  BY <1>1, <1>2
<1>5. prov'[c].state \in {"open", "paid", "dead"}
  BY <1>1, <1>2 DEF ProvType
<1>6. (\A x \in Checkouts \ {c} : Quiet(x)) /\ MarksKept
  BY <1>1, <1>4 DEF Quiet, MarksKept
<1>7. Quiet(c) \/ Charged(c) \/ Died(c)
  BY <1>1, <1>3, <1>5 DEF Quiet, Charged, Died
<1>8. QED
  BY <1>1, <1>6, <1>7 DEF PlainShape

LEMMA DeactivationShape ==
  ASSUME IInv, NEW j \in Jobs, NEW c \in Checkouts,
         CreateDeactivates(j, c) \/ CreateDeactivationLost(j, c)
  PROVE  PlainShape
<1>1. /\ tx' = tx /\ reg' = reg /\ cardMails' = cardMails /\ prov[c].state # "paid"
      /\ job[j].pc = "deactivate" /\ c \in job[j].olds
      /\ prov' = prov \/ prov' = [prov EXCEPT ![c].state = "dead"]
  BY DEF CreateDeactivates, CreateDeactivationLost, Deactivated, tableVars
<1>2. prov \in [Checkouts -> ProvType] /\ prov[c] \in ProvType
  BY DEF IInv, TypeOK
<1>3. tx[c].status = "pending"
  BY <1>1 DEF IInv, JobOK
<1>4. prov[c].state \in {"open", "dead"}
  BY <1>1, <1>2, <1>3 DEF IInv, RowOK, ProvType, ProvStates
<1>5. \A x \in Checkouts \ {c} : prov'[x] = prov[x]
  BY <1>1, <1>2
<1>6. prov'[c].state \in {prov[c].state, "dead"}
  BY <1>1, <1>2 DEF ProvType
<1>7. (\A x \in Checkouts \ {c} : Quiet(x)) /\ MarksKept
  BY <1>1, <1>5 DEF Quiet, MarksKept
<1>8. Quiet(c) \/ Died(c)
  BY <1>1, <1>3, <1>4, <1>6 DEF Quiet, Died
<1>9. QED
  BY <1>1, <1>7, <1>8 DEF PlainShape

LEMMA CreateCommitsShape ==
  ASSUME IInv, NEW j \in Jobs, NEW c \in Checkouts, CreateCommits(j, c)
  PROVE  PlainShape
<1>1. /\ job[j].pc = "create" /\ prov[c].state = "none"
      /\ prov' = [prov EXCEPT ![c].state = "open"]
      /\ tx' = [WithKilled(j) EXCEPT ![c] = NewRow(job[j])]
      /\ reg' = reg /\ cardMails' = cardMails
  BY DEF CreateCommits
<1>2. TypeOK /\ prov \in [Checkouts -> ProvType] /\ prov[c] \in ProvType
  BY DEF IInv, TypeOK
<1>3. tx[c].status = "none" /\ job[j].reg \in Regs
  BY <1>1 DEF IInv, RowOK, JobOK
<1>4. NewRow(job[j]).status = "pending" /\ NewRow(job[j]).reg = job[j].reg
  BY <1>2, JobTyped, NewRowFacts
<1>5. WithKilled(j) \in [Checkouts -> TxType]
  BY <1>2, KilledFacts
<1>6. Opened(c)
  BY <1>1, <1>2, <1>3, <1>4, <1>5 DEF Opened, ProvType
<1>7. ASSUME NEW x \in Checkouts \ {c} PROVE Quiet(x) \/ Shut(x)
  <2>1. tx'[x] = WithKilled(j)[x] /\ prov'[x].state = prov[x].state
    BY <1>1, <1>2, <1>5
  <2>2. QED
    BY <1>1, <2>1, WithdrawalShape
<1>8. MarksKept
  BY <1>1 DEF MarksKept
<1>9. QED
  BY <1>1, <1>6, <1>7, <1>8 DEF PlainShape

LEMMA CreateEndsShape ==
  ASSUME IInv, NEW j \in Jobs, CreateRecheck(j) \/ CreateFails(j)
  PROVE  PlainShape
<1>1. /\ job[j].pc \in {"deactivate", "create"}
      /\ tx' = WithKilled(j) \/ tx' = tx
      /\ prov' = prov /\ reg' = reg /\ cardMails' = cardMails
  BY DEF CreateRecheck, CreateFails, provVars
<1>2. CASE tx' = WithKilled(j)
  <2>1. \A x \in Checkouts : Quiet(x) \/ Shut(x)
    BY <1>1, <1>2, WithdrawalShape
  <2>2. QED
    BY <1>1, <2>1 DEF PlainShape, MarksKept
<1>3. CASE tx' = tx
  BY <1>1, <1>3, IdleShape
<1>4. QED
  BY <1>1, <1>2, <1>3

LEMMA ApplyCommitShape ==
  ASSUME IInv, NEW j \in Jobs, ApplyCommit(j)
  PROVE  job[j].on \in Checkouts /\ BookShape(job[j].on)
<1>1. PICK c \in Checkouts : c = job[j].on
  BY DEF IInv, ApplyCommit, JobOK
<1>2. /\ prov' = prov /\ job[j].pc = "applyreg"
      /\ tx' = [tx EXCEPT ![c] = PaidRow(@, job[j].tries)]
      /\ \/ reg' = [reg EXCEPT ![tx[c].reg] = Confirmed(@)]
         \/ reg' = reg
  BY <1>1 DEF ApplyCommit, provVars
<1>3. /\ TypeOK /\ tx \in [Checkouts -> TxType] /\ reg \in [Regs -> RegType]
      /\ tx[c] \in TxType
  BY DEF IInv, TypeOK
<1>4. prov[c].state = "paid" /\ tx[c].status # "none"
  BY <1>1, <1>2 DEF IInv, JobOK
<1>5. tx[c].status \in {"pending", "paid"} /\ tx[c].reg \in Regs
  BY <1>3, <1>4 DEF IInv, RowOK, TxType, TxStatuses
<1>6. PaidRow(tx[c], job[j].tries).status = "paid" /\ PaidRow(tx[c], job[j].tries).reg = tx[c].reg
  BY <1>3, JobTyped, PaidFacts
<1>7. Booked(c)
  BY <1>2, <1>3, <1>4, <1>5, <1>6 DEF Booked
<1>8. \A x \in Checkouts \ {c} : Quiet(x)
  BY <1>2, <1>3 DEF Quiet
<1>9. reg[tx[c].reg] \in RegType
  BY <1>3, <1>5
<1>10. Confirmed(reg[tx[c].reg]).paid
  BY <1>9 DEF Confirmed, RegType
<1>11. /\ \A r \in Regs \ {tx[c].reg} : reg'[r].paid = reg[r].paid
       /\ reg[tx[c].reg].paid => reg'[tx[c].reg].paid
  BY <1>2, <1>3, <1>5, <1>10
<1>12. SeatSpared(c)
  <2>1. CASE Confirms(c)
    <3>1. /\ reg' = [reg EXCEPT ![tx[c].reg] = Confirmed(@)]
          /\ reg[tx[c].reg].status \in SeatHolding /\ ~off /\ tx[c].amount = fee
      BY <1>1, <2>1 DEF ApplyCommit, Confirms
    <3>2. reg'[tx[c].reg] = Confirmed(reg[tx[c].reg])
      BY <1>3, <1>5, <3>1
    <3>3. Confirmed(reg[tx[c].reg]).status \in {"attended", "confirmed"}
      BY <1>9 DEF Confirmed, RegType
    <3>4. reg[tx[c].reg].status = "attended" => Confirmed(reg[tx[c].reg]).status = "attended"
      BY <1>9 DEF Confirmed, RegType
    <3>5. reg[tx[c].reg].status # "attended" => Confirmed(reg[tx[c].reg]).status = "confirmed"
      BY <1>9 DEF Confirmed, RegType
    <3>6. QED
      BY <1>10, <3>1, <3>2, <3>3, <3>4, <3>5 DEF SeatSpared, SeatHolding
  <2>2. CASE ~Confirms(c)
    <3>1. reg' = reg
      BY <1>1, <2>2 DEF ApplyCommit
    <3>2. QED
      BY <3>1 DEF SeatSpared
  <2>3. QED
    BY <2>1, <2>2
<1>13. cardMails' \in {cardMails, [cardMails EXCEPT ![tx[c].reg] = @ + 1]}
  BY <1>1 DEF ApplyCommit
<1>14. QED
  BY <1>1, <1>7, <1>8, <1>11, <1>12, <1>13 DEF BookShape

LEMMA RowWriterShape ==
  ASSUME IInv, NEW j \in Jobs,
         RecordTerminal(j) \/ RecordDeclined(j) \/ AppendNote(j) \/ RefreshWrite(j)
  PROVE  PlainShape
<1>1. PICK c \in Checkouts : c = job[j].on
  BY DEF IInv, RecordTerminal, RecordDeclined, AppendNote, RefreshWrite, JobOK
<1>2. /\ prov' = prov /\ reg' = reg /\ cardMails' = cardMails
      /\ \/ tx' = tx
         \/ /\ job[j].pc = "terminal" /\ tx[c].status = "pending"
            /\ tx' = [tx EXCEPT ![c] = Closed(@, job[j].tries)]
         \/ tx' = [tx EXCEPT ![c] = Refused(@, job[j].tries)]
         \/ tx' = [tx EXCEPT ![c] = Noted(@)]
         \/ tx' = [tx EXCEPT ![c] = Refreshed(@, job[j].ans, job[j].tries)]
  BY <1>1 DEF RecordTerminal, RecordDeclined, AppendNote, RefreshWrite, StillPending, provVars
<1>3. TypeOK /\ tx \in [Checkouts -> TxType] /\ tx[c] \in TxType
  BY DEF IInv, TypeOK
<1>4. job[j].pc = "terminal" => prov[c].state = "dead"
  BY <1>1 DEF IInv, JobOK
<1>5. job[j].tries \in Nat /\ job[j].ans \in ProvStates
  BY <1>3, JobTyped
<1>6. /\ Closed(tx[c], job[j].tries).status = "failed"
      /\ Closed(tx[c], job[j].tries).reg = tx[c].reg
      /\ Refused(tx[c], job[j].tries).status = tx[c].status
      /\ Refused(tx[c], job[j].tries).reg = tx[c].reg
      /\ Noted(tx[c]).status = tx[c].status
      /\ Noted(tx[c]).reg = tx[c].reg
      /\ Refreshed(tx[c], job[j].ans, job[j].tries).status = tx[c].status
      /\ Refreshed(tx[c], job[j].ans, job[j].tries).reg = tx[c].reg
  <2>1. /\ Closed(tx[c], job[j].tries).status = "failed"
        /\ Closed(tx[c], job[j].tries).reg = tx[c].reg
    BY <1>3, <1>5, ClosedFacts
  <2>2. /\ Refused(tx[c], job[j].tries).status = tx[c].status
        /\ Refused(tx[c], job[j].tries).reg = tx[c].reg
    BY <1>3, <1>5, RefusedFacts
  <2>3. Noted(tx[c]).status = tx[c].status /\ Noted(tx[c]).reg = tx[c].reg
    BY <1>3, NotedFacts
  <2>4. /\ Refreshed(tx[c], job[j].ans, job[j].tries).status = tx[c].status
        /\ Refreshed(tx[c], job[j].ans, job[j].tries).reg = tx[c].reg
    BY <1>3, <1>5, RefreshedFacts
  <2>5. QED
    BY <2>1, <2>2, <2>3, <2>4
<1>7. \A x \in Checkouts \ {c} : tx'[x] = tx[x]
  BY <1>2, <1>3
<1>8. Quiet(c) \/ Shut(c)
  BY <1>2, <1>3, <1>4, <1>6 DEF Quiet, Shut
<1>9. QED
  BY <1>2, <1>7, <1>8 DEF PlainShape, Quiet, MarksKept

LEMMA SurroundingsShape ==
  ASSUME IInv, Surroundings
  PROVE  PlainShape
<1>1. reg \in [Regs -> RegType]
  BY DEF IInv, TypeOK
<1>2. CASE \E r \in Regs, s \in RegStatuses : RowMoved(r, s)
  <2>1. PICK r \in Regs, s \in RegStatuses : RowMoved(r, s)
    BY <1>2
  <2>2. prov' = prov /\ tx' = tx /\ cardMails' = cardMails /\ reg' = [reg EXCEPT ![r].status = s]
    BY <2>1 DEF RowMoved, provVars
  <2>3. MarksKept
    BY <1>1, <2>2 DEF MarksKept, RegType
  <2>4. QED
    BY <2>2, <2>3 DEF PlainShape, Quiet
<1>3. CASE \E r \in Regs, s \in RegStatuses, b \in BOOLEAN : StaffEdits(r, s, b)
  <2>1. PICK r \in Regs, s \in RegStatuses, b \in BOOLEAN : StaffEdits(r, s, b)
    BY <1>3
  <2>2. prov' = prov /\ tx' = tx /\ cardMails' = cardMails /\ reg' = [reg EXCEPT ![r] = Edited(@, s, b)]
    BY <2>1 DEF StaffEdits, provVars
  <2>3. \A q \in Regs \ {r} : reg'[q].paid = reg[q].paid
    BY <1>1, <2>2
  <2>4. QED
    BY <2>2, <2>3 DEF PlainShape, Quiet
<1>4. CASE (\E f \in Fees : FeeChanges(f)) \/ EventCancelled \/ (\E j \in Jobs : Crash(j))
  <2>1. UNCHANGED <<prov, tx, reg, cardMails>>
    BY <1>4 DEF FeeChanges, EventCancelled, Crash, provVars, tableVars
  <2>2. QED
    BY <2>1, IdleShape
<1>5. QED
  BY <1>2, <1>3, <1>4 DEF Surroundings

LEMMA ArrivalShape ==
  ASSUME NEW j \in Jobs, Arrival(j)
  PROVE  PlainShape
<1>1. UNCHANGED <<prov, tx, reg, cardMails>>
  BY DEF Arrival, CreateBegin, SyncBegin, ReportBegin, RefreshBegin, provVars, tableVars
<1>2. QED
  BY <1>1, IdleShape

LEMMA WorkShape ==
  ASSUME IInv, NEW j \in Jobs, Step(j), ~ApplyCommit(j)
  PROVE  PlainShape
<1>1. CASE CreateRecheck(j) \/ CreateFails(j)
  BY <1>1, CreateEndsShape
<1>2. CASE \E c \in Checkouts : CreateDeactivates(j, c) \/ CreateDeactivationLost(j, c)
  BY <1>2, DeactivationShape
<1>3. CASE \E c \in Checkouts : CreateCommits(j, c)
  BY <1>3, CreateCommitsShape
<1>4. CASE RecordTerminal(j) \/ RecordDeclined(j) \/ AppendNote(j) \/ RefreshWrite(j)
  BY <1>4, RowWriterShape
<1>5. CASE \/ CreateLockTxs(j) \/ CreateLockReg(j)
           \/ \E c \in Checkouts : CreateCannotDeactivate(j, c)
           \/ Ask(j) \/ AskFails(j) \/ ApplyLockTx(j) \/ RefreshAsk(j)
  <2>1. UNCHANGED <<prov, tx, reg, cardMails>>
    BY <1>5 DEF CreateLockTxs, CreateLockReg, CreateCannotDeactivate, Ask, AskFails,
                ApplyLockTx, RefreshAsk, provVars, tableVars
  <2>2. QED
    BY <2>1, IdleShape
<1>6. QED
  BY <1>1, <1>2, <1>3, <1>4, <1>5 DEF Step

\* Only the commit of a payment is more than a plain step.
LEMMA PlainSteps ==
  ASSUME IInv, [Next]_vars, \A j \in Jobs : ~ApplyCommit(j)
  PROVE  PlainShape
<1>1. CASE Customer
  BY <1>1, CustomerShape DEF Customer
<1>2. CASE Surroundings
  BY <1>2, SurroundingsShape
<1>3. CASE \E j \in Jobs : Arrival(j) \/ Step(j)
  BY <1>3, ArrivalShape, WorkShape
<1>4. CASE UNCHANGED vars
  BY <1>4, IdleShape DEF vars
<1>5. QED
  BY <1>1, <1>2, <1>3, <1>4 DEF Next

LEMMA NextShape == IInv /\ [Next]_vars => StepShape
  BY PlainSteps, ApplyCommitShape DEF StepShape

\* A row that reached PAID, FAILED or CANCELLED stays there, whichever of a
\* webhook, a poll, a report and a re-check writes last.
THEOREM SettledRowsStay == Spec => SettledIsFinal
<1>1. StepShape => \A c \in Checkouts :
         tx[c].status \in {"paid", "failed", "cancelled"} => tx'[c].status = tx[c].status
  BY DEF StepShape, PlainShape, BookShape, Quiet, Opened, Charged, Died, Shut, Booked
<1>2. QED
  BY <1>1, NextShape, Invariance, PTL DEF Spec, SettledIsFinal

\* Applying a payment never hands out a seat that was given up, never undoes an
\* attendance, and settles a seat only at the price and for the event as they
\* are when the money is applied.
THEOREM PaymentsSpareSeats == Spec => PaymentNeverTakesASeat
<1>1. ASSUME StepShape, NEW c \in Checkouts, JustPaid(c)
      PROVE  SeatSpared(c)
  <2>1. /\ ~Quiet(c) /\ ~Shut(c) /\ ~Opened(c) /\ ~Charged(c) /\ ~Died(c)
    BY <1>1 DEF JustPaid, Quiet, Shut, Opened, Charged, Died
  <2>2. PICK x \in Checkouts : /\ \A y \in Checkouts \ {x} : Quiet(y)
                               /\ SeatSpared(x)
    BY <1>1, <2>1 DEF StepShape, PlainShape, BookShape
  <2>3. QED
    BY <2>1, <2>2
<1>2. IInv /\ [Next]_vars => \A c \in Checkouts : JustPaid(c) => SeatSpared(c)
  BY <1>1, NextShape
<1>3. (\A c \in Checkouts : JustPaid(c) => SeatSpared(c)) =>
         \A c \in Checkouts : JustPaid(c) =>
            LET r == tx[c].reg IN
            /\ reg'[r].status # reg[r].status =>
                   reg[r].status = "pending" /\ reg'[r].status = "confirmed" /\ reg'[r].paid
            /\ reg'[r].paid /\ ~reg[r].paid => ~off /\ tx[c].amount = fee
  BY DEF SeatSpared
<1>4. QED
  BY <1>2, <1>3, Invariance, PTL DEF Spec, PaymentNeverTakesASeat

-----------------------------------------------------------------------------
(* Mails: a commit that applies a payment finds the row not yet paid, so it adds *)
(* one to the payments of its registration and at most one to the mails.        *)

PaidFor(r) == {c \in Checkouts : tx[c].reg = r /\ tx[c].status = "paid"}
Applying(j) == job[j].pc = "applyreg" => tx[job[j].on].status # "paid"

MailInv ==
    /\ \A j \in Jobs : Applying(j)
    /\ \A r \in Regs : IsFiniteSet(PaidFor(r)) /\ cardMails[r] <= Cardinality(PaidFor(r))

\* A request comes to apply a payment only by locking a row that is not paid.
ComesToApply(j) == job'[j].on = job[j].on /\ ~AlreadyPaid(job[j].on) /\ tx' = tx

LEMMA CreatorsDoNotApply ==
  ASSUME TypeOK, NEW j \in Jobs,
         \/ \E r \in Regs : CreateBegin(j, r)
         \/ CreateLockTxs(j) \/ CreateLockReg(j) \/ CreateRecheck(j) \/ CreateFails(j)
         \/ \E c \in Checkouts : \/ CreateDeactivates(j, c) \/ CreateCannotDeactivate(j, c)
                                 \/ CreateDeactivationLost(j, c) \/ CreateCommits(j, c)
  PROVE  OnlyJob(j) /\ job'[j].pc # "applyreg"
<1>1. job \in [Jobs -> JobType] /\ job[j] \in JobType /\ fee \in Nat
  BY BoundsAssumption DEF TypeOK
<1>2. CASE Finish(j)
  BY <1>2, FinishFacts
<1>3. CASE \E pc \in {"deactivate"} : Goto(j, pc)
  BY <1>3, GotoFacts DEF Pcs
<1>4. CASE \E r \in Regs, olds \in SUBSET Checkouts :
             job' = [job EXCEPT ![j] = [IdleJob EXCEPT !.pc = "locktx", !.reg = r, !.olds = olds]]
  <2>1. PICK r \in Regs, olds \in SUBSET Checkouts :
             job' = [job EXCEPT ![j] = [IdleJob EXCEPT !.pc = "locktx", !.reg = r, !.olds = olds]]
    BY <1>4
  <2> DEFINE new == [IdleJob EXCEPT !.pc = "locktx", !.reg = r, !.olds = olds]
  <2>2. new \in JobType /\ new.pc = "locktx"
    BY DEF JobType, IdleJob, Pcs, ProvStates, TxStatuses
  <2> HIDE DEF new
  <2>3. QED
    BY <1>1, <2>1, <2>2 DEF OnlyJob, new
<1>5. CASE \E new \in JobType : new.pc \in {"lockreg", "deactivate", "create"}
                                /\ job' = [job EXCEPT ![j] = new]
  BY <1>1, <1>5 DEF OnlyJob
<1>6. \A live \in SUBSET Checkouts :
         Holding(job[j], live) \in JobType /\ Holding(job[j], live).pc = "lockreg"
  BY <1>1, HoldingFacts
<1>7. Priced(job[j], fee) \in JobType /\ Priced(job[j], fee).pc = "create"
  BY <1>1, PricedFacts
<1>8. \A c \in Checkouts :
         /\ Answered(job[j], c, TRUE) \in JobType /\ Answered(job[j], c, TRUE).pc = job[j].pc
         /\ Answered(job[j], c, FALSE) \in JobType /\ Answered(job[j], c, FALSE).pc = job[j].pc
  BY <1>1, AnsweredFacts
<1>9. CASE \E r \in Regs : CreateBegin(j, r)
  <2>1. \A r \in Regs : Pending(r) \in SUBSET Checkouts
    BY DEF Pending
  <2>2. QED
    BY <1>4, <1>9, <2>1 DEF CreateBegin
<1>10. CASE CreateLockTxs(j)
  <2>1. {c \in job[j].olds : StillPending(c)} \in SUBSET Checkouts
    BY <1>1 DEF JobType
  <2>2. QED
    BY <1>5, <1>6, <1>10, <2>1 DEF CreateLockTxs
<1>11. CASE CreateLockReg(j)
  BY <1>2, <1>3, <1>11 DEF CreateLockReg
<1>12. CASE CreateRecheck(j)
  BY <1>2, <1>5, <1>7, <1>12 DEF CreateRecheck
<1>13. CASE \E c \in Checkouts : \/ CreateDeactivates(j, c) \/ CreateCannotDeactivate(j, c)
                                 \/ CreateDeactivationLost(j, c)
  <2>1. PICK c \in Checkouts :
            /\ job[j].pc = "deactivate"
            /\ \/ job' = [job EXCEPT ![j] = Answered(job[j], c, TRUE)]
               \/ job' = [job EXCEPT ![j] = Answered(job[j], c, FALSE)]
    BY <1>13 DEF CreateDeactivates, CreateCannotDeactivate, CreateDeactivationLost
  <2>2. QED
    BY <1>5, <1>8, <2>1
<1>14. CASE CreateFails(j) \/ \E c \in Checkouts : CreateCommits(j, c)
  BY <1>2, <1>14 DEF CreateFails, CreateCommits
<1>15. QED
  BY <1>9, <1>10, <1>11, <1>12, <1>13, <1>14

LEMMA OthersDoNotApply ==
  ASSUME IInv, NEW j \in Jobs,
         \/ \E c \in Checkouts : \/ \E b \in BOOLEAN : SyncBegin(j, c, b)
                                 \/ ReportBegin(j, c) \/ RefreshBegin(j, c)
         \/ Ask(j) \/ AskFails(j) \/ ApplyCommit(j) \/ RecordTerminal(j) \/ RecordDeclined(j)
         \/ AppendNote(j) \/ RefreshAsk(j) \/ RefreshWrite(j) \/ Crash(j)
  PROVE  OnlyJob(j) /\ job'[j].pc # "applyreg"
<1>1. TypeOK /\ job \in [Jobs -> JobType] /\ job[j] \in JobType /\ JobOK(j)
  BY DEF IInv, TypeOK
<1>2. CASE Finish(j)
  BY <1>1, <1>2, FinishFacts
<1>3. CASE AfterSync(j)
  BY <1>1, <1>3, AfterSyncFacts
<1>4. CASE \E c \in Checkouts : \/ \E b \in BOOLEAN : SyncBegin(j, c, b)
                                \/ ReportBegin(j, c) \/ RefreshBegin(j, c)
  <2>1. PICK c \in Checkouts, b \in BOOLEAN, w \in TxStatuses :
            \/ job' = [job EXCEPT ![j] = [IdleJob EXCEPT !.pc = "ask", !.on = c, !.noting = b]]
            \/ job' = [job EXCEPT ![j] = [IdleJob EXCEPT !.pc = "note", !.on = c]]
            \/ job' = [job EXCEPT ![j] = [IdleJob EXCEPT !.pc = "refreshask", !.on = c, !.was = w]]
    BY <1>1, <1>4 DEF SyncBegin, ReportBegin, RefreshBegin, TypeOK, TxType
  <2>2. PICK new \in JobType : job' = [job EXCEPT ![j] = new] /\ new.pc # "applyreg"
    <3> DEFINE a == [IdleJob EXCEPT !.pc = "ask", !.on = c, !.noting = b]
               n == [IdleJob EXCEPT !.pc = "note", !.on = c]
               f == [IdleJob EXCEPT !.pc = "refreshask", !.on = c, !.was = w]
    <3>1. a \in JobType /\ a.pc = "ask"
      BY DEF JobType, IdleJob, Pcs, ProvStates, TxStatuses
    <3>2. n \in JobType /\ n.pc = "note"
      BY DEF JobType, IdleJob, Pcs, ProvStates, TxStatuses
    <3>3. f \in JobType /\ f.pc = "refreshask"
      BY DEF JobType, IdleJob, Pcs, ProvStates, TxStatuses
    <3>4. job' \in {[job EXCEPT ![j] = a], [job EXCEPT ![j] = n], [job EXCEPT ![j] = f]}
      BY <2>1
    <3> HIDE DEF a, n, f
    <3>5. QED
      BY <3>1, <3>2, <3>3, <3>4
  <2>3. QED
    BY <1>1, <2>2 DEF OnlyJob
<1>5. CASE Ask(j)
  <2> DEFINE p == prov[job[j].on]
  <2>1. p \in ProvType
    BY <1>1, <1>5 DEF Ask, JobOK, TypeOK
  <2>2. Verdict(p) # "nothing" => Verdict(p) \in {"applytx", "terminal", "declined"}
    BY DEF Verdict
  <2>3. AfterSync(j) \/ (Verdict(p) # "nothing" /\ job' = [job EXCEPT ![j] = Heard(@, Verdict(p), p)])
    BY <1>5 DEF Ask
  <2> HIDE DEF p
  <2>4. CASE Verdict(p) # "nothing" /\ job' = [job EXCEPT ![j] = Heard(@, Verdict(p), p)]
    <3>1. PICK pc \in Pcs : pc = Verdict(p) /\ pc # "applyreg"
      BY <2>2, <2>4 DEF Pcs
    <3>2. Heard(job[j], pc, p) \in JobType /\ Heard(job[j], pc, p).pc = pc
      BY <1>1, <2>1, HeardFacts
    <3>3. job' = [job EXCEPT ![j] = Heard(job[j], pc, p)]
      BY <2>4, <3>1
    <3>4. QED
      BY <1>1, <3>1, <3>2, <3>3 DEF OnlyJob
  <2>5. QED
    BY <1>3, <2>3, <2>4
<1>6. CASE RefreshAsk(j)
  <2> DEFINE p == prov[job[j].on]
  <2>1. p \in ProvType
    BY <1>1, <1>6 DEF RefreshAsk, JobOK, TypeOK
  <2>2. Finish(j) \/ job' = [job EXCEPT ![j] = Heard(@, "refresh", p)]
    BY <1>6 DEF RefreshAsk
  <2> HIDE DEF p
  <2>3. Heard(job[j], "refresh", p) \in JobType /\ Heard(job[j], "refresh", p).pc = "refresh"
    BY <1>1, <2>1, HeardFacts DEF Pcs
  <2>4. CASE job' = [job EXCEPT ![j] = Heard(@, "refresh", p)]
    BY <1>1, <2>3, <2>4 DEF OnlyJob
  <2>5. QED
    BY <1>2, <2>2, <2>4
<1>7. CASE \/ AskFails(j) \/ ApplyCommit(j) \/ RecordTerminal(j) \/ RecordDeclined(j)
           \/ AppendNote(j) \/ RefreshWrite(j) \/ Crash(j)
  BY <1>2, <1>3, <1>7 DEF AskFails, ApplyCommit, RecordTerminal, RecordDeclined, AppendNote,
                          RefreshWrite, Crash
<1>8. QED
  BY <1>4, <1>5, <1>6, <1>7

LEMMA LockingApplies ==
  ASSUME IInv, NEW j \in Jobs, ApplyLockTx(j)
  PROVE  OnlyJob(j) /\ (job'[j].pc = "applyreg" => ComesToApply(j))
<1>1. TypeOK /\ tx' = tx
  BY DEF IInv, ApplyLockTx, tableVars
<1>2. CASE AfterSync(j)
  BY <1>1, <1>2, AfterSyncFacts
<1>3. CASE ~AlreadyPaid(job[j].on) /\ Goto(j, "applyreg")
  BY <1>1, <1>3, GotoFacts DEF ComesToApply, Pcs
<1>4. QED
  BY <1>2, <1>3 DEF ApplyLockTx

\* Who is about to apply a payment was, or has just locked the row.
LEMMA WhoApplies ==
  ASSUME IInv, [Next]_vars, NEW j \in Jobs
  PROVE  job'[j].pc = "applyreg" => job'[j] = job[j] \/ ComesToApply(j)
<1>1. CASE job' = job
  BY <1>1
<1>2. ASSUME NEW k \in Jobs, OnlyJob(k), job'[k].pc = "applyreg" => ComesToApply(k)
      PROVE  job'[j].pc = "applyreg" => job'[j] = job[j] \/ ComesToApply(j)
  BY <1>2 DEF OnlyJob
<1>3. TypeOK
  BY DEF IInv
<1>4. CASE Customer \/ UNCHANGED vars
  BY <1>1, <1>4 DEF Customer, CustomerPays, CardDeclined, CheckoutExpires, vars
<1>5. CASE Surroundings
  <2>1. job' = job \/ \E k \in Jobs : Crash(k)
    BY <1>5 DEF Surroundings, RowMoved, StaffEdits, FeeChanges, EventCancelled
  <2>2. QED
    BY <1>1, <1>2, <2>1, OthersDoNotApply
<1>6. CASE \E k \in Jobs : Arrival(k) \/ Step(k)
  <2>1. PICK k \in Jobs : Arrival(k) \/ Step(k)
    BY <1>6
  <2>2. OnlyJob(k) /\ (job'[k].pc = "applyreg" => ComesToApply(k))
    BY <2>1, <1>3, CreatorsDoNotApply, OthersDoNotApply, LockingApplies DEF Arrival, Step
  <2>3. QED
    BY <1>2, <2>2
<1>7. QED
  BY <1>4, <1>5, <1>6 DEF Next

\* A payment that is applied counts once.
LEMMA BookedOnce ==
  ASSUME IInv, MailInv, NEW j \in Jobs, ApplyCommit(j), [Next]_vars
  PROVE  MailInv'
<1> DEFINE c == job[j].on
<1>1. c \in Checkouts /\ BookShape(c) /\ tx[c].status # "paid" /\ txLock[c] = j
  BY ApplyCommitShape DEF ApplyCommit, MailInv, Applying, IInv, JobOK
<1>2. OnlyJob(j) /\ job'[j].pc # "applyreg"
  BY OthersDoNotApply
<1>3. \A k \in Jobs : Applying(k)'
  <2> SUFFICES ASSUME NEW k \in Jobs, job'[k].pc = "applyreg"
               PROVE  tx'[job'[k].on].status # "paid"
    BY DEF Applying
  <2>1. k # j /\ job'[k] = job[k] /\ job[k].pc = "applyreg"
    BY <1>2 DEF OnlyJob
  <2>2. job[k].on \in Checkouts /\ txLock[job[k].on] = k /\ tx[job[k].on].status # "paid"
    BY <2>1 DEF IInv, JobOK, MailInv, Applying
  <2>3. job[k].on # c
    BY <1>1, <2>1, <2>2
  <2>4. QED
    BY <1>1, <2>1, <2>2, <2>3 DEF BookShape, Quiet
<1> HIDE DEF c
<1>4. PICK d \in Checkouts : d = c
  BY <1>1
<1>5. /\ \A x \in Checkouts \ {d} : Quiet(x)
      /\ tx[d].status # "paid" /\ tx'[d].status = "paid" /\ tx'[d].reg = tx[d].reg
      /\ cardMails' \in {cardMails, [cardMails EXCEPT ![tx[d].reg] = @ + 1]}
  BY <1>1, <1>4 DEF BookShape, Booked
<1>6. cardMails \in [Regs -> Nat]
  BY DEF IInv, TypeOK
<1>7. \A r \in Regs : IsFiniteSet(PaidFor(r)') /\ cardMails'[r] <= Cardinality(PaidFor(r)')
  <2> TAKE r \in Regs
  <2>1. IsFiniteSet(PaidFor(r)) /\ cardMails[r] <= Cardinality(PaidFor(r))
    BY DEF MailInv
  <2>2. CASE r = tx[d].reg
    <3>1. PaidFor(r)' = PaidFor(r) \cup {d} /\ d \notin PaidFor(r)
      BY <1>5, <2>2 DEF PaidFor, Quiet
    <3>2. /\ IsFiniteSet(PaidFor(r)') /\ Cardinality(PaidFor(r)) \in Nat
          /\ Cardinality(PaidFor(r)') = Cardinality(PaidFor(r)) + 1
      BY <2>1, <3>1, FS_AddElement, FS_CardinalityType
    <3>3. cardMails'[r] \in {cardMails[r], cardMails[r] + 1}
      BY <1>5, <1>6, <2>2
    <3>4. QED
      BY <1>6, <2>1, <3>2, <3>3
  <2>3. CASE r # tx[d].reg
    <3>1. PaidFor(r)' = PaidFor(r)
      BY <1>5, <2>3 DEF PaidFor, Quiet
    <3>2. cardMails'[r] = cardMails[r]
      BY <1>5, <1>6, <2>3
    <3>3. QED
      BY <2>1, <3>1, <3>2
  <2>4. QED
    BY <2>2, <2>3
<1>8. QED
  BY <1>3, <1>7 DEF MailInv

\* No other step makes a row paid.
LEMMA PlainMails ==
  ASSUME IInv, MailInv, PlainShape, [Next]_vars
  PROVE  MailInv'
<1>1. \A c \in Checkouts : /\ tx'[c].status = "paid" <=> tx[c].status = "paid"
                           /\ tx[c].status = "paid" => tx'[c].reg = tx[c].reg
  BY DEF PlainShape, Quiet, Shut, Opened, Charged, Died
<1>2. \A r \in Regs : PaidFor(r)' = PaidFor(r)
  BY <1>1 DEF PaidFor
<1>3. cardMails' = cardMails
  BY DEF PlainShape
<1>4. \A k \in Jobs : Applying(k)'
  <2> SUFFICES ASSUME NEW k \in Jobs, job'[k].pc = "applyreg"
               PROVE  tx'[job'[k].on].status # "paid"
    BY DEF Applying
  <2>1. CASE job'[k] = job[k]
    <3>1. job[k].on \in Checkouts /\ tx[job[k].on].status # "paid"
      BY <2>1 DEF IInv, JobOK, MailInv, Applying
    <3>2. QED
      BY <1>1, <2>1, <3>1
  <2>2. CASE ComesToApply(k)
    BY <2>2 DEF ComesToApply, AlreadyPaid
  <2>3. QED
    BY <2>1, <2>2, WhoApplies
<1>5. QED
  BY <1>2, <1>3, <1>4 DEF MailInv

\* No customer hears of one payment twice, for any number of callbacks, returns
\* and polls about it (_apply_paid_checkout).
THEOREM MailsCountPayments == Spec => []OneMailPerPayment
<1>1. Init => MailInv
  <2> SUFFICES ASSUME Init PROVE MailInv
    OBVIOUS
  <2>1. \A r \in Regs : PaidFor(r) = {} /\ cardMails[r] = 0
    BY DEF Init, PaidFor, NoRow
  <2>2. \A j \in Jobs : Applying(j)
    BY DEF Init, Applying, IdleJob
  <2>3. QED
    BY <2>1, <2>2, FS_EmptySet DEF MailInv
<1>2. IInv /\ MailInv /\ [Next]_vars => MailInv'
  BY PlainSteps, PlainMails, BookedOnce
<1>3. Spec => []MailInv
  BY <1>1, <1>2, Invariance, PTL DEF Spec
<1>4. MailInv => OneMailPerPayment
  BY DEF MailInv, PaidFor, OneMailPerPayment
<1>5. QED
  BY <1>3, <1>4, PTL

-----------------------------------------------------------------------------
(* Refinement of the ledger *)

LEMMA EntryFacts ==
  ASSUME NEW c \in Checkouts
  PROVE  /\ Quiet(c) \/ Shut(c) => Entry(c)' = Entry(c) /\ tx'[c].reg = tx[c].reg
         /\ Opened(c) => Entry(c) = "none" /\ Entry(c)' = "offered"
         /\ Charged(c) => Entry(c) = "offered" /\ Entry(c)' = "captured"
         /\ Died(c) => Entry(c) = "offered" /\ Entry(c)' = "void"
         /\ Booked(c) => Entry(c) \in {"captured", "booked"} /\ Entry(c)' = "booked"
<1>1. Quiet(c) => Entry(c)' = Entry(c) /\ tx'[c].reg = tx[c].reg
  BY DEF Entry, Quiet
<1>2. Shut(c) => Entry(c)' = Entry(c) /\ tx'[c].reg = tx[c].reg
  BY DEF Entry, Shut
<1>3. Opened(c) => Entry(c) = "none" /\ Entry(c)' = "offered"
  BY DEF Entry, Opened
<1>4. Charged(c) => Entry(c) = "offered" /\ Entry(c)' = "captured"
  BY DEF Entry, Charged
<1>5. Died(c) => Entry(c) = "offered" /\ Entry(c)' = "void"
  BY DEF Entry, Died
<1>6. Booked(c) => Entry(c) \in {"captured", "booked"} /\ Entry(c)' = "booked"
  BY DEF Entry, Booked
<1>7. QED
  BY <1>1, <1>2, <1>3, <1>4, <1>5, <1>6

LEMMA LedgerInit == Init => Ledger!Init
<1> SUFFICES ASSUME Init PROVE Ledger!Init
    OBVIOUS
<1>1. \A c \in Checkouts : tx[c].status = "none" /\ tx[c].reg = None
  BY DEF Init, NoRow
<1>2. \A c \in Checkouts : Entry(c) = "none"
  BY <1>1 DEF Entry
<1>3. LedgerEntry = [c \in Checkouts |-> "none"]
  BY <1>2 DEF LedgerEntry
<1>4. LedgerPayer = [c \in Checkouts |-> None]
  BY <1>1 DEF LedgerPayer
<1>5. LedgerSettled = {}
  BY DEF Init, LedgerSettled
<1>6. QED
  BY <1>3, <1>4, <1>5 DEF Ledger!Init

\* One entry moves, the others stand.
LEMMA OneEntry ==
  ASSUME NEW c \in Checkouts, \A x \in Checkouts \ {c} : Quiet(x) \/ Shut(x)
  PROVE  /\ LedgerEntry' = [LedgerEntry EXCEPT ![c] = Entry(c)']
         /\ LedgerPayer' = [LedgerPayer EXCEPT ![c] = tx'[c].reg]
<1>1. \A x \in Checkouts \ {c} : Entry(x)' = Entry(x) /\ tx'[x].reg = tx[x].reg
  BY EntryFacts
<1>2. QED
  BY <1>1 DEF LedgerEntry, LedgerPayer

LEMMA LedgerStep == StepShape /\ IInv => [Ledger!Next]_(Ledger!vars)
<1> SUFFICES ASSUME StepShape, IInv PROVE [Ledger!Next]_(Ledger!vars)
    OBVIOUS
<1>1. \A c \in Checkouts : LedgerEntry[c] = Entry(c) /\ LedgerPayer[c] = tx[c].reg
  BY DEF LedgerEntry, LedgerPayer
<1>2. CASE (\A c \in Checkouts : Quiet(c) \/ Shut(c)) /\ MarksKept
  <2>1. LedgerEntry' = LedgerEntry /\ LedgerPayer' = LedgerPayer
    <3>1. \A x \in Checkouts : Entry(x)' = Entry(x) /\ tx'[x].reg = tx[x].reg
      BY <1>2, EntryFacts
    <3>2. QED
      BY <3>1 DEF LedgerEntry, LedgerPayer
  <2>2. LedgerSettled' = LedgerSettled
    BY <1>2 DEF LedgerSettled, MarksKept
  <2>3. QED
    BY <2>1, <2>2 DEF Ledger!vars
<1>3. CASE \E c \in Checkouts : /\ \A x \in Checkouts \ {c} : Quiet(x) \/ Shut(x)
                                /\ Opened(c) \/ Charged(c) \/ Died(c)
                                /\ MarksKept
  <2>1. PICK c \in Checkouts : /\ \A x \in Checkouts \ {c} : Quiet(x) \/ Shut(x)
                               /\ Opened(c) \/ Charged(c) \/ Died(c)
                               /\ MarksKept
    BY <1>3
  <2>2. /\ LedgerEntry' = [LedgerEntry EXCEPT ![c] = Entry(c)']
        /\ LedgerPayer' = [LedgerPayer EXCEPT ![c] = tx'[c].reg]
    BY <2>1, OneEntry
  <2>3. LedgerSettled' = LedgerSettled
    BY <2>1 DEF LedgerSettled, MarksKept
  <2>4. tx'[c].reg = tx[c].reg => LedgerPayer' = LedgerPayer
    BY <2>2 DEF LedgerPayer
  <2>5. CASE Opened(c)
    <3>1. Entry(c) = "none" /\ Entry(c)' = "offered" /\ tx'[c].reg \in Regs
      BY <2>5, EntryFacts DEF Opened
    <3>2. Ledger!Offer(c, tx'[c].reg)
      BY <1>1, <2>2, <2>3, <3>1 DEF Ledger!Offer
    <3>3. QED
      BY <3>1, <3>2 DEF Ledger!Next
  <2>6. CASE Charged(c)
    <3>1. Entry(c) = "offered" /\ Entry(c)' = "captured" /\ tx'[c].reg = tx[c].reg
      BY <2>6, EntryFacts DEF Charged
    <3>2. Ledger!Capture(c)
      BY <1>1, <2>2, <2>3, <2>4, <3>1 DEF Ledger!Capture
    <3>3. QED
      BY <3>2 DEF Ledger!Next
  <2>7. CASE Died(c)
    <3>1. Entry(c) = "offered" /\ Entry(c)' = "void" /\ tx'[c].reg = tx[c].reg
      BY <2>7, EntryFacts DEF Died
    <3>2. Ledger!Void(c)
      BY <1>1, <2>2, <2>3, <2>4, <3>1 DEF Ledger!Void
    <3>3. QED
      BY <3>2 DEF Ledger!Next
  <2>8. QED
    BY <2>1, <2>5, <2>6, <2>7
<1>4. CASE \E c \in Checkouts : BookShape(c)
  <2>1. PICK c \in Checkouts : /\ \A x \in Checkouts \ {c} : Quiet(x)
                               /\ Booked(c) /\ SeatSpared(c)
                               /\ \A r \in Regs \ {tx[c].reg} : reg'[r].paid = reg[r].paid
                               /\ reg[tx[c].reg].paid => reg'[tx[c].reg].paid
    BY <1>4 DEF BookShape
  <2>2. /\ LedgerEntry' = [LedgerEntry EXCEPT ![c] = Entry(c)']
        /\ LedgerPayer' = [LedgerPayer EXCEPT ![c] = tx'[c].reg]
    BY <2>1, OneEntry
  <2>3. /\ Entry(c) \in {"captured", "booked"} /\ Entry(c)' = "booked"
        /\ tx'[c].reg = tx[c].reg /\ tx[c].reg \in Regs
    BY <2>1, EntryFacts DEF Booked, IInv, RowOK
  <2>4. LedgerPayer' = LedgerPayer
    BY <2>2, <2>3 DEF LedgerPayer
  <2>5. \/ LedgerSettled' = LedgerSettled
        \/ LedgerSettled' = LedgerSettled \cup {tx[c].reg}
    BY <2>1, <2>3 DEF LedgerSettled
  <2>6. CASE Entry(c) = "captured"
    <3>1. Ledger!Book(c)
      BY <1>1, <2>2, <2>3, <2>4, <2>5, <2>6 DEF Ledger!Book
    <3>2. QED
      BY <3>1 DEF Ledger!Next
  <2>7. CASE Entry(c) = "booked"
    <3>1. LedgerEntry' = LedgerEntry
      BY <2>2, <2>3, <2>7 DEF LedgerEntry
    <3>2. Ledger!Organise(tx[c].reg) \/ UNCHANGED Ledger!vars
      BY <2>4, <2>5, <3>1 DEF Ledger!Organise, Ledger!vars
    <3>3. QED
      BY <2>3, <3>2 DEF Ledger!Next
  <2>8. QED
    BY <2>3, <2>6, <2>7
<1>5. CASE /\ \A c \in Checkouts : Quiet(c)
           /\ \E r \in Regs : \A q \in Regs \ {r} : reg'[q].paid = reg[q].paid
  <2>1. PICK r \in Regs : \A q \in Regs \ {r} : reg'[q].paid = reg[q].paid
    BY <1>5
  <2>2. LedgerEntry' = LedgerEntry /\ LedgerPayer' = LedgerPayer
    <3>1. \A x \in Checkouts : Entry(x)' = Entry(x) /\ tx'[x].reg = tx[x].reg
      BY <1>5, EntryFacts
    <3>2. QED
      BY <3>1 DEF LedgerEntry, LedgerPayer
  <2>3. \/ LedgerSettled' = LedgerSettled \cup {r}
        \/ LedgerSettled' = LedgerSettled \ {r}
    BY <2>1 DEF LedgerSettled
  <2>4. Ledger!Organise(r)
    BY <2>2, <2>3 DEF Ledger!Organise
  <2>5. QED
    BY <2>4 DEF Ledger!Next
<1>6. QED
  BY <1>2, <1>3, <1>4, <1>5 DEF StepShape, PlainShape

\* The payment code implements the ledger: whatever requests,
\* SumUp, organisers, crashes and lost calls do, each step is one posting of the
\* ledger or nothing the ledger sees.
THEOREM Refinement == Spec => ImplementsLedger
<1>1. IInv /\ [Next]_vars => [Ledger!Next]_(Ledger!vars)
  BY NextShape, LedgerStep
<1>2. QED
  BY <1>1, LedgerInit, Invariance, PTL DEF Spec, ImplementsLedger, Ledger!Spec
=============================================================================
