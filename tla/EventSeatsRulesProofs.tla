------------------------ MODULE EventSeatsRulesProofs ------------------------
(***************************************************************************)
(* Proofs about the rules of EventSeats that reach over several steps: what *)
(* an undo at the door gives back, the block reserved for premium members,  *)
(* and the order of the waitlist.  Each rests on what a request saw before  *)
(* it writes; the hypotheses name the disturbances that spoil that.         *)
(***************************************************************************)
EXTENDS EventSeatsProofs

-----------------------------------------------------------------------------
(* What a step may do to rows, coaches and requests *)

\* The actions that write rows.
Writes ==
    \/ \E j \in Jobs : RegisterCommit(j) \/ PromoteCommit(j) \/ AttendCommit(j) \/ UndoCommit(j)
    \/ \E m \in Members : \/ PaymentLands(m) \/ StaffRecordsCash(m)
                          \/ \E j \in Jobs : StaffCancels(j, m)
                          \/ \E s \in Statuses : StaffSets(m, s)
    \/ MarkNoShows

\* The steps in which request i looks, locks or chooses.
Looks(i) ==
    \/ \E m \in Members : \/ RegisterBegin(i, m) \/ CancelLock(i, m) \/ CheckinBegin(i, m)
                          \/ WalkUpLock(i, m) \/ UndoLock(i, m)
    \/ \E c \in Capacities : SaveLock(i, c)
    \/ RegisterDecide(i) \/ CancelRow(i) \/ OfferLock(i) \/ Pick(i)
    \/ CheckinLock(i) \/ CheckinEvent(i) \/ Aborted(i)

LEMMA LooksWritesNothing ==
  ASSUME NEW i \in Jobs, Looks(i)
  PROVE  UNCHANGED <<reg, ahead, coach, byHand, before, cap, on, stage>>
  BY DEF Looks, RegisterBegin, CancelLock, CheckinBegin, WalkUpLock, UndoLock, SaveLock,
         RegisterDecide, CancelRow, OfferLock, Pick, CheckinLock, CheckinEvent, Aborted, rowVars,
         historyVars, eventVars

LEMMA RowWriters ==
  ASSUME [Next]_vars
  PROVE  Writes \/ UNCHANGED <<reg, byHand, before>>
<1>1. ASSUME NEW j \in Jobs, Arrival(j) \/ Step(j) PROVE Writes \/ UNCHANGED <<reg, byHand, before>>
  <2>1. \/ Looks(j) \/ RegisterCommit(j) \/ PromoteCommit(j) \/ AttendCommit(j) \/ UndoCommit(j)
    BY <1>1 DEF Arrival, Step, Looks
  <2>2. QED
    BY <2>1, LooksWritesNothing DEF Writes
<1>2. ASSUME Surroundings PROVE Writes \/ UNCHANGED <<reg, byHand, before>>
  <2>1. \/ Writes
        \/ \E m \in Members : CoachAssigned(m)
        \/ EventOff \/ TimePasses \/ \E j \in Jobs : Crash(j)
    BY <1>2 DEF Surroundings, Writes
  <2>2. QED
    BY <2>1 DEF CoachAssigned, EventOff, TimePasses, Crash, rowVars, historyVars
<1>3. QED
  BY <1>1, <1>2 DEF Next, vars

LEMMA JobMoves ==
  ASSUME TypeOK, [Next]_vars, NEW i \in Jobs
  PROVE  job'[i] = job[i] \/ job'[i] = IdleJob \/ job'[i].pc = "offer" \/ Looks(i)
<1>1. ASSUME NEW j \in Jobs, j # i,
             \/ Arrival(j) \/ Step(j) \/ Crash(j) \/ \E m \in Members : StaffCancels(j, m)
      PROVE  job'[i] = job[i]
  <2>1. (\E J : job' = [job EXCEPT ![j] = J]) \/ job' = job
    BY <1>1 DEF Arrival, Step, Crash, StaffCancels, RegisterBegin, CancelLock, CheckinBegin,
         WalkUpLock, UndoLock, SaveLock, RegisterDecide, CancelRow, OfferLock, Pick, CheckinLock,
         CheckinEvent, Aborted, RegisterCommit, PromoteCommit, AttendCommit, UndoCommit, Finish,
         Goto
  <2>2. QED
    BY <1>1, <2>1 DEF TypeOK
<1>2. ASSUME Arrival(i) \/ Step(i) PROVE job'[i] = IdleJob \/ Looks(i)
  BY <1>2 DEF Arrival, Step, Looks, RegisterCommit, PromoteCommit, AttendCommit, UndoCommit,
       Finish, Goto, TypeOK
<1>3. ASSUME NEW m \in Members, StaffCancels(i, m) PROVE job'[i] = job[i] \/ job'[i].pc = "offer"
  <2>1. [IdleJob EXCEPT !.pc = "offer", !.first = Pool[m]].pc = "offer"
    BY DEF IdleJob
  <2>2. QED
    BY <1>3, <2>1 DEF StaffCancels, Goto, TypeOK
<1>4. ASSUME Crash(i) PROVE job'[i] = IdleJob
  BY <1>4 DEF Crash, Finish, Goto, TypeOK
<1>5. ASSUME \/ \E m \in Members : \/ PaymentLands(m) \/ StaffRecordsCash(m) \/ CoachAssigned(m)
                                   \/ \E s \in Statuses : StaffSets(m, s)
             \/ MarkNoShows \/ EventOff \/ TimePasses \/ UNCHANGED vars
      PROVE  job'[i] = job[i]
  BY <1>5 DEF PaymentLands, StaffRecordsCash, CoachAssigned, StaffSets, MarkNoShows, EventOff,
       TimePasses, vars
<1>6. QED
  BY <1>1, <1>2, <1>3, <1>4, <1>5 DEF Next, Surroundings

\* Where each of these steps leaves the request.
LEMMA LookedAt ==
  ASSUME TypeOK, NEW i \in Jobs
  PROVE  /\ \A m \in Members :
              /\ RegisterBegin(i, m) => /\ job'[i].pc = "register" /\ job'[i].who = m
                                        /\ job'[i].prem = Premium(m)
              /\ CancelLock(i, m) => job'[i].pc = "cancel"
              /\ CheckinBegin(i, m) => job'[i].pc = "checkin"
              /\ WalkUpLock(i, m) => job'[i] = AtDoor(m, "attend") /\ job'[i].pc = "attend"
              /\ UndoLock(i, m) => job'[i] = AtDoor(m, "undo") /\ job'[i].pc = "undo"
         /\ \A c \in Capacities : SaveLock(i, c) => job'[i].pc = "promote" /\ job'[i].won = {}
         /\ OfferLock(i) => \/ job'[i] = IdleJob
                            \/ job'[i].pc = "promote" /\ job'[i].won = {}
         /\ Pick(i) => job'[i].pc = "promote"
         /\ RegisterDecide(i) => job'[i] = IdleJob \/ job'[i].pc = "decided"
         /\ CancelRow(i) => \/ job'[i] = IdleJob
                            \/ job'[i].pc = "promote" /\ job'[i].won = {}
         /\ CheckinLock(i) => job'[i].pc = "scan"
         /\ CheckinEvent(i) => \/ job'[i] = IdleJob
                               \/ job'[i] = AtDoor(job[i].who, "attend") /\ job'[i].pc = "attend"
         /\ Aborted(i) => job'[i] = IdleJob
<1>1. \A J : Goto(i, J) => job'[i] = J
  BY DEF Goto, TypeOK
<1>2. \A m, pc : AtDoor(m, pc).pc = pc
  BY DEF AtDoor, IdleJob
<1>3. \A m, p, n : Promoting(m, p, n).pc = "promote" /\ Promoting(m, p, n).won = {}
  BY DEF Promoting, IdleJob
<1>4. ASSUME NEW m \in Members, RegisterBegin(i, m)
      PROVE  job'[i].pc = "register" /\ job'[i].who = m /\ job'[i].prem = Premium(m)
  BY <1>1, <1>4 DEF RegisterBegin, IdleJob
<1>5. ASSUME NEW m \in Members, CancelLock(i, m) PROVE job'[i].pc = "cancel"
  BY <1>1, <1>5 DEF CancelLock, IdleJob
<1>6. ASSUME NEW m \in Members, CheckinBegin(i, m) PROVE job'[i].pc = "checkin"
  BY <1>1, <1>6 DEF CheckinBegin, IdleJob
<1>7. ASSUME NEW c \in Capacities, SaveLock(i, c) PROVE job'[i].pc = "promote" /\ job'[i].won = {}
  <2> DEFINE n == IF AcceptsPromotion THEN Cardinality(Members) ELSE 0
  <2>1. job'[i] = [Promoting(None, None, n) EXCEPT !.newcap = c]
    BY <1>1, <1>7 DEF SaveLock
  <2> HIDE DEF n
  <2>2. QED
    BY <2>1 DEF Promoting, IdleJob
<1>8. ASSUME Pick(i) PROVE job'[i].pc = "promote"
  <2>1. job[i].pc = "promote" /\ job[i] \in JobType
    BY <1>8 DEF Pick, TypeOK
  <2>2. \/ job'[i] = [job[i] EXCEPT !.left = 0]
        \/ \E m : job'[i] = [job[i] EXCEPT !.left = @ - 1, !.won = @ \cup {m},
                                         !.rows = @ \cup SeenWaiting(i)]
    BY <1>1, <1>8 DEF Pick
  <2>3. QED
    BY <2>1, <2>2 DEF JobType
<1>9. ASSUME RegisterDecide(i) PROVE job'[i] = IdleJob \/ job'[i].pc = "decided"
  <2>1. job[i] \in JobType
    BY DEF TypeOK
  <2>2. job'[i] = IdleJob \/ \E row : job'[i] = [job[i] EXCEPT !.pc = "decided", !.row = row]
    BY <1>1, <1>9 DEF RegisterDecide, Finish
  <2>3. QED
    BY <2>1, <2>2 DEF JobType
<1>10. OfferLock(i) => job'[i] = IdleJob \/ (job'[i].pc = "promote" /\ job'[i].won = {})
  BY <1>1, <1>3 DEF OfferLock, Finish
<1>11. /\ \A m \in Members : /\ WalkUpLock(i, m) => job'[i] = AtDoor(m, "attend")
                             /\ UndoLock(i, m) => job'[i] = AtDoor(m, "undo")
       /\ CheckinEvent(i) => job'[i] = IdleJob \/ job'[i] = AtDoor(job[i].who, "attend")
       /\ Aborted(i) => job'[i] = IdleJob
  BY <1>1 DEF WalkUpLock, UndoLock, CheckinEvent, Aborted, Finish
<1>12. ASSUME CheckinLock(i) PROVE job'[i].pc = "scan"
  <2>1. job'[i] = [job[i] EXCEPT !.pc = "scan", !.rows = {job[i].who}] /\ job[i] \in JobType
    BY <1>1, <1>12 DEF CheckinLock, TypeOK
  <2>2. QED
    BY <2>1 DEF JobType
<1>13. ASSUME CancelRow(i)
       PROVE  job'[i] = IdleJob \/ (job'[i].pc = "promote" /\ job'[i].won = {})
  <2> DEFINE P == Promoting(job[i].who, Pool[job[i].who], IF AcceptsPromotion THEN 1 ELSE 0)
  <2>1. job'[i] = IdleJob \/ job'[i] = [P EXCEPT !.cancels = TRUE, !.rows = {job[i].who}]
    BY <1>1, <1>13 DEF CancelRow, Finish
  <2>2. QED
    BY <2>1 DEF Promoting, IdleJob
<1>14. QED
  BY <1>2, <1>4, <1>5, <1>6, <1>7, <1>8, <1>9, <1>10, <1>11, <1>12, <1>13

\* A row changes only when no other request has it locked, and the request that
\* has it ends.
LEMMA LockedRowsStay ==
  ASSUME SeatsInv, [Next]_vars, NEW m \in Members, reg'[m] # reg[m],
         NEW i \in Jobs, m \in job[i].rows
  PROVE  job'[i] = IdleJob /\ (PromoteCommit(i) \/ AttendCommit(i) \/ UndoCommit(i))
<1>1. TypeOK /\ LocksOK /\ ~RowFree(m)
  BY DEF SeatsInv, RowFree
<1>2. ASSUME NEW j \in Jobs, RegisterCommit(j) PROVE FALSE
  <2>1. job[j].who \in Members /\ RowFree(job[j].who)
    BY <1>1, <1>2 DEF RegisterCommit, LocksOK, Knows
  <2>2. QED
    BY <1>1, <1>2, <2>1 DEF RegisterCommit, Save, TypeOK
<1>3. ASSUME NEW j \in Jobs, PromoteCommit(j) PROVE m \in job[j].rows
  <2>1. Knows(job[j]) /\ job[j].pc = "promote" /\ reg'[m] = Seen(j, m)
    BY <1>1, <1>3 DEF LocksOK, PromoteCommit
  <2>2. QED
    BY <2>1 DEF Knows, Seen
<1>4. ASSUME NEW j \in Jobs, AttendCommit(j) \/ UndoCommit(j) PROVE m \in job[j].rows
  <2>1. job[j].who \in Members /\ job[j].rows = {job[j].who}
    BY <1>1, <1>4 DEF AttendCommit, UndoCommit, LocksOK, Knows
  <2>2. QED
    BY <1>1, <1>4, <2>1 DEF AttendCommit, UndoCommit, Save, TypeOK
<1>5. ASSUME NEW j \in Jobs, m \in job[j].rows PROVE j = i
  BY <1>1, <1>5 DEF LocksOK
<1>6. ASSUME NEW k \in Members, \/ PaymentLands(k) \/ StaffRecordsCash(k)
                                \/ \E j \in Jobs : StaffCancels(j, k)
                                \/ \E s \in Statuses : StaffSets(k, s)
      PROVE  FALSE
  <2>1. RowFree(k) /\ \E row : Save(k, row)
    BY <1>6 DEF PaymentLands, StaffRecordsCash, StaffCancels, StaffSets
  <2>2. QED
    BY <1>1, <2>1 DEF Save, TypeOK
<1>7. ASSUME MarkNoShows PROVE FALSE
  BY <1>1, <1>7 DEF MarkNoShows
<1>8. PICK j \in Jobs : PromoteCommit(j) \/ AttendCommit(j) \/ UndoCommit(j)
  BY <1>2, <1>6, <1>7, RowWriters DEF Writes
<1>9. j = i
  BY <1>3, <1>4, <1>5, <1>8
<1>10. QED
  BY <1>1, <1>8, <1>9 DEF PromoteCommit, AttendCommit, UndoCommit, Finish, Goto, TypeOK

\* Where a decision leaves a sign-up.
LEMMA Decided ==
  ASSUME TypeOK, NEW i \in Jobs, RegisterDecide(i), job'[i].pc = "decided"
  PROVE  LET m == job[i].who IN
         /\ job[i].pc = "register" /\ reg[m].status \in {"none", "cancelled"}
         /\ job'[i].who = m /\ job'[i].prem = job[i].prem
         /\ job'[i].row = [reg[m] EXCEPT !.status = IF HasRoom(Holders, cap, m, job[i].prem)
                                                   THEN AdmittedStatus(reg[m]) ELSE "waitlist"]
         /\ UNCHANGED <<reg, coach, byHand, cap>>
<1> DEFINE m == job[i].who
           row == [reg[m] EXCEPT !.status = IF HasRoom(Holders, cap, m, job[i].prem)
                                            THEN AdmittedStatus(reg[m]) ELSE "waitlist"]
<1>1. job[i] \in JobType /\ job'[i] # IdleJob
  BY IdleFacts DEF TypeOK
<1>2. /\ reg[m].status \in {"none", "cancelled"}
      /\ job'[i] = [job[i] EXCEPT !.pc = "decided", !.row = row]
  BY <1>1 DEF RegisterDecide, Finish, Goto, TypeOK
<1> HIDE DEF row
<1>3. job'[i].who = m /\ job'[i].prem = job[i].prem /\ job'[i].row = row
  BY <1>1, <1>2 DEF JobType
<1>4. QED
  BY <1>2, <1>3 DEF row, RegisterDecide, rowVars, historyVars, eventVars

\* Where a choice leaves a promotion, and what it sees then.
LEMMA Picked ==
  ASSUME TypeOK, NEW i \in Jobs, Pick(i)
  PROVE  /\ job'[i].won = job[i].won
            \/ \E p \in EarliestOf(Preferred(i)) : job'[i].won = job[i].won \cup {p}
         /\ job[i].pc = "promote" /\ SeenCap(i)' = SeenCap(i)
         /\ \A k \in Members :
               (k \in job'[i].won <=> k \in job[i].won) => Seen(i, k)' = Seen(i, k)
         /\ UNCHANGED <<reg, ahead, coach, byHand, cap>>
<1> DEFINE P(p) == [job[i] EXCEPT !.left = @ - 1, !.won = @ \cup {p},
                                  !.rows = @ \cup SeenWaiting(i)]
<1>1. job[i] \in JobType /\ job[i].pc = "promote" /\ UNCHANGED <<reg, ahead, coach, byHand, cap>>
  BY DEF TypeOK, Pick, rowVars, historyVars, eventVars
<1>2. job'[i] = [job[i] EXCEPT !.left = 0] \/ \E p \in EarliestOf(Preferred(i)) : job'[i] = P(p)
  BY DEF TypeOK, Pick, Goto
<1>3. ASSUME job'[i] = [job[i] EXCEPT !.left = 0]
      PROVE  /\ job'[i].won = job[i].won /\ job'[i].cancels = job[i].cancels
             /\ job'[i].who = job[i].who /\ job'[i].newcap = job[i].newcap
  BY <1>1, <1>3 DEF JobType
<1>4. ASSUME NEW p \in EarliestOf(Preferred(i)), job'[i] = P(p)
      PROVE  /\ job'[i].won = job[i].won \cup {p} /\ job'[i].cancels = job[i].cancels
             /\ job'[i].who = job[i].who /\ job'[i].newcap = job[i].newcap
  BY <1>1, <1>4 DEF JobType
<1> HIDE DEF P
<1>5. /\ job'[i].won = job[i].won
         \/ \E p \in EarliestOf(Preferred(i)) : job'[i].won = job[i].won \cup {p}
      /\ job'[i].cancels = job[i].cancels
      /\ job'[i].who = job[i].who /\ job'[i].newcap = job[i].newcap
  BY <1>2, <1>3, <1>4
<1>6. QED
  BY <1>1, <1>5 DEF SeenCap, Seen, AdmittedStatus

\* What history keeps of an attended row is what the row was before.
LEMMA BeforeStep ==
  ASSUME [Next]_vars, NEW m \in Members, reg'[m].status = "attended"
  PROVE  before'[m] = IF reg[m].status = "attended" THEN before[m]
                      ELSE [status |-> reg[m].status, coach |-> coach[m]]
<1>1. CASE UNCHANGED <<reg, byHand, before>>
  BY <1>1
<1>2. CASE Writes
  <2>1. \E hand : History(hand)
    BY <1>2 DEF Writes, RegisterCommit, PromoteCommit, AttendCommit, UndoCommit, PaymentLands,
         StaffRecordsCash, StaffCancels, StaffSets, MarkNoShows
  <2>2. QED
    BY <2>1 DEF History
<1>3. QED
  BY <1>1, <1>2, RowWriters

-----------------------------------------------------------------------------
(* The door: what an undo gives back *)

\* An attended row remembers what it was, and a request at the door that has the
\* row has it as it found it.
DoorInv ==
    /\ \A m \in Members : reg[m].status = "attended" => reg[m].prior = before[m].status
    /\ \A j \in Jobs :
        /\ job[j].pc = "attend" => reg[job[j].who].status # "attended"
        /\ job[j].pc = "undo" => reg[job[j].who].status = "attended"
        /\ job[j].pc = "decided" => job[j].row.status # "attended"

\* Who is attended was so before with the same record, or is checked in now.
LEMMA AttendedRows ==
  ASSUME SeatsInv, DoorInv, [Next]_vars, "desk" \notin Disturbances,
         NEW m \in Members, reg'[m].status = "attended"
  PROVE  \/ /\ reg[m].status = "attended" /\ reg'[m].prior = reg[m].prior
            /\ reg'[m].granted = reg[m].granted
         \/ \E j \in Jobs : /\ AttendCommit(j) /\ job[j].who = m
                            /\ reg'[m] = Attended(m, job[j].saw)
<1>1. TypeOK /\ LocksOK /\ reg[m] \in RegType
  BY DEF SeatsInv, TypeOK
<1> DEFINE Same == /\ reg[m].status = "attended" /\ reg'[m].prior = reg[m].prior
                   /\ reg'[m].granted = reg[m].granted
<1>2. ASSUME NEW j \in Jobs, RegisterCommit(j) PROVE Same
  <2>1. job[j].who \in Members /\ job[j].row.status # "attended"
    BY <1>1, <1>2 DEF RegisterCommit, LocksOK, Knows, DoorInv
  <2>2. QED
    BY <1>1, <1>2, <2>1 DEF RegisterCommit, Save, TypeOK
<1>3. ASSUME NEW j \in Jobs, PromoteCommit(j) PROVE Same
  <2>1. reg'[m] = Seen(j, m)
    BY <1>3 DEF PromoteCommit
  <2>2. AdmittedStatus(reg[m]) # "attended"
    BY <1>1, AdmittedFacts
  <2>3. QED
    BY <1>1, <2>1, <2>2 DEF Seen, RegType
<1>4. ASSUME NEW j \in Jobs, AttendCommit(j)
      PROVE  Same \/ (job[j].who = m /\ reg'[m] = Attended(m, job[j].saw))
  <2>1. job[j].who \in Members
    BY <1>1, <1>4 DEF AttendCommit, LocksOK, Knows
  <2>2. QED
    BY <1>1, <1>4, <2>1 DEF AttendCommit, Save, TypeOK
<1>5. ASSUME NEW j \in Jobs, UndoCommit(j) PROVE Same
  <2> DEFINE row == [NoReg EXCEPT !.status = Restored(reg[m]), !.paid = reg[m].paid]
  <2>1. job[j].who \in Members
    BY <1>1, <1>5 DEF UndoCommit, LocksOK, Knows
  <2>2. row.status # "attended"
    BY DEF NoReg, Restored, Restorable
  <2>3. reg'[m] = reg[m] \/ reg'[m] = row
    BY <1>1, <1>5, <2>1 DEF UndoCommit, Save, TypeOK
  <2>4. QED
    BY <2>2, <2>3
<1>6. ASSUME NEW k \in Members, PaymentLands(k) PROVE Same
  <2>1. reg'[m] = reg[m] \/
        reg'[m] = [reg[m] EXCEPT !.paid = TRUE,
                                 !.status = IF @ = "attended" THEN @ ELSE "confirmed"]
    BY <1>1, <1>6 DEF PaymentLands, Save, TypeOK
  <2>2. QED
    BY <1>1, <2>1 DEF RegType
<1>7. ASSUME NEW k \in Members, \/ StaffRecordsCash(k) \/ \E j \in Jobs : StaffCancels(j, k)
      PROVE  Same
  <2>1. reg'[m] = reg[m] \/ \E s \in {"cancelled", reg[m].status}, p \in BOOLEAN :
                                 reg'[m] = StaffRow(m, s, p)
    BY <1>1, <1>7 DEF StaffRecordsCash, StaffCancels, Save, TypeOK, RegType
  <2>2. ASSUME NEW s \in {"cancelled", reg[m].status}, NEW p \in BOOLEAN, reg'[m] = StaffRow(m, s, p)
        PROVE  Same
    BY <1>1, <2>2 DEF StaffRow, RegType
  <2>3. QED
    BY <2>1, <2>2
<1>8. ASSUME NEW k \in Members, NEW s \in Statuses, StaffSets(k, s) PROVE FALSE
  BY <1>8 DEF StaffSets, Disturb
<1>9. ASSUME MarkNoShows PROVE Same
  <2>1. reg'[m] = reg[m] \/ reg'[m] = [reg[m] EXCEPT !.status = "no_show"]
    BY <1>9 DEF MarkNoShows
  <2>2. QED
    BY <1>1, <2>1 DEF RegType
<1>10. CASE UNCHANGED <<reg, byHand, before>>
  BY <1>10
<1>11. QED
  BY <1>2, <1>3, <1>4, <1>5, <1>6, <1>7, <1>8, <1>9, <1>10, RowWriters DEF Writes

\* A request that has a member's row at the door took it now, or had it.
LEMMA DoorJobs ==
  ASSUME SeatsInv, [Next]_vars, NEW i \in Jobs, job'[i].pc \in {"attend", "undo"}
  PROVE  \/ job'[i] = job[i]
         \/ \E m \in Members :
               /\ job'[i] = AtDoor(m, job'[i].pc) /\ UNCHANGED <<reg, coach>>
               /\ job'[i].pc = "attend" => reg[m].status # "attended"
               /\ job'[i].pc = "undo" => reg[m].status = "attended"
<1>1. TypeOK /\ IdleJob.pc = "idle"
  BY IdleFacts DEF SeatsInv
<1>2. ASSUME Looks(i)
      PROVE  \/ \E m \in Members : WalkUpLock(i, m) \/ UndoLock(i, m)
             \/ CheckinEvent(i)
  BY <1>1, <1>2, LookedAt DEF Looks
<1>3. ASSUME NEW m \in Members, WalkUpLock(i, m)
      PROVE  /\ job'[i] = AtDoor(m, "attend") /\ job'[i].pc = "attend"
             /\ reg[m].status # "attended"
  BY <1>1, <1>3, LookedAt DEF WalkUpLock
<1>4. ASSUME NEW m \in Members, UndoLock(i, m)
      PROVE  /\ job'[i] = AtDoor(m, "undo") /\ job'[i].pc = "undo" /\ reg[m].status = "attended"
  BY <1>1, <1>4, LookedAt DEF UndoLock
<1>5. ASSUME CheckinEvent(i)
      PROVE  /\ job[i].who \in Members
             /\ job'[i] = AtDoor(job[i].who, "attend") /\ job'[i].pc = "attend"
             /\ reg[job[i].who].status # "attended"
  <2>1. job[i].who \in Members
    BY <1>5 DEF SeatsInv, LocksOK, Knows, CheckinEvent
  <2>2. \/ job'[i] = IdleJob
        \/ job'[i] = AtDoor(job[i].who, "attend") /\ job'[i].pc = "attend"
    BY <1>1, <1>5, LookedAt
  <2>3. reg[job[i].who].status = "attended" => job'[i] = IdleJob
    BY <1>1, <1>5 DEF CheckinEvent, Finish, Goto, TypeOK
  <2>4. QED
    BY <1>1, <2>1, <2>2, <2>3
<1>6. CASE Looks(i)
  <2>1. UNCHANGED <<reg, coach>>
    BY <1>6, LooksWritesNothing
  <2>2. QED
    BY <1>2, <1>3, <1>4, <1>5, <1>6, <2>1
<1>7. QED
  BY <1>1, <1>6, JobMoves

LEMMA DoorInvNext ==
  ASSUME SeatsInv, DoorInv, [Next]_vars, "desk" \notin Disturbances
  PROVE  DoorInv'
<1>1. TypeOK /\ LocksOK
  BY DEF SeatsInv
<1>2. ASSUME NEW m \in Members, reg'[m].status = "attended"
      PROVE  reg'[m].prior = before'[m].status
  <2>1. before'[m] = IF reg[m].status = "attended" THEN before[m]
                     ELSE [status |-> reg[m].status, coach |-> coach[m]]
    BY <1>2, BeforeStep
  <2>2. CASE reg[m].status = "attended" /\ reg'[m].prior = reg[m].prior
    BY <2>1, <2>2 DEF DoorInv
  <2>3. ASSUME NEW j \in Jobs, AttendCommit(j), job[j].who = m,
               reg'[m] = Attended(m, job[j].saw)
        PROVE  reg'[m].prior = before'[m].status
    <3>1. reg[m].status # "attended" /\ reg[m] \in RegType
      BY <1>1, <2>3 DEF DoorInv, AttendCommit, TypeOK
    <3>2. QED
      BY <2>1, <2>3, <3>1 DEF Attended, RegType
  <2>4. QED
    BY <1>2, <2>2, <2>3, AttendedRows
<1>3. ASSUME NEW i \in Jobs, job'[i].pc \in {"attend", "undo"}
      PROVE  /\ job'[i].pc = "attend" => reg'[job'[i].who].status # "attended"
             /\ job'[i].pc = "undo" => reg'[job'[i].who].status = "attended"
  <2>1. CASE job'[i] = job[i]
    <3>1. job[i].who \in Members /\ job[i].who \in job[i].rows /\ job'[i] # IdleJob
      BY <1>1, <1>3, <2>1, IdleFacts DEF LocksOK, Knows
    <3>2. reg'[job[i].who] = reg[job[i].who]
      BY <3>1, LockedRowsStay
    <3>3. QED
      BY <1>3, <2>1, <3>2 DEF DoorInv
  <2>2. CASE \E m \in Members :
               /\ job'[i] = AtDoor(m, job'[i].pc) /\ UNCHANGED <<reg, coach>>
               /\ job'[i].pc = "attend" => reg[m].status # "attended"
               /\ job'[i].pc = "undo" => reg[m].status = "attended"
    <3>1. \A m, pc : AtDoor(m, pc).who = m
      BY DEF AtDoor, IdleJob
    <3>2. QED
      BY <2>2, <3>1
  <2>3. QED
    BY <1>3, <2>1, <2>2, DoorJobs
<1>4. ASSUME NEW i \in Jobs, job'[i].pc = "decided" PROVE job'[i].row.status # "attended"
  <2>1. CASE job'[i] = job[i]
    BY <1>4, <2>1 DEF DoorInv
  <2>2. CASE Looks(i)
    <3>1. RegisterDecide(i) /\ job'[i] # IdleJob
      BY <1>1, <1>4, <2>2, LookedAt, IdleFacts DEF Looks, AtDoor
    <3>2. job[i].who \in Members /\ reg[job[i].who] \in RegType /\ job[i] \in JobType
      BY <1>1, <3>1 DEF RegisterDecide, LocksOK, Knows, TypeOK
    <3>3. AdmittedStatus(reg[job[i].who]) # "attended"
      BY <3>2, AdmittedFacts
    <3>4. PICK s : /\ s # "attended"
                   /\ job'[i] = [job[i] EXCEPT !.pc = "decided",
                                               !.row = [reg[job[i].who] EXCEPT !.status = s]]
      BY <1>1, <3>1, <3>3 DEF RegisterDecide, Goto, Finish, TypeOK
    <3>5. QED
      BY <3>2, <3>4 DEF JobType, RegType
  <2>3. QED
    BY <1>1, <1>4, <2>1, <2>2, JobMoves, IdleFacts
<1>5. QED
  BY <1>2, <1>3, <1>4 DEF DoorInv

LEMMA DoorInvStarts == Init => DoorInv
  BY IdleFacts DEF Init, DoorInv, NoReg

\* Only the commit of an undo changes the row that the undo has locked.
LEMMA UndoIsTheCommit ==
  ASSUME SeatsInv, [Next]_vars, NEW m \in Members, UndoOf(m)
  PROVE  \E j \in Jobs : UndoCommit(j) /\ job[j].who = m
<1>1. PICK j \in Jobs : job[j].pc = "undo" /\ job[j].who = m
  BY DEF UndoOf
<1>2. m \in job[j].rows /\ reg'[m] # reg[m]
  BY <1>1 DEF UndoOf, SeatsInv, LocksOK, Knows
<1>3. PromoteCommit(j) \/ AttendCommit(j) \/ UndoCommit(j)
  BY <1>2, LockedRowsStay
<1>4. QED
  BY <1>1, <1>3 DEF PromoteCommit, AttendCommit

\* Unless an organiser writes statuses over by hand, undoing a check-in puts the row
\* back to what it held before it, whatever was paid, cancelled or assigned between.
THEOREM UndoesRestoreStatus ==
  ASSUME "desk" \notin Disturbances
  PROVE  Spec => UndoRestoresStatus
<1> DEFINE A == \A m \in Members : UndoOf(m) /\ before[m].status \in Restorable =>
                   reg'[m].status = IF before[m].status = "pending" /\ reg[m].paid
                                    THEN "confirmed" ELSE before[m].status
<1>1. SeatsInv /\ DoorInv /\ [Next]_vars => DoorInv'
  BY DoorInvNext
<1>2. SeatsInv /\ DoorInv /\ [Next]_vars => [A]_vars
  <2> SUFFICES ASSUME SeatsInv, DoorInv, [Next]_vars, NEW m \in Members, UndoOf(m),
                      before[m].status \in Restorable
               PROVE  reg'[m].status = IF before[m].status = "pending" /\ reg[m].paid
                                       THEN "confirmed" ELSE before[m].status
    OBVIOUS
  <2>1. PICK j \in Jobs : UndoCommit(j) /\ job[j].who = m
    BY UndoIsTheCommit
  <2>2. reg[m].prior = before[m].status
    BY DEF UndoOf, DoorInv
  <2>3. reg'[m] = [NoReg EXCEPT !.status = Restored(reg[m]), !.paid = reg[m].paid]
    BY <2>1 DEF UndoCommit, Save, SeatsInv, TypeOK
  <2>4. reg'[m].status = Restored(reg[m])
    BY <2>3 DEF NoReg
  <2>5. QED
    BY <2>2, <2>4 DEF Restored
<1>3. QED
  BY <1>1, <1>2, DoorInvStarts, SeatsInvariant, PTL DEF Spec, UndoRestoresStatus

-----------------------------------------------------------------------------
(* The door: whose coach an undo takes back *)

\* A request at the door writes the coach it saw, and an attended row knows whether
\* its check-in granted the coach.
CoachInv ==
    /\ \A j \in Jobs : job[j].pc \in {"attend", "undo"} => job[j].saw = coach[job[j].who]
    /\ \A m \in Members : reg[m].status = "attended" =>
          /\ coach[m] # "none"
          /\ reg[m].granted <=> before[m].coach = "none"
          /\ ~reg[m].granted /\ coach[m] = "door" => before[m].coach = "door"

\* The four ways of a member's coach.
LEMMA CoachMoves ==
  ASSUME SeatsInv, [Next]_vars, "desk" \notin Disturbances, NEW m \in Members
  PROVE  \/ coach'[m] = coach[m]
         \/ \E j \in Jobs : /\ AttendCommit(j) /\ job[j].who = m
                            /\ job[j].saw = "none" /\ coach'[m] = "door"
         \/ \E j \in Jobs : /\ UndoCommit(j) /\ job[j].who = m
                            /\ TakesBackCoach(m, job[j].saw) /\ coach'[m] = "none"
         \/ CoachAssigned(m) /\ coach'[m] = "own"
<1>1. TypeOK /\ LocksOK
  BY DEF SeatsInv
<1>2. ASSUME NEW j \in Jobs, Arrival(j) PROVE coach' = coach
  <2>1. Looks(j)
    BY <1>2 DEF Arrival, Looks
  <2>2. QED
    BY <2>1, LooksWritesNothing
<1>3. ASSUME NEW j \in Jobs, AttendCommit(j)
      PROVE  \/ coach'[m] = coach[m]
             \/ job[j].who = m /\ job[j].saw = "none" /\ coach'[m] = "door"
  BY <1>1, <1>3 DEF AttendCommit, Granted, TypeOK
<1>4. ASSUME NEW j \in Jobs, UndoCommit(j)
      PROVE  \/ coach'[m] = coach[m]
             \/ job[j].who = m /\ TakesBackCoach(m, job[j].saw) /\ coach'[m] = "none"
  BY <1>1, <1>4 DEF UndoCommit, TypeOK
<1>5. ASSUME NEW j \in Jobs, RegisterCommit(j) \/ PromoteCommit(j) \/ Looks(j) \/ Crash(j)
      PROVE  coach' = coach
  BY <1>5, LooksWritesNothing DEF RegisterCommit, PromoteCommit, Crash, rowVars
<1>6. ASSUME NEW j \in Jobs, Step(j)
      PROVE  Looks(j) \/ RegisterCommit(j) \/ PromoteCommit(j) \/ AttendCommit(j) \/ UndoCommit(j)
  BY <1>6 DEF Step, Looks
<1>7. ASSUME NEW k \in Members, CoachAssigned(k)
      PROVE  coach'[m] = coach[m] \/ (k = m /\ coach'[m] = "own")
  BY <1>1, <1>7 DEF CoachAssigned, TypeOK
<1>8. ASSUME NEW k \in Members, NEW s \in Statuses, StaffSets(k, s) PROVE FALSE
  BY <1>8 DEF StaffSets, Disturb
<1>9. ASSUME \/ \E k \in Members : \/ PaymentLands(k) \/ StaffRecordsCash(k)
                                   \/ \E j \in Jobs : StaffCancels(j, k)
             \/ MarkNoShows \/ EventOff \/ TimePasses \/ UNCHANGED vars
      PROVE  coach' = coach
  BY <1>9 DEF PaymentLands, StaffRecordsCash, StaffCancels, MarkNoShows, EventOff, TimePasses,
       rowVars, vars
<1>10. QED
  BY <1>2, <1>3, <1>4, <1>5, <1>6, <1>7, <1>8, <1>9 DEF Next, Surroundings

\* The coach of the member whose row a request at the door has is left alone.
LEMMA CoachKeptAtDoor ==
  ASSUME SeatsInv, [Next]_vars, "desk" \notin Disturbances, "coach" \notin Disturbances,
         NEW i \in Jobs, job[i].pc \in {"attend", "undo"}, job'[i] = job[i]
  PROVE  coach'[job[i].who] = coach[job[i].who]
<1> DEFINE m == job[i].who
<1>1. /\ TypeOK /\ m \in Members /\ job[i].rows = {m}
      /\ \A j \in Jobs \ {i} : job[j].rows \cap job[i].rows = {}
      /\ \A j \in Jobs : job[j].pc \in {"attend", "undo"} => job[j].rows = {job[j].who}
  BY DEF SeatsInv, LocksOK, Knows
<1>2. ASSUME NEW j \in Jobs, AttendCommit(j) \/ UndoCommit(j), job[j].who = m PROVE FALSE
  <2>1. job[j].rows = {m}
    BY <1>1, <1>2 DEF AttendCommit, UndoCommit
  <2>2. j = i
    BY <1>1, <2>1
  <2>3. job'[i] = IdleJob
    BY <1>1, <1>2, <2>2 DEF AttendCommit, UndoCommit, Finish, Goto, TypeOK
  <2>4. QED
    BY <2>3, IdleFacts
<1>3. ~CoachAssigned(m)
  BY DEF CoachAssigned, Disturb
<1> HIDE DEF m
<1>4. coach'[m] = coach[m]
  BY <1>1, <1>2, <1>3, CoachMoves
<1>5. QED
  BY <1>4 DEF m

LEMMA CoachInvNext ==
  ASSUME SeatsInv, DoorInv, CoachInv, [Next]_vars,
         "desk" \notin Disturbances, "coach" \notin Disturbances
  PROVE  CoachInv'
<1>1. TypeOK /\ LocksOK
  BY DEF SeatsInv
<1>2. ASSUME NEW i \in Jobs, job'[i].pc \in {"attend", "undo"}
      PROVE  job'[i].saw = coach'[job'[i].who]
  <2>1. CASE job'[i] = job[i]
    BY <1>2, <2>1, CoachKeptAtDoor DEF CoachInv
  <2>2. ASSUME NEW m \in Members, job'[i] = AtDoor(m, job'[i].pc), UNCHANGED <<reg, coach>>
        PROVE  job'[i].saw = coach'[job'[i].who]
    <3>1. job'[i].saw = coach[m] /\ job'[i].who = m
      BY <2>2 DEF AtDoor, IdleJob
    <3>2. QED
      BY <2>2, <3>1
  <2>3. QED
    BY <1>2, <2>1, <2>2, DoorJobs
<1>3. ASSUME NEW m \in Members, reg'[m].status = "attended"
      PROVE  /\ coach'[m] # "none"
             /\ reg'[m].granted <=> before'[m].coach = "none"
             /\ ~reg'[m].granted /\ coach'[m] = "door" => before'[m].coach = "door"
  <2>1. before'[m] = IF reg[m].status = "attended" THEN before[m]
                     ELSE [status |-> reg[m].status, coach |-> coach[m]]
    BY <1>3, BeforeStep
  <2>2. ASSUME reg[m].status = "attended", reg'[m].granted = reg[m].granted
        PROVE  /\ coach'[m] # "none"
               /\ reg'[m].granted <=> before'[m].coach = "none"
               /\ ~reg'[m].granted /\ coach'[m] = "door" => before'[m].coach = "door"
    <3>1. /\ coach[m] # "none"
          /\ reg[m].granted <=> before[m].coach = "none"
          /\ ~reg[m].granted /\ coach[m] = "door" => before[m].coach = "door"
      BY <2>2 DEF CoachInv
    <3>2. ASSUME NEW j \in Jobs, AttendCommit(j), job[j].who = m PROVE FALSE
      BY <2>2, <3>2 DEF AttendCommit, DoorInv
    <3>3. ASSUME NEW j \in Jobs, UndoCommit(j), job[j].who = m PROVE FALSE
      <4> DEFINE row == [NoReg EXCEPT !.status = Restored(reg[m]), !.paid = reg[m].paid]
      <4>1. reg'[m] = row
        BY <1>1, <3>3 DEF UndoCommit, Save, TypeOK
      <4>2. row.status # "attended"
        BY DEF NoReg, Restored, Restorable
      <4>3. QED
        BY <1>3, <4>1, <4>2
    <3>4. coach'[m] = coach[m] \/ coach'[m] = "own"
      BY <3>2, <3>3, CoachMoves
    <3>5. QED
      BY <2>1, <2>2, <3>1, <3>4
  <2>3. ASSUME NEW j \in Jobs, AttendCommit(j), job[j].who = m, reg'[m] = Attended(m, job[j].saw)
        PROVE  /\ coach'[m] # "none"
               /\ reg'[m].granted <=> before'[m].coach = "none"
               /\ ~reg'[m].granted /\ coach'[m] = "door" => before'[m].coach = "door"
    <3>1. /\ reg[m].status # "attended" /\ reg[m] \in RegType
          /\ job[j].saw = coach[m]
      BY <1>1, <2>3 DEF DoorInv, CoachInv, AttendCommit, TypeOK
    <3>2. reg'[m].granted <=> coach[m] = "none"
      BY <2>3, <3>1 DEF Attended, RegType
    <3>3. coach'[m] = IF coach[m] = "none" THEN "door" ELSE coach[m]
      BY <1>1, <2>3, <3>1 DEF AttendCommit, Granted, TypeOK
    <3>4. before'[m].coach = coach[m]
      BY <2>1, <3>1
    <3>5. QED
      BY <3>2, <3>3, <3>4
  <2>4. QED
    BY <1>3, <2>2, <2>3, AttendedRows
<1>4. QED
  BY <1>2, <1>3 DEF CoachInv

LEMMA CoachInvStarts == Init => CoachInv
  BY IdleFacts DEF Init, CoachInv, NoReg

\* Where no coach is assigned while a request at the door is under way and nobody
\* writes statuses over by hand, an undo takes back the coach that its check-in
\* granted, never one the member had or was given since, and nothing else takes a
\* coach away.
THEOREM UndoesRestoreCoach ==
  ASSUME "desk" \notin Disturbances, "coach" \notin Disturbances
  PROVE  Spec => UndoRestoresCoach
<1> DEFINE A == \A m \in Members :
                   /\ UndoOf(m) => coach'[m] = IF coach[m] = "own" THEN "own" ELSE before[m].coach
                   /\ coach[m] # "none" /\ coach'[m] = "none" => UndoOf(m)
           Inv == DoorInv /\ CoachInv
<1>1. SeatsInv /\ Inv /\ [Next]_vars => Inv'
  BY DoorInvNext, CoachInvNext
<1>2. SeatsInv /\ Inv /\ [Next]_vars => [A]_vars
  <2> SUFFICES ASSUME SeatsInv, Inv, [Next]_vars, NEW m \in Members
               PROVE  /\ UndoOf(m) =>
                           coach'[m] = IF coach[m] = "own" THEN "own" ELSE before[m].coach
                      /\ coach[m] # "none" /\ coach'[m] = "none" => UndoOf(m)
    OBVIOUS
  <2>1. TypeOK /\ coach[m] \in {"none", "door", "own"}
    BY DEF SeatsInv, TypeOK, Coaches
  <2>2. ASSUME UndoOf(m)
        PROVE  coach'[m] = IF coach[m] = "own" THEN "own" ELSE before[m].coach
    <3>1. PICK j \in Jobs : UndoCommit(j) /\ job[j].who = m
      BY <2>2, UndoIsTheCommit
    <3>2. job[j].saw = coach[m] /\ reg[m].status = "attended"
      BY <3>1 DEF CoachInv, DoorInv, UndoCommit
    <3>3. coach'[m] = IF reg[m].granted /\ coach[m] = "door" THEN "none" ELSE coach[m]
      BY <2>1, <3>1, <3>2 DEF UndoCommit, TakesBackCoach, TypeOK
    <3>4. QED
      BY <2>1, <3>2, <3>3 DEF CoachInv
  <2>3. ASSUME coach[m] # "none", coach'[m] = "none" PROVE UndoOf(m)
    <3>1. PICK j \in Jobs : UndoCommit(j) /\ job[j].who = m
      BY <2>3, CoachMoves
    <3>2. reg'[m] = [NoReg EXCEPT !.status = Restored(reg[m]), !.paid = reg[m].paid]
      BY <2>1, <3>1 DEF UndoCommit, Save, TypeOK
    <3>3. reg'[m].status # "attended"
      BY <3>2 DEF NoReg, Restored, Restorable
    <3>4. job[j].pc = "undo" /\ job'[j].pc = "idle"
      BY <2>1, <3>1, IdleFacts DEF UndoCommit, Finish, Goto, TypeOK
    <3>5. QED
      BY <3>1, <3>3, <3>4 DEF UndoOf, DoorInv
  <2>4. QED
    BY <2>2, <2>3
<1>3. Init => Inv
  BY DoorInvStarts, CoachInvStarts
<1>4. QED
  BY <1>1, <1>2, <1>3, SeatsInvariant, PTL DEF Spec, UndoRestoresCoach

-----------------------------------------------------------------------------
(* The order of the waitlist *)

\* Only the two commits by the rules seat members, or change the capacity.
LEMMA RulesSeat ==
  ASSUME SeatsInv, [Next]_vars
  PROVE  \/ NobodySeated /\ cap' = cap
         \/ \E j \in Jobs : RegisterCommit(j) \/ PromoteCommit(j)
<1>1. ASSUME NEW j \in Jobs, Arrival(j) PROVE NobodySeated /\ cap' = cap
  <2>1. Looks(j)
    BY <1>1 DEF Arrival, Looks
  <2>2. NobodySeated
    BY <1>1, RegisterBeginInv, CancelLockInv, CheckinBeginInv, DoorLockInv, SaveLockInv
       DEF Arrival
  <2>3. QED
    BY <2>1, <2>2, LooksWritesNothing
<1>2. ASSUME NEW j \in Jobs, Step(j)
      PROVE  (NobodySeated /\ cap' = cap) \/ RegisterCommit(j) \/ PromoteCommit(j)
  <2>1. Looks(j) \/ AttendCommit(j) \/ UndoCommit(j) \/ RegisterCommit(j) \/ PromoteCommit(j)
    BY <1>2 DEF Step, Looks
  <2>2. NobodySeated \/ RegisterCommit(j) \/ PromoteCommit(j)
    BY <1>2, RegisterDecideInv, CancelRowInv, OfferLockInv, PickInv, CheckinLockInv,
       CheckinEventInv, AttendCommitInv, UndoCommitInv, AbortedInv DEF Step
  <2>3. QED
    BY <2>1, <2>2, LooksWritesNothing DEF AttendCommit, UndoCommit, eventVars
<1>3. ASSUME Surroundings PROVE NobodySeated /\ cap' = cap
  <2>1. NobodySeated
    BY <1>3, PaymentLandsInv, StaffRecordsCashInv, CoachAssignedInv, StaffCancelsInv,
       StaffSetsInv, MarkNoShowsInv, EventOffInv, TimePassesInv, CrashInv DEF Surroundings
  <2>2. cap' = cap
    BY <1>3 DEF Surroundings, PaymentLands, StaffRecordsCash, CoachAssigned, StaffCancels,
         StaffSets, MarkNoShows, EventOff, TimePasses, Crash, eventVars
  <2>3. QED
    BY <2>1, <2>2
<1>4. UNCHANGED vars => NobodySeated /\ cap' = cap
  BY StutterInv DEF vars
<1>5. QED
  BY <1>1, <1>2, <1>3, <1>4 DEF Next

LEMMA SeatedBy ==
  ASSUME SeatsInv, [Next]_vars, NEW m \in NewlySeated
  PROVE  \E j \in Jobs : \/ RegisterCommit(j) /\ job[j].who = m /\ Holds(job[j].row)
                         \/ PromoteCommit(j) /\ m \in job[j].won
<1>1. TypeOK /\ LocksOK
  BY DEF SeatsInv
<1>2. ~NobodySeated
  BY DEF NobodySeated, NewlySeated, Counted
<1>3. PICK j \in Jobs : RegisterCommit(j) \/ PromoteCommit(j)
  BY <1>2, RulesSeat
<1>4. m \in Members /\ Holds(reg'[m]) /\ ~Holds(reg[m])
  BY DEF NewlySeated, Counted, Holders, Holds
<1>5. CASE RegisterCommit(j)
  <2>1. job[j].who \in Members
    BY <1>1, <1>5 DEF RegisterCommit, LocksOK, Knows
  <2>2. QED
    BY <1>1, <1>4, <1>5, <2>1 DEF RegisterCommit, Save, TypeOK
<1>6. CASE PromoteCommit(j)
  BY <1>1, <1>6, CommitSees
<1>7. QED
  BY <1>3, <1>5, <1>6

\* Who comes to wait does so by signing up, or by the undo of a check-in.
LEMMA WaitersCome ==
  ASSUME SeatsInv, [Next]_vars, "desk" \notin Disturbances,
         NEW m \in Members, reg'[m].status = "waitlist"
  PROVE  \/ reg[m].status = "waitlist"
         \/ \E j \in Jobs : (RegisterCommit(j) \/ UndoCommit(j)) /\ job[j].who = m
<1>1. TypeOK /\ LocksOK /\ reg[m] \in RegType
  BY DEF SeatsInv, TypeOK
<1>2. ASSUME NEW j \in Jobs, RegisterCommit(j) \/ UndoCommit(j)
      PROVE  job[j].who = m \/ reg[m].status = "waitlist"
  BY <1>1, <1>2 DEF RegisterCommit, UndoCommit, Save, TypeOK
<1>3. ASSUME NEW j \in Jobs, PromoteCommit(j) PROVE reg[m].status = "waitlist"
  <2>1. reg'[m] = Seen(j, m)
    BY <1>3 DEF PromoteCommit
  <2>2. AdmittedStatus(reg[m]) # "waitlist"
    BY <1>1, AdmittedFacts
  <2>3. QED
    BY <1>1, <2>1, <2>2 DEF Seen, RegType
<1>4. ASSUME NEW j \in Jobs, AttendCommit(j) PROVE reg[m].status = "waitlist"
  <2>1. reg'[m] = reg[m] \/ reg'[m] = Attended(m, job[j].saw)
    BY <1>1, <1>4 DEF AttendCommit, Save, TypeOK
  <2>2. Attended(m, job[j].saw).status = "attended"
    BY <1>1 DEF Attended, RegType
  <2>3. QED
    BY <2>1, <2>2
<1>5. ASSUME NEW k \in Members, PaymentLands(k) PROVE reg[m].status = "waitlist"
  <2>1. reg'[m] = reg[m] \/
        reg'[m] = [reg[m] EXCEPT !.paid = TRUE,
                                 !.status = IF @ = "attended" THEN @ ELSE "confirmed"]
    BY <1>1, <1>5 DEF PaymentLands, Save, TypeOK
  <2>2. QED
    BY <1>1, <2>1 DEF RegType
<1>6. ASSUME NEW k \in Members, \/ StaffRecordsCash(k) \/ \E j \in Jobs : StaffCancels(j, k)
      PROVE  reg[m].status = "waitlist"
  <2>1. reg'[m] = reg[m] \/ \E s \in {"cancelled", reg[m].status}, p \in BOOLEAN :
                                 reg'[m] = StaffRow(m, s, p)
    BY <1>1, <1>6 DEF StaffRecordsCash, StaffCancels, Save, TypeOK, RegType
  <2>2. ASSUME NEW s \in {"cancelled", reg[m].status}, NEW p \in BOOLEAN, reg'[m] = StaffRow(m, s, p)
        PROVE  reg[m].status = "waitlist"
    BY <1>1, <2>2 DEF StaffRow, RegType
  <2>3. QED
    BY <2>1, <2>2
<1>7. ASSUME NEW k \in Members, NEW s \in Statuses, StaffSets(k, s) PROVE FALSE
  BY <1>7 DEF StaffSets, Disturb
<1>8. ASSUME MarkNoShows PROVE reg[m].status = "waitlist"
  <2>1. reg'[m] = reg[m] \/ reg'[m] = [reg[m] EXCEPT !.status = "no_show"]
    BY <1>8 DEF MarkNoShows
  <2>2. QED
    BY <1>1, <2>1 DEF RegType
<1>9. CASE UNCHANGED <<reg, byHand, before>>
  BY <1>9
<1>10. QED
  BY <1>2, <1>3, <1>4, <1>5, <1>6, <1>7, <1>8, <1>9, RowWriters DEF Writes

\* k was there before m, with the same claim to a seat.
FirstInLine(k, m) ==
    /\ <<k, m>> \in ahead
    /\ GenderLimits => Pool[k] = Pool[m]
    /\ Premium(k) <=> Premium(m)

\* Until the door opens nobody is checked in and no sign-up takes a waiting row
\* over; a promotion that has chosen m leaves nobody first in line before m.
OrderInv == stage = "early" =>
    /\ \A m \in Members : reg[m].status # "attended"
    /\ \A j \in Jobs :
        /\ job[j].pc \notin {"checkin", "scan", "attend", "undo"}
        /\ job[j].pc = "decided" => reg[job[j].who].status # "waitlist"
        /\ job[j].pc = "promote" =>
              \A m \in job[j].won, k \in SeenWaiting(j) : ~FirstInLine(k, m)

\* Before the door opens no coach comes or goes, and the waitlist keeps its order
\* while a promotion has the event's lock.
LEMMA LineStays ==
  ASSUME SeatsInv, OrderInv, [Next]_vars, stage = "early", "desk" \notin Disturbances,
         "coach" \notin Disturbances, "quiet coach" \notin Disturbances,
         NEW i \in Jobs, job[i].pc = "promote", job'[i] = job[i]
  PROVE  /\ \A k, m \in Members : FirstInLine(k, m)' <=> FirstInLine(k, m)
         /\ SeenWaiting(i)' \subseteq SeenWaiting(i)
<1>1. TypeOK /\ LocksOK /\ evLock = i /\ IdleJob.pc = "idle"
  BY IdleFacts DEF SeatsInv, LocksOK, Deciding
<1>2. ASSUME NEW j \in Jobs, RegisterCommit(j) PROVE FALSE
  BY <1>1, <1>2 DEF RegisterCommit, LocksOK, Deciding
<1>3. ASSUME NEW j \in Jobs, AttendCommit(j) \/ UndoCommit(j) PROVE FALSE
  BY <1>3 DEF AttendCommit, UndoCommit, OrderInv
<1>4. ASSUME NEW m \in Members PROVE coach'[m] = coach[m]
  <2>1. ~CoachAssigned(m)
    BY DEF CoachAssigned, Disturb
  <2>2. QED
    BY <1>3, <2>1, CoachMoves
<1>5. ahead' = ahead
  <2>1. ASSUME NEW j \in Jobs, Arrival(j) \/ Step(j) PROVE ahead' = ahead
    <3>1. Looks(j) \/ PromoteCommit(j)
      BY <1>2, <1>3, <2>1 DEF Arrival, Step, Looks
    <3>2. QED
      BY <3>1, LooksWritesNothing DEF PromoteCommit
  <2>2. ASSUME Surroundings PROVE ahead' = ahead
    BY <2>2 DEF Surroundings, PaymentLands, StaffRecordsCash, CoachAssigned, StaffCancels,
         StaffSets, MarkNoShows, EventOff, TimePasses, Crash, rowVars
  <2>3. QED
    BY <2>1, <2>2 DEF Next, vars
<1>6. ASSUME NEW k \in SeenWaiting(i)' PROVE k \in SeenWaiting(i)
  <2>1. k \in Members /\ Seen(i, k)'.status = "waitlist" /\ reg'[k] \in RegType
    BY NextInv DEF SeenWaiting, SeatsInv, TypeOK
  <2>2. k \notin job[i].won /\ ~(job[i].cancels /\ k = job[i].who)
    <3>1. AdmittedStatus(reg'[k]) # "waitlist"
      BY <2>1, AdmittedFacts
    <3>2. QED
      BY <2>1, <3>1 DEF Seen, AdmittedStatus, RegType
  <2>3. reg'[k].status = "waitlist"
    BY <2>1, <2>2 DEF Seen
  <2>4. reg[k].status = "waitlist"
    BY <1>2, <1>3, <2>1, <2>3, WaitersCome
  <2>5. QED
    BY <2>1, <2>2, <2>4 DEF SeenWaiting, Seen
<1>7. QED
  BY <1>4, <1>5, <1>6 DEF FirstInLine, Premium

\* The member picked is first in line among those with the same claim.
LEMMA PickedInOrder ==
  ASSUME NEW i \in Jobs, NEW m \in EarliestOf(Preferred(i)),
         NEW k \in SeenWaiting(i), FirstInLine(k, m)
  PROVE  FALSE
<1>1. m \in Eligible(i) /\ m \in Preferred(i) /\ k \notin Preferred(i)
  BY DEF EarliestOf, Preferred, FirstInLine
<1>2. k \in Eligible(i)
  <2>1. HasRoom(SeenHolders(i), SeenCap(i), m, Premium(m))
    BY <1>1 DEF Eligible
  <2>2. HasRoom(SeenHolders(i), SeenCap(i), k, Premium(k))
    BY <2>1 DEF HasRoom, IsFullFor, IsPoolFull, FirstInLine
  <2>3. QED
    BY <2>2 DEF Eligible
<1>3. QED
  BY <1>1, <1>2 DEF Preferred, FirstInLine

LEMMA OrderInvNext ==
  ASSUME SeatsInv, DoorInv, OrderInv, [Next]_vars, "desk" \notin Disturbances,
         "coach" \notin Disturbances, "quiet coach" \notin Disturbances
  PROVE  OrderInv'
<1> SUFFICES ASSUME stage' = "early" PROVE OrderInv'
  BY DEF OrderInv
<1>1. TypeOK /\ LocksOK /\ stage = "early" /\ IdleJob.pc = "idle"
  <2>1. stage = "early"
    BY DEF Next, Arrival, Step, Surroundings, RegisterBegin, CancelLock, CheckinBegin, WalkUpLock,
         UndoLock, SaveLock, RegisterDecide, RegisterCommit, CancelRow, OfferLock, Pick,
         PromoteCommit, CheckinLock, CheckinEvent, AttendCommit, UndoCommit, Aborted,
         PaymentLands, StaffRecordsCash, CoachAssigned, StaffCancels, StaffSets, MarkNoShows,
         EventOff, TimePasses, Crash, eventVars, vars
  <2>2. QED
    BY <2>1, IdleFacts DEF SeatsInv
<1>2. ASSUME NEW m \in Members PROVE reg'[m].status # "attended"
  BY <1>1, AttendedRows DEF OrderInv, AttendCommit
<1>3. ASSUME NEW i \in Jobs
      PROVE  \/ job'[i] = job[i] \/ job'[i].pc \in {"idle", "offer", "register", "cancel"}
             \/ job'[i].pc = "promote" /\ (job'[i].won = {} \/ Pick(i))
             \/ RegisterDecide(i) /\ job'[i].pc = "decided"
  <2>1. CASE Looks(i)
    <3>1. ~CheckinLock(i) /\ ~CheckinEvent(i)
      BY <1>1 DEF CheckinLock, CheckinEvent, OrderInv
    <3>2. ASSUME NEW m \in Members PROVE ~(CheckinBegin(i, m) \/ WalkUpLock(i, m) \/ UndoLock(i, m))
      BY <1>1 DEF CheckinBegin, WalkUpLock, UndoLock, DoorOpen, OrderInv
    <3>3. \/ \E m \in Members : RegisterBegin(i, m) \/ CancelLock(i, m)
          \/ \E c \in Capacities : SaveLock(i, c)
          \/ RegisterDecide(i) \/ CancelRow(i) \/ OfferLock(i) \/ Pick(i) \/ Aborted(i)
      BY <2>1, <3>1, <3>2 DEF Looks
    <3>4. QED
      BY <1>1, <3>3, LookedAt
  <2>2. QED
    BY <1>1, <2>1, JobMoves
<1>4. ASSUME NEW i \in Jobs PROVE job'[i].pc \notin {"checkin", "scan", "attend", "undo"}
  BY <1>1, <1>3 DEF OrderInv
<1>5. ASSUME NEW i \in Jobs, job'[i].pc = "decided" PROVE reg'[job'[i].who].status # "waitlist"
  <2>1. CASE job'[i] = job[i]
    <3>1. job[i].who \in Members /\ evLock = i /\ reg[job[i].who].status # "waitlist"
      BY <1>1, <1>5, <2>1 DEF LocksOK, Knows, Deciding, OrderInv
    <3>2. ASSUME NEW j \in Jobs, RegisterCommit(j) PROVE FALSE
      <4>1. j = i
        BY <1>1, <3>1, <3>2 DEF RegisterCommit, LocksOK, Deciding
      <4>2. QED
        BY <1>1, <1>5, <3>2, <4>1 DEF RegisterCommit, Finish, Goto, TypeOK
    <3>3. ASSUME NEW j \in Jobs, UndoCommit(j) PROVE FALSE
      BY <1>1, <3>3 DEF UndoCommit, OrderInv
    <3>4. QED
      BY <2>1, <3>1, <3>2, <3>3, WaitersCome
  <2>2. CASE RegisterDecide(i)
    BY <1>1, <1>5, <2>2, Decided
  <2>3. QED
    BY <1>3, <1>5, <2>1, <2>2
<1>6. ASSUME NEW i \in Jobs, job'[i].pc = "promote",
             NEW m \in job'[i].won, NEW k \in SeenWaiting(i)'
      PROVE  ~FirstInLine(k, m)'
  <2>1. CASE job'[i] = job[i]
    <3>1. m \in Members /\ k \in Members
      BY <1>1, <2>1 DEF SeenWaiting, TypeOK, JobType
    <3>2. QED
      BY <1>1, <1>6, <2>1, <3>1, LineStays DEF OrderInv
  <2>2. CASE Pick(i)
    <3>1. /\ job'[i].won = job[i].won
             \/ \E p \in EarliestOf(Preferred(i)) : job'[i].won = job[i].won \cup {p}
          /\ job[i].pc = "promote" /\ UNCHANGED <<reg, ahead, coach>>
          /\ \A n \in Members :
                (n \in job'[i].won <=> n \in job[i].won) => Seen(i, n)' = Seen(i, n)
      BY <1>1, <2>2, Picked
    <3>2. k \in Members /\ Seen(i, k)'.status = "waitlist" /\ reg'[k] \in RegType
      BY NextInv DEF SeenWaiting, SeatsInv, TypeOK
    <3>3. k \notin job'[i].won
      <4>1. AdmittedStatus(reg'[k]) # "waitlist"
        BY <3>2, AdmittedFacts
      <4>2. QED
        BY <3>2, <4>1 DEF Seen, AdmittedStatus, RegType
    <3>4. k \in SeenWaiting(i) /\ (FirstInLine(k, m)' <=> FirstInLine(k, m))
      BY <3>1, <3>2, <3>3 DEF SeenWaiting, FirstInLine, Premium
    <3>5. CASE m \in job[i].won
      BY <1>1, <3>1, <3>4, <3>5 DEF OrderInv
    <3>6. CASE m \in EarliestOf(Preferred(i))
      BY <3>4, <3>6, PickedInOrder
    <3>7. QED
      BY <1>6, <3>1, <3>5, <3>6
  <2>3. QED
    BY <1>3, <1>6, <2>1, <2>2
<1>7. QED
  BY <1>2, <1>4, <1>5, <1>6 DEF OrderInv

LEMMA OrderInvStarts == Init => OrderInv
  BY IdleFacts DEF Init, OrderInv, NoReg

\* Before the door opens the waitlist is served in the order people joined it, for
\* any number of sign-ups, cancellations and capacity changes in progress, where
\* nobody is made premium meanwhile and no organiser writes statuses over by hand.
THEOREM WaitlistInOrder ==
  ASSUME "desk" \notin Disturbances, "coach" \notin Disturbances,
         "quiet coach" \notin Disturbances
  PROVE  Spec => WaitersServedInOrder
<1> DEFINE A == stage = "early" => \A m \in Waiting \cap NewlySeated : \A k \in Waiting \ {m} :
                   /\ <<k, m>> \in ahead
                   /\ GenderLimits => Pool[k] = Pool[m]
                   /\ Premium(k) <=> Premium(m)
                   => reg'[k].status # "waitlist"
           Inv == DoorInv /\ OrderInv
<1>1. SeatsInv /\ Inv /\ [Next]_vars => Inv'
  BY DoorInvNext, OrderInvNext
<1>2. SeatsInv /\ Inv /\ [Next]_vars => [A]_vars
  <2> SUFFICES ASSUME SeatsInv, Inv, [Next]_vars, stage = "early",
                      NEW m \in Waiting \cap NewlySeated, NEW k \in Waiting \ {m},
                      FirstInLine(k, m)
               PROVE  reg'[k].status # "waitlist"
    BY DEF FirstInLine
  <2>1. PICK j \in Jobs : \/ RegisterCommit(j) /\ job[j].who = m
                          \/ PromoteCommit(j) /\ m \in job[j].won
    BY SeatedBy
  <2>2. CASE RegisterCommit(j) /\ job[j].who = m
    BY <2>2 DEF RegisterCommit, OrderInv, Waiting
  <2>3. CASE PromoteCommit(j) /\ m \in job[j].won
    <3>1. k \in Members /\ reg'[k] = Seen(j, k) /\ job[j].pc = "promote"
      BY <2>3 DEF Waiting, PromoteCommit
    <3>2. k \notin SeenWaiting(j)
      BY <2>3, <3>1 DEF OrderInv
    <3>3. QED
      BY <3>1, <3>2 DEF SeenWaiting
  <2>4. QED
    BY <2>1, <2>2, <2>3
<1>3. Init => Inv
  BY DoorInvStarts, OrderInvStarts
<1>4. QED
  BY <1>1, <1>2, <1>3, SeatsInvariant, PTL DEF Spec, WaitersServedInOrder

-----------------------------------------------------------------------------
(* The block reserved for premium members *)

\* m has a coach that no undo takes back.
Kept(m) == coach[m] # "none" /\ (reg[m].status = "attended" => ~reg[m].granted)

WonPremium(j) == {m \in job[j].won : Premium(m)}

\* Who signed up as premium keeps being so; a sign-up that decided on a seat for
\* a member without a coach, and a promotion that chose one, leave the block alone.
ReserveInv == \A j \in Jobs :
    /\ job[j].pc \in {"register", "decided"} /\ job[j].prem => Kept(job[j].who)
    /\ job[j].pc = "decided" /\ Holds(job[j].row) /\ ~job[j].prem =>
          Cardinality(Counted \ {job[j].who}) < PublicCapacity(cap)
    /\ job[j].pc = "promote" => \A m \in job[j].won : reg[m].status = "waitlist"
    /\ job[j].pc = "promote" /\ WonPremium(j) # job[j].won =>
          Cardinality(SeenCounted(j) \ WonPremium(j)) <= PublicCapacity(SeenCap(j))

LEMMA PublicCapacityType ==
  ASSUME NEW c \in Capacities
  PROVE  PublicCapacity(c) \in Nat
  BY SeatsAssumption DEF PublicCapacity

LEMMA KeptStays ==
  ASSUME SeatsInv, DoorInv, CoachInv, [Next]_vars, "desk" \notin Disturbances,
         NEW m \in Members, Kept(m)
  PROVE  Kept(m)'
<1>1. ASSUME NEW j \in Jobs, AttendCommit(j), job[j].who = m PROVE job[j].saw # "none"
  BY <1>1 DEF AttendCommit, CoachInv, Kept
<1>2. coach'[m] # "none"
  <2>1. ASSUME NEW j \in Jobs, UndoCommit(j), job[j].who = m PROVE ~TakesBackCoach(m, job[j].saw)
    BY <2>1 DEF UndoCommit, DoorInv, Kept, TakesBackCoach
  <2>2. QED
    BY <1>1, <2>1, CoachMoves DEF Kept
<1>3. ASSUME reg'[m].status = "attended" PROVE ~reg'[m].granted
  <2>1. ASSUME NEW saw, saw # "none" PROVE ~Attended(m, saw).granted
    <3>1. reg[m] \in RegType
      BY DEF SeatsInv, TypeOK
    <3>2. QED
      BY <2>1, <3>1 DEF Attended, RegType
  <2>2. QED
    BY <1>1, <1>3, <2>1, AttendedRows DEF Kept
<1>4. QED
  BY <1>2, <1>3 DEF Kept

\* A row that stays keeps the way its member came by the seat.
LEMMA ByHandStays ==
  ASSUME SeatsInv, [Next]_vars, NEW m \in Members, reg'[m] = reg[m]
  PROVE  m \in byHand' <=> m \in byHand
<1>1. CASE UNCHANGED <<reg, byHand, before>>
  BY <1>1
<1>2. CASE Writes
  <2>1. \E hand : History(hand)
    BY <1>2 DEF Writes, RegisterCommit, PromoteCommit, AttendCommit, UndoCommit, PaymentLands,
         StaffRecordsCash, StaffCancels, StaffSets, MarkNoShows
  <2>2. QED
    BY <2>1 DEF History, SeatsInv, Holders
<1>3. QED
  BY <1>1, <1>2, RowWriters

\* While a request decides, nobody else seats anyone by the rules.
LEMMA OthersSeatNobody ==
  ASSUME SeatsInv, [Next]_vars, NEW i \in Jobs, Deciding(job[i]), job'[i] = job[i]
  PROVE  NobodySeated /\ cap' = cap
<1>1. TypeOK /\ LocksOK /\ evLock = i
  BY DEF SeatsInv, LocksOK
<1>2. ASSUME NEW j \in Jobs, RegisterCommit(j) \/ PromoteCommit(j) PROVE FALSE
  <2>1. j = i
    BY <1>1, <1>2 DEF RegisterCommit, PromoteCommit, LocksOK, Deciding
  <2>2. job'[i] = IdleJob
    BY <1>1, <1>2, <2>1 DEF RegisterCommit, PromoteCommit, Finish, Goto, TypeOK
  <2>3. QED
    BY <2>2, IdleFacts
<1>3. QED
  BY <1>2, RulesSeat

LEMMA SignedUpPremium ==
  ASSUME SeatsInv, DoorInv, CoachInv, ReserveInv, [Next]_vars, "desk" \notin Disturbances,
         NEW i \in Jobs, job'[i].pc \in {"register", "decided"}, job'[i].prem
  PROVE  Kept(job[i].who)'
<1>1. TypeOK /\ LocksOK /\ IdleJob.pc = "idle" /\ \A m, pc : AtDoor(m, pc).pc = pc
  BY IdleFacts DEF SeatsInv, AtDoor, IdleJob
<1>2. CASE job'[i] = job[i]
  <2>1. job[i].who \in Members /\ Kept(job[i].who)
    BY <1>1, <1>2 DEF LocksOK, Knows, ReserveInv
  <2>2. \A m \in Members : Kept(m) => Kept(m)'
    BY KeptStays
  <2>3. QED
    BY <1>2, <2>1, <2>2 DEF Kept
<1>3. CASE RegisterDecide(i)
  <2>1. job'[i].pc = "decided"
    BY <1>1, <1>3, LookedAt
  <2>2. /\ Kept(job[i].who) /\ UNCHANGED <<reg, coach>> /\ job'[i].who = job[i].who
    BY <1>1, <1>3, <2>1, Decided DEF ReserveInv
  <2>3. QED
    BY <2>2 DEF Kept
<1>4. ASSUME NEW m \in Members, RegisterBegin(i, m) PROVE Kept(job[i].who)'
  BY <1>1, <1>4, LookedAt DEF RegisterBegin, rowVars, Kept, Premium
<1>5. QED
  BY <1>1, <1>2, <1>3, <1>4, JobMoves, LookedAt DEF Looks

LEMMA DecidedOutside ==
  ASSUME SeatsInv, ReserveInv, [Next]_vars,
         NEW i \in Jobs, job'[i].pc = "decided", Holds(job'[i].row), ~job'[i].prem
  PROVE  Cardinality(Counted' \ {job'[i].who}) < PublicCapacity(cap')
<1>1. /\ TypeOK /\ LocksOK /\ IdleJob.pc = "idle" /\ \A m, pc : AtDoor(m, pc).pc = pc
      /\ cap \in Capacities /\ PublicCapacity(cap) \in Nat
  BY IdleFacts, PublicCapacityType DEF SeatsInv, TypeOK, AtDoor, IdleJob
<1>2. CASE job'[i] = job[i]
  <2> DEFINE S == Counted \ {job[i].who}
             T == Counted' \ {job[i].who}
  <2>1. Counted' \subseteq Counted /\ cap' = cap
    BY <1>2, OthersSeatNobody DEF Deciding, NobodySeated
  <2>2. S \in SUBSET Members /\ T \in SUBSET S
    BY <2>1 DEF Counted, Holders
  <2>3. Cardinality(S) < PublicCapacity(cap)
    BY <1>2 DEF ReserveInv
  <2> HIDE DEF S, T
  <2>4. Cardinality(T) \in Nat /\ Cardinality(S) \in Nat /\ Cardinality(T) <= Cardinality(S)
    BY <2>2, SubsetCount
  <2>5. Cardinality(T) < PublicCapacity(cap)
    BY <1>1, <2>3, <2>4
  <2>6. QED
    BY <1>2, <2>1, <2>5 DEF T
<1>3. CASE RegisterDecide(i)
  <2> DEFINE m == job[i].who
             T == Counted' \ {m}
  <2>1. /\ m \in Members /\ job[i] \in JobType /\ job'[i].who = m /\ ~job[i].prem
        /\ job'[i].row = [reg[m] EXCEPT !.status = IF HasRoom(Holders, cap, m, job[i].prem)
                                                   THEN AdmittedStatus(reg[m]) ELSE "waitlist"]
        /\ UNCHANGED <<reg, byHand, cap>>
    BY <1>1, <1>3, Decided DEF LocksOK, Knows, TypeOK
  <2>2. HasRoom(Holders, cap, m, FALSE)
    <3>1. reg[m] \in RegType /\ job[i].prem = FALSE
      BY <1>1, <2>1 DEF TypeOK, JobType
    <3>2. ~Holds([reg[m] EXCEPT !.status = "waitlist"])
      BY <3>1 DEF Holds, SeatHolding, RegType
    <3>3. QED
      BY <2>1, <3>1, <3>2
  <2>3. ~(Cardinality(Holders) >= PublicCapacity(cap))
    BY <2>2 DEF HasRoom, IsFullFor
  <2>4. Holders \in SUBSET Members /\ T \in SUBSET Holders
    BY <2>1 DEF Counted, Holders
  <2> HIDE DEF T, m
  <2>5. /\ Cardinality(T) \in Nat /\ Cardinality(Holders) \in Nat
        /\ Cardinality(T) <= Cardinality(Holders)
    BY <2>4, SubsetCount
  <2>6. Cardinality(T) < PublicCapacity(cap)
    BY <1>1, <2>3, <2>5
  <2>7. QED
    BY <2>1, <2>6 DEF T
<1>4. QED
  BY <1>1, <1>2, <1>3, JobMoves, LookedAt DEF Looks

LEMMA WonStillWait ==
  ASSUME SeatsInv, ReserveInv, [Next]_vars,
         NEW i \in Jobs, job'[i].pc = "promote", NEW m \in job'[i].won
  PROVE  reg'[m].status = "waitlist"
<1>1. /\ TypeOK /\ LocksOK /\ IdleJob.pc = "idle" /\ \A n, pc : AtDoor(n, pc).pc = pc
  BY IdleFacts DEF SeatsInv, AtDoor, IdleJob
<1>2. CASE job'[i] = job[i]
  <2>1. m \in Members /\ m \in job[i].rows /\ reg[m].status = "waitlist"
    BY <1>1, <1>2 DEF LocksOK, Knows, TypeOK, JobType, ReserveInv
  <2>2. QED
    BY <1>1, <1>2, <2>1, LockedRowsStay
<1>3. CASE Pick(i)
  <2>1. CASE m \in job[i].won
    BY <1>1, <1>3, <2>1, Picked DEF ReserveInv
  <2>2. CASE m \in SeenWaiting(i)
    <3>1. m \in Members /\ reg[m] \in RegType /\ Seen(i, m).status = "waitlist"
      BY <1>1, <2>2 DEF SeenWaiting, TypeOK
    <3>2. AdmittedStatus(reg[m]) # "waitlist"
      BY <3>1, AdmittedFacts
    <3>3. reg[m].status = "waitlist"
      BY <3>1, <3>2 DEF Seen, RegType
    <3>4. QED
      BY <1>1, <1>3, <3>3, Picked
  <2>3. QED
    BY <1>1, <1>3, <2>1, <2>2, Picked DEF EarliestOf, Preferred, Eligible
<1>4. QED
  BY <1>1, <1>2, <1>3, JobMoves, LookedAt DEF Looks

\* Others' steps leave the room outside the block behind a promotion.
LEMMA BlockSurvives ==
  ASSUME SeatsInv, DoorInv, ReserveInv, [Next]_vars, "desk" \notin Disturbances,
         NEW i \in Jobs, job[i].pc = "promote", job'[i] = job[i],
         WonPremium(i)' # job[i].won
  PROVE  Cardinality(SeenCounted(i)' \ WonPremium(i)') <= PublicCapacity(SeenCap(i)')
<1> DEFINE S == SeenCounted(i) \ WonPremium(i)
           T == SeenCounted(i)' \ WonPremium(i)'
<1>1. /\ TypeOK /\ LocksOK /\ job[i] \in JobType /\ IdleJob.pc = "idle"
      /\ job[i].won \subseteq Members /\ job[i].rows \subseteq Members
  BY IdleFacts DEF SeatsInv, TypeOK, JobType
<1>2. Counted' \subseteq Counted /\ cap' = cap
  BY OthersSeatNobody DEF Deciding, NobodySeated
<1>3. ASSUME NEW k \in job[i].rows PROVE reg'[k] = reg[k] /\ (k \in byHand' <=> k \in byHand)
  <2>1. reg'[k] = reg[k]
    BY <1>1, <1>3, LockedRowsStay
  <2>2. QED
    BY <1>1, <1>3, <2>1, ByHandStays
<1>4. SeenCounted(i)' \subseteq SeenCounted(i)
  BY <1>1, <1>2, <1>3, SeenCountedShrinks
<1>5. WonPremium(i) \subseteq WonPremium(i)'
  <2> SUFFICES ASSUME NEW m \in job[i].won, coach[m] # "none" PROVE coach'[m] # "none"
    BY DEF WonPremium, Premium
  <2>1. m \in Members /\ reg[m].status = "waitlist"
    BY <1>1 DEF ReserveInv
  <2>2. ASSUME NEW j \in Jobs, UndoCommit(j), job[j].who = m PROVE FALSE
    BY <2>1, <2>2 DEF UndoCommit, DoorInv
  <2>3. QED
    BY <2>1, <2>2, CoachMoves
<1>6. Cardinality(S) <= PublicCapacity(SeenCap(i))
  <2>1. WonPremium(i) # job[i].won
    BY <1>5 DEF WonPremium
  <2>2. QED
    BY <2>1 DEF ReserveInv
<1>7. S \in SUBSET Members /\ T \in SUBSET S
  BY <1>4, <1>5 DEF SeenCounted, SeenHolders
<1>8. SeenCap(i)' = SeenCap(i) /\ PublicCapacity(SeenCap(i)) \in Nat
  BY <1>1, <1>2, PublicCapacityType DEF SeenCap, TypeOK, JobType
<1> HIDE DEF S, T
<1>9. Cardinality(T) \in Nat /\ Cardinality(S) \in Nat /\ Cardinality(T) <= Cardinality(S)
  BY <1>7, SubsetCount
<1>10. Cardinality(T) <= PublicCapacity(SeenCap(i))
  BY <1>6, <1>8, <1>9
<1>11. QED
  BY <1>8, <1>10 DEF T

\* A choice keeps to it.
LEMMA BlockPicked ==
  ASSUME SeatsInv, ReserveInv, NEW i \in Jobs, Pick(i), WonPremium(i)' # job'[i].won
  PROVE  Cardinality(SeenCounted(i)' \ WonPremium(i)') <= PublicCapacity(SeenCap(i)')
<1> DEFINE H == SeenHolders(i)
           S == SeenCounted(i) \ WonPremium(i)
           T == SeenCounted(i)' \ WonPremium(i)'
<1>1. /\ TypeOK /\ SeenCap(i) \in Capacities /\ PublicCapacity(SeenCap(i)) \in Nat
  BY PublicCapacityType DEF SeatsInv, TypeOK, SeenCap, JobType
<1>2. /\ job'[i].won = job[i].won
         \/ \E p \in EarliestOf(Preferred(i)) : job'[i].won = job[i].won \cup {p}
      /\ job[i].pc = "promote" /\ SeenCap(i)' = SeenCap(i)
      /\ \A k \in Members :
            (k \in job'[i].won <=> k \in job[i].won) => Seen(i, k)' = Seen(i, k)
      /\ UNCHANGED <<coach, byHand>>
  BY <1>1, Picked
<1>3. S \in SUBSET Members /\ H \in SUBSET Members /\ SeenCounted(i) \subseteq H
  BY DEF SeenCounted, SeenHolders
<1>4. WonPremium(i) # job[i].won => Cardinality(S) <= PublicCapacity(SeenCap(i))
  BY <1>2 DEF ReserveInv
<1>5. CASE job'[i].won = job[i].won
  <2>1. WonPremium(i)' = WonPremium(i)
    BY <1>2, <1>5 DEF WonPremium, Premium
  <2>2. SeenCounted(i)' = SeenCounted(i)
    BY <1>2, <1>5 DEF SeenCounted, SeenHolders, Holds
  <2>3. QED
    BY <1>2, <1>4, <1>5, <2>1, <2>2
<1>6. ASSUME NEW p \in EarliestOf(Preferred(i)), job'[i].won = job[i].won \cup {p}
      PROVE  Cardinality(T) <= PublicCapacity(SeenCap(i))
  <2>1. /\ p \in Members /\ HasRoom(H, SeenCap(i), p, Premium(p))
    BY DEF EarliestOf, Preferred, Eligible, SeenWaiting
  <2>2. SeenCounted(i)' \subseteq SeenCounted(i) \cup {p}
    BY <1>2, <1>6 DEF SeenCounted, SeenHolders, Holds
  <2>3. WonPremium(i)' = IF Premium(p) THEN WonPremium(i) \cup {p} ELSE WonPremium(i)
    BY <1>2, <1>6 DEF WonPremium, Premium
  <2>4. CASE Premium(p)
    <3>1. T \in SUBSET S
      BY <2>2, <2>3, <2>4
    <3>2. WonPremium(i) # job[i].won
      BY <1>6, <2>3, <2>4
    <3> HIDE DEF S, T
    <3>3. Cardinality(T) \in Nat /\ Cardinality(S) \in Nat /\ Cardinality(T) <= Cardinality(S)
      BY <1>3, <3>1, SubsetCount
    <3>4. QED
      BY <1>1, <1>4, <3>2, <3>3
  <2>5. CASE ~Premium(p)
    <3>1. ~(Cardinality(H) >= PublicCapacity(SeenCap(i)))
      BY <2>1, <2>5 DEF HasRoom, IsFullFor
    <3>2. T \in SUBSET (H \cup {p}) /\ T \in SUBSET Members
      BY <1>3, <2>1, <2>2
    <3> HIDE DEF H, T
    <3>3. Cardinality(T) \in Nat /\ Cardinality(H) \in Nat /\ Cardinality(T) <= Cardinality(H) + 1
      BY <1>3, <2>1, <3>2, OneMoreSeat, SubsetCount
    <3>4. QED
      BY <1>1, <3>1, <3>3
  <2>6. QED
    BY <2>4, <2>5
<1>7. QED
  BY <1>2, <1>5, <1>6

LEMMA ReserveInvNext ==
  ASSUME SeatsInv, DoorInv, CoachInv, ReserveInv, [Next]_vars, "desk" \notin Disturbances
  PROVE  ReserveInv'
<1>1. /\ TypeOK /\ IdleJob.pc = "idle" /\ \A n, pc : AtDoor(n, pc).pc = pc
  BY IdleFacts DEF SeatsInv, AtDoor, IdleJob
<1>2. ASSUME NEW i \in Jobs, job'[i].pc = "promote", WonPremium(i)' # job'[i].won
      PROVE  Cardinality(SeenCounted(i)' \ WonPremium(i)') <= PublicCapacity(SeenCap(i)')
  <2>1. job'[i].won # {}
    BY <1>2 DEF WonPremium
  <2>2. job'[i] = job[i] \/ Pick(i)
    BY <1>1, <1>2, <2>1, JobMoves, LookedAt DEF Looks
  <2>3. QED
    BY <1>2, <2>2, BlockSurvives, BlockPicked
<1>3. \A i \in Jobs : job'[i].pc \in {"register", "decided"} /\ job'[i].prem => Kept(job[i].who)'
  BY SignedUpPremium
<1>4. \A i \in Jobs : job'[i].pc = "decided" /\ Holds(job'[i].row) /\ ~job'[i].prem =>
         Cardinality(Counted' \ {job'[i].who}) < PublicCapacity(cap')
  BY DecidedOutside
<1>5. \A i \in Jobs : job'[i].pc = "promote" => \A m \in job'[i].won : reg'[m].status = "waitlist"
  BY WonStillWait
<1>6. QED
  BY <1>2, <1>3, <1>4, <1>5 DEF ReserveInv, Holds, PublicCapacity, Kept

LEMMA ReserveInvStarts == Init => ReserveInv
  BY IdleFacts DEF Init, ReserveInv

\* A member without a coach never sits in the block reserved for premium members,
\* whatever sign-ups, promotions, check-ins and undos run at the same time, where
\* no coach is assigned while a request is about the member and nobody writes
\* statuses over by hand.
THEOREM BlockHeldBack ==
  ASSUME "desk" \notin Disturbances, "coach" \notin Disturbances
  PROVE  Spec => ReservedBlockKept
<1> DEFINE A == (\E m \in NewlySeated : ~Premium(m)) =>
                   Cardinality(Counted' \ {m \in NewlySeated : Premium(m)})
                      <= PublicCapacity(cap')
           Inv == DoorInv /\ CoachInv /\ ReserveInv
<1>1. SeatsInv /\ Inv /\ [Next]_vars => Inv'
  BY DoorInvNext, CoachInvNext, ReserveInvNext
<1>2. SeatsInv /\ Inv /\ [Next]_vars => [A]_vars
  <2> DEFINE T == Counted' \ {k \in NewlySeated : Premium(k)}
  <2> SUFFICES ASSUME SeatsInv, Inv, [Next]_vars, NEW m \in NewlySeated, ~Premium(m)
               PROVE  Cardinality(T) <= PublicCapacity(cap')
    OBVIOUS
  <2>1. TypeOK /\ LocksOK /\ TypeOK' /\ m \in Members
    BY NextInv DEF SeatsInv, NewlySeated, Counted, Holders
  <2>2. PICK j \in Jobs : \/ RegisterCommit(j) /\ job[j].who = m /\ Holds(job[j].row)
                          \/ PromoteCommit(j) /\ m \in job[j].won
    BY SeatedBy
  <2>3. CASE RegisterCommit(j) /\ job[j].who = m /\ Holds(job[j].row)
    <3> DEFINE S == Counted \ {m}
    <3>1. ~job[j].prem /\ job[j].pc = "decided"
      BY <2>3 DEF RegisterCommit, ReserveInv, Kept, Premium
    <3>2. Cardinality(S) < PublicCapacity(cap)
      BY <2>3, <3>1 DEF ReserveInv
    <3>3. cap' = cap /\ PublicCapacity(cap) \in Nat
      BY <2>1, <2>3, PublicCapacityType DEF RegisterCommit, eventVars, TypeOK
    <3>4. \A k \in Members \ {m} : reg'[k] = reg[k] /\ (k \in byHand' <=> k \in byHand)
      <4>1. \A k \in Members \ {m} : reg'[k] = reg[k]
        BY <2>1, <2>3 DEF RegisterCommit, Save, TypeOK
      <4>2. QED
        BY <4>1, ByHandStays
    <3>5. S \in SUBSET Members /\ T \in SUBSET (S \cup {m}) /\ T \in SUBSET Members
      BY <2>1, <3>4 DEF Counted, Holders, Holds
    <3> HIDE DEF S, T
    <3>6. Cardinality(T) \in Nat /\ Cardinality(S) \in Nat /\ Cardinality(T) <= Cardinality(S) + 1
      BY <2>1, <3>5, OneMoreSeat, SubsetCount
    <3>7. QED
      BY <3>2, <3>3, <3>6
  <2>4. CASE PromoteCommit(j) /\ m \in job[j].won
    <3> DEFINE S == SeenCounted(j) \ WonPremium(j)
    <3>1. /\ Counted' = SeenCounted(j) /\ job[j].pc = "promote" /\ cap' = SeenCap(j)
          /\ job[j].won \subseteq Members
      BY <2>1, <2>4, CommitSees DEF PromoteCommit, TypeOK, JobType
    <3>2. Cardinality(S) <= PublicCapacity(SeenCap(j))
      BY <2>4, <3>1 DEF ReserveInv, WonPremium
    <3>3. \A k \in job[j].won : k \notin Holders
      BY <3>1 DEF ReserveInv, Holders, Holds, SeatHolding
    <3>4. S \in SUBSET Members /\ T \in SUBSET S
      BY <3>1, <3>3 DEF WonPremium, NewlySeated, SeenCounted, SeenHolders
    <3>5. PublicCapacity(cap') \in Nat
      BY <2>1, PublicCapacityType DEF TypeOK
    <3> HIDE DEF S, T
    <3>6. Cardinality(T) \in Nat /\ Cardinality(S) \in Nat /\ Cardinality(T) <= Cardinality(S)
      BY <3>4, SubsetCount
    <3>7. QED
      BY <3>1, <3>2, <3>5, <3>6
  <2>5. QED
    BY <2>2, <2>3, <2>4
<1>3. Init => Inv
  BY DoorInvStarts, CoachInvStarts, ReserveInvStarts
<1>4. QED
  BY <1>1, <1>2, <1>3, SeatsInvariant, PTL DEF Spec, ReservedBlockKept
=============================================================================
