--------------------------- MODULE EventSeatsProofs ---------------------------
(***************************************************************************)
(* Proofs about EventSeats, for any number of members, requests, pools,    *)
(* capacities and disturbances.  The actions are of three kinds, and each   *)
(* kind has a lemma: steps of a request that write no row (JobStep), steps  *)
(* that write rows by hand or on order of a person (HandStep), and the two  *)
(* commits that seat members by the rules (CommitStep).                     *)
(***************************************************************************)
EXTENDS EventSeats, FiniteSetTheorems, TLAPS

-----------------------------------------------------------------------------
(* Counting seats *)

LEMMA SubsetCount ==
  ASSUME NEW S \in SUBSET Members, NEW R \in SUBSET S
  PROVE  /\ Cardinality(S) \in Nat /\ Cardinality(R) \in Nat
         /\ Cardinality(R) <= Cardinality(S)
<1>1. IsFiniteSet(S)
  BY SeatsAssumption, FS_Subset
<1>2. QED
  BY <1>1, FS_Subset, FS_CardinalityType

\* One more member adds at most one seat.
LEMMA OneMoreSeat ==
  ASSUME NEW S \in SUBSET Members, NEW m \in Members, NEW R \in SUBSET (S \cup {m})
  PROVE  Cardinality(R) <= Cardinality(S) + 1
<1>1. IsFiniteSet(S)
  BY SeatsAssumption, FS_Subset
<1>2. Cardinality(S \cup {m}) \in {Cardinality(S), Cardinality(S) + 1}
  BY <1>1, FS_AddElement
<1>3. /\ Cardinality(S) \in Nat /\ Cardinality(R) \in Nat
      /\ Cardinality(R) <= Cardinality(S \cup {m})
  BY SubsetCount
<1>4. QED
  BY <1>2, <1>3

\* Whoever has room, has it in the capacity and in the pool.
LEMMA RoomMeansASeat ==
  ASSUME NEW S \in SUBSET Members, NEW c \in Capacities, NEW m \in Members,
         NEW prem \in BOOLEAN, HasRoom(S, c, m, prem)
  PROVE  /\ Cardinality(S) < c
         /\ GenderLimits => Cardinality(InPool(S, Pool[m])) < PoolCap[Pool[m]]
<1>1. c \in Nat /\ Reserved \in Nat /\ Pool[m] \in DOMAIN PoolCap /\ PoolCap[Pool[m]] \in Nat
      /\ GenderLimits \in BOOLEAN
  BY SeatsAssumption
<1>2. Cardinality(S) \in Nat /\ Cardinality(InPool(S, Pool[m])) \in Nat
  BY SubsetCount DEF InPool
<1>3. PublicCapacity(c) \in Nat /\ PublicCapacity(c) <= c
  BY <1>1 DEF PublicCapacity
<1>4. Cardinality(S) < c
  BY <1>1, <1>2, <1>3 DEF HasRoom, IsFullFor
<1>5. GenderLimits => Cardinality(InPool(S, Pool[m])) < PoolCap[Pool[m]]
  BY <1>1, <1>2 DEF HasRoom, IsPoolFull
<1>6. QED
  BY <1>4, <1>5

-----------------------------------------------------------------------------
(* Jobs and rows *)

LEMMA IdleFacts ==
  /\ NoReg \in RegType
  /\ IdleJob \in JobType
  /\ ~Deciding(IdleJob) /\ ~MayHoldEvent(IdleJob) /\ Knows(IdleJob)
  /\ IdleJob.rows = {} /\ IdleJob.won = {} /\ IdleJob.pc = "idle" /\ ~IdleJob.cancels
  /\ IdleJob.newcap = None
<1>1. NoReg \in RegType
  BY DEF NoReg, RegType, Statuses
<1>2. IdleJob \in JobType
  BY <1>1 DEF IdleJob, JobType, Pcs, Coaches
<1>3. QED
  BY <1>1, <1>2 DEF IdleJob, Deciding, MayHoldEvent, Knows

\* A seat the rules give is confirmed or pending, and the row stays a row.
LEMMA AdmittedFacts ==
  ASSUME NEW row \in RegType
  PROVE  /\ AdmittedStatus(row) \in {"confirmed", "pending"}
         /\ row.paid => AdmittedStatus(row) = "confirmed"
         /\ [row EXCEPT !.status = AdmittedStatus(row)] \in RegType
         /\ Holds([row EXCEPT !.status = AdmittedStatus(row)])
  BY DEF AdmittedStatus, RegType, Statuses, SeatHolding, Holds

\* What a transaction sees of a row is a row.
LEMMA SeenFacts ==
  ASSUME TypeOK, NEW j \in Jobs, NEW m \in Members
  PROVE  /\ Seen(j, m) \in RegType
         /\ m \in job[j].won => Holds(Seen(j, m)) /\ Seen(j, m).status # "waitlist"
         /\ Holds(Seen(j, m)) => m \in job[j].won \/ Holds(reg[m])
<1>1. reg[m] \in RegType
  BY DEF TypeOK
<1>2. [reg[m] EXCEPT !.status = "cancelled"] \in RegType
      /\ ~Holds([reg[m] EXCEPT !.status = "cancelled"])
  BY <1>1 DEF RegType, Statuses, SeatHolding, Holds
<1>3. CASE m \in job[j].won
  <2>1. Seen(j, m) = [reg[m] EXCEPT !.status = AdmittedStatus(reg[m])]
    BY <1>3 DEF Seen
  <2>2. Seen(j, m).status = AdmittedStatus(reg[m])
    BY <2>1, <1>1 DEF RegType
  <2>3. QED
    BY <1>1, <1>3, <2>1, <2>2, AdmittedFacts
<1>4. CASE m \notin job[j].won
  BY <1>1, <1>2, <1>4 DEF Seen
<1>5. QED
  BY <1>3, <1>4

\* A step that gives job j the state J keeps the locks in order, if J knows what
\* it holds, holds no row of another's, and the event's lock goes with J.
LEMMA LocksStep ==
  ASSUME TypeOK, LocksOK, NEW j \in Jobs, NEW J \in JobType, Goto(j, J), Knows(J),
         \A i \in Jobs \ {j} : job[i].rows \cap J.rows = {},
         Deciding(J) => evLock' = j, evLock' = j => MayHoldEvent(J),
         \A i \in Jobs \ {j} : evLock' = i <=> evLock = i
  PROVE  LocksOK'
<1>1. /\ job' = [job EXCEPT ![j] = J] /\ job'[j] = J
      /\ \A i \in Jobs \ {j} : job'[i] = job[i]
  BY DEF Goto, TypeOK
<1>2. \A i \in Jobs : /\ Deciding(job'[i]) => evLock' = i
                      /\ evLock' = i => MayHoldEvent(job'[i])
  BY <1>1 DEF LocksOK
<1>3. \A i, k \in Jobs : i # k => job'[i].rows \cap job'[k].rows = {}
  BY <1>1 DEF LocksOK
<1>4. \A i \in Jobs : Knows(job'[i])
  BY <1>1 DEF LocksOK
<1>5. QED
  BY <1>2, <1>3, <1>4 DEF LocksOK, Deciding, MayHoldEvent, Knows

-----------------------------------------------------------------------------
(* Room, once found, stays *)

\* While others write no row that i has locked and add to nobody the rules count,
\* the transaction of i comes to see no holder it did not see.
LEMMA SeenCountedShrinks ==
  ASSUME TypeOK, LocksOK, NEW i \in Jobs, job[i].pc = "promote",
         job'[i] = job[i], Counted' \subseteq Counted,
         \A k \in job[i].rows : reg'[k] = reg[k] /\ (k \in byHand' <=> k \in byHand)
  PROVE  SeenCounted(i)' \subseteq SeenCounted(i)
<1>1. /\ job[i].won \subseteq job[i].rows /\ job[i].rows \subseteq Members
      /\ job[i].cancels => job[i].who \in job[i].rows
  BY DEF LocksOK, Knows, TypeOK, JobType
<1>2. \A k \in Members : k \in job[i].rows => Seen(i, k)' = Seen(i, k)
  BY DEF Seen, AdmittedStatus
<1>3. \A k \in Members : k \notin job[i].rows => Seen(i, k)' = reg'[k] /\ Seen(i, k) = reg[k]
  BY <1>1 DEF Seen
<1> SUFFICES ASSUME NEW k \in Members, Holds(Seen(i, k)'), k \notin byHand'
             PROVE  Holds(Seen(i, k)) /\ k \notin byHand
  BY DEF SeenCounted, SeenHolders, Holds
<1>4. CASE k \in job[i].rows
  BY <1>4, <1>2
<1>5. CASE k \notin job[i].rows
  <2>1. k \in Counted'
    BY <1>3, <1>5 DEF Counted, Holders, Holds
  <2>2. QED
    BY <2>1, <1>3, <1>5 DEF Counted, Holders, Holds
<1>6. QED
  BY <1>4, <1>5

\* Steps of others write no row that j has locked and add to nobody the rules
\* count: the room behind j's decision is still there afterwards.
LEMMA RoomSurvives ==
  ASSUME TypeOK, TypeOK', LocksOK, NEW i \in Jobs, RoomKept(i),
         job'[i] = job[i], cap' = cap, Counted' \subseteq Counted,
         \A k \in job[i].rows : reg'[k] = reg[k] /\ (k \in byHand' <=> k \in byHand)
  PROVE  RoomKept(i)'
<1>1. Counted \subseteq Members /\ Counted' \subseteq Members
  BY DEF Counted, Holders
<1>2. ASSUME job[i].pc = "decided", Holds(job[i].row)
      PROVE  /\ Cardinality(Counted' \ {job[i].who}) < cap
             /\ GenderLimits => Cardinality(InPool(Counted' \ {job[i].who}, Pool[job[i].who]))
                                   < PoolCap[Pool[job[i].who]]
  <2> DEFINE others == Counted \ {job[i].who}
             p == Pool[job[i].who]
  <2>1. job[i].who \in Members
    BY <1>2 DEF LocksOK, Knows
  <2>2. cap \in Nat /\ PoolCap[p] \in Nat
    BY <2>1, SeatsAssumption DEF TypeOK
  <2>3. /\ Counted' \ {job[i].who} \subseteq others
        /\ InPool(Counted' \ {job[i].who}, p) \subseteq InPool(others, p)
        /\ others \subseteq Members /\ InPool(others, p) \subseteq Members
    BY <1>1 DEF InPool
  <2>4. /\ Cardinality(others) < cap
        /\ GenderLimits => Cardinality(InPool(others, p)) < PoolCap[p]
    BY <1>2 DEF RoomKept
  <2> HIDE DEF others, p
  <2>5. /\ Cardinality(Counted' \ {job[i].who}) <= Cardinality(others)
        /\ Cardinality(Counted' \ {job[i].who}) \in Nat /\ Cardinality(others) \in Nat
    BY <2>3, SubsetCount
  <2>6. /\ Cardinality(InPool(Counted' \ {job[i].who}, p)) <= Cardinality(InPool(others, p))
        /\ Cardinality(InPool(Counted' \ {job[i].who}, p)) \in Nat
        /\ Cardinality(InPool(others, p)) \in Nat
    BY <2>3, SubsetCount
  <2>7. QED
    BY <2>2, <2>4, <2>5, <2>6 DEF p
<1>3. ASSUME job[i].pc = "promote", NEW m \in job[i].won
      PROVE  /\ Cardinality(SeenCounted(i)') <= SeenCap(i)
             /\ GenderLimits => Cardinality(InPool(SeenCounted(i)', Pool[m])) <= PoolCap[Pool[m]]
  <2>1. job[i].won \subseteq Members
    BY <1>3 DEF LocksOK, Knows, TypeOK, JobType
  <2>2. SeenCounted(i)' \subseteq SeenCounted(i)
    BY <1>3, SeenCountedShrinks
  <2>3. /\ SeenCounted(i) \subseteq Members
        /\ InPool(SeenCounted(i)', Pool[m]) \subseteq InPool(SeenCounted(i), Pool[m])
        /\ InPool(SeenCounted(i), Pool[m]) \subseteq Members
    BY <2>2 DEF SeenCounted, SeenHolders, InPool
  <2>4. /\ Cardinality(SeenCounted(i)) <= SeenCap(i)
        /\ GenderLimits => Cardinality(InPool(SeenCounted(i), Pool[m])) <= PoolCap[Pool[m]]
    BY <1>3 DEF RoomKept
  <2>5. SeenCap(i) \in Nat /\ Pool[m] \in DOMAIN PoolCap /\ PoolCap[Pool[m]] \in Nat
    BY <2>1, SeatsAssumption DEF SeenCap, TypeOK, JobType
  <2>6. /\ Cardinality(SeenCounted(i)') <= Cardinality(SeenCounted(i))
        /\ Cardinality(SeenCounted(i)') \in Nat /\ Cardinality(SeenCounted(i)) \in Nat
    BY <2>2, <2>3, SubsetCount
  <2>7. /\ Cardinality(InPool(SeenCounted(i)', Pool[m])) <= Cardinality(InPool(SeenCounted(i), Pool[m]))
        /\ Cardinality(InPool(SeenCounted(i)', Pool[m])) \in Nat
        /\ Cardinality(InPool(SeenCounted(i), Pool[m])) \in Nat
    BY <2>3, SubsetCount
  <2>8. QED
    BY <2>4, <2>5, <2>6, <2>7
<1>4. SeenCap(i)' = SeenCap(i)
  BY DEF SeenCap
<1>5. QED
  BY <1>2, <1>3, <1>4 DEF RoomKept, InPool, Holds

-----------------------------------------------------------------------------
(* The three kinds of steps *)

\* What every step but the two commits does: nobody gets a seat by the rules.
NobodySeated == Counted' \subseteq Counted

\* A step that seats only the members in hand adds to nobody the rules count.
LEMMA HandSeats ==
  ASSUME NEW hand, History(hand), byHand \subseteq Holders,
         \A k \in Members : Holds(reg'[k]) /\ ~Holds(reg[k]) => k \in hand
  PROVE  /\ Counted' \subseteq Counted
         /\ byHand' \subseteq Holders'
         /\ \A k \in Members : reg'[k] = reg[k] => (k \in byHand' <=> k \in byHand)
<1>1. byHand' = {m \in Members : /\ Holds(reg'[m])
                                 /\ m \in byHand \/ (m \in hand /\ ~Holds(reg[m]))}
  BY DEF History
<1>2. Counted' \subseteq Counted
  BY <1>1 DEF Counted, Holders, Holds
<1>3. byHand' \subseteq Holders'
  BY <1>1 DEF Holders, Holds
<1>4. ASSUME NEW k \in Members, reg'[k] = reg[k] PROVE k \in byHand' <=> k \in byHand
  BY <1>1, <1>4 DEF Holders
<1>5. QED
  BY <1>2, <1>3, <1>4

\* What History leaves behind is of its type.
LEMMA HistoryType ==
  ASSUME TypeOK, reg' \in [Members -> RegType], NEW hand, History(hand)
  PROVE  /\ byHand' \subseteq Members
         /\ before' \in [Members -> [status : Statuses, coach : Coaches]]
<1>1. Unseen \in [status : Statuses, coach : Coaches]
  BY DEF Unseen, Statuses, Coaches
<1>2. \A m \in Members : [status |-> reg[m].status, coach |-> coach[m]]
                            \in [status : Statuses, coach : Coaches]
  BY DEF TypeOK, RegType
<1>3. QED
  BY <1>1, <1>2 DEF History, TypeOK

\* Steps of a request that write no row.
LEMMA JobStep ==
  ASSUME SeatsInv, NEW j \in Jobs, NEW J \in JobType, Goto(j, J), Knows(J),
         UNCHANGED <<rowVars, eventVars>>, moves' \in Nat, evLock' \in Jobs \cup {None},
         \A i \in Jobs \ {j} : job[i].rows \cap J.rows = {},
         Deciding(J) => evLock' = j, evLock' = j => MayHoldEvent(J),
         \A i \in Jobs \ {j} : evLock' = i <=> evLock = i,
         RoomKept(j)'
  PROVE  SeatsInv' /\ NobodySeated
<1> USE DEF SeatsInv, rowVars, eventVars, historyVars
<1>1. TypeOK'
  BY DEF TypeOK, Goto
<1>2. LocksOK'
  BY LocksStep
<1>3. /\ (byHand \subseteq Holders)' /\ Counted' = Counted
  BY DEF Holders, Counted
<1>4. ASSUME NEW i \in Jobs PROVE RoomKept(i)'
  <2>1. CASE i = j
    BY <2>1
  <2>2. CASE i # j
    <3>1. job'[i] = job[i]
      BY <2>2 DEF Goto, TypeOK
    <3>2. QED
      BY <1>1, <1>3, <3>1, RoomSurvives
  <2>3. QED
    BY <2>1, <2>2
<1>5. QED
  BY <1>1, <1>2, <1>3, <1>4 DEF NobodySeated

\* A request that decides nothing has no room to keep.
LEMMA NoDecision ==
  ASSUME NEW i \in Jobs, ~Deciding(job[i])
  PROVE  RoomKept(i)
  BY DEF Deciding, RoomKept

\* The same of the state after a step.
LEMMA NoDecisionNext ==
  ASSUME NEW i \in Jobs, ~Deciding(job'[i])
  PROVE  RoomKept(i)'
  BY DEF Deciding, RoomKept

\* Steps that write rows and seat only the members in hand.
LEMMA HandStep ==
  ASSUME SeatsInv, TypeOK', LocksOK', NEW hand, History(hand), cap' = cap,
         \A k \in Members : Holds(reg'[k]) /\ ~Holds(reg[k]) => k \in hand,
         \A i \in Jobs : \/ ~Deciding(job'[i])
                         \/ job'[i] = job[i] /\ \A k \in job[i].rows : reg'[k] = reg[k]
  PROVE  SeatsInv' /\ NobodySeated
<1> USE DEF SeatsInv
<1>1. /\ Counted' \subseteq Counted /\ byHand' \subseteq Holders'
      /\ \A k \in Members : reg'[k] = reg[k] => (k \in byHand' <=> k \in byHand)
  BY HandSeats
<1>2. ASSUME NEW i \in Jobs PROVE RoomKept(i)'
  <2>1. CASE ~Deciding(job'[i])
    BY <2>1, NoDecisionNext
  <2>2. CASE job'[i] = job[i] /\ \A k \in job[i].rows : reg'[k] = reg[k]
    <3>1. job[i].rows \subseteq Members
      BY DEF TypeOK, JobType
    <3>2. QED
      BY <1>1, <2>2, <3>1, RoomSurvives
  <2>3. QED
    BY <2>1, <2>2
<1>3. QED
  BY <1>1, <1>2 DEF NobodySeated

\* The two commits by the rules: the event's lock is j's, so nobody else decides.
LEMMA CommitStep ==
  ASSUME SeatsInv, TypeOK', NEW j \in Jobs, Deciding(job[j]), Finish(j), evLock' = None,
         History({})
  PROVE  SeatsInv'
<1> USE DEF SeatsInv
<1>1. evLock = j /\ j # None
  BY SeatsAssumption DEF LocksOK
<1>2. LocksOK'
  <2>1. /\ IdleJob \in JobType /\ Knows(IdleJob) /\ IdleJob.rows = {}
        /\ ~Deciding(IdleJob) /\ ~MayHoldEvent(IdleJob)
    BY IdleFacts
  <2>2. \A i \in Jobs \ {j} : evLock' = i <=> evLock = i
    BY <1>1, SeatsAssumption
  <2>3. QED
    BY <1>1, <2>1, <2>2, LocksStep DEF Finish
<1>3. \A i \in Jobs : ~Deciding(job'[i])
  BY <1>2, SeatsAssumption DEF LocksOK, Deciding
<1>4. \A i \in Jobs : RoomKept(i)'
  BY <1>3, NoDecisionNext
<1>5. (byHand \subseteq Holders)'
  BY DEF History, Holders, Holds
<1>6. QED
  BY <1>2, <1>4, <1>5

\* Steps that touch neither rows, requests, locks nor the capacity.
LEMMA OtherStep ==
  ASSUME SeatsInv, TypeOK', UNCHANGED <<reg, byHand, cap, evLock, job>>
  PROVE  SeatsInv' /\ NobodySeated
<1> USE DEF SeatsInv
<1>1. LocksOK' /\ (byHand \subseteq Holders)' /\ Counted' = Counted
  BY DEF LocksOK, Deciding, MayHoldEvent, Knows, Holders, Holds, Counted
<1>2. \A i \in Jobs : RoomKept(i)'
  BY <1>1, RoomSurvives
<1>3. QED
  BY <1>1, <1>2 DEF NobodySeated

LEMMA InitInv == Init => SeatsInv
<1> SUFFICES ASSUME Init PROVE SeatsInv
    OBVIOUS
<1> USE DEF Init
<1>1. TypeOK
  <2>1. coach \in [Members -> Coaches]
    BY DEF Coaches
  <2>2. before \in [Members -> [status : Statuses, coach : Coaches]]
    BY DEF Unseen, Statuses, Coaches
  <2>3. QED
    BY <2>1, <2>2, IdleFacts DEF TypeOK, Stages
<1>2. \A j \in Jobs : job[j] = IdleJob
  OBVIOUS
<1>3. LocksOK
  BY <1>2, IdleFacts, SeatsAssumption DEF LocksOK
<1>4. \A j \in Jobs : RoomKept(j)
  BY <1>2, IdleFacts, NoDecision
<1>5. byHand \subseteq Holders
  OBVIOUS
<1>6. QED
  BY <1>1, <1>3, <1>4, <1>5 DEF SeatsInv

-----------------------------------------------------------------------------
(* Requests that look, lock and choose *)

\* A request that takes or keeps no event lock and no row but its member's own.
LEMMA QuietJobStep ==
  ASSUME SeatsInv, NEW j \in Jobs, NEW J \in JobType, Goto(j, J), Knows(J),
         ~MayHoldEvent(job[j]), ~Deciding(J), UNCHANGED <<rowVars, eventVars, evLock, moves>>,
         \A i \in Jobs \ {j} : job[i].rows \cap J.rows = {}
  PROVE  SeatsInv' /\ NobodySeated
<1>1. evLock # j /\ evLock \in Jobs \cup {None} /\ moves \in Nat
  BY DEF SeatsInv, LocksOK, TypeOK
<1>2. RoomKept(j)'
  <2>1. job'[j] = J
    BY DEF Goto, SeatsInv, TypeOK
  <2>2. QED
    BY <2>1, NoDecisionNext
<1>3. QED
  BY <1>1, <1>2, JobStep

\* A request that takes the event's lock with nobody chosen yet.
LEMMA LockingStep ==
  ASSUME SeatsInv, NEW j \in Jobs, NEW J \in JobType, Goto(j, J), Knows(J),
         J.pc \in {"cancel", "promote"}, J.won = {}, evLock = None, evLock' = j,
         UNCHANGED <<rowVars, eventVars>>, moves' \in Nat,
         \A i \in Jobs \ {j} : job[i].rows \cap J.rows = {}
  PROVE  SeatsInv' /\ NobodySeated
<1>1. RoomKept(j)'
  <2>1. job'[j] = J
    BY DEF Goto, SeatsInv, TypeOK
  <2>2. QED
    BY <2>1 DEF RoomKept
<1>2. \A i \in Jobs \ {j} : evLock' = i <=> evLock = i
  BY SeatsAssumption
<1>3. Deciding(J) /\ MayHoldEvent(J)
  BY DEF Deciding, MayHoldEvent
<1>4. QED
  BY <1>1, <1>2, <1>3, JobStep

\* A member's row, free, is in nobody's hands.
LEMMA FreeRow ==
  ASSUME NEW m \in Members, RowFree(m), NEW j \in Jobs
  PROVE  \A i \in Jobs \ {j} : job[i].rows \cap {m} = {}
  BY DEF RowFree

\* A request at the door is a job that knows its member, whose row it holds.
LEMMA AtDoorFacts ==
  ASSUME TypeOK, NEW m \in Members, NEW pc \in {"attend", "undo"}
  PROVE  /\ AtDoor(m, pc) \in JobType /\ Knows(AtDoor(m, pc)) /\ ~Deciding(AtDoor(m, pc))
         /\ AtDoor(m, pc).rows = {m}
<1>1. coach[m] \in Coaches
  BY DEF TypeOK
<1>2. /\ AtDoor(m, pc) \in JobType /\ AtDoor(m, pc).pc = pc /\ AtDoor(m, pc).who = m
      /\ AtDoor(m, pc).rows = {m}
  BY <1>1, IdleFacts DEF AtDoor, JobType, Pcs
<1>3. QED
  BY <1>2 DEF Knows, Deciding

LEMMA RegisterBeginInv ==
  ASSUME SeatsInv, NEW j \in Jobs, NEW m \in Members, RegisterBegin(j, m)
  PROVE  SeatsInv' /\ NobodySeated
<1> DEFINE J == [IdleJob EXCEPT !.pc = "register", !.who = m, !.prem = Premium(m)]
<1>1. J \in JobType /\ J.pc = "register" /\ J.who = m /\ J.rows = {}
  BY IdleFacts DEF JobType, Pcs, Premium
<1>2. Goto(j, J) /\ job[j].pc = "idle" /\ UNCHANGED <<rowVars, eventVars, evLock, moves>>
  BY DEF RegisterBegin
<1> HIDE DEF J
<1>3. Knows(J) /\ ~Deciding(J) /\ ~MayHoldEvent(job[j])
  BY <1>1, <1>2 DEF Knows, Deciding, MayHoldEvent
<1>4. QED
  BY <1>1, <1>2, <1>3, QuietJobStep

LEMMA CheckinBeginInv ==
  ASSUME SeatsInv, NEW j \in Jobs, NEW m \in Members, CheckinBegin(j, m)
  PROVE  SeatsInv' /\ NobodySeated
<1> DEFINE J == [IdleJob EXCEPT !.pc = "checkin", !.who = m]
<1>1. J \in JobType /\ J.pc = "checkin" /\ J.who = m /\ J.rows = {}
  BY IdleFacts DEF JobType, Pcs
<1>2. Goto(j, J) /\ job[j].pc = "idle" /\ UNCHANGED <<rowVars, eventVars, evLock, moves>>
  BY DEF CheckinBegin
<1> HIDE DEF J
<1>3. Knows(J) /\ ~Deciding(J) /\ ~MayHoldEvent(job[j])
  BY <1>1, <1>2 DEF Knows, Deciding, MayHoldEvent
<1>4. QED
  BY <1>1, <1>2, <1>3, QuietJobStep

LEMMA CheckinLockInv ==
  ASSUME SeatsInv, NEW j \in Jobs, CheckinLock(j)
  PROVE  SeatsInv' /\ NobodySeated
<1> DEFINE m == job[j].who
           J == [job[j] EXCEPT !.pc = "scan", !.rows = {m}]
<1>1. m \in Members /\ job[j] \in JobType
  BY DEF SeatsInv, TypeOK, LocksOK, Knows, CheckinLock
<1>2. J \in JobType /\ J.pc = "scan" /\ J.who = m /\ J.rows = {m}
  BY <1>1 DEF JobType, Pcs
<1>3. /\ ~MayHoldEvent(job[j]) /\ UNCHANGED <<rowVars, eventVars, evLock, moves>>
      /\ RowFree(m) /\ Goto(j, J)
  BY DEF CheckinLock, Deciding, MayHoldEvent
<1> HIDE DEF m, J
<1>4. Knows(J) /\ ~Deciding(J)
  BY <1>1, <1>2 DEF Knows, Deciding
<1>5. QED
  BY <1>1, <1>2, <1>3, <1>4, FreeRow, QuietJobStep

\* The scan has both rows, and goes on as a request at the door.
LEMMA CheckinEventInv ==
  ASSUME SeatsInv, NEW j \in Jobs, CheckinEvent(j)
  PROVE  SeatsInv' /\ NobodySeated
<1> DEFINE m == job[j].who
           J == AtDoor(m, "attend")
<1>1. /\ m \in Members /\ job[j].rows = {m} /\ moves' \in Nat
      /\ \A i \in Jobs \ {j} : job[i].rows \cap job[j].rows = {}
  BY DEF SeatsInv, TypeOK, LocksOK, Knows, CheckinEvent
<1>2. /\ ~MayHoldEvent(job[j]) /\ evLock = None /\ UNCHANGED <<rowVars, eventVars, moves>>
      /\ (Finish(j) /\ UNCHANGED evLock) \/ (Goto(j, J) /\ evLock' = j)
  BY DEF CheckinEvent, Deciding, MayHoldEvent
<1>3. J \in JobType /\ Knows(J) /\ ~Deciding(J) /\ J.rows = {m} /\ J.pc = "attend"
  <2>1. J \in JobType /\ Knows(J) /\ ~Deciding(J) /\ J.rows = {m}
    BY <1>1, AtDoorFacts DEF SeatsInv
  <2>2. J.pc = "attend"
    BY DEF AtDoor, IdleJob
  <2>3. QED
    BY <2>1, <2>2
<1> HIDE DEF J
<1>4. CASE Finish(j) /\ UNCHANGED evLock
  BY <1>2, <1>4, IdleFacts, QuietJobStep DEF Finish
<1>5. CASE Goto(j, J) /\ evLock' = j
  <2>1. RoomKept(j)'
    <3>1. job'[j] = J
      BY <1>5 DEF Goto, SeatsInv, TypeOK
    <3>2. QED
      BY <1>3, <3>1, NoDecisionNext
  <2>2. MayHoldEvent(J) /\ \A i \in Jobs \ {j} : evLock' = i <=> evLock = i
    BY <1>2, <1>3, <1>5, SeatsAssumption DEF MayHoldEvent
  <2>3. UNCHANGED <<rowVars, eventVars>> /\ evLock' \in Jobs \cup {None}
    BY <1>2, <1>5
  <2>4. QED
    BY <1>1, <1>3, <1>5, <2>1, <2>2, <2>3, JobStep
<1>6. QED
  BY <1>2, <1>4, <1>5

\* WalkUpLock and UndoLock: a free row is taken at the door.
LEMMA DoorLockInv ==
  ASSUME SeatsInv, NEW j \in Jobs, NEW m \in Members, WalkUpLock(j, m) \/ UndoLock(j, m)
  PROVE  SeatsInv' /\ NobodySeated
<1>1. /\ job[j].pc = "idle" /\ RowFree(m) /\ UNCHANGED <<rowVars, eventVars, evLock, moves>>
      /\ \E pc \in {"attend", "undo"} : Goto(j, AtDoor(m, pc))
  BY DEF WalkUpLock, UndoLock
<1>2. PICK pc \in {"attend", "undo"} : Goto(j, AtDoor(m, pc))
  BY <1>1
<1>3. /\ AtDoor(m, pc) \in JobType /\ Knows(AtDoor(m, pc)) /\ ~Deciding(AtDoor(m, pc))
      /\ AtDoor(m, pc).rows = {m}
  BY AtDoorFacts DEF SeatsInv
<1>4. ~MayHoldEvent(job[j])
  BY <1>1 DEF Deciding, MayHoldEvent
<1>5. QED
  BY <1>1, <1>2, <1>3, <1>4, FreeRow, QuietJobStep

LEMMA CancelLockInv ==
  ASSUME SeatsInv, NEW j \in Jobs, NEW m \in Members, CancelLock(j, m)
  PROVE  SeatsInv' /\ NobodySeated
<1> DEFINE J == [IdleJob EXCEPT !.pc = "cancel", !.who = m]
<1>1. J \in JobType /\ J.pc = "cancel" /\ J.who = m /\ J.won = {} /\ J.rows = {}
  BY IdleFacts DEF JobType, Pcs
<1>2. /\ Goto(j, J) /\ evLock = None /\ evLock' = j
      /\ UNCHANGED <<rowVars, eventVars, moves>>
  BY DEF CancelLock
<1> HIDE DEF J
<1>3. Knows(J)
  BY <1>1 DEF Knows
<1>4. moves' \in Nat
  BY <1>2 DEF SeatsInv, TypeOK
<1>5. QED
  BY <1>1, <1>2, <1>3, <1>4, LockingStep

\* A request ends with no row written, and lets go of the event if it had it.
LEMMA GivesUpInv ==
  ASSUME SeatsInv, NEW j \in Jobs, Finish(j), LeaveEvent(j), UNCHANGED <<rowVars, eventVars>>,
         moves' \in Nat
  PROVE  SeatsInv' /\ NobodySeated
<1>1. Goto(j, IdleJob) /\ evLock' = IF evLock = j THEN None ELSE evLock
  BY DEF Finish, LeaveEvent
<1>2. evLock' \in Jobs \cup {None}
  BY <1>1 DEF SeatsInv, TypeOK
<1>3. evLock' # j /\ \A i \in Jobs \ {j} : evLock' = i <=> evLock = i
  BY <1>1, SeatsAssumption
<1>4. RoomKept(j)'
  <2>1. job'[j] = IdleJob
    BY <1>1 DEF Goto, SeatsInv, TypeOK
  <2>2. QED
    BY <2>1, IdleFacts, NoDecisionNext
<1>5. QED
  BY <1>1, <1>2, <1>3, <1>4, IdleFacts, JobStep

\* event_cancel has the event's row, and now the member's too.
LEMMA CancelRowInv ==
  ASSUME SeatsInv, NEW j \in Jobs, CancelRow(j)
  PROVE  SeatsInv' /\ NobodySeated
<1> DEFINE m == job[j].who
           n == IF AcceptsPromotion THEN 1 ELSE 0
           P == Promoting(m, Pool[m], n)
           J == [P EXCEPT !.cancels = TRUE, !.rows = {m}]
<1>1. m \in Members /\ evLock = j /\ RowFree(m) /\ moves' \in Nat
  BY DEF CancelRow, Deciding, SeatsInv, TypeOK, LocksOK, Knows
<1>2. P \in JobType /\ P.pc = "promote" /\ P.who = m /\ P.won = {}
  <2>1. /\ n \in Nat /\ m \in Members \cup {None}
        /\ Pool[m] \in DOMAIN PoolCap \cup {None}
    BY <1>1, SeatsAssumption
  <2> HIDE DEF n
  <2>2. QED
    BY <2>1, IdleFacts DEF P, Promoting, JobType, Pcs
<1>3. /\ UNCHANGED <<rowVars, eventVars>>
      /\ (Finish(j) /\ LeaveEvent(j)) \/ (Goto(j, J) /\ UNCHANGED evLock)
  BY DEF CancelRow
<1> HIDE DEF P
<1>4. J \in JobType /\ J.pc = "promote" /\ J.who = m /\ J.won = {} /\ J.rows = {m}
  BY <1>1, <1>2 DEF JobType
<1> HIDE DEF J
<1>5. CASE Finish(j) /\ LeaveEvent(j)
  BY <1>1, <1>3, <1>5, GivesUpInv
<1>6. CASE Goto(j, J) /\ UNCHANGED evLock
  <2>1. Knows(J) /\ Deciding(J) /\ MayHoldEvent(J)
    BY <1>1, <1>4 DEF Knows, Deciding, MayHoldEvent
  <2>2. RoomKept(j)'
    <3>1. job'[j] = J
      BY <1>6 DEF Goto, SeatsInv, TypeOK
    <3>2. QED
      BY <1>4, <3>1 DEF RoomKept
  <2>3. evLock' = j /\ \A i \in Jobs \ {j} : job[i].rows \cap J.rows = {}
    BY <1>1, <1>4, <1>6, FreeRow
  <2>4. UNCHANGED <<rowVars, eventVars>> /\ evLock' \in Jobs \cup {None}
    BY <1>3, <2>3
  <2> HIDE DEF m
  <2>5. QED
    BY <1>1, <1>4, <1>6, <2>1, <2>2, <2>3, <2>4, JobStep
<1>7. QED
  BY <1>3, <1>5, <1>6

LEMMA SaveLockInv ==
  ASSUME SeatsInv, NEW j \in Jobs, NEW c \in Capacities, SaveLock(j, c)
  PROVE  SeatsInv' /\ NobodySeated
<1> DEFINE n == IF AcceptsPromotion THEN Cardinality(Members) ELSE 0
           P == Promoting(None, None, n)
           J == [P EXCEPT !.newcap = c]
<1>0. n \in Nat
  BY SubsetCount
<1> HIDE DEF n
<1>1. P \in JobType /\ P.pc = "promote" /\ P.won = {} /\ P.rows = {} /\ P.cancels = FALSE
  <2>1. None \in Members \cup {None} /\ None \in DOMAIN PoolCap \cup {None}
    OBVIOUS
  <2>2. QED
    BY <1>0, <2>1, IdleFacts DEF P, Promoting, JobType, Pcs
<1>2. /\ Goto(j, J) /\ evLock = None /\ evLock' = j /\ UNCHANGED <<rowVars, eventVars>>
      /\ moves' = moves + 1
  BY DEF SaveLock, Disturb, n
<1> HIDE DEF P
<1>3. J \in JobType /\ J.pc = "promote" /\ J.won = {} /\ J.rows = {} /\ J.cancels = FALSE
  BY <1>1 DEF JobType
<1> HIDE DEF J
<1>4. Knows(J)
  BY <1>3 DEF Knows
<1>5. moves' \in Nat
  BY <1>2 DEF SeatsInv, TypeOK
<1>6. QED
  BY <1>2, <1>3, <1>4, <1>5, LockingStep

LEMMA OfferLockInv ==
  ASSUME SeatsInv, NEW j \in Jobs, OfferLock(j)
  PROVE  SeatsInv' /\ NobodySeated
<1> DEFINE P == Promoting(None, job[j].first, 1)
<1>1. P \in JobType /\ P.pc = "promote" /\ P.won = {} /\ P.rows = {} /\ P.cancels = FALSE
  <2>1. /\ None \in Members \cup {None} /\ 1 \in Nat
        /\ job[j].first \in DOMAIN PoolCap \cup {None}
    BY DEF SeatsInv, TypeOK, JobType
  <2>2. QED
    BY <2>1, IdleFacts DEF P, Promoting, JobType, Pcs
<1>2. /\ ~MayHoldEvent(job[j]) /\ evLock = None /\ UNCHANGED <<rowVars, eventVars, moves>>
      /\ (Goto(j, P) /\ evLock' = j) \/ (Finish(j) /\ UNCHANGED evLock)
  BY DEF OfferLock, Deciding, MayHoldEvent
<1> HIDE DEF P
<1>3. CASE Goto(j, P) /\ evLock' = j
  <2>1. Knows(P)
    BY <1>1 DEF Knows
  <2>2. moves' \in Nat
    BY <1>2 DEF SeatsInv, TypeOK
  <2>3. QED
    BY <1>1, <1>2, <1>3, <2>1, <2>2, LockingStep
<1>4. CASE Finish(j) /\ UNCHANGED evLock
  BY <1>2, <1>4, IdleFacts, QuietJobStep DEF Finish
<1>5. QED
  BY <1>2, <1>3, <1>4

LEMMA CrashInv ==
  ASSUME SeatsInv, NEW j \in Jobs, Crash(j)
  PROVE  SeatsInv' /\ NobodySeated
<1>1. moves' \in Nat
  BY DEF Crash, Disturb, SeatsInv, TypeOK
<1>2. QED
  BY <1>1, GivesUpInv DEF Crash

LEMMA AbortedInv ==
  ASSUME SeatsInv, NEW j \in Jobs, Aborted(j)
  PROVE  SeatsInv' /\ NobodySeated
<1>1. moves' \in Nat
  BY DEF Aborted, SeatsInv, TypeOK
<1>2. QED
  BY <1>1, GivesUpInv DEF Aborted

\* Deciding: the room found under the lock is there for the row decided on.
LEMMA RegisterDecideInv ==
  ASSUME SeatsInv, NEW j \in Jobs, RegisterDecide(j)
  PROVE  SeatsInv' /\ NobodySeated
<1> DEFINE m == job[j].who
           room == HasRoom(Holders, cap, m, job[j].prem)
           row == [reg[m] EXCEPT !.status = IF room THEN AdmittedStatus(reg[m]) ELSE "waitlist"]
           J == [job[j] EXCEPT !.pc = "decided", !.row = row]
<1>1. /\ m \in Members /\ job[j] \in JobType /\ reg[m] \in RegType /\ ~MayHoldEvent(job[j])
      /\ job[j].rows = {}
  BY DEF SeatsInv, LocksOK, Knows, TypeOK, RegisterDecide, Deciding, MayHoldEvent
<1>2. /\ evLock = None /\ UNCHANGED <<rowVars, eventVars, moves>>
      /\ \/ Finish(j) /\ UNCHANGED evLock
         \/ evLock' = j /\ Goto(j, J)
  BY DEF RegisterDecide
<1>3. CASE Finish(j) /\ UNCHANGED evLock
  BY <1>1, <1>2, <1>3, IdleFacts, QuietJobStep DEF Finish
<1>4. CASE evLock' = j /\ Goto(j, J)
  <2>1. /\ row \in RegType /\ (Holds(row) => room)
    <3>1. AdmittedStatus(reg[m]) \in Statuses
      BY <1>1 DEF AdmittedStatus, Statuses, SeatHolding
    <3>2. row \in RegType
      BY <1>1, <3>1 DEF RegType, Statuses
    <3>3. ~room => row.status = "waitlist"
      BY <1>1 DEF RegType
    <3>4. QED
      BY <3>2, <3>3 DEF Holds, SeatHolding
  <2>2. room => /\ Cardinality(Holders) < cap
                /\ GenderLimits => Cardinality(InPool(Holders, Pool[m])) < PoolCap[Pool[m]]
    <3>1. Holders \subseteq Members /\ cap \in Capacities /\ job[j].prem \in BOOLEAN
      BY <1>1 DEF Holders, SeatsInv, TypeOK, JobType
    <3>2. QED
      BY <1>1, <3>1, RoomMeansASeat
  <2> HIDE DEF room, row
  <2>3. J \in JobType /\ J.pc = "decided" /\ J.who = m /\ J.row = row /\ J.rows = job[j].rows
    BY <1>1, <2>1 DEF JobType, Pcs
  <2>4. Knows(J) /\ Deciding(J) /\ MayHoldEvent(J)
    BY <1>1, <2>3 DEF Knows, Deciding, MayHoldEvent
  <2> HIDE DEF J
  <2>5. \A i \in Jobs \ {j} : job[i].rows \cap J.rows = {}
    BY <2>3 DEF SeatsInv, LocksOK
  <2>6. evLock' \in Jobs \cup {None} /\ \A i \in Jobs \ {j} : evLock' = i <=> evLock = i
    BY <1>2, <1>4, SeatsAssumption
  <2>7. moves' \in Nat
    BY <1>2 DEF SeatsInv, TypeOK
  <2>8. RoomKept(j)'
    <3> DEFINE others == Counted' \ {m}
    <3>1. job'[j] = J /\ Counted' = Counted /\ cap' = cap
      BY <1>2, <1>4 DEF Goto, SeatsInv, TypeOK, rowVars, eventVars, historyVars, Counted, Holders
    <3>2. /\ others \subseteq Holders /\ InPool(others, Pool[m]) \subseteq InPool(Holders, Pool[m])
          /\ Holders \subseteq Members /\ InPool(Holders, Pool[m]) \subseteq Members
      BY <3>1 DEF Counted, Holders, InPool
    <3> HIDE DEF others
    <3>3. /\ Cardinality(others) <= Cardinality(Holders)
          /\ Cardinality(others) \in Nat /\ Cardinality(Holders) \in Nat
      BY <3>2, SubsetCount
    <3>4. /\ Cardinality(InPool(others, Pool[m])) <= Cardinality(InPool(Holders, Pool[m]))
          /\ Cardinality(InPool(others, Pool[m])) \in Nat
          /\ Cardinality(InPool(Holders, Pool[m])) \in Nat
      BY <3>2, SubsetCount
    <3>5. cap \in Nat /\ PoolCap[Pool[m]] \in Nat
      BY <1>1, SeatsAssumption DEF SeatsInv, TypeOK
    <3>6. Holds(row) => /\ Cardinality(others) < cap
                        /\ GenderLimits => Cardinality(InPool(others, Pool[m])) < PoolCap[Pool[m]]
      BY <2>1, <2>2, <3>3, <3>4, <3>5
    <3>7. QED
      BY <2>3, <3>1, <3>6 DEF RoomKept, InPool, Holds, others
  <2>9. UNCHANGED <<rowVars, eventVars>>
    BY <1>2
  <2> HIDE DEF m
  <2>10. QED
    BY <1>4, <2>3, <2>4, <2>5, <2>6, <2>7, <2>8, <2>9, JobStep
<1>5. QED
  BY <1>2, <1>3, <1>4

\* Choosing one more of the waitlist leaves everyone chosen within the limits.
LEMMA PickRoom ==
  ASSUME SeatsInv, NEW j \in Jobs, NEW m \in Eligible(j), job[j].pc = "promote",
         UNCHANGED <<reg, byHand, cap>>, job'[j] \in JobType,
         job'[j].pc = "promote", job'[j].won = job[j].won \cup {m},
         job'[j].newcap = job[j].newcap, job'[j].cancels = job[j].cancels,
         job'[j].who = job[j].who
  PROVE  RoomKept(j)'
<1> DEFINE H == SeenHolders(j)
           S == SeenCounted(j)
           T == SeenCounted(j)'
<1>1. /\ m \in Members /\ job[j] \in JobType /\ TypeOK
      /\ HasRoom(H, SeenCap(j), m, Premium(m))
  BY DEF Eligible, SeenWaiting, SeatsInv, TypeOK
<1>2. H \subseteq Members /\ S \subseteq H
  BY DEF SeenHolders, SeenCounted
<1>3. SeenCap(j) \in Capacities /\ SeenCap(j) \in Nat /\ SeenCap(j)' = SeenCap(j)
  BY <1>1, SeatsAssumption DEF SeenCap, TypeOK, JobType
<1>4. /\ Cardinality(H) < SeenCap(j)
      /\ GenderLimits => Cardinality(InPool(H, Pool[m])) < PoolCap[Pool[m]]
  BY <1>1, <1>2, <1>3, RoomMeansASeat DEF Premium
<1>5. T \subseteq S \cup {m}
  <2>1. \A k \in Members \ {m} : Seen(j, k)' = Seen(j, k)
    BY DEF Seen, AdmittedStatus
  <2>2. QED
    BY <2>1 DEF SeenCounted, SeenHolders, Holds
<1> HIDE DEF H, S, T
<1>6. /\ Cardinality(T) <= Cardinality(H) + 1 /\ Cardinality(T) \in Nat /\ Cardinality(H) \in Nat
  <2>1. T \in SUBSET (H \cup {m}) /\ T \subseteq Members
    BY <1>1, <1>2, <1>5
  <2>2. QED
    BY <1>1, <1>2, <2>1, OneMoreSeat, SubsetCount
<1>7. Cardinality(T) <= SeenCap(j)
  BY <1>3, <1>4, <1>6
<1>8. ASSUME NEW k \in job[j].won \cup {m}, GenderLimits
      PROVE  Cardinality(InPool(T, Pool[k])) <= PoolCap[Pool[k]]
  <2>1. k \in Members /\ PoolCap[Pool[k]] \in Nat
    BY <1>1, SeatsAssumption DEF JobType
  <2>2. CASE Pool[k] = Pool[m]
    <3> DEFINE A == InPool(H, Pool[m])
               B == InPool(T, Pool[m])
    <3>1. A \subseteq Members /\ B \subseteq A \cup {m} /\ B \subseteq Members
      BY <1>1, <1>2, <1>5 DEF InPool
    <3>2. Cardinality(A) < PoolCap[Pool[m]]
      BY <1>4, <1>8
    <3> HIDE DEF A, B
    <3>3. Cardinality(B) <= Cardinality(A) + 1 /\ Cardinality(B) \in Nat /\ Cardinality(A) \in Nat
      BY <1>1, <3>1, OneMoreSeat, SubsetCount
    <3>4. QED
      BY <2>1, <2>2, <3>2, <3>3 DEF B
  <2>3. CASE Pool[k] # Pool[m]
    <3> DEFINE A == InPool(S, Pool[k])
               B == InPool(T, Pool[k])
    <3>1. A \subseteq Members /\ B \subseteq A
      BY <1>2, <1>5, <2>3 DEF InPool
    <3>2. Cardinality(A) <= PoolCap[Pool[k]]
      <4>1. k \in job[j].won
        BY <2>3
      <4>2. QED
        BY <4>1, <1>8 DEF SeatsInv, RoomKept, S
    <3> HIDE DEF A, B
    <3>3. Cardinality(B) <= Cardinality(A) /\ Cardinality(B) \in Nat /\ Cardinality(A) \in Nat
      BY <3>1, SubsetCount
    <3>4. QED
      BY <2>1, <3>2, <3>3 DEF B
  <2>4. QED
    BY <2>2, <2>3
<1>9. QED
  BY <1>3, <1>7, <1>8 DEF RoomKept, InPool, T

LEMMA PickInv ==
  ASSUME SeatsInv, NEW j \in Jobs, Pick(j)
  PROVE  SeatsInv' /\ NobodySeated
<1> DEFINE J0 == [job[j] EXCEPT !.left = 0]
           J1(m) == [job[j] EXCEPT !.left = @ - 1, !.won = @ \cup {m},
                                   !.rows = @ \cup SeenWaiting(j)]
<1>1. /\ job[j] \in JobType /\ job[j].pc = "promote" /\ job[j].left > 0 /\ evLock = j
      /\ Knows(job[j]) /\ evLock' = j /\ moves' \in Nat
  BY DEF SeatsInv, TypeOK, LocksOK, Pick, Deciding
<1>2. /\ UNCHANGED <<rowVars, eventVars>> /\ UNCHANGED <<reg, byHand, cap>>
      /\ Goto(j, J0) \/ \E m \in Eligible(j) : Goto(j, J1(m))
  BY DEF Pick, rowVars, eventVars, historyVars, EarliestOf, Preferred
<1>3. \A i \in Jobs \ {j} : job[i].rows \cap SeenWaiting(j) = {}
  BY DEF Pick, RowsFree
<1>4. \A i \in Jobs \ {j} : job[i].rows \cap job[j].rows = {}
  BY DEF SeatsInv, LocksOK
<1>5. CASE Goto(j, J0)
  <2>1. /\ J0 \in JobType /\ J0.pc = "promote" /\ J0.won = job[j].won /\ J0.rows = job[j].rows
        /\ J0.cancels = job[j].cancels /\ J0.who = job[j].who /\ J0.newcap = job[j].newcap
    BY <1>1 DEF JobType
  <2> HIDE DEF J0
  <2>2. Knows(J0) /\ Deciding(J0) /\ MayHoldEvent(J0)
    BY <1>1, <2>1 DEF Knows, Deciding, MayHoldEvent
  <2>3. RoomKept(j)'
    <3>1. job'[j] = J0
      BY <1>5 DEF Goto, SeatsInv, TypeOK
    <3>2. SeenCap(j)' = SeenCap(j) /\ \A k \in Members : Seen(j, k)' = Seen(j, k)
      BY <1>2, <2>1, <3>1 DEF SeenCap, Seen, AdmittedStatus
    <3>3. SeenCounted(j)' = SeenCounted(j)
      BY <1>2, <3>2 DEF SeenCounted, SeenHolders, Holds
    <3>4. RoomKept(j)
      BY DEF SeatsInv
    <3>5. QED
      BY <1>1, <2>1, <3>1, <3>2, <3>3, <3>4 DEF RoomKept, InPool
  <2>4. QED
    BY <1>1, <1>2, <1>4, <1>5, <2>1, <2>2, <2>3, JobStep
<1>6. CASE \E m \in Eligible(j) : Goto(j, J1(m))
  <2>1. PICK m \in Eligible(j) : Goto(j, J1(m))
    BY <1>6
  <2> DEFINE J == J1(m)
  <2>2. m \in SeenWaiting(j) /\ SeenWaiting(j) \subseteq Members
    BY DEF Eligible, SeenWaiting
  <2>3. /\ J \in JobType /\ J.pc = "promote" /\ J.won = job[j].won \cup {m}
        /\ J.rows = job[j].rows \cup SeenWaiting(j)
        /\ J.cancels = job[j].cancels /\ J.who = job[j].who /\ J.newcap = job[j].newcap
    <3> DEFINE left == job[j].left - 1
               won == job[j].won \cup {m}
               rows == job[j].rows \cup SeenWaiting(j)
    <3>1. left \in Nat /\ won \in SUBSET Members /\ rows \in SUBSET Members
      BY <1>1, <2>2 DEF JobType
    <3>2. J = [job[j] EXCEPT !.left = left, !.won = won, !.rows = rows]
      OBVIOUS
    <3> HIDE DEF J, J0, J1, left, won, rows
    <3>3. /\ J \in JobType /\ J.pc = "promote" /\ J.won = won /\ J.rows = rows
          /\ J.cancels = job[j].cancels /\ J.who = job[j].who /\ J.newcap = job[j].newcap
      BY <1>1, <3>1, <3>2 DEF JobType
    <3>4. QED
      BY <3>3 DEF won, rows
  <2>4. Goto(j, J)
    BY <2>1
  <2> HIDE DEF J
  <2>5. Knows(J) /\ Deciding(J) /\ MayHoldEvent(J)
    BY <1>1, <2>2, <2>3 DEF Knows, Deciding, MayHoldEvent
  <2>6. job'[j] = J
    BY <2>4 DEF Goto, SeatsInv, TypeOK
  <2>7. RoomKept(j)'
    BY <1>1, <1>2, <2>3, <2>6, PickRoom
  <2>8. \A i \in Jobs \ {j} : job[i].rows \cap J.rows = {}
    BY <1>3, <1>4, <2>3
  <2>9. QED
    BY <1>1, <1>2, <2>3, <2>4, <2>5, <2>7, <2>8, JobStep
<1>7. QED
  BY <1>2, <1>5, <1>6

-----------------------------------------------------------------------------
(* Rows written by hand *)

LEMMA SaveFacts ==
  ASSUME TypeOK, NEW m \in Members, NEW row \in RegType, Save(m, row)
  PROVE  /\ reg' \in [Members -> RegType] /\ reg'[m] = row
         /\ \A k \in Members \ {m} : reg'[k] = reg[k]
  BY DEF TypeOK, Save

\* One row is written that no deciding request has locked.
LEMMA SaveByHand ==
  ASSUME SeatsInv, NEW m \in Members, NEW row \in RegType, Save(m, row),
         NEW hand, History(hand), Holds(row) => Holds(reg[m]) \/ m \in hand,
         UNCHANGED <<ahead, eventVars>>, evLock' \in Jobs \cup {None}, moves' \in Nat,
         coach' \in [Members -> Coaches], job' \in [Jobs -> JobType], LocksOK',
         \A i \in Jobs : \/ ~Deciding(job'[i])
                         \/ job'[i] = job[i] /\ m \notin job[i].rows
  PROVE  SeatsInv' /\ NobodySeated
<1>1. TypeOK
  BY DEF SeatsInv
<1>2. /\ reg' \in [Members -> RegType] /\ reg'[m] = row
      /\ \A k \in Members \ {m} : reg'[k] = reg[k]
  BY <1>1, SaveFacts
<1>3. TypeOK'
  <2>1. /\ byHand' \subseteq Members
        /\ before' \in [Members -> [status : Statuses, coach : Coaches]]
    BY <1>1, <1>2, HistoryType
  <2>2. QED
    BY <1>1, <1>2, <2>1 DEF TypeOK, eventVars
<1>4. cap' = cap
  BY DEF eventVars
<1>5. \A k \in Members : Holds(reg'[k]) /\ ~Holds(reg[k]) => k \in hand
  BY <1>2
<1>6. ASSUME NEW i \in Jobs
      PROVE  \/ ~Deciding(job'[i])
             \/ job'[i] = job[i] /\ \A k \in job[i].rows : reg'[k] = reg[k]
  <2>1. job[i].rows \subseteq Members
    BY <1>1 DEF TypeOK, JobType
  <2>2. QED
    BY <1>2, <2>1
<1>7. QED
  BY <1>3, <1>4, <1>5, <1>6, HandStep

\* ... by somebody who holds no request.
LEMMA SaveOutside ==
  ASSUME SeatsInv, NEW m \in Members, NEW row \in RegType, Save(m, row), RowFree(m),
         NEW hand, History(hand), Holds(row) => Holds(reg[m]) \/ m \in hand,
         UNCHANGED <<ahead, eventVars, evLock, job>>, moves' \in Nat,
         coach' \in [Members -> Coaches]
  PROVE  SeatsInv' /\ NobodySeated
<1>1. job' \in [Jobs -> JobType] /\ LocksOK' /\ \A i \in Jobs : job'[i] = job[i]
  BY DEF SeatsInv, TypeOK, LocksOK, Deciding, MayHoldEvent, Knows
<1>2. \A i \in Jobs : m \notin job[i].rows
  BY DEF RowFree
<1>3. UNCHANGED <<ahead, eventVars>> /\ evLock' \in Jobs \cup {None}
  BY DEF SeatsInv, TypeOK
<1>4. QED
  BY <1>1, <1>2, <1>3, SaveByHand

\* A request at the door writes the row it holds and ends.
LEMMA DoorCommit ==
  ASSUME SeatsInv, NEW j \in Jobs, job[j].pc \in {"attend", "undo"},
         NEW row \in RegType, Save(job[j].who, row), History({job[j].who}), Finish(j),
         LeaveEvent(j), UNCHANGED <<ahead, eventVars, moves>>, coach' \in [Members -> Coaches]
  PROVE  SeatsInv' /\ NobodySeated
<1> DEFINE m == job[j].who
<1>1. /\ m \in Members /\ job[j].rows = {m} /\ ~Deciding(job[j]) /\ moves' \in Nat
      /\ TypeOK /\ LocksOK /\ Goto(j, IdleJob)
  BY DEF SeatsInv, LocksOK, Knows, Deciding, TypeOK, Finish
<1>2. /\ job' \in [Jobs -> JobType] /\ job'[j] = IdleJob
      /\ \A i \in Jobs \ {j} : job'[i] = job[i]
  BY <1>1, IdleFacts DEF Goto, TypeOK
<1>3. LocksOK'
  <2>1. evLock' # j /\ \A i \in Jobs \ {j} : evLock' = i <=> evLock = i
    BY SeatsAssumption DEF LeaveEvent
  <2>2. QED
    BY <1>1, <2>1, IdleFacts, LocksStep
<1>4. \A i \in Jobs : \/ ~Deciding(job'[i])
                      \/ job'[i] = job[i] /\ m \notin job[i].rows
  BY <1>1, <1>2, IdleFacts DEF LocksOK
<1>5. UNCHANGED <<ahead, eventVars>> /\ evLock' \in Jobs \cup {None}
  BY <1>1 DEF TypeOK, LeaveEvent
<1>6. QED
  BY <1>1, <1>2, <1>3, <1>4, <1>5, SaveByHand

LEMMA GrantedType ==
  ASSUME TypeOK, NEW m \in Members, NEW saw \in Coaches
  PROVE  Granted(m, saw) \in [Members -> Coaches]
  BY DEF Granted, TypeOK, Coaches

LEMMA AttendCommitInv ==
  ASSUME SeatsInv, NEW j \in Jobs, AttendCommit(j)
  PROVE  SeatsInv' /\ NobodySeated
<1> DEFINE m == job[j].who
<1>1. m \in Members /\ TypeOK /\ job[j].saw \in Coaches /\ reg[m] \in RegType
  BY DEF SeatsInv, LocksOK, Knows, AttendCommit, TypeOK, JobType
<1>2. Attended(m, job[j].saw) \in RegType
  BY <1>1 DEF Attended, RegType, Statuses, SeatHolding
<1>3. coach' \in [Members -> Coaches]
  BY <1>1, GrantedType DEF AttendCommit
<1>4. QED
  BY <1>2, <1>3, DoorCommit DEF AttendCommit

LEMMA UndoCommitInv ==
  ASSUME SeatsInv, NEW j \in Jobs, UndoCommit(j)
  PROVE  SeatsInv' /\ NobodySeated
<1> DEFINE m == job[j].who
           row == [NoReg EXCEPT !.status = Restored(reg[m]), !.paid = reg[m].paid]
<1>1. m \in Members /\ TypeOK /\ reg[m] \in RegType
  BY DEF SeatsInv, LocksOK, Knows, UndoCommit, TypeOK
<1>2. Restored(reg[m]) \in Statuses /\ reg[m].paid \in BOOLEAN
  BY <1>1 DEF Restored, RegType, Statuses, SeatHolding
<1>3. row \in RegType
  BY <1>2, IdleFacts DEF RegType
<1>4. coach' \in [Members -> Coaches]
  BY <1>1 DEF UndoCommit, TypeOK, Coaches
<1>5. LeaveEvent(j)
  BY DEF UndoCommit, LeaveEvent, SeatsInv, LocksOK, Deciding, MayHoldEvent
<1>6. QED
  BY <1>3, <1>4, <1>5, DoorCommit DEF UndoCommit

LEMMA StaffRowType ==
  ASSUME TypeOK, NEW m \in Members, NEW s \in Statuses, NEW p \in BOOLEAN
  PROVE  StaffRow(m, s, p) \in RegType
<1>1. reg[m] \in RegType /\ "confirmed" \in Statuses
  BY DEF TypeOK, Statuses, SeatHolding
<1>2. QED
  BY <1>1 DEF StaffRow, RegType

LEMMA PaymentLandsInv ==
  ASSUME SeatsInv, NEW m \in Members, PaymentLands(m)
  PROVE  SeatsInv' /\ NobodySeated
<1> DEFINE row == [reg[m] EXCEPT !.paid = TRUE,
                                 !.status = IF @ = "attended" THEN @ ELSE "confirmed"]
<1>1. reg[m] \in RegType /\ coach' \in [Members -> Coaches] /\ moves' \in Nat
  BY DEF SeatsInv, TypeOK, PaymentLands
<1>2. row \in RegType
  BY <1>1 DEF RegType, Statuses, SeatHolding
<1>3. /\ Holds(reg[m]) /\ Save(m, row) /\ RowFree(m) /\ History({})
      /\ UNCHANGED <<ahead, eventVars, evLock, job>>
  BY DEF PaymentLands
<1> HIDE DEF row
<1>4. QED
  BY <1>1, <1>2, <1>3, SaveOutside

LEMMA StaffRecordsCashInv ==
  ASSUME SeatsInv, NEW m \in Members, StaffRecordsCash(m)
  PROVE  SeatsInv' /\ NobodySeated
<1> DEFINE row == StaffRow(m, reg[m].status, TRUE)
<1>1. reg[m] \in RegType /\ TypeOK /\ coach' \in [Members -> Coaches] /\ moves' \in Nat
  BY DEF SeatsInv, TypeOK, StaffRecordsCash, Disturb
<1>2. row \in RegType
  BY <1>1, StaffRowType DEF RegType
<1>3. Holds(row) => Holds(reg[m])
  BY <1>1 DEF StaffRow, RegType, Holds, SeatHolding
<1>4. /\ Save(m, row) /\ RowFree(m) /\ History({}) /\ UNCHANGED <<ahead, eventVars, evLock, job>>
  BY DEF StaffRecordsCash
<1> HIDE DEF row
<1>5. QED
  BY <1>1, <1>2, <1>3, <1>4, SaveOutside

LEMMA StaffSetsInv ==
  ASSUME SeatsInv, NEW m \in Members, NEW s \in Statuses, StaffSets(m, s)
  PROVE  SeatsInv' /\ NobodySeated
<1> DEFINE was == StaffRow(m, s, reg[m].paid)
           row == [was EXCEPT !.granted = @ \/ (s = "attended" /\ coach[m] = "none")]
<1>1. /\ reg[m].paid \in BOOLEAN /\ coach[m] \in Coaches /\ TypeOK /\ moves' \in Nat
  BY DEF SeatsInv, TypeOK, StaffSets, Disturb, RegType
<1>2. was \in RegType
  BY <1>1, StaffRowType
<1>3. /\ Save(m, row) /\ RowFree(m) /\ History({m})
      /\ UNCHANGED <<ahead, eventVars, evLock, job>>
      /\ coach' = IF s = "attended" THEN Granted(m, coach[m]) ELSE coach
  BY DEF StaffSets
<1>4. coach' \in [Members -> Coaches]
  BY <1>1, <1>3, GrantedType DEF TypeOK
<1> HIDE DEF was
<1>5. row \in RegType
  BY <1>2 DEF RegType
<1> HIDE DEF row
<1>6. QED
  BY <1>1, <1>3, <1>4, <1>5, SaveOutside

LEMMA StaffCancelsInv ==
  ASSUME SeatsInv, NEW j \in Jobs, NEW m \in Members, StaffCancels(j, m)
  PROVE  SeatsInv' /\ NobodySeated
<1> DEFINE row == StaffRow(m, "cancelled", reg[m].paid)
           J == IF AcceptsPromotion THEN [IdleJob EXCEPT !.pc = "offer", !.first = Pool[m]]
                ELSE job[j]
<1>1. /\ reg[m] \in RegType /\ TypeOK /\ LocksOK /\ job[j] \in JobType /\ Knows(job[j])
      /\ coach' \in [Members -> Coaches] /\ moves' \in Nat /\ job[j].pc = "idle"
  BY DEF SeatsInv, TypeOK, LocksOK, StaffCancels, Disturb
<1>2. row \in RegType /\ ~Holds(row)
  <2>1. row \in RegType
    BY <1>1, StaffRowType DEF RegType, Statuses
  <2>2. row.status = "cancelled"
    BY <1>1 DEF StaffRow, RegType
  <2>3. QED
    BY <2>1, <2>2 DEF Holds, SeatHolding
<1>3. J \in JobType /\ Knows(J) /\ ~Deciding(J) /\ J.rows \subseteq job[j].rows
  <2>1. CASE AcceptsPromotion
    <3>1. /\ J \in JobType /\ J.pc = "offer" /\ J.rows = {}
      BY <2>1, IdleFacts, SeatsAssumption DEF JobType, Pcs
    <3>2. QED
      BY <3>1 DEF Knows, Deciding
  <2>2. CASE ~AcceptsPromotion
    BY <1>1, <2>2 DEF Deciding
  <2>3. QED
    BY <2>1, <2>2
<1>4. /\ Save(m, row) /\ RowFree(m) /\ History({}) /\ UNCHANGED <<ahead, eventVars, evLock>>
      /\ evLock' = evLock
  BY DEF StaffCancels
<1>5. Goto(j, J)
  BY <1>1 DEF StaffCancels, Goto, TypeOK
<1> HIDE DEF row, J
<1>6. LocksOK'
  <2>1. ~MayHoldEvent(job[j])
    BY <1>1 DEF Deciding, MayHoldEvent
  <2>2. /\ \A i \in Jobs \ {j} : job[i].rows \cap J.rows = {}
        /\ evLock' # j
    BY <1>1, <1>3, <1>4, <2>1 DEF LocksOK
  <2>3. QED
    BY <1>1, <1>3, <1>4, <1>5, <2>2, LocksStep
<1>7. /\ job' \in [Jobs -> JobType]
      /\ \A i \in Jobs : ~Deciding(job'[i]) \/ (job'[i] = job[i] /\ m \notin job[i].rows)
  BY <1>1, <1>3, <1>4, <1>5 DEF Goto, TypeOK, RowFree
<1>8. UNCHANGED <<ahead, eventVars>> /\ evLock' \in Jobs \cup {None}
  BY <1>1, <1>4 DEF TypeOK
<1>9. QED
  BY <1>1, <1>2, <1>4, <1>6, <1>7, <1>8, SaveByHand

LEMMA MarkNoShowsInv ==
  ASSUME SeatsInv, MarkNoShows
  PROVE  SeatsInv' /\ NobodySeated
<1>1. /\ reg' = [m \in Members |->
                   IF reg[m].status \in {"confirmed", "pending"}
                   THEN [reg[m] EXCEPT !.status = "no_show"] ELSE reg[m]]
      /\ History({}) /\ UNCHANGED <<ahead, coach, eventVars, evLock, job>>
      /\ moves' = moves + 1
      /\ \A m \in Members : reg[m].status \in {"confirmed", "pending"} => RowFree(m)
  BY DEF MarkNoShows, Disturb
<1>2. TypeOK /\ LocksOK
  BY DEF SeatsInv
<1>3. \A m \in Members : /\ reg[m] \in RegType
                         /\ [reg[m] EXCEPT !.status = "no_show"] \in RegType
                         /\ ~Holds([reg[m] EXCEPT !.status = "no_show"])
  BY <1>2 DEF TypeOK, RegType, Statuses, SeatHolding, Holds
<1>4. reg' \in [Members -> RegType]
  BY <1>1, <1>3
<1>5. TypeOK'
  <2>1. /\ byHand' \subseteq Members
        /\ before' \in [Members -> [status : Statuses, coach : Coaches]]
    BY <1>1, <1>2, <1>4, HistoryType
  <2>2. QED
    BY <1>1, <1>2, <1>4, <2>1 DEF TypeOK, eventVars
<1>6. LocksOK'
  BY <1>1, <1>2 DEF LocksOK, Deciding, MayHoldEvent, Knows
<1>7. \A k \in Members : Holds(reg'[k]) => Holds(reg[k])
  BY <1>1, <1>3
<1>8. \A i \in Jobs : job'[i] = job[i] /\ \A k \in job[i].rows : reg'[k] = reg[k]
  <2> SUFFICES ASSUME NEW i \in Jobs, NEW k \in job[i].rows PROVE reg'[k] = reg[k]
    BY <1>1
  <2>1. k \in Members
    BY <1>2 DEF TypeOK, JobType
  <2>2. ~RowFree(k)
    BY DEF RowFree
  <2>3. QED
    BY <1>1, <2>1, <2>2
<1>9. cap' = cap
  BY <1>1 DEF eventVars
<1>10. QED
  BY <1>1, <1>5, <1>6, <1>7, <1>8, <1>9, HandStep

-----------------------------------------------------------------------------
(* Everything else but the commits *)

LEMMA CoachAssignedInv ==
  ASSUME SeatsInv, NEW m \in Members, CoachAssigned(m)
  PROVE  SeatsInv' /\ NobodySeated
<1>1. TypeOK'
  <2>1. moves' = moves + 1 /\ coach' = [coach EXCEPT ![m] = "own"] /\ "own" \in Coaches
    BY DEF CoachAssigned, Disturb, Coaches
  <2>2. UNCHANGED <<reg, ahead, byHand, before, cap, on, stage, evLock, job>>
    BY DEF CoachAssigned, historyVars, eventVars
  <2>3. QED
    BY <2>1, <2>2 DEF SeatsInv, TypeOK
<1>2. UNCHANGED <<reg, byHand, cap, evLock, job>>
  BY DEF CoachAssigned, historyVars, eventVars
<1>3. QED
  BY <1>1, <1>2, OtherStep

LEMMA EventOffInv ==
  ASSUME SeatsInv, EventOff
  PROVE  SeatsInv' /\ NobodySeated
<1>1. TypeOK'
  <2>1. moves' = moves + 1 /\ on' \in BOOLEAN
    BY DEF EventOff, Disturb
  <2>2. UNCHANGED <<reg, ahead, coach, byHand, before, cap, stage, evLock, job>>
    BY DEF EventOff, rowVars, historyVars
  <2>3. QED
    BY <2>1, <2>2 DEF SeatsInv, TypeOK
<1>2. UNCHANGED <<reg, byHand, cap, evLock, job>>
  BY DEF EventOff, rowVars, historyVars
<1>3. QED
  BY <1>1, <1>2, OtherStep

LEMMA TimePassesInv ==
  ASSUME SeatsInv, TimePasses
  PROVE  SeatsInv' /\ NobodySeated
<1>1. TypeOK'
  BY DEF SeatsInv, TypeOK, TimePasses, rowVars, historyVars, Stages
<1>2. UNCHANGED <<reg, byHand, cap, evLock, job>>
  BY DEF TimePasses, rowVars, historyVars
<1>3. QED
  BY <1>1, <1>2, OtherStep

LEMMA StutterInv ==
  ASSUME SeatsInv, UNCHANGED vars
  PROVE  SeatsInv' /\ NobodySeated
<1>1. TypeOK' /\ UNCHANGED <<reg, byHand, cap, evLock, job>>
  BY DEF SeatsInv, TypeOK, vars
<1>2. QED
  BY <1>1, OtherStep

-----------------------------------------------------------------------------
(* The two commits *)

\* A step that seats somebody by the rules leaves the event and their pool
\* within the limits.
WithinLimits ==
    /\ NewlySeated # {} => Cardinality(Counted') <= cap'
    /\ GenderLimits => \A m \in NewlySeated :
          Cardinality(InPool(Counted', Pool[m])) <= PoolCap[Pool[m]]

LEMMA RegisterCommitInv ==
  ASSUME SeatsInv, NEW j \in Jobs, RegisterCommit(j)
  PROVE  SeatsInv' /\ WithinLimits
<1> DEFINE m == job[j].who
           row == job[j].row
<1>1. /\ m \in Members /\ job[j] \in JobType /\ row \in RegType /\ TypeOK
      /\ job[j].pc = "decided" /\ Deciding(job[j]) /\ RoomKept(j)
  BY DEF SeatsInv, LocksOK, Knows, TypeOK, JobType, RegisterCommit, Deciding
<1>2. /\ Save(m, row) /\ ahead' = ToTheBack(m) /\ evLock' = None /\ Finish(j)
      /\ History({}) /\ coach' = coach /\ cap' = cap /\ on' = on /\ stage' = stage
      /\ moves' = moves
  BY DEF RegisterCommit, eventVars
<1>3. /\ reg' \in [Members -> RegType] /\ reg'[m] = row
      /\ \A k \in Members \ {m} : reg'[k] = reg[k]
  BY <1>1, <1>2, SaveFacts
<1>4. TypeOK'
  <2>1. ahead' \subseteq Members \X Members
    BY <1>1, <1>2 DEF ToTheBack, TypeOK
  <2>2. job' \in [Jobs -> JobType]
    BY <1>1, <1>2, IdleFacts DEF Finish, Goto, TypeOK
  <2>3. /\ byHand' \subseteq Members
        /\ before' \in [Members -> [status : Statuses, coach : Coaches]]
    BY <1>1, <1>2, <1>3, HistoryType
  <2>4. QED
    BY <1>1, <1>2, <1>3, <2>1, <2>2, <2>3 DEF TypeOK
<1>5. SeatsInv'
  BY <1>1, <1>2, <1>4, CommitStep
<1>6. Counted' \subseteq (Counted \ {m}) \cup {m} /\ NewlySeated \subseteq {m}
      /\ (NewlySeated # {} => Holds(row))
  BY <1>2, <1>3 DEF History, NewlySeated, Counted, Holders, Holds, SeatsInv
<1>7. ASSUME NewlySeated # {}
      PROVE  /\ Cardinality(Counted') <= cap
             /\ GenderLimits => Cardinality(InPool(Counted', Pool[m])) <= PoolCap[Pool[m]]
  <2> DEFINE others == Counted \ {m}
             p == Pool[m]
             A == InPool(others, p)
             B == InPool(Counted', p)
  <2>1. /\ Cardinality(others) < cap
        /\ GenderLimits => Cardinality(A) < PoolCap[p]
    BY <1>1, <1>6, <1>7 DEF RoomKept
  <2>2. /\ others \subseteq Members /\ A \subseteq Members /\ Counted' \subseteq others \cup {m}
        /\ Counted' \subseteq Members /\ B \subseteq Members /\ B \subseteq A \cup {m}
    BY <1>1, <1>6 DEF Counted, Holders, InPool
  <2>3. cap \in Nat /\ PoolCap[p] \in Nat
    BY <1>1, SeatsAssumption DEF TypeOK
  <2> HIDE DEF m, others, A, B
  <2>4. m \in Members
    BY <1>1
  <2>5. /\ Cardinality(Counted') <= Cardinality(others) + 1
        /\ Cardinality(Counted') \in Nat /\ Cardinality(others) \in Nat
    BY <2>2, <2>4, OneMoreSeat, SubsetCount
  <2>6. /\ Cardinality(B) <= Cardinality(A) + 1
        /\ Cardinality(B) \in Nat /\ Cardinality(A) \in Nat
    BY <2>2, <2>4, OneMoreSeat, SubsetCount
  <2>7. QED
    BY <2>1, <2>3, <2>5, <2>6 DEF B
<1>8. WithinLimits
  <2> SUFFICES ASSUME NewlySeated # {} PROVE WithinLimits
    BY DEF WithinLimits
  <2>1. NewlySeated = {m}
    BY <1>6
  <2>2. QED
    BY <1>2, <1>7, <2>1 DEF WithinLimits
<1>9. QED
  BY <1>5, <1>8

\* What a promotion writes is what it saw; whom it seats, it chose.
LEMMA CommitSees ==
  ASSUME TypeOK, NEW j \in Jobs, PromoteCommit(j)
  PROVE  Counted' = SeenCounted(j) /\ NewlySeated \subseteq job[j].won
<1>1. Counted' = SeenCounted(j)
  <2>1. Holders' = SeenHolders(j)
    BY DEF PromoteCommit, Holders, SeenHolders, Holds
  <2>2. \A m \in SeenHolders(j) : m \in byHand' <=> m \in byHand
    BY DEF PromoteCommit, History, SeenHolders
  <2>3. QED
    BY <2>1, <2>2 DEF Counted, SeenCounted
<1>2. NewlySeated \subseteq job[j].won
  <2> SUFFICES ASSUME NEW m \in NewlySeated PROVE m \in job[j].won
    OBVIOUS
  <2>1. m \in Members /\ Holds(Seen(j, m)) /\ ~Holds(reg[m])
    BY <1>1 DEF NewlySeated, SeenCounted, SeenHolders, Holders
  <2>2. QED
    BY <2>1, SeenFacts
<1>3. QED
  BY <1>1, <1>2

LEMMA PromoteCommitInv ==
  ASSUME SeatsInv, NEW j \in Jobs, PromoteCommit(j)
  PROVE  SeatsInv' /\ WithinLimits
<1>1. /\ TypeOK /\ job[j] \in JobType /\ job[j].pc = "promote" /\ Deciding(job[j])
      /\ RoomKept(j)
  BY DEF SeatsInv, TypeOK, PromoteCommit, Deciding
<1>2. /\ reg' = [m \in Members |-> Seen(j, m)] /\ cap' = SeenCap(j)
      /\ evLock' = None /\ Finish(j) /\ History({})
      /\ ahead' = ahead /\ coach' = coach /\ on' = on /\ stage' = stage /\ moves' = moves
  BY DEF PromoteCommit
<1>3. reg' \in [Members -> RegType]
  BY <1>1, <1>2, SeenFacts
<1>4. TypeOK'
  <2>1. job' \in [Jobs -> JobType] /\ cap' \in Capacities
    BY <1>1, <1>2, IdleFacts DEF Finish, Goto, TypeOK, SeenCap, JobType
  <2>2. /\ byHand' \subseteq Members
        /\ before' \in [Members -> [status : Statuses, coach : Coaches]]
    BY <1>1, <1>2, <1>3, HistoryType
  <2>3. QED
    BY <1>1, <1>2, <1>3, <2>1, <2>2 DEF TypeOK
<1>5. SeatsInv'
  BY <1>1, <1>2, <1>4, CommitStep
<1>6. Counted' = SeenCounted(j) /\ NewlySeated \subseteq job[j].won
  BY <1>1, CommitSees
<1>7. \A m \in job[j].won :
         /\ Cardinality(SeenCounted(j)) <= SeenCap(j)
         /\ GenderLimits => Cardinality(InPool(SeenCounted(j), Pool[m])) <= PoolCap[Pool[m]]
  BY <1>1 DEF RoomKept
<1>8. WithinLimits
  BY <1>2, <1>6, <1>7 DEF WithinLimits
<1>9. QED
  BY <1>5, <1>8

-----------------------------------------------------------------------------
(* The theorems *)

LEMMA NextInv ==
  ASSUME SeatsInv, [Next]_vars
  PROVE  SeatsInv' /\ (NobodySeated \/ WithinLimits)
<1>1. ASSUME NEW j \in Jobs, Arrival(j) PROVE SeatsInv' /\ NobodySeated
  BY <1>1, RegisterBeginInv, CancelLockInv, CheckinBeginInv, DoorLockInv, SaveLockInv DEF Arrival
<1>2. ASSUME NEW j \in Jobs, Step(j) PROVE SeatsInv' /\ (NobodySeated \/ WithinLimits)
  BY <1>2, RegisterDecideInv, RegisterCommitInv, CancelRowInv, OfferLockInv, PickInv,
     PromoteCommitInv, CheckinLockInv, CheckinEventInv, AttendCommitInv, UndoCommitInv,
     AbortedInv DEF Step
<1>3. ASSUME Surroundings PROVE SeatsInv' /\ NobodySeated
  BY <1>3, PaymentLandsInv, StaffRecordsCashInv, CoachAssignedInv, StaffCancelsInv, StaffSetsInv,
     MarkNoShowsInv, EventOffInv, TimePassesInv, CrashInv DEF Surroundings
<1>4. QED
  BY <1>1, <1>2, <1>3, StutterInv DEF Next

\* The inductive invariant holds.
THEOREM SeatsInvariant == Spec => []SeatsInv
<1>1. SeatsInv /\ [Next]_vars => SeatsInv'
  BY NextInv
<1>2. QED
  BY <1>1, InitInv, PTL DEF Spec

\* Every variable always has its type.
THEOREM SeatsTypeCorrect == Spec => []TypeOK
<1>1. SeatsInv => TypeOK
  BY DEF SeatsInv
<1>2. QED
  BY <1>1, SeatsInvariant, PTL

\* Row locks are taken in one order everywhere but at the scanner: of two requests
\* that wait for each other, exactly one scans a ticket and has the member's row.
THEOREM LocksMeetAtTheScanner == Spec => []OnlyScansMeetHeadOn
<1>1. SeatsInv => OnlyScansMeetHeadOn
  <2> SUFFICES ASSUME SeatsInv, NEW j \in Jobs, NEW k \in Jobs, WaitsFor(j, k), WaitsFor(k, j)
               PROVE  (job[j].pc = "scan") # (job[k].pc = "scan")
    BY DEF OnlyScansMeetHeadOn
  <2> DEFINE wantsEvent == {"register", "offer", "scan"}
             hasEvent == {"decided", "cancel", "promote"}
  <2>1. /\ j # k /\ j # None /\ k # None
        /\ job[j].pc \in wantsEvent => evLock = k
        /\ job[k].pc \in wantsEvent => evLock = j
        /\ job[j].pc \in wantsEvent \cup hasEvent \cup {"checkin"}
        /\ job[k].pc \in wantsEvent \cup hasEvent \cup {"checkin"}
    BY SeatsAssumption DEF WaitsFor
  <2>2. /\ job[j].pc \notin wantsEvent => job[k].rows # {}
        /\ job[k].pc \notin wantsEvent => job[j].rows # {}
    BY DEF WaitsFor
  <2>3. \A i \in {j, k} : /\ job[i].pc \in hasEvent => evLock = i
                          /\ evLock = i => job[i].pc \in hasEvent \cup {"attend"}
                          /\ job[i].rows # {} => job[i].pc \in {"promote", "scan", "attend", "undo"}
    BY DEF SeatsInv, LocksOK, Knows, Deciding, MayHoldEvent
  <2>4. CASE job[j].pc \in wantsEvent
    BY <2>1, <2>2, <2>3, <2>4
  <2>5. CASE job[j].pc \notin wantsEvent
    BY <2>1, <2>2, <2>3, <2>5
  <2>6. QED
    BY <2>4, <2>5
<1>2. QED
  BY <1>1, SeatsInvariant, PTL

\* Whatever members, staff, payments and accidents do, no sign-up and no
\* promotion seats anyone beyond max_participants.
THEOREM SeatsWithinCapacity == Spec => AdmittedWithinCapacity
<1>1. SeatsInv /\ [Next]_vars => [NewlySeated # {} => Cardinality(Counted') <= cap']_vars
  <2> SUFFICES ASSUME SeatsInv, [Next]_vars
               PROVE  NewlySeated # {} => Cardinality(Counted') <= cap'
    OBVIOUS
  <2>1. CASE NobodySeated
    BY <2>1 DEF NobodySeated, NewlySeated, Counted
  <2>2. CASE WithinLimits
    BY <2>2 DEF WithinLimits
  <2>3. QED
    BY <2>1, <2>2, NextInv
<1>2. QED
  BY <1>1, SeatsInvariant, PTL DEF Spec, AdmittedWithinCapacity

\* The same of each gender pool and its limit.
THEOREM SeatsWithinPools == Spec => AdmittedWithinPool
<1> DEFINE A == GenderLimits => \A m \in NewlySeated :
                   Cardinality(InPool(Counted', Pool[m])) <= PoolCap[Pool[m]]
<1>1. SeatsInv /\ [Next]_vars => [A]_vars
  <2> SUFFICES ASSUME SeatsInv, [Next]_vars PROVE A
    OBVIOUS
  <2>1. CASE NobodySeated
    <3>1. NewlySeated = {}
      BY <2>1 DEF NobodySeated, NewlySeated, Counted
    <3>2. QED
      BY <3>1
  <2>2. CASE WithinLimits
    BY <2>2 DEF WithinLimits
  <2>3. QED
    BY <2>1, <2>2, NextInv
<1>2. QED
  BY <1>1, SeatsInvariant, PTL DEF Spec, AdmittedWithinPool

-----------------------------------------------------------------------------
(* Paid rows are not pending again *)

Settled(row) == row.paid => row.status # "pending"

\* PaidNeverPending, made inductive: so is the row of a sign-up about to commit.
PaidInv == /\ \A m \in Members : Settled(reg[m])
           /\ \A j \in Jobs : job[j].pc = "decided" => Settled(job[j].row)

\* No request but a sign-up comes to decide.
NoneDecides == \A i \in Jobs : job'[i].pc = "decided" => job'[i] = job[i]

\* Most steps write no row, and most requests decide on none.
LEMMA PaidKept ==
  ASSUME PaidInv, NoneDecides, \A m \in Members : Settled(reg'[m])
  PROVE  PaidInv'
  BY DEF PaidInv, NoneDecides, Settled

LEMMA GotoDecidesNone ==
  ASSUME TypeOK, NEW j \in Jobs, NEW J, Goto(j, J), J.pc # "decided" \/ J = job[j]
  PROVE  NoneDecides
  BY DEF NoneDecides, Goto, TypeOK

LEMMA FinishDecidesNone ==
  ASSUME TypeOK, NEW j \in Jobs, Finish(j)
  PROVE  NoneDecides
<1>1. IdleJob.pc # "decided"
  BY IdleFacts
<1>2. QED
  BY <1>1, GotoDecidesNone DEF Finish

\* A row saved as settled leaves all rows settled.
LEMMA SaveSettled ==
  ASSUME TypeOK, PaidInv, NEW m \in Members, NEW row, Save(m, row), Settled(row)
  PROVE  \A k \in Members : Settled(reg'[k])
  BY DEF Save, TypeOK, PaidInv

LEMMA ArrivalPaid ==
  ASSUME TypeOK, PaidInv, NEW j \in Jobs, Arrival(j)
  PROVE  PaidInv'
<1>1. \A m \in Members : Settled(reg'[m])
  BY DEF Arrival, RegisterBegin, CancelLock, CheckinBegin, WalkUpLock, UndoLock, SaveLock, PaidInv,
         rowVars
<1>2. NoneDecides
  <2>1. ASSUME NEW m \in Members, RegisterBegin(j, m) PROVE NoneDecides
    <3> DEFINE J == [IdleJob EXCEPT !.pc = "register", !.who = m, !.prem = Premium(m)]
    <3>1. J.pc = "register"
      BY DEF IdleJob
    <3>2. Goto(j, J)
      BY <2>1 DEF RegisterBegin
    <3> HIDE DEF J
    <3>3. QED
      BY <3>1, <3>2, GotoDecidesNone
  <2>2. ASSUME NEW m \in Members, CheckinBegin(j, m) PROVE NoneDecides
    <3> DEFINE J == [IdleJob EXCEPT !.pc = "checkin", !.who = m]
    <3>1. J.pc = "checkin"
      BY DEF IdleJob
    <3>2. Goto(j, J)
      BY <2>2 DEF CheckinBegin
    <3> HIDE DEF J
    <3>3. QED
      BY <3>1, <3>2, GotoDecidesNone
  <2>3. ASSUME NEW m \in Members, CancelLock(j, m) PROVE NoneDecides
    <3> DEFINE J == [IdleJob EXCEPT !.pc = "cancel", !.who = m]
    <3>1. J.pc = "cancel"
      BY DEF IdleJob
    <3>2. Goto(j, J)
      BY <2>3 DEF CancelLock
    <3> HIDE DEF J
    <3>3. QED
      BY <3>1, <3>2, GotoDecidesNone
  <2>4. ASSUME NEW c \in Capacities, SaveLock(j, c) PROVE NoneDecides
    <3> DEFINE J == [Promoting(None, None, IF AcceptsPromotion THEN Cardinality(Members) ELSE 0)
                        EXCEPT !.newcap = c]
    <3>1. J.pc = "promote"
      BY DEF Promoting, IdleJob
    <3>2. Goto(j, J)
      BY <2>4 DEF SaveLock
    <3> HIDE DEF J
    <3>3. QED
      BY <3>1, <3>2, GotoDecidesNone
  <2>5. ASSUME NEW m \in Members, WalkUpLock(j, m) \/ UndoLock(j, m) PROVE NoneDecides
    <3>1. PICK pc \in {"attend", "undo"} : Goto(j, AtDoor(m, pc))
      BY <2>5 DEF WalkUpLock, UndoLock
    <3>2. AtDoor(m, pc).pc # "decided"
      BY DEF AtDoor, IdleJob
    <3>3. QED
      BY <3>1, <3>2, GotoDecidesNone
  <2>6. QED
    BY <2>1, <2>2, <2>3, <2>4, <2>5 DEF Arrival
<1>3. QED
  BY <1>1, <1>2, PaidKept

LEMMA StepPaid ==
  ASSUME SeatsInv, PaidInv, NEW j \in Jobs, Step(j)
  PROVE  PaidInv'
<1> DEFINE m == job[j].who
<1>1. TypeOK /\ job[j] \in JobType
  BY DEF SeatsInv, TypeOK
<1>2. CASE RegisterDecide(j)
  <2> DEFINE row == [reg[m] EXCEPT !.status = IF HasRoom(Holders, cap, m, job[j].prem)
                                              THEN AdmittedStatus(reg[m]) ELSE "waitlist"]
             J == [job[j] EXCEPT !.pc = "decided", !.row = row]
  <2>1. (Finish(j) \/ Goto(j, J)) /\ UNCHANGED rowVars
    BY <1>2 DEF RegisterDecide
  <2>2. \A k \in Members : Settled(reg'[k])
    BY <2>1 DEF PaidInv, rowVars
  <2>3. CASE Finish(j)
    BY <1>1, <2>2, <2>3, FinishDecidesNone, PaidKept
  <2>4. CASE Goto(j, J)
    <3>1. reg[m] \in RegType
      BY <1>1, <1>2 DEF SeatsInv, LocksOK, Knows, RegisterDecide, TypeOK
    <3>2. Settled(row)
      BY <3>1 DEF Settled, RegType, AdmittedStatus
    <3> HIDE DEF row
    <3>3. J.row = row
      BY <1>1 DEF JobType
    <3>4. job'[j] = J /\ \A i \in Jobs \ {j} : job'[i] = job[i]
      BY <1>1, <2>4 DEF Goto, TypeOK
    <3> HIDE DEF J
    <3>5. QED
      BY <2>2, <3>2, <3>3, <3>4 DEF PaidInv, Settled
  <2>5. QED
    BY <2>1, <2>3, <2>4
<1>3. CASE RegisterCommit(j)
  <2>1. m \in Members /\ Settled(job[j].row)
    BY <1>3 DEF RegisterCommit, PaidInv, SeatsInv, LocksOK, Knows
  <2>2. \A k \in Members : Settled(reg'[k])
    BY <1>1, <1>3, <2>1, SaveSettled DEF RegisterCommit
  <2>3. QED
    BY <1>1, <1>3, <2>2, FinishDecidesNone, PaidKept DEF RegisterCommit
<1>4. CASE OfferLock(j)
  <2> DEFINE P == Promoting(None, job[j].first, 1)
  <2>1. P.pc = "promote"
    BY DEF Promoting, IdleJob
  <2>2. (Finish(j) \/ Goto(j, P)) /\ UNCHANGED rowVars
    BY <1>4 DEF OfferLock
  <2> HIDE DEF P
  <2>3. NoneDecides
    BY <1>1, <2>1, <2>2, FinishDecidesNone, GotoDecidesNone
  <2>4. QED
    BY <2>2, <2>3, PaidKept DEF PaidInv, rowVars
<1>5. CASE Pick(j)
  <2> DEFINE J0 == [job[j] EXCEPT !.left = 0]
             J1(k) == [job[j] EXCEPT !.left = @ - 1, !.won = @ \cup {k},
                                     !.rows = @ \cup SeenWaiting(j)]
  <2>1. \E J : Goto(j, J) /\ J.pc # "decided"
    <3>1. job[j].pc = "promote" /\ J0.pc = job[j].pc /\ \A k : J1(k).pc = job[j].pc
      BY <1>1, <1>5 DEF Pick, JobType
    <3>2. Goto(j, J0) \/ \E k : Goto(j, J1(k))
      BY <1>5 DEF Pick
    <3> HIDE DEF J0, J1
    <3>3. QED
      BY <3>1, <3>2
  <2>2. NoneDecides
    BY <1>1, <2>1, GotoDecidesNone
  <2>3. QED
    BY <1>5, <2>2, PaidKept DEF Pick, PaidInv, rowVars
<1>6. CASE PromoteCommit(j)
  <2>1. \A k \in Members : Settled(reg'[k])
    <3> SUFFICES ASSUME NEW k \in Members PROVE Settled(Seen(j, k))
      BY <1>6 DEF PromoteCommit
    <3>1. reg[k] \in RegType /\ Settled(reg[k])
      BY <1>1 DEF TypeOK, PaidInv
    <3>2. Settled([reg[k] EXCEPT !.status = AdmittedStatus(reg[k])])
      BY <3>1 DEF Settled, RegType, AdmittedStatus
    <3>3. Settled([reg[k] EXCEPT !.status = "cancelled"])
      BY <3>1 DEF Settled, RegType
    <3>4. QED
      BY <3>1, <3>2, <3>3 DEF Seen
  <2>2. QED
    BY <1>1, <1>6, <2>1, FinishDecidesNone, PaidKept DEF PromoteCommit
<1>7. CASE CheckinLock(j) \/ CheckinEvent(j)
  <2> DEFINE J == [job[j] EXCEPT !.pc = "scan", !.rows = {m}]
  <2>1. AtDoor(m, "attend").pc # "decided" /\ J.pc # "decided"
    BY <1>1 DEF AtDoor, IdleJob, JobType
  <2>2. Goto(j, J) \/ Finish(j) \/ Goto(j, AtDoor(m, "attend"))
    BY <1>7 DEF CheckinLock, CheckinEvent
  <2> HIDE DEF J
  <2>3. NoneDecides
    BY <1>1, <2>1, <2>2, FinishDecidesNone, GotoDecidesNone
  <2>4. QED
    BY <1>7, <2>3, PaidKept DEF CheckinLock, CheckinEvent, PaidInv, rowVars
<1>8. CASE AttendCommit(j)
  <2>1. m \in Members /\ reg[m] \in RegType
    BY <1>1, <1>8 DEF AttendCommit, SeatsInv, LocksOK, Knows, TypeOK
  <2>2. Settled(Attended(m, job[j].saw))
    BY <2>1 DEF Settled, Attended, RegType
  <2>3. \A k \in Members : Settled(reg'[k])
    BY <1>1, <1>8, <2>1, <2>2, SaveSettled DEF AttendCommit
  <2>4. QED
    BY <1>1, <1>8, <2>3, FinishDecidesNone, PaidKept DEF AttendCommit
<1>9. CASE UndoCommit(j)
  <2> DEFINE row == [NoReg EXCEPT !.status = Restored(reg[m]), !.paid = reg[m].paid]
  <2>1. m \in Members /\ reg[m] \in RegType
    BY <1>1, <1>9 DEF UndoCommit, SeatsInv, LocksOK, Knows, TypeOK
  <2>2. Settled(row)
    <3>1. row.status = Restored(reg[m]) /\ row.paid = reg[m].paid
      BY DEF NoReg
    <3>2. reg[m].paid => Restored(reg[m]) # "pending"
      BY DEF Restored
    <3>3. QED
      BY <3>1, <3>2 DEF Settled
  <2>3. \A k \in Members : Settled(reg'[k])
    BY <1>1, <1>9, <2>1, <2>2, SaveSettled DEF UndoCommit
  <2>4. QED
    BY <1>1, <1>9, <2>3, FinishDecidesNone, PaidKept DEF UndoCommit
<1>10. CASE CancelRow(j)
  <2> DEFINE J == [Promoting(m, Pool[m], IF AcceptsPromotion THEN 1 ELSE 0)
                      EXCEPT !.cancels = TRUE, !.rows = {m}]
  <2>1. J.pc = "promote"
    BY DEF Promoting, IdleJob
  <2>2. Finish(j) \/ Goto(j, J)
    BY <1>10 DEF CancelRow
  <2> HIDE DEF J
  <2>3. NoneDecides
    BY <1>1, <2>1, <2>2, FinishDecidesNone, GotoDecidesNone
  <2>4. QED
    BY <1>10, <2>3, PaidKept DEF CancelRow, PaidInv, rowVars
<1>11. CASE Aborted(j)
  <2>1. reg' = reg /\ Finish(j)
    BY <1>11 DEF Aborted, rowVars
  <2>2. NoneDecides
    BY <1>1, <2>1, FinishDecidesNone
  <2>3. QED
    BY <2>1, <2>2, PaidKept DEF PaidInv
<1>12. QED
  BY <1>2, <1>3, <1>4, <1>5, <1>6, <1>7, <1>8, <1>9, <1>10, <1>11 DEF Step

LEMMA SurroundingsPaid ==
  ASSUME SeatsInv, PaidInv, "desk" \notin Disturbances, Surroundings
  PROVE  PaidInv'
<1>1. TypeOK /\ \A m \in Members : reg[m] \in RegType /\ Settled(reg[m])
  BY DEF SeatsInv, TypeOK, PaidInv
<1>2. ASSUME NEW m \in Members, PaymentLands(m) PROVE PaidInv'
  <2> DEFINE row == [reg[m] EXCEPT !.paid = TRUE,
                                   !.status = IF @ = "attended" THEN @ ELSE "confirmed"]
  <2>1. Save(m, row) /\ job' = job
    BY <1>2 DEF PaymentLands
  <2>2. Settled(row)
    BY <1>1 DEF Settled, RegType
  <2> HIDE DEF row
  <2>3. NoneDecides
    BY <2>1 DEF NoneDecides
  <2>4. QED
    BY <1>1, <2>1, <2>2, <2>3, SaveSettled, PaidKept
<1>3. ASSUME NEW m \in Members, StaffRecordsCash(m) PROVE PaidInv'
  <2>1. Save(m, StaffRow(m, reg[m].status, TRUE)) /\ job' = job /\ ~reg[m].paid
    BY <1>3 DEF StaffRecordsCash
  <2>2. Settled(StaffRow(m, reg[m].status, TRUE))
    BY <1>1, <2>1 DEF Settled, StaffRow, RegType
  <2>3. NoneDecides
    BY <2>1 DEF NoneDecides
  <2>4. QED
    BY <1>1, <2>1, <2>2, <2>3, SaveSettled, PaidKept
<1>4. ASSUME NEW m \in Members, CoachAssigned(m) PROVE PaidInv'
  <2>1. reg' = reg /\ job' = job
    BY <1>4 DEF CoachAssigned
  <2>2. QED
    BY <2>1 DEF PaidInv, Settled
<1>5. ASSUME NEW j \in Jobs, NEW m \in Members, StaffCancels(j, m) PROVE PaidInv'
  <2> DEFINE row == StaffRow(m, "cancelled", reg[m].paid)
             J == [IdleJob EXCEPT !.pc = "offer", !.first = Pool[m]]
  <2>1. Save(m, row) /\ (Goto(j, J) \/ job' = job)
    BY <1>5 DEF StaffCancels
  <2>2. Settled(row)
    BY <1>1 DEF Settled, StaffRow, RegType
  <2>3. J.pc # "decided"
    BY DEF IdleJob
  <2> HIDE DEF row, J
  <2>4. NoneDecides
    <3>1. CASE Goto(j, J)
      BY <1>1, <2>3, <3>1, GotoDecidesNone
    <3>2. CASE job' = job
      BY <3>2 DEF NoneDecides
    <3>3. QED
      BY <2>1, <3>1, <3>2
  <2>5. QED
    BY <1>1, <2>1, <2>2, <2>4, SaveSettled, PaidKept
<1>6. ASSUME NEW m \in Members, NEW s \in Statuses, StaffSets(m, s) PROVE PaidInv'
  BY <1>6 DEF StaffSets, Disturb
<1>7. ASSUME MarkNoShows PROVE PaidInv'
  <2>1. /\ job' = job
        /\ \A m \in Members : \/ reg'[m] = reg[m]
                              \/ reg'[m] = [reg[m] EXCEPT !.status = "no_show"]
    BY <1>7 DEF MarkNoShows
  <2>2. \A m \in Members : Settled([reg[m] EXCEPT !.status = "no_show"])
    BY <1>1 DEF Settled, RegType
  <2>3. \A m \in Members : Settled(reg'[m])
    BY <1>1, <2>1, <2>2
  <2>4. NoneDecides
    BY <2>1 DEF NoneDecides
  <2>5. QED
    BY <2>3, <2>4, PaidKept
<1>8. ASSUME EventOff \/ TimePasses PROVE PaidInv'
  <2>1. reg' = reg /\ job' = job
    BY <1>8 DEF EventOff, TimePasses, rowVars
  <2>2. QED
    BY <2>1 DEF PaidInv, Settled
<1>9. ASSUME NEW j \in Jobs, Crash(j) PROVE PaidInv'
  <2>1. reg' = reg /\ Finish(j)
    BY <1>9 DEF Crash, rowVars
  <2>2. NoneDecides
    BY <1>1, <2>1, FinishDecidesNone
  <2>3. QED
    BY <1>1, <2>1, <2>2, PaidKept
<1>10. QED
  BY <1>2, <1>3, <1>4, <1>5, <1>6, <1>7, <1>8, <1>9 DEF Surroundings

\* Unless an organiser writes statuses over by hand, a row that is paid is never
\* Pending Payment again, whatever order sign-up, payment, check-in, undo,
\* cancellation and promotion come in.
THEOREM PaidStaysSettled ==
  ASSUME "desk" \notin Disturbances
  PROVE  Spec => []PaidNeverPending
<1>1. Init => PaidInv
  <2> SUFFICES ASSUME Init PROVE PaidInv
    OBVIOUS
  <2>1. /\ \A m \in Members : reg[m] = NoReg
        /\ \A j \in Jobs : job[j] = IdleJob
    BY DEF Init
  <2>2. Settled(NoReg) /\ IdleJob.pc = "idle"
    BY DEF Settled, NoReg, IdleJob
  <2>3. QED
    BY <2>1, <2>2 DEF PaidInv
<1>2. SeatsInv /\ PaidInv /\ [Next]_vars => PaidInv'
  <2> SUFFICES ASSUME SeatsInv, PaidInv, [Next]_vars PROVE PaidInv'
    OBVIOUS
  <2>1. TypeOK
    BY DEF SeatsInv
  <2>2. ASSUME UNCHANGED vars PROVE PaidInv'
    BY <2>2 DEF vars, PaidInv, Settled
  <2>3. QED
    BY <2>1, <2>2, ArrivalPaid, StepPaid, SurroundingsPaid DEF Next
<1>3. PaidInv => PaidNeverPending
  BY DEF PaidInv, Settled, PaidNeverPending
<1>4. QED
  BY <1>1, <1>2, <1>3, SeatsInvariant, PTL DEF Spec
=============================================================================
