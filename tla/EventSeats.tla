------------------------------ MODULE EventSeats ------------------------------
(***************************************************************************)
(* Seats of one event: registration, cancellation, the waitlist, and the   *)
(* door (crush_lu/views_events.py, signals.py, views_checkin.py, admin).    *)
(* A job is one request in one worker; what it does between two points     *)
(* where another request can run -- the unlocked reads, the event's row    *)
(* lock, the commit -- is one step.  Handlers that take one row lock and   *)
(* commit are one step.                                                    *)
(***************************************************************************)
EXTENDS Naturals, FiniteSets

CONSTANTS Members,      \* people with a profile
          Jobs,         \* requests in progress at one time (a bound)
          Capacities,   \* values an organiser gives max_participants
          Reserved,     \* reserved_premium_seats
          Priced,       \* registration_fee > 0
          GenderLimits, \* gender_limits_active
          Pool,         \* Pool[m]: the gender pool of m
          PoolCap,      \* PoolCap[p]: the limit of pool p
          Coached,      \* members who have a coach of their own at the start
          OpenStages,   \* stages before registration_deadline
          LastStage,    \* the stage this instance stops at (a bound)
          Disturbances, \* what organisers and accidents may do: see Disturb
          MaxMoves,     \* how many times (a bound)
          None          \* no job, no member, no pool, no capacity

Stages == {"early", "door", "started"}   \* door: within the check-in window, before date_time

ASSUME SeatsAssumption ==
    /\ IsFiniteSet(Members) /\ None \notin Members /\ None \notin Jobs
    /\ Capacities \subseteq Nat /\ Capacities # {} /\ None \notin Capacities
    /\ Reserved \in Nat /\ Priced \in BOOLEAN /\ GenderLimits \in BOOLEAN
    /\ PoolCap \in [DOMAIN PoolCap -> Nat] /\ Pool \in [Members -> DOMAIN PoolCap]
    /\ Coached \subseteq Members /\ OpenStages \subseteq Stages /\ LastStage \in Stages
    /\ MaxMoves \in Nat

VARIABLES reg,       \* table EventRegistration, one row per member at most
          ahead,     \* <<k, m>>: the row of k has the earlier registered_at
          coach,     \* CrushProfile.assigned_coach: by the door, or the member's own
          cap,       \* MeetupEvent.max_participants
          on,        \* not is_cancelled (the event stays published)
          stage,     \* where now stands against the event's times
          evLock,    \* the event's row lock
          job,       \* the requests in progress
          byHand,    \* history: holders seated by the door or the desk, uncounted
          before,    \* history: status and coach of an attended row before it was
          moves      \* disturbances so far

eventVars == <<cap, on, stage>>
historyVars == <<byHand, before>>
rowVars == <<reg, ahead, coach, historyVars>>
vars == <<reg, ahead, coach, cap, on, stage, evLock, job, byHand, before, moves>>

SeatHolding == {"confirmed", "attended", "pending"}
Restorable == {"confirmed", "waitlist", "pending"}   \* UNDO_RESTORABLE_STATUSES
Statuses == SeatHolding \cup {"none", "waitlist", "cancelled", "no_show"}
Coaches == {"none", "door", "own"}
Pcs == {"idle", "register", "decided", "cancel", "promote", "offer", "checkin", "scan", "attend",
        "undo"}

\* stamp: checked_in_at is set; prior: checkin_prior_status; granted: the
\* profile's coach is the pair checkin_granted_coach(_at) recorded here.
RegType == [status : Statuses, paid : BOOLEAN, stamp : BOOLEAN, prior : Statuses,
            granted : BOOLEAN]
NoReg == [status |-> "none", paid |-> FALSE, stamp |-> FALSE, prior |-> "none",
          granted |-> FALSE]

\* A job: whom it is about, whether they were premium when it looked and whose
\* coach it saw, the row it will save, the rows it has locked; and for a
\* promotion, whether it cancels `who`, the pool whose members come first, how
\* many it may still promote, the members it has chosen, the capacity it saves.
JobType == [pc : Pcs, who : Members \cup {None}, prem : BOOLEAN, saw : Coaches, row : RegType,
            cancels : BOOLEAN, first : DOMAIN PoolCap \cup {None}, left : Nat,
            rows : SUBSET Members, won : SUBSET Members, newcap : Capacities \cup {None}]
IdleJob == [pc |-> "idle", who |-> None, prem |-> FALSE, saw |-> "none", row |-> NoReg,
            cancels |-> FALSE, first |-> None, left |-> 0,
            rows |-> {}, won |-> {}, newcap |-> None]

Unseen == [status |-> "none", coach |-> "none"]

Init == /\ reg = [m \in Members |-> NoReg]
        /\ ahead = {}
        /\ coach = [m \in Members |-> IF m \in Coached THEN "own" ELSE "none"]
        /\ cap \in Capacities
        /\ on = TRUE
        /\ stage = "early"
        /\ evLock = None
        /\ job = [j \in Jobs |-> IdleJob]
        /\ byHand = {}
        /\ before = [m \in Members |-> Unseen]
        /\ moves = 0

-----------------------------------------------------------------------------
(* Capacity *)

Holds(row) == row.status \in SeatHolding
Holders == {m \in Members : Holds(reg[m])}
Premium(m) == coach[m] # "none"

PublicCapacity(c) == IF c > Reserved THEN c - Reserved ELSE 0
IsFullFor(S, c, prem) == Cardinality(S) >= IF prem THEN c ELSE PublicCapacity(c)
InPool(S, p) == {m \in S : Pool[m] = p}
IsPoolFull(S, p) == GenderLimits /\ Cardinality(InPool(S, p)) >= PoolCap[p]

\* May m have one more seat, S being the members who hold one?
HasRoom_ignoringReserve(S, c, m, prem) == Cardinality(S) < c /\ ~IsPoolFull(S, Pool[m])
HasRoom_oneMore(S, c, m, prem) ==
    Cardinality(S) <= (IF prem THEN c ELSE PublicCapacity(c)) /\ ~IsPoolFull(S, Pool[m])
HasRoom(S, c, m, prem) == ~IsFullFor(S, c, prem) /\ ~IsPoolFull(S, Pool[m])

AdmittedStatus(row) == IF row.paid \/ ~Priced THEN "confirmed" ELSE "pending"

Accepting == on /\ stage \in OpenStages          \* is_registration_accepting
AcceptsPromotion == on /\ stage # "started"      \* accepts_waitlist_promotion

-----------------------------------------------------------------------------
(* Rows, locks and history *)

RowFree(m) == \A j \in Jobs : m \notin job[j].rows
RowsFree(j, S) == \A i \in Jobs \ {j} : job[i].rows \cap S = {}
Save(m, row) == reg' = [reg EXCEPT ![m] = row]
Goto(j, J) == job' = [job EXCEPT ![j] = J]
Finish(j) == Goto(j, IdleJob)
LeaveEvent(j) == evLock' = IF evLock = j THEN None ELSE evLock

\* What history keeps of a step that writes rows; hand: whom a person, and not
\* the capacity rules, gave a seat.
History(hand) ==
    /\ byHand' = {m \in Members : /\ Holds(reg'[m])
                                  /\ m \in byHand \/ (m \in hand /\ ~Holds(reg[m]))}
    /\ before' = [m \in Members |->
                    IF reg'[m].status # "attended" THEN Unseen
                    ELSE IF reg[m].status = "attended" THEN before[m]
                    ELSE [status |-> reg[m].status, coach |-> coach[m]]]

Disturb(kind) == kind \in Disturbances /\ moves < MaxMoves /\ moves' = moves + 1

-----------------------------------------------------------------------------
(* event_register *)

\* The unlocked checks, and the profile as it will be judged by.
RegisterBegin(j, m) ==
    /\ job[j].pc = "idle"
    /\ reg[m].status \in {"none", "cancelled"}
    /\ Accepting
    /\ Goto(j, [IdleJob EXCEPT !.pc = "register", !.who = m, !.prem = Premium(m)])
    /\ UNCHANGED <<rowVars, eventVars, evLock, moves>>

\* Under the event lock: seat or waitlist.  The member's cancelled row is read
\* without a lock of its own; a second row for one member cannot be inserted.
RegisterDecide(j) ==
    LET m == job[j].who
        room == HasRoom(Holders, cap, m, job[j].prem) IN
    /\ job[j].pc = "register"
    /\ evLock = None
    /\ IF Accepting /\ reg[m].status \in {"none", "cancelled"}
       THEN /\ evLock' = j
            /\ Goto(j, [job[j] EXCEPT !.pc = "decided",
                          !.row = [reg[m] EXCEPT !.status =
                                      IF room THEN AdmittedStatus(reg[m]) ELSE "waitlist"]])
       ELSE Finish(j) /\ UNCHANGED evLock
    /\ UNCHANGED <<rowVars, eventVars, moves>>

\* A new registered_at: behind everyone else who has a row.
ToTheBack(m) ==
    {p \in ahead : m \notin {p[1], p[2]}}
        \cup {<<k, m>> : k \in {k \in Members \ {m} : reg[k].status # "none"}}

\* save() writes the whole row, as it was read.
RegisterCommit(j) ==
    LET m == job[j].who IN
    /\ job[j].pc = "decided"
    /\ RowFree(m)
    /\ Save(m, job[j].row)
    /\ ahead' = ToTheBack(m)
    /\ evLock' = None
    /\ Finish(j)
    /\ History({})
    /\ UNCHANGED <<coach, eventVars, moves>>

-----------------------------------------------------------------------------
(* Freed seats: _promote_from_waitlist inside event_cancel, inside the      *)
(* on_commit callback of promote_waitlist_on_cancellation, and in the loop  *)
(* of promote_waitlist_on_capacity_increase.                                *)

Promoting(m, pool, n) == [IdleJob EXCEPT !.pc = "promote", !.who = m, !.first = pool, !.left = n]

\* event_cancel: the event's row first ...
CancelLock(j, m) ==
    /\ job[j].pc = "idle"
    /\ evLock = None
    /\ reg[m].status # "none"
    /\ evLock' = j
    /\ Goto(j, [IdleJob EXCEPT !.pc = "cancel", !.who = m])
    /\ UNCHANGED <<rowVars, eventVars, moves>>

\* ... then the member's, and what it says by then.
CancelRow(j) ==
    LET m == job[j].who IN
    /\ job[j].pc = "cancel"
    /\ RowFree(m)
    /\ IF reg[m].status \in {"cancelled", "no_show", "attended"} \/ stage = "started"
       THEN Finish(j) /\ LeaveEvent(j)
       ELSE /\ Goto(j, [Promoting(m, Pool[m], IF AcceptsPromotion THEN 1 ELSE 0)
                           EXCEPT !.cancels = TRUE, !.rows = {m}])
            /\ UNCHANGED evLock
    /\ UNCHANGED <<rowVars, eventVars, moves>>

\* An organiser saves the event with another max_participants.
SaveLock(j, c) ==
    /\ job[j].pc = "idle"
    /\ evLock = None
    /\ Disturb("capacity")
    /\ evLock' = j
    /\ Goto(j, [Promoting(None, None, IF AcceptsPromotion THEN Cardinality(Members) ELSE 0)
                   EXCEPT !.newcap = c])
    /\ UNCHANGED <<rowVars, eventVars>>

\* The callback of a committed cancellation.
OfferLock(j) ==
    /\ job[j].pc = "offer"
    /\ evLock = None
    /\ IF AcceptsPromotion
       THEN evLock' = j /\ Goto(j, Promoting(None, job[j].first, 1))
       ELSE Finish(j) /\ UNCHANGED evLock
    /\ UNCHANGED <<rowVars, eventVars, moves>>

\* A row as the transaction of job j sees it.
Seen(j, m) == IF m \in job[j].won
              THEN [reg[m] EXCEPT !.status = AdmittedStatus(reg[m])]
              ELSE IF job[j].cancels /\ m = job[j].who
                   THEN [reg[m] EXCEPT !.status = "cancelled"]
                   ELSE reg[m]
SeenHolders_stale(j) == Holders
SeenHolders(j) == {m \in Members : Holds(Seen(j, m))}
SeenCap(j) == IF job[j].newcap = None THEN cap ELSE job[j].newcap
SeenWaiting(j) == {m \in Members : Seen(j, m).status = "waitlist"}

Eligible(j) == {m \in SeenWaiting(j) : HasRoom(SeenHolders(j), SeenCap(j), m, Premium(m))}

\* With gender limits, the freed pool comes first when it has a candidate.
Preferred(j) == LET own == {m \in Eligible(j) : Pool[m] = job[j].first} IN
                IF GenderLimits /\ own # {} THEN own ELSE Eligible(j)

EarliestOf_any(S) == S
EarliestOf(S) == {m \in S : \A k \in S : <<k, m>> \notin ahead}

Pick_withoutBreak(j) ==
    /\ job[j].pc = "promote" /\ job[j].left > 0
    /\ RowsFree(j, SeenWaiting(j))
    /\ \E m \in EarliestOf(Preferred(j)) :
          Goto(j, [job[j] EXCEPT !.left = @ - 1, !.won = @ \cup {m},
                                 !.rows = @ \cup SeenWaiting(j)])
    /\ UNCHANGED <<rowVars, eventVars, evLock, moves>>
Pick(j) ==
    /\ job[j].pc = "promote" /\ job[j].left > 0
    /\ RowsFree(j, SeenWaiting(j))
    /\ \/ /\ Preferred(j) = {}
          /\ Goto(j, [job[j] EXCEPT !.left = 0])
       \/ \E m \in EarliestOf(Preferred(j)) :
             Goto(j, [job[j] EXCEPT !.left = @ - 1, !.won = @ \cup {m},
                                    !.rows = @ \cup SeenWaiting(j)])
    /\ UNCHANGED <<rowVars, eventVars, evLock, moves>>

PromoteCommit(j) ==
    /\ job[j].pc = "promote" /\ job[j].left = 0
    /\ reg' = [m \in Members |-> Seen(j, m)]
    /\ cap' = SeenCap(j)
    /\ evLock' = None
    /\ Finish(j)
    /\ History({})
    /\ UNCHANGED <<ahead, coach, on, stage, moves>>

-----------------------------------------------------------------------------
(* The door: views_checkin.py.  The event has a coach to give. *)

DoorOpen == stage \in {"door", "started"}

\* A row marked attended now, by a request that saw the member's coach.
\* _record_checkin_provenance, and what the grant adds to it.
Attended_recordingCoach(m, saw) ==
    [reg[m] EXCEPT !.status = "attended", !.stamp = TRUE,
                   !.prior = saw, !.granted = saw = "none"]
Attended(m, saw) == [reg[m] EXCEPT !.status = "attended", !.stamp = TRUE,
                                   !.prior = reg[m].status, !.granted = saw = "none"]

\* assign_coach_on_first_attendance: the saved row is attended.  The profile is
\* read and written without a lock.
Granted(m, saw) == IF saw = "none" THEN [coach EXCEPT ![m] = "door"] ELSE coach

\* A request at the door that has m's row and has read m's profile.
AtDoor(m, pc) == [IdleJob EXCEPT !.pc = pc, !.who = m, !.rows = {m}, !.saw = coach[m]]

\* event_checkin_api, unlocked: the ticket's row holds a seat.
CheckinBegin(j, m) ==
    /\ job[j].pc = "idle"
    /\ DoorOpen
    /\ reg[m].status \in SeatHolding \ {"attended"}
    /\ Goto(j, [IdleJob EXCEPT !.pc = "checkin", !.who = m])
    /\ UNCHANGED <<rowVars, eventVars, evLock, moves>>

\* Its FOR UPDATE names no table, so it locks every row it joins: the
\* registration ...
CheckinLock(j) ==
    /\ job[j].pc = "checkin"
    /\ RowFree(job[j].who)
    /\ Goto(j, [job[j] EXCEPT !.pc = "scan", !.rows = {job[j].who}])
    /\ UNCHANGED <<rowVars, eventVars, evLock, moves>>

\* ... and the event.  Then only "attended" is looked at again.
CheckinEvent(j) ==
    LET m == job[j].who IN
    /\ job[j].pc = "scan"
    /\ evLock = None
    /\ IF reg[m].status = "attended"
       THEN Finish(j) /\ UNCHANGED evLock
       ELSE Goto(j, AtDoor(m, "attend")) /\ evLock' = j
    /\ UNCHANGED <<rowVars, eventVars, moves>>

\* coach_promote_from_waitlist: a walk-up, whatever the capacity.  It locks the
\* registration only, as the undo does.
WalkUpLock(j, m) ==
    /\ job[j].pc = "idle"
    /\ DoorOpen /\ on
    /\ RowFree(m)
    /\ reg[m].status = "waitlist"
    /\ Goto(j, AtDoor(m, "attend"))
    /\ UNCHANGED <<rowVars, eventVars, evLock, moves>>

AttendCommit(j) ==
    LET m == job[j].who IN
    /\ job[j].pc = "attend"
    /\ Save(m, Attended(m, job[j].saw))
    /\ coach' = Granted(m, job[j].saw)
    /\ History({m})
    /\ Finish(j) /\ LeaveEvent(j)
    /\ UNCHANGED <<ahead, eventVars, moves>>

\* coach_undo_checkin: back to what the row held, and the coach with it.
Restored_asConfirmed(row) == "confirmed"
Restored_stale(row) == IF row.prior \notin Restorable THEN "confirmed" ELSE row.prior
Restored(row) ==
    IF row.prior \notin Restorable \/ (row.prior = "pending" /\ row.paid)
    THEN "confirmed" ELSE row.prior

TakesBackCoach_whoseverItIs(m, saw) == reg[m].granted
TakesBackCoach(m, saw) == reg[m].granted /\ saw = "door"

UndoLock(j, m) ==
    /\ job[j].pc = "idle"
    /\ RowFree(m)
    /\ reg[m].status = "attended" /\ reg[m].stamp
    /\ Goto(j, AtDoor(m, "undo"))
    /\ UNCHANGED <<rowVars, eventVars, evLock, moves>>

UndoCommit(j) ==
    LET m == job[j].who IN
    /\ job[j].pc = "undo"
    /\ Save(m, [NoReg EXCEPT !.status = Restored(reg[m]), !.paid = reg[m].paid])
    /\ coach' = IF TakesBackCoach(m, job[j].saw) THEN [coach EXCEPT ![m] = "none"] ELSE coach
    /\ History({m})
    /\ Finish(j)
    /\ UNCHANGED <<ahead, eventVars, evLock, moves>>

-----------------------------------------------------------------------------
(* Money, organisers, time and accidents *)

\* _apply_paid_checkout on this row (module SumUpCheckout), at the event's fee.
PaymentLands(m) ==
    /\ Priced /\ on
    /\ RowFree(m)
    /\ Holds(reg[m]) /\ ~reg[m].paid
    /\ Save(m, [reg[m] EXCEPT !.paid = TRUE,
                              !.status = IF @ = "attended" THEN @ ELSE "confirmed"])
    /\ History({})
    /\ UNCHANGED <<ahead, coach, eventVars, evLock, job, moves>>

\* EventRegistrationAdmin.save_model: status s and payment mark p.
StaffRow(m, s, p) ==
    [reg[m] EXCEPT !.paid = p,
                   !.status = IF p /\ ~reg[m].paid /\ s = "pending" THEN "confirmed" ELSE s]

\* An edit that cancels the row leaves a callback for after the commit.
StaffCancels(j, m) ==
    /\ Disturb("cancel")
    /\ RowFree(m)
    /\ job[j].pc = "idle"
    /\ reg[m].status \notin {"none", "cancelled"}
    /\ Save(m, StaffRow(m, "cancelled", reg[m].paid))
    /\ IF AcceptsPromotion
       THEN Goto(j, [IdleJob EXCEPT !.pc = "offer", !.first = Pool[m]])
       ELSE UNCHANGED job
    /\ History({})
    /\ UNCHANGED <<ahead, coach, eventVars, evLock>>

\* Money taken by hand, the status left alone (an attended row's member has a
\* coach already).
StaffRecordsCash(m) ==
    /\ Disturb("cash")
    /\ RowFree(m)
    /\ reg[m].status # "none" /\ ~reg[m].paid
    /\ Save(m, StaffRow(m, reg[m].status, TRUE))
    /\ History({})
    /\ UNCHANGED <<ahead, coach, eventVars, evLock, job>>

\* Any other status set in the admin, by saving the row (an attended row then
\* earns its coach) or by the actions confirm_registrations and move_to_waitlist.
StaffSets(m, s) ==
    /\ Disturb("desk")
    /\ RowFree(m)
    /\ reg[m].status \notin {"none", s}
    /\ s \notin {"none", "cancelled"}
    /\ Save(m, [StaffRow(m, s, reg[m].paid) EXCEPT
                  !.granted = @ \/ (s = "attended" /\ coach[m] = "none")])
    /\ coach' = IF s = "attended" THEN Granted(m, coach[m]) ELSE coach
    /\ History({m})
    /\ UNCHANGED <<ahead, eventVars, evLock, job>>

\* mark_unattended_as_no_show: every holder who did not come.
MarkNoShows ==
    /\ Disturb("noshow")
    /\ stage = "started"
    /\ \A m \in Members : reg[m].status \in {"confirmed", "pending"} => RowFree(m)
    /\ reg' = [m \in Members |->
                 IF reg[m].status \in {"confirmed", "pending"}
                 THEN [reg[m] EXCEPT !.status = "no_show"] ELSE reg[m]]
    /\ History({})
    /\ UNCHANGED <<ahead, coach, eventVars, evLock, job>>

\* PremiumMembership.confirm or an organiser gives m a coach of their own: at any
\* time, or only while no request is about m.
CoachAssigned(m) ==
    /\ \/ Disturb("coach")
       \/ Disturb("quiet coach") /\ \A j \in Jobs : job[j].who # m
    /\ coach[m] # "own"
    /\ coach' = [coach EXCEPT ![m] = "own"]
    /\ UNCHANGED <<reg, ahead, historyVars, eventVars, evLock, job>>

\* The event is cancelled.
EventOff == /\ Disturb("off")
            /\ evLock = None
            /\ on /\ on' = FALSE
            /\ UNCHANGED <<rowVars, cap, stage, evLock, job>>

TimePasses ==
    /\ stage # LastStage
    /\ \/ stage = "early" /\ stage' = "door"
       \/ stage = "door" /\ stage' = "started"
    /\ UNCHANGED <<rowVars, cap, on, evLock, job, moves>>

\* A worker dies: its transaction rolls back, its callback is never run.
Crash(j) ==
    /\ Disturb("crash")
    /\ job[j].pc # "idle"
    /\ Finish(j) /\ LeaveEvent(j)
    /\ UNCHANGED <<rowVars, eventVars>>

\* Request j waits for a row that request k has locked.
WaitsFor(j, k) ==
    /\ k # j
    /\ \/ job[j].pc \in {"register", "offer", "scan"} /\ evLock = k
       \/ job[j].pc \in {"decided", "cancel", "checkin"} /\ job[j].who \in job[k].rows
       \/ job[j].pc = "promote" /\ job[j].left > 0 /\ SeenWaiting(j) \cap job[k].rows # {}

\* PostgreSQL finds two transactions that wait for each other and aborts one:
\* its request fails with everything rolled back.
Aborted(j) ==
    /\ \E k \in Jobs : WaitsFor(j, k) /\ WaitsFor(k, j)
    /\ Finish(j) /\ LeaveEvent(j)
    /\ UNCHANGED <<rowVars, eventVars, moves>>

-----------------------------------------------------------------------------
Arrival(j) == \/ \E m \in Members : \/ RegisterBegin(j, m) \/ CancelLock(j, m)
                                     \/ CheckinBegin(j, m) \/ WalkUpLock(j, m) \/ UndoLock(j, m)
              \/ \E c \in Capacities : SaveLock(j, c)

Step(j) == \/ RegisterDecide(j) \/ RegisterCommit(j)
           \/ CancelRow(j) \/ OfferLock(j) \/ Pick(j) \/ PromoteCommit(j)
           \/ CheckinLock(j) \/ CheckinEvent(j) \/ AttendCommit(j) \/ UndoCommit(j)
           \/ Aborted(j)

Surroundings == \/ \E m \in Members : \/ PaymentLands(m) \/ StaffRecordsCash(m)
                                      \/ CoachAssigned(m)
                                      \/ \E j \in Jobs : StaffCancels(j, m)
                                      \/ \E s \in Statuses : StaffSets(m, s)
                \/ MarkNoShows \/ EventOff \/ TimePasses
                \/ \E j \in Jobs : Crash(j)

Next == (\E j \in Jobs : Arrival(j) \/ Step(j)) \/ Surroundings

Spec == Init /\ [][Next]_vars

\* A running request keeps running, and PostgreSQL grants row locks in the
\* order they were asked for and ends a circle of waits after deadlock_timeout.
FairSpec == Spec /\ \A j \in Jobs : SF_vars(Step(j))

-----------------------------------------------------------------------------
(* Properties *)

TypeOK ==
    /\ reg \in [Members -> RegType]
    /\ ahead \subseteq Members \X Members
    /\ coach \in [Members -> Coaches]
    /\ cap \in Capacities /\ on \in BOOLEAN /\ stage \in Stages
    /\ evLock \in Jobs \cup {None}
    /\ job \in [Jobs -> JobType]
    /\ byHand \subseteq Members
    /\ before \in [Members -> [status : Statuses, coach : Coaches]]
    /\ moves \in Nat

\* The holders the capacity rules answer for: not those seated by hand.
Counted == Holders \ byHand
NewlySeated == Counted' \ Holders

\* No interleaving of sign-ups, cancellations, promotions and capacity changes
\* hands out a seat beyond max_participants (event_register: "prevent race
\* condition where concurrent registrations could exceed max_participants").
AdmittedWithinCapacity ==
    [][NewlySeated # {} => Cardinality(Counted') <= cap']_vars

\* The same of each gender pool's limit.
AdmittedWithinPool ==
    [][GenderLimits => \A m \in NewlySeated :
          Cardinality(InPool(Counted', Pool[m])) <= PoolCap[Pool[m]]]_vars

\* A member without a coach is never seated in the block reserved for premium
\* members, which is held back at the top of the capacity.
ReservedBlockKept ==
    [][(\E m \in NewlySeated : ~Premium(m)) =>
          Cardinality(Counted' \ {m \in NewlySeated : Premium(m)})
             <= PublicCapacity(cap')]_vars

Waiting == {m \in Members : reg[m].status = "waitlist"}
CouldSit(m) == m \in Waiting /\ HasRoom(Holders, cap, m, Premium(m))

\* Before the door opens, a seat goes to the waitlist in the order people joined
\* it: nobody with the same claim (same pool where pools count, same right to
\* reserved seats) who was there before is left waiting.
WaitersServedInOrder ==
    [][stage = "early" => \A m \in Waiting \cap NewlySeated : \A k \in Waiting \ {m} :
          /\ <<k, m>> \in ahead
          /\ GenderLimits => Pool[k] = Pool[m]
          /\ Premium(k) <=> Premium(m)
          => reg'[k].status # "waitlist"]_vars

\* Money is never asked for twice: a row that is paid is not Pending Payment,
\* whatever order payment, check-in, undo, cancellation and promotion come in.
PaidNeverPending == \A m \in Members : reg[m].paid => reg[m].status # "pending"

UndoOf(m) == /\ reg[m].status = "attended" /\ reg'[m].status # "attended"
             /\ \E j \in Jobs : job[j].pc = "undo" /\ job[j].who = m /\ job'[j].pc = "idle"

\* Undoing a check-in puts the row back where it was, except that what was paid
\* meanwhile stays paid; "undoing a mistaken promotion must not leave them
\* holding a confirmed seat nobody gave them" (views_checkin.py).
UndoRestoresStatus ==
    [][\A m \in Members : UndoOf(m) /\ before[m].status \in Restorable =>
          reg'[m].status = IF before[m].status = "pending" /\ reg[m].paid
                           THEN "confirmed" ELSE before[m].status]_vars

\* Unless a coach is assigned while a request at the door is about to write the
\* profile, an undo takes back the coach this check-in granted, and no other;
\* nothing else takes a coach away.
UndoRestoresCoach ==
    [][\A m \in Members :
          /\ UndoOf(m) => coach'[m] = IF coach[m] = "own" THEN "own" ELSE before[m].coach
          /\ coach[m] # "none" /\ coach'[m] = "none" => UndoOf(m)]_vars

\* Every request ends, at the door as at the desk: none loops in a promotion that
\* has nobody left, or waits for ever for the event's row or a member's, whoever
\* scans, signs up, cancels or saves at the same time.  A circle of waits ends
\* only because PostgreSQL aborts one of the two (OnlyScansMeetHeadOn says which).
JobsFinish == \A j \in Jobs : job[j].pc # "idle" ~> job[j].pc = "idle"

\* Two requests wait for each other only where a ticket is scanned: the scan has
\* the member's row and wants the event's, the other the reverse.  Every other
\* request takes the event's row first, or a member's row alone.
OnlyScansMeetHeadOn ==
    \A j, k \in Jobs : WaitsFor(j, k) /\ WaitsFor(k, j) =>
        (job[j].pc = "scan") # (job[k].pc = "scan")

\* A seat that comes free before the door opens is taken, if anyone waits who
\* may sit there, unless the event is called off.
FreedSeatIsTaken == \A m \in Members :
    CouldSit(m) /\ stage = "early" /\ on ~> ~(CouldSit(m) /\ stage = "early" /\ on)

-----------------------------------------------------------------------------
(* The inductive invariant *)

\* What a request holds it knows: the member it is about, and the rows it has
\* locked to write.
Deciding(J) == J.pc \in {"decided", "cancel", "promote"}
MayHoldEvent(J) == Deciding(J) \/ J.pc = "attend"
Knows(J) ==
    /\ J.pc \in {"register", "decided", "cancel", "checkin", "scan", "attend", "undo"} =>
          J.who \in Members
    /\ J.rows # {} => J.pc \in {"promote", "scan", "attend", "undo"}
    /\ J.pc \in {"scan", "attend", "undo"} => J.rows = {J.who}
    /\ J.pc = "promote" => J.won \subseteq J.rows /\ (J.cancels => J.who \in J.rows)

\* Whoever decides or promotes holds the event's row; besides them only a ticket
\* about to be marked attended does.  A member's row is held by one request at most.
LocksOK ==
    /\ \A j \in Jobs : Deciding(job[j]) => evLock = j
    /\ \A j \in Jobs : evLock = j => MayHoldEvent(job[j])
    /\ \A i, j \in Jobs : i # j => job[i].rows \cap job[j].rows = {}
    /\ \A j \in Jobs : Knows(job[j])

\* The holders the rules answer for, as the transaction of j sees them.
SeenCounted(j) == SeenHolders(j) \ byHand

\* What a decision was based on is still so when it is written.
RoomKept(j) ==
    /\ job[j].pc = "decided" /\ Holds(job[j].row) =>
          LET others == Counted \ {job[j].who}
              p == Pool[job[j].who] IN
          /\ Cardinality(others) < cap
          /\ GenderLimits => Cardinality(InPool(others, p)) < PoolCap[p]
    /\ job[j].pc = "promote" => \A m \in job[j].won :
          /\ Cardinality(SeenCounted(j)) <= SeenCap(j)
          /\ GenderLimits => Cardinality(InPool(SeenCounted(j), Pool[m])) <= PoolCap[Pool[m]]

\* The inductive invariant: TypeOK, the locks, and the room behind every decision
\* of event_register and _promote_from_waitlist that is not yet committed.  The
\* limits on capacity and on pools follow from it.
SeatsInv == /\ TypeOK
            /\ byHand \subseteq Holders
            /\ LocksOK
            /\ \A j \in Jobs : RoomKept(j)
=============================================================================
