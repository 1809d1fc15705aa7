----------------------------- MODULE CrushLeads -----------------------------
(***************************************************************************)
(* The "My Crush!" leads of one event: a member declares, a coach is       *)
(* routed, coaches work the lead, blocks end it, and an hourly sweep       *)
(* reminds the coach of a lead nobody touched for a day                    *)
(* (crush_lu/services/crush_leads.py, views_coach.py).  A coach's request  *)
(* checks the row it loaded, then acts: under a lock and on a fresh row,   *)
(* or, for some actions, on the old one.  Notes, audit entries and pages   *)
(* are left out.                                                           *)
(***************************************************************************)
EXTENDS Naturals, Sequences, SequencesExt

CONSTANTS Coaches, Leads,      \* a lead is the pair it is about
          By,                  \* the member who declares a lead
          Requests, Sweeps,    \* requests in progress; overlapping sweeps
          Operations,          \* the operations of this instance
          MaxActs, MaxTurns, MaxCrashes,   \* bounds: coach actions, changes around, lost sweeps
          None

ASSUME LeadsAssumption ==
    /\ DOMAIN By = Leads /\ None \notin Coaches \cup Sweeps
    /\ MaxActs \in Nat /\ MaxTurns \in Nat /\ MaxCrashes \in Nat

VARIABLES lead,       \* the EventConnection rows of flow "crush"
          queue, old, \* leads by requested_at; how many of them are 24 hours old
          blocked,    \* pairs with a UserBlock
          active,     \* coaches with is_active
          job, sweep,
          arming,     \* how often a lead was re-armed for a reminder
          told,       \* pushes delivered for a lead and an arming
          acts, turns, crashes

around == <<blocked, active, turns>>
reminding == <<sweep, told, crashes>>
vars == <<lead, queue, old, around, job, arming, acts, reminding>>

Statuses == {"pending", "coach_reviewing", "coach_approved", "declined", "shared"}
Open == {"pending", "coach_reviewing", "coach_approved"}
Closed == {"declined", "shared"}

NoLead == [status |-> "none", owner |-> None, cocoach |-> None, consents |-> <<FALSE, FALSE>>,
           answer |-> "none", scheduled |-> FALSE, completed |-> FALSE, stamp |-> None]
Declared(l) == lead[l].status # "none"
NoJob == [op |-> "idle"]
Resting == [at |-> "rest", on |-> None, todo |-> {}, coach |-> None, arming |-> 0]

\* A sweep is on one of the leads it still has to do.
SweepType == [at : {"rest", "next", "claimed", "sending", "release"}, on : Leads \cup {None},
              todo : SUBSET Leads, coach : Coaches \cup {None}, arming : 0..MaxActs]

TypeOK ==
    /\ \A l \in Leads :
        /\ lead[l].status \in Statuses \cup {"none"}
        /\ lead[l].owner \in Coaches \cup {None} /\ lead[l].cocoach \in Coaches \cup {None}
        /\ lead[l].consents \in BOOLEAN \X BOOLEAN /\ lead[l].answer \in {"none", "yes", "no"}
        /\ lead[l].scheduled \in BOOLEAN /\ lead[l].completed \in BOOLEAN
        /\ lead[l].stamp \in Sweeps \cup {None}
    /\ queue \in Seq(Leads) /\ ToSet(queue) = {l \in Leads : Declared(l)} /\ IsInjective(queue)
    /\ old \in 0..Len(queue)
    /\ blocked \subseteq Leads /\ active \subseteq Coaches
    /\ sweep \in [Sweeps -> SweepType]
    /\ \A s \in Sweeps : sweep[s] = Resting \/ (sweep[s].at # "rest" /\ sweep[s].on \in sweep[s].todo)
    /\ arming \in [Leads -> 0..MaxActs] /\ told \in [Leads -> [0..MaxActs -> Nat]]

Init ==
    /\ lead = [l \in Leads |-> NoLead] /\ queue = <<>> /\ old = 0
    /\ blocked = {} /\ active = Coaches
    /\ job = [r \in Requests |-> NoJob] /\ sweep = [s \in Sweeps |-> Resting]
    /\ arming = [l \in Leads |-> 0] /\ told = [l \in Leads |-> [n \in 0..MaxActs |-> 0]]
    /\ acts = 0 /\ turns = 0 /\ crashes = 0

Idle(r) == job[r] = NoJob
Begin(r, record) == job' = [job EXCEPT ![r] = record]
End(r) == Begin(r, NoJob)
At(r, op) == job[r].op = op
Offered(op) == op \in Operations

----------------------------------------------------------------------------
(* Declaring: the view checks the pair, then the limit is counted under the *)
(* lock of the member's registration.                                       *)

DeclareBegin(r, l) ==
    /\ Idle(r) /\ ~Declared(l) /\ l \notin blocked
    /\ Begin(r, [op |-> "declare", lead |-> l])
    /\ UNCHANGED <<lead, queue, old, around, arming, acts, reminding>>

\* Mutant: the registration is not locked while the limit is counted.
Locked_never(m) == FALSE
Locked(m) == \E r \in Requests : At(r, "create") /\ By[job[r].lead] = m

DeclareCount(r) ==
    /\ At(r, "declare") /\ ~Locked(By[job[r].lead])
    /\ IF \E l \in Leads : Declared(l) /\ By[l] = By[job[r].lead]
       THEN End(r) ELSE Begin(r, [op |-> "create", lead |-> job[r].lead])
    /\ UNCHANGED <<lead, queue, old, around, arming, acts, reminding>>

\* A member without a profile, or a platform without coaches, leaves it in the pool.
CoCoaches == IF Offered("co yes") THEN active \cup {None} ELSE {None}
Routes == {<<None, None>>} \cup {p \in active \X CoCoaches : p[1] # p[2]}
DeclareCreate(r, route) ==
    /\ At(r, "create") /\ route \in Routes
    /\ LET l == job[r].lead
       IN  IF Declared(l) THEN UNCHANGED <<lead, queue>>
           ELSE /\ lead' = [lead EXCEPT ![l] = [NoLead EXCEPT !.status = "pending",
                                !.owner = route[1], !.cocoach = route[2]]]
                /\ queue' = Append(queue, l)
    /\ End(r)
    /\ UNCHANGED <<old, around, arming, acts, reminding>>

----------------------------------------------------------------------------
(* The coach's workspace: what the page checks when the request starts.     *)

Owned(l) == lead[l].owner \in active
Visible(l, k) == lead[l].status = "shared" \/ lead[l].owner = k
                 \/ (~Owned(l) /\ lead[l].status \notin Closed)
ClaimBlocked(l) == Owned(l) \/ lead[l].status \in Closed

WorkOps == {"schedule", "completed", "missed", "consent", "refuse", "answer yes", "answer no", "share"}
CoOps == {"co yes", "co no"}
CoachOps == {"notes", "approve", "claim", "start"} \cup WorkOps \cup CoOps

MayBegin(op, l, k) ==
    IF op \in CoOps THEN lead[l].cocoach = k /\ lead[l].status \in Open
    ELSE /\ Visible(l, k)
         /\ CASE op = "notes"   -> lead[l].owner \in {None, k}
              [] op = "approve" -> lead[l].owner \in {None, k} /\ lead[l].status \notin Closed
              [] op = "claim"   -> ~ClaimBlocked(l)
              [] op = "start"   -> TRUE
              [] OTHER          -> lead[l].owner = k

CoachBegin(r, k, l, op) ==
    /\ Offered(op) /\ Idle(r) /\ k \in active /\ Declared(l) /\ MayBegin(op, l, k)
    /\ acts < MaxActs /\ acts' = acts + 1
    /\ Begin(r, [op |-> op, lead |-> l, coach |-> k])
    /\ UNCHANGED <<lead, queue, old, around, arming, reminding>>

Row(r) == lead[job[r].lead]
Save(r, row) == lead' = [lead EXCEPT ![job[r].lead] = row]
Done(r) == End(r) /\ UNCHANGED <<queue, old, around, acts, reminding>>

\* Neither looks at the owner again, and notes do not look at the row at all.
SaveNotes(r) ==
    /\ At(r, "notes")
    /\ Save(r, [Row(r) EXCEPT !.owner = job[r].coach])
    /\ Done(r) /\ UNCHANGED arming

\* Mutant: the state on the page is trusted.
StillOpen_onPage(r) == TRUE
StillOpen(r) == Row(r).status \notin Closed
Approve(r) ==
    /\ At(r, "approve")
    /\ Save(r, IF StillOpen(r)
               THEN [Row(r) EXCEPT !.status = "coach_approved", !.owner = job[r].coach]
               ELSE Row(r))
    /\ Done(r) /\ UNCHANGED arming

\* A coach who takes a lead whose other half is theirs works both halves alone.
\* Mutant: the other half keeps its coach.
Taken_asIs(row, k) == [row EXCEPT !.owner = k]
Taken(row, k) == [row EXCEPT !.owner = k, !.cocoach = IF @ = k THEN None ELSE @]

Claim(r) ==
    /\ At(r, "claim")
    /\ Save(r, IF ClaimBlocked(job[r].lead) THEN Row(r) ELSE Taken(Row(r), job[r].coach))
    /\ Done(r) /\ UNCHANGED arming

\* The crush_ actions re-read the row under its lock and may find it closed or
\* another's.
Workable(r) == /\ Row(r).status \in Open
               /\ Row(r).owner = job[r].coach \/ ~ClaimBlocked(job[r].lead)

StartReview(r) ==
    /\ At(r, "start")
    /\ Save(r, IF Workable(r) /\ Row(r).status = "pending"
               THEN [Taken(Row(r), job[r].coach) EXCEPT !.status = "coach_reviewing"]
               ELSE Row(r))
    /\ Done(r) /\ UNCHANGED arming

ScheduleCall(r) ==
    /\ At(r, "schedule")
    /\ Save(r, IF Workable(r) THEN [Row(r) EXCEPT !.scheduled = TRUE] ELSE Row(r))
    /\ Done(r) /\ UNCHANGED arming

\* A call that did not happen arms the reminder again.
Missed(row) == [row EXCEPT !.completed = FALSE, !.scheduled = FALSE, !.stamp = None]

LogCall(r) ==
    /\ At(r, "completed") \/ At(r, "missed")
    /\ IF ~Workable(r) THEN UNCHANGED <<lead, arming>>
       ELSE IF At(r, "completed") THEN Save(r, [Row(r) EXCEPT !.completed = TRUE]) /\ UNCHANGED arming
       ELSE Save(r, Missed(Row(r))) /\ arming' = [arming EXCEPT ![job[r].lead] = @ + 1]
    /\ Done(r)

RecordConsent(r) ==
    /\ At(r, "consent") \/ At(r, "refuse")
    /\ LET yes == At(r, "consent")
       IN  Save(r, IF Workable(r)
                   THEN [Row(r) EXCEPT !.consents[1] = yes, !.status = IF yes THEN @ ELSE "declined"]
                   ELSE Row(r))
    /\ Done(r) /\ UNCHANGED arming

Answered(row, yes) ==
    [row EXCEPT !.answer = IF yes THEN "yes" ELSE "no", !.consents[2] = yes,
                !.status = IF yes THEN @ ELSE "declined"]

\* The routed coach records the recipient's answer only where no live co-coach does.
RecordAnswer(r) ==
    /\ At(r, "answer yes") \/ At(r, "answer no")
    /\ Save(r, IF Workable(r) /\ Row(r).cocoach \notin active /\ Row(r).answer = "none"
               THEN Answered(Row(r), At(r, "answer yes")) ELSE Row(r))
    /\ Done(r) /\ UNCHANGED arming

Unanswered(r) == Row(r).status \in Open /\ Row(r).answer = "none"
CoCoachAnswers(r) ==
    /\ At(r, "co yes") \/ At(r, "co no")
    /\ Save(r, IF Unanswered(r) THEN Answered(Row(r), At(r, "co yes")) ELSE Row(r))
    /\ Done(r) /\ UNCHANGED arming

Share(r) ==
    /\ At(r, "share")
    /\ Save(r, IF Workable(r) /\ Row(r).status = "coach_approved" /\ Row(r).consents = <<TRUE, TRUE>>
               THEN [Row(r) EXCEPT !.status = "shared"] ELSE Row(r))
    /\ Done(r) /\ UNCHANGED arming

----------------------------------------------------------------------------
(* Around the lead.                                                         *)

\* A member of an introduced pair changes their consent; the whole row is saved.
MemberConsentBegin(r, l, who, yes) ==
    /\ Offered("member") /\ Idle(r) /\ lead[l].status = "shared" /\ l \notin blocked
    /\ acts < MaxActs /\ acts' = acts + 1
    /\ Begin(r, [op |-> "member", lead |-> l, row |-> [lead[l] EXCEPT !.consents[who] = yes]])
    /\ UNCHANGED <<lead, queue, old, around, arming, reminding>>

MemberConsentSave(r) ==
    /\ At(r, "member")
    /\ Save(r, job[r].row)
    /\ Done(r) /\ UNCHANGED arming

Turn == turns < MaxTurns /\ turns' = turns + 1

BlockBegin(r, l) ==
    /\ Offered("block") /\ Idle(r) /\ l \notin blocked /\ Turn
    /\ blocked' = blocked \cup {l}
    /\ Begin(r, [op |-> "terminate", lead |-> l])
    /\ UNCHANGED <<lead, queue, old, active, arming, acts, reminding>>

\* Mutant: a lead that does not exist is declined as well.
InFlight_all(row) == row.status \notin Closed
InFlight(row) == row.status \in Open
BlockTerminate(r) ==
    /\ At(r, "terminate")
    /\ Save(r, IF InFlight(Row(r)) THEN [Row(r) EXCEPT !.status = "declined"] ELSE Row(r))
    /\ Done(r) /\ UNCHANGED arming

SetActive(k) ==
    /\ Offered("active") /\ Turn
    /\ active' = IF k \in active THEN active \ {k} ELSE active \cup {k}
    /\ UNCHANGED <<lead, queue, old, blocked, job, arming, acts, reminding>>

DayPasses ==
    /\ old < Len(queue) /\ old' = old + 1
    /\ UNCHANGED <<lead, queue, around, job, arming, acts, reminding>>

----------------------------------------------------------------------------
(* The reminder sweep: claim, look again, send, release if it failed.       *)

Untouched(row) == row.status \in Open /\ ~row.completed /\ ~row.scheduled
Due(l) == Untouched(lead[l]) /\ lead[l].stamp = None /\ Owned(l)

Rest(s) == sweep' = [sweep EXCEPT ![s] = Resting]
GoTo(s, at) == sweep' = [sweep EXCEPT ![s].at = at]
\* Leads are done in the order they were declared.
DayOld(l) == \E i \in 1..old : queue[i] = l
Earliest(S) ==
    LET places == {i \in DOMAIN queue : queue[i] \in S}
    IN  queue[CHOOSE i \in places : \A k \in places : i <= k]
Turned(S) == IF S = {} THEN Resting
             ELSE [Resting EXCEPT !.at = "next", !.on = Earliest(S), !.todo = S]
\* On to the next lead; out of time, the sweep may stop there instead.
NextLead(s) ==
    \/ sweep' = [sweep EXCEPT ![s] = Turned(@.todo \ {@.on})]
    \/ Rest(s)
Sweeping == UNCHANGED <<queue, old, around, job, arming, acts>>

SweepScan(s) ==
    /\ Offered("sweep") /\ sweep[s].at = "rest"
    /\ LET todo == {l \in Leads : DayOld(l) /\ Due(l)}
       IN  todo # {} /\ sweep' = [sweep EXCEPT ![s] = Turned(todo)]
    /\ Sweeping /\ UNCHANGED <<lead, told, crashes>>

SweepClaim(s) ==
    /\ sweep[s].at = "next" /\ Due(sweep[s].on)
    /\ lead' = [lead EXCEPT ![sweep[s].on].stamp = s]
    /\ sweep' = [sweep EXCEPT ![s].at = "claimed", ![s].coach = lead[sweep[s].on].owner,
                              ![s].arming = arming[sweep[s].on]]
    /\ Sweeping /\ UNCHANGED <<told, crashes>>

\* Handled since the scan, or locked by a coach's request (SKIP LOCKED).
SweepSkip(s) ==
    /\ sweep[s].at = "next"
    /\ Due(sweep[s].on) => \E r \in Requests : ~Idle(r) /\ job[r].lead = sweep[s].on
    /\ NextLead(s)
    /\ Sweeping /\ UNCHANGED <<lead, told, crashes>>

StillOwed(s) ==
    LET l == sweep[s].on
    IN  Untouched(lead[l]) /\ lead[l].stamp = s /\ lead[l].owner = sweep[s].coach /\ Owned(l)
SweepRecheck(s) ==
    /\ sweep[s].at = "claimed"
    /\ GoTo(s, IF StillOwed(s) THEN "sending" ELSE "release")
    /\ Sweeping /\ UNCHANGED <<lead, told, crashes>>

SweepDeliver(s) ==
    /\ sweep[s].at = "sending"
    /\ told' = [told EXCEPT ![sweep[s].on][sweep[s].arming] = @ + 1]
    /\ NextLead(s)
    /\ Sweeping /\ UNCHANGED <<lead, crashes>>

SweepFail(s) ==
    /\ sweep[s].at = "sending"
    /\ GoTo(s, "release")
    /\ Sweeping /\ UNCHANGED <<lead, told, crashes>>

\* Mutants: whoever's stamp it is, it goes; or it stays.
Released_any(row, s) == [row EXCEPT !.stamp = None]
Released_never(row, s) == row
Released(row, s) == [row EXCEPT !.stamp = IF @ = s THEN None ELSE @]
SweepRelease(s) ==
    /\ sweep[s].at = "release"
    /\ lead' = [lead EXCEPT ![sweep[s].on] = Released(@, s)]
    /\ NextLead(s)
    /\ Sweeping /\ UNCHANGED <<told, crashes>>

SweepCrash(s) ==
    /\ sweep[s].at # "rest" /\ crashes < MaxCrashes /\ crashes' = crashes + 1
    /\ Rest(s)
    /\ Sweeping /\ UNCHANGED <<lead, told>>

----------------------------------------------------------------------------

SweepStep(s) ==
    \/ SweepScan(s) \/ SweepClaim(s) \/ SweepSkip(s) \/ SweepRecheck(s)
    \/ SweepDeliver(s) \/ SweepFail(s) \/ SweepRelease(s)

RequestStep(r) ==
    \/ DeclareCount(r) \/ \E route \in Routes : DeclareCreate(r, route)
    \/ SaveNotes(r) \/ Approve(r) \/ Claim(r) \/ StartReview(r) \/ ScheduleCall(r)
    \/ LogCall(r) \/ RecordConsent(r) \/ RecordAnswer(r) \/ CoCoachAnswers(r) \/ Share(r)
    \/ MemberConsentSave(r) \/ BlockTerminate(r)

RequestBegin(r) ==
    \E l \in Leads :
        \/ DeclareBegin(r, l) \/ BlockBegin(r, l)
        \/ \E who \in {1, 2}, yes \in BOOLEAN : MemberConsentBegin(r, l, who, yes)
        \/ \E k \in Coaches, op \in CoachOps : CoachBegin(r, k, l, op)

Next ==
    \/ \E r \in Requests : RequestStep(r) \/ RequestBegin(r)
    \/ \E k \in Coaches : SetActive(k)
    \/ DayPasses
    \/ \E s \in Sweeps : SweepStep(s) \/ SweepCrash(s)

Spec == Init /\ [][Next]_vars

\* Requests end; the timer starts sweeps for ever and a sweep runs to its end.  A
\* device that never accepts a push is deleted after five failures, and a coach
\* without a device counts as told: for each lead some push lands in the end.
FairSpec ==
    /\ Spec
    /\ \A r \in Requests : WF_vars(RequestStep(r))
    /\ \A s \in Sweeps : WF_vars(SweepStep(s))
    /\ \A l \in Leads : SF_vars(\E s \in Sweeps : SweepDeliver(s) /\ sweep[s].on = l)

----------------------------------------------------------------------------
(* Properties.                                                              *)

\* One crush per member and event, from however many tabs it is declared
\* (declare_crush counts under a lock).
OneCrushPerEvent ==
    \A l, m \in Leads : Declared(l) /\ Declared(m) /\ By[l] = By[m] => l = m

\* What is over stays over: no page opened before reopens a declined or shared
\* lead, and the recipient's answer is never replaced.
FinalStaysFinal ==
    [][\A l \in Leads :
        /\ lead[l].status \in Closed => lead'[l].status = lead[l].status
        /\ lead[l].answer # "none" => lead'[l].answer = lead[l].answer]_vars

\* Nobody is at once the coach of a lead and the co-coach who asks its
\* recipient, whoever took the lead over from a coach who left.
OneCoachPerHalf == \A l \in Leads : Declared(l) /\ lead[l].owner # None => lead[l].owner # lead[l].cocoach

\* A coach is told once of a lead, and once more each time it is armed again,
\* even while sweeps overlap, pushes fail and coaches log calls.
ToldOncePerArming == \A l \in Leads, n \in 0..MaxActs : told[l][n] <= 1

\* A day-old lead that a coach owns and nobody touches is reminded of, unless it
\* is touched first or a sweep died holding it.
Owed(l) == /\ DayOld(l) /\ Untouched(lead[l]) /\ Owned(l) /\ told[l][arming[l]] = 0
ReminderComes == \A l \in Leads : Owed(l) ~> (~Owed(l) \/ crashes > 0)
=============================================================================
