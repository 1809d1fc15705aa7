# Verification of the Crush.lu member events

This directory holds TLA+ models of the parts of the platform where requests of
several people meet on the same rows: paying for a seat, getting and losing one,
the live part of an evening (lobby and quiz), and what comes of it (Crush Connect
and the "My Crush!" leads). TLC checks the models on small instances; TLAPS proves
the main results for every value of the constants. Source paths are relative to
the repository.

## 1. The system

One Django code base serves nine domains; `azureproject` routes a request to the
URL configuration of its host. The business logic with state worth verifying is
`crush_lu`. Database: PostgreSQL at READ COMMITTED, `ATOMIC_REQUESTS` off, so a
transaction exists only where the code opens one, and mutual exclusion is
`select_for_update` on single rows or a unique key. Several worker processes serve
requests and websockets; after-commit work runs in `transaction.on_commit`
callbacks of the same process, and timers (`azure-functions`) call HTTP endpoints.

### Inventory

| Part | State | Operations | Hard behaviour | What makes it correct |
|---|---|---|---|---|
| Card payment (`views_payments.py`, `services/sumup.py`, `models/payments.py`, `admin/payments.py`) | `PaymentTransaction` rows; the checkout at SumUp; the registration it pays | open a checkout (superseding the old ones), settle (callback, return, poll, admin), record a refusal or an end, widget note, re-check of a settled row | calls to SumUp inside a transaction, answers older than the lock they wait for, lost calls, crashes, two row locks | no capture lost or booked twice; a seat is paid by a capture at its price; a payment never gives out or takes a seat; no deadlock |
| Seats (`views_events.py`, `signals.py`, `views_checkin.py`, `models/events.py`, `admin/events.py`) | `EventRegistration` rows, capacity, reserved block, gender pools, the profile's coach | register, cancel, promote after a cancellation or a capacity change, check in, walk-up, undo, no-show, staff edits | event lock, row locks, unlocked reads, on_commit callbacks, undo of a stale record | capacity, reserved block and pools; order of the waitlist; no idle seat; an undo restores what was |
| Event Lobby (`services/event_lobby.py`, `models/event_lobby.py`) | participations, meet signals, confirmations, encounters, removal requests | join, signal, confirm, ask for removal, review it | unlocked checks before a transaction on two rows; quota and reveal from several tabs; an undo meanwhile | a reveal and an encounter come from both sides; a quota; a removed pair stays hidden; no deadlock |
| Quiz night (`services/quiz_rotation.py`, `consumers.py`, `api_quiz.py`) | `QuizEvent`, tables, memberships, the rotation schedule, table and individual scores | start, next question, rotate, pause, reset, score; assign at the door, release, place by hand, dissolve, consolidate | checks made before the quiz row is locked; schedules rebuilt under a running round; cascaded deletes | who left is nowhere; nobody moves in mid-round; the two leaderboards agree; every round is played |
| Crush Connect (`services/crush_connect.py`, `services/blocking.py`, `forms_crush_connect.py`) | daily drops, gates and guesses, sparks, coach picks, blocks | open the drop, read a card, answer a spark, choose one's questions again, propose and answer a pick, block, exclude | no row locks: reads, then writes in other statements; guesses outlive the request that scored them | one read per drop; a spark takes a reading, and guessing again at the same questions gains nothing; a drop stays as drawn |
| My Crush! leads (`services/crush_leads.py`, `views_coach.py`, `views_connections.py`) | `EventConnection` rows, their reminder stamps | declare, claim, work, share, decline, block; hourly reminder sweep | coaches act from old pages; overlapping sweeps, failing pushes, a killed sweep | one crush per event; two halves, two coaches; what is closed stays closed; one reminder, and it comes |
| Crush Premium (`models/profiles.py`, `views_premium.py`) | `PremiumMembership`, `assigned_coach` | request, confirm, cancel | membership → coach → profile locks | a coach is never overbooked; a paid coach stays |
| Referrals (`referrals.py`) | attributions, points, tier | sign-up reward, approval bonus | one reward locked, the other not | each reward once |
| Phone OTP, OAuth state | codes, states | issue, verify, consume | concurrent attempts, expiry | single use |
| Profiles and coach review, Crush Spark, account deletion and merge, Crush Cache, journeys, voting, notifications, wallet passes, external sync, hub, Power-Up, Entreprinder, content sites | see `PROJECT.json` | | | |

### How the parts interact

Payment and seats share the `EventRegistration` row: `event_register` creates it
Pending, `_apply_paid_checkout` confirms it, cancellation and check-in move it
meanwhile. Each module has the other side as an environment action
(`SumUpCheckout!RowMoved`, `EventSeats!PaymentLands`). The door's check-in also
opens the lobby (`EventLobby!CheckIn`) and assigns a quiz table
(`QuizNight!CheckInSeat`), and its undo takes both away (`UndoCheckIn`, `Undo`).
The coach a member gains at the door decides who may not be shown in Crush Connect
(`Mentor`). A block ends leads, sparks and picks and closes the lobby between two
people (`BlockBegin`, `BlockMember`, `BlockTurns`). Account merge and deletion
rewrite or remove all of these rows and are not modelled.

The hazards of each part, with the line where they bite and the properties that
watch them, are listed under `hazards` in `PROJECT.json`.

## 2. Modules

| Module | Models |
|---|---|
| `PaymentLedger` | abstract: a checkout is offered, then captured or void; a capture is booked once and never written off; a seat is settled by booking a capture made for it or by an organiser |
| `SumUpCheckout` | the payment code: rows, row locks, requests in progress, SumUp, the customer, organisers, crashes. Implements `PaymentLedger` |
| `EventSeats` | seats of one event: sign-up, cancellation, waitlist, door, undo, the desk, time |
| `MutualConsent` | abstract: an anonymous yes, limited in number, that becomes known exactly when it is mutual |
| `EventLobby` | the lobby: participation locks, signals, confirmations, encounters, removals. Its signals implement `MutualConsent` |
| `QuizRotation` | the seating plan of a quiz, as functions: who sits where in which round |
| `QuizNight` | the quiz in progress: host sockets, the door, staff, scores |
| `CrushConnect` | drops, the answer gate, sparks, picks, blocks and exclusions |
| `CrushLeads` | leads of one event, the coaches who work them, the reminder sweeps |
| `MC…` | symmetry sets and small definitions for the runs of the module named |
| `…Proofs` | theorems about the module named |
| `EventSeatsRulesProofs`, `QuizNightRulesProofs` | theorems whose invariants come on top of those of `EventSeatsProofs` and `QuizNightProofs` |

In all of them a *job* is one request, admin action or socket message in one
worker. A step of a job is what it does between two points where another process
can run: waiting for a row lock, committing, or calling out. What a job read
before such a point is in its record and may be stale when it is used.

### SumUpCheckout

| Code | Actions |
|---|---|
| `create_sumup_event_checkout` | `CreateBegin` (the snapshot of PENDING rows), `CreateLockTxs`, `CreateLockReg` (eligibility), `CreateDeactivates` / `CreateCannotDeactivate` / `CreateDeactivationLost` (one call per old checkout), `CreateRecheck`, `CreateCommits` / `CreateFails` |
| `_sync_checkout_with_sumup`, from the callback, the return, the poll, the failure report and the admin | `SyncBegin`, `Ask`, `AskFails`, then one of the next three |
| `_apply_paid_checkout` (event seats) | `ApplyLockTx`, `ApplyCommit` |
| `_record_terminal_failure`, `_record_pending_failure` | `RecordTerminal`, `RecordDeclined` |
| `report_sumup_widget_failure`, `_append_widget_note` | `SyncBegin` with a report or `ReportBegin`, `AppendNote` |
| `refresh_sumup_snapshot` | `RefreshBegin`, `RefreshAsk`, `RefreshWrite` |
| SumUp and the customer (external) | `CustomerPays`, `CardDeclined`, `CheckoutExpires` |
| other handlers of the registration and the event | `RowMoved`, `StaffEdits`, `FeeChanges`, `EventCancelled` |
| a lost worker | `Crash` |

`create_sumup_event_checkout` evaluates its query of PENDING rows once; rows
committed while it waits are not in it. Under READ COMMITTED each row it waited
for is re-tested, and this is `CreateLockTxs`. `raw_response` is abstracted to the
number of refused cards it reports (`seen`); `failure_reason` to the provider's
account (`reason`) and the widget's (`note`). A checkout that SumUp opened and
whose commit was lost has no page that offers it, and is left out.

### EventSeats

One event and one row per member at most.

| Code | Actions |
|---|---|
| `event_register` | `RegisterBegin`, `RegisterDecide`, `RegisterCommit` |
| `event_cancel` with its promotion | `CancelLock` (the event), `CancelRow` (the member's row), `Pick`, `PromoteCommit` |
| an organiser's save with another capacity | `SaveLock`, `Pick`…, `PromoteCommit` |
| an organiser's cancellation and the callback after it | `StaffCancels`, `OfferLock`, `Pick`, `PromoteCommit` |
| check-in of a ticket, of a walk-up | `CheckinBegin`, `CheckinLock` (the row), `CheckinEvent` (the event), `AttendCommit`; `WalkUpLock`, `AttendCommit` |
| `coach_undo_checkin` | `UndoLock`, `UndoCommit` |
| the desk, the no-show sweep, the organiser | `StaffSets`, `StaffRecordsCash`, `MarkNoShows`, `EventOff` |
| a settled checkout, a coach assigned elsewhere | `PaymentLands`, `CoachAssigned` |
| PostgreSQL's answer to a deadlock; a lost worker | `Aborted`; `Crash` |

The uncommitted writes of a promoting transaction are in its job (`won`,
`newcap`), and `Seen` is the table as that transaction sees it. Time is three
stages: before the door's window, within it, and after the start. `OpenStages`
says when sign-up is still open. The 15-minute window of the undo and the 12 hours
of the scanner are not counted: an undo may come at any time after the check-in.
The event is taken to have a coach to give, the case in which a check-in changes
the profile. `byHand` and `before` are history: whom a person seated outside the
capacity rules, and what an attended row was before. A check-in or an undo locks
the registration and reads the profile without a lock: the job carries what it saw
(`saw`), and the commit writes by it.

The scanner's `select_for_update().select_related("event", "user")` names no table
(`views_checkin.py:422`), so it locks the registration and then its event, while a
cancellation holds the event when it asks for the registration
(`views_events.py:1266`). `WaitsFor` says who waits for whose row. Two requests that
wait for each other are a deadlock, which PostgreSQL ends after `deadlock_timeout` by
failing one of them (`Aborted`, either of the two).

### EventLobby

| Code | Actions |
|---|---|
| `handle_checkin`, `evaluate_participation` | `CheckIn`, `Enter` |
| `send_meet_signal`, `confirm_meeting`: the unlocked checks | `Begin` |
| their `select_for_update` of both participations, ordered by user id | `Lock` (one row at a time; a row no longer attended ends the request) |
| the reads under the locks, and the commit | `SignalRead`, `SignalCommit`; `ConfirmRead`, `ConfirmCommit` |
| removal requests and their review | `SubmitRemoval`, `ReviewRemoval` |
| time; the organiser; the undo; the gate; blocks | `PhasePasses`; `Reschedule`; `UndoCheckIn`; `GateTurns`; `BlockTurns` |
| a lost worker | `Crash` (its transaction rolls back) |

The phase is worked out again under the locks, but from the event as the request
loaded it: the clock's progress is seen, an organiser's edit since then is not.
`Reschedule` marks the requests it overtakes (`edited`), and `PhaseNow` lets their
re-check come out either way.

Rows that nobody has yet are not inserted twice: the insert happens under the two
locks. An encounter is one row per pair across all events.

### QuizRotation and QuizNight

`QuizRotation` gives the arithmetic of `generate_rotation_schedule` and of
`assign_table_on_checkin`: men stay, women move on by one or two tables
(`ManTable`, `WomanTable`), the order comes from the round-0 rows (`ManKey`,
`WomanKey`), and `Schedule` rebuilds the rounds from a given one on. `QuizNight`
has two kinds of job: a host's socket handles one message at a time; a clerk is an
HTTP request. Every transaction there locks the quiz row first, so one transaction
is one step; what was read before the lock is in the job.

| Code | Actions |
|---|---|
| check-in and `assign_table_on_checkin`; `release_table_on_undo` | `CheckInBegin`, `CheckInSeat`; `Undo` |
| `manual_assign_table` | `AssignBegin`, `AssignSeat`, `AssignBuild` |
| `dissolve_table`, `consolidate_tables` | `Dissolve`; `ConsolidateBegin`, `ConsolidateMove`, `ConsolidateBuild` |
| `start_quiz_from_first_round` | `Start`, `Look`, `Build`, `Save` |
| `handle_next_question`, `handle_rotate` | `NextBegin`, `NextAdvance`; `RotateBegin`, `RotateAdvance`, `Look`, `Build`, `Save` |
| `set_quiz_status`, `handle_set_round`, `reset_quiz_to_draft` | `StatusBegin`, `StatusRead`, `StatusWrite`; `ReselectBegin`, `ReselectWrite`; `Reset` |
| `handle_score_table`, `score_table_for_question` | `ScoreBegin`, `ScoreWrite` |

A *floor* is what one such transaction reads and writes; nested calls
(`generate_rotation_rounds`, the cascade of a deleted table) are functions from a
floor to a floor, and `SetFloor` is the commit.

### CrushConnect

| Code | Actions |
|---|---|
| `get_or_create_daily_drop` | `DropBegin` (the pool), `DropOpen` (`get_or_create`, and the look for cards), `DropFill` (`recipients.set`) |
| `submit_gate_answers`, `send_spark` | `GateBegin` (the checks of view and service), `GateInsert` (the guesses stored, the drop claimed), `GateScore` (the stored guesses against the owner's gate of now, and the checks of the spark), `GateCommit` |
| a new choice of questions (`_save_picks`) | `RepickBegin` (what it deletes), `RepickCommit` |
| `respond_to_spark` | `RespondBegin`, `RespondWrite` |
| `propose_coach_pick`, `respond_to_coach_pick` | `ProposeBegin`, `ProposeWithdraw`, `ProposeCreate`; `PickRespondBegin`, `PickRespondWrite` |
| `block_user`, `unblock_user`, exclusion and purge | `BlockMember`, `Unblock`, `Exclude`, `Clear` |
| time, readmission, a coach assigned | `NewDay`, `Readmit`, `Mentor` |

A gate is a set of questions with the owner's true answers, a guess a question with
the reader's answer. The first guess at a question stays (`bulk_create` ignores
conflicts), and what is scored is every stored guess against the owner's gate of that
moment. An owner who chooses again deletes the guesses at questions dropped or
answered differently, and this retires the old reading: who misread may guess again
and spark. `edition` counts an owner's choices, and `misread` and `read` keep which of
them somebody has missed or read; all three are history. `OnlyReadersSpark` is about
one edition.

PostgreSQL makes an insert wait for an uncommitted one on the same unique key, and
an update or an insert for an uncommitted update or delete of the same row: `Holds`
and `Waits` say which transactions of the gate keep which others waiting, and
`GateCommit` cannot lose what `GateInsert` wrote. A guess that somebody adds between a
new choice's delete and its commit is not waited for. In the same way a visit that makes a drop's row keeps the others from it
until it commits (`Making`). All other requests read and write without a lock. A drop
is `"full"` once the visit that made it found members, `"empty"` when it found none;
`DropPinned` is about the full ones (section 5 has the others).

### CrushLeads

| Code | Actions |
|---|---|
| `request_connection`, `declare_crush` | `DeclareBegin` (the view's checks), `DeclareCount` (under the registration's lock), `DeclareCreate` (with any routing) |
| `coach_connection_review` | `CoachBegin` (what the page checks), then `SaveNotes`, `Approve`, `Claim`, `StartReview`, `ScheduleCall`, `LogCall`, `RecordConsent`, `RecordAnswer`, `Share` |
| `coach_crush_outreach_task` | `CoCoachAnswers` |
| `connection_detail`: a member's consent after an introduction | `MemberConsentBegin`, `MemberConsentSave` |
| a block, `terminate_active_connections` | `BlockBegin`, `BlockTerminate` |
| `sweep_lead_reminders` | `SweepScan`, `SweepClaim`, `SweepSkip`, `SweepRecheck`, `SweepDeliver` / `SweepFail`, `SweepRelease`, `SweepCrash` |

Stamps are named after the sweep that set them, because the code compares the time
it wrote. A sweep lists the due leads once (`todo`) and takes them in the order they
were declared (`Earliest`, `Turned`). `arming` counts how often a call logged as
missed cleared the stamp; `told` is history.

## 3. Runs

Every bound is a constant in a `.cfg`. Two jobs are enough for each race the code
guards against, since a lock or a unique key orders two holders; a third actor is
always present in SumUp, the customer, the staff, the other members or the clock.

| Run | Question | Bounds |
|---|---|---|
| `pay_races` | safety of rows and seats; every step is a step of the ledger or invisible to it | 2 checkouts, 1 seat, 2 jobs, two fees, any disturbance once, one refused card |
| `pay_live` | no request stuck; one question to SumUp about a captured checkout books it | 2 checkouts, one crash or one lost call |
| `seats_door` | paid rows; undo of status and coach | 2 members, 2 jobs, 2 disturbances, all stages |
| `seats_desk` | capacity against any staff edit; every request at the desk and the door ends | 2 members, 2 jobs, capacities 1 and 2, 1 disturbance, all stages |
| `seats_live` | reserved block, order of the waitlist; a freed seat is taken | 3 members (1 premium), 1 reserved seat, pools of one, capacities 1 and 2, 2 changes |
| `lobby` | mutuality, quota, removal, presence, deadlock; signals implement `MutualConsent` | 3 members, 1 event, 2 requests, 1 disturbance, a quota of one; blocks only of pairs that tap |
| `quiz` | who left is nowhere; nobody moves in mid-round; the leaderboards agree | 5 members, 4 tables, 2 rounds of 1 question, 1 host tab, 2 requests, 2 corrections |
| `connect` | one read per drop; a spark takes a reading, never a second guess; drops stay | 1 receiver and 3 candidates, one of them the coach, 2 days, drops of 2 cards, gates of 2 questions, 2 replies, 2 requests, 2 drops or changes in all |
| `leads_desk` | one crush; two coaches for two halves; closed stays closed | 2 leads of one member, 2 coaches, 2 requests, 5 coach actions, 1 block or change of coach |
| `leads_reminded` | told once per arming; a reminder comes | leads of 2 members, 2 coaches, 2 sweeps, 1 request, 1 coach action, 1 change, 1 sweep killed |

What the bounds must reach: `pay_races` opens the second checkout while the first is
being paid, withdrawn or refused, and moves the seat in between. Four tables and
five members in `quiz` let a table be dissolved and the plan be consolidated while
enough tables and people remain for a rotation, and let one person come late; two
corrections allow an undo or a move followed by a rebuild or a re-scored table. A
quota of one in `lobby` is full at the second tap; a third member who is outside at
the start lets a tap meet a full quota and a late check-in; and one disturbance (an
undo, a change of gate, block or time) falls anywhere in two requests, while
check-ins, removals, reviews and the clock are not bounded. Two disturbances
together are for the theorems, which have every property of this run. Two days and
two drops in `connect` give the receiver a second chance at somebody they misread,
and one drop with one new choice of questions puts the choice anywhere in a reading;
of the two replies a gate of two yeses takes one as read and one as missed, and a
new choice may turn either round; three candidates for two cards let two visits draw
differently. Two requests in `seats_desk` are a scan and a cancellation of one row
that meet head-on. Five coach actions are the longest path to an introduction's last
consent. One member with two leads shows the limit in `leads_desk`; two members let
two sweeps meet in `leads_reminded`.

Two runs are expected to end in a violation; each shows a disagreement between the
code and a sentence of the repository, quoted under `findings`:

| Run | What it shows |
|---|---|
| `pay_two_open` | two overlapping requests leave two chargeable checkouts for one seat |
| `quiz_two_tabs` | two host tabs that rotate together skip a round |

Two smaller disagreements met while modelling have no run. The docstring of
`deactivate_checkout` (`services/sumup.py:161`) says that its caller marks a row it
could not withdraw FAILED; the caller leaves it PENDING, on purpose
(`CreateCannotDeactivate`), and `CaptureNotLost` depends on that. A comment
(`models/events.py:753`) says that a row that is not attended carries no check-in
record; `move_to_waitlist` and an edited status leave one (`StaffSets`).

Passing runs state properties only where they hold, and say so:

- `seats_door` assigns coaches only while no request is about the member (the
  disturbance `"quiet coach"`): the scanner writes the coach by what it read without
  a lock. The stale check-in record is kept out of that run by leaving out the
  desk's edits.
- The order of the waitlist and `FreedSeatIsTaken` are about the stage before the
  door opens, because an undo to the waitlist, a no-show or a walk-up deliberately
  leaves seats and order to the coach.
- `AdmittedWithinCapacity` is about the members the system itself seated: an
  organiser may lower the capacity, confirm rows by hand and wave walk-ups in, and
  the code does not claim otherwise; what it may never do is add a seat of its own
  beyond the limit.
- `NobodyMovesMidRound` excepts a rotation that found its round without rows and is
  making them, and in the
  first round a member whose chair went with a dissolved table. `CreditsAgree` is
  about tables still in use, and in the first round about members who sit at the
  table scored. Section 5 has what happens to the others; both exceptions were found
  in the proofs and are out of reach of the bounds of `quiz`.
- A rotation that comes between a consolidation's move and its rebuild is the
  operation `"overtake"` of `QuizNight`: `RotateAdvance` has it, `quiz` leaves it out,
  and the theorems about moves and points say so in their hypotheses. The rebuild is
  then a round late and moves people who already sit (section 5).
- In `quiz` there is one host tab; two are the business of `quiz_two_tabs`. Members
  first arrive in the order of their numbers, and staff place people at the top
  table of their page.
- `OneCoachPerHalf` is about the requests of coaches and members; the management
  command that backfills co-coaches is not modelled.

`CHECK_DEADLOCK FALSE` where an evening really ends: once the event has started
and the bounds are used up, nothing more need happen. The payment runs keep the
check.

### Fairness

`SumUpCheckout!FairSpec` and `EventSeats!FairSpec` give strong fairness to the steps
of each job: a worker that runs keeps running, and PostgreSQL grants a row lock in
the order of its queue, so a request that could go on again and again does. A
circle of waits at the door lasts until PostgreSQL's `deadlock_timeout` ends it, so
`Aborted` is one of these steps. Nothing is assumed of who asks SumUp, or that anybody
does: the webhook answers 200 even when its own question failed, the page polls for
some minutes, and no timer reconciles. `AskedIsBooked` therefore does not say that
every capture is booked, but that a question about a captured checkout books it unless
a crash or a lost call comes between.

`CrushLeads!FairSpec` has weak fairness for each request and each sweep: the timer
starts a sweep every hour, and a sweep runs to its end, but may stop early when its
time is used up. Strong fairness for a push of each lead: a device that never
accepts one is deleted after five failures, and a coach without a device counts as
told, so pushes do not fail for ever. A sweep that dies keeps its stamp and the
code has nothing that clears it: `ReminderComes` excepts that.

There is no fairness for arrivals, customers, organisers, staff, crashes or time.

## 4. Proofs

The theorems hold for any sets of members, checkouts, requests, coaches and so on,
and any bounds, that satisfy the named assumption of the module
(`BoundsAssumption`, `SeatsAssumption`, `LobbyAssumption`, `QuizAssumption` with
`NightAssumption`, `ConnectAssumption`, `LeadsAssumption`). Each module of proofs has
the same outline: an inductive invariant, a lemma per action or per kind of action,
one lemma that joins them over `Next`, and theorems that follow from the invariant.

**SumUpCheckoutProofs.** `Invariance` (`Spec => []IInv`); the safety invariants
`TypeCorrect`, `CapturesSurvive`, `PaidMeansCaptured`, `PaidIsSilent`,
`WithdrawnStaysDead`, `SeatsArePaidFor`, `LocksInOrder`, `MailsCountPayments`; the
action properties `SettledRowsStay`, `PaymentsSpareSeats`; `Refinement` of the
ledger. That a capture is not lost depends on what a request in flight
believes. `IInv` adds to `TypeOK` what a row and its checkout say of each other
(`RowOK`), what a request may rely on at each point (`JobOK`: an answer "paid" or
"dead" stays true because SumUp's end states are final; the rows a creator is about
to withdraw are locked by it and still PENDING), and which requests hold locks
(`LockOK`). For the mails, `MailInv` adds that a request about to apply a payment has
a row that is not paid yet: its commit adds one to the paid rows of the registration
and at most one mail.

**EventSeatsProofs.** `SeatsInvariant`, `SeatsTypeCorrect`, `SeatsWithinCapacity`,
`SeatsWithinPools`, `LocksMeetAtTheScanner`, and `PaidStaysSettled` under the assumption that organisers do
not set statuses by hand (`"desk"` is no disturbance): the admin lets them put a
paid row back to Pending Payment. A seat is decided in one step and written in a
later one, with other requests in between. `SeatsInv` says why the limit is kept:
one request at a time holds the event's row (`LocksOK`), and the room it decided on
is still there when it commits (`RoomKept`), for a sign-up's one row and for all a
promotion has chosen. Every step of somebody else keeps the room, because it
touches no locked row and seats nobody the rules count. `LocksMeetAtTheScanner` says
how far the lock order reaches: of two requests that wait for each other exactly one
scans a ticket, so the scanner's order is the only cause of `Aborted`.

**EventSeatsRulesProofs.** Four action properties, each from an invariant of its own
beside `SeatsInv`, under hypotheses about `Disturbances`; without them the property
is false.

| Theorem | Invariant | Hypotheses |
|---|---|---|
| `UndoesRestoreStatus` | `DoorInv`: an attended row remembers what it was, and a request at the door has the row as it found it | no `"desk"` |
| `UndoesRestoreCoach` | `CoachInv`: such a request writes the coach that it saw and that is still the member's, and an attended row knows whether its check-in granted one | no `"desk"`, no `"coach"` |
| `WaitlistInOrder` | `OrderInv`: a promotion that has chosen a member left nobody waiting before them with the same claim | no `"desk"`, no `"coach"`, no `"quiet coach"` |
| `BlockHeldBack` | `ReserveInv`: who signs up as premium stays so until the commit, and what a sign-up or a promotion decided for somebody without a coach still leaves the block alone | no `"desk"`, no `"coach"` |

An organiser who sets a status by hand leaves the check-in record of the status
before. A coach assigned while a request is between its look at the profile and its
commit is overwritten, and the undo then takes from a sign-up in progress the coach
it counted on. A member who becomes premium between a promotion's choice and its
commit changes who comes first.

**EventLobbyProofs.** `LobbyInvariant`, `LobbyTypeCorrect`, `QuotaKept`,
`RevealsAreMutual`, `EncountersAreMutual`, `NoDeadlockOnRows`, `HiddenStaysHidden`,
`WrittenArePresent`, and `SignalsRefineConsent`: the lobby's signals implement
`MutualConsent`. The invariant says that locks exclude each other
(`LocksExclusive`), that the rows held belong to members who are in
(`HeldArePresent`), and that what a request has read under them still holds when it
writes (`ReadStillTrue`); from this a quota counted before the insert is right
after it, and the second of two crossing signals sees the first.

**QuizNightProofs.** `NightInvariant`, `NightTypeCorrect`, `AbsentAreNowhere`. The
steps rebuild whole schedules, so the argument is about floors: `Floors` are the
well-formed ones on which nobody absent has a seat, and each nested call takes a
floor of that kind to another (`CascadedSound`, `BuiltSound`, `ReseatedSound`,
`SeatedSound`; `PlannedTables` is the arithmetic of the plan). Jobs are typed
(`Task`), since a late step uses the member, table or moves it remembers.

**QuizNightRulesProofs.** `FloorInvariant`, `RoundsAreLeftAlone`,
`PointsFollowCorrections`, for any number of requests at the door and the desk and
one host connection. Every transaction but the building of a round either keeps the
rows of the round in play (`Keeps`; a lemma for each, from what `Cascaded`, `Built`,
`Reseated` and `Seated` do to a floor) or moves only members without a seat there.
`FloorInv` adds to `NightInv` that chairs and rows name tables that exist
(`WellSeated`) and that what a job remembers still fits (`Fits`): the host's round
and question are the current ones, a reselection names the round in play, a
consolidation rebuilds nothing behind a running round, two check-ins are of two
members. `ScoreInv` adds what ties a credit to a table's score: one mark per table
and question, a mark for each credit, a rotation under way only before its round has
credits, and a credited member still in the table's team, so that a correction
reaches them.

Both theorems need the one connection, and that no rotation overtakes a
consolidation's rebuild (`"overtake"` is no operation). A second tab's `start` that looked at a draft
makes the rounds from the second one anew when the first tab has already moved on to
it, after a late arrival and an undo changed the plan; and a second tab's rotation
that looked at a round without rows builds it after the first one scored in it.
`PointsFollowCorrections` also leaves out the rehearsal, whose reset keeps the scores
of rounds that are then made anew.

**CrushConnectProofs.** `ConnectInvariant`, `ConnectTypes`, `SparksFollowTheRead`,
`SparksTakeAReading`, `DropsStayPinned`, for any number of members, pools and drops
of any size, whatever a draw takes from the pool, and whatever owners choose anew.
Besides the two properties (`SparksOK`) the invariant says what a gate transaction
that is about to commit relies on (`JobsOK`: the drop it claims is still free), and
that two of them never claim the same drop or add a guess at the same question, which
is what the conditional update and the unique key give. `ReadingOK` ties the stored
guesses to history: what a transaction adds are first guesses that nobody else adds
(`AddsOK`); of one edition nobody has both misread and read, and while the owner keeps
it the stored guesses still say which (`VerdictsOK`, for the requests about to commit
`CommitsOK`); and every spark has a reading (`SparksRead`). `OneVerdict` is why guessing
again gains nothing: two sets of first guesses never give one gate a miss and a
reading. `OtherGuesses` and `MoreGuesses` carry a miss and a reading through the other
requests' inserts. For `DropPinned` it says that one visit at most makes a drop and
that every other visit about to fill one found it made and empty (`FillsOK`), which a
full drop never is (`Stocked`).

**CrushLeadsProofs.** `LeadsInvariant`, `CrushesAreSingle`, `HalvesHaveTwoCoaches`,
`ClosedStaysClosed`. `Move(a, b)` is what any request may make of a row: it keeps
the two halves apart, a closed status and an answer; each action is shown to be
such a move, and what a job remembers of a row stays true under moves (`JobOK`).
`OneCounter` says that one request at a time counts a member's crushes.
`LeadsTypeCorrect` needs what ties the queue to the leads (`QueueOK`), a sweep to the
leads it still has to do (`SweepsOK`), and the counts of calls logged as missed to the
actions that are left (`CountOK`). `RemindersAreSingle` follows from `ToldInv`: a
sweep that has claimed a lead for an arming finds nobody told of that arming, a lead
without a stamp is one whose current arming nobody told of and nobody holds, and a
stamp is given back only by the sweep that set it.

Model-checked only:

- all liveness (`JobsFinish` twice, `AskedIsBooked`, `FreedSeatIsTaken`,
  `ReminderComes`): liveness under fairness and `ENABLED` are beyond the
  prover;
- what the two runs expected to fail refute (`OnlyNewestPayable`, `RoundsPlayedOut`).

All other properties of the passing runs are theorems, some under the hypotheses
named above.

## 5. Races the code lives with

While modelling, these orders of steps turned up that the code does not exclude and
no document of the repository denies, but for the first of Crush Connect. Those of a
modelled part are behaviours of
its module; no property is stated of them.

- **Seats.** A ticket's row is judged before the lock, and a row cancelled in
  between is checked in (`views_checkin.py:398`). Signing up again saves the whole
  cancelled row as it was read, over a payment recorded by hand
  (`views_events.py:1193`); an admin list edit does the same over a card payment
  (`admin/events.py:1284`). Premium status is read before the event's lock
  (`views_events.py:1150`). A scan locks the registration and then the event, since
  its `FOR UPDATE` names no table (`views_checkin.py:422`); a cancellation by the
  member locks the event first (`views_events.py:1266`). If both are about one row
  at once, one of the two requests fails. A member who gains a coach while waiting is offered
  nothing (`models/profiles.py:2632`).
- **Payment.** The webhook answers 200 when its own question to SumUp failed
  (`views_payments.py:1352`). The premium branch and account merge take their row
  locks in different orders (`views_payments.py:801`).
- **Lobby.** The transaction looks again at check-in and encounter, not at blocks or the
  gate (`services/event_lobby.py:649`). It looks again at the phase too, but of the
  event as loaded before the locks (l.695, l.1125): an event that the organiser has
  moved or called off meanwhile still takes the signal or the confirmation.
- **Quiz.** Two tabs that ask for the next question move the index twice
  (`consumers.py:1288`); a status is read and later saved without a lock
  (`consumers.py:1212`); a rebuild that fails for a late arrival leaves a chair
  without a table in the rounds to come (`services/quiz_rotation.py:332`); a reset
  that keeps the scores keeps a rehearsal's (`services/quiz_rotation.py:843`).
  A correction is written to the members the round's rows name
  (`consumers.py:1545`), not to those who were credited: after the table is
  dissolved and a member has no row there, their old points stay, although the
  comment (l.1528) promises leaderboards that "reflect the corrected state". A member whose
  table was dissolved keeps a round-0 row and no chair; after a reset to draft and a
  consolidation staff may place them elsewhere while the first round runs
  (`services/quiz_rotation.py:1152`). A consolidation moves chairs in one transaction
  and rebuilds the rounds in the next (`services/quiz_rotation.py:1516`); a rotation
  between the two starts a round that the rebuild then changes under those who sit.
- **Crush Connect.** A drop whose first visit found nobody is drawn twice when two
  visits waited for that one and the pool has filled since: both see no cards
  (`services/crush_connect.py:513`), and the second replaces what the first returned
  or adds to it, against "refreshing the page never re-rolls the Drop" (l.434). Two
  members who read each other at once open two sparks
  (`services/crush_connect.py:695`); a coach in two tabs leaves two open picks
  (l.1116); the last of two answers wins (l.767, l.1171).
  Guesses committed while an owner's new choice of questions is being saved survive
  its delete and are scored against the new answers, although the comment
  (`forms_crush_connect.py:494`) has the old reading retired; two new choices in two
  tabs replace each other, or one fails on the unique key.
- **Leads.** A coach's notes from an old page take over a lead
  (`views_coach.py:4331`); a block between a declaration's check and its insert
  leaves the lead open (`views_connections.py:328`); a coach who loses a lead
  within the last unlocked look is still told (`services/crush_leads.py:387`).
- **Elsewhere.** Two confirmations for one coach with one place left
  (`models/profiles.py:2612`); an approval bonus tested on an unlocked row
  (`referrals.py:353`).

## 6. Not modelled

- **Payment**: the donation and premium branches of the handlers; currencies and
  reference strings; the owner and staff checks of each view.
- **Seats**: the scan of a row already attended (`views_checkin.py:344`, which can
  only verify the member), the user's row that the scanner locks last and nothing
  else here takes; age, invitations, guests, hunt teams, verification at the door,
  e-mails and passes. Under gender limits every member has a gender; a waiting
  member without one is passed over by the code. A crash between an organiser's
  cancellation and its callback loses the offer; the model has the crash, but
  `seats_live` leaves it out, since nothing in the code would retry.
- **Lobby**: profile cards, broadcasts, the recap's notifications.
- **Quiz**: the REST endpoint that scores a table (`api_quiz.py:314-487`, a twin of
  the socket's handler), the admin's edits of tables and rounds, individual
  answers, members without a gender the roles know.
- **Crush Connect**: onboarding (every member has a gate already), preferences, the
  weekly catalogue of questions. The weights of the draw are left open: any draw of
  the right size is possible. The checks of a view and of the service it calls are
  one step; a repeated POST of a spark already sent is left out, which the view refuses
  (`views_crush_connect.py:1095`). A request's profiles may be older than its
  transaction, and `GateScore` allows both outcomes; the owner's questions and the
  guesses it scores are read in one step.
- **Leads**: the other flows of `EventConnection`, messages, the choice of a coach
  when a lead is routed (any is possible here), the 200 leads a sweep looks at, the
  command that backfills co-coaches.
- **Premium** appears only by its effect, a member who gains a coach. Its own state
  is one membership row and a coach's capacity, both changed under the coach row's
  lock; the lock order of its payment branch is listed as a hazard.
- **The rest of the inventory**: workflows of one person (profile review, journeys,
  onboarding), content sites, clients of external services and reports, where
  interleavings decide nothing; and account merge and deletion, which are long
  sequences over nearly every table. `PROJECT.json` gives the reason for each.
