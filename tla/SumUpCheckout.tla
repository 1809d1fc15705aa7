---------------------------- MODULE SumUpCheckout ----------------------------
(***************************************************************************)
(* Card payment of an event seat (crush_lu/views_payments.py and           *)
(* crush_lu/services/sumup.py).  A job is one HTTP request or management    *)
(* command in one worker process; a step of a job is what it does between   *)
(* two points where another process can run: a row lock it waits for, a    *)
(* commit, or a call to SumUp.  The provider and the customer in front of  *)
(* the card widget act between any two steps of ours.                      *)
(***************************************************************************)
EXTENDS Naturals, FiniteSets

CONSTANTS Checkouts,   \* identifiers SumUp may give to new checkouts (a bound)
          Regs,        \* registrations of the one event modelled
          Jobs,        \* requests in progress at one time (a bound)
          Creators,    \* the jobs that may open a checkout
          Fees,        \* the fees an organiser may set
          Disturbances, \* what the surroundings may do: see Disturb
          MaxTries,    \* declined cards per checkout (a bound)
          MaxMoves,    \* disturbances of the surroundings (a bound)
          None         \* no job, no registration, no checkout

ASSUME BoundsAssumption ==
    /\ Creators \subseteq Jobs
    /\ Fees \subseteq Nat /\ Fees # {}
    /\ MaxTries \in Nat /\ MaxMoves \in Nat
    /\ None \notin Jobs /\ None \notin Regs /\ None \notin Checkouts

VARIABLES prov,        \* SumUp: prov[c] = state of checkout c and its declines
          tx,          \* table PaymentTransaction
          reg,         \* table EventRegistration (status, payment_confirmed)
          cardMails,   \* confirmation mails queued by a card payment
          fee, off,    \* table MeetupEvent (registration_fee, is_cancelled)
          txLock, regLock,   \* row locks: the job that holds each, or None
          job,         \* the requests in progress
          moves        \* disturbances so far

provVars == prov
tableVars == <<tx, reg, cardMails>>
eventVars == <<fee, off>>
lockVars == <<txLock, regLock>>
vars == <<prov, tx, reg, cardMails, fee, off, txLock, regLock, job, moves>>

SeatHolding == {"confirmed", "attended", "pending"}   \* SEAT_HOLDING_STATUSES
RegStatuses == SeatHolding \cup {"waitlist", "cancelled", "no_show"}
ProvStates == {"none", "open", "paid", "dead"}   \* dead: FAILED, CANCELLED, EXPIRED
TxStatuses == {"none", "pending", "paid", "failed", "cancelled"}
\* The two halves of failure_reason: the provider's account and the widget's.
Reasons == {"", "attempts", "terminal", "superseded"}
Notes == {"", "shown"}
Pcs == {"idle", "locktx", "lockreg", "deactivate", "create", "ask", "applytx",
        "applyreg", "terminal", "declined", "note", "refreshask", "refresh"}

ProvType == [state : ProvStates, tries : Nat]
TxType == [status : TxStatuses, reg : Regs \cup {None}, amount : Nat, seen : Nat,
           reason : Reasons, note : Notes]
\* byHand is history: an organiser, not a card payment, set paid.
RegType == [status : RegStatuses, paid : BOOLEAN, byHand : BOOLEAN]

\* A job: its program counter, the registration and the checkout it is about,
\* the older checkouts it still has to withdraw and those it has withdrawn,
\* the price it will charge, SumUp's answer, the row status it read before
\* asking, and whether it goes on to write the widget's note.
JobType == [pc : Pcs, reg : Regs \cup {None}, on : Checkouts \cup {None},
            olds : SUBSET Checkouts, killed : SUBSET Checkouts, quote : Nat,
            ans : ProvStates, tries : Nat, was : TxStatuses, noting : BOOLEAN]

IdleJob == [pc |-> "idle", reg |-> None, on |-> None, olds |-> {}, killed |-> {},
            quote |-> 0, ans |-> "none", tries |-> 0, was |-> "none", noting |-> FALSE]

NoRow == [status |-> "none", reg |-> None, amount |-> 0, seen |-> 0,
          reason |-> "", note |-> ""]

Init == /\ prov = [c \in Checkouts |-> [state |-> "none", tries |-> 0]]
        /\ tx = [c \in Checkouts |-> NoRow]
        /\ reg = [r \in Regs |-> [status |-> "pending", paid |-> FALSE, byHand |-> FALSE]]
        /\ cardMails = [r \in Regs |-> 0]
        /\ fee \in Fees
        /\ off = FALSE
        /\ txLock = [c \in Checkouts |-> None]
        /\ regLock = [r \in Regs |-> None]
        /\ job = [j \in Jobs |-> IdleJob]
        /\ moves = 0

-----------------------------------------------------------------------------
(* Rows, locks and jobs *)

Pending(r) == {c \in Checkouts : tx[c].reg = r /\ tx[c].status = "pending"}

\* Re-read under the row lock: has the row moved since it was loaded?
StillPending_blind(c) == TRUE
StillPending(c) == tx[c].status = "pending"
AlreadyPaid_unchecked(c) == FALSE
AlreadyPaid(c) == tx[c].status = "paid"

\* What a transaction's end does to its locks, by commit or by rollback.
Released(lock, j) == [x \in DOMAIN lock |-> IF lock[x] = j THEN None ELSE lock[x]]
EndTransaction(j) == /\ txLock' = Released(txLock, j)
                     /\ regLock' = Released(regLock, j)

At(J, pc) == [J EXCEPT !.pc = pc]
Goto(j, pc) == job' = [job EXCEPT ![j] = At(@, pc)]
Finish(j) == job' = [job EXCEPT ![j] = IdleJob]
\* A report writes its note after the sync it asked for; the rest are done.
AfterSync(j) == IF job[j].noting THEN Goto(j, "note") ELSE Finish(j)

\* Something outside the payment code happens; the bound MaxMoves caps these.
Disturb(kind) == /\ kind \in Disturbances
                 /\ moves < MaxMoves
                 /\ moves' = moves + 1

-----------------------------------------------------------------------------
(* The customer at the widget, and the provider's clock.  Only a checkout   *)
(* whose row is committed has a widget page.                               *)

Payable(c) == prov[c].state = "open" /\ tx[c].status # "none"

CustomerPays(c) == /\ Payable(c)
                   /\ prov' = [prov EXCEPT ![c].state = "paid"]
                   /\ UNCHANGED <<tableVars, eventVars, lockVars, job, moves>>

CardDeclined(c) == /\ Payable(c)
                   /\ prov[c].tries < MaxTries
                   /\ prov' = [prov EXCEPT ![c].tries = @ + 1]
                   /\ UNCHANGED <<tableVars, eventVars, lockVars, job, moves>>

CheckoutExpires(c) == /\ Payable(c)
                      /\ prov' = [prov EXCEPT ![c].state = "dead"]
                      /\ UNCHANGED <<tableVars, eventVars, lockVars, job, moves>>

-----------------------------------------------------------------------------
(* create_sumup_event_checkout: one transaction, with calls to SumUp inside *)

\* The statement's snapshot: the rows that are PENDING when it starts.  Rows
\* committed later, by a job this one then waits for, are not among them.
CreateBegin_registrationFirst(j, r) ==
    /\ job[j].pc = "idle" /\ j \in Creators
    /\ regLock[r] = None
    /\ regLock' = [regLock EXCEPT ![r] = j]
    /\ job' = [job EXCEPT ![j] = [IdleJob EXCEPT !.pc = "locktx", !.reg = r,
                                                 !.olds = Pending(r)]]
    /\ UNCHANGED <<provVars, tableVars, eventVars, txLock, moves>>
CreateBegin(j, r) ==
    /\ job[j].pc = "idle" /\ j \in Creators
    /\ job' = [job EXCEPT ![j] = [IdleJob EXCEPT !.pc = "locktx", !.reg = r,
                                                 !.olds = Pending(r)]]
    /\ UNCHANGED <<provVars, tableVars, eventVars, lockVars, moves>>

Holding(J, live) == [J EXCEPT !.pc = "lockreg", !.olds = live]

\* FOR UPDATE: wait for every row, then keep those that are still PENDING.
CreateLockTxs(j) ==
    LET live == {c \in job[j].olds : StillPending(c)} IN
    /\ job[j].pc = "locktx"
    /\ \A c \in job[j].olds : txLock[c] = None
    /\ txLock' = [c \in Checkouts |-> IF c \in live THEN j ELSE txLock[c]]
    /\ job' = [job EXCEPT ![j] = Holding(@, live)]
    /\ UNCHANGED <<provVars, tableVars, eventVars, regLock, moves>>

Eligible(r) == /\ ~reg[r].paid
               /\ reg[r].status \in {"pending", "confirmed"}
               /\ ~off
               /\ fee > 0

CreateLockReg(j) ==
    /\ job[j].pc = "lockreg"
    /\ regLock[job[j].reg] \in {None, j}
    /\ IF Eligible(job[j].reg)
       THEN /\ regLock' = [regLock EXCEPT ![job[j].reg] = j]
            /\ Goto(j, "deactivate")
            /\ UNCHANGED txLock
       ELSE EndTransaction(j) /\ Finish(j)
    /\ UNCHANGED <<provVars, tableVars, eventVars, moves>>

\* deactivate_checkout at SumUp, and what the loop makes of its answer.
Deactivated(c) == [prov EXCEPT ![c].state = "dead"]
Answered_closing(J, c, ok) ==
    [J EXCEPT !.olds = @ \ {c}, !.killed = @ \cup {c}]
Answered(J, c, ok) ==
    [J EXCEPT !.olds = @ \ {c}, !.killed = IF ok THEN @ \cup {c} ELSE @]

\* SumUp accepts to withdraw any checkout that has not been paid.
CreateDeactivates(j, c) ==
    /\ job[j].pc = "deactivate" /\ c \in job[j].olds
    /\ prov[c].state # "paid"
    /\ prov' = Deactivated(c)
    /\ job' = [job EXCEPT ![j] = Answered(@, c, TRUE)]
    /\ UNCHANGED <<tableVars, eventVars, lockVars, moves>>

\* SumUp refuses: the checkout was just paid, or is dead already.
CreateCannotDeactivate(j, c) ==
    /\ job[j].pc = "deactivate" /\ c \in job[j].olds
    /\ prov[c].state \in {"paid", "dead"}
    /\ job' = [job EXCEPT ![j] = Answered(@, c, FALSE)]
    /\ UNCHANGED <<provVars, tableVars, eventVars, lockVars, moves>>

\* The call fails on the network, before or after SumUp acted on it.
CreateDeactivationLost(j, c) ==
    /\ job[j].pc = "deactivate" /\ c \in job[j].olds
    /\ Disturb("network")
    /\ prov[c].state = "open"
    /\ prov' \in {prov, Deactivated(c)}
    /\ job' = [job EXCEPT ![j] = Answered(@, c, FALSE)]
    /\ UNCHANGED <<tableVars, eventVars, lockVars>>

Superseded(row) == [row EXCEPT !.status = "cancelled", !.reason = "superseded",
                               !.note = ""]

\* The rows this transaction withdrew, as its commit writes them.
WithKilled(j) == [c \in Checkouts |-> IF c \in job[j].killed
                                      THEN Superseded(tx[c]) ELSE tx[c]]

Priced(J, price) == [J EXCEPT !.pc = "create", !.quote = price]

\* event.refresh_from_db() after the calls; a cancelled event ends it here,
\* and what was withdrawn stays withdrawn.
CreateRecheck(j) ==
    /\ job[j].pc = "deactivate" /\ job[j].olds = {}
    /\ IF off
       THEN tx' = WithKilled(j) /\ EndTransaction(j) /\ Finish(j)
       ELSE /\ job' = [job EXCEPT ![j] = Priced(@, fee)]
            /\ UNCHANGED <<tx, lockVars>>
    /\ UNCHANGED <<provVars, reg, cardMails, eventVars, moves>>

NewRow(J) == [NoRow EXCEPT !.status = "pending", !.reg = J.reg, !.amount = J.quote]

CreateCommits(j, c) ==
    /\ job[j].pc = "create"
    /\ prov[c].state = "none"
    /\ prov' = [prov EXCEPT ![c].state = "open"]
    /\ tx' = [WithKilled(j) EXCEPT ![c] = NewRow(job[j])]
    /\ EndTransaction(j) /\ Finish(j)
    /\ UNCHANGED <<reg, cardMails, eventVars, moves>>

\* SumUpError, or an answer without an identifier: a 500 that still commits.
\* Also the outcome when the model has no identifier left to give.
CreateFails(j) ==
    /\ job[j].pc = "create"
    /\ \/ Disturb("network")
       \/ (\A c \in Checkouts : prov[c].state # "none") /\ UNCHANGED moves
    /\ tx' = WithKilled(j)
    /\ EndTransaction(j) /\ Finish(j)
    /\ UNCHANGED <<provVars, reg, cardMails, eventVars>>

-----------------------------------------------------------------------------
(* _sync_checkout_with_sumup, run by the webhook, the return URL (GET and   *)
(* POST), the widget's poll, the widget's failure report and the admin.     *)

\* The caller's unlocked read: only a PENDING row is asked about.
SyncBegin(j, c, report) ==
    /\ job[j].pc = "idle"
    /\ tx[c].status = "pending"
    /\ job' = [job EXCEPT ![j] = [IdleJob EXCEPT !.pc = "ask", !.on = c,
                                                 !.noting = report]]
    /\ UNCHANGED <<provVars, tableVars, eventVars, lockVars, moves>>

\* report_sumup_widget_failure on a settled row, or with its throttle taken.
ReportBegin(j, c) ==
    /\ job[j].pc = "idle"
    /\ tx[c].status # "none"
    /\ job' = [job EXCEPT ![j] = [IdleJob EXCEPT !.pc = "note", !.on = c]]
    /\ UNCHANGED <<provVars, tableVars, eventVars, lockVars, moves>>

\* What an answer of SumUp calls for.
Verdict_trusting(p) == "applytx"
Verdict(p) == CASE p.state = "paid" -> "applytx"
                [] p.state = "dead" -> "terminal"
                [] p.state = "open" /\ p.tries > 0 -> "declined"
                [] OTHER -> "nothing"

Heard(J, pc, p) == [J EXCEPT !.pc = pc, !.ans = p.state, !.tries = p.tries]

\* get_checkout: from here on the answer is as old as the lock is slow.
Ask(j) ==
    LET p == prov[job[j].on] IN
    /\ job[j].pc = "ask"
    /\ IF Verdict(p) = "nothing"
       THEN AfterSync(j)
       ELSE job' = [job EXCEPT ![j] = Heard(@, Verdict(p), p)]
    /\ UNCHANGED <<provVars, tableVars, eventVars, lockVars, moves>>

AskFails(j) ==
    /\ job[j].pc = "ask"
    /\ Disturb("network")
    /\ AfterSync(j)
    /\ UNCHANGED <<provVars, tableVars, eventVars, lockVars>>

\* _apply_paid_checkout, first lock: the payment row, unless already PAID.
ApplyLockTx(j) ==
    LET c == job[j].on IN
    /\ job[j].pc = "applytx"
    /\ txLock[c] = None
    /\ IF AlreadyPaid(c)
       THEN AfterSync(j) /\ UNCHANGED txLock
       ELSE Goto(j, "applyreg") /\ txLock' = [txLock EXCEPT ![c] = j]
    /\ UNCHANGED <<provVars, tableVars, eventVars, regLock, moves>>

\* May this capture confirm the seat it was made for?
Confirms_anyStatus(c) == LET r == tx[c].reg IN
    /\ ~off
    /\ tx[c].amount = fee
    /\ reg[r].status # "confirmed" \/ ~reg[r].paid
Confirms(c) == LET r == tx[c].reg IN
    /\ reg[r].status \in SeatHolding
    /\ ~off
    /\ tx[c].amount = fee
    /\ reg[r].status # "confirmed" \/ ~reg[r].paid

PaidRow_unsaved(row, tries) == row
PaidRow(row, tries) == [row EXCEPT !.status = "paid", !.seen = tries,
                                   !.reason = "", !.note = ""]

Confirmed(row) == [row EXCEPT !.paid = TRUE,
                              !.status = IF @ = "attended" THEN @ ELSE "confirmed"]

\* Second lock, the registration: decide on what it says now, and commit.
ApplyCommit(j) ==
    LET c == job[j].on
        r == tx[c].reg IN
    /\ job[j].pc = "applyreg"
    /\ regLock[r] = None
    /\ tx' = [tx EXCEPT ![c] = PaidRow(@, job[j].tries)]
    /\ IF Confirms(c)
       THEN /\ reg' = [reg EXCEPT ![r] = Confirmed(@)]
            /\ cardMails' = [cardMails EXCEPT ![r] = @ + 1]
       ELSE UNCHANGED <<reg, cardMails>>
    /\ EndTransaction(j) /\ AfterSync(j)
    /\ UNCHANGED <<provVars, eventVars, moves>>

Closed(row, tries) == [row EXCEPT !.status = "failed", !.seen = tries, !.reason = "terminal"]
Refused(row, tries) == [row EXCEPT !.seen = tries, !.reason = "attempts"]
Noted(row) == [row EXCEPT !.note = "shown"]

\* _record_terminal_failure: close the row, unless it moved meanwhile.
RecordTerminal(j) ==
    LET c == job[j].on IN
    /\ job[j].pc = "terminal"
    /\ txLock[c] = None
    /\ tx' = IF StillPending(c)
             THEN [tx EXCEPT ![c] = Closed(@, job[j].tries)]
             ELSE tx
    /\ AfterSync(j)
    /\ UNCHANGED <<provVars, reg, cardMails, eventVars, lockVars, moves>>

\* _record_pending_failure: a refused card on a checkout that stays open.
RecordDeclined(j) ==
    LET c == job[j].on IN
    /\ job[j].pc = "declined"
    /\ txLock[c] = None
    /\ tx' = IF StillPending(c)
             THEN [tx EXCEPT ![c] = Refused(@, job[j].tries)]
             ELSE tx
    /\ AfterSync(j)
    /\ UNCHANGED <<provVars, reg, cardMails, eventVars, lockVars, moves>>

\* _append_widget_note: what the customer's browser was shown.
AppendNote(j) ==
    LET c == job[j].on IN
    /\ job[j].pc = "note"
    /\ txLock[c] = None
    /\ tx' = IF tx[c].status \in {"pending", "failed"}
             THEN [tx EXCEPT ![c] = Noted(@)] ELSE tx
    /\ Finish(j)
    /\ UNCHANGED <<provVars, reg, cardMails, eventVars, lockVars, moves>>

-----------------------------------------------------------------------------
(* refresh_sumup_snapshot: the Coach Panel's re-check of a settled row      *)

RefreshBegin(j, c) ==
    /\ job[j].pc = "idle"
    /\ tx[c].status \notin {"none", "pending"}
    /\ job' = [job EXCEPT ![j] = [IdleJob EXCEPT !.pc = "refreshask", !.on = c,
                                                 !.was = tx[c].status]]
    /\ UNCHANGED <<provVars, tableVars, eventVars, lockVars, moves>>

RefreshAsk(j) ==
    LET p == prov[job[j].on] IN
    /\ job[j].pc = "refreshask"
    /\ \/ /\ job' = [job EXCEPT ![j] = Heard(@, "refresh", p)]
          /\ UNCHANGED moves
       \/ Disturb("network") /\ Finish(j)
    /\ UNCHANGED <<provVars, tableVars, eventVars, lockVars>>

\* A row once SumUp's answer has been written to it, status apart.
Refreshed_inSumUpsWords(row, ans, tries) ==
    [row EXCEPT !.seen = tries, !.reason = ans]
Refreshed(row, ans, tries) ==
    [row EXCEPT !.seen = tries,
                !.reason = IF ans = "paid" THEN ""
                           ELSE IF row.status = "cancelled" THEN @
                           ELSE IF ans = "dead" THEN "terminal" ELSE "attempts",
                !.note = IF ans = "paid" THEN "" ELSE @]

RefreshWrite(j) ==
    LET c == job[j].on IN
    /\ job[j].pc = "refresh"
    /\ txLock[c] = None
    /\ tx' = IF tx[c].status = job[j].was
             THEN [tx EXCEPT ![c] = Refreshed(@, job[j].ans, job[j].tries)]
             ELSE tx
    /\ Finish(j)
    /\ UNCHANGED <<provVars, reg, cardMails, eventVars, lockVars, moves>>

-----------------------------------------------------------------------------
(* The rest of the platform, as far as payment sees it *)

\* _admitted_status: what a row that gets a seat becomes.
Admitted(r) == IF reg[r].paid \/ fee = 0 THEN "confirmed" ELSE "pending"

\* Registration rows move under their own handlers, which lock the row.
\* Pairs <<from, to>>: event_cancel; event_register on a cancelled row;
\* promotion from the waitlist; check-in and its undo; the coach's promotion.
RowMoves(r) == ({"pending", "confirmed", "waitlist"} \X {"cancelled"})
          \cup ({"cancelled"} \X {Admitted(r), "waitlist"})
          \cup ({"waitlist"} \X {Admitted(r), "attended"})
          \cup ({"pending", "confirmed"} \X {"attended"})
          \cup ({"attended"} \X {"confirmed", "waitlist",
                                 IF reg[r].paid THEN "confirmed" ELSE "pending"})

RowMoved(r, s) ==
    /\ Disturb("row")
    /\ regLock[r] = None
    /\ <<reg[r].status, s>> \in RowMoves(r)
    /\ reg' = [reg EXCEPT ![r].status = s]
    /\ UNCHANGED <<provVars, tx, cardMails, eventVars, lockVars, job>>

Edited(row, s, p) ==
    [status |-> IF p /\ ~row.paid /\ s = "pending" THEN "confirmed" ELSE s,
     paid   |-> p,
     byHand |-> IF p # row.paid THEN p ELSE row.byHand]

\* EventRegistrationAdmin.save_model: any status, and the payment mark, which
\* also confirms a pending row.
StaffEdits(r, s, p) ==
    /\ Disturb("staff")
    /\ regLock[r] = None
    /\ reg' = [reg EXCEPT ![r] = Edited(@, s, p)]
    /\ UNCHANGED <<provVars, tx, cardMails, eventVars, lockVars, job>>

FeeChanges(f) == /\ Disturb("fee")
                 /\ fee' = f
                 /\ UNCHANGED <<provVars, tableVars, off, lockVars, job>>

EventCancelled == /\ Disturb("off")
                  /\ ~off /\ off' = TRUE
                  /\ UNCHANGED <<provVars, tableVars, fee, lockVars, job>>

\* A worker dies: its transaction rolls back; what SumUp did stays done.
Crash(j) == /\ Disturb("crash")
            /\ job[j].pc # "idle"
            /\ EndTransaction(j) /\ Finish(j)
            /\ UNCHANGED <<provVars, tableVars, eventVars>>

-----------------------------------------------------------------------------
Customer == \E c \in Checkouts : CustomerPays(c) \/ CardDeclined(c) \/ CheckoutExpires(c)

Surroundings == \/ \E r \in Regs, s \in RegStatuses : RowMoved(r, s)
                \/ \E r \in Regs, s \in RegStatuses, p \in BOOLEAN : StaffEdits(r, s, p)
                \/ \E f \in Fees : FeeChanges(f)
                \/ EventCancelled
                \/ \E j \in Jobs : Crash(j)

\* A request arrives.
Arrival(j) == \/ \E r \in Regs : CreateBegin(j, r)
              \/ \E c \in Checkouts : \/ \E b \in BOOLEAN : SyncBegin(j, c, b)
                                      \/ ReportBegin(j, c)
                                      \/ RefreshBegin(j, c)

\* A request goes on.
Step(j) == \/ CreateLockTxs(j) \/ CreateLockReg(j) \/ CreateRecheck(j) \/ CreateFails(j)
           \/ \E c \in Checkouts : \/ CreateDeactivates(j, c)
                                   \/ CreateCannotDeactivate(j, c)
                                   \/ CreateDeactivationLost(j, c)
                                   \/ CreateCommits(j, c)
           \/ Ask(j) \/ AskFails(j)
           \/ ApplyLockTx(j) \/ ApplyCommit(j)
           \/ RecordTerminal(j) \/ RecordDeclined(j) \/ AppendNote(j)
           \/ RefreshAsk(j) \/ RefreshWrite(j)

Next == \/ Customer
        \/ Surroundings
        \/ \E j \in Jobs : Arrival(j) \/ Step(j)

Spec == Init /\ [][Next]_vars

\* A running request keeps running, and PostgreSQL grants a row lock in the
\* order it was asked for: strong fairness of a job's steps.  Nothing makes a
\* request arrive.
Fairness == \A j \in Jobs : SF_vars(Step(j))
FairSpec == Spec /\ Fairness

-----------------------------------------------------------------------------
(* Properties *)

TypeOK ==
    /\ prov \in [Checkouts -> ProvType]
    /\ tx \in [Checkouts -> TxType]
    /\ reg \in [Regs -> RegType]
    /\ cardMails \in [Regs -> Nat]
    /\ fee \in Fees /\ off \in BOOLEAN
    /\ txLock \in [Checkouts -> Jobs \cup {None}]
    /\ regLock \in [Regs -> Jobs \cup {None}]
    /\ job \in [Jobs -> JobType]
    /\ moves \in Nat

\* Money SumUp took is never written off: whatever a late answer, a failed
\* withdrawal or a crash did, the row of a captured checkout is still waiting
\* to be applied, or is applied (views_payments.py, the PENDING left behind by
\* a failed deactivation).
CaptureNotLost == \A c \in Checkouts :
    prov[c].state = "paid" => tx[c].status \in {"pending", "paid"}

\* No row says PAID unless SumUp captured the money.
PaidRowIsCaptured == \A c \in Checkouts :
    tx[c].status = "paid" => prov[c].state = "paid"

\* A payment that went through is never described as a failure, however late
\* the decline, the note or the admin's snapshot arrives (the Coach Panel
\* promises an empty failure_reason on a paid row).
PaidRowSilent == \A c \in Checkouts :
    tx[c].status = "paid" => tx[c].reason = "" /\ tx[c].note = ""

\* A checkout we withdrew keeps our account of it: no answer from SumUp and no
\* widget note overwrites "superseded", and it can never be charged.
SupersededKeepsItsAccount == \A c \in Checkouts :
    tx[c].status = "cancelled" =>
        tx[c].reason = "superseded" /\ tx[c].note = "" /\ prov[c].state = "dead"

\* A seat counts as paid only because of a capture made for it, or by hand.
SeatPaidByCapture == \A r \in Regs : reg[r].paid =>
    \/ reg[r].byHand
    \/ \E c \in Checkouts : /\ tx[c].reg = r /\ tx[c].status = "paid"
                            /\ prov[c].state = "paid"

\* A customer hears of a confirmation at most once per payment applied, however
\* many callbacks, returns and polls race for it.
OneMailPerPayment == \A r \in Regs :
    cardMails[r] <= Cardinality({c \in Checkouts : tx[c].reg = r /\ tx[c].status = "paid"})

\* Locks are held only by a transaction that is past the point of taking them,
\* and no job waits for a payment row while it holds a registration: the order
\* that keeps the webhook and the checkout creator from deadlocking.
LockOrder == \A j \in Jobs :
    /\ job[j].pc \in {"locktx", "applytx", "terminal", "declined", "note", "refresh"}
          => (\A r \in Regs : regLock[r] # j) /\ (\A c \in Checkouts : txLock[c] # j)
    /\ job[j].pc \in {"lockreg", "applyreg"} => \A r \in Regs : regLock[r] # j

JustPaid(c) == tx[c].status # "paid" /\ tx'[c].status = "paid"

\* Applying a payment never hands out a seat that was given up, never undoes an
\* attendance, and settles a seat only at the price the event has now.
PaymentNeverTakesASeat ==
    [][\A c \in Checkouts : JustPaid(c) =>
         LET r == tx[c].reg IN
         /\ reg'[r].status # reg[r].status =>
                reg[r].status = "pending" /\ reg'[r].status = "confirmed" /\ reg'[r].paid
         /\ reg'[r].paid /\ ~reg[r].paid => ~off /\ tx[c].amount = fee]_vars

\* A row that reached PAID, FAILED or CANCELLED stays there.
SettledIsFinal ==
    [][\A c \in Checkouts :
         tx[c].status \in {"paid", "failed", "cancelled"} => tx'[c].status = tx[c].status]_vars

\* Every request ends: no two of them wait for each other's rows.
JobsFinish == \A j \in Jobs : job[j].pc # "idle" ~> job[j].pc = "idle"

Asked(c) == \E j \in Jobs : job[j].pc = "ask" /\ job[j].on = c

\* One question is enough: a request that asks SumUp about a checkout that is
\* captured ends with the row PAID, whichever requests it meets on the way,
\* unless a worker dies or a call is lost; and then the next one that asks books
\* it.  That somebody asks is up to SumUp's callback, the member's page and the
\* organisers: no timer does.
AskedIsBooked == \A c \in Checkouts, n \in 0..MaxMoves :
    Asked(c) /\ prov[c].state = "paid" /\ moves = n ~> tx[c].status = "paid" \/ moves > n

\* The checkouts opened for r that still can be charged.
Chargeable(r) == {c \in Checkouts : tx[c].reg = r /\ prov[c].state = "open"}

\* views_payments.py:128: "the old checkout is deactivated at SumUp so only the
\* newest is payable".
OnlyNewestPayable == \A r \in Regs : Cardinality(Chargeable(r)) <= 1

-----------------------------------------------------------------------------
(* The inductive invariant *)

\* What a row and its checkout say about each other.
RowOK(c) ==
    /\ tx[c].status = "none" <=> prov[c].state = "none"
    /\ tx[c].status # "none" => tx[c].reg \in Regs
    /\ tx[c].status = "paid" => prov[c].state = "paid" /\ tx[c].reason = "" /\ tx[c].note = ""
    /\ tx[c].status \in {"failed", "cancelled"} => prov[c].state = "dead"
    /\ tx[c].status = "cancelled" => tx[c].reason = "superseded" /\ tx[c].note = ""

\* What a job in flight may rely on: SumUp's answers paid and dead are final,
\* and the rows it is about to write are its own.
JobOK(j) == LET pc == job[j].pc
                on == job[j].on IN
    /\ pc \in {"locktx", "lockreg", "deactivate", "create"} => job[j].reg \in Regs
    /\ pc \in {"locktx", "lockreg"} => job[j].killed = {}
    /\ pc \in {"lockreg", "deactivate", "create"} =>
          \A c \in job[j].olds \cup job[j].killed : txLock[c] = j /\ tx[c].status = "pending"
    /\ pc \in {"deactivate", "create"} => \A c \in job[j].killed : prov[c].state = "dead"
    /\ pc \in {"ask", "applytx", "applyreg", "terminal", "declined", "note", "refreshask",
               "refresh"} => on \in Checkouts /\ tx[on].status # "none"
    /\ pc \in {"applytx", "applyreg"} => prov[on].state = "paid"
    /\ pc = "applyreg" => txLock[on] = j
    /\ pc = "terminal" => prov[on].state = "dead"
    /\ pc \in {"refreshask", "refresh"} =>
          /\ job[j].was = "paid" => prov[on].state = "paid"
          /\ job[j].was = "cancelled" => prov[on].state = "dead"
    /\ pc = "refresh" =>
          /\ job[j].was = "paid" => job[j].ans = "paid"
          /\ job[j].was = "cancelled" => job[j].ans = "dead"

\* Only a transaction in progress holds locks.
LockOK(j) ==
    /\ job[j].pc \notin {"lockreg", "deactivate", "create", "applyreg"} =>
          \A c \in Checkouts : txLock[c] # j
    /\ job[j].pc \notin {"deactivate", "create"} => \A r \in Regs : regLock[r] # j

\* The inductive invariant: TypeOK, the three parts above for every row and job,
\* and SeatPaidByCapture.  It holds of everything the requests, SumUp and the
\* organisers do, and each safety invariant of the payment code follows from it.
IInv == /\ TypeOK
        /\ \A c \in Checkouts : RowOK(c)
        /\ \A j \in Jobs : JobOK(j) /\ LockOK(j)
        /\ SeatPaidByCapture

-----------------------------------------------------------------------------
(* Refinement: hide the rows, the locks and the jobs *)

\* Where the money of c stands; "forged" and "lost" are no state of the ledger.
Entry(c) == CASE tx[c].status = "none" -> "none"
              [] tx[c].status = "paid" ->
                    IF prov[c].state = "paid" THEN "booked" ELSE "forged"
              [] tx[c].status \notin {"none", "paid"} /\ prov[c].state = "paid" ->
                    IF tx[c].status = "pending" THEN "captured" ELSE "lost"
              [] tx[c].status \notin {"none", "paid"} /\ prov[c].state = "dead" -> "void"
              [] OTHER -> "offered"

LedgerEntry == [c \in Checkouts |-> Entry(c)]
LedgerPayer == [c \in Checkouts |-> tx[c].reg]
LedgerSettled == {r \in Regs : reg[r].paid}

Ledger == INSTANCE PaymentLedger WITH
    entry <- LedgerEntry, payer <- LedgerPayer, settled <- LedgerSettled

\* The payment code implements the ledger: each step posts one entry, or nothing
\* the ledger sees.
ImplementsLedger == Ledger!Spec
=============================================================================
