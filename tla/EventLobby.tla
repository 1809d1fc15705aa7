------------------------------ MODULE EventLobby ------------------------------
(***************************************************************************)
(* The Event Lobby (crush_lu/services/event_lobby.py): members who are     *)
(* checked in say "I'd like to meet you" while an event is live, "yes, we   *)
(* met" during its recap, and a pair that both said so becomes a permanent  *)
(* encounter, which either of them may ask to have removed.                *)
(* A signal or a confirmation is a request in one worker: unlocked checks,  *)
(* then a transaction that locks both participation rows in the order of   *)
(* the user ids, reads, writes and commits.                                *)
(***************************************************************************)
EXTENDS Naturals, FiniteSets

CONSTANTS Members,      \* primary keys of users
          Events,
          Start,        \* <<e, m>>: checked in and in the lobby at the start
          Past,         \* pairs that may have an encounter from an earlier event
          Tries,        \* <<a, b>>: a may tap the tile of b (a bound)
          Workers,      \* requests in progress at one time (a bound)
          MaxSignals,   \* MAX_SIGNALS_PER_EVENT
          Troubles,     \* what else may happen: see Trouble
          MaxTroubles   \* how many times (a bound)

ASSUME LobbyAssumption ==
    /\ Members \subseteq Nat
    /\ Start \subseteq Events \X Members
    /\ Past \subseteq {p \in Members \X Members : p[1] < p[2]}
    /\ MaxSignals \in Nat /\ MaxTroubles \in Nat

VARIABLES phase,      \* event_lobby_phase of each event
          attended,   \* <<e, m>>: the registration's status is attended
          joined,     \* table EventLobbyParticipation
          able,       \* members participant_gate lets in
          blocked,    \* pairs with a UserBlock in either direction
          signals,    \* table EventMeetSignal, <<e, sender, recipient>>
          stamped,    \* the signals with a mutual_revealed_at
          confirmed,  \* table EventMeetingConfirmation
          past,       \* pairs whose encounter is from an earlier event (never changes)
          encounter,  \* table ConfirmedEncounter, by canonical pair
          pending,    \* pairs with a pending removal request
          job,        \* the requests in progress
          troubles    \* troubles so far

doorVars == <<phase, attended, joined, able, blocked>>
saidVars == <<signals, stamped, confirmed>>
pairVars == <<past, encounter, pending>>
vars == <<doorVars, saidVars, pairVars, job, troubles>>

Phases == {"live", "recap", "closed"}
Kinds == {"signal", "confirm"}
Steps == {"idle", "low", "high", "read", "write"}
Pairs == {p \in Members \X Members : p[1] < p[2]}
Ways == {x \in Events \X Members \X Members : x[2] # x[3]}
Hidden == {"removal_pending", "removed"}

Pair(a, b) == IF a < b THEN <<a, b>> ELSE <<b, a>>
Both(e, a, b) == {<<e, a, b>>, <<e, b, a>>}

\* A request: its target event, whether the event was edited since it was
\* loaded, who and whom, whether the reverse row was there when it looked, and
\* whether it holds the encounter's row.
Request == [step : Steps \ {"idle"}, kind : Kinds, e : Events, edited : BOOLEAN, from : Members,
            to : Members, reverse : BOOLEAN, row : BOOLEAN]
Idle == [step |-> "idle"]

TypeOK ==
    /\ phase \in [Events -> Phases]
    /\ attended \subseteq Events \X Members /\ joined \subseteq Events \X Members
    /\ able \subseteq Members /\ blocked \subseteq Pairs
    /\ signals \subseteq Ways /\ stamped \subseteq Ways /\ confirmed \subseteq Ways
    /\ past \subseteq Pairs /\ encounter \in [Pairs -> {"none", "active"} \cup Hidden] /\ pending \subseteq Pairs
    /\ job \in [Workers -> Request \cup {Idle}]
    /\ troubles \in 0..MaxTroubles

Init ==
    /\ phase = [e \in Events |-> "live"]
    /\ attended = Start /\ joined = Start /\ able = Members /\ blocked = {}
    /\ signals = {} /\ stamped = {} /\ confirmed = {}
    /\ past \in SUBSET Past
    /\ encounter = [p \in Pairs |-> IF p \in past THEN "active" ELSE "none"] /\ pending = {}
    /\ job = [w \in Workers |-> Idle]
    /\ troubles = 0

----------------------------------------------------------------------------
(* Row locks: a request holds the participation rows it has passed.  The    *)
(* registration rows are joined to them and locked with them.              *)

Busy(w) == job[w].step # "idle"
\* Mutant: the rows are locked in the order they are named.
InOrder_asNamed(j) == <<j.from, j.to>>
InOrder(j) == Pair(j.from, j.to)   \* order_by("user_id")
Low(j) == InOrder(j)[1]
High(j) == InOrder(j)[2]

\* Mutant: only the sender's row is locked.
HeldRows_own(j) ==
    IF j.step \in {"read", "write"} THEN {<<j.e, j.from>>} ELSE {}
HeldRows(j) ==
    CASE j.step = "high" -> {<<j.e, Low(j)>>}
      [] j.step \in {"read", "write"} -> {<<j.e, j.from>>, <<j.e, j.to>>}
      [] OTHER -> {}

Wants(j) ==
    CASE j.step = "low" -> {<<j.e, Low(j)>>}
      [] j.step = "high" -> {<<j.e, High(j)>>}
      [] OTHER -> {}

Free(e, m) == \A w \in Workers : <<e, m>> \notin HeldRows(job[w])

\* Whether some request holds the encounter row of the pair.
EncounterFree(p) ==
    \A w \in Workers : Busy(w) => ~(job[w].row /\ Pair(job[w].from, job[w].to) = p)

End(w) == job' = [job EXCEPT ![w] = Idle]
Goto(w, s) == job' = [job EXCEPT ![w].step = s]

----------------------------------------------------------------------------
(* Joining.                                                                 *)

Open(e) == phase[e] # "closed"   \* lobby_admission_open
Eligible(e, m) == <<e, m>> \in attended \cap joined /\ m \in able

\* The door marks the row attended and offers the lobby (handle_checkin); a
\* failure there is swallowed.
CheckIn(e, m) ==
    /\ Open(e) /\ <<e, m>> \notin attended /\ Free(e, m)
    /\ attended' = attended \cup {<<e, m>>}
    /\ \/ joined' = IF m \in able THEN joined \cup {<<e, m>>} ELSE joined
       \/ joined' = joined
    /\ UNCHANGED <<phase, able, blocked, saidVars, pairVars, job, troubles>>

\* The lobby page, the hub card, the end of onboarding: evaluate_participation.
Enter(e, m) ==
    /\ Open(e) /\ <<e, m>> \in attended \ joined /\ m \in able
    /\ joined' = joined \cup {<<e, m>>}
    /\ UNCHANGED <<phase, attended, able, blocked, saidVars, pairVars, job, troubles>>

----------------------------------------------------------------------------
(* Signals and confirmations.                                               *)

PhaseFor(kind) == IF kind = "signal" THEN "live" ELSE "recap"

\* The unlocked checks, the same in send_meet_signal and confirm_meeting.
Begin(w, kind, e, a, b) ==
    /\ ~Busy(w) /\ a # b /\ <<a, b>> \in Tries
    /\ phase[e] = PhaseFor(kind) /\ Eligible(e, a) /\ Eligible(e, b)
    /\ Pair(a, b) \notin blocked /\ encounter[Pair(a, b)] \notin Hidden
    /\ job' = [job EXCEPT ![w] = [step |-> "low", kind |-> kind, e |-> e, edited |-> FALSE,
                                  from |-> a, to |-> b, reverse |-> FALSE, row |-> FALSE]]
    /\ UNCHANGED <<doorVars, saidVars, pairVars, troubles>>

\* select_for_update of the two rows, the lower user id first; a row that is
\* no longer attended when the lock is granted ends the request.
\* Mutant: the status is not filtered on again.
LockRow_anyStatus(w, here, next, m) ==
    /\ job[w].step = here /\ Free(job[w].e, m)
    /\ Goto(w, next)
    /\ UNCHANGED <<doorVars, saidVars, pairVars, troubles>>
LockRow(w, here, next, m) ==
    LET e == job[w].e IN
    /\ job[w].step = here /\ Free(e, m)
    /\ IF <<e, m>> \in attended \cap joined THEN Goto(w, next) ELSE End(w)
    /\ UNCHANGED <<doorVars, saidVars, pairVars, troubles>>

Lock(w) == \/ Busy(w) /\ LockRow(w, "low", "high", Low(job[w]))
           \/ Busy(w) /\ LockRow(w, "high", "read", High(job[w]))

Used(e, a) == Cardinality({x \in signals : x[1] = e /\ x[2] = a})

\* Under the locks the phase is derived again, with a new clock but from the
\* event as the request loaded it: time that passed shows, an edit does not (how
\* far the old times have run is left open).
PhaseNow(j) == IF j.edited THEN Phases ELSE {phase[j.e]}

\* Then the encounter, a row of one's own, the quota.
\* Mutant: a quota one too large.
MaySignal_oneMore(e, a, b) ==
    encounter[Pair(a, b)] # "active" /\ <<e, a, b>> \notin signals /\ Used(e, a) <= MaxSignals
MaySignal(e, a, b) ==
    /\ encounter[Pair(a, b)] # "active"
    /\ <<e, a, b>> \notin signals
    /\ Used(e, a) < MaxSignals

SignalRead(w) ==
    LET j == job[w] IN
    /\ j.step = "read" /\ j.kind = "signal"
    /\ \E now \in PhaseNow(j) :
         IF now = "live" /\ MaySignal(j.e, j.from, j.to)
         THEN job' = [job EXCEPT ![w] = [j EXCEPT !.step = "write",
                                         !.reverse = <<j.e, j.to, j.from>> \in signals]]
         ELSE End(w)
    /\ UNCHANGED <<doorVars, saidVars, pairVars, troubles>>

SignalCommit(w) ==
    LET j == job[w] IN
    /\ j.step = "write" /\ j.kind = "signal"
    /\ signals' = signals \cup {<<j.e, j.from, j.to>>}
    /\ stamped' = IF j.reverse THEN stamped \cup Both(j.e, j.from, j.to) ELSE stamped
    /\ End(w)
    /\ UNCHANGED <<doorVars, confirmed, pairVars, troubles>>

\* The encounter's row, if there is one, is locked before it is looked at.
ConfirmRead(w) ==
    LET j == job[w]
        p == Pair(j.from, j.to) IN
    /\ j.step = "read" /\ j.kind = "confirm" /\ EncounterFree(p)
    /\ \E now \in PhaseNow(j) :
         IF now = "recap" /\ encounter[p] # "active" /\ <<j.e, j.from, j.to>> \notin confirmed
         THEN job' = [job EXCEPT ![w] = [j EXCEPT !.step = "write",
                                         !.reverse = <<j.e, j.to, j.from>> \in confirmed,
                                         !.row = encounter[p] # "none"]]
         ELSE End(w)
    /\ UNCHANGED <<doorVars, saidVars, pairVars, troubles>>

\* _create_or_get_encounter: an encounter that exists is left as it is.
\* Mutant: update_or_create.
Met_again(st) == "active"
Met(st) == IF st = "none" THEN "active" ELSE st

ConfirmCommit(w) ==
    LET j == job[w]
        p == Pair(j.from, j.to) IN
    /\ j.step = "write" /\ j.kind = "confirm"
    /\ confirmed' = confirmed \cup {<<j.e, j.from, j.to>>}
    /\ encounter' = IF j.reverse THEN [encounter EXCEPT ![p] = Met(@)] ELSE encounter
    /\ End(w)
    /\ UNCHANGED <<doorVars, signals, stamped, past, pending, troubles>>

----------------------------------------------------------------------------
(* Removal of an encounter, and its review by staff.                        *)

SubmitRemoval(a, p) ==
    /\ a \in {p[1], p[2]} /\ a \in able
    /\ encounter[p] = "active" /\ EncounterFree(p) /\ p \notin pending
    /\ encounter' = [encounter EXCEPT ![p] = "removal_pending"]
    /\ pending' = pending \cup {p}
    /\ UNCHANGED <<doorVars, saidVars, past, job, troubles>>

\* Mutant: the outcome is written to the encounter under the request's name for it.
Decisions_asRequest == {"approved", "kept_hidden", "restored"}
Decisions == {"removed", "removal_pending", "active"}   \* approve, keep_hidden, restore

ReviewRemoval(p, decision) ==
    /\ p \in pending /\ EncounterFree(p)
    /\ encounter' = [encounter EXCEPT ![p] = decision]
    /\ pending' = pending \ {p}
    /\ UNCHANGED <<doorVars, saidVars, past, job, troubles>>

----------------------------------------------------------------------------
(* Everything around the lobby.                                             *)

PhasePasses(e) ==
    /\ phase' = [phase EXCEPT ![e] = IF @ = "live" THEN "recap" ELSE "closed"]
    /\ phase[e] # "closed"
    /\ UNCHANGED <<attended, joined, able, blocked, saidVars, pairVars, job, troubles>>

\* The organiser changes the times of the event, cancels it, or puts it back.
Reschedule(e) ==
    /\ \E ph \in Phases \ {phase[e]} : phase' = [phase EXCEPT ![e] = ph]
    /\ job' = [w \in Workers |-> IF job[w].step \in {"low", "high", "read"} /\ job[w].e = e
                                 THEN [job[w] EXCEPT !.edited = TRUE] ELSE job[w]]
    /\ UNCHANGED <<attended, joined, able, blocked>>

\* coach_undo_checkin and every other edit that takes the status away.
UndoCheckIn(e, m) ==
    /\ <<e, m>> \in attended /\ Free(e, m)
    /\ attended' = attended \ {<<e, m>>}
    /\ UNCHANGED <<phase, joined, able, blocked, job>>

\* The member is excluded, deactivated, withdraws consent -- or the reverse.
GateTurns(m) ==
    /\ able' = IF m \in able THEN able \ {m} ELSE able \cup {m}
    /\ UNCHANGED <<phase, attended, joined, blocked, job>>

\* block_user and unblock_user; of pairs nobody taps nothing here depends.
BlockTurns(p) ==
    /\ \E x \in Tries : Pair(x[1], x[2]) = p
    /\ blocked' = IF p \in blocked THEN blocked \ {p} ELSE blocked \cup {p}
    /\ UNCHANGED <<phase, attended, joined, able, job>>

Trouble ==
    /\ troubles < MaxTroubles /\ troubles' = troubles + 1
    /\ \/ "reschedule" \in Troubles /\ \E e \in Events : Reschedule(e)
       \/ "undo" \in Troubles /\ \E e \in Events, m \in Members : UndoCheckIn(e, m)
       \/ "gate" \in Troubles /\ \E m \in Members : GateTurns(m)
       \/ "block" \in Troubles /\ \E p \in Pairs : BlockTurns(p)
    /\ UNCHANGED <<saidVars, pairVars>>

\* The worker dies or loses its connection: the transaction is rolled back.
Crash(w) ==
    /\ Busy(w) /\ End(w)
    /\ UNCHANGED <<doorVars, saidVars, pairVars, troubles>>

Work(w) == Lock(w) \/ SignalRead(w) \/ SignalCommit(w) \/ ConfirmRead(w) \/ ConfirmCommit(w)

Next ==
    \/ \E e \in Events, m \in Members : CheckIn(e, m) \/ Enter(e, m)
    \/ \E w \in Workers, k \in Kinds, e \in Events, a, b \in Members : Begin(w, k, e, a, b)
    \/ \E w \in Workers : Work(w) \/ Crash(w)
    \/ \E p \in Pairs : \E a \in Members : SubmitRemoval(a, p)
    \/ \E p \in Pairs, d \in Decisions : ReviewRemoval(p, d)
    \/ \E e \in Events : PhasePasses(e)
    \/ Trouble

Spec == Init /\ [][Next]_vars

----------------------------------------------------------------------------
(* Properties.                                                              *)

\* A member has sent at most MaxSignals signals at one event, however many
\* tabs the requests came from (send_meet_signal, "three distinct recipients").
SignalsWithinQuota == \A e \in Events, a \in Members : Used(e, a) <= MaxSignals

\* Both signals of a pair carry the reveal exactly when both were sent: two
\* simultaneous ones are never both told "sent", and nobody is revealed alone.
RevealedIffMutual == stamped = {x \in signals : <<x[1], x[3], x[2]>> \in signals}

\* A pair has an encounter exactly when both confirmed it at one event, this or an earlier one: two
\* crossing confirmations never miss each other, and one side is not enough.
EncounterIffBothConfirmed ==
    \A p \in Pairs : encounter[p] # "none"
        <=> p \in past \/ \E e \in Events : Both(e, p[1], p[2]) \subseteq confirmed

\* An encounter with an open removal request is hidden from both sides.
RequestKeepsHidden == \A p \in pending : encounter[p] = "removal_pending"

\* A hidden encounter comes back only when staff close the request, and a
\* removed one never does, whatever is confirmed later (_create_or_get_encounter).
HiddenUntilRestored ==
    [][\A p \in Pairs : encounter[p] \in Hidden /\ encounter'[p] \notin Hidden
           => encounter[p] = "removal_pending" /\ p \in pending \ pending']_vars

\* Nothing is written about a member whose check-in has been undone: the
\* rows are re-read under their locks (event_registration__status="attended").
OnlyPresentMembersWritten ==
    [][\A x \in (signals' \ signals) \cup (confirmed' \ confirmed) :
           {<<x[1], x[2]>>, <<x[1], x[3]>>} \subseteq attended]_vars

\* What the proofs carry along: row locks exclude each other, the rows held
\* are attended, and what a request has read under them still holds when it writes.
LocksExclusive ==
    \A v, w \in Workers : v # w => HeldRows(job[v]) \cap HeldRows(job[w]) = {}
HeldArePresent == \A w \in Workers : HeldRows(job[w]) \subseteq attended
ReadStillTrue(j) ==
    j.step = "write" =>
        IF j.kind = "signal"
          THEN /\ <<j.e, j.from, j.to>> \notin signals
               /\ Used(j.e, j.from) < MaxSignals
               /\ j.reverse <=> <<j.e, j.to, j.from>> \in signals
          ELSE /\ <<j.e, j.from, j.to>> \notin confirmed
               /\ j.reverse <=> <<j.e, j.to, j.from>> \in confirmed
LobbyInv ==
    /\ TypeOK /\ IsFiniteSet(signals)
    /\ \A w \in Workers : Busy(w) => job[w].from # job[w].to
    /\ LocksExclusive /\ HeldArePresent
    /\ \A w \in Workers : ReadStillTrue(job[w])
    /\ SignalsWithinQuota /\ RevealedIffMutual /\ EncounterIffBothConfirmed
    /\ RequestKeepsHidden

\* No request waits for a row of one that waits, in turn, for a row of it.
NoCircularWait ==
    \A v, w \in Workers : v # w => \/ Wants(job[v]) \cap HeldRows(job[w]) = {}
                                   \/ Wants(job[w]) \cap HeldRows(job[v]) = {}

\* Signals are anonymous yeses with a limit: all that send_meet_signal does to
\* them is what MutualConsent allows, a step at a time.
SignalConsent == INSTANCE MutualConsent WITH
    Occasions <- Events, People <- Members, Limit <- MaxSignals, said <- signals,
    known <- {<<x[1], {x[2], x[3]}>> : x \in stamped}
SignalsAreConsent == SignalConsent!Spec
=============================================================================
