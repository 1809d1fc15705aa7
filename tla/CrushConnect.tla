---------------------------- MODULE CrushConnect ----------------------------
(***************************************************************************)
(* Crush Connect (crush_lu/services/crush_connect.py): a member's daily    *)
(* drop of cards, the one card they may read by guessing its owner's       *)
(* answers, the spark a good reading sends, its answer, the owner's new    *)
(* choice of questions (forms_crush_connect.py), and the picks of a coach; *)
(* and what a block or an exclusion takes back (services/blocking.py).     *)
(* Every request reads rows without a lock, then writes: its reads are one *)
(* step, each statement or transaction that writes is another.  Photos,    *)
(* messages and the connections of events are left out.                    *)
(***************************************************************************)
EXTENDS Naturals, Sequences, FiniteSets

CONSTANTS Members, Receivers,   \* those with Premium receive drops
          CoachUser,            \* the coach's own member account
          DropSize,             \* DAILY_DROP_SIZE
          Questions, GateSize, AlignMin,  \* GATE_QUESTION_COUNT, GATE_ALIGN_MIN
          FirstGate,            \* the questions and answers each member began with
          Replies,              \* what readers may answer to a gate (a bound)
          Days,                 \* a bound
          Requests,             \* requests in progress (a bound)
          Operations,           \* the operations of this instance
          MaxTurns,             \* drops made and changes around the pair (a bound)
          None

\* A question with an answer: an owner's truth or another member's guess.
Facts == Questions \X BOOLEAN
Asked(facts) == {f[1] : f \in facts}
OnePerQuestion(facts) == \A f, g \in facts : f[1] = g[1] => f = g
Gates == {g \in SUBSET Facts : OnePerQuestion(g) /\ Cardinality(g) = GateSize}

ASSUME ConnectAssumption ==
    /\ Receivers \subseteq Members /\ None \notin Members
    /\ DropSize \in Nat \ {0}
    /\ IsFiniteSet(Questions) /\ AlignMin \in Nat \ {0}
    /\ FirstGate \in [Members -> Gates] /\ Replies \subseteq Gates
    /\ Days \in Nat \ {0} /\ MaxTurns \in Nat

VARIABLES day,
          drops,      \* ConnectDailyDrop of a receiver and a day
          gate,       \* MemberGateQuestion: a member's questions and true answers
          guesses,    \* ConnectQuestionAnswer of a responder and an owner
          edition, misread, read,  \* history: gates chosen so far, and who has
                                   \* misread or read which of them
          sparks,     \* CuriositySpark of a sender and a recipient
          picks,      \* ConnectCoachPick of a member and a candidate
          blocks,     \* UserBlock
          out,        \* excluded, rejected, unlinked or without consent
          mentored,   \* members whose assigned coach is the coach
          job, turns

answers == <<gate, guesses, edition, misread, read>>
rows == <<drops, answers, sparks, picks>>
around == <<day, blocks, out, mentored, turns>>
vars == <<rows, around, job>>

Pairs == {p \in Members \X Members : p[1] # p[2]}
DropKeys == Receivers \X (1..Days)
NoDrop == [made |-> "no", cards |-> {}, read |-> None]
NoSpark == [status |-> "none", drop |-> 0]
NoJob == [op |-> "idle"]

TypeOK ==
    /\ day \in 1..Days
    /\ drops \in [DropKeys -> [made : {"no", "empty", "full"}, cards : SUBSET Members, read : Members \cup {None}]]
    /\ \A k \in DropKeys : k[1] \notin drops[k].cards
    /\ gate \in [Members -> Gates]
    /\ guesses \in [Pairs -> SUBSET Facts] /\ \A p \in Pairs : OnePerQuestion(guesses[p])
    /\ edition \in [Members -> Nat] /\ misread \cup read \subseteq Pairs \X Nat
    /\ sparks \in [Pairs -> [status : {"none", "pending", "accepted", "declined"}, drop : 0..Days]]
    /\ picks \in [Pairs -> {"none", "proposed", "accepted", "declined", "withdrawn"}]
    /\ blocks \subseteq Pairs /\ out \subseteq Members /\ mentored \subseteq Members
    /\ turns \in Nat

Init ==
    /\ day = 1
    /\ drops = [k \in DropKeys |-> NoDrop]
    /\ gate = FirstGate /\ guesses = [p \in Pairs |-> {}]
    /\ edition = [u \in Members |-> 0] /\ misread = {} /\ read = {}
    /\ sparks = [p \in Pairs |-> NoSpark]
    /\ picks = [p \in Pairs |-> "none"]
    /\ blocks = {} /\ out = {} /\ mentored = {}
    /\ job = [r \in Requests |-> NoJob]
    /\ turns = 0

----------------------------------------------------------------------------
(* Who may meet whom.                                                       *)

Back(p) == <<p[2], p[1]>>
Blocked(p) == p \in blocks \/ Back(p) \in blocks
CoachPair(p) == (p[1] \in mentored /\ p[2] = CoachUser) \/ (p[2] \in mentored /\ p[1] = CoachUser)
CatalogueEligible(u) == u \notin out
SenderEligible(u) == u \in Receivers /\ u \notin out

\* Mutant: the member is not taken out of their own pool.
Pool_withSelf(u) ==
    {v \in Members : CatalogueEligible(v) /\ ~Blocked(<<u, v>>) /\ ~CoachPair(<<u, v>>)}
Pool(u) ==
    IF SenderEligible(u)
    THEN {v \in Members \ {u} : CatalogueEligible(v) /\ ~Blocked(<<u, v>>) /\ ~CoachPair(<<u, v>>)}
    ELSE {}

Surfaced(p) == \E d \in 1..Days : p[1] \in Receivers /\ p[2] \in drops[<<p[1], d>>].cards
Eligible(p) == SenderEligible(p[1]) /\ CatalogueEligible(p[2])
\* What can_send_spark asks the database for, and what it also asks the
\* instances the request has loaded.
Open(p) == ~Blocked(p) /\ Surfaced(p) /\ sparks[p] = NoSpark /\ sparks[Back(p)] = NoSpark
CanSend(p) == Eligible(p) /\ ~CoachPair(p) /\ Open(p)
\* The recipient of spark p may still accept it.
CanAccept(p) == Eligible(p) /\ ~CoachPair(p) /\ ~Blocked(p)

Idle(r) == job[r] = NoJob
Begin(r, record) == job' = [job EXCEPT ![r] = record]
End(r) == Begin(r, NoJob)
At(r, op) == job[r].op = op

----------------------------------------------------------------------------
(* The daily drop: the pool is read first, then the row is made or found and *)
(* gets its cards.  `made` also says whether its first visit found members.  *)

Opened == {k \in DropKeys : drops[k].made # "no"
                            \/ \E q \in Requests : job[q].op \in {"drop", "fill"} /\ job[q].key = k}

\* The seeded, weighted draw: any DropSize members of the pool.
Draws(pool) ==
    {cards \in SUBSET pool :
        Cardinality(cards) = DropSize \/ (Cardinality(pool) < DropSize /\ cards = pool)}

DropBegin(r, u) ==
    /\ "drop" \in Operations /\ Idle(r) /\ SenderEligible(u) /\ drops[<<u, day>>].made = "no"
    /\ Cardinality(Opened \cup {<<u, day>>}) + turns <= MaxTurns
    /\ \E cards \in Draws(Pool(u)) :
          Begin(r, [op |-> "drop", key |-> <<u, day>>, cards |-> cards])
    /\ UNCHANGED <<rows, around>>

\* A visit that makes the row keeps others from it until its commit (unique key).
Making(r, k) == At(r, "fill") /\ job[r].fresh /\ job[r].key = k

\* Mutant: the cards are set without looking whether there are any.
Unfilled_anyway(drop) == TRUE
Unfilled(drop) == drop.cards = {}

\* get_or_create, and the look at what the row has.
DropOpen(r) ==
    /\ At(r, "drop") /\ \A q \in Requests : ~Making(q, job[r].key)
    /\ LET k == job[r].key
           cards == job[r].cards
           new == drops[k].made = "no"
       IN  IF cards # {} /\ Unfilled(drops[k])
           THEN /\ Begin(r, [op |-> "fill", key |-> k, cards |-> cards, fresh |-> new])
                /\ UNCHANGED drops
           ELSE /\ drops' = IF new THEN [drops EXCEPT ![k].made = "empty"] ELSE drops
                /\ End(r)
    /\ UNCHANGED <<answers, sparks, picks, around>>

\* recipients.set looks once more: it replaces what another visit has set before
\* that look, and adds to what one sets after it.
DropFill(r) ==
    /\ At(r, "fill")
    /\ \E now \in {job[r].cards, job[r].cards \cup drops[job[r].key].cards} :
          drops' = [drops EXCEPT ![job[r].key].cards = now,
                                 ![job[r].key].made = IF job[r].fresh THEN "full" ELSE @]
    /\ End(r)
    /\ UNCHANGED <<answers, sparks, picks, around>>

----------------------------------------------------------------------------
(* The answer gate: p[1] guesses p[2]'s answers to their questions, from     *)
(* their drop of day d or to answer p[2]'s spark.  The view refuses a reader *)
(* who has sent that spark already (views_crush_connect.py:1095).            *)

GateBegin(r, p, d, says) ==
    /\ "gate" \in Operations /\ Idle(r)
    /\ Asked(says) = Asked(gate[p[2]])
    /\ LET back == sparks[Back(p)].status = "pending"
       IN  /\ IF back THEN CanAccept(Back(p)) /\ d = day
              ELSE /\ CanSend(p) /\ p[2] \in drops[<<p[1], d>>].cards
                   /\ drops[<<p[1], d>>].read \in {None, p[2]}
           /\ Begin(r, [op |-> "gate", step |-> "insert", pair |-> p, day |-> d,
                        back |-> back, says |-> says])
    /\ UNCHANGED <<rows, around>>

GateAt(r, step) == At(r, "gate") /\ job[r].step = step
Repicking(r) == At(r, "repick")

\* The transaction keeps the guesses it inserts and the drop it claims from
\* others until it ends; a deleted guess stands in the way as long.
Holds(k) == GateAt(k, "score") \/ GateAt(k, "commit")
Waits(r) ==
    LET p == job[r].pair
    IN  \E k \in Requests \ {r} :
            \/ Holds(k) /\ job[k].pair = p /\ Asked(job[k].adds) \cap Asked(job[r].says) # {}
            \/ Holds(k) /\ job[k].claims /\ ~job[r].back /\ job[k].pair[1] = p[1]
               /\ job[k].day = job[r].day
            \/ Repicking(k) /\ \E f \in job[k].gone[p] : f[1] \in Asked(job[r].says)

DropOf(r) == <<job[r].pair[1], job[r].day>>
\* Mutant: the card may be another than the one read.
Claims_always(r) == TRUE
Claims(r) == job[r].back \/ drops[DropOf(r)].read \in {None, job[r].pair[2]}

\* bulk_create keeps the guesses that are there; a lost claim rolls back.
GateInsert(r) ==
    /\ GateAt(r, "insert") /\ ~Waits(r)
    /\ LET p == job[r].pair
           adds == {f \in job[r].says : f[1] \notin Asked(guesses[p])}
           claims == ~job[r].back /\ drops[DropOf(r)].read = None
       IN  IF Claims(r)
           THEN Begin(r, [op |-> "gate", step |-> "score", pair |-> p, day |-> job[r].day,
                          back |-> job[r].back, says |-> job[r].says,
                          adds |-> adds, claims |-> claims])
           ELSE End(r)
    /\ UNCHANGED <<rows, around>>

\* The guesses that are scored: the first to each question, as stored.
\* Mutant: the guesses of this request count.
Known_again(r) == job[r].says
Known(r) == guesses[job[r].pair] \cup job[r].adds
Aligned(facts, truths) == Cardinality(facts \cap truths) >= AlignMin

\* The score against the owner's gate of now, and the checks of the spark.  The
\* profiles are those the request loaded (l.637-647, 595-616): a member excluded
\* since may pass or, unlinked or without Premium, fail.
GateScore(r) ==
    /\ GateAt(r, "score")
    /\ LET p == job[r].pair
           truths == gate[p[2]]
           aligned == Aligned(Known(r), truths)
           sends == aligned /\ ~job[r].back
           does == IF sends THEN "send"
                   ELSE IF aligned /\ CanAccept(Back(p)) THEN "accept" ELSE "nothing"
       IN  \/ /\ sends => Open(p)
              /\ Begin(r, [op |-> "gate", step |-> "commit", pair |-> p, day |-> job[r].day,
                           adds |-> job[r].adds, claims |-> job[r].claims, does |-> does,
                           on |-> edition[p[2]],
                           missed |-> ~aligned /\ Asked(truths) \subseteq Asked(Known(r))])
           \/ /\ sends /\ ~(Open(p) /\ Eligible(p))
              /\ End(r)
    /\ UNCHANGED <<rows, around>>

\* The commit: a second spark of the pair fails on its unique key and takes the
\* rest back; an accept overwrites whatever the spark has become.
GateCommit(r) ==
    /\ GateAt(r, "commit")
    /\ LET p == job[r].pair
           does == job[r].does
           seen == {<<p, job[r].on>>}
       IN  IF does = "send" /\ sparks[p] # NoSpark THEN UNCHANGED rows
           ELSE /\ guesses' = [guesses EXCEPT ![p] = @ \cup job[r].adds]
                /\ drops' = IF job[r].claims THEN [drops EXCEPT ![DropOf(r)].read = p[2]]
                            ELSE drops
                /\ sparks' = CASE does = "send" ->
                                    [sparks EXCEPT ![p] = [status |-> "pending", drop |-> job[r].day]]
                               [] does = "accept" -> [sparks EXCEPT ![Back(p)].status = "accepted"]
                               [] OTHER -> sparks
                /\ misread' = IF job[r].missed THEN misread \cup seen ELSE misread
                /\ read' = IF does = "nothing" THEN read ELSE read \cup seen
                /\ UNCHANGED <<gate, edition, picks>>
    /\ End(r)
    /\ UNCHANGED around

\* The recipient of spark p answers it from their list, without a reading.
RespondBegin(r, p, accept) ==
    /\ "respond" \in Operations /\ Idle(r)
    /\ sparks[p].status = "pending" /\ CatalogueEligible(p[2]) /\ (accept => CanAccept(p))
    /\ Begin(r, [op |-> "respond", pair |-> p, to |-> IF accept THEN "accepted" ELSE "declined"])
    /\ UNCHANGED <<rows, around>>

RespondWrite(r) ==
    /\ At(r, "respond")
    /\ sparks' = [sparks EXCEPT ![job[r].pair].status = job[r].to]
    /\ End(r)
    /\ UNCHANGED <<drops, answers, picks, around>>

----------------------------------------------------------------------------
(* The coach's picks for a member.                                          *)

ProposeBegin(r, p) ==
    /\ "pick" \in Operations /\ Idle(r)
    /\ p[1] \in mentored /\ SenderEligible(p[1]) /\ p[2] \in Pool(p[1]) /\ picks[p] = "none"
    /\ Begin(r, [op |-> "withdraw", pair |-> p])
    /\ UNCHANGED <<rows, around>>

ProposeWithdraw(r) ==
    /\ At(r, "withdraw")
    /\ picks' = [q \in Pairs |-> IF q[1] = job[r].pair[1] /\ picks[q] = "proposed"
                                 THEN "withdrawn" ELSE picks[q]]
    /\ Begin(r, [op |-> "propose", pair |-> job[r].pair])
    /\ UNCHANGED <<drops, answers, sparks, around>>

\* A pair picked meanwhile fails on the unique key.
ProposeCreate(r) ==
    /\ At(r, "propose")
    /\ picks' = IF picks[job[r].pair] = "none"
                THEN [picks EXCEPT ![job[r].pair] = "proposed"] ELSE picks
    /\ End(r)
    /\ UNCHANGED <<drops, answers, sparks, around>>

PickRespondBegin(r, p, accept) ==
    /\ "pick" \in Operations /\ Idle(r) /\ picks[p] = "proposed"
    /\ accept => SenderEligible(p[1]) /\ p[1] \in mentored /\ p[2] \in Pool(p[1])
    /\ Begin(r, [op |-> "answer pick", pair |-> p, to |-> IF accept THEN "accepted" ELSE "declined"])
    /\ UNCHANGED <<rows, around>>

PickRespondWrite(r) ==
    /\ At(r, "answer pick")
    /\ picks' = [picks EXCEPT ![job[r].pair] = job[r].to]
    /\ End(r)
    /\ UNCHANGED <<drops, answers, sparks, around>>

----------------------------------------------------------------------------
\* One of the changes around a pair.
Turn == Cardinality(Opened) + turns < MaxTurns /\ turns' = turns + 1

(* An owner chooses their questions again: the guesses at questions dropped   *)
(* or answered differently are deleted, then the old choice is replaced.      *)

RepickBegin(r, u, new) ==
    /\ "repick" \in Operations /\ Idle(r) /\ Turn
    /\ LET stale == Asked(gate[u] \ new)
       IN  Begin(r, [op |-> "repick", owner |-> u, new |-> new, was |-> edition[u],
                     gone |-> [p \in Pairs |-> {f \in guesses[p] : p[2] = u /\ f[1] \in stale}]])
    /\ UNCHANGED <<rows, day, blocks, out, mentored>>

\* A choice made meanwhile in another tab may be replaced, or fail this one on
\* the unique key and so keep the guesses.
RepickCommit(r) ==
    /\ Repicking(r)
    /\ LET u == job[r].owner
       IN  \/ /\ gate' = [gate EXCEPT ![u] = job[r].new]
              /\ edition' = [edition EXCEPT ![u] = @ + 1]
              /\ guesses' = [p \in Pairs |-> guesses[p] \ job[r].gone[p]]
           \/ edition[u] # job[r].was /\ UNCHANGED <<gate, edition, guesses>>
    /\ End(r)
    /\ UNCHANGED <<misread, read, drops, sparks, picks, around>>

----------------------------------------------------------------------------
(* Blocks and exclusions: the row, then one statement for the picks and one *)
(* for the sparks between the pairs concerned.                              *)

Between(p) == {p, Back(p)}
Of(u) == {p \in Pairs : u \in {p[1], p[2]}}

BlockMember(r, p) ==
    /\ "block" \in Operations /\ Idle(r) /\ p \notin blocks /\ Turn
    /\ blocks' = blocks \cup {p}
    /\ Begin(r, [op |-> "clear", pairs |-> Between(p), todo |-> <<"picks", "sparks">>])
    /\ UNCHANGED <<rows, day, out, mentored>>

Unblock(p) ==
    /\ p \in blocks
    /\ blocks' = blocks \ {p}
    /\ UNCHANGED <<rows, day, out, mentored, turns, job>>

\* exclude_reported_users and purge_user_from_connect_queues.
Exclude(r, u) ==
    /\ "exclude" \in Operations /\ Idle(r) /\ u \notin out /\ Turn
    /\ out' = out \cup {u}
    /\ Begin(r, [op |-> "clear", pairs |-> Of(u), todo |-> <<"sparks", "picks">>])
    /\ UNCHANGED <<rows, day, blocks, mentored>>

Clear(r) ==
    /\ At(r, "clear")
    /\ LET hit == job[r].pairs
           todo == job[r].todo
       IN  /\ IF Head(todo) = "picks"
              THEN /\ picks' = [q \in Pairs |->
                        IF q \in hit /\ picks[q] \in {"proposed", "accepted"} THEN "withdrawn"
                        ELSE picks[q]]
                   /\ UNCHANGED sparks
              ELSE /\ sparks' = [q \in Pairs |->
                        IF q \in hit /\ sparks[q] # NoSpark
                        THEN [sparks[q] EXCEPT !.status = "declined"] ELSE sparks[q]]
                   /\ UNCHANGED picks
           /\ IF Len(todo) = 1 THEN End(r)
              ELSE Begin(r, [op |-> "clear", pairs |-> hit, todo |-> Tail(todo)])
    /\ UNCHANGED <<drops, answers, around>>

----------------------------------------------------------------------------
(* What changes around them: a new day, a member readmitted, a coach        *)
(* assigned at the door or taken away.                                      *)

NewDay ==
    /\ day < Days /\ day' = day + 1
    /\ UNCHANGED <<rows, blocks, out, mentored, turns, job>>
Readmit(u) ==
    /\ u \in out /\ out' = out \ {u}
    /\ UNCHANGED <<rows, day, blocks, mentored, turns, job>>
Mentor(u) ==
    /\ "pick" \in Operations /\ u # CoachUser /\ Turn
    /\ mentored' = IF u \in mentored THEN mentored \ {u} ELSE mentored \cup {u}
    /\ UNCHANGED <<rows, day, blocks, out, job>>

Next ==
    \/ \E r \in Requests :
        \/ DropOpen(r) \/ DropFill(r) \/ GateInsert(r) \/ GateScore(r) \/ GateCommit(r) \/ RespondWrite(r)
        \/ RepickCommit(r) \/ ProposeWithdraw(r) \/ ProposeCreate(r) \/ PickRespondWrite(r) \/ Clear(r)
        \/ \E u \in Receivers : DropBegin(r, u)
        \/ \E u \in Members : Exclude(r, u) \/ \E new \in Gates : RepickBegin(r, u, new)
        \/ \E p \in Pairs :
            \/ ProposeBegin(r, p) \/ BlockMember(r, p)
            \/ \E yes \in BOOLEAN : RespondBegin(r, p, yes) \/ PickRespondBegin(r, p, yes)
            \/ \E says \in Replies, d \in 1..Days : GateBegin(r, p, d, says)
    \/ NewDay
    \/ \E u \in Members : Readmit(u) \/ Mentor(u)
    \/ \E p \in Pairs : Unblock(p)

Spec == Init /\ [][Next]_vars

----------------------------------------------------------------------------
(* Properties.                                                              *)

\* One read per drop: every spark a drop led to went to the one card its owner
\* chose to read, however many cards were answered at once or from old pages.
OneReadPerDrop ==
    \A p \in Pairs : sparks[p] # NoSpark =>
        p[1] \in Receivers /\ drops[<<p[1], sparks[p].drop>>].read = p[2]

\* A spark takes a reading, and who misread a member's questions never gets a
\* spark or an acceptance out of guessing at them again, the next day or from
\* another tab, while the member keeps those questions and answers.
OnlyReadersSpark ==
    /\ misread \cap read = {}
    /\ \A p \in Pairs : sparks[p] # NoSpark => \E e \in 0..edition[p[2]] : <<p, e>> \in read

\* Refreshing the page never re-rolls a drop whose first visit found members,
\* even if several first visits drew it from different pools.  (One whose first
\* visit found nobody may be drawn by two visits that waited for it.)
DropPinned ==
    [][\A k \in DropKeys : drops[k].made = "full" =>
          drops'[k].cards = drops[k].cards /\ drops'[k].made = "full"]_vars
=============================================================================
