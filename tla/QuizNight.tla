------------------------------ MODULE QuizNight ------------------------------
(***************************************************************************)
(* A quiz night: the door seats members, hosts run rounds and score tables *)
(* (crush_lu/consumers.py, api_quiz.py), staff move people and tables      *)
(* (services/quiz_rotation.py).  Hosts are websocket connections, one       *)
(* message at a time each; clerks are HTTP requests.  A handler looks       *)
(* first and then changes rows in transactions that lock the quiz row, so   *)
(* one transaction is one step; what it saw before it got the lock is in   *)
(* its job.  Members without a gender the roles know are left out.         *)
(***************************************************************************)
EXTENDS QuizRotation, Integers, FiniteSetsExt

CONSTANTS Hosts, Clerks,     \* connections and requests in progress (bounds)
          Questions,         \* questions of a round (a bound)
          Operations,        \* the operations of this instance
          Opening,           \* who has arrived before the hosts begin (a bound)
          MaxCorrections     \* corrections by hosts and staff (a bound)

ASSUME NightAssumption == Questions \in Nat \ {0} /\ MaxCorrections \in Nat

VARIABLES status, round, index,   \* QuizEvent; round = -1 is current_round None
          num, tables,            \* num_tables; the QuizTable rows
          chair,                  \* QuizTableMembership, 0 for none
          seat, group,            \* QuizRotationSchedule; group of the round-0 row
          attended, came,         \* registrations attended; who ever arrived
          marks,                  \* TableRoundScore: <<question, table, right>>
          credits,                \* IndividualScore: <<user, question, table, right>>
          job, corrections

hostVars == <<status, round, index>>
floorVars == <<num, tables, chair, seat, group, attended>>
scoreVars == <<marks, credits>>
vars == <<hostVars, floorVars, scoreVars, came, job, corrections>>

Jobs == Hosts \cup Clerks
Asked == Rounds \X (0..(Questions - 1))   \* the questions
Live == {"active", "paused"}
NoJob == [step |-> "idle"]

TypeOK ==
    /\ status \in {"draft", "active", "paused", "finished"}
    /\ round \in {-1} \cup Rounds /\ index \in -1..(Questions - 1)
    /\ num \in Tables /\ tables \subseteq Tables
    /\ chair \in [Users -> {0} \cup Tables]
    /\ seat \in [Rounds -> [Users -> {0} \cup Tables]]
    /\ group \in [Users -> Groups]
    /\ attended \subseteq Users /\ came \subseteq Users
    /\ marks \subseteq Asked \X Tables \X BOOLEAN
    /\ credits \subseteq Users \X Asked \X Tables \X BOOLEAN
    /\ corrections \in 0..MaxCorrections

Init ==
    /\ status = "draft" /\ round = -1 /\ index = -1
    /\ num = MaxTables /\ tables = {}
    /\ chair = [u \in Users |-> 0]
    /\ seat = [r \in Rounds |-> [u \in Users |-> 0]]
    /\ group = [u \in Users |-> ""]
    /\ attended = {} /\ came = {} /\ marks = {} /\ credits = {}
    /\ job = [j \in Jobs |-> NoJob]
    /\ corrections = 0

----------------------------------------------------------------------------
(* Jobs.                                                                    *)

Idle(j) == job[j].step = "idle"
Ready(j) == j \in Hosts /\ Idle(j) /\ Opening \subseteq came
Begin(j, record) == job' = [job EXCEPT ![j] = record]
End(j) == job' = [job EXCEPT ![j] = NoJob]
At(j, op, step) == job[j].step = step /\ job[j].op = op
Corrects == corrections < MaxCorrections /\ corrections' = corrections + 1

RoundNumber == IF round = -1 THEN 0 ELSE round   \* get_round_number
Marked(q) == {t \in Tables : \E x \in BOOLEAN : <<q, t, x>> \in marks}
HasMarks(t) == \E m \in marks : m[2] = t
\* Every table has been scored on the question.
AllMarked(q) == Cardinality(Marked(q)) >= Cardinality(tables)

----------------------------------------------------------------------------
(* The floor: what one transaction under the quiz row's lock reads and      *)
(* writes.  Nested calls are functions from a floor to a floor.             *)

Floor == [num |-> num, tables |-> tables, chair |-> chair, seat |-> seat,
          group |-> group, present |-> attended]

SetFloor(f) ==
    /\ num' = f.num /\ tables' = f.tables /\ chair' = f.chair
    /\ seat' = f.seat /\ group' = f.group /\ attended' = f.present

\* The floor after the QuizTable rows outside `left` are deleted: the rows
\* that name them go too.
Cascaded(f, left) ==
    LET At0(t) == IF t \in left THEN t ELSE 0
        now == [r \in Rounds |-> [u \in Users |-> At0(f.seat[r][u])]]
    IN  [f EXCEPT !.tables = left, !.seat = now,
                  !.chair = [u \in Users |-> At0(f.chair[u])],
                  !.group = [u \in Users |-> IF now[0][u] = 0 THEN "" ELSE f.group[u]]]

CanBuild(f) == Schedulable(f.seat[0], f.present, f.num)

\* generate_rotation_rounds from a round on: tables beyond num go unless they
\* carry scores.
Built(f, from) ==
    Cascaded([f EXCEPT !.seat = Schedule(f.seat, f.group, f.present, f.num, from)],
             {t \in f.tables \cup 1..f.num : t <= f.num \/ HasMarks(t)})

\* The first round a regeneration may touch: the current one is kept.
\* Mutant: the current round is made anew too.
FirstFree_current == IF RoundNumber = 0 THEN 1 ELSE RoundNumber
FirstFree == RoundNumber + 1

\* The callers that swallow its errors.
Reseated(f) == IF CanBuild(f) THEN Built(f, FirstFree) ELSE f

\* A member's new chair and round-0 row at table t.
Role(u) == IF u \in Men THEN Men ELSE Women
Seated(f, u, t, n) ==
    LET before == {v \in Women : f.seat[0][v] # 0}
    IN  [f EXCEPT !.chair[u] = t, !.seat[0][u] = t,
                  !.group[u] = IF u \in Men THEN "" ELSE GroupAfter(Cardinality(before), n)]

----------------------------------------------------------------------------
(* The door.                                                                *)

\* event_checkin_api, mark_attended: the registration is locked; the quiz as
\* the request read it, before it waits for the quiz row.  Members first
\* arrive in the order of their numbers (a bound).
CheckInBegin(j, u) ==
    /\ "door" \in Operations /\ j \in Clerks /\ Idle(j)
    /\ u \notin attended /\ \A v \in Users : v < u => v \in came
    /\ \A k \in Clerks : ~(At(k, "checkin", "seat") /\ job[k].u = u)
    /\ Begin(j, [op |-> "checkin", step |-> "seat", u |-> u, num |-> num, live |-> status \in Live])
    /\ UNCHANGED <<hostVars, floorVars, scoreVars, came, corrections>>

\* assign_table_on_checkin, in the transaction of the check-in: any table row
\* will do; a chair kept from before is kept.
CheckInSeat(j) ==
    /\ At(j, "checkin", "seat")
    /\ LET u == job[j].u
           here == [Floor EXCEPT !.present = @ \cup {u}, !.tables = @ \cup 1..job[j].num]
           placed == Seated(here, u, LeastFilled(here.tables, Role(u) \ {u}, seat[0]), job[j].num)
       IN  SetFloor(IF chair[u] # 0 THEN here
                    ELSE IF job[j].live THEN Reseated(placed) ELSE placed)
    /\ came' = came \cup {job[j].u}
    /\ End(j)
    /\ UNCHANGED <<hostVars, scoreVars, corrections>>

Released(u) == {c \in credits : c[1] # u}
Undo(j, u) ==
    /\ "undo" \in Operations /\ j \in Clerks /\ Idle(j) /\ u \in attended /\ Corrects
    /\ LET left == [Floor EXCEPT !.present = @ \ {u}, !.chair[u] = 0, !.group[u] = "",
                                 !.seat = [r \in Rounds |-> [seat[r] EXCEPT ![u] = 0]]]
       IN  SetFloor(IF status \in Live THEN Reseated(left) ELSE left)
    /\ credits' = Released(u)
    /\ UNCHANGED <<hostVars, marks, came, job>>

----------------------------------------------------------------------------
(* Staff move people and tables.                                            *)

\* manual_assign_table: the quiz's status is read first, the rest under the
\* lock.  Staff place a member at the top table of their page (a bound).
AssignBegin(j, u) ==
    /\ "assign" \in Operations /\ j \in Clerks /\ Idle(j) /\ status # "finished" /\ Corrects
    /\ Begin(j, [op |-> "assign", step |-> "seat", u |-> u, t |-> num, live |-> status \in Live,
                 seen |-> u \in attended])
    /\ UNCHANGED <<hostVars, floorVars, scoreVars, came>>

\* Mutant: the registration is read before the lock.
Assignable_asSeen(j) ==
    /\ job[j].t \in tables /\ job[j].t <= num /\ job[j].seen /\ chair[job[j].u] = 0
Assignable(j) ==
    /\ job[j].t \in tables /\ job[j].t <= num /\ job[j].u \in attended /\ chair[job[j].u] = 0

AssignSeat(j) ==
    /\ At(j, "assign", "seat")
    /\ IF Assignable(j)
       THEN /\ SetFloor(Seated(Floor, job[j].u, job[j].t, num))
            /\ IF job[j].live THEN Begin(j, [op |-> "assign", step |-> "build"]) ELSE End(j)
       ELSE End(j) /\ UNCHANGED floorVars
    /\ UNCHANGED <<hostVars, scoreVars, came, corrections>>

AssignBuild(j) ==
    /\ At(j, "assign", "build")
    /\ SetFloor(Reseated(Floor))
    /\ End(j)
    /\ UNCHANGED <<hostVars, scoreVars, came, corrections>>

\* dissolve_table: the top table, empty now; its row stays if it has scores.
\* If the remaining rounds cannot be rebuilt, everything is rolled back.
Dissolve(j) ==
    /\ "dissolve" \in Operations /\ Ready(j) /\ Corrects
    /\ status \in Live \cup {"draft"} /\ num >= 3 /\ num \in tables
    /\ \A u \in Users : seat[RoundNumber][u] # num
    /\ LET ahead == [r \in Rounds |-> [u \in Users |->
                        IF r >= RoundNumber /\ seat[r][u] = num THEN 0 ELSE seat[r][u]]]
           bare == [Floor EXCEPT !.seat = ahead, !.num = num - 1,
                                 !.chair = [u \in Users |-> IF chair[u] = num THEN 0 ELSE chair[u]]]
           gone == Cascaded(bare, IF HasMarks(num) THEN tables ELSE tables \ {num})
       IN  /\ status \in Live => CanBuild(gone)
           /\ SetFloor(IF status \in Live THEN Built(gone, FirstFree) ELSE gone)
    /\ UNCHANGED <<hostVars, scoreVars, came, job>>

\* consolidate_tables: the plan from unlocked reads while the quiz is a draft;
\* staff choose where the members of the removed tables go.
Fewer ==
    LET door(S) == Max({2, Cardinality({u \in S : seat[0][u] # 0})})
    IN  Min({num, door(Men), door(Women)})
Excess(n) == {u \in Users : seat[0][u] > n}
ConsolidateBegin(j) ==
    /\ "consolidate" \in Operations /\ j \in Clerks /\ Idle(j) /\ Corrects
    /\ status = "draft" /\ num >= 2 /\ (\E u \in Users : seat[0][u] # 0)
    /\ Fewer # num \/ Excess(Fewer) # {}
    /\ \E to \in [Excess(Fewer) -> 1..Fewer] :
        Begin(j, [op |-> "consolidate", step |-> "move", num |-> Fewer, to |-> to])
    /\ UNCHANGED <<hostVars, floorVars, scoreVars, came>>

\* The moves, under the lock; tables beyond the new count go, with their scores.
ConsolidateMove(j) ==
    /\ At(j, "consolidate", "move")
    /\ IF status = "draft" /\ 1..job[j].num \subseteq tables
       THEN LET n == job[j].num
                to == job[j].to
                Moved(u, t) == IF u \in DOMAIN to /\ t # 0 THEN to[u] ELSE t
                moved == [Floor EXCEPT !.num = n,
                              !.chair = [u \in Users |-> Moved(u, chair[u])],
                              !.seat[0] = [u \in Users |-> Moved(u, seat[0][u])]]
            IN  /\ SetFloor(Cascaded(moved, tables \cap 1..n))
                /\ marks' = {m \in marks : m[2] <= n}
                /\ Begin(j, [op |-> "consolidate", step |-> "build"])
       ELSE End(j) /\ UNCHANGED <<floorVars, marks>>
    /\ UNCHANGED <<hostVars, credits, came, corrections>>

ConsolidateBuild(j) ==
    /\ At(j, "consolidate", "build")
    /\ SetFloor(IF CanBuild(Floor) THEN Built(Floor, 1) ELSE Floor)
    /\ End(j)
    /\ UNCHANGED <<hostVars, scoreVars, came, corrections>>

----------------------------------------------------------------------------
(* The hosts run the quiz.                                                  *)

\* start_quiz_from_first_round: nothing is locked; "look" asks whether the
\* rounds after the door's exist.
Start(j) ==
    /\ Ready(j) /\ status = "draft"
    /\ Begin(j, [op |-> "start", step |-> "look", from |-> 1])
    /\ UNCHANGED <<hostVars, floorVars, scoreVars, came, corrections>>

\* check_rotation_exists: the round has rows.
Exists(r) == r \in Rounds /\ \E u \in Users : seat[r][u] # 0
Look(j) ==
    /\ job[j].step = "look"
    /\ LET next == IF ~Exists(job[j].from) THEN "build" ELSE "save"
       IN  job' = [job EXCEPT ![j].step = next]
    /\ UNCHANGED <<hostVars, floorVars, scoreVars, came, corrections>>

Build(j) ==
    /\ job[j].step = "build" /\ job[j].op \in {"start", "rotate"}
    /\ IF CanBuild(Floor)
       THEN /\ SetFloor(Built(Floor, job[j].from))
            /\ job' = [job EXCEPT ![j].step = "save"]
       ELSE End(j) /\ UNCHANGED floorVars
    /\ UNCHANGED <<hostVars, scoreVars, came, corrections>>

\* The start's save; a rotation has nothing left but its broadcast.
Save(j) ==
    /\ job[j].step = "save"
    /\ IF job[j].op = "start"
       THEN round' = 0 /\ index' = 0 /\ status' = "active"
       ELSE UNCHANGED hostVars
    /\ End(j)
    /\ UNCHANGED <<floorVars, scoreVars, came, corrections>>

\* handle_next_question: check_all_tables_scored, then advance_question under
\* the lock, which checks the status and the index again but not the scores.
NextBegin(j) ==
    /\ Ready(j)
    /\ round # -1 /\ index # -1 => tables = {} \/ AllMarked(<<round, index>>)
    /\ Begin(j, [op |-> "next", step |-> "advance"])
    /\ UNCHANGED <<hostVars, floorVars, scoreVars, came, corrections>>

\* Mutant: one question too many.
MoreQuestions_plusOne == index < Questions
MoreQuestions == index < Questions - 1

NextAdvance(j) ==
    /\ At(j, "next", "advance")
    /\ IF status = "active" /\ round # -1 /\ MoreQuestions
       THEN index' = index + 1 /\ End(j)
       ELSE /\ IF round + 1 \in Rounds /\ round # -1
               THEN End(j)
               ELSE Begin(j, [op |-> "status", step |-> "look at", to |-> "finished"])
            /\ UNCHANGED index
    /\ UNCHANGED <<status, round, floorVars, scoreVars, came, corrections>>

\* set_quiz_status: reads the row, checks the transition, saves it later.
Transitions == {<<"draft", "active">>, <<"active", "paused">>, <<"active", "finished">>,
                <<"paused", "active">>, <<"paused", "finished">>}
StatusBegin(j, to) ==
    /\ "status" \in Operations /\ Ready(j) /\ Corrects
    /\ Begin(j, [op |-> "status", step |-> "look at", to |-> to])
    /\ UNCHANGED <<hostVars, floorVars, scoreVars, came>>
StatusRead(j) ==
    /\ At(j, "status", "look at")
    /\ IF <<status, job[j].to>> \in Transitions
       THEN job' = [job EXCEPT ![j].step = "write"]
       ELSE End(j)
    /\ UNCHANGED <<hostVars, floorVars, scoreVars, came, corrections>>
StatusWrite(j) ==
    /\ At(j, "status", "write")
    /\ status' = job[j].to
    /\ End(j)
    /\ UNCHANGED <<round, index, floorVars, scoreVars, came, corrections>>

\* handle_rotate: check_can_rotate, then advance_round_and_rotate under the lock.
CanRotate ==
    round # -1 => /\ index >= Questions - 1
                  /\ tables = {} \/ AllMarked(<<round, index>>)
RotateBegin(j) ==
    /\ Ready(j) /\ CanRotate
    /\ Begin(j, [op |-> "rotate", step |-> "advance"])
    /\ UNCHANGED <<hostVars, floorVars, scoreVars, came, corrections>>

\* No consolidation made before the start is still to rebuild the rounds.
Prompt == \A k \in Clerks : ~At(k, "consolidate", "build")
\* Nothing in the code keeps a rotation from overtaking that rebuild; an instance
\* without "overtake" is one in which a web request is over within a round.
RotateAdvance(j) ==
    /\ At(j, "rotate", "advance") /\ ("overtake" \in Operations \/ Prompt)
    /\ IF round + 1 \in Rounds
       THEN /\ round' = round + 1 /\ index' = -1 /\ status' = "active"
            /\ Begin(j, [op |-> "rotate", step |-> "look", from |-> round + 1])
       ELSE /\ status' = "finished" /\ UNCHANGED <<round, index>>
            /\ End(j)
    /\ UNCHANGED <<floorVars, scoreVars, came, corrections>>

\* handle_set_round: only the current round may be selected again; its saved
\* values are those of the read.
ReselectBegin(j) ==
    /\ "reselect" \in Operations /\ Ready(j) /\ round # -1 /\ Corrects
    /\ Begin(j, [op |-> "reselect", step |-> "write", to |-> round])
    /\ UNCHANGED <<hostVars, floorVars, scoreVars, came>>
ReselectWrite(j) ==
    /\ At(j, "reselect", "write")
    /\ round' = job[j].to /\ index' = -1
    /\ End(j)
    /\ UNCHANGED <<status, floorVars, scoreVars, came, corrections>>

\* reset_quiz_to_draft, with or without the scores.
Reset(j) ==
    /\ "reset" \in Operations /\ Ready(j) /\ Corrects
    /\ status \in {"finished", "paused"}
    /\ status' = "draft" /\ round' = -1 /\ index' = -1
    /\ \/ marks' = {} /\ credits' = {}
       \/ "rehearsal" \in Operations /\ UNCHANGED scoreVars
    /\ UNCHANGED <<floorVars, came, job>>

----------------------------------------------------------------------------
(* Scores.  A host scores the question on its screen; the request may land  *)
(* after the quiz has moved on.  A first score says wrong, a corrected one  *)
(* says right (a bound).                                                    *)

ScoreBegin(j, t, right) ==
    /\ Ready(j) /\ t \in tables /\ round # -1 /\ index # -1
    /\ IF right THEN Corrects ELSE t \notin Marked(<<round, index>>) /\ UNCHANGED corrections
    /\ Begin(j, [op |-> "score", step |-> "write", q |-> <<round, index>>, t |-> t, right |-> right])
    /\ UNCHANGED <<hostVars, floorVars, scoreVars, came>>

\* Whom a score credits: who sits at the table in the round of the question
\* or, if that round has no rows, who has a chair at it.
Team(q, t) ==
    IF Exists(q[1]) THEN {u \in Users : seat[q[1]][u] = t}
    ELSE {u \in Users : chair[u] = t}

\* get_or_create on the first score, update_or_create on a corrected one.
Credited(u, q) == \E c \in credits : c[1] = u /\ c[2] = q
FirstCredits(q, t, right) ==
    credits \cup {<<u, q, t, right>> : u \in {v \in Team(q, t) : ~Credited(v, q)}}
\* Mutant: a corrected score only adds missing credits.
NewCredits_keepingOld(q, t, right) == FirstCredits(q, t, right)
NewCredits(q, t, right) ==
    {c \in credits : ~(c[1] \in Team(q, t) /\ c[2] = q)}
        \cup {<<u, q, t, right>> : u \in Team(q, t)}

\* A table deleted meanwhile fails the insert's foreign key.
ScoreWrite(j) ==
    /\ At(j, "score", "write")
    /\ LET q == job[j].q
           t == job[j].t
           right == job[j].right
       IN  \/ /\ t \in tables /\ t \notin Marked(q)
              /\ marks' = marks \cup {<<q, t, right>>}
              /\ credits' = FirstCredits(q, t, right)
           \/ /\ t \in tables /\ <<q, t, ~right>> \in marks /\ ~AllMarked(q)
              /\ marks' = (marks \ {<<q, t, ~right>>}) \cup {<<q, t, right>>}
              /\ credits' = NewCredits(q, t, right)
           \/ /\ t \notin tables \/ <<q, t, right>> \in marks \/ (t \in Marked(q) /\ AllMarked(q))
              /\ UNCHANGED scoreVars
    /\ End(j)
    /\ UNCHANGED <<hostVars, floorVars, came, corrections>>

----------------------------------------------------------------------------
Door(j) == CheckInSeat(j) \/ \E u \in Users : CheckInBegin(j, u) \/ Undo(j, u)
Staff(j) ==
    \/ AssignSeat(j) \/ AssignBuild(j) \/ Dissolve(j)
    \/ ConsolidateBegin(j) \/ ConsolidateMove(j) \/ ConsolidateBuild(j)
    \/ \E u \in Users : AssignBegin(j, u)
Host(j) ==
    \/ Start(j) \/ Look(j) \/ Build(j) \/ Save(j) \/ NextBegin(j) \/ NextAdvance(j)
    \/ StatusRead(j) \/ StatusWrite(j) \/ RotateBegin(j) \/ RotateAdvance(j)
    \/ ReselectBegin(j) \/ ReselectWrite(j) \/ Reset(j)
    \/ \E to \in {"active", "paused", "finished"} : StatusBegin(j, to)
Score(j) == ScoreWrite(j) \/ \E t \in Tables, right \in BOOLEAN : ScoreBegin(j, t, right)

Next == \E j \in Jobs : Door(j) \/ Staff(j) \/ Host(j) \/ Score(j)
Spec == Init /\ [][Next]_vars

----------------------------------------------------------------------------
(* Properties.                                                              *)

\* Whoever is not checked in has no chair, no row in any round and no points:
\* an undo takes back everything, whatever hosts and staff did meanwhile.
OnlyPresentSeated ==
    \A u \in Users \ attended :
        /\ chair[u] = 0
        /\ \A r \in Rounds : seat[r][u] = 0
        /\ \A c \in credits : c[1] # u

\* The leaderboards agree: a member's points for a question match the score
\* of the table they were earned at, whatever was corrected and whoever moved,
\* unless that table was dissolved.  The first round's rows are the door's,
\* which staff may still write: there it is about who sits at the table, while
\* the round is on.
CreditsAgree ==
    \A c \in credits, m \in marks :
        (/\ c[2] = m[1] /\ c[3] = m[2] /\ c[3] <= num
         /\ c[2][1] = 0 => round = 0 /\ seat[0][c[1]] = c[3])
        => c[4] = m[3]

\* Nobody who sits at one of the quiz's tables is moved in the middle of a
\* round: a late arrival, an undo, a table dissolved or a member placed by hand
\* rebuild the rounds to come and leave the current one alone (aside from a
\* rotation that found its round without rows and is making them, and, in the
\* first round, from a member whose chair went with a dissolved table).  It is
\* false where a rotation overtakes a consolidation's rebuild ("overtake").
NobodyMovesMidRound ==
    [][\A u \in attended \cap attended' :
        (/\ status \in Live /\ status' \in Live /\ round' = round /\ round # -1
         /\ seat[round][u] \in 1..num' /\ (round = 0 => chair[u] # 0)
         /\ \A k \in Hosts : ~At(k, "rotate", "build"))
        => seat'[round][u] = seat[round][u]]_vars

\* A round ends with its last question ("rotating mid-round would skip
\* unasked questions", consumers.py).
RoundsPlayedOut ==
    [][round' > round /\ round # -1 => index = Questions - 1]_vars
=============================================================================
