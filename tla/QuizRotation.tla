----------------------------- MODULE QuizRotation -----------------------------
(***************************************************************************)
(* The seating plan of a quiz night (crush_lu/services/quiz_rotation.py):  *)
(* men stay at a table, women move on by one or two tables a round.  A     *)
(* seating maps each round and member to a table, 0 for none; round 0 is   *)
(* where the door put them.  Members are numbered in the order they signed *)
(* up; rows of one table and role are taken in that order.                 *)
(***************************************************************************)
EXTENDS Naturals, FiniteSets

CONSTANTS Men, Women,   \* primary keys, in the order of sign-up
          MaxTables,    \* tables the organiser configured (a bound)
          MaxRounds     \* rounds of the quiz (a bound)

Users == Men \cup Women
Tables == 1..MaxTables
Rounds == 0..(MaxRounds - 1)
Groups == {"", "A", "B", "C"}   \* rotation_group of the round-0 row

ASSUME QuizAssumption ==
    /\ Men \subseteq Nat /\ Women \subseteq Nat /\ Men \cap Women = {}
    /\ IsFiniteSet(Men) /\ IsFiniteSet(Women)
    /\ MaxTables \in Nat \ {0} /\ MaxRounds \in Nat \ {0}

\* The members of S whose key is below u's.
Rank(S, key, u) == Cardinality({v \in S : key[v] < key[u]})

\* Where assign_table_on_checkin puts a newcomer: the table with the fewest
\* round-0 rows of the role, the lowest number first.
LeastFilled(places, mates, door) ==
    LET Load(t) == Cardinality({v \in mates : door[v] = t})
    IN  CHOOSE t \in places : \A s \in places \ {t} :
            Load(t) < Load(s) \/ (Load(t) = Load(s) /\ t < s)

\* The group of a rotator who comes after n others.
GroupAfter(n, num) == IF n < num THEN "A" ELSE IF n < 2 * num THEN "B" ELSE "C"

\* Who generate_rotation_rounds seats: those with a round-0 row at one of the
\* num tables, and those present without a round-0 row.
Seatable(S, door, present, num) ==
    {u \in S : door[u] \in 1..num \/ (door[u] = 0 /\ u \in present)}

Last == Cardinality(Users) * MaxTables * 4 + 1   \* after every round-0 key

\* Men: the first of every table, then the second of every table, ...
ManKey(door) == [u \in Men |->
    IF door[u] = 0 THEN Last + u
    ELSE MaxTables * Cardinality({v \in Men : door[v] = door[u] /\ v < u}) + door[u]]

\* Women: by group, then by table.
WomanKey(door, group) == [u \in Women |->
    IF door[u] = 0 THEN Last * Last + u
    ELSE LET g == CASE group[u] = "A" -> 0 [] group[u] = "B" -> 1 [] OTHER -> 2
         IN  (g * MaxTables + door[u]) * Last + u]

\* The table of the man, of the woman, with index i in round r (num tables).
ManTable(i, num) == (i % num) + 1
WomanTable(i, r, num) ==
    IF num = 2
    THEN IF i < 4 THEN (((i + 3 * r) % 4) \div 2) + 1 ELSE ((i - 4 + r) % 2) + 1
    ELSE IF i < num THEN ((i + r * (num - 1)) % num) + 1
    ELSE IF i < 2 * num THEN ((i - num + 2 * r * (num - 1)) % num) + 1
    ELSE ((i - 2 * num + r) % num) + 1

\* generate_rotation_schedule refuses too few tables or people; with two
\* tables and one to three women it names a woman twice in a round, which the
\* unique key of the schedule refuses.
Schedulable(door, present, num) ==
    LET men == Seatable(Men, door, present, num)
        women == Seatable(Women, door, present, num)
    IN  /\ num >= 2 /\ Cardinality(men) + Cardinality(women) >= 4
        /\ num = 2 => Cardinality(women) \notin 1..3

\* generate_rotation_rounds: the rounds from `from` on are made anew.
Schedule(seats, group, present, num, from) ==
    LET door == seats[0]
        men == Seatable(Men, door, present, num)
        women == Seatable(Women, door, present, num)
    IN  [r \in Rounds |-> IF r < from THEN seats[r]
         ELSE [u \in Users |->
            IF u \in men THEN ManTable(Rank(men, ManKey(door), u), num)
            ELSE IF u \in women THEN WomanTable(Rank(women, WomanKey(door, group), u), r, num)
            ELSE 0]]
=============================================================================
