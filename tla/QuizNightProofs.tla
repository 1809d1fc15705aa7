--------------------------- MODULE QuizNightProofs ---------------------------
(***************************************************************************)
(* Proofs about QuizNight, for any members, tables, rounds and requests:   *)
(* whoever is not checked in sits nowhere and has no points.  A handler     *)
(* builds its floor from what it reads under the quiz row's lock, by nested *)
(* calls; each of them takes a sound floor to a sound floor (Floors).       *)
(***************************************************************************)
EXTENDS QuizNight, FiniteSetTheorems, WellFoundedInduction, TLAPS

Seats == {0} \cup Tables

-----------------------------------------------------------------------------
(* The seating plan *)

LEMMA LeastNatural ==
  ASSUME NEW S \in SUBSET Nat, S # {}
  PROVE  \E m \in S : \A k \in S : m <= k
<1>1. PICK m \in S : \A k \in S : <<k, m>> \notin OpToRel(<, Nat)
  BY WFMin, NatLessThanWellFounded, Zenon
<1>2. \A k \in S : ~(k < m)
  BY <1>1, Zenon DEF OpToRel
<1>3. QED
  BY <1>2

LEMMA RolesFinite ==
  /\ IsFiniteSet(Users) /\ Users \subseteq Nat
  /\ \A S \in SUBSET Users : IsFiniteSet(S) /\ Cardinality(S) \in Nat
<1>1. IsFiniteSet(Users) /\ Users \subseteq Nat
  BY QuizAssumption, FS_Union DEF Users
<1>2. QED
  BY <1>1, FS_Subset, FS_CardinalityType

\* There is a least filled table among any.
LEMMA LeastFilledIsOne ==
  ASSUME NEW places \in SUBSET Tables, places # {}, NEW mates \in SUBSET Users, NEW door
  PROVE  LeastFilled(places, mates, door) \in places
<1> DEFINE Load(t) == Cardinality({v \in mates : door[v] = t})
           loads == {Load(t) : t \in places}
           Better(t, s) == Load(t) < Load(s) \/ (Load(t) = Load(s) /\ t < s)
<1>1. \A t \in places : Load(t) \in Nat /\ t \in Nat
  <2> TAKE t \in places
  <2>1. {v \in mates : door[v] = t} \in SUBSET Users
    OBVIOUS
  <2>2. Load(t) \in Nat
    BY <2>1, RolesFinite
  <2>3. QED
    BY <2>2 DEF Tables
<1> HIDE DEF Load
<1>2. PICK least \in loads : \A k \in loads : least <= k
  <2>1. loads \in SUBSET Nat /\ loads # {}
    BY <1>1
  <2> HIDE DEF loads
  <2>2. QED
    BY <2>1, LeastNatural
<1> DEFINE few == {t \in places : Load(t) = least}
<1>3. PICK first \in few : \A s \in few : first <= s
  <2>1. few \in SUBSET Nat /\ few # {}
    BY <1>1, <1>2
  <2> HIDE DEF few
  <2>2. QED
    BY <2>1, LeastNatural
<1>4. \A s \in places \ {first} : Better(first, s)
  BY <1>1, <1>2, <1>3
<1>5. \E t \in places : \A s \in places \ {t} : Better(t, s)
  BY <1>3, <1>4
<1>6. LeastFilled(places, mates, door)
        = CHOOSE t \in places : \A s \in places \ {t} : Better(t, s)
  BY DEF LeastFilled, Load
<1> HIDE DEF Better
<1>7. QED
  BY <1>5, <1>6

LEMMA Remainder ==
  ASSUME NEW a \in Int, NEW n \in Nat \ {0}
  PROVE  (a % n) + 1 \in 1..n
  OBVIOUS

\* A plan names tables in use.
LEMMA PlannedTables ==
  ASSUME NEW n \in Nat, n >= 2, NEW i \in Nat
  PROVE  /\ ManTable(i, n) \in 1..n
         /\ \A r \in Nat : WomanTable(i, r, n) \in 1..n
<1>1. ManTable(i, n) \in 1..n
  BY Remainder DEF ManTable
<1>2. ASSUME NEW r \in Nat
      PROVE  WomanTable(i, r, n) \in 1..n
  <2>1. i + r * (n - 1) \in Int /\ i - n + 2 * r * (n - 1) \in Int /\ i - 2 * n + r \in Int
        /\ i - 4 + r \in Int /\ i + 3 * r \in Int
    OBVIOUS
  <2>2. /\ ((i + r * (n - 1)) % n) + 1 \in 1..n
        /\ ((i - n + 2 * r * (n - 1)) % n) + 1 \in 1..n
        /\ ((i - 2 * n + r) % n) + 1 \in 1..n
        /\ ((i - 4 + r) % 2) + 1 \in 1..2
    BY <2>1, Remainder
  <2>3. (((i + 3 * r) % 4) \div 2) + 1 \in 1..2
    BY <2>1
  <2>4. QED
    BY <2>2, <2>3 DEF WomanTable
<1>3. QED
  BY <1>1, <1>2

LEMMA RankType ==
  ASSUME NEW S \in SUBSET Users, NEW key, NEW u
  PROVE  Rank(S, key, u) \in Nat
<1>1. {v \in S : key[v] < key[u]} \in SUBSET Users
  OBVIOUS
<1>2. QED
  BY <1>1, RolesFinite DEF Rank

LEMMA ScheduleSound ==
  ASSUME NEW seats \in [Rounds -> [Users -> Seats]], NEW gr, NEW present,
         NEW n \in Tables, n >= 2, NEW from
  PROVE  Schedule(seats, gr, present, n, from) \in [Rounds -> [Users -> Seats]]
<1> DEFINE door == seats[0]
           men == Seatable(Men, door, present, n)
           women == Seatable(Women, door, present, n)
           Man(u) == ManTable(Rank(men, ManKey(door), u), n)
           Woman(r, u) == WomanTable(Rank(women, WomanKey(door, gr), u), r, n)
<1>1. 0 \in Rounds /\ Rounds \subseteq Nat /\ n \in Nat /\ 1..n \subseteq Seats
  BY QuizAssumption DEF Rounds, Tables, Seats
<1>2. men \in SUBSET Users /\ women \in SUBSET Users
  BY DEF Seatable, Users
<1>3. \A u \in Users : Man(u) \in Seats
  BY <1>1, <1>2, RankType, PlannedTables
<1>4. \A r \in Rounds, u \in Users : Woman(r, u) \in Seats
  <2> TAKE r \in Rounds, u \in Users
  <2>1. Rank(women, WomanKey(door, gr), u) \in Nat
    BY <1>2, RankType
  <2>2. QED
    BY <1>1, <2>1, PlannedTables
<1>5. Schedule(seats, gr, present, n, from) =
        [r \in Rounds |-> IF r < from THEN seats[r]
           ELSE [u \in Users |-> IF u \in men THEN Man(u)
                                 ELSE IF u \in women THEN Woman(r, u) ELSE 0]]
  BY DEF Schedule
<1>6. 0 \in Seats
  BY DEF Seats
<1> HIDE DEF men, women, Man, Woman
<1>7. QED
  BY <1>1, <1>3, <1>4, <1>5, <1>6

\* A plan seats, in the rounds it makes, only members with a round-0 row or present.
LEMMA UnplannedOut ==
  ASSUME NEW seats \in [Rounds -> [Users -> Seats]], NEW gr, NEW present,
         NEW n \in Tables, n >= 2, NEW from, NEW u \in Users \ present, NEW r \in Rounds,
         seats[0][u] = 0, seats[r][u] = 0
  PROVE  Schedule(seats, gr, present, n, from)[r][u] = 0
<1>1. 0 \in Rounds /\ n \in Nat
  BY QuizAssumption DEF Rounds, Tables
<1>2. /\ u \notin Seatable(Men, seats[0], present, n)
      /\ u \notin Seatable(Women, seats[0], present, n)
  BY <1>1 DEF Seatable
<1>3. QED
  BY <1>1, <1>2 DEF Schedule

-----------------------------------------------------------------------------
(* Floors *)

FloorType == [num : Tables, tables : SUBSET Tables, chair : [Users -> Seats],
              seat : [Rounds -> [Users -> Seats]], group : [Users -> Groups],
              present : SUBSET Users]

\* Who is not present sits nowhere.
AbsentOut(f) ==
    \A u \in Users \ f.present : f.chair[u] = 0 /\ \A r \in Rounds : f.seat[r][u] = 0
Floors == {f \in FloorType : AbsentOut(f)}

LEMMA ZeroFacts ==
  /\ 0 \in Rounds /\ Rounds \subseteq Nat /\ 0 \in Seats /\ 0 \notin Tables
  /\ 1 \in Tables /\ Tables \subseteq Nat /\ Tables \subseteq Seats /\ "" \in Groups
  /\ \A n \in Tables : 1..n \subseteq Tables
  BY QuizAssumption DEF Rounds, Seats, Tables, Groups

LEMMA CascadedSound ==
  ASSUME NEW f \in Floors, NEW left \in SUBSET Tables
  PROVE  /\ Cascaded(f, left) \in Floors
         /\ Cascaded(f, left).present = f.present /\ Cascaded(f, left).num = f.num
<1> DEFINE At0(t) == IF t \in left THEN t ELSE 0
           now == [r \in Rounds |-> [u \in Users |-> At0(f.seat[r][u])]]
           newChair == [u \in Users |-> At0(f.chair[u])]
           newGroup == [u \in Users |-> IF now[0][u] = 0 THEN "" ELSE f.group[u]]
<1>1. Cascaded(f, left) = [f EXCEPT !.tables = left, !.seat = now,
                                    !.chair = newChair, !.group = newGroup]
  BY DEF Cascaded
<1>2. f \in FloorType /\ AbsentOut(f)
  BY DEF Floors
<1>3. now \in [Rounds -> [Users -> Seats]] /\ newChair \in [Users -> Seats]
  BY ZeroFacts
<1>4. newGroup \in [Users -> Groups]
  BY <1>2, ZeroFacts DEF FloorType
<1>5. \A u \in Users \ f.present : newChair[u] = 0 /\ \A r \in Rounds : now[r][u] = 0
  BY <1>2 DEF AbsentOut
<1> HIDE DEF now, newChair, newGroup
<1>6. Cascaded(f, left) \in FloorType
  BY <1>1, <1>2, <1>3, <1>4 DEF FloorType
<1>7. /\ Cascaded(f, left).present = f.present /\ Cascaded(f, left).num = f.num
      /\ Cascaded(f, left).chair = newChair /\ Cascaded(f, left).seat = now
  BY <1>1, <1>2 DEF FloorType
<1>8. QED
  BY <1>5, <1>6, <1>7 DEF Floors, AbsentOut

LEMMA BuiltSound ==
  ASSUME NEW f \in Floors, CanBuild(f), NEW from
  PROVE  Built(f, from) \in Floors /\ Built(f, from).present = f.present
<1> DEFINE plan == Schedule(f.seat, f.group, f.present, f.num, from)
           g == [f EXCEPT !.seat = plan]
           left == {t \in f.tables \cup 1..f.num : t <= f.num \/ HasMarks(t)}
<1>1. f \in FloorType /\ AbsentOut(f)
  BY DEF Floors
<1>2. f.num \in Tables /\ f.num >= 2 /\ f.seat \in [Rounds -> [Users -> Seats]]
      /\ f.tables \subseteq Tables
  BY <1>1 DEF FloorType, CanBuild, Schedulable
<1>3. plan \in [Rounds -> [Users -> Seats]]
      /\ \A u \in Users \ f.present : \A r \in Rounds : plan[r][u] = 0
  <2>1. PICK n, seats, gr, p :
           /\ n = f.num /\ seats = f.seat /\ gr = f.group /\ p = f.present
           /\ n \in Tables /\ n >= 2 /\ seats \in [Rounds -> [Users -> Seats]]
    BY <1>2
  <2>2. plan = Schedule(seats, gr, p, n, from)
    BY <2>1
  <2> HIDE DEF plan, g, left
  <2>3. plan \in [Rounds -> [Users -> Seats]]
    BY <2>1, <2>2, ScheduleSound
  <2>4. ASSUME NEW u \in Users \ f.present, NEW r \in Rounds
        PROVE  plan[r][u] = 0
    <3>1. u \in Users \ p /\ seats[0][u] = 0 /\ seats[r][u] = 0
      BY <1>1, <2>1, ZeroFacts DEF AbsentOut
    <3>2. Schedule(seats, gr, p, n, from)[r][u] = 0
      BY <2>1, <3>1, UnplannedOut
    <3>3. QED
      BY <2>2, <3>2
  <2>5. QED
    BY <2>3, <2>4
<1>4. left \in SUBSET Tables
  BY <1>2, ZeroFacts
<1> HIDE DEF plan
<1>5. g \in FloorType
  BY <1>1, <1>3 DEF FloorType
<1>6. g.present = f.present /\ g.chair = f.chair /\ g.seat = plan
  BY <1>1 DEF FloorType
<1>7. g \in Floors
  BY <1>1, <1>3, <1>5, <1>6 DEF Floors, AbsentOut
<1>8. Built(f, from) = Cascaded(g, left)
  BY DEF Built, plan
<1> HIDE DEF g, left
<1>9. Cascaded(g, left) \in Floors /\ Cascaded(g, left).present = g.present
  BY <1>4, <1>7, CascadedSound
<1>10. QED
  BY <1>6, <1>8, <1>9

LEMMA ReseatedSound ==
  ASSUME NEW f \in Floors
  PROVE  Reseated(f) \in Floors /\ Reseated(f).present = f.present
  BY BuiltSound DEF Reseated

\* Only someone present is given a chair.
LEMMA SeatedSound ==
  ASSUME NEW f \in Floors, NEW u \in f.present, NEW t \in Tables, NEW n
  PROVE  Seated(f, u, t, n) \in Floors /\ Seated(f, u, t, n).present = f.present
<1> DEFINE before == {v \in Women : f.seat[0][v] # 0}
           gr == IF u \in Men THEN "" ELSE GroupAfter(Cardinality(before), n)
           newChair == [f.chair EXCEPT ![u] = t]
           newSeat == [f.seat EXCEPT ![0] = [f.seat[0] EXCEPT ![u] = t]]
           newGroup == [f.group EXCEPT ![u] = gr]
<1>1. f \in FloorType /\ AbsentOut(f) /\ u \in Users
  BY DEF Floors, FloorType
<1>2. gr \in Groups
  BY DEF GroupAfter, Groups
<1>3. Seated(f, u, t, n) = [f EXCEPT !.chair = newChair, !.seat = newSeat, !.group = newGroup]
  BY <1>1 DEF Seated, FloorType
<1>4. newChair \in [Users -> Seats] /\ \A v \in Users \ f.present : newChair[v] = 0
  BY <1>1, ZeroFacts DEF FloorType, AbsentOut
<1>5. newSeat \in [Rounds -> [Users -> Seats]]
      /\ \A v \in Users \ f.present : \A r \in Rounds : newSeat[r][v] = 0
  BY <1>1, ZeroFacts DEF FloorType, AbsentOut
<1> HIDE DEF gr
<1>6. newGroup \in [Users -> Groups]
  BY <1>1, <1>2 DEF FloorType
<1> HIDE DEF newChair, newSeat, newGroup
<1>7. Seated(f, u, t, n) \in FloorType
  BY <1>1, <1>3, <1>4, <1>5, <1>6 DEF FloorType
<1>8. /\ Seated(f, u, t, n).present = f.present
      /\ Seated(f, u, t, n).chair = newChair /\ Seated(f, u, t, n).seat = newSeat
  BY <1>1, <1>3 DEF FloorType
<1>9. QED
  BY <1>4, <1>5, <1>7, <1>8 DEF Floors, AbsentOut

-----------------------------------------------------------------------------
(* The invariant *)

CheckingIn == [op : {"checkin"}, step : {"seat"}, u : Users, num : Tables, live : BOOLEAN]
Assigning == [op : {"assign"}, step : {"seat"}, u : Users, t : Tables, live : BOOLEAN,
              seen : BOOLEAN]
Moves == UNION {[S -> Tables] : S \in SUBSET Users}
Moving == [op : {"consolidate"}, step : {"move"}, num : Tables, to : Moves]
Rebuilding == [op : {"assign", "consolidate"}, step : {"build"}]
Turning == [op : {"start", "rotate"}, step : {"look", "build", "save"}, from : {1} \cup Rounds]
Advancing == [op : {"next", "rotate"}, step : {"advance"}]
Setting == [op : {"status"}, step : {"look at", "write"}, to : {"active", "paused", "finished"}]
Reselecting == [op : {"reselect"}, step : {"write"}, to : Rounds]
Scoring == [op : {"score"}, step : {"write"}, q : Asked, t : Tables, right : BOOLEAN]
Task == {NoJob} \cup CheckingIn \cup Assigning \cup Moving \cup Rebuilding \cup Turning
          \cup Advancing \cup Setting \cup Reselecting \cup Scoring

NightInv == TypeOK /\ OnlyPresentSeated /\ job \in [Jobs -> Task]

\* What kind of record a job at a given step is.
LEMMA KindsOfTasks ==
  ASSUME NEW x \in Task
  PROVE  /\ x.step = "seat" /\ x.op = "checkin" => x \in CheckingIn
         /\ x.step = "seat" /\ x.op = "assign" => x \in Assigning
         /\ x.step = "move" => x \in Moving
         /\ x.step = "look" => x \in Turning
         /\ x.step = "build" /\ x.op \in {"start", "rotate"} => x \in Turning
         /\ x.step = "save" => x \in Turning
         /\ x.step = "look at" => x \in Setting
         /\ x.step = "write" /\ x.op = "status" => x \in Setting
         /\ x.step = "write" /\ x.op = "reselect" => x \in Reselecting
         /\ x.step = "write" /\ x.op = "score" => x \in Scoring
<1>1. CASE x = NoJob
  BY <1>1 DEF NoJob
<1>2. CASE x \in CheckingIn
  BY <1>2 DEF CheckingIn
<1>3. CASE x \in Assigning
  BY <1>3 DEF Assigning
<1>4. CASE x \in Moving
  BY <1>4 DEF Moving
<1>5. CASE x \in Rebuilding
  BY <1>5 DEF Rebuilding
<1>6. CASE x \in Turning
  BY <1>6 DEF Turning
<1>7. CASE x \in Advancing
  BY <1>7 DEF Advancing
<1>8. CASE x \in Setting
  BY <1>8 DEF Setting
<1>9. CASE x \in Reselecting
  BY <1>9 DEF Reselecting
<1>10. CASE x \in Scoring
  BY <1>10 DEF Scoring
<1>11. QED
  BY <1>1, <1>2, <1>3, <1>4, <1>5, <1>6, <1>7, <1>8, <1>9, <1>10 DEF Task

\* The rows make a sound floor.
LEMMA FloorSound ==
  ASSUME NightInv
  PROVE  /\ Floor \in Floors
         /\ Floor.num = num /\ Floor.tables = tables /\ Floor.chair = chair
         /\ Floor.seat = seat /\ Floor.group = group /\ Floor.present = attended
<1>1. Floor \in FloorType
  BY DEF NightInv, TypeOK, Floor, FloorType, Seats
<1>2. AbsentOut(Floor)
  BY DEF NightInv, OnlyPresentSeated, Floor, AbsentOut
<1>3. QED
  BY <1>1, <1>2 DEF Floors, Floor

\* A transaction that sets a sound floor, with points of those present only.
LEMMA FloorStep ==
  ASSUME NightInv, NEW f \in Floors, SetFloor(f), NEW j \in Jobs, NEW x \in Task, Begin(j, x),
         came' \in SUBSET Users, corrections' \in 0..MaxCorrections,
         UNCHANGED hostVars, marks' \subseteq marks, credits' \subseteq credits,
         \A u \in Users \ f.present : u \in attended => \A c \in credits' : c[1] # u
  PROVE  NightInv'
<1>1. f \in FloorType /\ AbsentOut(f)
  BY DEF Floors
<1>2. /\ num' = f.num /\ tables' = f.tables /\ chair' = f.chair
      /\ seat' = f.seat /\ group' = f.group /\ attended' = f.present
  BY DEF SetFloor
<1>3. /\ num' \in Tables /\ tables' \subseteq Tables /\ chair' \in [Users -> Seats]
      /\ seat' \in [Rounds -> [Users -> Seats]] /\ group' \in [Users -> Groups]
      /\ attended' \subseteq Users
  BY <1>1, <1>2 DEF FloorType
<1>4. /\ status \in {"draft", "active", "paused", "finished"}
      /\ round \in {-1} \cup Rounds /\ index \in -1..(Questions - 1)
      /\ marks' \subseteq Asked \X Tables \X BOOLEAN
      /\ credits' \subseteq Users \X Asked \X Tables \X BOOLEAN
      /\ came' \subseteq Users
  BY DEF NightInv, TypeOK
<1>5. TypeOK'
  BY <1>3, <1>4 DEF TypeOK, hostVars, Seats
<1>6. OnlyPresentSeated'
  <2> SUFFICES ASSUME NEW u \in Users \ f.present
               PROVE  /\ chair'[u] = 0 /\ \A r \in Rounds : seat'[r][u] = 0
                      /\ \A c \in credits' : c[1] # u
    BY <1>2 DEF OnlyPresentSeated
  <2>1. chair'[u] = 0 /\ \A r \in Rounds : seat'[r][u] = 0
    BY <1>1, <1>2 DEF AbsentOut
  <2>2. \A c \in credits' : c[1] # u
    BY DEF NightInv, OnlyPresentSeated
  <2>3. QED
    BY <2>1, <2>2
<1>7. (job \in [Jobs -> Task])'
  BY DEF NightInv, Begin
<1>8. QED
  BY <1>5, <1>6, <1>7 DEF NightInv

\* A step that leaves floor and scores alone.
LEMMA HostStep ==
  ASSUME NightInv, NEW j \in Jobs, NEW x \in Task, job' = [job EXCEPT ![j] = x],
         UNCHANGED <<floorVars, scoreVars, came>>, corrections' \in 0..MaxCorrections,
         status' \in {"draft", "active", "paused", "finished"},
         round' \in {-1} \cup Rounds, index' \in -1..(Questions - 1)
  PROVE  NightInv'
<1>1. TypeOK'
  BY DEF NightInv, TypeOK, floorVars, scoreVars
<1>2. OnlyPresentSeated'
  BY DEF NightInv, OnlyPresentSeated, floorVars, scoreVars
<1>3. (job \in [Jobs -> Task])'
  BY DEF NightInv
<1>4. QED
  BY <1>1, <1>2, <1>3 DEF NightInv

LEMMA IdleTask == NoJob \in Task
  BY DEF Task

\* What the steps count.
LEMMA Counted ==
  ASSUME NightInv, Corrects \/ UNCHANGED corrections
  PROVE  corrections' \in 0..MaxCorrections
  BY NightAssumption DEF NightInv, TypeOK, Corrects

LEMMA HostTypes ==
  ASSUME NightInv
  PROVE  /\ status \in {"draft", "active", "paused", "finished"}
         /\ round \in {-1} \cup Rounds /\ index \in -1..(Questions - 1)
         /\ num \in Tables /\ came \in SUBSET Users
         /\ \A j \in Jobs : job[j] \in Task
         /\ Questions \in Nat /\ Questions > 0
  BY NightAssumption DEF NightInv, TypeOK

-----------------------------------------------------------------------------
(* The door and the staff *)

LEMMA CheckInBegins ==
  ASSUME NightInv, NEW j \in Jobs, NEW u \in Users, CheckInBegin(j, u)
  PROVE  NightInv'
<1> DEFINE x == [op |-> "checkin", step |-> "seat", u |-> u, num |-> num, live |-> status \in Live]
<1>1. x \in CheckingIn
  BY HostTypes DEF CheckingIn
<1>2. x \in Task
  BY <1>1 DEF Task
<1>3. Begin(j, x) /\ UNCHANGED <<hostVars, floorVars, scoreVars, came, corrections>>
  BY DEF CheckInBegin
<1> HIDE DEF x
<1>4. QED
  BY <1>2, <1>3, Counted, HostTypes, HostStep DEF hostVars, Begin

\* A check-in: present, then a chair if there was none.
LEMMA CheckInSeats ==
  ASSUME NightInv, NEW j \in Jobs, CheckInSeat(j)
  PROVE  NightInv'
<1> DEFINE u == job[j].u
           n == job[j].num
           here == [Floor EXCEPT !.present = @ \cup {u}, !.tables = @ \cup 1..n]
           least == LeastFilled(here.tables, Role(u) \ {u}, seat[0])
           placed == Seated(here, u, least, n)
           end == IF chair[u] # 0 THEN here ELSE IF job[j].live THEN Reseated(placed) ELSE placed
<1>1. job[j] \in CheckingIn
  BY HostTypes, KindsOfTasks DEF CheckInSeat, At
<1>2. u \in Users /\ n \in Tables
  BY <1>1 DEF CheckingIn
<1>3. SetFloor(end) /\ came' = came \cup {u} /\ End(j)
      /\ UNCHANGED <<hostVars, scoreVars, corrections>>
  BY DEF CheckInSeat
<1> HIDE DEF u, n
<1>4. here \in FloorType /\ here.present = attended \cup {u} /\ here.tables = tables \cup 1..n
      /\ here.chair = chair /\ here.seat = seat
  BY <1>2, FloorSound, ZeroFacts DEF Floors, FloorType
<1>5. here \in Floors
  <2>1. AbsentOut(Floor)
    BY FloorSound DEF Floors
  <2>2. AbsentOut(here)
    BY <1>4, <2>1, FloorSound DEF AbsentOut
  <2>3. QED
    BY <1>4, <2>2 DEF Floors
<1> HIDE DEF here
<1>6. least \in Tables
  <2>1. here.tables \in SUBSET Tables /\ 1 \in here.tables
    <3>1. tables \subseteq Tables
      BY DEF NightInv, TypeOK
    <3>2. 1 \in 1..n /\ 1..n \subseteq Tables
      <4>1. n \in Nat /\ n >= 1
        BY <1>2, QuizAssumption DEF Tables
      <4>2. 1 \in 1..n
        BY <4>1
      <4>3. 1..n \subseteq Tables
        BY <1>2, QuizAssumption DEF Tables
      <4>4. QED
        BY <4>2, <4>3
    <3>3. QED
      BY <1>4, <3>1, <3>2
  <2>2. Role(u) \ {u} \in SUBSET Users
    BY DEF Role, Users
  <2>3. QED
    BY <2>1, <2>2, LeastFilledIsOne
<1>7. u \in here.present
  BY <1>4
<1> HIDE DEF least
<1>8. placed \in Floors /\ placed.present = here.present
  BY <1>5, <1>6, <1>7, SeatedSound
<1> HIDE DEF placed
<1>9. Reseated(placed) \in Floors /\ Reseated(placed).present = here.present
  BY <1>8, ReseatedSound
<1>10. end \in Floors /\ end.present = attended \cup {u}
  BY <1>4, <1>5, <1>8, <1>9
<1> HIDE DEF end
<1>11. came' \in SUBSET Users
  BY <1>2, <1>3, HostTypes
<1>12. \A v \in Users \ end.present : v \in attended => \A c \in credits' : c[1] # v
  BY <1>10
<1>13. UNCHANGED hostVars /\ marks' \subseteq marks /\ credits' \subseteq credits /\ Begin(j, NoJob)
  BY <1>3 DEF scoreVars, End, Begin
<1>14. PICK f \in Floors : f = end
  BY <1>10
<1>15. QED
  BY <1>3, <1>11, <1>12, <1>13, <1>14, Counted, IdleTask, FloorStep

\* An undo takes back chair, rows and points.
LEMMA Undoes ==
  ASSUME NightInv, NEW j \in Jobs, NEW u \in Users, Undo(j, u)
  PROVE  NightInv'
<1> DEFINE newSeat == [r \in Rounds |-> [seat[r] EXCEPT ![u] = 0]]
           left == [Floor EXCEPT !.present = @ \ {u}, !.chair[u] = 0, !.group[u] = "",
                                 !.seat = newSeat]
           end == IF status \in Live THEN Reseated(left) ELSE left
<1>1. SetFloor(end) /\ credits' = Released(u) /\ Corrects /\ UNCHANGED <<hostVars, marks, came, job>>
  BY DEF Undo
<1>2. left = [num |-> num, tables |-> tables, chair |-> [chair EXCEPT ![u] = 0],
              seat |-> newSeat, group |-> [group EXCEPT ![u] = ""], present |-> attended \ {u}]
  <2>1. left = [Floor EXCEPT !.present = attended \ {u}, !.chair = [chair EXCEPT ![u] = 0],
                             !.group = [group EXCEPT ![u] = ""], !.seat = newSeat]
    BY DEF Floor
  <2> HIDE DEF left, newSeat
  <2>2. QED
    BY <2>1 DEF Floor
<1>3. /\ num \in Tables /\ tables \subseteq Tables /\ attended \subseteq Users
      /\ [chair EXCEPT ![u] = 0] \in [Users -> Seats]
      /\ newSeat \in [Rounds -> [Users -> Seats]]
      /\ [group EXCEPT ![u] = ""] \in [Users -> Groups]
  BY ZeroFacts DEF NightInv, TypeOK, Seats
<1>4. left \in FloorType
  <2>1. attended \ {u} \in SUBSET Users
    BY <1>3
  <2> HIDE DEF left, newSeat
  <2>2. QED
    BY <1>2, <1>3, <2>1 DEF FloorType
<1>5. left.present = attended \ {u} /\ left.chair = [chair EXCEPT ![u] = 0] /\ left.seat = newSeat
  BY <1>2
<1>6. \A v \in Users \ (attended \ {u}) :
          [chair EXCEPT ![u] = 0][v] = 0 /\ \A r \in Rounds : newSeat[r][v] = 0
  BY DEF NightInv, TypeOK, OnlyPresentSeated
<1> HIDE DEF newSeat, left
<1>7. left \in Floors
  BY <1>4, <1>5, <1>6 DEF Floors, AbsentOut
<1>8. end \in Floors /\ end.present = attended \ {u}
  BY <1>5, <1>7, ReseatedSound
<1> HIDE DEF end
<1>9. credits' \subseteq credits /\ \A c \in credits' : c[1] # u
  BY <1>1 DEF Released
<1>10. \A v \in Users \ end.present : v \in attended => \A c \in credits' : c[1] # v
  BY <1>8, <1>9
<1>11. PICK f \in Floors : f = end
  BY <1>8
<1>12. PICK x \in Task : x = job[j]
  BY HostTypes
<1>13. job' = [job EXCEPT ![j] = x]
  BY <1>1, <1>12 DEF NightInv
<1>14. came' \in SUBSET Users
  BY <1>1, HostTypes
<1>15. QED
  BY <1>1, <1>9, <1>10, <1>11, <1>13, <1>14, Counted, FloorStep DEF Begin

LEMMA AssignBegins ==
  ASSUME NightInv, NEW j \in Jobs, NEW u \in Users, AssignBegin(j, u)
  PROVE  NightInv'
<1> DEFINE x == [op |-> "assign", step |-> "seat", u |-> u, t |-> num, live |-> status \in Live,
                 seen |-> u \in attended]
<1>1. x \in Assigning
  BY HostTypes DEF Assigning
<1>2. x \in Task
  BY <1>1 DEF Task
<1>3. Begin(j, x) /\ Corrects /\ UNCHANGED <<hostVars, floorVars, scoreVars, came>>
  BY DEF AssignBegin
<1> HIDE DEF x
<1>4. QED
  BY <1>2, <1>3, Counted, HostTypes, HostStep DEF hostVars, Begin

\* A floor that keeps everybody who is present.
LEMMA SameRoomStep ==
  ASSUME NightInv, NEW f \in Floors, f.present = attended, SetFloor(f), NEW j \in Jobs,
         NEW x \in Task, Begin(j, x), corrections' \in 0..MaxCorrections,
         UNCHANGED <<hostVars, came, credits>>, marks' \subseteq marks
  PROVE  NightInv'
<1>1. came' \in SUBSET Users
  BY HostTypes
<1>2. QED
  BY <1>1, FloorStep

LEMMA AssignSeats ==
  ASSUME NightInv, NEW j \in Jobs, AssignSeat(j)
  PROVE  NightInv'
<1>1. job[j] \in Assigning
  BY HostTypes, KindsOfTasks DEF AssignSeat, At
<1>2. job[j].u \in Users /\ job[j].t \in Tables
  BY <1>1 DEF Assigning
<1>3. UNCHANGED <<hostVars, scoreVars, came, corrections>>
  BY DEF AssignSeat
<1>4. CASE Assignable(j)
  <2> DEFINE placed == Seated(Floor, job[j].u, job[j].t, num)
             next == [op |-> "assign", step |-> "build"]
  <2>1. SetFloor(placed) /\ (Begin(j, next) \/ End(j))
    BY <1>4 DEF AssignSeat
  <2>2. job[j].u \in attended
    BY <1>4 DEF Assignable
  <2>3. placed \in Floors /\ placed.present = attended
    BY <1>2, <2>2, FloorSound, SeatedSound
  <2>4. next \in Task
    BY DEF Task, Rebuilding
  <2> HIDE DEF placed, next
  <2>5. PICK x \in Task : Begin(j, x)
    BY <2>1, <2>4, IdleTask DEF End, Begin
  <2>6. PICK f \in Floors : f = placed
    BY <2>3
  <2>7. QED
    BY <1>3, <2>1, <2>3, <2>5, <2>6, Counted, SameRoomStep DEF scoreVars
<1>5. CASE ~Assignable(j)
  <2>1. End(j) /\ UNCHANGED floorVars
    BY <1>5 DEF AssignSeat
  <2>2. QED
    BY <1>3, <2>1, IdleTask, Counted, HostTypes, HostStep DEF End, hostVars
<1>6. QED
  BY <1>4, <1>5

LEMMA RebuildSteps ==
  ASSUME NightInv, NEW j \in Jobs, AssignBuild(j) \/ ConsolidateBuild(j)
  PROVE  NightInv'
<1> DEFINE end == IF AssignBuild(j) THEN Reseated(Floor)
                  ELSE IF CanBuild(Floor) THEN Built(Floor, 1) ELSE Floor
<1>1. SetFloor(end) /\ End(j) /\ UNCHANGED <<hostVars, scoreVars, came, corrections>>
  BY DEF AssignBuild, ConsolidateBuild
<1>2. end \in Floors /\ end.present = attended
  BY FloorSound, BuiltSound, ReseatedSound
<1> HIDE DEF end
<1>3. PICK f \in Floors : f = end
  BY <1>2
<1>4. Begin(j, NoJob)
  BY <1>1 DEF Begin, End
<1>5. QED
  BY <1>1, <1>2, <1>3, <1>4, IdleTask, Counted, SameRoomStep DEF scoreVars

\* Dissolving a table empties it; the rest is rebuilt or nothing changes.
LEMMA Dissolves ==
  ASSUME NightInv, NEW j \in Jobs, Dissolve(j)
  PROVE  NightInv'
<1> DEFINE ahead == [r \in Rounds |-> [u \in Users |->
                        IF r >= RoundNumber /\ seat[r][u] = num THEN 0 ELSE seat[r][u]]]
           chairs == [u \in Users |-> IF chair[u] = num THEN 0 ELSE chair[u]]
           bare == [Floor EXCEPT !.seat = ahead, !.num = num - 1, !.chair = chairs]
           left == IF HasMarks(num) THEN tables ELSE tables \ {num}
           gone == Cascaded(bare, left)
           end == IF status \in Live THEN Built(gone, FirstFree) ELSE gone
<1>1. /\ num >= 3 /\ Corrects /\ UNCHANGED <<hostVars, scoreVars, came, job>>
      /\ status \in Live => CanBuild(gone)
      /\ SetFloor(end)
  BY DEF Dissolve
<1>2. num - 1 \in Tables /\ tables \subseteq Tables
  BY <1>1, QuizAssumption DEF NightInv, TypeOK, Tables
<1>3. ahead \in [Rounds -> [Users -> Seats]] /\ chairs \in [Users -> Seats]
  BY ZeroFacts DEF NightInv, TypeOK, Seats
<1>4. \A u \in Users \ attended : chairs[u] = 0 /\ \A r \in Rounds : ahead[r][u] = 0
  BY DEF NightInv, OnlyPresentSeated
<1> HIDE DEF ahead, chairs
<1>5. bare \in FloorType
  BY <1>2, <1>3, FloorSound DEF Floors, FloorType
<1>6. bare.present = attended /\ bare.chair = chairs /\ bare.seat = ahead
  BY DEF Floor
<1>7. bare \in Floors
  BY <1>4, <1>5, <1>6 DEF Floors, AbsentOut
<1>8. left \in SUBSET Tables
  BY <1>2
<1> HIDE DEF bare, left
<1>9. gone \in Floors /\ gone.present = attended
  BY <1>6, <1>7, <1>8, CascadedSound
<1> HIDE DEF gone
<1>10. end \in Floors /\ end.present = attended
  BY <1>1, <1>9, BuiltSound
<1> HIDE DEF end
<1>11. PICK f \in Floors : f = end
  BY <1>10
<1>12. PICK x \in Task : x = job[j]
  BY HostTypes
<1>13. Begin(j, x)
  BY <1>1, <1>12 DEF NightInv, Begin
<1>14. QED
  BY <1>1, <1>10, <1>11, <1>13, Counted, SameRoomStep DEF scoreVars

\* The plan of a consolidation names tables that stay.
LEMMA FewerTables ==
  ASSUME NightInv, num >= 2
  PROVE  Fewer \in Tables
<1> DEFINE door(S) == Max({2, Cardinality({u \in S : seat[0][u] # 0})})
<1>1. num \in Tables /\ num \in Nat
  BY HostTypes, ZeroFacts
<1>2. ASSUME NEW S \in SUBSET Users
      PROVE  door(S) \in Nat /\ door(S) >= 2
  <2> DEFINE k == Cardinality({u \in S : seat[0][u] # 0})
  <2>1. {u \in S : seat[0][u] # 0} \in SUBSET Users
    OBVIOUS
  <2>2. k \in Nat
    BY <2>1, RolesFinite
  <2> HIDE DEF k
  <2>3. \E m \in {2, k} : \A y \in {2, k} : m >= y
    BY <2>2
  <2>4. Max({2, k}) \in {2, k} /\ Max({2, k}) >= 2
    BY <2>2, <2>3 DEF Max
  <2>5. QED
    BY <2>2, <2>4 DEF k
<1>3. PICK a, b : a = door(Men) /\ b = door(Women)
  OBVIOUS
<1>4. a \in Nat /\ a >= 2 /\ b \in Nat /\ b >= 2
  <2>1. Men \in SUBSET Users /\ Women \in SUBSET Users
    BY DEF Users
  <2>2. QED
    BY <1>2, <1>3, <2>1
<1>5. Fewer = Min({num, a, b})
  BY <1>3 DEF Fewer
<1>6. \E m \in {num, a, b} : \A y \in {num, a, b} : m <= y
  BY <1>1, <1>4
<1>7. Min({num, a, b}) \in {num, a, b} /\ \A y \in {num, a, b} : Min({num, a, b}) <= y
  BY <1>6 DEF Min
<1>8. Fewer \in Nat /\ Fewer >= 2 /\ Fewer <= num
  BY <1>1, <1>4, <1>5, <1>7
<1>9. QED
  BY <1>1, <1>8, QuizAssumption DEF Tables

LEMMA ConsolidateBegins ==
  ASSUME NightInv, NEW j \in Jobs, ConsolidateBegin(j)
  PROVE  NightInv'
<1>1. Corrects /\ num >= 2 /\ UNCHANGED <<hostVars, floorVars, scoreVars, came>>
  BY DEF ConsolidateBegin
<1>2. PICK to \in [Excess(Fewer) -> 1..Fewer] :
         Begin(j, [op |-> "consolidate", step |-> "move", num |-> Fewer, to |-> to])
  BY DEF ConsolidateBegin
<1> DEFINE x == [op |-> "consolidate", step |-> "move", num |-> Fewer, to |-> to]
<1>3. Fewer \in Tables /\ 1..Fewer \subseteq Tables
  BY <1>1, FewerTables, ZeroFacts
<1>4. to \in Moves
  <2>1. Excess(Fewer) \in SUBSET Users
    BY DEF Excess
  <2>2. to \in [Excess(Fewer) -> Tables]
    BY <1>2, <1>3
  <2>3. QED
    BY <2>1, <2>2 DEF Moves
<1>5. x \in Moving
  BY <1>3, <1>4 DEF Moving
<1>6. x \in Task /\ Begin(j, x)
  BY <1>2, <1>5 DEF Task
<1> HIDE DEF x
<1>7. PICK y \in Task : y = x
  BY <1>6
<1>8. QED
  BY <1>1, <1>6, <1>7, Counted, HostTypes, HostStep DEF hostVars, Begin

LEMMA ConsolidateMoves ==
  ASSUME NightInv, NEW j \in Jobs, ConsolidateMove(j)
  PROVE  NightInv'
<1> DEFINE n == job[j].num
           to == job[j].to
           Moved(u, t) == IF u \in DOMAIN to /\ t # 0 THEN to[u] ELSE t
           chairs == [u \in Users |-> Moved(u, chair[u])]
           door == [u \in Users |-> Moved(u, seat[0][u])]
           moved == [Floor EXCEPT !.num = n, !.chair = chairs, !.seat[0] = door]
           left == tables \cap 1..n
           next == [op |-> "consolidate", step |-> "build"]
           may == status = "draft" /\ 1..n \subseteq tables
<1>1. UNCHANGED <<hostVars, credits, came, corrections>>
  BY DEF ConsolidateMove
<1>2. job[j] \in Moving
  BY HostTypes, KindsOfTasks DEF ConsolidateMove, At
<1>3. n \in Tables /\ to \in Moves
  BY <1>2 DEF Moving
<1>4. \A u \in DOMAIN to : to[u] \in Tables
  BY <1>3 DEF Moves
<1>5. CASE may
  <2>1. /\ SetFloor(Cascaded(moved, left)) /\ marks' = {m \in marks : m[2] <= n}
        /\ Begin(j, next)
    BY <1>5 DEF ConsolidateMove
  <2> HIDE DEF n, to
  <2>2. \A u \in Users, t \in Seats : Moved(u, t) \in Seats
    BY <1>4, ZeroFacts
  <2>3. chairs \in [Users -> Seats] /\ door \in [Users -> Seats]
    <3>1. \A u \in Users : chair[u] \in Seats /\ seat[0][u] \in Seats
      BY ZeroFacts DEF NightInv, TypeOK, Seats
    <3> HIDE DEF Moved
    <3>2. QED
      BY <2>2, <3>1
  <2>4. \A u \in Users \ attended : chairs[u] = 0 /\ door[u] = 0 /\ \A r \in Rounds : seat[r][u] = 0
    BY ZeroFacts DEF NightInv, OnlyPresentSeated
  <2> HIDE DEF chairs, door, Moved
  <2>5. [seat EXCEPT ![0] = door] \in [Rounds -> [Users -> Seats]]
    BY <2>3, ZeroFacts DEF NightInv, TypeOK, Seats
  <2>6. moved = [Floor EXCEPT !.num = n, !.chair = chairs, !.seat = [seat EXCEPT ![0] = door]]
    BY DEF Floor
  <2>7. moved \in FloorType
    <3> HIDE DEF moved
    <3>1. QED
      BY <1>3, <2>3, <2>5, <2>6, FloorSound DEF Floors, FloorType
  <2>8. moved.present = attended /\ moved.chair = chairs /\ moved.seat = [seat EXCEPT ![0] = door]
    BY DEF Floor
  <2>9. \A u \in Users \ attended : \A r \in Rounds : [seat EXCEPT ![0] = door][r][u] = 0
    BY <2>4, ZeroFacts DEF NightInv, TypeOK
  <2> HIDE DEF moved
  <2>10. moved \in Floors
    BY <2>4, <2>7, <2>8, <2>9 DEF Floors, AbsentOut
  <2>11. left \in SUBSET Tables
    BY DEF NightInv, TypeOK
  <2> HIDE DEF left
  <2>12. Cascaded(moved, left) \in Floors /\ Cascaded(moved, left).present = attended
    BY <2>8, <2>10, <2>11, CascadedSound
  <2>13. PICK f \in Floors : f = Cascaded(moved, left)
    BY <2>12
  <2>14. next \in Task
    BY DEF Task, Rebuilding
  <2>15. marks' \subseteq marks
    BY <2>1
  <2> HIDE DEF next
  <2>16. PICK x \in Task : x = next
    BY <2>14
  <2>17. QED
    BY <1>1, <2>1, <2>12, <2>13, <2>15, <2>16, Counted, SameRoomStep
<1>6. CASE ~may
  <2>1. End(j) /\ UNCHANGED <<floorVars, marks>>
    BY <1>6 DEF ConsolidateMove
  <2>2. QED
    BY <1>1, <2>1, IdleTask, Counted, HostTypes, HostStep DEF End, hostVars, scoreVars
<1>7. QED
  BY <1>5, <1>6

-----------------------------------------------------------------------------
(* The hosts *)

\* Messages that only start a job, or end it with nothing done.
LEMMA HostBegins ==
  ASSUME NightInv, NEW j \in Jobs,
         \/ Start(j) \/ Look(j) \/ NextBegin(j) \/ StatusRead(j) \/ RotateBegin(j) \/ ReselectBegin(j)
         \/ \E to \in {"active", "paused", "finished"} : StatusBegin(j, to)
  PROVE  NightInv'
<1>1. UNCHANGED <<hostVars, floorVars, scoreVars, came>>
  BY DEF Start, Look, NextBegin, StatusRead, RotateBegin, ReselectBegin, StatusBegin
<1>2. Corrects \/ UNCHANGED corrections
  BY DEF Start, Look, NextBegin, StatusRead, RotateBegin, ReselectBegin, StatusBegin
<1>3. PICK x \in Task : job' = [job EXCEPT ![j] = x]
  <2>1. CASE Start(j)
    <3> DEFINE y == [op |-> "start", step |-> "look", from |-> 1]
    <3>1. y \in Turning
      BY DEF Turning
    <3>2. y \in Task /\ job' = [job EXCEPT ![j] = y]
      BY <2>1, <3>1 DEF Start, Begin, Task
    <3> HIDE DEF y
    <3>3. QED
      BY <3>2
  <2>2. CASE Look(j)
    <3>1. job[j] \in Turning
      BY <2>2, HostTypes, KindsOfTasks DEF Look
    <3>2. PICK next \in {"build", "save"} : job' = [job EXCEPT ![j].step = next]
      BY <2>2 DEF Look
    <3> DEFINE y == [job[j] EXCEPT !.step = next]
    <3>3. y \in Turning
      BY <3>1 DEF Turning
    <3>4. y \in Task /\ job' = [job EXCEPT ![j] = y]
      BY <3>2, <3>3 DEF Task, NightInv
    <3> HIDE DEF y
    <3>5. QED
      BY <3>4
  <2>3. CASE NextBegin(j) \/ RotateBegin(j)
    <3>1. PICK op \in {"next", "rotate"} : job' = [job EXCEPT ![j] = [op |-> op, step |-> "advance"]]
      BY <2>3 DEF NextBegin, RotateBegin, Begin
    <3>2. [op |-> op, step |-> "advance"] \in Task
      BY DEF Task, Advancing
    <3>3. QED
      BY <3>1, <3>2
  <2>4. CASE StatusRead(j)
    <3>1. job[j] \in Setting
      BY <2>4, HostTypes, KindsOfTasks DEF StatusRead, At
    <3>2. job' = [job EXCEPT ![j].step = "write"] \/ job' = [job EXCEPT ![j] = NoJob]
      BY <2>4 DEF StatusRead, End
    <3> DEFINE y == [job[j] EXCEPT !.step = "write"]
    <3>3. y \in Setting
      BY <3>1 DEF Setting
    <3>4. y \in Task /\ (job' = [job EXCEPT ![j] = y] \/ job' = [job EXCEPT ![j] = NoJob])
      BY <3>2, <3>3 DEF Task, NightInv
    <3> HIDE DEF y
    <3>5. QED
      BY <3>4, IdleTask
  <2>5. CASE ReselectBegin(j)
    <3>1. round \in Rounds
      BY <2>5, HostTypes DEF ReselectBegin
    <3> DEFINE y == [op |-> "reselect", step |-> "write", to |-> round]
    <3>2. y \in Reselecting
      BY <3>1 DEF Reselecting
    <3>3. y \in Task /\ job' = [job EXCEPT ![j] = y]
      BY <2>5, <3>2 DEF ReselectBegin, Begin, Task
    <3> HIDE DEF y
    <3>4. QED
      BY <3>3
  <2>6. CASE \E to \in {"active", "paused", "finished"} : StatusBegin(j, to)
    <3>1. PICK to \in {"active", "paused", "finished"} : StatusBegin(j, to)
      BY <2>6
    <3> DEFINE y == [op |-> "status", step |-> "look at", to |-> to]
    <3>2. y \in Setting
      BY DEF Setting
    <3>3. y \in Task /\ job' = [job EXCEPT ![j] = y]
      BY <3>1, <3>2 DEF StatusBegin, Begin, Task
    <3> HIDE DEF y
    <3>4. QED
      BY <3>3
  <2>7. QED
    BY <2>1, <2>2, <2>3, <2>4, <2>5, <2>6
<1>4. QED
  BY <1>1, <1>2, <1>3, Counted, HostTypes, HostStep DEF hostVars

LEMMA Builds ==
  ASSUME NightInv, NEW j \in Jobs, Build(j)
  PROVE  NightInv'
<1>1. UNCHANGED <<hostVars, scoreVars, came, corrections>>
  BY DEF Build
<1>2. CASE CanBuild(Floor)
  <2>1. SetFloor(Built(Floor, job[j].from)) /\ job' = [job EXCEPT ![j].step = "save"]
    BY <1>2 DEF Build
  <2>2. job[j] \in Turning
    BY HostTypes, KindsOfTasks DEF Build
  <2> DEFINE y == [job[j] EXCEPT !.step = "save"]
  <2>3. y \in Turning
    BY <2>2 DEF Turning
  <2>4. y \in Task /\ Begin(j, y)
    BY <2>1, <2>3 DEF Task, NightInv, Begin
  <2> HIDE DEF y
  <2>5. PICK x \in Task : x = y
    BY <2>4
  <2>6. Built(Floor, job[j].from) \in Floors /\ Built(Floor, job[j].from).present = attended
    BY <1>2, FloorSound, BuiltSound
  <2>7. PICK f \in Floors : f = Built(Floor, job[j].from)
    BY <2>6
  <2>8. QED
    BY <1>1, <2>1, <2>4, <2>5, <2>6, <2>7, Counted, SameRoomStep DEF scoreVars
<1>3. CASE ~CanBuild(Floor)
  <2>1. End(j) /\ UNCHANGED floorVars
    BY <1>3 DEF Build
  <2>2. QED
    BY <1>1, <2>1, IdleTask, Counted, HostTypes, HostStep DEF End, hostVars
<1>4. QED
  BY <1>2, <1>3

LEMMA HostWrites ==
  ASSUME NightInv, NEW j \in Jobs,
         Save(j) \/ StatusWrite(j) \/ RotateAdvance(j) \/ ReselectWrite(j) \/ NextAdvance(j)
  PROVE  NightInv'
<1>1. UNCHANGED <<floorVars, scoreVars, came, corrections>>
  BY DEF Save, StatusWrite, RotateAdvance, ReselectWrite, NextAdvance
<1>2. status' \in {"draft", "active", "paused", "finished"}
  <2>1. CASE StatusWrite(j)
    <3>1. job[j] \in Setting
      BY <2>1, HostTypes, KindsOfTasks DEF StatusWrite, At
    <3>2. QED
      BY <2>1, <3>1 DEF StatusWrite, Setting
  <2>2. CASE Save(j) \/ RotateAdvance(j) \/ ReselectWrite(j) \/ NextAdvance(j)
    BY <2>2, HostTypes DEF Save, RotateAdvance, ReselectWrite, NextAdvance, hostVars
  <2>3. QED
    BY <2>1, <2>2
<1>3. round' \in {-1} \cup Rounds
  <2>1. CASE ReselectWrite(j)
    <3>1. job[j] \in Reselecting
      BY <2>1, HostTypes, KindsOfTasks DEF ReselectWrite, At
    <3>2. QED
      BY <2>1, <3>1 DEF ReselectWrite, Reselecting
  <2>2. CASE Save(j) \/ StatusWrite(j) \/ RotateAdvance(j) \/ NextAdvance(j)
    BY <2>2, HostTypes, ZeroFacts DEF Save, StatusWrite, RotateAdvance, NextAdvance, hostVars
  <2>3. QED
    BY <2>1, <2>2
<1>4. index' \in -1..(Questions - 1)
  <2>1. CASE NextAdvance(j)
    <3>1. (index < Questions - 1 /\ index' = index + 1) \/ index' = index
      BY <2>1 DEF NextAdvance, MoreQuestions
    <3>2. QED
      BY <3>1, HostTypes
  <2>2. CASE Save(j) \/ StatusWrite(j) \/ RotateAdvance(j) \/ ReselectWrite(j)
    BY <2>2, HostTypes DEF Save, StatusWrite, RotateAdvance, ReselectWrite, hostVars
  <2>3. QED
    BY <2>1, <2>2
<1>5. PICK x \in Task : job' = [job EXCEPT ![j] = x]
  <2>1. CASE Save(j) \/ StatusWrite(j) \/ ReselectWrite(j)
    BY <2>1, IdleTask DEF Save, StatusWrite, ReselectWrite, End
  <2>2. CASE NextAdvance(j)
    <3> DEFINE y == [op |-> "status", step |-> "look at", to |-> "finished"]
    <3>1. y \in Setting
      BY DEF Setting
    <3>2. y \in Task
      BY <3>1 DEF Task
    <3>3. job' = [job EXCEPT ![j] = y] \/ job' = [job EXCEPT ![j] = NoJob]
      BY <2>2 DEF NextAdvance, Begin, End
    <3> HIDE DEF y
    <3>4. QED
      BY <3>2, <3>3, IdleTask
  <2>3. CASE RotateAdvance(j)
    <3> DEFINE y == [op |-> "rotate", step |-> "look", from |-> round + 1]
    <3>1. round + 1 \in Rounds => y \in Turning
      BY DEF Turning
    <3>2. round + 1 \in Rounds => y \in Task
      BY <3>1 DEF Task
    <3>3. IF round + 1 \in Rounds THEN job' = [job EXCEPT ![j] = y] ELSE job' = [job EXCEPT ![j] = NoJob]
      BY <2>3 DEF RotateAdvance, Begin, End
    <3> HIDE DEF y
    <3>4. QED
      BY <3>2, <3>3, IdleTask
  <2>4. QED
    BY <2>1, <2>2, <2>3
<1>6. QED
  BY <1>1, <1>2, <1>3, <1>4, <1>5, Counted, HostStep

LEMMA Resets ==
  ASSUME NightInv, NEW j \in Jobs, Reset(j)
  PROVE  NightInv'
<1>1. /\ status' = "draft" /\ round' = -1 /\ index' = -1 /\ Corrects
      /\ UNCHANGED <<floorVars, came, job>>
      /\ marks' \subseteq marks /\ credits' \subseteq credits
  BY DEF Reset, scoreVars
<1>2. -1 \in -1..(Questions - 1)
  BY NightAssumption
<1>3. TypeOK'
  BY <1>1, <1>2, Counted DEF NightInv, TypeOK, floorVars
<1>4. OnlyPresentSeated'
  BY <1>1 DEF NightInv, OnlyPresentSeated, floorVars
<1>5. QED
  BY <1>1, <1>3, <1>4 DEF NightInv

-----------------------------------------------------------------------------
(* Scores *)

LEMMA ScoreBegins ==
  ASSUME NightInv, NEW j \in Jobs, NEW t \in Tables, NEW right \in BOOLEAN, ScoreBegin(j, t, right)
  PROVE  NightInv'
<1> DEFINE q0 == <<round, index>>
           x == [op |-> "score", step |-> "write", q |-> q0, t |-> t, right |-> right]
<1>1. /\ round # -1 /\ index # -1 /\ (Corrects \/ UNCHANGED corrections)
      /\ Begin(j, x) /\ UNCHANGED <<hostVars, floorVars, scoreVars, came>>
  BY DEF ScoreBegin
<1>2. round \in Rounds /\ index \in 0..(Questions - 1)
  BY <1>1, HostTypes
<1>3. q0 \in Asked
  BY <1>2 DEF Asked
<1> HIDE DEF q0
<1>4. x \in Scoring
  BY <1>3 DEF Scoring
<1>5. x \in Task
  BY <1>4 DEF Task
<1> HIDE DEF x
<1>6. PICK y \in Task : y = x
  BY <1>5
<1>7. QED
  BY <1>1, <1>6, Counted, HostTypes, HostStep DEF hostVars, Begin

\* A team sits at a table, so its members are present.
LEMMA TeamsArePresent ==
  ASSUME NightInv, NEW q \in Asked, NEW t \in Tables
  PROVE  Team(q, t) \subseteq attended /\ attended \subseteq Users
<1>1. q[1] \in Rounds /\ t # 0
  BY ZeroFacts DEF Asked
<1>2. QED
  BY <1>1 DEF Team, NightInv, OnlyPresentSeated, TypeOK

LEMMA ScoreWrites ==
  ASSUME NightInv, NEW j \in Jobs, ScoreWrite(j)
  PROVE  NightInv'
<1> DEFINE q == job[j].q
           t == job[j].t
           right == job[j].right
<1>1. End(j) /\ UNCHANGED <<hostVars, floorVars, came, corrections>>
  BY DEF ScoreWrite
<1>2. job[j] \in Scoring
  BY HostTypes, KindsOfTasks DEF ScoreWrite, At
<1>3. q \in Asked /\ t \in Tables /\ right \in BOOLEAN
  BY <1>2 DEF Scoring
<1>4. /\ marks' \subseteq marks \cup {<<q, t, right>>}
      /\ \/ credits' = FirstCredits(q, t, right)
         \/ credits' = NewCredits(q, t, right)
         \/ credits' = credits
  BY DEF ScoreWrite, scoreVars
<1> HIDE DEF q, t, right
<1>5. credits' \subseteq credits \cup {<<u, q, t, right>> : u \in Team(q, t)}
  BY <1>4 DEF FirstCredits, NewCredits
<1>6. Team(q, t) \subseteq attended /\ attended \subseteq Users
  BY <1>3, TeamsArePresent
<1>7. /\ marks' \subseteq Asked \X Tables \X BOOLEAN
      /\ credits' \subseteq Users \X Asked \X Tables \X BOOLEAN
  BY <1>3, <1>4, <1>5, <1>6 DEF NightInv, TypeOK
<1>8. TypeOK'
  BY <1>1, <1>7 DEF NightInv, TypeOK, hostVars, floorVars
<1>9. \A u \in Users \ attended : \A c \in credits' : c[1] # u
  BY <1>5, <1>6 DEF NightInv, OnlyPresentSeated
<1>10. OnlyPresentSeated'
  BY <1>1, <1>9 DEF NightInv, OnlyPresentSeated, floorVars
<1>11. (job \in [Jobs -> Task])'
  BY <1>1, IdleTask DEF NightInv, End
<1>12. QED
  BY <1>8, <1>10, <1>11 DEF NightInv

-----------------------------------------------------------------------------
(* The theorems *)

LEMMA NightStarts ==
  ASSUME Init
  PROVE  NightInv
<1>1. MaxTables \in Tables /\ -1 \in -1..(Questions - 1) /\ 0 \in 0..MaxCorrections
  BY QuizAssumption, NightAssumption DEF Tables
<1>2. TypeOK
  BY <1>1, ZeroFacts DEF Init, TypeOK
<1>3. OnlyPresentSeated
  BY DEF Init, OnlyPresentSeated
<1>4. job \in [Jobs -> Task]
  BY IdleTask DEF Init
<1>5. QED
  BY <1>2, <1>3, <1>4 DEF NightInv

LEMMA NightSteps ==
  ASSUME NightInv, [Next]_vars
  PROVE  NightInv'
<1>1. ASSUME NEW j \in Jobs, Door(j)
      PROVE  NightInv'
  BY <1>1, CheckInSeats, CheckInBegins, Undoes DEF Door
<1>2. ASSUME NEW j \in Jobs, Staff(j)
      PROVE  NightInv'
  BY <1>2, AssignSeats, RebuildSteps, Dissolves, ConsolidateBegins, ConsolidateMoves, AssignBegins
  DEF Staff
<1>3. ASSUME NEW j \in Jobs, Host(j)
      PROVE  NightInv'
  BY <1>3, HostBegins, Builds, HostWrites, Resets DEF Host
<1>4. ASSUME NEW j \in Jobs, Score(j)
      PROVE  NightInv'
  BY <1>4, ScoreWrites, ScoreBegins DEF Score
<1>5. CASE UNCHANGED vars
  <2>1. TypeOK' /\ OnlyPresentSeated' /\ (job \in [Jobs -> Task])'
    BY <1>5 DEF NightInv, TypeOK, OnlyPresentSeated, vars, hostVars, floorVars, scoreVars
  <2>2. QED
    BY <2>1 DEF NightInv
<1>6. QED
  BY <1>1, <1>2, <1>3, <1>4, <1>5 DEF Next

\* The invariant the properties follow from holds in every state.
THEOREM NightInvariant == Spec => []NightInv
<1>1. Init => NightInv
  BY NightStarts
<1>2. NightInv /\ [Next]_vars => NightInv'
  BY NightSteps
<1>3. QED
  BY <1>1, <1>2, PTL DEF Spec

\* Rows stay well-formed: every seat names a table the organiser configured and
\* the quiz never points past its last question.
THEOREM NightTypeCorrect == Spec => []TypeOK
<1>1. NightInv => TypeOK
  BY DEF NightInv
<1>2. QED
  BY <1>1, NightInvariant, PTL

\* Whoever is not checked in has no chair, no row in any round and no points:
\* release_table_on_undo leaves nothing behind, and no later rebuild, placement or
\* late score puts the member back.
THEOREM AbsentAreNowhere == Spec => []OnlyPresentSeated
<1>1. NightInv => OnlyPresentSeated
  BY DEF NightInv
<1>2. QED
  BY <1>1, NightInvariant, PTL
=============================================================================
