------------------------- MODULE QuizNightRulesProofs -------------------------
(***************************************************************************)
(* Proofs about QuizNight with one host connection, for any members,       *)
(* tables, rounds and requests: nobody is moved in mid-round, and the       *)
(* leaderboards agree.  Both follow from what a transaction keeps: the      *)
(* rows up to some round at the tables still in use, and the chairs there   *)
(* (Keeping).  With two tabs of the host a start or a rotation that is late  *)
(* makes rounds again that are over or on, and both properties fail; so they *)
(* do where a rotation overtakes the rebuild of a consolidation made before  *)
(* the start ("overtake"), which then makes the round anew that is on.       *)
(***************************************************************************)
EXTENDS QuizNightProofs

-----------------------------------------------------------------------------
(* What the nested calls keep *)

\* Chairs and rows name tables that exist.
WellSeated(f) ==
    \A u \in Users :
        /\ f.chair[u] \in {0} \cup f.tables
        /\ \A r \in Rounds : f.seat[r][u] \in {0} \cup f.tables

\* Chairs and rows of g are those of f or gone; at a table of g they are kept.
Keeps(f, g, k) ==
    /\ g.num <= f.num
    /\ \A u \in Users, r \in Rounds :
        r <= k => /\ g.seat[r][u] \in {0, f.seat[r][u]}
                  /\ f.seat[r][u] \in 1..g.num => g.seat[r][u] = f.seat[r][u]
    /\ \A u \in Users : f.chair[u] \in 1..g.num => g.chair[u] = f.chair[u]

LEMMA CascadedRows ==
  ASSUME NEW f \in Floors, NEW left \in SUBSET Tables
  PROVE  /\ Cascaded(f, left).num = f.num /\ Cascaded(f, left).tables = left
         /\ \A u \in Users :
             /\ Cascaded(f, left).chair[u] = IF f.chair[u] \in left THEN f.chair[u] ELSE 0
             /\ \A r \in Rounds : Cascaded(f, left).seat[r][u]
                                    = IF f.seat[r][u] \in left THEN f.seat[r][u] ELSE 0
<1> DEFINE At0(t) == IF t \in left THEN t ELSE 0
           now == [r \in Rounds |-> [u \in Users |-> At0(f.seat[r][u])]]
           newChair == [u \in Users |-> At0(f.chair[u])]
           newGroup == [u \in Users |-> IF now[0][u] = 0 THEN "" ELSE f.group[u]]
<1>1. Cascaded(f, left) = [f EXCEPT !.tables = left, !.seat = now,
                                    !.chair = newChair, !.group = newGroup]
  BY DEF Cascaded
<1>2. f \in FloorType
  BY DEF Floors
<1>3. \A u \in Users : newChair[u] = At0(f.chair[u]) /\ \A r \in Rounds : now[r][u] = At0(f.seat[r][u])
  OBVIOUS
<1> HIDE DEF now, newChair, newGroup
<1>4. /\ Cascaded(f, left).num = f.num /\ Cascaded(f, left).tables = left
      /\ Cascaded(f, left).chair = newChair /\ Cascaded(f, left).seat = now
  BY <1>1, <1>2 DEF FloorType
<1>5. QED
  BY <1>3, <1>4

\* A regeneration leaves the rounds before `from` alone.
LEMMA BuiltRows ==
  ASSUME NEW f \in Floors, CanBuild(f), NEW from \in Int
  PROVE  /\ Built(f, from).num = f.num
         /\ Keeps(f, Built(f, from), from - 1)
         /\ WellSeated(Built(f, from))
<1> DEFINE plan == Schedule(f.seat, f.group, f.present, f.num, from)
           g == [f EXCEPT !.seat = plan]
           left == {t \in f.tables \cup 1..f.num : t <= f.num \/ HasMarks(t)}
<1>1. f \in FloorType /\ AbsentOut(f)
  BY DEF Floors
<1>2. f.num \in Tables /\ f.num >= 2 /\ f.seat \in [Rounds -> [Users -> Seats]]
      /\ f.tables \subseteq Tables /\ f.num \in Nat /\ f.chair \in [Users -> Seats]
  BY <1>1, ZeroFacts DEF FloorType, CanBuild, Schedulable
<1>3. plan \in [Rounds -> [Users -> Seats]]
      /\ (\A r \in Rounds : r < from => plan[r] = f.seat[r])
      /\ \A u \in Users \ f.present : \A r \in Rounds : plan[r][u] = 0
  <2>1. PICK n, seats, gr, p :
           /\ n = f.num /\ seats = f.seat /\ gr = f.group /\ p = f.present
           /\ n \in Tables /\ n >= 2 /\ seats \in [Rounds -> [Users -> Seats]]
    BY <1>2
  <2>2. plan = Schedule(seats, gr, p, n, from)
    BY <2>1
  <2> HIDE DEF plan, g, left
  <2>3. plan \in [Rounds -> [Users -> Seats]]
    BY <2>1, <2>2, ScheduleSound
  <2>4. ASSUME NEW r \in Rounds, r < from
        PROVE  plan[r] = f.seat[r]
    BY <2>1, <2>2, <2>4 DEF Schedule
  <2>5. ASSUME NEW u \in Users \ f.present, NEW r \in Rounds
        PROVE  plan[r][u] = 0
    <3>1. u \in Users \ p /\ seats[0][u] = 0 /\ seats[r][u] = 0
      BY <1>1, <2>1, ZeroFacts DEF AbsentOut
    <3>2. Schedule(seats, gr, p, n, from)[r][u] = 0
      BY <2>1, <3>1, UnplannedOut
    <3>3. QED
      BY <2>2, <3>2
  <2>6. QED
    BY <2>3, <2>4, <2>5
<1>4. left \in SUBSET Tables /\ 1..f.num \subseteq left
  <2>1. 1..f.num \subseteq Tables
    BY <1>2, ZeroFacts
  <2>2. \A t \in 1..f.num : t <= f.num
    BY <1>2
  <2>3. QED
    BY <1>2, <2>1, <2>2
<1> HIDE DEF plan
<1>5. g \in FloorType
  BY <1>1, <1>3 DEF FloorType
<1>6. g.present = f.present /\ g.chair = f.chair /\ g.seat = plan /\ g.num = f.num
  BY <1>1 DEF FloorType
<1>7. g \in Floors
  BY <1>1, <1>3, <1>5, <1>6 DEF Floors, AbsentOut
<1>8. Built(f, from) = Cascaded(g, left)
  BY DEF Built, plan
<1> HIDE DEF g, left
<1>9. /\ Built(f, from).num = f.num /\ Built(f, from).tables = left
      /\ \A u \in Users :
          /\ Built(f, from).chair[u] = IF f.chair[u] \in left THEN f.chair[u] ELSE 0
          /\ \A r \in Rounds : Built(f, from).seat[r][u]
                                 = IF plan[r][u] \in left THEN plan[r][u] ELSE 0
  BY <1>4, <1>6, <1>7, <1>8, CascadedRows
<1>10. WellSeated(Built(f, from))
  BY <1>9 DEF WellSeated
<1>11. ASSUME NEW u \in Users, NEW r \in Rounds, r <= from - 1
       PROVE  /\ Built(f, from).seat[r][u] \in {0, f.seat[r][u]}
              /\ f.seat[r][u] \in 1..f.num => Built(f, from).seat[r][u] = f.seat[r][u]
  <2>1. r < from
    <3>1. r \in Int
      BY QuizAssumption DEF Rounds
    <3>2. QED
      BY <1>11, <3>1
  <2>2. plan[r][u] = f.seat[r][u]
    BY <1>3, <2>1
  <2>3. QED
    BY <1>4, <1>9, <2>2
<1>12. \A u \in Users : f.chair[u] \in 1..f.num => Built(f, from).chair[u] = f.chair[u]
  BY <1>4, <1>9
<1>13. Keeps(f, Built(f, from), from - 1)
  BY <1>2, <1>9, <1>11, <1>12 DEF Keeps
<1>14. QED
  BY <1>9, <1>10, <1>13

LEMMA KeepsItself ==
  ASSUME NEW f \in Floors, NEW k
  PROVE  Keeps(f, f, k)
<1>1. f.num \in Nat
  BY ZeroFacts DEF Floors, FloorType
<1>2. QED
  BY <1>1 DEF Keeps

\* A rebuild of the rounds to come, or none.
LEMMA ReseatedRows ==
  ASSUME NightInv, NEW f \in Floors, WellSeated(f)
  PROVE  /\ Keeps(f, Reseated(f), RoundNumber)
         /\ WellSeated(Reseated(f)) /\ Reseated(f).num = f.num
<1>1. RoundNumber \in Int /\ FirstFree - 1 = RoundNumber /\ FirstFree \in Int
  <2>1. round \in Int
    BY QuizAssumption DEF Rounds, NightInv, TypeOK
  <2>2. QED
    BY <2>1 DEF RoundNumber, FirstFree
<1>2. CASE CanBuild(f)
  BY <1>1, <1>2, BuiltRows DEF Reseated
<1>3. CASE ~CanBuild(f)
  BY <1>3, KeepsItself DEF Reseated
<1>4. QED
  BY <1>2, <1>3

LEMMA SeatedRows ==
  ASSUME NEW f \in Floors, NEW u \in Users, NEW t \in Tables, NEW n
  PROVE  /\ Seated(f, u, t, n).num = f.num /\ Seated(f, u, t, n).tables = f.tables
         /\ Seated(f, u, t, n).chair = [f.chair EXCEPT ![u] = t]
         /\ Seated(f, u, t, n).seat = [f.seat EXCEPT ![0] = [f.seat[0] EXCEPT ![u] = t]]
<1> DEFINE before == {v \in Women : f.seat[0][v] # 0}
           gr == IF u \in Men THEN "" ELSE GroupAfter(Cardinality(before), n)
           newChair == [f.chair EXCEPT ![u] = t]
           newSeat == [f.seat EXCEPT ![0] = [f.seat[0] EXCEPT ![u] = t]]
           newGroup == [f.group EXCEPT ![u] = gr]
<1>1. f \in FloorType
  BY DEF Floors
<1>2. Seated(f, u, t, n) = [f EXCEPT !.chair = newChair, !.seat = newSeat, !.group = newGroup]
  BY <1>1 DEF Seated, FloorType
<1> HIDE DEF newChair, newSeat, newGroup
<1>3. /\ Seated(f, u, t, n).num = f.num /\ Seated(f, u, t, n).tables = f.tables
      /\ Seated(f, u, t, n).chair = newChair /\ Seated(f, u, t, n).seat = newSeat
  BY <1>1, <1>2 DEF FloorType
<1>4. QED
  BY <1>3 DEF newChair, newSeat

-----------------------------------------------------------------------------
(* The invariant of the floor *)

Hosting == {"start", "rotate", "next", "status", "reselect", "score"}

\* A job in progress saw what is still so: one connection runs the quiz, and
\* nobody else changes its round, its question or a draft.
Fits(j, x) ==
    /\ x.step # "idle" /\ x.op \in Hosting => j \in Hosts
    /\ x.step # "idle" /\ x.op \in {"checkin", "consolidate"} => j \in Clerks
    /\ x.step \in {"look", "build", "save"} /\ x.op = "start" => status = "draft"
    /\ x.step \in {"look", "build"} /\ x.op = "rotate" => x.from = round /\ round # -1
    /\ x.step = "write" /\ x.op = "reselect" => x.to = round /\ round # -1
    /\ x.step = "write" /\ x.op = "score" => x.q = <<round, index>> /\ round # -1
    /\ x.step = "build" /\ x.op = "consolidate" => round <= 0
    /\ x.step = "seat" /\ x.op = "checkin" => x.u \notin attended

DeskInv ==
    /\ status = "draft" => round = -1
    /\ \A j \in Jobs : Fits(j, job[j])
    /\ \A j, k \in Jobs :
        j # k /\ At(j, "checkin", "seat") /\ At(k, "checkin", "seat") => job[j].u # job[k].u

FloorInv == NightInv /\ DeskInv /\ WellSeated(Floor)

-----------------------------------------------------------------------------
(* What a transaction keeps *)

\* What a step keeps: the tables where someone sits now, and of the rows of the
\* rounds up to k: they stay or go, and who is still in keeps them, and the
\* chair, at the tables still in use.
Keeping(k) ==
    /\ num' <= num
    /\ \A u \in Users : seat[RoundNumber][u] \in 1..num => seat[RoundNumber][u] \in 1..num'
    /\ \A u \in Users, r \in Rounds :
        r <= k /\ (r = 0 => u \in attended \cap attended') => seat'[r][u] \in {0, seat[r][u]}
    /\ \A u \in attended \cap attended' :
        /\ \A r \in Rounds : r <= k /\ seat[r][u] \in 1..num' => seat'[r][u] = seat[r][u]
        /\ chair[u] \in 1..num' => chair'[u] = chair[u]

LEMMA SetSeated ==
  ASSUME NEW g, WellSeated(g), SetFloor(g)
  PROVE  WellSeated(Floor)'
  BY DEF WellSeated, SetFloor, Floor

\* A transaction that changes only rows of someone who comes or goes, and may
\* then rebuild the rounds to come.
LEMMA EndKeeps ==
  ASSUME NightInv, NEW f \in Floors, WellSeated(f), f.num = num,
         \A u \in Users, r \in Rounds :
            (r = 0 => u \in attended \cap f.present) => f.seat[r][u] \in {0, seat[r][u]},
         \A u \in attended \cap f.present :
            f.chair[u] = chair[u] /\ \A r \in Rounds : f.seat[r][u] = seat[r][u],
         NEW g, g = f \/ g = Reseated(f), SetFloor(g)
  PROVE  Keeping(RoundNumber) /\ WellSeated(Floor)'
<1>1. num \in Nat
  BY HostTypes, ZeroFacts
<1>2. Keeps(f, g, RoundNumber) /\ WellSeated(g) /\ g.num = num /\ g.present = f.present
  BY ReseatedRows, ReseatedSound, KeepsItself
<1>3. WellSeated(Floor)'
  BY <1>2, SetSeated
<1>4. num' = num /\ chair' = g.chair /\ seat' = g.seat /\ attended' = f.present
  BY <1>2 DEF SetFloor
<1>5. attended \cap f.present \subseteq Users
  BY DEF NightInv, TypeOK
<1>6. \A u \in Users, r \in Rounds :
        r <= RoundNumber /\ (r = 0 => u \in attended \cap attended') => seat'[r][u] \in {0, seat[r][u]}
  BY <1>2, <1>4 DEF Keeps
<1>7. \A u \in attended \cap attended' :
        /\ \A r \in Rounds : r <= RoundNumber /\ seat[r][u] \in 1..num' => seat'[r][u] = seat[r][u]
        /\ chair[u] \in 1..num' => chair'[u] = chair[u]
  BY <1>2, <1>4, <1>5 DEF Keeps
<1>8. QED
  BY <1>1, <1>3, <1>4, <1>6, <1>7 DEF Keeping

LEMMA CheckInKeeps ==
  ASSUME FloorInv, NEW j \in Jobs, CheckInSeat(j)
  PROVE  /\ Keeping(RoundNumber) /\ WellSeated(Floor)'
         /\ attended' = attended \cup {job[j].u}
<1> DEFINE u == job[j].u
           n == job[j].num
           here == [Floor EXCEPT !.present = @ \cup {u}, !.tables = @ \cup 1..n]
           least == LeastFilled(here.tables, Role(u) \ {u}, seat[0])
           placed == Seated(here, u, least, n)
           end == IF chair[u] # 0 THEN here ELSE IF job[j].live THEN Reseated(placed) ELSE placed
<1> USE DEF FloorInv
<1>1. job[j] \in CheckingIn
  BY HostTypes, KindsOfTasks DEF CheckInSeat, At
<1>2. u \in Users /\ n \in Tables /\ u \notin attended
  <2>1. u \in Users /\ n \in Tables
    BY <1>1 DEF CheckingIn
  <2>2. Fits(j, job[j]) /\ job[j].step = "seat" /\ job[j].op = "checkin"
    BY DEF CheckInSeat, At, DeskInv
  <2>3. QED
    BY <2>1, <2>2 DEF Fits
<1>3. SetFloor(end)
  BY DEF CheckInSeat
<1> HIDE DEF u, n
<1>4. /\ here \in FloorType /\ here.present = attended \cup {u} /\ here.tables = tables \cup 1..n
      /\ here.chair = chair /\ here.seat = seat /\ here.num = num
  BY <1>2, FloorSound, ZeroFacts DEF Floors, FloorType
<1>5. here \in Floors
  <2>1. AbsentOut(Floor)
    BY FloorSound DEF Floors
  <2>2. AbsentOut(here)
    BY <1>4, <2>1, FloorSound DEF AbsentOut
  <2>3. QED
    BY <1>4, <2>2 DEF Floors
<1>6. WellSeated(here)
  <2>1. WellSeated(Floor)
    OBVIOUS
  <2>2. QED
    BY <1>4, <2>1, FloorSound DEF WellSeated
<1> HIDE DEF here
<1>7. least \in here.tables /\ here.tables \subseteq Tables
  <2>1. here.tables \in SUBSET Tables /\ 1 \in here.tables
    <3>1. tables \subseteq Tables
      BY DEF NightInv, TypeOK
    <3>2. 1 \in 1..n /\ 1..n \subseteq Tables
      <4>1. n \in Nat /\ n >= 1
        BY <1>2, QuizAssumption DEF Tables
      <4>2. 1 \in 1..n
        BY <4>1
      <4>3. 1..n \subseteq Tables
        BY <1>2, QuizAssumption DEF Tables
      <4>4. QED
        BY <4>2, <4>3
    <3>3. QED
      BY <1>4, <3>1, <3>2
  <2>2. Role(u) \ {u} \in SUBSET Users
    BY DEF Role, Users
  <2>3. QED
    BY <2>1, <2>2, LeastFilledIsOne
<1> HIDE DEF least
<1>8. u \in here.present /\ least \in Tables
  BY <1>4, <1>7
<1>9. /\ placed \in Floors /\ placed.present = attended \cup {u}
      /\ placed.num = num /\ placed.tables = here.tables
      /\ placed.chair = [chair EXCEPT ![u] = least]
      /\ placed.seat = [seat EXCEPT ![0] = [seat[0] EXCEPT ![u] = least]]
  BY <1>2, <1>4, <1>5, <1>8, SeatedSound, SeatedRows
<1> HIDE DEF placed
<1>10. chair \in [Users -> Seats] /\ seat \in [Rounds -> [Users -> Seats]] /\ 0 \in Rounds
  BY ZeroFacts DEF NightInv, TypeOK, Seats
<1>11. /\ \A v \in Users : placed.chair[v] = IF v = u THEN least ELSE chair[v]
       /\ \A v \in Users, r \in Rounds :
            placed.seat[r][v] = IF r = 0 /\ v = u THEN least ELSE seat[r][v]
  BY <1>2, <1>9, <1>10
<1>12. WellSeated(placed)
  BY <1>4, <1>6, <1>7, <1>9, <1>11 DEF WellSeated
<1>13. CASE chair[u] # 0
  <2>1. end = here
    BY <1>13
  <2> HIDE DEF end
  <2>2. Keeping(RoundNumber) /\ WellSeated(Floor)'
    BY <1>3, <1>4, <1>5, <1>6, <2>1, EndKeeps
  <2>3. attended' = attended \cup {u}
    BY <1>3, <1>4, <2>1 DEF SetFloor
  <2>4. QED
    BY <2>2, <2>3 DEF u
<1>14. CASE chair[u] = 0
  <2>1. end = placed \/ end = Reseated(placed)
    BY <1>14
  <2> HIDE DEF end
  <2>2. \A v \in Users, r \in Rounds :
          (r = 0 => v \in attended \cap placed.present) => placed.seat[r][v] \in {0, seat[r][v]}
    BY <1>2, <1>11
  <2>3. \A v \in attended \cap placed.present :
          placed.chair[v] = chair[v] /\ \A r \in Rounds : placed.seat[r][v] = seat[r][v]
    BY <1>2, <1>11 DEF NightInv, TypeOK
  <2>4. Keeping(RoundNumber) /\ WellSeated(Floor)'
    BY <1>3, <1>9, <1>12, <2>1, <2>2, <2>3, EndKeeps
  <2>5. attended' = attended \cup {u}
    BY <1>3, <1>9, <2>1, ReseatedSound DEF SetFloor
  <2>6. QED
    BY <2>4, <2>5 DEF u
<1>15. QED
  BY <1>13, <1>14

LEMMA UndoKeeps ==
  ASSUME FloorInv, NEW j \in Jobs, NEW u \in Users, Undo(j, u)
  PROVE  Keeping(RoundNumber) /\ WellSeated(Floor)' /\ attended' = attended \ {u}
<1> DEFINE newSeat == [r \in Rounds |-> [seat[r] EXCEPT ![u] = 0]]
           left == [Floor EXCEPT !.present = @ \ {u}, !.chair[u] = 0, !.group[u] = "",
                                 !.seat = newSeat]
           end == IF status \in Live THEN Reseated(left) ELSE left
<1> USE DEF FloorInv
<1>1. SetFloor(end)
  BY DEF Undo
<1>2. left = [num |-> num, tables |-> tables, chair |-> [chair EXCEPT ![u] = 0],
              seat |-> newSeat, group |-> [group EXCEPT ![u] = ""], present |-> attended \ {u}]
  <2>1. left = [Floor EXCEPT !.present = attended \ {u}, !.chair = [chair EXCEPT ![u] = 0],
                             !.group = [group EXCEPT ![u] = ""], !.seat = newSeat]
    BY DEF Floor
  <2> HIDE DEF left, newSeat
  <2>2. QED
    BY <2>1 DEF Floor
<1>3. /\ num \in Tables /\ tables \subseteq Tables /\ attended \subseteq Users
      /\ [chair EXCEPT ![u] = 0] \in [Users -> Seats]
      /\ newSeat \in [Rounds -> [Users -> Seats]]
      /\ [group EXCEPT ![u] = ""] \in [Users -> Groups]
  BY ZeroFacts DEF NightInv, TypeOK, Seats
<1>4. /\ left.present = attended \ {u} /\ left.chair = [chair EXCEPT ![u] = 0]
      /\ left.seat = newSeat /\ left.num = num /\ left.tables = tables
  BY <1>2
<1>5. /\ \A v \in Users : left.chair[v] = IF v = u THEN 0 ELSE chair[v]
      /\ \A v \in Users, r \in Rounds : left.seat[r][v] = IF v = u THEN 0 ELSE seat[r][v]
  <2>1. \A v \in Users, r \in Rounds : newSeat[r][v] = IF v = u THEN 0 ELSE seat[r][v]
    BY DEF NightInv, TypeOK
  <2>2. \A v \in Users : [chair EXCEPT ![u] = 0][v] = IF v = u THEN 0 ELSE chair[v]
    BY DEF NightInv, TypeOK
  <2> HIDE DEF left, newSeat
  <2>3. QED
    BY <1>4, <2>1, <2>2
<1>6. left \in FloorType
  <2>1. attended \ {u} \in SUBSET Users
    BY <1>3
  <2> HIDE DEF left, newSeat
  <2>2. QED
    BY <1>2, <1>3, <2>1 DEF FloorType
<1> HIDE DEF left
<1>7. left \in Floors
  BY <1>4, <1>5, <1>6 DEF Floors, AbsentOut, NightInv, OnlyPresentSeated
<1>8. WellSeated(left)
  <2>1. WellSeated(Floor)
    OBVIOUS
  <2>2. QED
    BY <1>4, <1>5, <2>1, FloorSound DEF WellSeated
<1>9. \A v \in attended \cap left.present :
        left.chair[v] = chair[v] /\ \A r \in Rounds : left.seat[r][v] = seat[r][v]
  BY <1>3, <1>4, <1>5
<1>10. \A v \in Users, r \in Rounds :
         (r = 0 => v \in attended \cap left.present) => left.seat[r][v] \in {0, seat[r][v]}
  BY <1>5
<1>11. end = left \/ end = Reseated(left)
  OBVIOUS
<1> HIDE DEF end
<1>12. Keeping(RoundNumber) /\ WellSeated(Floor)'
  BY <1>1, <1>4, <1>7, <1>8, <1>9, <1>10, <1>11, EndKeeps
<1>13. end.present = attended \ {u}
  BY <1>4, <1>7, <1>11, ReseatedSound
<1>14. QED
  BY <1>1, <1>12, <1>13 DEF SetFloor

\* A rebuild by itself, of the rounds from `from` on.
LEMMA RebuildKeeps ==
  ASSUME FloorInv, CanBuild(Floor), NEW from \in Int, SetFloor(Built(Floor, from))
  PROVE  Keeping(from - 1) /\ WellSeated(Floor)'
<1> USE DEF FloorInv
<1>1. Floor \in Floors /\ Floor.num = num /\ Floor.chair = chair /\ Floor.seat = seat
  BY FloorSound
<1>2. PICK f \in Floors : f = Floor
  BY <1>1
<1>3. PICK g : g = Built(f, from)
  OBVIOUS
<1>4. g.num = f.num /\ Keeps(f, g, from - 1) /\ WellSeated(g)
  BY <1>2, <1>3, BuiltRows
<1>5. SetFloor(g)
  BY <1>2, <1>3
<1>6. WellSeated(Floor)'
  BY <1>4, <1>5, SetSeated
<1>7. num' = num /\ chair' = g.chair /\ seat' = g.seat /\ num \in Nat /\ attended \subseteq Users
  BY <1>1, <1>2, <1>4, <1>5, ZeroFacts DEF SetFloor, NightInv, TypeOK
<1>8. Keeping(from - 1)
  BY <1>1, <1>2, <1>4, <1>7 DEF Keeps, Keeping
<1>9. QED
  BY <1>6, <1>8

LEMMA AssignBuildKeeps ==
  ASSUME FloorInv, NEW j \in Jobs, AssignBuild(j)
  PROVE  Keeping(RoundNumber) /\ WellSeated(Floor)'
<1> USE DEF FloorInv
<1>1. PICK f \in Floors : f = Floor /\ f.num = num /\ f.chair = chair /\ f.seat = seat
  BY FloorSound
<1>2. PICK g : g = Reseated(f) /\ SetFloor(g)
  BY <1>1 DEF AssignBuild
<1>3. WellSeated(f)
  BY <1>1
<1>4. QED
  BY <1>1, <1>2, <1>3, EndKeeps

\* Dissolving the top table, where nobody sits now.
LEMMA DissolveKeeps ==
  ASSUME FloorInv, NEW j \in Jobs, Dissolve(j)
  PROVE  /\ Keeping(RoundNumber) /\ WellSeated(Floor)' /\ attended' = attended
         /\ num' = num - 1 /\ \A u \in Users : seat[RoundNumber][u] # num
<1> DEFINE ahead == [r \in Rounds |-> [u \in Users |->
                        IF r >= RoundNumber /\ seat[r][u] = num THEN 0 ELSE seat[r][u]]]
           chairs == [u \in Users |-> IF chair[u] = num THEN 0 ELSE chair[u]]
           bare == [Floor EXCEPT !.seat = ahead, !.num = num - 1, !.chair = chairs]
           left == IF HasMarks(num) THEN tables ELSE tables \ {num}
           gone == Cascaded(bare, left)
           end == IF status \in Live THEN Built(gone, FirstFree) ELSE gone
<1> USE DEF FloorInv
<1>1. /\ num >= 3 /\ \A u \in Users : seat[RoundNumber][u] # num
      /\ status \in Live => CanBuild(gone)
      /\ SetFloor(end)
  BY DEF Dissolve
<1>2. num - 1 \in Tables /\ tables \subseteq Tables /\ num \in Nat
  BY <1>1, QuizAssumption DEF NightInv, TypeOK, Tables
<1>3. ahead \in [Rounds -> [Users -> Seats]] /\ chairs \in [Users -> Seats]
  BY ZeroFacts DEF NightInv, TypeOK, Seats
<1>4. \A u \in Users \ attended : chairs[u] = 0 /\ \A r \in Rounds : ahead[r][u] = 0
  BY DEF NightInv, OnlyPresentSeated
<1>5. /\ \A u \in Users : chairs[u] = IF chair[u] = num THEN 0 ELSE chair[u]
      /\ \A u \in Users, r \in Rounds :
            ahead[r][u] = IF r >= RoundNumber /\ seat[r][u] = num THEN 0 ELSE seat[r][u]
  OBVIOUS
<1> HIDE DEF ahead, chairs
<1>6. bare \in FloorType
  BY <1>2, <1>3, FloorSound DEF Floors, FloorType
<1>7. bare.present = attended /\ bare.chair = chairs /\ bare.seat = ahead /\ bare.num = num - 1
  BY DEF Floor
<1>8. bare \in Floors
  BY <1>4, <1>6, <1>7 DEF Floors, AbsentOut
<1>9. left \in SUBSET Tables /\ \A t \in tables : t # num => t \in left
  BY <1>2
<1> HIDE DEF bare, left
<1>10. /\ gone \in Floors /\ gone.num = num - 1 /\ gone.present = attended /\ gone.tables = left
       /\ \A u \in Users :
           /\ gone.chair[u] = IF chairs[u] \in left THEN chairs[u] ELSE 0
           /\ \A r \in Rounds : gone.seat[r][u] = IF ahead[r][u] \in left THEN ahead[r][u] ELSE 0
  BY <1>7, <1>8, <1>9, CascadedSound, CascadedRows
<1> HIDE DEF gone
<1>11. WellSeated(gone)
  BY <1>10 DEF WellSeated
<1>12. \A t \in {0} \cup tables : t \in 1..(num - 1) => t # num /\ t \in left
  BY <1>2, <1>9
<1>13. \A u \in Users : chair[u] \in {0} \cup tables /\ \A r \in Rounds : seat[r][u] \in {0} \cup tables
  <2>1. WellSeated(Floor)
    OBVIOUS
  <2>2. QED
    BY <2>1, FloorSound DEF WellSeated
<1>14. \A u \in Users : chair[u] \in 1..(num - 1) => gone.chair[u] = chair[u]
  BY <1>5, <1>10, <1>12, <1>13
<1>15. \A u \in Users, r \in Rounds :
          /\ gone.seat[r][u] \in {0, seat[r][u]}
          /\ seat[r][u] \in 1..(num - 1) => gone.seat[r][u] = seat[r][u]
  BY <1>5, <1>10, <1>12, <1>13
<1>16. RoundNumber \in Int /\ FirstFree \in Int /\ FirstFree - 1 = RoundNumber
  <2>1. round \in Int
    BY QuizAssumption DEF Rounds, NightInv, TypeOK
  <2>2. QED
    BY <2>1 DEF RoundNumber, FirstFree
<1>17. /\ end.num = num - 1 /\ end.present = attended
       /\ Keeps(gone, end, RoundNumber) /\ WellSeated(end)
  <2>1. CASE status \in Live
    BY <1>1, <1>10, <1>16, <2>1, BuiltRows, BuiltSound
  <2>2. CASE status \notin Live
    BY <1>10, <1>11, <2>2, KeepsItself
  <2>3. QED
    BY <2>1, <2>2
<1> HIDE DEF end
<1>18. PICK g : g = end
  OBVIOUS
<1>19. WellSeated(Floor)'
  BY <1>1, <1>17, <1>18, SetSeated
<1>20. num' = num - 1 /\ chair' = g.chair /\ seat' = g.seat /\ attended \subseteq Users
       /\ attended' = attended
  BY <1>1, <1>17, <1>18 DEF SetFloor, NightInv, TypeOK
<1>21. \A u \in Users : chair[u] \in 1..(num - 1) => chair'[u] = chair[u]
  BY <1>10, <1>14, <1>17, <1>18, <1>20 DEF Keeps
<1>22. \A u \in Users, r \in Rounds : r <= RoundNumber =>
          /\ seat'[r][u] \in {0, seat[r][u]}
          /\ seat[r][u] \in 1..(num - 1) => seat'[r][u] = seat[r][u]
  BY <1>10, <1>15, <1>17, <1>18, <1>20 DEF Keeps
<1>23. /\ num' <= num
       /\ \A u \in Users : seat[RoundNumber][u] \in 1..num => seat[RoundNumber][u] \in 1..num'
  BY <1>1, <1>2, <1>20
<1>24. Keeping(RoundNumber)
  BY <1>20, <1>21, <1>22, <1>23 DEF Keeping
<1>25. QED
  BY <1>1, <1>19, <1>20, <1>24

\* A placement by hand gives a chair, and the round-0 row, to one member who
\* is in and has no chair.
LEMMA AssignSeatKeeps ==
  ASSUME FloorInv, NEW j \in Jobs, AssignSeat(j)
  PROVE  /\ WellSeated(Floor)' /\ num' = num /\ attended' = attended
         /\ \/ UNCHANGED floorVars
            \/ \E u \in attended, t \in 1..num :
                 /\ chair[u] = 0
                 /\ \A v \in Users : chair'[v] = IF v = u THEN t ELSE chair[v]
                 /\ \A v \in Users, r \in Rounds :
                      seat'[r][v] = IF r = 0 /\ v = u THEN t ELSE seat[r][v]
<1> USE DEF FloorInv
<1>1. WellSeated(Floor)
  OBVIOUS
<1>2. job[j] \in Assigning
  BY HostTypes, KindsOfTasks DEF AssignSeat, At
<1>3. PICK u \in Users, t \in Tables : u = job[j].u /\ t = job[j].t
  BY <1>2 DEF Assigning
<1>4. CASE Assignable(j)
  <2>1. SetFloor(Seated(Floor, u, t, num))
    BY <1>3, <1>4 DEF AssignSeat
  <2>2. u \in attended /\ t \in tables /\ t <= num /\ chair[u] = 0
    BY <1>3, <1>4 DEF Assignable
  <2>3. t \in 1..num
    BY <2>2, QuizAssumption DEF Tables, NightInv, TypeOK
  <2>4. PICK g : g = Seated(Floor, u, t, num)
    OBVIOUS
  <2>5. /\ g.num = num /\ g.tables = tables /\ g.present = attended
        /\ g.chair = [chair EXCEPT ![u] = t]
        /\ g.seat = [seat EXCEPT ![0] = [seat[0] EXCEPT ![u] = t]]
    BY <2>2, <2>4, FloorSound, SeatedRows, SeatedSound
  <2>6. chair \in [Users -> Seats] /\ seat \in [Rounds -> [Users -> Seats]] /\ 0 \in Rounds
    BY ZeroFacts DEF NightInv, TypeOK, Seats
  <2>7. /\ \A v \in Users : g.chair[v] = IF v = u THEN t ELSE chair[v]
        /\ \A v \in Users, r \in Rounds :
              g.seat[r][v] = IF r = 0 /\ v = u THEN t ELSE seat[r][v]
    BY <2>5, <2>6
  <2>8. WellSeated(g)
    BY <1>1, <2>2, <2>5, <2>7, FloorSound DEF WellSeated
  <2>9. WellSeated(Floor)'
    BY <2>1, <2>4, <2>8, SetSeated
  <2>10. num' = num /\ chair' = g.chair /\ seat' = g.seat /\ attended' = attended
    BY <2>1, <2>4, <2>5 DEF SetFloor
  <2>11. QED
    BY <2>2, <2>3, <2>7, <2>9, <2>10
<1>5. CASE ~Assignable(j)
  <2>1. UNCHANGED floorVars
    BY <1>5 DEF AssignSeat
  <2>2. QED
    BY <1>1, <2>1 DEF floorVars, WellSeated, Floor
<1>6. QED
  BY <1>4, <1>5

LEMMA ConsolidateMoveKeeps ==
  ASSUME FloorInv, NEW j \in Jobs, ConsolidateMove(j)
  PROVE  WellSeated(Floor)' /\ attended' = attended /\ (status = "draft" \/ UNCHANGED floorVars)
<1> DEFINE n == job[j].num
           to == job[j].to
           Moved(u, t) == IF u \in DOMAIN to /\ t # 0 THEN to[u] ELSE t
           chairs == [u \in Users |-> Moved(u, chair[u])]
           door == [seat EXCEPT ![0] = [u \in Users |-> Moved(u, seat[0][u])]]
           moved == [Floor EXCEPT !.num = n, !.chair = chairs, !.seat[0] = [u \in Users |-> Moved(u, seat[0][u])]]
           left == tables \cap 1..n
           may == status = "draft" /\ 1..n \subseteq tables
<1>1. CASE may
  <2>1. SetFloor(Cascaded(moved, left))
    BY <1>1 DEF ConsolidateMove
  <2>2. moved = [num |-> n, tables |-> tables, chair |-> chairs, seat |-> door,
                 group |-> group, present |-> attended]
    <3>1. moved = [Floor EXCEPT !.num = n, !.chair = chairs, !.seat = door]
      BY DEF Floor
    <3> HIDE DEF moved, chairs, door, n
    <3>2. QED
      BY <3>1 DEF Floor
  <2> HIDE DEF moved, chairs, door, n, to, left
  <2> DEFINE At0(t) == IF t \in left THEN t ELSE 0
             now == [r \in Rounds |-> [u \in Users |-> At0(moved.seat[r][u])]]
             newChair == [u \in Users |-> At0(moved.chair[u])]
             newGroup == [u \in Users |-> IF now[0][u] = 0 THEN "" ELSE moved.group[u]]
  <2>3. Cascaded(moved, left) = [moved EXCEPT !.tables = left, !.seat = now,
                                              !.chair = newChair, !.group = newGroup]
    BY DEF Cascaded
  <2>4. \A u \in Users : newChair[u] \in {0} \cup left /\ \A r \in Rounds : now[r][u] \in {0} \cup left
    OBVIOUS
  <2> HIDE DEF now, newChair, newGroup, At0
  <2>5. PICK g : g = Cascaded(moved, left)
    OBVIOUS
  <2>6. g.tables = left /\ g.chair = newChair /\ g.seat = now /\ g.present = attended
    BY <2>2, <2>3, <2>5
  <2>7. WellSeated(g)
    BY <2>4, <2>6 DEF WellSeated
  <2>8. SetFloor(g)
    BY <2>1, <2>5
  <2>9. WellSeated(Floor)' /\ attended' = attended
    BY <2>6, <2>7, <2>8, SetSeated DEF SetFloor
  <2>10. QED
    BY <1>1, <2>9
<1>2. CASE ~may
  <2>1. UNCHANGED floorVars
    BY <1>2 DEF ConsolidateMove
  <2>2. WellSeated(Floor)
    BY DEF FloorInv
  <2>3. QED
    BY <2>1, <2>2 DEF floorVars, WellSeated, Floor
<1>3. QED
  BY <1>1, <1>2

-----------------------------------------------------------------------------
(* The desk *)

\* With one connection, a host who is free or busy with a message is the only one.
LEMMA OneAtTheDesk ==
  ASSUME \A h, k \in Hosts : h = k, DeskInv, NEW j \in Jobs,
         Ready(j) \/ (job[j].step # "idle" /\ job[j].op \in Hosting)
  PROVE  /\ j \in Hosts
         /\ \A k \in Jobs \ {j} : job[k].step = "idle" \/ job[k].op \notin Hosting
<1>1. \A k \in Jobs : Fits(k, job[k])
  BY DEF DeskInv
<1>2. \A k \in Jobs : job[k].step # "idle" /\ job[k].op \in Hosting => k \in Hosts
  BY <1>1 DEF Fits
<1>3. j \in Hosts
  BY <1>2 DEF Ready
<1>4. QED
  BY <1>2, <1>3

LEMMA NothingFits ==
  ASSUME NEW j
  PROVE  Fits(j, NoJob) /\ Fits(j, NoJob)'
<1>1. NoJob.step = "idle"
  BY DEF NoJob
<1>2. QED
  BY <1>1 DEF Fits

\* A step whose new job, and every other job, fits the new state.
LEMMA DeskStep ==
  ASSUME NightInv, DeskInv, NEW j \in Jobs, NEW x, Begin(j, x),
         status' = "draft" => round' = -1,
         Fits(j, x)', \A k \in Jobs \ {j} : \A y : y = job[k] => Fits(k, y)',
         x.step = "seat" /\ x.op = "checkin" =>
            \A k \in Jobs \ {j} : At(k, "checkin", "seat") => job[k].u # x.u
  PROVE  DeskInv'
<1>1. job \in [Jobs -> Task]
  BY DEF NightInv
<1>2. \A k \in Jobs : job'[k] = IF k = j THEN x ELSE job[k]
  BY <1>1 DEF Begin
<1>3. ASSUME NEW k \in Jobs
      PROVE  Fits(k, job[k])'
  <2>1. PICK y : y = job'[k]
    OBVIOUS
  <2>2. Fits(k, y)'
    BY <1>2, <2>1
  <2>3. QED
    BY <2>1, <2>2 DEF Fits
<1>4. ASSUME NEW k \in Jobs, NEW l \in Jobs, k # l, At(k, "checkin", "seat")', At(l, "checkin", "seat")'
      PROVE  job'[k].u # job'[l].u
  BY <1>2, <1>4 DEF At, DeskInv
<1>5. QED
  BY <1>3, <1>4 DEF DeskInv

\* A step that writes nothing of the quiz row and lets in only whom it checks in.
LEMMA QuietStep ==
  ASSUME NightInv, DeskInv, NEW j \in Jobs, NEW x, Begin(j, x), UNCHANGED hostVars,
         \A k \in Jobs \ {j} : At(k, "checkin", "seat") => job[k].u \notin attended',
         Fits(j, x)',
         x.step = "seat" /\ x.op = "checkin" =>
            \A k \in Jobs \ {j} : At(k, "checkin", "seat") => job[k].u # x.u
  PROVE  DeskInv'
<1>1. ASSUME NEW k \in Jobs \ {j}, NEW y, y = job[k]
      PROVE  Fits(k, y)'
  <2>1. Fits(k, y)
    BY <1>1 DEF DeskInv
  <2>2. y.step = "seat" /\ y.op = "checkin" => y.u \notin attended'
    BY <1>1 DEF At
  <2>3. QED
    BY <2>1, <2>2 DEF Fits, hostVars
<1>2. status' = "draft" => round' = -1
  BY DEF DeskInv, hostVars
<1>3. QED
  BY <1>1, <1>2, DeskStep

\* A step of the only connection that writes the quiz row.
LEMMA WritingStep ==
  ASSUME NightInv, DeskInv, \A h, k \in Hosts : h = k, NEW j \in Jobs, NEW x, Begin(j, x),
         Ready(j) \/ (job[j].step # "idle" /\ job[j].op \in Hosting),
         attended' = attended, status' = "draft" => round' = -1,
         \A k \in Jobs \ {j} : At(k, "consolidate", "build") => round' <= 0,
         Fits(j, x)', ~(x.step = "seat" /\ x.op = "checkin")
  PROVE  DeskInv'
<1>1. \A k \in Jobs \ {j} : job[k].step = "idle" \/ job[k].op \notin Hosting
  BY OneAtTheDesk
<1>2. ASSUME NEW k \in Jobs \ {j}, NEW y, y = job[k]
      PROVE  Fits(k, y)'
  <2>1. Fits(k, y)
    BY <1>2 DEF DeskInv
  <2>2. y.step = "idle" \/ y.op \notin Hosting
    BY <1>1, <1>2
  <2>3. y.step = "build" /\ y.op = "consolidate" => round' <= 0
    BY <1>2 DEF At
  <2>4. QED
    BY <2>1, <2>2, <2>3 DEF Fits, Hosting
<1>3. QED
  BY <1>2, DeskStep

LEMMA WaitingOutside ==
  ASSUME DeskInv
  PROVE  \A k \in Jobs : At(k, "checkin", "seat") => job[k].u \notin attended /\ k \in Clerks
<1>1. \A k \in Jobs : Fits(k, job[k])
  BY DEF DeskInv
<1>2. QED
  BY <1>1 DEF Fits, At

\* A step that lets nobody in, and leaves its job undone, done or at a step that
\* asks nothing of the quiz row.
LEMMA PlainStep ==
  ASSUME NightInv, DeskInv, NEW j \in Jobs, NEW x, Begin(j, x), UNCHANGED hostVars,
         attended' \subseteq attended, Fits(j, x)', ~(x.step = "seat" /\ x.op = "checkin")
  PROVE  DeskInv'
<1>1. \A k \in Jobs \ {j} : At(k, "checkin", "seat") => job[k].u \notin attended'
  BY WaitingOutside
<1>2. QED
  BY <1>1, QuietStep

LEMMA SameJob ==
  ASSUME NightInv, NEW j \in Jobs, UNCHANGED job
  PROVE  Begin(j, job[j])
  BY DEF NightInv, Begin

LEMMA DoorDesk ==
  ASSUME FloorInv, NEW j \in Jobs, Door(j)
  PROVE  DeskInv'
<1> USE DEF FloorInv
<1>1. CASE CheckInSeat(j)
  <2>1. attended' = attended \cup {job[j].u}
    BY <1>1, CheckInKeeps
  <2>2. Begin(j, NoJob) /\ UNCHANGED hostVars /\ At(j, "checkin", "seat")
    BY <1>1 DEF CheckInSeat, End, Begin
  <2>3. \A k \in Jobs \ {j} : At(k, "checkin", "seat") => job[k].u \notin attended'
    BY <2>1, <2>2, WaitingOutside DEF DeskInv
  <2>4. NoJob.step # "seat"
    BY DEF NoJob
  <2>5. QED
    BY <2>2, <2>3, <2>4, NothingFits, QuietStep
<1>2. ASSUME NEW u \in Users, CheckInBegin(j, u)
      PROVE  DeskInv'
  <2> DEFINE x == [op |-> "checkin", step |-> "seat", u |-> u, num |-> num, live |-> status \in Live]
  <2>1. /\ Begin(j, x) /\ UNCHANGED <<hostVars, floorVars>> /\ j \in Clerks /\ u \notin attended
        /\ \A k \in Clerks : ~(At(k, "checkin", "seat") /\ job[k].u = u)
    BY <1>2 DEF CheckInBegin
  <2>2. PICK y : y = x
    OBVIOUS
  <2>3. y.op = "checkin" /\ y.step = "seat" /\ y.u = u
    BY <2>2
  <2> HIDE DEF x
  <2>4. attended' = attended
    BY <2>1 DEF floorVars
  <2>5. \A k \in Jobs \ {j} : At(k, "checkin", "seat") => job[k].u \notin attended' /\ job[k].u # y.u
    BY <2>1, <2>3, <2>4, WaitingOutside
  <2>6. Fits(j, y)'
    BY <2>1, <2>3, <2>4 DEF Fits, Hosting
  <2>7. Begin(j, y)
    BY <2>1, <2>2
  <2>8. QED
    BY <2>1, <2>5, <2>6, <2>7, QuietStep
<1>3. ASSUME NEW u \in Users, Undo(j, u)
      PROVE  DeskInv'
  <2>1. attended' \subseteq attended
    BY <1>3, UndoKeeps
  <2>2. UNCHANGED <<hostVars, job>> /\ job[j].step = "idle"
    BY <1>3 DEF Undo, Idle
  <2>3. PICK y : y = job[j]
    OBVIOUS
  <2>4. Begin(j, y) /\ y.step = "idle"
    BY <2>2, <2>3, SameJob
  <2>5. Fits(j, y)'
    BY <2>4 DEF Fits
  <2>6. QED
    BY <2>1, <2>2, <2>4, <2>5, PlainStep
<1>4. QED
  BY <1>1, <1>2, <1>3 DEF Door

LEMMA StaffDesk ==
  ASSUME FloorInv, \A h, k \in Hosts : h = k, NEW j \in Jobs, Staff(j)
  PROVE  DeskInv'
<1> USE DEF FloorInv
<1>1. UNCHANGED hostVars
  BY DEF Staff, AssignSeat, AssignBuild, Dissolve, ConsolidateBegin, ConsolidateMove,
         ConsolidateBuild, AssignBegin
<1>2. attended' = attended
  <2>1. CASE AssignSeat(j)
    BY <2>1, AssignSeatKeeps
  <2>2. CASE AssignBuild(j)
    BY <2>2, FloorSound, ReseatedSound DEF AssignBuild, SetFloor
  <2>3. CASE ConsolidateBuild(j)
    BY <2>3, FloorSound, BuiltSound DEF ConsolidateBuild, SetFloor
  <2>4. CASE ConsolidateMove(j)
    BY <2>4, ConsolidateMoveKeeps
  <2>5. CASE ConsolidateBegin(j) \/ \E u \in Users : AssignBegin(j, u)
    BY <2>5 DEF ConsolidateBegin, AssignBegin, floorVars
  <2>6. CASE Dissolve(j)
    BY <2>6, DissolveKeeps
  <2>7. QED
    BY <2>1, <2>2, <2>3, <2>4, <2>5, <2>6 DEF Staff
<1>3. PICK y : Begin(j, y) /\ Fits(j, y)' /\ y.step \in {"idle", "seat", "build", "move"}
               /\ (y.step = "seat" => y.op = "assign")
  <2>1. NoJob.step = "idle" /\ Fits(j, NoJob)'
    BY NothingFits DEF NoJob
  <2>2. ASSUME End(j)
        PROVE  \E y : Begin(j, y) /\ Fits(j, y)' /\ y.step = "idle"
    BY <2>1, <2>2 DEF End, Begin
  <2>3. CASE AssignBuild(j) \/ ConsolidateBuild(j)
    <3>1. End(j)
      BY <2>3 DEF AssignBuild, ConsolidateBuild
    <3>2. QED
      BY <2>2, <3>1
  <2>4. CASE AssignSeat(j)
    <3> DEFINE x == [op |-> "assign", step |-> "build"]
    <3>1. End(j) \/ Begin(j, x)
      BY <2>4 DEF AssignSeat
    <3>2. x.op = "assign" /\ x.step = "build"
      OBVIOUS
    <3> HIDE DEF x
    <3>3. Fits(j, x)'
      BY <3>2 DEF Fits, Hosting
    <3>4. QED
      BY <2>2, <3>1, <3>2, <3>3
  <2>5. CASE ConsolidateMove(j)
    <3>1. j \in Clerks
      <4>1. Fits(j, job[j]) /\ job[j].step = "move" /\ job[j].op = "consolidate"
        BY <2>5 DEF ConsolidateMove, At, DeskInv
      <4>2. QED
        BY <4>1 DEF Fits
    <3> DEFINE x == [op |-> "consolidate", step |-> "build"]
    <3>2. End(j) \/ (Begin(j, x) /\ status = "draft")
      BY <2>5 DEF ConsolidateMove
    <3>3. x.op = "consolidate" /\ x.step = "build"
      OBVIOUS
    <3> HIDE DEF x
    <3>4. ASSUME Begin(j, x), status = "draft"
          PROVE  Fits(j, x)'
      <4>1. round' = -1
        BY <1>1, <3>4 DEF DeskInv, hostVars
      <4>2. QED
        BY <3>1, <3>3, <4>1 DEF Fits, Hosting
    <3>5. QED
      BY <2>2, <3>2, <3>3, <3>4
  <2>6. CASE ConsolidateBegin(j)
    <3>1. PICK to \in [Excess(Fewer) -> 1..Fewer] :
             Begin(j, [op |-> "consolidate", step |-> "move", num |-> Fewer, to |-> to])
      BY <2>6 DEF ConsolidateBegin
    <3>2. j \in Clerks
      BY <2>6 DEF ConsolidateBegin
    <3>3. PICK y : y = [op |-> "consolidate", step |-> "move", num |-> Fewer, to |-> to]
      OBVIOUS
    <3>4. Begin(j, y) /\ y.op = "consolidate" /\ y.step = "move"
      BY <3>1, <3>3
    <3>5. Fits(j, y)'
      BY <3>2, <3>4 DEF Fits, Hosting
    <3>6. QED
      BY <3>4, <3>5
  <2>7. CASE \E u \in Users : AssignBegin(j, u)
    <3>1. PICK u \in Users : AssignBegin(j, u)
      BY <2>7
    <3>2. PICK y : y = [op |-> "assign", step |-> "seat", u |-> u, t |-> num, live |-> status \in Live,
                        seen |-> u \in attended]
      OBVIOUS
    <3>3. Begin(j, y) /\ y.op = "assign" /\ y.step = "seat"
      BY <3>1, <3>2 DEF AssignBegin
    <3>4. Fits(j, y)'
      BY <3>3 DEF Fits, Hosting
    <3>5. QED
      BY <3>3, <3>4
  <2>8. CASE Dissolve(j)
    <3>1. UNCHANGED job /\ job[j].step = "idle"
      BY <2>8 DEF Dissolve, Ready, Idle
    <3>2. PICK y : y = job[j]
      OBVIOUS
    <3>3. Begin(j, y) /\ y.step = "idle"
      BY <3>1, <3>2, SameJob
    <3>4. Fits(j, y)'
      BY <3>3 DEF Fits
    <3>5. QED
      BY <3>3, <3>4
  <2>9. QED
    BY <2>3, <2>4, <2>5, <2>6, <2>7, <2>8 DEF Staff
<1>4. QED
  BY <1>1, <1>2, <1>3, PlainStep

\* Messages that only start, go on with, or end a job.
LEMMA HostTalks ==
  ASSUME FloorInv, NEW j \in Jobs,
         \/ Start(j) \/ Look(j) \/ Build(j) \/ NextBegin(j) \/ StatusRead(j) \/ RotateBegin(j)
         \/ ReselectBegin(j) \/ \E to \in {"active", "paused", "finished"} : StatusBegin(j, to)
         \/ Score(j)
  PROVE  DeskInv'
<1> USE DEF FloorInv
<1>1. UNCHANGED hostVars
  BY DEF Start, Look, Build, NextBegin, StatusRead, RotateBegin, ReselectBegin, StatusBegin,
         Score, ScoreBegin, ScoreWrite
<1>2. attended' = attended
  <2>1. CASE Build(j)
    BY <2>1, FloorSound, BuiltSound DEF Build, SetFloor, floorVars
  <2>2. CASE ~Build(j)
    BY <2>2 DEF Start, Look, NextBegin, StatusRead, RotateBegin, ReselectBegin, StatusBegin,
                Score, ScoreBegin, ScoreWrite, floorVars
  <2>3. QED
    BY <2>1, <2>2
<1>3. Fits(j, job[j])
  BY DEF DeskInv
<1>4. PICK y : Begin(j, y) /\ Fits(j, y)' /\ y.step # "seat"
  <2>1. NoJob.step = "idle" /\ Fits(j, NoJob)'
    BY NothingFits DEF NoJob
  <2>2. ASSUME End(j)
        PROVE  \E y : Begin(j, y) /\ Fits(j, y)' /\ y.step # "seat"
    BY <2>1, <2>2 DEF End, Begin
  <2>3. CASE Start(j)
    <3>1. PICK y : y = [op |-> "start", step |-> "look", from |-> 1]
      OBVIOUS
    <3>2. Begin(j, y) /\ y.op = "start" /\ y.step = "look" /\ status = "draft" /\ j \in Hosts
      BY <2>3, <3>1 DEF Start, Ready
    <3>3. Fits(j, y)'
      BY <1>1, <3>2 DEF Fits, Hosting, hostVars
    <3>4. QED
      BY <3>2, <3>3
  <2>4. CASE Look(j) \/ Build(j)
    <3>1. job[j] \in Turning /\ job[j].step \in {"look", "build"}
      BY <2>4, HostTypes, KindsOfTasks DEF Look, Build
    <3>2. End(j) \/ \E s \in {"build", "save"} : job' = [job EXCEPT ![j].step = s]
      BY <2>4 DEF Look, Build
    <3>3. CASE End(j)
      BY <2>2, <3>3
    <3>4. CASE \E s \in {"build", "save"} : job' = [job EXCEPT ![j].step = s]
      <4>1. PICK s \in {"build", "save"} : job' = [job EXCEPT ![j].step = s]
        BY <3>4
      <4>2. PICK y : y = [job[j] EXCEPT !.step = s]
        OBVIOUS
      <4>3. Begin(j, y)
        BY <4>1, <4>2 DEF Begin, NightInv
      <4>4. y.step = s /\ y.op = job[j].op /\ y.from = job[j].from /\ y.op \in {"start", "rotate"}
        BY <3>1, <4>2 DEF Turning
      <4>5. Fits(j, y)'
        BY <1>1, <1>3, <3>1, <4>4 DEF Fits, Hosting, hostVars
      <4>6. QED
        BY <4>3, <4>4, <4>5
    <3>5. QED
      BY <3>2, <3>3, <3>4
  <2>5. CASE NextBegin(j) \/ RotateBegin(j)
    <3>1. PICK op \in {"next", "rotate"} : Begin(j, [op |-> op, step |-> "advance"])
      BY <2>5 DEF NextBegin, RotateBegin
    <3>2. PICK y : y = [op |-> op, step |-> "advance"]
      OBVIOUS
    <3>3. Begin(j, y) /\ y.op = op /\ y.step = "advance" /\ j \in Hosts
      BY <2>5, <3>1, <3>2 DEF NextBegin, RotateBegin, Ready
    <3>4. Fits(j, y)'
      BY <3>3 DEF Fits
    <3>5. QED
      BY <3>3, <3>4
  <2>6. CASE StatusRead(j)
    <3>1. job[j] \in Setting
      BY <2>6, HostTypes, KindsOfTasks DEF StatusRead, At
    <3>2. End(j) \/ job' = [job EXCEPT ![j].step = "write"]
      BY <2>6 DEF StatusRead
    <3>3. PICK y : y = [job[j] EXCEPT !.step = "write"]
      OBVIOUS
    <3>4. y.step = "write" /\ y.op = "status" /\ job[j].op = "status" /\ job[j].step # "idle"
      BY <3>1, <3>3 DEF Setting
    <3>5. Fits(j, y)'
      BY <1>3, <3>4 DEF Fits, Hosting
    <3>6. End(j) \/ Begin(j, y)
      BY <3>2, <3>3 DEF Begin, NightInv
    <3>7. QED
      BY <2>2, <3>4, <3>5, <3>6
  <2>7. CASE ReselectBegin(j)
    <3>1. PICK y : y = [op |-> "reselect", step |-> "write", to |-> round]
      OBVIOUS
    <3>2. /\ Begin(j, y) /\ y.op = "reselect" /\ y.step = "write" /\ y.to = round
          /\ round # -1 /\ j \in Hosts
      BY <2>7, <3>1 DEF ReselectBegin, Ready
    <3>3. Fits(j, y)'
      BY <1>1, <3>2 DEF Fits, Hosting, hostVars
    <3>4. QED
      BY <3>2, <3>3
  <2>8. CASE \E to \in {"active", "paused", "finished"} : StatusBegin(j, to)
    <3>1. PICK to \in {"active", "paused", "finished"} : StatusBegin(j, to)
      BY <2>8
    <3>2. PICK y : y = [op |-> "status", step |-> "look at", to |-> to]
      OBVIOUS
    <3>3. Begin(j, y) /\ y.op = "status" /\ y.step = "look at" /\ j \in Hosts
      BY <3>1, <3>2 DEF StatusBegin, Ready
    <3>4. Fits(j, y)'
      BY <3>3 DEF Fits
    <3>5. QED
      BY <3>3, <3>4
  <2>9. CASE ScoreWrite(j)
    BY <2>2, <2>9 DEF ScoreWrite
  <2>10. CASE \E t \in Tables, right \in BOOLEAN : ScoreBegin(j, t, right)
    <3>1. PICK t \in Tables, right \in BOOLEAN : ScoreBegin(j, t, right)
      BY <2>10
    <3>2. PICK q : q = <<round, index>>
      OBVIOUS
    <3>3. PICK y : y = [op |-> "score", step |-> "write", q |-> q, t |-> t, right |-> right]
      OBVIOUS
    <3>4. Begin(j, y) /\ j \in Hosts /\ round # -1
      BY <3>1, <3>2, <3>3 DEF ScoreBegin, Ready
    <3>5. y.op = "score" /\ y.step = "write" /\ y.q = q
      BY <3>3
    <3>6. Fits(j, y)'
      BY <1>1, <3>2, <3>4, <3>5 DEF Fits, Hosting, hostVars
    <3>7. QED
      BY <3>4, <3>5, <3>6
  <2>11. QED
    BY <2>3, <2>4, <2>5, <2>6, <2>7, <2>8, <2>9, <2>10 DEF Score
<1>5. QED
  BY <1>1, <1>2, <1>4, PlainStep

\* Messages that write the quiz row.
LEMMA HostDecides ==
  ASSUME FloorInv, \A h, k \in Hosts : h = k, "overtake" \notin Operations, NEW j \in Jobs,
         \/ Save(j) \/ StatusWrite(j) \/ RotateAdvance(j) \/ ReselectWrite(j) \/ NextAdvance(j)
         \/ Reset(j)
  PROVE  DeskInv'
<1> USE DEF FloorInv
<1>1. attended' = attended /\ round \in {-1} \cup Rounds /\ Rounds \subseteq Nat
  BY HostTypes, ZeroFacts
  DEF Save, StatusWrite, RotateAdvance, ReselectWrite, NextAdvance, Reset, floorVars
<1>2. Fits(j, job[j]) /\ (status = "draft" => round = -1)
  BY DEF DeskInv
<1>3. Ready(j) \/ (job[j].step # "idle" /\ job[j].op \in Hosting)
  <2>1. CASE Save(j)
    <3>1. job[j] \in Turning
      BY <2>1, HostTypes, KindsOfTasks DEF Save
    <3>2. QED
      BY <3>1 DEF Turning, Hosting
  <2>2. CASE StatusWrite(j) \/ RotateAdvance(j) \/ ReselectWrite(j) \/ NextAdvance(j)
    BY <2>2 DEF StatusWrite, RotateAdvance, ReselectWrite, NextAdvance, At, Hosting
  <2>3. QED
    BY <2>1, <2>2 DEF Reset
<1>4. j \in Hosts
  BY <1>3, OneAtTheDesk
<1>5. \A k \in Jobs : At(k, "consolidate", "build") => round <= 0 /\ k \in Clerks
  <2>1. \A k \in Jobs : Fits(k, job[k])
    BY DEF DeskInv
  <2>2. QED
    BY <2>1 DEF Fits, At
<1>6. NoJob.step = "idle" /\ Fits(j, NoJob)'
  BY NothingFits DEF NoJob
<1>7. CASE Save(j)
  <2>1. Begin(j, NoJob) /\ ((status' = "active" /\ round' = 0) \/ UNCHANGED hostVars)
    BY <1>7 DEF Save, End, Begin
  <2>2. status' = "draft" => round' = -1
    BY <1>2, <2>1 DEF hostVars
  <2>3. \A k \in Jobs \ {j} : At(k, "consolidate", "build") => round' <= 0
    BY <1>5, <2>1 DEF hostVars
  <2>4. QED
    BY <1>1, <1>3, <1>6, <2>1, <2>2, <2>3, WritingStep
<1>8. CASE StatusWrite(j)
  <2>1. job[j] \in Setting
    BY <1>8, HostTypes, KindsOfTasks DEF StatusWrite, At
  <2>2. Begin(j, NoJob) /\ round' = round /\ status' # "draft"
    BY <1>8, <2>1 DEF StatusWrite, End, Begin, Setting
  <2>3. QED
    BY <1>1, <1>3, <1>5, <1>6, <2>2, WritingStep
<1>9. CASE RotateAdvance(j)
  <2>1. \A k \in Jobs \ {j} : At(k, "consolidate", "build") => round' <= 0
    BY <1>5, <1>9 DEF RotateAdvance, Prompt
  <2>2. status' # "draft"
    BY <1>9 DEF RotateAdvance
  <2>3. PICK y : Begin(j, y) /\ Fits(j, y)' /\ y.step # "seat"
    <3>1. CASE round + 1 \in Rounds
      <4>1. PICK y : y = [op |-> "rotate", step |-> "look", from |-> round + 1]
        OBVIOUS
      <4>2. /\ Begin(j, y) /\ y.op = "rotate" /\ y.step = "look" /\ y.from = round'
            /\ round' # -1
        BY <1>1, <1>9, <3>1, <4>1 DEF RotateAdvance
      <4>3. Fits(j, y)'
        BY <1>4, <4>2 DEF Fits, Hosting
      <4>4. QED
        BY <4>2, <4>3
    <3>2. CASE round + 1 \notin Rounds
      BY <1>6, <1>9, <3>2 DEF RotateAdvance, End, Begin
    <3>3. QED
      BY <3>1, <3>2
  <2>4. QED
    BY <1>1, <1>3, <2>1, <2>2, <2>3, WritingStep
<1>10. CASE ReselectWrite(j)
  <2>1. round' = round /\ status' = status /\ Begin(j, NoJob)
    BY <1>2, <1>10 DEF ReselectWrite, At, Fits, End, Begin
  <2>2. QED
    BY <1>1, <1>2, <1>3, <1>5, <1>6, <2>1, WritingStep
<1>11. CASE NextAdvance(j)
  <2>1. round' = round /\ status' = status
    BY <1>11 DEF NextAdvance
  <2>2. PICK y : Begin(j, y) /\ Fits(j, y)' /\ y.step # "seat"
    <3>1. PICK y : y = [op |-> "status", step |-> "look at", to |-> "finished"]
      OBVIOUS
    <3>2. (Begin(j, y) \/ Begin(j, NoJob)) /\ y.op = "status" /\ y.step = "look at"
      BY <1>11, <3>1 DEF NextAdvance, End, Begin
    <3>3. Fits(j, y)'
      BY <1>4, <3>2 DEF Fits
    <3>4. QED
      BY <1>6, <3>2, <3>3
  <2>3. QED
    BY <1>1, <1>2, <1>3, <1>5, <2>1, <2>2, WritingStep
<1>12. CASE Reset(j)
  <2>1. UNCHANGED job /\ job[j].step = "idle" /\ round' = -1
    BY <1>12 DEF Reset, Ready, Idle
  <2>2. PICK y : y = job[j]
    OBVIOUS
  <2>3. Begin(j, y) /\ y.step = "idle"
    BY <2>1, <2>2, SameJob
  <2>4. Fits(j, y)' /\ round' <= 0
    BY <2>1, <2>3 DEF Fits
  <2>5. QED
    BY <1>1, <1>3, <2>1, <2>3, <2>4, WritingStep
<1>13. QED
  BY <1>7, <1>8, <1>9, <1>10, <1>11, <1>12

-----------------------------------------------------------------------------
(* Steps of the floor *)

\* The steps that leave chairs and rows alone.
Still(j) ==
    \/ \E u \in Users : CheckInBegin(j, u) \/ AssignBegin(j, u)
    \/ ConsolidateBegin(j) \/ Start(j) \/ Look(j) \/ Save(j) \/ NextBegin(j) \/ NextAdvance(j)
    \/ StatusRead(j) \/ StatusWrite(j) \/ RotateBegin(j) \/ RotateAdvance(j)
    \/ ReselectBegin(j) \/ ReselectWrite(j) \/ Reset(j)
    \/ (\E to \in {"active", "paused", "finished"} : StatusBegin(j, to)) \/ Score(j)

LEMMA StillKeeps ==
  ASSUME NEW j, Still(j)
  PROVE  UNCHANGED floorVars
  BY DEF Still, CheckInBegin, AssignBegin, ConsolidateBegin, Start, Look, Save, NextBegin,
         NextAdvance, StatusRead, StatusWrite, RotateBegin, RotateAdvance, ReselectBegin,
         ReselectWrite, Reset, StatusBegin, Score, ScoreBegin, ScoreWrite

LEMMA KindsOfSteps ==
  ASSUME Next
  PROVE  \E j \in Jobs :
           \/ Still(j) \/ CheckInSeat(j) \/ (\E u \in Users : Undo(j, u)) \/ AssignSeat(j)
           \/ AssignBuild(j) \/ Dissolve(j) \/ ConsolidateMove(j) \/ ConsolidateBuild(j) \/ Build(j)
  BY DEF Next, Door, Staff, Host, Still

LEMMA NothingKeeps ==
  ASSUME FloorInv, UNCHANGED floorVars, NEW k
  PROVE  Keeping(k) /\ WellSeated(Floor)'
<1>1. num \in Nat
  BY HostTypes, ZeroFacts DEF FloorInv
<1>2. WellSeated(Floor)
  BY DEF FloorInv
<1>3. Keeping(k)
  BY <1>1 DEF Keeping, floorVars
<1>4. WellSeated(Floor)'
  BY <1>2 DEF floorVars, WellSeated, Floor
<1>5. QED
  BY <1>3, <1>4

\* The rebuilds of a consolidation, a start and a rotation.
LEMMA ConsolidateBuildKeeps ==
  ASSUME FloorInv, NEW j \in Jobs, ConsolidateBuild(j)
  PROVE  Keeping(0) /\ WellSeated(Floor)' /\ round <= 0
<1>1. round <= 0
  <2>1. Fits(j, job[j]) /\ job[j].step = "build" /\ job[j].op = "consolidate"
    BY DEF ConsolidateBuild, At, FloorInv, DeskInv
  <2>2. QED
    BY <2>1 DEF Fits
<1>2. CASE CanBuild(Floor)
  <2>1. SetFloor(Built(Floor, 1))
    BY <1>2 DEF ConsolidateBuild
  <2>2. Keeping(1 - 1) /\ WellSeated(Floor)'
    BY <1>2, <2>1, RebuildKeeps
  <2>3. QED
    BY <1>1, <2>2
<1>3. CASE ~CanBuild(Floor)
  <2>1. UNCHANGED floorVars
    BY <1>3, FloorSound DEF ConsolidateBuild, SetFloor, floorVars, FloorInv
  <2>2. QED
    BY <1>1, <2>1, NothingKeeps
<1>4. QED
  BY <1>2, <1>3

LEMMA BuildKeeps ==
  ASSUME FloorInv, NEW j \in Jobs, Build(j)
  PROVE  /\ WellSeated(Floor)'
         /\ (job[j].op = "start" /\ status = "draft") \/ (job[j].op = "rotate" /\ Keeping(round - 1))
<1> USE DEF FloorInv
<1>1. job[j] \in Turning /\ job[j].step = "build" /\ Fits(j, job[j])
  BY HostTypes, KindsOfTasks DEF Build, DeskInv
<1>2. /\ job[j].op = "start" \/ job[j].op = "rotate"
      /\ job[j].op = "start" => status = "draft"
      /\ job[j].op = "rotate" => job[j].from = round
  BY <1>1 DEF Turning, Fits
<1>3. PICK from \in Int : from = job[j].from
  <2>1. Rounds \subseteq Int
    BY QuizAssumption DEF Rounds
  <2>2. job[j].from \in {1} \cup Rounds
    BY <1>1 DEF Turning
  <2>3. job[j].from \in Int
    BY <2>1, <2>2
  <2>4. QED
    BY <2>3
<1>4. CASE CanBuild(Floor)
  <2>1. SetFloor(Built(Floor, from))
    BY <1>3, <1>4 DEF Build
  <2>2. Keeping(from - 1) /\ WellSeated(Floor)'
    BY <1>4, <2>1, RebuildKeeps
  <2>3. QED
    BY <1>2, <1>3, <2>2
<1>5. CASE ~CanBuild(Floor)
  <2>1. UNCHANGED floorVars
    BY <1>5 DEF Build
  <2>2. QED
    BY <1>2, <2>1, NothingKeeps
<1>6. QED
  BY <1>4, <1>5

LEMMA FloorStarts ==
  ASSUME Init
  PROVE  FloorInv
<1>1. NightInv
  BY NightStarts
<1>2. WellSeated(Floor)
  BY DEF Init, WellSeated, Floor
<1>3. DeskInv
  <2>1. \A j \in Jobs : job[j] = NoJob /\ job[j].step = "idle"
    BY DEF Init, NoJob
  <2>2. \A j \in Jobs : Fits(j, job[j])
    BY <2>1, NothingFits
  <2>3. QED
    BY <2>1, <2>2 DEF Init, DeskInv, At
<1>4. QED
  BY <1>1, <1>2, <1>3 DEF FloorInv

LEMMA FloorSteps ==
  ASSUME FloorInv, \A h, k \in Hosts : h = k, "overtake" \notin Operations, [Next]_vars
  PROVE  FloorInv'
<1>1. NightInv'
  BY NightSteps DEF FloorInv
<1>2. CASE Next
  <2>1. WellSeated(Floor)'
    <3>1. PICK j \in Jobs :
           \/ Still(j) \/ CheckInSeat(j) \/ (\E u \in Users : Undo(j, u)) \/ AssignSeat(j)
           \/ AssignBuild(j) \/ Dissolve(j) \/ ConsolidateMove(j) \/ ConsolidateBuild(j) \/ Build(j)
      BY <1>2, KindsOfSteps
    <3>2. QED
      BY <3>1, StillKeeps, NothingKeeps, CheckInKeeps, UndoKeeps, AssignSeatKeeps, AssignBuildKeeps,
         DissolveKeeps, ConsolidateMoveKeeps, ConsolidateBuildKeeps, BuildKeeps
  <2>2. DeskInv'
    <3>1. PICK j \in Jobs : Door(j) \/ Staff(j) \/ Host(j) \/ Score(j)
      BY <1>2 DEF Next
    <3>2. CASE Host(j)
      BY <3>2, HostTalks, HostDecides DEF Host
    <3>3. CASE Door(j) \/ Staff(j) \/ Score(j)
      BY <3>3, DoorDesk, StaffDesk, HostTalks
    <3>4. QED
      BY <3>1, <3>2, <3>3
  <2>3. QED
    BY <1>1, <2>1, <2>2 DEF FloorInv
<1>3. CASE UNCHANGED vars
  <2>1. WellSeated(Floor)'
    BY <1>3, NothingKeeps DEF vars, floorVars
  <2>2. DeskInv'
    <3>1. DeskInv /\ UNCHANGED <<status, round, index, attended, job>>
      BY <1>3 DEF FloorInv, vars, hostVars, floorVars
    <3>2. QED
      BY <3>1 DEF DeskInv, Fits, At
  <2>3. QED
    BY <1>1, <2>1, <2>2 DEF FloorInv
<1>4. QED
  BY <1>2, <1>3

\* With one host connection, where no rotation overtakes the rebuild of a
\* consolidation, chairs and rows name tables that exist, and what the
\* host or a clerk remembers of the round, the question and the member still fits
\* when it writes, whatever the door and the staff do meanwhile.
THEOREM FloorInvariant ==
  ASSUME \A h, k \in Hosts : h = k, "overtake" \notin Operations
  PROVE  Spec => []FloorInv
<1>1. Init => FloorInv
  BY FloorStarts
<1>2. FloorInv /\ [Next]_vars => FloorInv'
  BY FloorSteps
<1>3. QED
  BY <1>1, <1>2, PTL DEF Spec

-----------------------------------------------------------------------------
(* Nobody moves in mid-round *)

LEMMA SeatsStay ==
  ASSUME FloorInv, \A h, k \in Hosts : h = k, Next, NEW u \in attended \cap attended',
         status \in Live, round # -1, seat[round][u] \in 1..num', round = 0 => chair[u] # 0,
         \A k \in Hosts : ~At(k, "rotate", "build")
  PROVE  seat'[round][u] = seat[round][u]
<1> USE DEF FloorInv
<1>1. round \in Rounds /\ Rounds \subseteq Nat /\ u \in Users /\ 0 \in Rounds
  BY HostTypes, ZeroFacts DEF NightInv, TypeOK
<1>2. RoundNumber = round /\ round \in Int /\ round <= round
  <2>1. round \in Int
    BY <1>1, QuizAssumption DEF Rounds
  <2>2. QED
    BY <2>1 DEF RoundNumber
<1>3. ASSUME Keeping(round)
      PROVE  seat'[round][u] = seat[round][u]
  BY <1>1, <1>2, <1>3 DEF Keeping
<1>4. status # "draft"
  BY DEF Live
<1>5. PICK j \in Jobs :
         \/ Still(j) \/ CheckInSeat(j) \/ (\E v \in Users : Undo(j, v)) \/ AssignSeat(j)
         \/ AssignBuild(j) \/ Dissolve(j) \/ ConsolidateMove(j) \/ ConsolidateBuild(j) \/ Build(j)
  BY KindsOfSteps
<1>6. CASE CheckInSeat(j) \/ (\E v \in Users : Undo(j, v)) \/ AssignBuild(j) \/ Dissolve(j)
  BY <1>2, <1>3, <1>6, CheckInKeeps, UndoKeeps, AssignBuildKeeps, DissolveKeeps
<1>7. CASE Still(j)
  BY <1>7, StillKeeps DEF floorVars
<1>8. CASE AssignSeat(j)
  <2>1. CASE UNCHANGED floorVars
    BY <2>1 DEF floorVars
  <2>2. CASE \E v \in attended, t \in 1..num :
               /\ chair[v] = 0
               /\ \A w \in Users, r \in Rounds :
                    seat'[r][w] = IF r = 0 /\ w = v THEN t ELSE seat[r][w]
    BY <1>1, <2>2
  <2>3. QED
    BY <1>8, <2>1, <2>2, AssignSeatKeeps
<1>9. CASE ConsolidateMove(j)
  BY <1>4, <1>9, ConsolidateMoveKeeps DEF floorVars
<1>10. CASE ConsolidateBuild(j)
  <2>1. Keeping(0) /\ round = 0
    BY <1>1, <1>10, ConsolidateBuildKeeps, QuizAssumption DEF Rounds
  <2>2. QED
    BY <1>3, <2>1
<1>11. CASE Build(j)
  <2>1. job[j].op = "rotate" /\ job[j].step = "build"
    BY <1>4, <1>11, BuildKeeps DEF Build
  <2>2. j \in Hosts
    <3>1. Fits(j, job[j])
      BY DEF DeskInv
    <3>2. QED
      BY <2>1, <3>1 DEF Fits, Hosting
  <2>3. QED
    BY <2>1, <2>2 DEF At
<1>12. QED
  BY <1>5, <1>6, <1>7, <1>8, <1>9, <1>10, <1>11

\* With one host connection, where no rotation overtakes the rebuild of a
\* consolidation, nobody who sits at one of the quiz's tables is moved in
\* the middle of a round, however late arrivals, undos, dissolved tables and
\* members placed by hand interleave with the rounds.
THEOREM RoundsAreLeftAlone ==
  ASSUME \A h, k \in Hosts : h = k, "overtake" \notin Operations
  PROVE  Spec => NobodyMovesMidRound
<1>1. FloorInv /\ [Next]_vars =>
        [\A u \in attended \cap attended' :
          (/\ status \in Live /\ status' \in Live /\ round' = round /\ round # -1
           /\ seat[round][u] \in 1..num' /\ (round = 0 => chair[u] # 0)
           /\ \A k \in Hosts : ~At(k, "rotate", "build"))
          => seat'[round][u] = seat[round][u]]_vars
  BY SeatsStay
<1>2. Spec => []FloorInv
  BY FloorInvariant
<1>3. QED
  BY <1>1, <1>2, PTL DEF Spec, NobodyMovesMidRound

-----------------------------------------------------------------------------
(* The leaderboards *)

Rotating(j) == job[j].step \in {"look", "build"} /\ job[j].op = "rotate"

\* Points are for rounds begun, of members who still sit where they were scored.
ScoreInv ==
    /\ round = -1 => marks = {} /\ credits = {}
    /\ \A m, n \in marks : m[1] = n[1] /\ m[2] = n[2] => m = n
    /\ \A c \in credits : \E m \in marks : m[1] = c[2] /\ m[2] = c[3]
    /\ \A c \in credits :
        /\ c[2][1] <= round
        /\ c[2][1] = round => \A j \in Jobs : ~Rotating(j)
        /\ c[2][1] >= 1 /\ c[3] <= num => c[1] \in Team(c[2], c[3])
        /\ c[2][1] = 0 /\ round = 0 /\ c[3] <= num =>
              \/ seat[0][c[1]] = c[3] \/ chair[c[1]] = c[3]
              \/ chair[c[1]] = seat[0][c[1]] /\ chair[c[1]] \in 1..num

ScoresOK == ScoreInv /\ CreditsAgree

LEMMA CreditTypes ==
  ASSUME NightInv
  PROVE  /\ \A c \in credits : /\ c[1] \in attended /\ c[1] \in Users /\ c[2] \in Asked
                               /\ c[2][1] \in Rounds /\ c[2][1] \in Nat /\ c[3] \in Tables
                               /\ c[3] \in Nat /\ c[3] # 0
         /\ \A m \in marks : m[1] \in Asked /\ m[2] \in Tables /\ m = <<m[1], m[2], m[3]>>
<1>1. credits \subseteq Users \X Asked \X Tables \X BOOLEAN
  BY DEF NightInv, TypeOK
<1>2. marks \subseteq Asked \X Tables \X BOOLEAN
  BY DEF NightInv, TypeOK
<1>3. \A c \in credits : c[1] \in Users /\ c[2] \in Asked /\ c[3] \in Tables
  BY <1>1
<1>4. \A c \in credits : c[1] \in attended
  BY <1>3 DEF NightInv, OnlyPresentSeated
<1>5. \A q \in Asked : q[1] \in Rounds /\ q[1] \in Nat
  BY QuizAssumption DEF Asked, Rounds
<1>6. \A t \in Tables : t \in Nat /\ t # 0
  BY QuizAssumption DEF Tables
<1>7. \A m \in marks : m[1] \in Asked /\ m[2] \in Tables /\ m = <<m[1], m[2], m[3]>>
  BY <1>2
<1>8. QED
  BY <1>3, <1>4, <1>5, <1>6, <1>7

LEMMA NoScores ==
  ASSUME marks' = {}, credits' = {}
  PROVE  ScoresOK'
<1>1. ScoreInv'
  BY DEF ScoreInv
<1>2. CreditsAgree'
  BY DEF CreditsAgree
<1>3. QED
  BY <1>1, <1>2 DEF ScoresOK

\* A step that keeps the rows of every round with points.
LEMMA KeepingScores ==
  ASSUME NightInv, NightInv', ScoresOK, NEW k \in Int, Keeping(k), UNCHANGED <<round, marks>>,
         credits' \subseteq credits, \A c \in credits' : c[2][1] <= k,
         \A j \in Jobs : Rotating(j)' => Rotating(j)
  PROVE  ScoresOK'
<1>1. num \in Nat /\ num' \in Nat /\ num' <= num /\ 0 \in Rounds
  BY ZeroFacts DEF NightInv, TypeOK, Keeping
<1>2. \A c \in credits' : /\ c \in credits /\ c[1] \in attended \cap attended' /\ c[1] \in Users
                          /\ c[2] \in Asked /\ c[2][1] \in Rounds /\ c[2][1] \in Nat
                          /\ c[3] \in Nat /\ c[3] # 0
  <2>1. \A c \in credits : /\ c[1] \in attended /\ c[1] \in Users
                           /\ c[2] \in Asked /\ c[2][1] \in Rounds /\ c[2][1] \in Nat
                           /\ c[3] \in Nat /\ c[3] # 0
    BY CreditTypes
  <2>2. \A c \in credits' : c[1] \in Users => c[1] \in attended'
    BY DEF NightInv, OnlyPresentSeated
  <2>3. QED
    BY <2>1, <2>2
<1>3. \A c \in credits' : c[3] <= num' => c[3] \in 1..num' /\ c[3] \in 1..num /\ c[3] <= num
  BY <1>1, <1>2
<1>4. ASSUME NEW c \in credits', c[2][1] >= 1, c[3] <= num'
      PROVE  c[1] \in Team(c[2], c[3])'
  <2>1. PICK u \in Users, r \in Rounds, t \in Nat : u = c[1] /\ r = c[2][1] /\ t = c[3]
    BY <1>2
  <2>2. /\ r <= k /\ r # 0 /\ r >= 1 /\ t \in 1..num' /\ t # 0
        /\ u \in attended \cap attended' /\ u \in Team(c[2], t)
    BY <1>2, <1>3, <1>4, <2>1 DEF ScoresOK, ScoreInv
  <2>3. CASE Exists(r)
    <3>1. seat[r][u] = t
      BY <2>1, <2>2, <2>3 DEF Team
    <3>2. seat'[r][u] = t
      BY <2>1, <2>2, <3>1 DEF Keeping
    <3>3. Exists(r)'
      BY <2>1, <2>2, <3>2 DEF Exists
    <3>4. QED
      BY <2>1, <3>2, <3>3 DEF Team
  <2>4. CASE ~Exists(r)
    <3>1. chair[u] = t
      BY <2>1, <2>2, <2>4 DEF Team
    <3>2. chair'[u] = t
      BY <2>2, <3>1 DEF Keeping
    <3>3. \A v \in Users : seat'[r][v] = 0
      BY <2>1, <2>2, <2>4 DEF Keeping, Exists
    <3>4. ~Exists(r)'
      BY <3>3 DEF Exists
    <3>5. QED
      BY <2>1, <3>2, <3>4 DEF Team
  <2>5. QED
    BY <2>3, <2>4
<1>5. ASSUME NEW c \in credits', c[2][1] = 0, round = 0, c[3] <= num'
      PROVE  \/ seat'[0][c[1]] = c[3] \/ chair'[c[1]] = c[3]
             \/ chair'[c[1]] = seat'[0][c[1]] /\ chair'[c[1]] \in 1..num'
  <2>1. PICK u \in Users, t \in Nat : u = c[1] /\ t = c[3]
    BY <1>2
  <2>2. /\ \/ seat[0][u] = t \/ chair[u] = t
           \/ chair[u] = seat[0][u] /\ chair[u] \in 1..num
        /\ u \in attended \cap attended' /\ t \in 1..num' /\ 0 <= k
    BY <1>2, <1>3, <1>5, <2>1 DEF ScoresOK, ScoreInv
  <2>3. chair[u] = seat[0][u] /\ chair[u] \in 1..num => chair[u] \in 1..num' /\ seat[0][u] \in 1..num'
    <3>1. RoundNumber = 0
      BY <1>5 DEF RoundNumber
    <3>2. QED
      BY <3>1 DEF Keeping
  <2>4. /\ seat[0][u] \in 1..num' => seat'[0][u] = seat[0][u]
        /\ chair[u] \in 1..num' => chair'[u] = chair[u]
    BY <1>1, <2>2 DEF Keeping
  <2>5. QED
    BY <2>1, <2>2, <2>3, <2>4
<1>6. ASSUME NEW c \in credits', NEW m \in marks', c[2] = m[1], c[3] = m[2], c[3] <= num',
             c[2][1] = 0 => round' = 0 /\ seat'[0][c[1]] = c[3]
      PROVE  c[4] = m[3]
  <2>1. c \in credits /\ m \in marks /\ c[3] <= num
    BY <1>2, <1>3, <1>6
  <2>2. ASSUME c[2][1] = 0
        PROVE  round = 0 /\ seat[0][c[1]] = c[3]
    <3>1. round = 0 /\ seat'[0][c[1]] = c[3] /\ c[3] # 0 /\ 0 <= k
      BY <1>2, <1>6, <2>2
    <3>2. seat'[0][c[1]] \in {0, seat[0][c[1]]}
      BY <1>1, <1>2, <3>1 DEF Keeping
    <3>3. QED
      BY <3>1, <3>2
  <2>3. QED
    BY <1>6, <2>1, <2>2 DEF ScoresOK, CreditsAgree
<1>7. CreditsAgree'
  BY <1>6 DEF CreditsAgree
<1>8. \A c \in credits' : c[2][1] = round' => \A j \in Jobs : ~Rotating(j)'
  BY <1>2 DEF ScoresOK, ScoreInv
<1>9. ScoreInv'
  <2>1. /\ round' = -1 => marks' = {} /\ credits' = {}
        /\ \A m, n \in marks' : m[1] = n[1] /\ m[2] = n[2] => m = n
        /\ \A c \in credits' : \E m \in marks' : m[1] = c[2] /\ m[2] = c[3]
        /\ \A c \in credits' : c[2][1] <= round'
    BY <1>2 DEF ScoresOK, ScoreInv
  <2>2. QED
    BY <1>4, <1>5, <1>8, <2>1 DEF ScoreInv
<1>10. QED
  BY <1>7, <1>9 DEF ScoresOK

\* A step that leaves rows and points, and the round, alone.
LEMMA SameScores ==
  ASSUME FloorInv, NightInv', ScoresOK, UNCHANGED <<floorVars, scoreVars, round>>,
         \A j \in Jobs : Rotating(j)' => Rotating(j)
  PROVE  ScoresOK'
<1>1. round \in Int
  BY QuizAssumption DEF Rounds, FloorInv, NightInv, TypeOK
<1>2. Keeping(round)
  BY NothingKeeps
<1>3. \A c \in credits' : c[2][1] <= round
  BY DEF scoreVars, ScoresOK, ScoreInv
<1>4. QED
  BY <1>1, <1>2, <1>3, KeepingScores DEF scoreVars, FloorInv

\* A placement by hand: who gets a chair had none.
LEMMA AssignScores ==
  ASSUME FloorInv, NightInv', ScoresOK, NEW j \in Jobs, AssignSeat(j)
  PROVE  ScoresOK'
<1> USE DEF FloorInv
<1>1. UNCHANGED <<round, marks, credits>> /\ \A k \in Jobs : Rotating(k)' => Rotating(k)
  <2>1. UNCHANGED <<hostVars, scoreVars>>
    BY DEF AssignSeat
  <2>2. job \in [Jobs -> Task]
    BY DEF NightInv
  <2>3. PICK x : job' = [job EXCEPT ![j] = x] /\ ~(x.step \in {"look", "build"} /\ x.op = "rotate")
    <3> DEFINE y == [op |-> "assign", step |-> "build"]
    <3>1. Begin(j, y) \/ Begin(j, NoJob)
      BY DEF AssignSeat, End, Begin
    <3>2. y.op = "assign" /\ NoJob.step = "idle"
      BY DEF NoJob
    <3> HIDE DEF y
    <3>3. QED
      BY <3>1, <3>2 DEF Begin
  <2>4. QED
    BY <2>1, <2>2, <2>3 DEF Rotating, hostVars, scoreVars
<1>2. num' = num /\ attended' = attended
  BY AssignSeatKeeps
<1>3. CASE UNCHANGED floorVars
  BY <1>1, <1>3, SameScores DEF scoreVars
<1>4. CASE \E u \in attended, t \in 1..num :
             /\ chair[u] = 0
             /\ \A v \in Users : chair'[v] = IF v = u THEN t ELSE chair[v]
             /\ \A v \in Users, r \in Rounds :
                  seat'[r][v] = IF r = 0 /\ v = u THEN t ELSE seat[r][v]
  <2>1. PICK u \in attended, t \in 1..num :
             /\ chair[u] = 0
             /\ \A v \in Users : chair'[v] = IF v = u THEN t ELSE chair[v]
             /\ \A v \in Users, r \in Rounds :
                  seat'[r][v] = IF r = 0 /\ v = u THEN t ELSE seat[r][v]
    BY <1>4
  <2>2. 0 \in Rounds /\ num \in Nat
    BY HostTypes, ZeroFacts
  <2>3. ASSUME NEW c \in credits, c[2][1] >= 1, c[3] <= num
        PROVE  c[1] \in Team(c[2], c[3])'
    <3>1. PICK v \in Users, r \in Rounds, s \in Nat : v = c[1] /\ r = c[2][1] /\ s = c[3] /\ s # 0
      BY CreditTypes
    <3>2. v \in Team(c[2], s) /\ r # 0
      BY <2>3, <3>1 DEF ScoresOK, ScoreInv
    <3>3. \A w \in Users : seat'[r][w] = seat[r][w]
      BY <2>1, <3>2
    <3>4. Exists(r)' <=> Exists(r)
      BY <3>3 DEF Exists
    <3>5. CASE Exists(r)
      <4>1. seat[r][v] = s
        BY <3>1, <3>2, <3>5 DEF Team
      <4>2. QED
        BY <3>1, <3>3, <3>4, <3>5, <4>1 DEF Team
    <3>6. CASE ~Exists(r)
      <4>1. chair[v] = s
        BY <3>1, <3>2, <3>6 DEF Team
      <4>2. chair'[v] = s
        BY <2>1, <3>1, <4>1
      <4>3. QED
        BY <3>1, <3>4, <3>6, <4>2 DEF Team
    <3>7. QED
      BY <3>5, <3>6
  <2>4. ASSUME NEW c \in credits, c[2][1] = 0, round = 0, c[3] <= num
        PROVE  /\ seat'[0][c[1]] = c[3] => seat[0][c[1]] = c[3]
               /\ \/ seat'[0][c[1]] = c[3] \/ chair'[c[1]] = c[3]
                  \/ chair'[c[1]] = seat'[0][c[1]] /\ chair'[c[1]] \in 1..num'
    <3>1. PICK v \in Users, s \in Nat : v = c[1] /\ s = c[3] /\ s # 0
      BY CreditTypes
    <3>2. \/ seat[0][v] = s \/ chair[v] = s
          \/ chair[v] = seat[0][v] /\ chair[v] \in 1..num
      BY <2>4, <3>1 DEF ScoresOK, ScoreInv
    <3>3. CASE v = u
      <4>1. seat[0][v] = s
        BY <2>1, <2>2, <3>1, <3>2, <3>3
      <4>2. chair'[v] = t /\ seat'[0][v] = t
        BY <2>1, <2>2, <3>3
      <4>3. QED
        BY <1>2, <3>1, <4>1, <4>2
    <3>4. CASE v # u
      <4>1. chair'[v] = chair[v] /\ seat'[0][v] = seat[0][v]
        BY <2>1, <2>2, <3>4
      <4>2. QED
        BY <1>2, <3>1, <3>2, <4>1
    <3>5. QED
      BY <3>3, <3>4
  <2>5. CreditsAgree'
    <3> SUFFICES ASSUME NEW c \in credits, NEW m \in marks, c[2] = m[1], c[3] = m[2], c[3] <= num,
                        c[2][1] = 0 => round = 0 /\ seat'[0][c[1]] = c[3]
                 PROVE  c[4] = m[3]
      BY <1>1, <1>2 DEF CreditsAgree
    <3>1. c[2][1] = 0 => round = 0 /\ seat[0][c[1]] = c[3]
      BY <2>4
    <3>2. QED
      BY <3>1 DEF ScoresOK, CreditsAgree
  <2>6. ScoreInv'
    <3>1. /\ round' = -1 => marks' = {} /\ credits' = {}
          /\ \A m, n \in marks' : m[1] = n[1] /\ m[2] = n[2] => m = n
          /\ \A c \in credits' : \E m \in marks' : m[1] = c[2] /\ m[2] = c[3]
          /\ \A c \in credits' : c[2][1] <= round'
          /\ \A c \in credits' : c[2][1] = round' => \A k \in Jobs : ~Rotating(k)'
      BY <1>1 DEF ScoresOK, ScoreInv
    <3>2. \A c \in credits' : c[2][1] >= 1 /\ c[3] <= num' => c[1] \in Team(c[2], c[3])'
      BY <1>1, <1>2, <2>3
    <3>3. \A c \in credits' : c[2][1] = 0 /\ round' = 0 /\ c[3] <= num' =>
              \/ seat'[0][c[1]] = c[3] \/ chair'[c[1]] = c[3]
              \/ chair'[c[1]] = seat'[0][c[1]] /\ chair'[c[1]] \in 1..num'
      BY <1>1, <1>2, <2>4
    <3>4. QED
      BY <3>1, <3>2, <3>3 DEF ScoreInv
  <2>7. QED
    BY <2>5, <2>6 DEF ScoresOK
<1>5. QED
  BY <1>3, <1>4, AssignSeatKeeps

\* A step with no points yet, or none from now on.
LEMMA DraftScores ==
  ASSUME FloorInv, ScoresOK, status = "draft" \/ round = -1, marks' \subseteq marks,
         credits' \subseteq credits
  PROVE  ScoresOK'
<1>1. round = -1
  BY DEF FloorInv, DeskInv
<1>2. marks = {} /\ credits = {}
  BY <1>1 DEF ScoresOK, ScoreInv
<1>3. QED
  BY <1>2, NoScores

LEMMA RotateScores ==
  ASSUME FloorInv, ScoresOK, NEW j \in Jobs, RotateAdvance(j)
  PROVE  ScoresOK'
<1> USE DEF FloorInv
<1>1. UNCHANGED <<floorVars, scoreVars>> /\ job \in [Jobs -> Task]
  BY DEF RotateAdvance, NightInv
<1>2. round \in {-1} \cup Rounds /\ Rounds \subseteq Int
  BY HostTypes, QuizAssumption DEF Rounds
<1>3. CASE round = -1
  BY <1>1, <1>3, DraftScores DEF scoreVars
<1>4. CASE round + 1 \in Rounds /\ round # -1
  <2>1. round' = round + 1
    BY <1>4 DEF RotateAdvance
  <2>2. \A c \in credits : c[2][1] <= round /\ c[2][1] \in Int
    <3>1. \A c \in credits : c[2][1] \in Rounds
      BY CreditTypes
    <3>2. QED
      BY <1>2, <3>1 DEF ScoresOK, ScoreInv
  <2>3. round' # 0 /\ round' # -1 /\ \A c \in credits : c[2][1] <= round' /\ c[2][1] # round'
    BY <1>2, <1>4, <2>1, <2>2, QuizAssumption DEF Rounds
  <2>4. \A q \in Asked, t \in Tables : Team(q, t)' = Team(q, t)
    BY <1>1 DEF Team, Exists, floorVars
  <2>5. ScoreInv'
    <3>1. /\ round' = -1 => marks' = {} /\ credits' = {}
          /\ \A m, n \in marks' : m[1] = n[1] /\ m[2] = n[2] => m = n
          /\ \A c \in credits' : \E m \in marks' : m[1] = c[2] /\ m[2] = c[3]
      BY <1>1, <2>3 DEF scoreVars, ScoresOK, ScoreInv
    <3>2. ASSUME NEW c \in credits
          PROVE  c[2][1] >= 1 /\ c[3] <= num' => c[1] \in Team(c[2], c[3])'
      <4>1. PICK q \in Asked, t \in Tables : q = c[2] /\ t = c[3]
        BY CreditTypes
      <4>2. c[2][1] >= 1 /\ t <= num => c[1] \in Team(q, t)
        BY <4>1 DEF ScoresOK, ScoreInv
      <4>3. Team(q, t)' = Team(q, t) /\ num' = num
        BY <1>1, <2>4 DEF floorVars
      <4>4. Team(c[2], c[3])' = Team(q, t)'
        BY <4>1 DEF Team, Exists
      <4>5. QED
        BY <4>1, <4>2, <4>3, <4>4
    <3>3. credits' = credits
      BY <1>1 DEF scoreVars
    <3>4. QED
      BY <2>3, <3>1, <3>2, <3>3 DEF ScoreInv
  <2>6. CreditsAgree'
    BY <1>1, <2>3 DEF CreditsAgree, ScoresOK, floorVars, scoreVars
  <2>7. QED
    BY <2>5, <2>6 DEF ScoresOK
<1>5. CASE round + 1 \notin Rounds
  <2>1. round' = round /\ End(j)
    BY <1>5 DEF RotateAdvance
  <2>2. NightInv'
    BY HostWrites
  <2>3. \A k \in Jobs : Rotating(k)' => Rotating(k)
    <3>1. NoJob.step = "idle"
      BY DEF NoJob
    <3>2. QED
      BY <1>1, <2>1, <3>1 DEF Rotating, End
  <2>4. QED
    BY <1>1, <2>1, <2>2, <2>3, SameScores
<1>6. QED
  BY <1>3, <1>4, <1>5

\* A score, first or corrected, credits everybody who sits at the table.
LEMMA ScoreScores ==
  ASSUME FloorInv, \A h, k \in Hosts : h = k, ScoresOK, NEW j \in Jobs, ScoreWrite(j)
  PROVE  ScoresOK'
<1> USE DEF FloorInv
<1>1. UNCHANGED <<hostVars, floorVars>> /\ End(j) /\ job \in [Jobs -> Task]
  BY DEF ScoreWrite, NightInv
<1>2. job[j].step = "write" /\ job[j].op = "score" /\ job[j] \in Scoring
  BY HostTypes, KindsOfTasks DEF ScoreWrite, At
<1>3. PICK q \in Asked, t \in Tables, right \in BOOLEAN :
         q = job[j].q /\ t = job[j].t /\ right = job[j].right
  BY <1>2 DEF Scoring
<1>4. q[1] = round /\ round # -1 /\ round \in Rounds
  <2>1. Fits(j, job[j])
    BY DEF DeskInv
  <2>2. q = <<round, index>> /\ round # -1
    BY <1>2, <1>3, <2>1 DEF Fits
  <2>3. QED
    BY <2>2, HostTypes
<1>5. \A k \in Jobs : ~Rotating(k)'
  <2>1. \A k \in Jobs \ {j} : job[k].step = "idle" \/ job[k].op \notin Hosting
    BY <1>2, OneAtTheDesk DEF Hosting
  <2>2. NoJob.step = "idle"
    BY DEF NoJob
  <2>3. QED
    BY <1>1, <2>1, <2>2 DEF Rotating, End, Hosting
<1>6. /\ \A c \in credits : /\ c[1] \in attended /\ c[1] \in Users /\ c[2] \in Asked
                            /\ c[2][1] \in Nat /\ c[3] \in Tables
      /\ \A m \in marks : m = <<m[1], m[2], m[3]>>
  BY CreditTypes
<1>7. \A s \in Tables : Team(q, s)' = Team(q, s)
  BY <1>1 DEF Team, Exists, floorVars
<1>8. CASE UNCHANGED scoreVars
  <2>1. NightInv'
    BY ScoreWrites
  <2>2. \A k \in Jobs : Rotating(k)' => Rotating(k)
    BY <1>5
  <2>3. QED
    BY <1>1, <1>8, <2>1, <2>2, SameScores DEF hostVars
<1>9. CASE ~UNCHANGED scoreVars
  \* The new score replaces the one of this table, in the points of its team too.
  <2>1. /\ <<q, t, right>> \in marks'
        /\ \A m \in marks' : m = <<q, t, right>> \/ (m \in marks /\ ~(m[1] = q /\ m[2] = t))
        /\ \A m \in marks : m \in marks' \/ (m[1] = q /\ m[2] = t)
        /\ \A c \in credits' :
              \/ c \in credits /\ ~(c[1] \in Team(q, t) /\ c[2] = q /\ c[3] = t)
              \/ \E u \in Team(q, t) : c = <<u, q, t, right>>
    <3>1. CASE /\ t \notin Marked(q)
               /\ marks' = marks \cup {<<q, t, right>>}
               /\ credits' = FirstCredits(q, t, right)
      <4>1. ASSUME NEW m \in marks, m[1] = q, m[2] = t
            PROVE  FALSE
        <5>1. m = <<q, t, m[3]>> /\ m[3] \in BOOLEAN
          <6>1. marks \subseteq Asked \X Tables \X BOOLEAN
            BY DEF NightInv, TypeOK
          <6>2. QED
            BY <4>1, <6>1
        <5>2. QED
          BY <3>1, <5>1 DEF Marked
      <4>2. \A c \in credits : ~(c[2] = q /\ c[3] = t)
        BY <4>1 DEF ScoresOK, ScoreInv
      <4>3. \A c \in credits' : c \in credits \/ \E u \in Team(q, t) : c = <<u, q, t, right>>
        BY <3>1 DEF FirstCredits
      <4>4. QED
        BY <3>1, <4>1, <4>2, <4>3
    <3>2. CASE /\ <<q, t, ~right>> \in marks
               /\ marks' = (marks \ {<<q, t, ~right>>}) \cup {<<q, t, right>>}
               /\ credits' = NewCredits(q, t, right)
      <4>1. PICK old : old = <<q, t, ~right>>
        OBVIOUS
      <4>2. old \in marks /\ old[1] = q /\ old[2] = t
        BY <3>2, <4>1
      <4>3. \A m \in marks : m[1] = q /\ m[2] = t => m = old
        BY <4>2 DEF ScoresOK, ScoreInv
      <4>4. marks' = (marks \ {old}) \cup {<<q, t, right>>}
        BY <3>2, <4>1
      <4>5. \A c \in credits' : \/ c \in credits /\ ~(c[1] \in Team(q, t) /\ c[2] = q)
                                \/ \E u \in Team(q, t) : c = <<u, q, t, right>>
        BY <3>2 DEF NewCredits
      <4>6. QED
        BY <4>2, <4>3, <4>4, <4>5
    <3>3. QED
      BY <1>3, <1>9, <3>1, <3>2 DEF ScoreWrite
  <2>2. Team(q, t) \subseteq Users
    BY DEF Team
  <2>3. PICK new : new = <<q, t, right>>
    OBVIOUS
  <2>4. new[1] = q /\ new[2] = t /\ new[3] = right /\ new \in marks'
    BY <2>1, <2>3
  <2>5. \A c \in credits' : c \in credits
           \/ (c[1] \in Team(q, t) /\ c[1] \in Users /\ c[2] = q /\ c[3] = t /\ c[4] = right)
    BY <2>1, <2>2
  <2>6. \A m \in marks' : m = new \/ (m \in marks /\ ~(m[1] = q /\ m[2] = t))
    BY <2>1, <2>3
  <2>7. round' = round /\ num' = num /\ seat' = seat /\ chair' = chair
    BY <1>1 DEF hostVars, floorVars
  <2>8. ASSUME NEW c \in credits', NEW m \in marks', c[2] = m[1], c[3] = m[2], c[3] <= num,
               c[2][1] = 0 => round = 0 /\ seat[0][c[1]] = c[3]
        PROVE  c[4] = m[3]
    <3>1. CASE c \in credits /\ ~(c[2] = q /\ c[3] = t)
      <4>1. m \in marks
        BY <2>4, <2>6, <2>8, <3>1
      <4>2. QED
        BY <2>8, <3>1, <4>1 DEF ScoresOK, CreditsAgree
    <3>2. CASE c[2] = q /\ c[3] = t
      <4>1. m = new
        BY <2>6, <2>8, <3>2
      <4>2. c[1] \in Team(q, t)
        <5>1. CASE c \in credits /\ q[1] = 0
          <6>1. seat[0][c[1]] = t /\ c[1] \in Users /\ t # 0 /\ 0 \in Rounds
            BY <1>6, <2>8, <3>2, <5>1, ZeroFacts
          <6>2. Exists(0)
            BY <6>1 DEF Exists
          <6>3. QED
            BY <5>1, <6>1, <6>2 DEF Team
        <5>2. CASE c \in credits /\ q[1] # 0
          <6>1. q[1] >= 1
            BY <1>4, <5>2, QuizAssumption DEF Rounds
          <6>2. QED
            BY <2>8, <3>2, <5>2, <6>1 DEF ScoresOK, ScoreInv
        <5>3. QED
          BY <2>5, <5>1, <5>2
      <4>3. c[4] = right
        BY <2>1, <3>2, <4>2
      <4>4. QED
        BY <2>4, <4>1, <4>3
    <3>3. QED
      BY <2>5, <3>1, <3>2
  <2>9. CreditsAgree'
    BY <2>7, <2>8 DEF CreditsAgree
  <2>10. \A m, n \in marks' : m[1] = n[1] /\ m[2] = n[2] => m = n
    BY <2>4, <2>6 DEF ScoresOK, ScoreInv
  <2>11. ASSUME NEW c \in credits'
         PROVE  \E m \in marks' : m[1] = c[2] /\ m[2] = c[3]
    <3>1. CASE c[2] = q /\ c[3] = t
      BY <2>4, <3>1
    <3>2. CASE ~(c[2] = q /\ c[3] = t)
      <4>1. PICK m \in marks : m[1] = c[2] /\ m[2] = c[3]
        BY <2>5, <3>2 DEF ScoresOK, ScoreInv
      <4>2. m \in marks'
        BY <2>1, <3>2, <4>1
      <4>3. QED
        BY <4>1, <4>2
    <3>3. QED
      BY <3>1, <3>2
  <2>12. ASSUME NEW c \in credits'
         PROVE  /\ c[2][1] <= round
                /\ c[2][1] >= 1 /\ c[3] <= num => c[1] \in Team(c[2], c[3])
                /\ c[2][1] = 0 /\ round = 0 /\ c[3] <= num =>
                      \/ seat[0][c[1]] = c[3] \/ chair[c[1]] = c[3]
                      \/ chair[c[1]] = seat[0][c[1]] /\ chair[c[1]] \in 1..num
    <3>1. CASE c \in credits
      BY <3>1 DEF ScoresOK, ScoreInv
    <3>2. CASE c[1] \in Team(q, t) /\ c[1] \in Users /\ c[2] = q /\ c[3] = t
      <4>1. c[2][1] <= round
        BY <1>4, <3>2, QuizAssumption DEF Rounds
      <4>2. q[1] = 0 => seat[0][c[1]] = t \/ chair[c[1]] = t
        BY <3>2 DEF Team
      <4>3. QED
        BY <3>2, <4>1, <4>2
    <3>3. QED
      BY <2>5, <3>1, <3>2
  <2>13. ASSUME NEW c \in credits', c[2][1] >= 1, c[3] <= num'
         PROVE  c[1] \in Team(c[2], c[3])'
    BY <2>7, <2>12, <2>13 DEF Team, Exists
  <2>14. round' # -1
    BY <1>4, <2>7
  <2>15. ScoreInv'
    BY <1>5, <2>7, <2>10, <2>11, <2>12, <2>13, <2>14 DEF ScoreInv
  <2>16. QED
    BY <2>9, <2>15 DEF ScoresOK
<1>10. QED
  BY <1>8, <1>9

\* Only RotateAdvance begins a rotation's look at the rows.
LEMMA Begun ==
  ASSUME NightInv, NEW j \in Jobs, NEW x, Begin(j, x),
         ~(x.step \in {"look", "build"} /\ x.op = "rotate")
  PROVE  \A k \in Jobs : Rotating(k)' => Rotating(k)
<1>1. \A k \in Jobs : job'[k] = IF k = j THEN x ELSE job[k]
  BY DEF NightInv, Begin
<1>2. QED
  BY <1>1 DEF Rotating

LEMMA FewTurn ==
  ASSUME NightInv, NEW j \in Jobs,
         \/ Still(j) /\ ~RotateAdvance(j)
         \/ CheckInSeat(j) \/ (\E u \in Users : Undo(j, u)) \/ AssignBuild(j) \/ Dissolve(j)
         \/ ConsolidateMove(j) \/ ConsolidateBuild(j) \/ Build(j)
  PROVE  \A k \in Jobs : Rotating(k)' => Rotating(k)
<1>1. ASSUME End(j)
      PROVE  \A k \in Jobs : Rotating(k)' => Rotating(k)
  <2>1. NoJob.step = "idle"
    BY DEF NoJob
  <2>2. QED
    BY <1>1, <2>1, Begun DEF End, Begin
<1>2. ASSUME UNCHANGED job
      PROVE  \A k \in Jobs : Rotating(k)' => Rotating(k)
  BY <1>2 DEF Rotating
<1>3. ASSUME NEW s \in {"build", "save", "write"}, job' = [job EXCEPT ![j].step = s],
             s = "build" => job[j].step = "look"
      PROVE  \A k \in Jobs : Rotating(k)' => Rotating(k)
  <2>1. PICK y : y = [job[j] EXCEPT !.step = s]
    OBVIOUS
  <2>2. job \in [Jobs -> Task] /\ job[j] \in Task
    BY DEF NightInv
  <2>3. job[j] = NoJob \/ (y.step = s /\ y.op = job[j].op)
    BY <2>1, <2>2 DEF Task, CheckingIn, Assigning, Moving, Rebuilding, Turning, Advancing,
                      Setting, Reselecting, Scoring
  <2>4. job[j] = NoJob => y.step = s /\ NoJob.step = "idle"
    BY <2>1 DEF NoJob
  <2>5. \A k \in Jobs : job'[k] = IF k = j THEN y ELSE job[k]
    BY <1>3, <2>1, <2>2
  <2>6. job[j] = NoJob => y.op = NoJob.op
    BY <2>1 DEF NoJob
  <2>7. QED
    BY <1>3, <2>3, <2>4, <2>5, <2>6 DEF Rotating
<1>4. ASSUME NEW y, Begin(j, y), y.op # "rotate" \/ y.step \notin {"look", "build"}
      PROVE  \A k \in Jobs : Rotating(k)' => Rotating(k)
  BY <1>4, Begun
<1>5. CASE CheckInSeat(j) \/ AssignBuild(j) \/ ConsolidateBuild(j) \/ Save(j) \/ StatusWrite(j)
           \/ ReselectWrite(j) \/ ScoreWrite(j)
  BY <1>1, <1>5 DEF CheckInSeat, AssignBuild, ConsolidateBuild, Save, StatusWrite, ReselectWrite,
                    ScoreWrite
<1>6. CASE (\E u \in Users : Undo(j, u)) \/ Dissolve(j) \/ Reset(j)
  BY <1>2, <1>6 DEF Undo, Dissolve, Reset
<1>7. CASE Look(j)
  BY <1>3, <1>7 DEF Look
<1>8. CASE Build(j)
  BY <1>1, <1>3, <1>8 DEF Build
<1>9. CASE StatusRead(j)
  BY <1>1, <1>3, <1>9 DEF StatusRead
<1>10. CASE ConsolidateMove(j)
  <2>1. PICK y : y = [op |-> "consolidate", step |-> "build"]
    OBVIOUS
  <2>2. (Begin(j, y) \/ End(j)) /\ y.op = "consolidate"
    BY <1>10, <2>1 DEF ConsolidateMove
  <2>3. QED
    BY <1>1, <1>4, <2>2
<1>11. CASE \E u \in Users : CheckInBegin(j, u)
  <2>1. PICK u \in Users : CheckInBegin(j, u)
    BY <1>11
  <2>2. PICK y : y = [op |-> "checkin", step |-> "seat", u |-> u, num |-> num, live |-> status \in Live]
    OBVIOUS
  <2>3. Begin(j, y) /\ y.op = "checkin"
    BY <2>1, <2>2 DEF CheckInBegin
  <2>4. QED
    BY <1>4, <2>3
<1>12. CASE \E u \in Users : AssignBegin(j, u)
  <2>1. PICK u \in Users : AssignBegin(j, u)
    BY <1>12
  <2>2. PICK y : y = [op |-> "assign", step |-> "seat", u |-> u, t |-> num, live |-> status \in Live,
                      seen |-> u \in attended]
    OBVIOUS
  <2>3. Begin(j, y) /\ y.op = "assign"
    BY <2>1, <2>2 DEF AssignBegin
  <2>4. QED
    BY <1>4, <2>3
<1>13. CASE ConsolidateBegin(j)
  <2>1. PICK to \in [Excess(Fewer) -> 1..Fewer] :
             Begin(j, [op |-> "consolidate", step |-> "move", num |-> Fewer, to |-> to])
    BY <1>13 DEF ConsolidateBegin
  <2>2. PICK y : y = [op |-> "consolidate", step |-> "move", num |-> Fewer, to |-> to]
    OBVIOUS
  <2>3. Begin(j, y) /\ y.op = "consolidate"
    BY <2>1, <2>2
  <2>4. QED
    BY <1>4, <2>3
<1>14. CASE Start(j)
  <2>1. PICK y : y = [op |-> "start", step |-> "look", from |-> 1]
    OBVIOUS
  <2>2. Begin(j, y) /\ y.op = "start"
    BY <1>14, <2>1 DEF Start
  <2>3. QED
    BY <1>4, <2>2
<1>15. CASE NextBegin(j) \/ RotateBegin(j)
  <2>1. PICK op \in {"next", "rotate"} : Begin(j, [op |-> op, step |-> "advance"])
    BY <1>15 DEF NextBegin, RotateBegin
  <2>2. PICK y : y = [op |-> op, step |-> "advance"]
    OBVIOUS
  <2>3. Begin(j, y) /\ y.step = "advance"
    BY <2>1, <2>2
  <2>4. QED
    BY <1>4, <2>3
<1>16. CASE NextAdvance(j)
  <2>1. PICK y : y = [op |-> "status", step |-> "look at", to |-> "finished"]
    OBVIOUS
  <2>2. (Begin(j, y) \/ End(j)) /\ y.op = "status"
    BY <1>16, <2>1 DEF NextAdvance
  <2>3. QED
    BY <1>1, <1>4, <2>2
<1>17. CASE ReselectBegin(j)
  <2>1. PICK y : y = [op |-> "reselect", step |-> "write", to |-> round]
    OBVIOUS
  <2>2. Begin(j, y) /\ y.op = "reselect"
    BY <1>17, <2>1 DEF ReselectBegin
  <2>3. QED
    BY <1>4, <2>2
<1>18. CASE \E to \in {"active", "paused", "finished"} : StatusBegin(j, to)
  <2>1. PICK to \in {"active", "paused", "finished"} : StatusBegin(j, to)
    BY <1>18
  <2>2. PICK y : y = [op |-> "status", step |-> "look at", to |-> to]
    OBVIOUS
  <2>3. Begin(j, y) /\ y.op = "status"
    BY <2>1, <2>2 DEF StatusBegin
  <2>4. QED
    BY <1>4, <2>3
<1>19. CASE \E t \in Tables, right \in BOOLEAN : ScoreBegin(j, t, right)
  <2>1. PICK t \in Tables, right \in BOOLEAN : ScoreBegin(j, t, right)
    BY <1>19
  <2>2. PICK y : y = [op |-> "score", step |-> "write", q |-> <<round, index>>, t |-> t, right |-> right]
    OBVIOUS
  <2>3. Begin(j, y) /\ y.op = "score"
    BY <2>1, <2>2 DEF ScoreBegin
  <2>4. QED
    BY <1>4, <2>3
<1>20. QED
  BY <1>5, <1>6, <1>7, <1>8, <1>9, <1>10, <1>11, <1>12, <1>13, <1>14, <1>15, <1>16, <1>17, <1>18, <1>19
  DEF Still, Score

LEMMA ScoresSteps ==
  ASSUME FloorInv, \A h, k \in Hosts : h = k, "rehearsal" \notin Operations,
         "overtake" \notin Operations, ScoresOK, [Next]_vars
  PROVE  ScoresOK'
<1> USE DEF FloorInv
<1>1. NightInv'
  BY NightSteps
<1>2. round \in {-1} \cup Rounds /\ round \in Int /\ RoundNumber \in Int /\ round <= RoundNumber
  <2>1. round \in {-1} \cup Rounds /\ Rounds \subseteq Int
    BY HostTypes, QuizAssumption DEF Rounds
  <2>2. QED
    BY <2>1 DEF RoundNumber
<1>3. \A c \in credits : c[2][1] \in Int /\ c[2][1] <= round
  BY CreditTypes DEF ScoresOK, ScoreInv
<1>4. CASE UNCHANGED vars
  <2>1. UNCHANGED <<floorVars, scoreVars, round, job>>
    BY <1>4 DEF vars, hostVars
  <2>2. \A k \in Jobs : Rotating(k)' => Rotating(k)
    BY <2>1 DEF Rotating
  <2>3. QED
    BY <1>1, <2>1, <2>2, SameScores
<1>5. ASSUME NEW j \in Jobs,
             \/ Still(j) \/ CheckInSeat(j) \/ (\E u \in Users : Undo(j, u)) \/ AssignSeat(j)
             \/ AssignBuild(j) \/ Dissolve(j) \/ ConsolidateMove(j) \/ ConsolidateBuild(j) \/ Build(j)
      PROVE  ScoresOK'
  <2>1. CASE CheckInSeat(j) \/ (\E u \in Users : Undo(j, u)) \/ AssignBuild(j) \/ Dissolve(j)
    <3>1. Keeping(RoundNumber)
      BY <2>1, CheckInKeeps, UndoKeeps, AssignBuildKeeps, DissolveKeeps
    <3>2. UNCHANGED <<round, marks>> /\ credits' \subseteq credits
      BY <2>1 DEF CheckInSeat, Undo, AssignBuild, Dissolve, Released, hostVars, scoreVars
    <3>3. \A k \in Jobs : Rotating(k)' => Rotating(k)
      BY <2>1, FewTurn
    <3>4. \A c \in credits' : c[2][1] <= RoundNumber
      BY <1>2, <1>3, <3>2
    <3>5. QED
      BY <1>1, <1>2, <3>1, <3>2, <3>3, <3>4, KeepingScores
  <2>2. CASE AssignSeat(j)
    BY <1>1, <2>2, AssignScores
  <2>3. CASE ConsolidateMove(j)
    <3>1. marks' \subseteq marks /\ credits' = credits /\ round' = round
      BY <2>3 DEF ConsolidateMove, hostVars
    <3>2. CASE status = "draft"
      BY <3>1, <3>2, DraftScores
    <3>3. CASE status # "draft"
      <4>1. UNCHANGED <<floorVars, scoreVars>>
        BY <2>3, <3>3 DEF ConsolidateMove, scoreVars
      <4>2. QED
        BY <1>1, <2>3, <3>1, <4>1, FewTurn, SameScores
    <3>4. QED
      BY <3>2, <3>3
  <2>4. CASE ConsolidateBuild(j)
    <3>1. Keeping(0) /\ round <= 0
      BY <2>4, ConsolidateBuildKeeps
    <3>2. UNCHANGED <<round, marks>> /\ credits' = credits
      BY <2>4 DEF ConsolidateBuild, hostVars, scoreVars
    <3>3. \A c \in credits' : c[2][1] <= 0
      BY <1>2, <1>3, <3>1, <3>2
    <3>4. QED
      BY <1>1, <2>4, <3>1, <3>2, <3>3, FewTurn, KeepingScores
  <2>5. CASE Build(j)
    <3>1. UNCHANGED <<round, marks>> /\ credits' = credits
      BY <2>5 DEF Build, hostVars, scoreVars
    <3>2. CASE status = "draft"
      BY <3>1, <3>2, DraftScores
    <3>3. CASE job[j].op = "rotate" /\ Keeping(round - 1)
      <4>1. Rotating(j)
        BY <2>5, <3>3 DEF Build, Rotating
      <4>2. \A c \in credits' : c[2][1] <= round - 1
        BY <1>2, <1>3, <3>1, <4>1 DEF ScoresOK, ScoreInv
      <4>3. round - 1 \in Int
        BY <1>2
      <4>4. QED
        BY <1>1, <2>5, <3>1, <3>3, <4>2, <4>3, FewTurn, KeepingScores
    <3>4. QED
      BY <2>5, <3>2, <3>3, BuildKeeps
  <2>6. CASE Still(j)
    <3>1. UNCHANGED floorVars
      BY <2>6, StillKeeps
    <3>2. CASE RotateAdvance(j)
      BY <3>2, RotateScores
    <3>3. CASE ScoreWrite(j)
      BY <3>3, ScoreScores
    <3>4. CASE Reset(j)
      BY <3>4, NoScores DEF Reset
    <3>5. CASE Save(j)
      <4>1. UNCHANGED scoreVars
        BY <3>5 DEF Save
      <4>2. CASE job[j].op = "start"
        <5>1. Fits(j, job[j]) /\ job[j].step = "save"
          BY <3>5 DEF Save, DeskInv
        <5>2. status = "draft"
          BY <4>2, <5>1 DEF Fits
        <5>3. QED
          BY <4>1, <5>2, DraftScores DEF scoreVars
      <4>3. CASE job[j].op # "start"
        <5>1. round' = round
          BY <3>5, <4>3 DEF Save, hostVars
        <5>2. \A k \in Jobs : Rotating(k)' => Rotating(k)
          BY <2>6, <3>5, FewTurn DEF Save, RotateAdvance, At
        <5>3. QED
          BY <1>1, <3>1, <4>1, <5>1, <5>2, SameScores
      <4>4. QED
        BY <4>2, <4>3
    <3>6. CASE ~(RotateAdvance(j) \/ ScoreWrite(j) \/ Reset(j) \/ Save(j))
      <4>1. \A k \in Jobs : Rotating(k)' => Rotating(k)
        BY <2>6, <3>6, FewTurn
      <4>2. UNCHANGED <<scoreVars, round>>
        <5>1. CASE ReselectWrite(j)
          <6>1. Fits(j, job[j])
            BY DEF DeskInv
          <6>2. job[j].to = round
            BY <5>1, <6>1 DEF ReselectWrite, At, Fits
          <6>3. QED
            BY <5>1, <6>2 DEF ReselectWrite
        <5>2. CASE ~ReselectWrite(j)
          BY <2>6, <3>6, <5>2
          DEF Still, CheckInBegin, AssignBegin, ConsolidateBegin, Start, Look, NextBegin,
              NextAdvance, StatusRead, StatusWrite, RotateBegin, ReselectBegin, StatusBegin,
              Score, ScoreBegin, hostVars
        <5>3. QED
          BY <5>1, <5>2
      <4>3. QED
        BY <1>1, <3>1, <4>1, <4>2, SameScores
    <3>7. QED
      BY <3>2, <3>3, <3>4, <3>5, <3>6
  <2>7. QED
    BY <1>5, <2>1, <2>2, <2>3, <2>4, <2>5, <2>6
<1>6. CASE Next
  BY <1>5, <1>6, KindsOfSteps
<1>7. QED
  BY <1>4, <1>6

\* With one host connection, where no rotation overtakes the rebuild of a
\* consolidation, the leaderboards agree: however a table's score is
\* corrected, while members come, go and are moved and rounds are made again,
\* the points of those who earned them at a table still in use say the same.  A
\* rehearsal, whose reset keeps the scores, is left out: its points belong to
\* rounds that are made anew.
THEOREM PointsFollowCorrections ==
  ASSUME \A h, k \in Hosts : h = k, "rehearsal" \notin Operations, "overtake" \notin Operations
  PROVE  Spec => []CreditsAgree
<1>1. Init => ScoresOK
  BY DEF Init, ScoresOK, ScoreInv, CreditsAgree
<1>2. FloorInv /\ ScoresOK /\ [Next]_vars => ScoresOK'
  BY ScoresSteps
<1>3. Spec => []FloorInv
  BY FloorInvariant
<1>4. ScoresOK => CreditsAgree
  BY DEF ScoresOK
<1>5. QED
  BY <1>1, <1>2, <1>3, <1>4, PTL DEF Spec
=============================================================================
