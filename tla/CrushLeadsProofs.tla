--------------------------- MODULE CrushLeadsProofs ---------------------------
(***************************************************************************)
(* Proofs about CrushLeads, for any coaches, leads, requests and sweeps.   *)
(* Every step that writes a lead moves one row, and a good move of a row   *)
(* (Move) keeps what is final and who works which half; what a request     *)
(* remembers from its page (JobOK) makes its write a good move.            *)
(***************************************************************************)
EXTENDS CrushLeads, FiniteSetTheorems, WellFoundedInduction, TLAPS

Row1 == [status : Statuses \cup {"none"}, owner : Coaches \cup {None},
         cocoach : Coaches \cup {None}, consents : BOOLEAN \X BOOLEAN,
         answer : {"none", "yes", "no"}, scheduled : BOOLEAN, completed : BOOLEAN,
         stamp : Sweeps \cup {None}]

Job == {NoJob} \cup [op : {"declare", "create", "terminate"}, lead : Leads]
       \cup [op : CoachOps, lead : Leads, coach : Coaches]
       \cup [op : {"member"}, lead : Leads, row : Row1]

\* One coach per half, and no half without a lead's coach.
RowOK(row) ==
    /\ row.owner = None => row.cocoach = None
    /\ row.owner # None => row.owner # row.cocoach
    /\ row.status = "none" => row.answer = "none"

\* What a request remembers of its lead and still holds.
JobOK(j) ==
    /\ j.op \in CoachOps => Declared(j.lead)
    /\ j.op \in {"notes", "approve"} => lead[j.lead].cocoach # j.coach
    /\ j.op = "member" => /\ RowOK(j.row)
                          /\ lead[j.lead].status = "shared" /\ j.row.status = "shared"
                          /\ j.row.answer = lead[j.lead].answer
                          /\ j.row.cocoach = lead[j.lead].cocoach
    /\ j.op = "create" => \A l \in Leads : Declared(l) => By[l] # By[j.lead]

\* At most one request counts a member's declarations at a time.
OneCounter ==
    \A q, r \in Requests : At(q, "create") /\ At(r, "create") /\ q # r
        => By[job[q].lead] # By[job[r].lead]

LeadsInv ==
    /\ lead \in [Leads -> Row1] /\ job \in [Requests -> Job] /\ active \subseteq Coaches
    /\ \A l \in Leads : RowOK(lead[l])
    /\ \A r \in Requests : JobOK(job[r])
    /\ OneCounter /\ OneCrushPerEvent

\* A step from row a to row b that no declaration makes.
Move(a, b) ==
    /\ b \in Row1 /\ RowOK(b)
    /\ a.status \in Closed => b.status = a.status
    /\ a.answer # "none" => b.answer = a.answer
    /\ a.status = "none" <=> b.status = "none"
    /\ b.cocoach \in {a.cocoach, None}
    /\ a.status = "shared" => b.cocoach = a.cocoach /\ b.answer = a.answer

\* What FinalStaysFinal says of one step.
FinalKept ==
    \A l \in Leads :
        /\ lead[l].status \in Closed => lead'[l].status = lead[l].status
        /\ lead[l].answer # "none" => lead'[l].answer = lead[l].answer

\* A step that declares nothing.
RowsKept == FinalKept /\ \A l \in Leads : Declared(l)' <=> Declared(l)

-----------------------------------------------------------------------------
(* Rows and requests *)

LEMMA KindsOfJobs ==
  ASSUME NEW j \in Job
  PROVE  /\ j.op \in CoachOps => j \in [op : CoachOps, lead : Leads, coach : Coaches]
         /\ j.op = "member" => j \in [op : {"member"}, lead : Leads, row : Row1]
<1>1. /\ "idle" \notin CoachOps /\ "declare" \notin CoachOps /\ "create" \notin CoachOps
      /\ "terminate" \notin CoachOps /\ "member" \notin CoachOps
  BY DEF CoachOps, WorkOps, CoOps
<1>2. CASE j = NoJob
  BY <1>1, <1>2 DEF NoJob
<1>3. CASE j \in [op : {"declare", "create", "terminate"}, lead : Leads]
  <2>1. j.op \in {"declare", "create", "terminate"}
    BY <1>3
  <2>2. QED
    BY <1>1, <2>1
<1>4. CASE j \in [op : CoachOps, lead : Leads, coach : Coaches]
  <2>1. j.op \in CoachOps
    BY <1>4
  <2>2. QED
    BY <1>1, <1>4, <2>1
<1>5. CASE j \in [op : {"member"}, lead : Leads, row : Row1]
  <2>1. j.op = "member"
    BY <1>5
  <2>2. QED
    BY <1>1, <1>5, <2>1
<1>6. QED
  BY <1>2, <1>3, <1>4, <1>5 DEF Job

LEMMA JobFacts ==
  ASSUME LeadsInv, NEW r \in Requests
  PROVE  /\ job[r] \in Job /\ JobOK(job[r])
         /\ job[r] # NoJob => job[r].lead \in Leads /\ lead[job[r].lead] \in Row1
                              /\ RowOK(lead[job[r].lead])
         /\ job[r].op \in CoachOps => job[r].coach \in Coaches /\ job[r].coach # None
         /\ job[r].op = "member" => job[r].row \in Row1
<1>1. job[r] \in Job /\ JobOK(job[r])
  BY DEF LeadsInv
<1>2. job[r] # NoJob => job[r].lead \in Leads
  BY <1>1 DEF Job
<1>3. job[r].op \in CoachOps => job[r].coach \in Coaches
  BY <1>1, KindsOfJobs
<1>4. job[r].op = "member" => job[r].row \in Row1
  BY <1>1, KindsOfJobs
<1>5. QED
  BY <1>1, <1>2, <1>3, <1>4, LeadsAssumption DEF LeadsInv

LEMMA StayMoves ==
  ASSUME NEW a \in Row1, RowOK(a)
  PROVE  Move(a, a)
  BY DEF Move

\* A good move of one row, by a request that is over with it or by a sweep,
\* keeps the invariant.
LEMMA MoveKeeps ==
  ASSUME LeadsInv, NEW l \in Leads, NEW b, Move(lead[l], b),
         lead' = [lead EXCEPT ![l] = b],
         job' \in [Requests -> Job],
         \A r \in Requests : job'[r] = job[r] \/ job'[r] = NoJob,
         active' = active
  PROVE  LeadsInv' /\ RowsKept
<1>1. lead' \in [Leads -> Row1] /\ lead'[l] = b /\ \A m \in Leads \ {l} : lead'[m] = lead[m]
  BY DEF LeadsInv, Move
<1>2. \A m \in Leads : Move(lead[m], lead'[m])
  <2> TAKE m \in Leads
  <2>1. CASE m = l
    BY <2>1, <1>1
  <2>2. CASE m # l
    BY <2>2, <1>1, StayMoves DEF LeadsInv
  <2>3. QED
    BY <2>1, <2>2
<1>3. \A m \in Leads : RowOK(lead'[m])
  BY <1>2 DEF Move
<1>4. \A m \in Leads : Declared(m)' <=> Declared(m)
  BY <1>2 DEF Move, Declared
<1>5. \A r \in Requests : JobOK(job[r])' 
  <2> TAKE r \in Requests
  <2>1. CASE job'[r] = NoJob
    BY <2>1 DEF JobOK, NoJob, CoachOps, WorkOps, CoOps
  <2>2. CASE job'[r] = job[r] /\ job[r] # NoJob
    <3> DEFINE m == job[r].lead
    <3>1. m \in Leads /\ lead[m] \in Row1
      BY <2>2, JobFacts
    <3>2. Move(lead[m], lead'[m])
      BY <3>1, <1>2
    <3>3. JobOK(job[r]) /\ job[r] \in Job
      BY JobFacts
    <3>4. job[r].op \in {"notes", "approve"} => job[r].coach # None
      BY JobFacts DEF CoachOps
    <3>5. job'[r].op \in CoachOps => Declared(m)'
      BY <2>2, <3>1, <3>3, <1>4 DEF JobOK
    <3>6. job'[r].op \in {"notes", "approve"} => lead'[m].cocoach # job[r].coach
      BY <2>2, <3>2, <3>3, <3>4 DEF JobOK, Move
    <3>7. job'[r].op = "member" =>
              /\ RowOK(job[r].row)
              /\ lead'[m].status = "shared" /\ job[r].row.status = "shared"
              /\ job[r].row.answer = lead'[m].answer
              /\ job[r].row.cocoach = lead'[m].cocoach
      BY <2>2, <3>2, <3>3 DEF JobOK, Move, Closed
    <3>8. job'[r].op = "create" => \A k \in Leads : Declared(k)' => By[k] # By[m]
      BY <2>2, <3>3, <1>4 DEF JobOK
    <3>9. QED
      BY <2>2, <3>5, <3>6, <3>7, <3>8 DEF JobOK
  <2>3. QED
    BY <2>1, <2>2
<1>6. OneCounter'
  BY DEF LeadsInv, OneCounter, At, NoJob
<1>7. OneCrushPerEvent'
  BY <1>4 DEF LeadsInv, OneCrushPerEvent
<1>8. FinalKept
  BY <1>2 DEF FinalKept, Move
<1>9. QED
  BY <1>1, <1>3, <1>4, <1>5, <1>6, <1>7, <1>8 DEF LeadsInv, RowsKept

\* A step that writes no lead and starts no request keeps it too.
LEMMA QuietKeeps ==
  ASSUME LeadsInv, UNCHANGED <<lead, job>>, active' \subseteq Coaches
  PROVE  LeadsInv' /\ RowsKept
  BY DEF LeadsInv, JobOK, Declared, OneCounter, At, OneCrushPerEvent, RowsKept, FinalKept

\* A request that has begun, if what it remembers is right.
LEMMA BeginKeeps ==
  ASSUME LeadsInv, NEW r \in Requests, NEW j \in Job, Begin(r, j), JobOK(j),
         j.op = "create" => ~Locked(By[j.lead]),
         UNCHANGED <<lead, active>>
  PROVE  LeadsInv' /\ RowsKept
<1>1. job' \in [Requests -> Job] /\ job'[r] = j /\ \A q \in Requests \ {r} : job'[q] = job[q]
  BY DEF LeadsInv, Begin
<1>2. \A q \in Requests : JobOK(job[q])'
  <2> TAKE q \in Requests
  <2>1. \/ job'[q] = job[q] /\ JobOK(job[q])
        \/ job'[q] = j
    BY <1>1 DEF LeadsInv
  <2>2. QED
    BY <2>1 DEF JobOK, Declared
<1>3. OneCounter'
  <2> SUFFICES ASSUME NEW p \in Requests, NEW q \in Requests, p # q,
                      job'[p].op = "create", job'[q].op = "create"
               PROVE  By[job'[p].lead] # By[job'[q].lead]
    BY DEF OneCounter, At
  <2>1. CASE p = r
    BY <2>1, <1>1 DEF Locked, At
  <2>2. CASE q = r
    BY <2>2, <1>1 DEF Locked, At
  <2>3. CASE p # r /\ q # r
    BY <2>3, <1>1 DEF LeadsInv, OneCounter, At
  <2>4. QED
    BY <2>1, <2>2, <2>3
<1>4. QED
  BY <1>1, <1>2, <1>3 DEF LeadsInv, OneCrushPerEvent, Declared, RowsKept, FinalKept

\* The end of a request.
LEMMA EndKeeps ==
  ASSUME LeadsInv, NEW r \in Requests, End(r), UNCHANGED <<lead, active>>
  PROVE  LeadsInv' /\ RowsKept
<1>1. NoJob \in Job /\ JobOK(NoJob) /\ NoJob.op # "create"
  BY DEF Job, JobOK, NoJob, CoachOps, WorkOps, CoOps
<1>2. QED
  BY <1>1, BeginKeeps DEF End

\* A request that saves its row and is done.
LEMMA SaveKeeps ==
  ASSUME LeadsInv, NEW r \in Requests, job[r] # NoJob, NEW b, Move(Row(r), b),
         Save(r, b), End(r), active' = active
  PROVE  LeadsInv' /\ RowsKept
<1>1. job[r].lead \in Leads
  BY JobFacts
<1>2. job' \in [Requests -> Job] /\ \A q \in Requests : job'[q] = job[q] \/ job'[q] = NoJob
  BY DEF LeadsInv, End, Begin, Job
<1>3. lead' = [lead EXCEPT ![job[r].lead] = b] /\ Move(lead[job[r].lead], b)
  BY DEF Save, Row
<1>4. QED
  BY <1>1, <1>2, <1>3, MoveKeeps

-----------------------------------------------------------------------------
(* The requests *)

\* What opens a request, and what it remembers from then on.
LEMMA CoachBegins ==
  ASSUME LeadsInv, NEW r \in Requests, NEW k \in Coaches, NEW l \in Leads,
         NEW op \in CoachOps, CoachBegin(r, k, l, op)
  PROVE  LeadsInv' /\ RowsKept
<1> DEFINE j == [op |-> op, lead |-> l, coach |-> k]
<1>1. j \in Job /\ j.op = op /\ j.lead = l /\ j.coach = k
  BY DEF Job
<1>2. op # "member" /\ op # "create"
  BY DEF CoachOps, WorkOps, CoOps
<1>3. op \in {"notes", "approve"} => lead[l].owner \in {None, k}
  BY DEF CoachBegin, MayBegin, CoOps
<1>4. RowOK(lead[l]) /\ k # None
  BY LeadsAssumption DEF LeadsInv
<1>5. op \in {"notes", "approve"} => lead[l].cocoach # k
  BY <1>3, <1>4 DEF RowOK
<1>6. Declared(l) /\ Begin(r, j) /\ UNCHANGED <<lead, active>>
  BY DEF CoachBegin, around
<1> HIDE DEF j
<1>7. JobOK(j)
  BY <1>1, <1>2, <1>5, <1>6 DEF JobOK
<1>8. QED
  BY <1>1, <1>2, <1>6, <1>7, BeginKeeps

LEMMA MemberBegins ==
  ASSUME LeadsInv, NEW r \in Requests, NEW l \in Leads, NEW who \in {1, 2},
         NEW yes \in BOOLEAN, MemberConsentBegin(r, l, who, yes)
  PROVE  LeadsInv' /\ RowsKept
<1> DEFINE row == [lead[l] EXCEPT !.consents[who] = yes]
           j == [op |-> "member", lead |-> l, row |-> row]
<1>1. lead[l] \in Row1 /\ RowOK(lead[l])
  BY DEF LeadsInv
<1>2. row \in Row1 /\ row.owner = lead[l].owner /\ row.cocoach = lead[l].cocoach
      /\ row.status = lead[l].status /\ row.answer = lead[l].answer
  BY <1>1 DEF Row1
<1>3. RowOK(row)
  BY <1>1, <1>2 DEF RowOK
<1>4. lead[l].status = "shared" /\ Begin(r, j) /\ UNCHANGED <<lead, active>>
  BY DEF MemberConsentBegin, around
<1> HIDE DEF row
<1>5. j \in Job /\ j.op = "member" /\ j.lead = l /\ j.row = row
  BY <1>2 DEF Job
<1> HIDE DEF j
<1>6. JobOK(j)
  BY <1>2, <1>3, <1>4, <1>5 DEF JobOK, CoachOps, WorkOps, CoOps
<1>7. QED
  BY <1>4, <1>5, <1>6, BeginKeeps

LEMMA OthersBegin ==
  ASSUME LeadsInv, NEW r \in Requests, NEW l \in Leads,
         DeclareBegin(r, l) \/ BlockBegin(r, l)
  PROVE  LeadsInv' /\ RowsKept
<1>1. PICK op \in {"declare", "terminate"} :
          Begin(r, [op |-> op, lead |-> l]) /\ UNCHANGED <<lead, active>>
  BY DEF DeclareBegin, BlockBegin, around
<1> DEFINE j == [op |-> op, lead |-> l]
<1>2. j \in Job /\ j.op \in {"declare", "terminate"}
  BY DEF Job
<1> HIDE DEF j
<1>3. JobOK(j)
  BY <1>2 DEF JobOK, CoachOps, WorkOps, CoOps
<1>4. QED
  BY <1>1, <1>2, <1>3, BeginKeeps DEF j

\* Declaring: the count holds until the row is there.
LEMMA CountKeeps ==
  ASSUME LeadsInv, NEW r \in Requests, DeclareCount(r)
  PROVE  LeadsInv' /\ RowsKept
<1>1. job[r] # NoJob /\ ~Locked(By[job[r].lead]) /\ UNCHANGED <<lead, active>>
  BY DEF DeclareCount, At, NoJob, around
<1> DEFINE j == [op |-> "create", lead |-> job[r].lead]
<1>2. j \in Job /\ j.op = "create" /\ j.lead = job[r].lead
  BY <1>1, JobFacts DEF Job
<1>3. CASE End(r)
  BY <1>1, <1>3, EndKeeps
<1>4. CASE Begin(r, j) /\ ~(\E l \in Leads : Declared(l) /\ By[l] = By[job[r].lead])
  <2> HIDE DEF j
  <2>1. JobOK(j)
    BY <1>2, <1>4 DEF JobOK, CoachOps, WorkOps, CoOps
  <2>2. QED
    BY <1>1, <1>2, <1>4, <2>1, BeginKeeps
<1>5. QED
  BY <1>3, <1>4 DEF DeclareCount

LEMMA CreateKeeps ==
  ASSUME LeadsInv, NEW r \in Requests, NEW route \in Routes, DeclareCreate(r, route)
  PROVE  LeadsInv' /\ FinalKept
<1> DEFINE l == job[r].lead
           b == [NoLead EXCEPT !.status = "pending", !.owner = route[1], !.cocoach = route[2]]
<1>1. job[r].op = "create" /\ End(r) /\ active' = active
  BY DEF DeclareCreate, At, around
<1>2. job[r] # NoJob /\ l \in Leads /\ lead[l] \in Row1 /\ RowOK(lead[l]) /\ JobOK(job[r])
  BY <1>1, JobFacts DEF NoJob
<1>3. \A m \in Leads : Declared(m) => By[m] # By[l]
  BY <1>1, <1>2 DEF JobOK
<1>4. ~Declared(l) /\ lead[l].status = "none" /\ lead[l].answer = "none"
  BY <1>2, <1>3 DEF Declared, RowOK
<1>5. lead' = [lead EXCEPT ![l] = b]
  BY <1>4 DEF DeclareCreate
<1>6. /\ route[1] \in Coaches \cup {None} /\ route[2] \in Coaches \cup {None}
      /\ route[1] = None => route[2] = None
      /\ route[1] # None => route[1] # route[2]
  <2>1. CASE route = <<None, None>>
    BY <2>1
  <2>2. CASE route \in active \X CoCoaches /\ route[1] # route[2]
    <3>1. route[1] \in active /\ route[2] \in active \cup {None}
      BY <2>2 DEF CoCoaches
    <3>2. QED
      BY <2>2, <3>1, LeadsAssumption DEF LeadsInv
  <2>3. QED
    BY <2>1, <2>2 DEF Routes
<1>7. b \in Row1 /\ b.status = "pending" /\ RowOK(b)
  BY <1>6 DEF Row1, NoLead, Statuses, RowOK
<1> HIDE DEF b
<1>8. lead' \in [Leads -> Row1] /\ lead'[l] = b /\ \A m \in Leads \ {l} : lead'[m] = lead[m]
  BY <1>2, <1>5, <1>7 DEF LeadsInv
<1>9. job' \in [Requests -> Job] /\ job'[r] = NoJob /\ \A q \in Requests \ {r} : job'[q] = job[q]
  BY <1>1 DEF LeadsInv, End, Begin, Job
<1>10. \A m \in Leads : RowOK(lead'[m])
  BY <1>7, <1>8 DEF LeadsInv
<1>11. \A m \in Leads : Declared(m)' <=> Declared(m) \/ m = l
  BY <1>7, <1>8 DEF Declared
<1>12. \A q \in Requests : JobOK(job[q])'
  <2> TAKE q \in Requests
  <2>1. CASE q = r
    BY <2>1, <1>9 DEF JobOK, NoJob, CoachOps, WorkOps, CoOps
  <2>2. CASE q # r /\ job[q] # NoJob
    <3>1. job[q].lead \in Leads /\ JobOK(job[q]) /\ job'[q] = job[q]
      BY <2>2, <1>9, JobFacts
    <3>2. job[q].op \in CoachOps \cup {"member"} => job[q].lead # l
      BY <1>4, <3>1 DEF JobOK, Declared
    <3>3. job[q].op \in CoachOps => Declared(job[q].lead)'
      BY <3>1, <1>11 DEF JobOK
    <3>4. job[q].op \in {"notes", "approve"} => lead'[job[q].lead].cocoach # job[q].coach
      BY <3>1, <3>2, <1>8 DEF JobOK, CoachOps
    <3>5. job[q].op = "member" =>
              /\ RowOK(job[q].row) /\ job[q].row.status = "shared"
              /\ lead'[job[q].lead].status = "shared"
              /\ job[q].row.answer = lead'[job[q].lead].answer
              /\ job[q].row.cocoach = lead'[job[q].lead].cocoach
      BY <3>1, <3>2, <1>8 DEF JobOK
    <3>6. job[q].op = "create" => By[l] # By[job[q].lead]
      BY <2>2, <1>1 DEF LeadsInv, OneCounter, At
    <3>7. job[q].op = "create" => \A m \in Leads : Declared(m)' => By[m] # By[job[q].lead]
      BY <3>1, <3>6, <1>11 DEF JobOK
    <3>8. QED
      BY <3>1, <3>3, <3>4, <3>5, <3>7 DEF JobOK
  <2>3. CASE q # r /\ job[q] = NoJob
    <3>1. job'[q] = NoJob
      BY <2>3, <1>9
    <3>2. QED
      BY <3>1 DEF JobOK, NoJob, CoachOps, WorkOps, CoOps
  <2>4. QED
    BY <2>1, <2>2, <2>3
<1>13. OneCounter'
  BY <1>9 DEF LeadsInv, OneCounter, At, NoJob
<1>14. OneCrushPerEvent'
  BY <1>3, <1>11 DEF LeadsInv, OneCrushPerEvent
<1>15. FinalKept
  BY <1>4, <1>8 DEF FinalKept, Closed
<1>16. QED
  BY <1>1, <1>8, <1>9, <1>10, <1>12, <1>13, <1>14, <1>15 DEF LeadsInv
-----------------------------------------------------------------------------
(* The coach's actions: each saves a good move of its row, or the row itself *)

LEMMA RowFacts ==
  ASSUME LeadsInv, NEW r \in Requests, job[r].op \in CoachOps \cup {"member", "terminate"}
  PROVE  /\ job[r] # NoJob /\ Row(r) \in Row1 /\ RowOK(Row(r)) /\ JobOK(job[r])
         /\ Move(Row(r), Row(r))
<1>1. "idle" \notin CoachOps \cup {"member", "terminate"} /\ NoJob.op = "idle"
  BY DEF NoJob, CoachOps, WorkOps, CoOps
<1>2. job[r] # NoJob
  BY <1>1
<1>3. QED
  BY <1>2, JobFacts, StayMoves DEF Row

\* A row that changes only in what neither half nor end depends on.
LEMMA SideMoves ==
  ASSUME NEW a \in Row1, RowOK(a), NEW b \in Row1, b.owner = a.owner, b.cocoach = a.cocoach,
         b.answer = a.answer,
         b.status = a.status \/ (a.status \in Open /\ b.status \in Statuses)
  PROVE  Move(a, b)
  BY DEF Move, RowOK, Open, Closed, Statuses

LEMMA AnsweredMoves ==
  ASSUME NEW a \in Row1, RowOK(a), NEW yes \in BOOLEAN, a.status \in Open, a.answer = "none"
  PROVE  Move(a, Answered(a, yes))
<1> DEFINE b == Answered(a, yes)
           c == [a.consents EXCEPT ![2] = yes]
<1>1. c \in BOOLEAN \X BOOLEAN
  BY DEF Row1
<1>2. b = [a EXCEPT !.answer = IF yes THEN "yes" ELSE "no", !.consents = c,
                    !.status = IF yes THEN a.status ELSE "declined"]
  BY DEF Answered, Row1
<1> HIDE DEF b, c
<1>3. /\ b \in Row1
      /\ b.owner = a.owner /\ b.cocoach = a.cocoach /\ b.status \in {a.status, "declined"}
  BY <1>1, <1>2 DEF Row1, Statuses
<1>4. Move(a, b)
  BY <1>3 DEF Move, RowOK, Open, Closed
<1>5. QED
  BY <1>4 DEF b

LEMMA TakenMoves ==
  ASSUME NEW a \in Row1, RowOK(a), NEW k \in Coaches, a.status \in Open
  PROVE  /\ Move(a, Taken(a, k)) /\ Taken(a, k) \in Row1 /\ RowOK(Taken(a, k))
         /\ Taken(a, k).status = a.status
<1> DEFINE b == Taken(a, k)
<1>1. b \in Row1 /\ b.status = a.status /\ b.answer = a.answer /\ b.owner = k
      /\ b.cocoach = IF a.cocoach = k THEN None ELSE a.cocoach
  BY DEF Taken, Row1
<1>2. k # None
  BY LeadsAssumption
<1> HIDE DEF b
<1>3. RowOK(b)
  BY <1>1, <1>2 DEF RowOK, Open
<1>4. Move(a, b)
  BY <1>1, <1>3 DEF Move, Open, Closed
<1>5. QED
  BY <1>1, <1>3, <1>4 DEF b

LEMMA NotesMove ==
  ASSUME LeadsInv, NEW r \in Requests, SaveNotes(r)
  PROVE  LeadsInv' /\ RowsKept
<1> DEFINE a == Row(r)
           k == job[r].coach
           b == [a EXCEPT !.owner = k]
<1>1. job[r].op = "notes" /\ Save(r, b) /\ End(r) /\ active' = active
  BY DEF SaveNotes, At, Done, around
<1>2. job[r] # NoJob /\ a \in Row1 /\ RowOK(a) /\ JobOK(job[r])
  BY <1>1, RowFacts DEF CoachOps
<1>3. k \in Coaches /\ k # None
  BY <1>1, JobFacts DEF CoachOps
<1>4. a.cocoach # k
  BY <1>1, <1>2 DEF JobOK, Row
<1>5. b \in Row1 /\ b.owner = k /\ b.cocoach = a.cocoach /\ b.status = a.status
      /\ b.answer = a.answer
  BY <1>2, <1>3 DEF Row1
<1> HIDE DEF a, b
<1>6. Move(a, b)
  BY <1>2, <1>3, <1>4, <1>5 DEF Move, RowOK
<1>7. QED
  BY <1>1, <1>2, <1>6, SaveKeeps DEF a

LEMMA ApproveMoves ==
  ASSUME LeadsInv, NEW r \in Requests, Approve(r)
  PROVE  LeadsInv' /\ RowsKept
<1> DEFINE a == Row(r)
           k == job[r].coach
           b == [a EXCEPT !.status = "coach_approved", !.owner = k]
<1>1. job[r].op = "approve" /\ Save(r, IF StillOpen(r) THEN b ELSE a) /\ End(r)
      /\ active' = active
  BY DEF Approve, At, Done, around
<1>2. job[r] # NoJob /\ a \in Row1 /\ RowOK(a) /\ JobOK(job[r]) /\ Move(a, a)
  BY <1>1, RowFacts DEF CoachOps
<1>3. k \in Coaches /\ k # None
  BY <1>1, JobFacts DEF CoachOps
<1>4. a.cocoach # k /\ a.status # "none"
  BY <1>1, <1>2 DEF JobOK, Row, Declared, CoachOps
<1>5. b \in Row1 /\ b.owner = k /\ b.cocoach = a.cocoach /\ b.status = "coach_approved"
      /\ b.answer = a.answer
  BY <1>2, <1>3 DEF Row1, Statuses
<1>6. StillOpen(r) => a.status \notin Closed
  BY DEF StillOpen
<1> HIDE DEF a, b
<1>7. StillOpen(r) => Move(a, b)
  BY <1>2, <1>3, <1>4, <1>5, <1>6 DEF Move, RowOK, Closed
<1>8. CASE StillOpen(r)
  BY <1>1, <1>2, <1>7, <1>8, SaveKeeps DEF a
<1>9. CASE ~StillOpen(r)
  BY <1>1, <1>2, <1>9, SaveKeeps DEF a
<1>10. QED
  BY <1>8, <1>9

LEMMA ClaimMoves ==
  ASSUME LeadsInv, NEW r \in Requests, Claim(r)
  PROVE  LeadsInv' /\ RowsKept
<1> DEFINE a == Row(r)
           k == job[r].coach
           blocks == ClaimBlocked(job[r].lead)
<1>1. job[r].op = "claim" /\ Save(r, IF blocks THEN a ELSE Taken(a, k)) /\ End(r)
      /\ active' = active
  BY DEF Claim, At, Done, around
<1>2. job[r] # NoJob /\ a \in Row1 /\ RowOK(a) /\ JobOK(job[r]) /\ Move(a, a)
  BY <1>1, RowFacts DEF CoachOps
<1>3. k \in Coaches
  BY <1>1, JobFacts DEF CoachOps
<1>4. ~blocks => a.status \in Open
  BY <1>1, <1>2 DEF ClaimBlocked, Row, JobOK, CoachOps, Declared, Row1, Statuses, Open, Closed
<1> HIDE DEF a, k, blocks
<1>5. ~blocks => Move(a, Taken(a, k))
  BY <1>2, <1>3, <1>4, TakenMoves
<1>6. CASE blocks
  BY <1>1, <1>2, <1>6, SaveKeeps DEF a
<1>7. CASE ~blocks
  BY <1>1, <1>2, <1>5, <1>7, SaveKeeps DEF a
<1>8. QED
  BY <1>6, <1>7

LEMMA StartMoves ==
  ASSUME LeadsInv, NEW r \in Requests, StartReview(r)
  PROVE  LeadsInv' /\ RowsKept
<1> DEFINE a == Row(r)
           k == job[r].coach
           t == Taken(a, k)
           b == [t EXCEPT !.status = "coach_reviewing"]
           can == Workable(r) /\ Row(r).status = "pending"
<1>1. job[r].op = "start" /\ Save(r, IF can THEN b ELSE a) /\ End(r) /\ active' = active
  BY DEF StartReview, At, Done, around
<1>2. job[r] # NoJob /\ a \in Row1 /\ RowOK(a) /\ Move(a, a)
  BY <1>1, RowFacts DEF CoachOps
<1>3. k \in Coaches
  BY <1>1, JobFacts DEF CoachOps
<1>4. can => a.status = "pending" /\ a.status \in Open
  BY DEF Open
<1> HIDE DEF a, k, can
<1>5. can => Move(a, t) /\ t \in Row1 /\ RowOK(t) /\ t.status = a.status
  BY <1>2, <1>3, <1>4, TakenMoves
<1>6. can => /\ b \in Row1 /\ b.owner = t.owner /\ b.cocoach = t.cocoach
             /\ b.answer = t.answer /\ b.status = "coach_reviewing"
  <2> HIDE DEF t
  <2>1. QED
    BY <1>5 DEF Row1, Statuses
<1> HIDE DEF t, b
<1>7. can => Move(a, b)
  BY <1>4, <1>5, <1>6 DEF Move, RowOK, Closed
<1>8. CASE can
  BY <1>1, <1>2, <1>7, <1>8, SaveKeeps DEF a
<1>9. CASE ~can
  BY <1>1, <1>2, <1>9, SaveKeeps DEF a
<1>10. QED
  BY <1>8, <1>9
LEMMA ScheduleMoves ==
  ASSUME LeadsInv, NEW r \in Requests, ScheduleCall(r)
  PROVE  LeadsInv' /\ RowsKept
<1> DEFINE a == Row(r)
           b == [a EXCEPT !.scheduled = TRUE]
           can == Workable(r)
<1>1. job[r].op = "schedule" /\ Save(r, IF can THEN b ELSE a) /\ End(r) /\ active' = active
  BY DEF ScheduleCall, At, Done, around
<1>2. job[r] # NoJob /\ a \in Row1 /\ RowOK(a) /\ Move(a, a)
  BY <1>1, RowFacts DEF CoachOps, WorkOps
<1> HIDE DEF a, can
<1>3. b \in Row1 /\ b.owner = a.owner /\ b.cocoach = a.cocoach /\ b.answer = a.answer
      /\ b.status = a.status
  BY <1>2 DEF Row1
<1> HIDE DEF b
<1>4. Move(a, b)
  BY <1>2, <1>3, SideMoves
<1>5. CASE can
  BY <1>1, <1>2, <1>4, <1>5, SaveKeeps DEF a
<1>6. CASE ~can
  BY <1>1, <1>2, <1>6, SaveKeeps DEF a
<1>7. QED
  BY <1>5, <1>6

LEMMA LogMoves ==
  ASSUME LeadsInv, NEW r \in Requests, LogCall(r)
  PROVE  LeadsInv' /\ RowsKept
<1> DEFINE a == Row(r)
           done == [a EXCEPT !.completed = TRUE]
           missed == Missed(a)
<1>1. job[r].op \in {"completed", "missed"} /\ End(r) /\ active' = active
  BY DEF LogCall, At, Done, around
<1>2. job[r] # NoJob /\ a \in Row1 /\ RowOK(a)
  BY <1>1, RowFacts DEF CoachOps, WorkOps
<1>3. UNCHANGED lead \/ Save(r, done) \/ Save(r, missed)
  BY DEF LogCall
<1> HIDE DEF a
<1>4. done \in Row1 /\ done.owner = a.owner /\ done.cocoach = a.cocoach
      /\ done.answer = a.answer /\ done.status = a.status
  BY <1>2 DEF Row1
<1>5. missed \in Row1 /\ missed.owner = a.owner /\ missed.cocoach = a.cocoach
      /\ missed.answer = a.answer /\ missed.status = a.status
  BY <1>2 DEF Row1, Missed
<1> HIDE DEF done, missed
<1>6. Move(a, done) /\ Move(a, missed)
  BY <1>2, <1>4, <1>5, SideMoves
<1>7. CASE UNCHANGED lead
  BY <1>1, <1>7, EndKeeps
<1>8. CASE Save(r, done)
  BY <1>1, <1>2, <1>6, <1>8, SaveKeeps DEF a
<1>9. CASE Save(r, missed)
  BY <1>1, <1>2, <1>6, <1>9, SaveKeeps DEF a
<1>10. QED
  BY <1>3, <1>7, <1>8, <1>9

LEMMA ConsentMoves ==
  ASSUME LeadsInv, NEW r \in Requests, RecordConsent(r)
  PROVE  LeadsInv' /\ RowsKept
<1> DEFINE a == Row(r)
           yes == At(r, "consent")
           c == [a.consents EXCEPT ![1] = yes]
           b == [a EXCEPT !.consents[1] = yes, !.status = IF yes THEN @ ELSE "declined"]
           can == Workable(r)
<1>1. job[r].op \in {"consent", "refuse"} /\ Save(r, IF can THEN b ELSE a) /\ End(r)
      /\ active' = active
  BY DEF RecordConsent, At, Done, around
<1>2. job[r] # NoJob /\ a \in Row1 /\ RowOK(a) /\ Move(a, a)
  BY <1>1, RowFacts DEF CoachOps, WorkOps
<1>3. can => a.status \in Open
  BY DEF Workable
<1>4. yes \in BOOLEAN
  BY DEF At
<1> HIDE DEF a, can, yes
<1>5. c \in BOOLEAN \X BOOLEAN
  BY <1>2, <1>4 DEF Row1
<1>6. b = [a EXCEPT !.consents = c, !.status = IF yes THEN a.status ELSE "declined"]
  BY <1>2 DEF Row1
<1> HIDE DEF b, c
<1>7. b \in Row1 /\ b.owner = a.owner /\ b.cocoach = a.cocoach /\ b.answer = a.answer
      /\ b.status \in {a.status, "declined"}
  BY <1>2, <1>5, <1>6 DEF Row1, Statuses
<1>8. can => Move(a, b)
  BY <1>2, <1>3, <1>7, SideMoves DEF Statuses
<1>9. CASE can
  BY <1>1, <1>2, <1>8, <1>9, SaveKeeps DEF a, b, yes
<1>10. CASE ~can
  BY <1>1, <1>2, <1>10, SaveKeeps DEF a
<1>11. QED
  BY <1>9, <1>10

\* The routed coach and the co-coach answer for the recipient, once.
LEMMA AnswerMoves ==
  ASSUME LeadsInv, NEW r \in Requests, RecordAnswer(r) \/ CoCoachAnswers(r)
  PROVE  LeadsInv' /\ RowsKept
<1> DEFINE a == Row(r)
<1>1. job[r].op \in {"answer yes", "answer no", "co yes", "co no"} /\ End(r) /\ active' = active
  BY DEF RecordAnswer, CoCoachAnswers, At, Done, around
<1>2. job[r] # NoJob /\ a \in Row1 /\ RowOK(a) /\ Move(a, a)
  BY <1>1, RowFacts DEF CoachOps, WorkOps, CoOps
<1>3. PICK yes \in BOOLEAN :
          \/ Save(r, a)
          \/ Save(r, Answered(a, yes)) /\ a.status \in Open /\ a.answer = "none"
  BY DEF RecordAnswer, CoCoachAnswers, Workable, Unanswered, At
<1> HIDE DEF a
<1>4. CASE Save(r, a)
  BY <1>1, <1>2, <1>4, SaveKeeps DEF a
<1>5. CASE Save(r, Answered(a, yes)) /\ a.status \in Open /\ a.answer = "none"
  <2>1. Move(a, Answered(a, yes))
    BY <1>2, <1>5, AnsweredMoves
  <2>2. QED
    BY <1>1, <1>2, <1>5, <2>1, SaveKeeps DEF a
<1>6. QED
  BY <1>3, <1>4, <1>5

LEMMA ShareMoves ==
  ASSUME LeadsInv, NEW r \in Requests, Share(r)
  PROVE  LeadsInv' /\ RowsKept
<1> DEFINE a == Row(r)
           b == [a EXCEPT !.status = "shared"]
<1>1. job[r].op = "share" /\ End(r) /\ active' = active
  BY DEF Share, At, Done, around
<1>2. job[r] # NoJob /\ a \in Row1 /\ RowOK(a) /\ Move(a, a)
  BY <1>1, RowFacts DEF CoachOps, WorkOps
<1>3. Save(r, a) \/ (Save(r, b) /\ a.status \in Open)
  BY DEF Share, Workable
<1> HIDE DEF a
<1>4. b \in Row1 /\ b.owner = a.owner /\ b.cocoach = a.cocoach /\ b.answer = a.answer
      /\ b.status = "shared"
  BY <1>2 DEF Row1, Statuses
<1> HIDE DEF b
<1>5. a.status \in Open => Move(a, b)
  BY <1>2, <1>4, SideMoves DEF Statuses
<1>6. CASE Save(r, a)
  BY <1>1, <1>2, <1>6, SaveKeeps DEF a
<1>7. CASE Save(r, b) /\ a.status \in Open
  BY <1>1, <1>2, <1>5, <1>7, SaveKeeps DEF a
<1>8. QED
  BY <1>3, <1>6, <1>7

\* A member's save brings back the whole row of the page: it is the same in all
\* that is final.
LEMMA MemberMoves ==
  ASSUME LeadsInv, NEW r \in Requests, MemberConsentSave(r)
  PROVE  LeadsInv' /\ RowsKept
<1> DEFINE a == Row(r)
           b == job[r].row
<1>1. job[r].op = "member" /\ Save(r, b) /\ End(r) /\ active' = active
  BY DEF MemberConsentSave, At, Done, around
<1>2. job[r] # NoJob /\ a \in Row1 /\ RowOK(a) /\ JobOK(job[r])
  BY <1>1, RowFacts
<1>3. b \in Row1
  BY <1>1, JobFacts
<1>4. RowOK(b) /\ a.status = "shared" /\ b.status = "shared" /\ b.answer = a.answer
      /\ b.cocoach = a.cocoach
  BY <1>1, <1>2 DEF JobOK, Row
<1> HIDE DEF a, b
<1>5. Move(a, b)
  BY <1>3, <1>4 DEF Move
<1>6. QED
  BY <1>1, <1>2, <1>5, SaveKeeps DEF a

LEMMA TerminateMoves ==
  ASSUME LeadsInv, NEW r \in Requests, BlockTerminate(r)
  PROVE  LeadsInv' /\ RowsKept
<1> DEFINE a == Row(r)
           b == [a EXCEPT !.status = "declined"]
<1>1. job[r].op = "terminate" /\ End(r) /\ active' = active
  BY DEF BlockTerminate, At, Done, around
<1>2. job[r] # NoJob /\ a \in Row1 /\ RowOK(a) /\ Move(a, a)
  BY <1>1, RowFacts
<1>3. Save(r, a) \/ (Save(r, b) /\ a.status \in Open)
  BY DEF BlockTerminate, InFlight
<1> HIDE DEF a
<1>4. b \in Row1 /\ b.owner = a.owner /\ b.cocoach = a.cocoach /\ b.answer = a.answer
      /\ b.status = "declined"
  BY <1>2 DEF Row1, Statuses
<1> HIDE DEF b
<1>5. a.status \in Open => Move(a, b)
  BY <1>2, <1>4, SideMoves DEF Statuses
<1>6. CASE Save(r, a)
  BY <1>1, <1>2, <1>6, SaveKeeps DEF a
<1>7. CASE Save(r, b) /\ a.status \in Open
  BY <1>1, <1>2, <1>5, <1>7, SaveKeeps DEF a
<1>8. QED
  BY <1>3, <1>6, <1>7

-----------------------------------------------------------------------------
(* The sweep writes stamps only *)

LEMMA SweepKeeps ==
  ASSUME LeadsInv, NEW s \in Sweeps, SweepStep(s) \/ SweepCrash(s)
  PROVE  LeadsInv' /\ RowsKept
<1>1. UNCHANGED <<job, active>>
  BY DEF SweepStep, SweepScan, SweepClaim, SweepSkip, SweepRecheck, SweepDeliver, SweepFail,
         SweepRelease, SweepCrash, Sweeping, around
<1>2. \/ UNCHANGED lead
      \/ lead' = [lead EXCEPT ![sweep[s].on].stamp = s]
      \/ lead' = [lead EXCEPT ![sweep[s].on] = Released(@, s)]
  BY DEF SweepStep, SweepScan, SweepClaim, SweepSkip, SweepRecheck, SweepDeliver, SweepFail,
         SweepRelease, SweepCrash
<1> DEFINE l == sweep[s].on
<1> HIDE DEF l
<1>3. PICK stamp \in Sweeps \cup {None} :
          UNCHANGED lead \/ lead' = [lead EXCEPT ![l] = [lead[l] EXCEPT !.stamp = stamp]]
  <2>1. CASE UNCHANGED lead
    BY <2>1
  <2>2. CASE lead' = [lead EXCEPT ![l].stamp = s]
    BY <2>2
  <2>3. CASE lead' = [lead EXCEPT ![l] = Released(@, s)]
    <3> DEFINE held == lead[l].stamp
    <3>1. CASE l \in Leads
      <4>1. held \in Sweeps \cup {None}
        BY <3>1 DEF LeadsInv, Row1
      <4>2. lead' = [lead EXCEPT ![l] = [lead[l] EXCEPT !.stamp = IF held = s THEN None ELSE held]]
        BY <2>3 DEF Released
      <4>3. QED
        BY <4>1, <4>2
    <3>2. CASE l \notin Leads
      BY <2>3, <3>2 DEF LeadsInv
    <3>3. QED
      BY <3>1, <3>2
  <2>4. QED
    BY <1>2, <2>1, <2>2, <2>3 DEF l
<1>4. CASE UNCHANGED lead
  BY <1>1, <1>4, QuietKeeps DEF LeadsInv
<1>5. CASE l \notin Leads
  BY <1>1, <1>3, <1>5, QuietKeeps DEF LeadsInv
<1>6. CASE l \in Leads /\ lead' = [lead EXCEPT ![l] = [lead[l] EXCEPT !.stamp = stamp]]
  <2> DEFINE a == lead[l]
             b == [a EXCEPT !.stamp = stamp]
  <2>1. a \in Row1 /\ RowOK(a)
    BY <1>6 DEF LeadsInv
  <2> HIDE DEF a
  <2>2. b \in Row1 /\ b.owner = a.owner /\ b.cocoach = a.cocoach /\ b.answer = a.answer
        /\ b.status = a.status
    BY <2>1 DEF Row1
  <2> HIDE DEF b
  <2>3. Move(a, b)
    BY <2>1, <2>2, SideMoves
  <2>4. lead' = [lead EXCEPT ![l] = b] /\ Move(lead[l], b)
    BY <1>6, <2>3 DEF a, b
  <2>5. job' \in [Requests -> Job] /\ \A r \in Requests : job'[r] = job[r]
    BY <1>1 DEF LeadsInv
  <2>6. QED
    BY <1>1, <1>6, <2>4, <2>5, MoveKeeps
<1>7. QED
  BY <1>3, <1>4, <1>5, <1>6

-----------------------------------------------------------------------------
(* The theorems *)

LEMMA InitInv == ASSUME Init PROVE LeadsInv
<1>1. NoLead \in Row1 /\ RowOK(NoLead) /\ NoLead.status = "none"
  BY DEF NoLead, Row1, RowOK
<1>2. NoJob \in Job /\ JobOK(NoJob) /\ NoJob.op # "create"
  BY DEF Job, JobOK, NoJob, CoachOps, WorkOps, CoOps
<1>3. \A l \in Leads : lead[l] = NoLead /\ ~Declared(l)
  BY <1>1 DEF Init, Declared
<1>4. lead \in [Leads -> Row1] /\ job \in [Requests -> Job] /\ active \subseteq Coaches
  BY <1>1, <1>2 DEF Init
<1>5. \A r \in Requests : job[r] = NoJob
  BY DEF Init
<1>6. QED
  BY <1>1, <1>2, <1>3, <1>4, <1>5 DEF LeadsInv, OneCounter, At, OneCrushPerEvent

\* A step declares a lead or leaves it as declared as it was.
LEMMA RequestKeeps ==
  ASSUME LeadsInv, NEW r \in Requests, RequestStep(r) \/ RequestBegin(r)
  PROVE  LeadsInv' /\ (RowsKept \/ (FinalKept /\ \E route \in Routes : DeclareCreate(r, route)))
<1>1. CASE RequestStep(r)
  BY <1>1, CountKeeps, CreateKeeps, NotesMove, ApproveMoves, ClaimMoves, StartMoves,
     ScheduleMoves, LogMoves, ConsentMoves, AnswerMoves, ShareMoves, MemberMoves,
     TerminateMoves DEF RequestStep
<1>2. CASE RequestBegin(r)
  BY <1>2, OthersBegin, MemberBegins, CoachBegins DEF RequestBegin
<1>3. QED
  BY <1>1, <1>2

LEMMA AroundKeeps ==
  ASSUME LeadsInv, (\E k \in Coaches : SetActive(k)) \/ DayPasses \/ UNCHANGED vars
  PROVE  LeadsInv' /\ RowsKept
<1>1. CASE \E k \in Coaches : SetActive(k)
  BY <1>1, QuietKeeps DEF SetActive, LeadsInv
<1>2. CASE DayPasses
  BY <1>2, QuietKeeps DEF DayPasses, around, LeadsInv
<1>3. CASE UNCHANGED vars
  BY <1>3, QuietKeeps DEF vars, around, LeadsInv
<1>4. QED
  BY <1>1, <1>2, <1>3

LEMMA StepKeeps ==
  ASSUME LeadsInv, [Next]_vars
  PROVE  LeadsInv' /\ FinalKept
  BY RequestKeeps, AroundKeeps, SweepKeeps DEF Next, RowsKept

\* The inductive invariant: the rows' owners and halves, what requests remember,
\* and one declaration counted at a time.
THEOREM LeadsInvariant == Spec => []LeadsInv
<1>1. Init => LeadsInv
  BY InitInv
<1>2. LeadsInv /\ [Next]_vars => LeadsInv'
  BY StepKeeps
<1>3. QED
  BY <1>1, <1>2, PTL DEF Spec

\* One crush per member and event, from any number of tabs (declare_crush).
THEOREM CrushesAreSingle == Spec => []OneCrushPerEvent
<1>1. LeadsInv => OneCrushPerEvent
  BY DEF LeadsInv
<1>2. QED
  BY <1>1, LeadsInvariant, PTL

\* The coach of a lead and its co-coach are two people, for any coaches and
\* whoever took the lead over (coach_connection_review, "claim").
THEOREM HalvesHaveTwoCoaches == Spec => []OneCoachPerHalf
<1>1. LeadsInv => OneCoachPerHalf
  BY DEF LeadsInv, RowOK, OneCoachPerHalf
<1>2. QED
  BY <1>1, LeadsInvariant, PTL

\* Closed leads stay closed and answers stay as given, from however old a page
\* somebody acts (coach_connection_review, coach_crush_outreach_task).
THEOREM ClosedStaysClosed == Spec => FinalStaysFinal
<1>1. LeadsInv /\ [Next]_vars => FinalKept
  BY StepKeeps
<1>2. LeadsInv /\ [Next]_vars =>
        [\A l \in Leads :
            /\ lead[l].status \in Closed => lead'[l].status = lead[l].status
            /\ lead[l].answer # "none" => lead'[l].answer = lead[l].answer]_vars
  BY <1>1 DEF FinalKept
<1>3. QED
  BY <1>2, LeadsInvariant, PTL DEF Spec, FinalStaysFinal

-----------------------------------------------------------------------------
(* Types: the queue holds the declared leads once each, a sweep is on a lead *)
(* of its list, and every arming has cost a coach's action.                  *)

QueueOK ==
    /\ queue \in Seq(Leads) /\ ToSet(queue) = {l \in Leads : Declared(l)} /\ IsInjective(queue)
    /\ old \in 0..Len(queue)

SweepOK(x) ==
    /\ x \in SweepType /\ \A l \in x.todo : Declared(l)
    /\ x = Resting \/ (x.at # "rest" /\ x.on \in x.todo)
SweepsOK == sweep \in [Sweeps -> SweepType] /\ \A s \in Sweeps : SweepOK(sweep[s])

\* Calls that did not happen and are about to be logged.
Missing(l) == {r \in Requests : At(r, "missed") /\ job[r].lead = l}
CountOK ==
    /\ acts \in 0..MaxActs /\ arming \in [Leads -> Nat]
    /\ \A l \in Leads : IsFiniteSet(Missing(l)) /\ arming[l] + Cardinality(Missing(l)) <= acts

ToldOK == told \in [Leads -> [0..MaxActs -> Nat]]
TypesInv == QueueOK /\ SweepsOK /\ CountOK /\ ToldOK /\ blocked \subseteq Leads

LEMMA LeastNatural ==
  ASSUME NEW S \in SUBSET Nat, S # {}
  PROVE  \E m \in S : \A k \in S : m <= k
<1>1. PICK m \in S : \A k \in S : <<k, m>> \notin OpToRel(<, Nat)
  BY WFMin, NatLessThanWellFounded, Zenon
<1>2. \A k \in S : ~(k < m)
  BY <1>1, Zenon DEF OpToRel
<1>3. QED
  BY <1>2

\* The earliest of some declared leads is one of them.
LEMMA EarliestIn ==
  ASSUME QueueOK, NEW S, S # {}, \A l \in S : l \in Leads /\ Declared(l)
  PROVE  Earliest(S) \in S
<1> DEFINE places == {i \in DOMAIN queue : queue[i] \in S}
<1>1. places \in SUBSET Nat
  BY DEF QueueOK
<1>2. places # {}
  BY DEF QueueOK, ToSet
<1>3. PICK m \in places : \A k \in places : m <= k
  BY <1>1, <1>2, LeastNatural
<1>4. (CHOOSE i \in places : \A k \in places : i <= k) \in places
  BY <1>3
<1>5. QED
  BY <1>4 DEF Earliest

LEMMA TurnedOK ==
  ASSUME LeadsInv, QueueOK, NEW S, \A l \in S : l \in Leads /\ Declared(l)
  PROVE  SweepOK(Turned(S))
<1>1. Resting \in SweepType
  BY LeadsAssumption DEF Resting, SweepType
<1>2. CASE S = {}
  BY <1>1, <1>2 DEF Turned, SweepOK, Resting
<1>3. CASE S # {}
  <2> DEFINE x == [Resting EXCEPT !.at = "next"]
             y == [x EXCEPT !.on = Earliest(S)]
             z == [y EXCEPT !.todo = S]
  <2>1. Earliest(S) \in S /\ Earliest(S) \in Leads \cup {None}
    BY <1>3, EarliestIn
  <2>2. x \in SweepType /\ x.at = "next"
    BY <1>1 DEF SweepType
  <2> HIDE DEF x
  <2>3. y \in SweepType /\ y.at = "next" /\ y.on = Earliest(S)
    BY <2>1, <2>2 DEF SweepType
  <2>4. Turned(S) = z
    BY <1>3 DEF Turned, x
  <2> HIDE DEF y
  <2>5. z \in SweepType /\ z.at = "next" /\ z.on = Earliest(S) /\ z.todo = S
    BY <2>3 DEF SweepType
  <2> HIDE DEF z
  <2>6. QED
    BY <2>1, <2>4, <2>5 DEF SweepOK
<1>4. QED
  BY <1>2, <1>3

\* Steps that declare nothing and leave the sweeps alone, or send one on.
LEMMA QueueStays ==
  ASSUME QueueOK, UNCHANGED queue, old' \in 0..Len(queue), RowsKept
  PROVE  QueueOK'
  BY DEF QueueOK, RowsKept

LEMMA SweepsStay ==
  ASSUME SweepsOK, UNCHANGED sweep, \A l \in Leads : Declared(l) => Declared(l)'
  PROVE  SweepsOK'
<1>1. \A s \in Sweeps : \A l \in sweep[s].todo : l \in Leads /\ Declared(l)'
  BY DEF SweepsOK, SweepOK, SweepType
<1>2. QED
  BY <1>1 DEF SweepsOK, SweepOK

LEMMA SweepMoves ==
  ASSUME SweepsOK, NEW s \in Sweeps, NEW x, SweepOK(x), RowsKept,
         sweep' = [sweep EXCEPT ![s] = x]
  PROVE  SweepsOK'
<1>1. sweep' \in [Sweeps -> SweepType] /\ \A t \in Sweeps : sweep'[t] \in {x, sweep[t]}
  BY DEF SweepsOK, SweepOK
<1>2. ASSUME NEW t \in Sweeps PROVE SweepOK(sweep[t])'
  <2>1. SweepOK(sweep'[t])
    BY <1>1 DEF SweepsOK
  <2>2. \A l \in sweep'[t].todo : l \in Leads /\ Declared(l)'
    BY <2>1 DEF SweepOK, SweepType, RowsKept
  <2>3. QED
    BY <2>1, <2>2 DEF SweepOK
<1>3. QED
  BY <1>1, <1>2 DEF SweepsOK

\* A new lead is the last of the queue.
LEMMA QueueGrows ==
  ASSUME LeadsInv, QueueOK, NEW r \in Requests, NEW route \in Routes, DeclareCreate(r, route)
  PROVE  QueueOK' /\ \A l \in Leads : Declared(l) => Declared(l)'
<1> DEFINE m == job[r].lead
           b == [NoLead EXCEPT !.status = "pending", !.owner = route[1], !.cocoach = route[2]]
<1>1. m \in Leads /\ UNCHANGED old
  BY JobFacts DEF DeclareCreate, At, NoJob
<1>2. CASE UNCHANGED <<lead, queue>>
  BY <1>1, <1>2 DEF QueueOK, Declared
<1>3. CASE lead' = [lead EXCEPT ![m] = b] /\ ~Declared(m) /\ queue' = Append(queue, m)
  <2>1. b.status = "pending"
    BY DEF NoLead
  <2> HIDE DEF b, m
  <2>2. \A l \in Leads : Declared(l)' <=> Declared(l) \/ l = m
    BY <1>1, <1>3, <2>1 DEF Declared, LeadsInv
  <2>3. /\ queue' \in Seq(Leads) /\ Len(queue') = Len(queue) + 1
        /\ queue'[Len(queue) + 1] = m /\ \A i \in 1..Len(queue) : queue'[i] = queue[i]
    BY <1>1, <1>3 DEF QueueOK
  <2>4. DOMAIN queue = 1..Len(queue) /\ DOMAIN queue' = 1..(Len(queue) + 1) /\ Len(queue) \in Nat
    BY <2>3 DEF QueueOK
  <2>5. \A i \in DOMAIN queue : queue[i] \in Leads /\ Declared(queue[i]) /\ queue[i] # m
    BY <1>3 DEF QueueOK, ToSet
  <2>6. ToSet(queue') = ToSet(queue) \cup {m}
    BY <2>3, <2>4 DEF ToSet
  <2>7. IsInjective(queue')
    BY <2>3, <2>4, <2>5 DEF QueueOK, IsInjective
  <2>8. ToSet(queue') = {l \in Leads : Declared(l)'}
    BY <1>1, <2>2, <2>6 DEF QueueOK
  <2>9. QED
    BY <1>1, <2>2, <2>3, <2>4, <2>7, <2>8 DEF QueueOK
<1>4. QED
  BY <1>2, <1>3 DEF DeclareCreate

-----------------------------------------------------------------------------
(* Counting the calls that did not happen *)

LEMMA FewerMissing ==
  ASSUME CountOK, acts' \in acts..MaxActs, UNCHANGED arming,
         \A r \in Requests : At(r, "missed")' => At(r, "missed") /\ job'[r] = job[r]
  PROVE  CountOK'
<1>1. ASSUME NEW l \in Leads
      PROVE  IsFiniteSet(Missing(l)') /\ arming[l] + Cardinality(Missing(l)') <= acts
  <2>1. Missing(l)' \in SUBSET Missing(l)
    BY DEF Missing
  <2>2. IsFiniteSet(Missing(l)') /\ Cardinality(Missing(l)') <= Cardinality(Missing(l))
    BY <2>1, FS_Subset DEF CountOK
  <2>3. Cardinality(Missing(l)') \in Nat /\ Cardinality(Missing(l)) \in Nat
    BY <2>2, FS_CardinalityType DEF CountOK
  <2>4. QED
    BY <2>2, <2>3 DEF CountOK
<1>2. \A l \in Leads : Cardinality(Missing(l)') \in Nat
  BY <1>1, FS_CardinalityType
<1>3. QED
  BY <1>1, <1>2 DEF CountOK

LEMMA OneMoreMissing ==
  ASSUME LeadsInv, CountOK, acts < MaxActs, acts' = acts + 1, UNCHANGED arming,
         NEW r \in Requests, NEW j, Begin(r, j)
  PROVE  CountOK'
<1>1. \A q \in Requests \ {r} : job'[q] = job[q]
  BY DEF LeadsInv, Begin
<1>2. ASSUME NEW l \in Leads
      PROVE  IsFiniteSet(Missing(l)') /\ arming[l] + Cardinality(Missing(l)') <= acts + 1
  <2>1. IsFiniteSet(Missing(l) \cup {r})
        /\ Cardinality(Missing(l) \cup {r}) <= Cardinality(Missing(l)) + 1
    <3>1. IsFiniteSet(Missing(l)) /\ Cardinality(Missing(l)) \in Nat
      BY FS_CardinalityType DEF CountOK
    <3>2. /\ IsFiniteSet(Missing(l) \cup {r})
          /\ Cardinality(Missing(l) \cup {r}) = IF r \in Missing(l) THEN Cardinality(Missing(l))
                                                                    ELSE Cardinality(Missing(l)) + 1
      BY <3>1, FS_AddElement
    <3>3. QED
      BY <3>1, <3>2
  <2>2. Missing(l)' \in SUBSET (Missing(l) \cup {r})
    BY <1>1 DEF Missing, At
  <2>3. IsFiniteSet(Missing(l)') /\ Cardinality(Missing(l)') <= Cardinality(Missing(l) \cup {r})
    BY <2>1, <2>2, FS_Subset
  <2>4. /\ Cardinality(Missing(l)') \in Nat /\ Cardinality(Missing(l)) \in Nat
        /\ Cardinality(Missing(l) \cup {r}) \in Nat
    BY <2>1, <2>3, FS_CardinalityType DEF CountOK
  <2>5. QED
    BY <2>1, <2>3, <2>4 DEF CountOK
<1>3. acts' \in 0..MaxActs
  BY LeadsAssumption DEF CountOK
<1>4. QED
  BY <1>2, <1>3 DEF CountOK

\* The lead is armed again by a call whose action is counted.
LEMMA MissedCounts ==
  ASSUME LeadsInv, CountOK, NEW r \in Requests, At(r, "missed"), End(r), UNCHANGED acts,
         arming' = [arming EXCEPT ![job[r].lead] = @ + 1]
  PROVE  CountOK'
<1> DEFINE m == job[r].lead
<1>1. m \in Leads
  BY JobFacts DEF At, NoJob
<1>2. job' = [job EXCEPT ![r] = NoJob]
  BY DEF End, Begin
<1>3. \A q \in Requests \ {r} : job'[q] = job[q]
  BY <1>2 DEF LeadsInv
<1>4. job'[r].op # "missed"
  BY <1>2 DEF LeadsInv, NoJob
<1>5. \A l \in Leads : arming'[l] = IF l = m THEN arming[l] + 1 ELSE arming[l]
  BY <1>1 DEF CountOK
<1>6. ASSUME NEW l \in Leads
      PROVE  IsFiniteSet(Missing(l)') /\ arming'[l] + Cardinality(Missing(l)') <= acts
  <2>1. Missing(l)' = Missing(l) \ {r}
    BY <1>3, <1>4 DEF Missing, At
  <2>2. l = m => r \in Missing(l)
    BY DEF Missing
  <2>3. Cardinality(Missing(l)) \in Nat
    BY FS_CardinalityType DEF CountOK
  <2>4. IsFiniteSet(Missing(l) \ {r})
        /\ Cardinality(Missing(l) \ {r}) = IF r \in Missing(l) THEN Cardinality(Missing(l)) - 1
                                                            ELSE Cardinality(Missing(l))
    BY FS_RemoveElement DEF CountOK
  <2> HIDE DEF m
  <2>5. arming[l] \in Nat /\ arming[l] + Cardinality(Missing(l)) <= acts /\ acts \in Nat
    BY DEF CountOK
  <2>6. Cardinality(Missing(l) \ {r}) \in Nat
    BY <2>4, FS_CardinalityType
  <2>7. QED
    BY <1>5, <2>1, <2>2, <2>3, <2>4, <2>5, <2>6
<1>7. arming' \in [Leads -> Nat]
  BY <1>1 DEF CountOK
<1>8. QED
  BY <1>6, <1>7 DEF CountOK

-----------------------------------------------------------------------------
(* The types, step by step *)

\* What a request does to the counts.
LEMMA RequestCounts ==
  ASSUME LeadsInv, CountOK, NEW r \in Requests, RequestStep(r) \/ RequestBegin(r)
  PROVE  CountOK'
<1>1. CASE \E l \in Leads, k \in Coaches, op \in CoachOps : CoachBegin(r, k, l, op)
  BY <1>1, OneMoreMissing DEF CoachBegin
<1>2. CASE \E l \in Leads, who \in {1, 2}, yes \in BOOLEAN : MemberConsentBegin(r, l, who, yes)
  BY <1>2, OneMoreMissing DEF MemberConsentBegin
<1>3. CASE \E l \in Leads : DeclareBegin(r, l) \/ BlockBegin(r, l)
  <2>1. PICK j : Begin(r, j) /\ j.op # "missed"
    BY <1>3 DEF DeclareBegin, BlockBegin
  <2>2. UNCHANGED <<acts, arming>>
    BY <1>3 DEF DeclareBegin, BlockBegin
  <2>3. \A q \in Requests : At(q, "missed")' => At(q, "missed") /\ job'[q] = job[q]
    BY <2>1 DEF Begin, At, LeadsInv
  <2>4. QED
    BY <2>2, <2>3, FewerMissing DEF CountOK
<1>4. CASE RequestStep(r)
  <2> DEFINE create == [op |-> "create", lead |-> job[r].lead]
  <2>0. End(r) \/ Begin(r, create)
    BY <1>4 DEF RequestStep, DeclareCount, DeclareCreate, SaveNotes, Approve, Claim, StartReview,
               ScheduleCall, LogCall, RecordConsent, RecordAnswer, CoCoachAnswers, Share,
               MemberConsentSave, BlockTerminate, Done
  <2>1. PICK j : Begin(r, j) /\ j.op # "missed"
    <3>1. create.op # "missed" /\ NoJob.op # "missed"
      BY DEF NoJob
    <3> HIDE DEF create
    <3>2. QED
      BY <2>0, <3>1 DEF End
  <2>2. \A q \in Requests : At(q, "missed")' => At(q, "missed") /\ job'[q] = job[q]
    BY <2>1 DEF Begin, At, LeadsInv
  <2>3. CASE UNCHANGED <<acts, arming>>
    BY <2>2, <2>3, FewerMissing DEF CountOK
  <2>4. CASE /\ LogCall(r) /\ ~UNCHANGED arming
    <3>1. /\ At(r, "missed") /\ End(r) /\ UNCHANGED acts
          /\ arming' = [arming EXCEPT ![job[r].lead] = @ + 1]
      BY <2>4 DEF LogCall, Done
    <3>2. QED
      BY <3>1, MissedCounts
  <2>5. QED
    BY <1>4, <2>3, <2>4
       DEF RequestStep, DeclareCount, DeclareCreate, SaveNotes, Approve, Claim, StartReview,
           ScheduleCall, LogCall, RecordConsent, RecordAnswer, CoCoachAnswers, Share,
           MemberConsentSave, BlockTerminate, Done
<1>5. QED
  BY <1>1, <1>2, <1>3, <1>4 DEF RequestBegin

LEMMA RequestTypes ==
  ASSUME LeadsInv, TypesInv, NEW r \in Requests, RequestStep(r) \/ RequestBegin(r)
  PROVE  TypesInv'
<1>1. CountOK'
  BY RequestCounts DEF TypesInv
<1>2. UNCHANGED <<sweep, told>> /\ blocked' \subseteq Leads
  BY DEF RequestStep, RequestBegin, DeclareBegin, BlockBegin, MemberConsentBegin, CoachBegin,
         DeclareCount, DeclareCreate, SaveNotes, Approve, Claim, StartReview, ScheduleCall, LogCall,
         RecordConsent, RecordAnswer, CoCoachAnswers, Share, MemberConsentSave, BlockTerminate,
         Done, around, reminding, TypesInv
<1>3. QueueOK' /\ \A l \in Leads : Declared(l) => Declared(l)'
  <2>1. CASE \E route \in Routes : DeclareCreate(r, route)
    BY <2>1, QueueGrows DEF TypesInv
  <2>2. CASE UNCHANGED <<queue, old>> /\ RowsKept
    <3>1. old' \in 0..Len(queue)
      BY <2>2 DEF TypesInv, QueueOK
    <3>2. QED
      BY <2>2, <3>1, QueueStays DEF TypesInv, RowsKept
  <2>3. \/ UNCHANGED <<queue, old>> \/ \E route \in Routes : DeclareCreate(r, route)
    BY DEF RequestStep, RequestBegin, DeclareBegin, BlockBegin, MemberConsentBegin, CoachBegin,
           DeclareCount, SaveNotes, Approve, Claim, StartReview, ScheduleCall, LogCall,
           RecordConsent, RecordAnswer, CoCoachAnswers, Share, MemberConsentSave, BlockTerminate,
           Done
  <2>4. RowsKept \/ \E route \in Routes : DeclareCreate(r, route)
    BY RequestKeeps
  <2>5. QED
    BY <2>1, <2>2, <2>3, <2>4
<1>4. QED
  BY <1>1, <1>2, <1>3, SweepsStay DEF TypesInv, ToldOK

LEMMA AroundTypes ==
  ASSUME LeadsInv, TypesInv, (\E k \in Coaches : SetActive(k)) \/ DayPasses \/ UNCHANGED vars
  PROVE  TypesInv'
<1>1. RowsKept
  BY AroundKeeps
<1>2. UNCHANGED <<job, queue, blocked, sweep, told, acts, arming>>
  BY DEF SetActive, DayPasses, vars, around, reminding
<1>3. old' \in 0..Len(queue)
  BY DEF SetActive, DayPasses, vars, TypesInv, QueueOK
<1>4. CountOK'
  BY <1>2 DEF TypesInv, CountOK, Missing, At
<1>5. QED
  BY <1>1, <1>2, <1>3, <1>4, QueueStays, SweepsStay DEF TypesInv, ToldOK, RowsKept

\* A sweep at work on a lead.
LEMMA AtWork ==
  ASSUME TypesInv, NEW s \in Sweeps, sweep[s].at # "rest"
  PROVE  /\ sweep[s] \in SweepType /\ sweep[s].on \in sweep[s].todo /\ sweep[s].on \in Leads
         /\ sweep[s].arming \in 0..MaxActs /\ \A l \in sweep[s].todo : l \in Leads /\ Declared(l)
<1>1. SweepOK(sweep[s])
  BY DEF TypesInv, SweepsOK
<1>2. sweep[s] # Resting
  BY DEF Resting
<1>3. QED
  BY <1>1, <1>2 DEF SweepOK, SweepType

\* The sweep's own record after its step.
LEMMA RecordMoves ==
  ASSUME LeadsInv, TypesInv, NEW s \in Sweeps, SweepStep(s) \/ SweepCrash(s)
  PROVE  \E x : SweepOK(x) /\ sweep' = [sweep EXCEPT ![s] = x]
<1>1. SweepOK(Resting)
  BY LeadsAssumption DEF SweepOK, Resting, SweepType
<1>2. CASE SweepScan(s)
  <2> DEFINE todo == {l \in Leads : DayOld(l) /\ Due(l)}
  <2>1. sweep' = [sweep EXCEPT ![s] = Turned(todo)]
    BY <1>2 DEF SweepScan
  <2>2. \A l \in todo : l \in Leads /\ Declared(l)
    BY DEF Due, Untouched, Open, Declared
  <2> HIDE DEF todo
  <2>3. QED
    BY <2>1, <2>2, TurnedOK DEF TypesInv
<1>3. ASSUME sweep[s].at # "rest", NextLead(s) \/ Rest(s)
      PROVE  \E x : SweepOK(x) /\ sweep' = [sweep EXCEPT ![s] = x]
  <2> DEFINE rest == sweep[s].todo \ {sweep[s].on}
  <2>1. \/ sweep' = [sweep EXCEPT ![s] = Turned(rest)]
        \/ sweep' = [sweep EXCEPT ![s] = Resting]
    BY <1>3 DEF NextLead, Rest
  <2>2. \A l \in rest : l \in Leads /\ Declared(l)
    BY <1>3, AtWork
  <2> HIDE DEF rest
  <2>3. SweepOK(Turned(rest))
    BY <2>2, TurnedOK DEF TypesInv
  <2>4. QED
    BY <1>1, <2>1, <2>3
<1>4. ASSUME sweep[s].at # "rest", NEW at \in {"sending", "release"}, GoTo(s, at)
      PROVE  \E x : SweepOK(x) /\ sweep' = [sweep EXCEPT ![s] = x]
  <2> DEFINE x == [sweep[s] EXCEPT !.at = at]
  <2>1. x \in SweepType /\ x.on = sweep[s].on /\ x.todo = sweep[s].todo /\ x.at = at
    BY <1>4, AtWork DEF SweepType
  <2>2. sweep' = [sweep EXCEPT ![s] = x]
    BY <1>4 DEF GoTo
  <2> HIDE DEF x
  <2>3. SweepOK(x)
    BY <1>4, <2>1, AtWork DEF SweepOK
  <2>4. QED
    BY <2>2, <2>3
<1>5. CASE SweepClaim(s)
  <2> DEFINE l == sweep[s].on
             x == [sweep[s] EXCEPT !.at = "claimed"]
             y == [x EXCEPT !.coach = lead[l].owner]
             z == [y EXCEPT !.arming = arming[l]]
  <2>1. sweep[s].at # "rest" /\ l \in Leads
    BY <1>5, AtWork DEF SweepClaim
  <2>2. lead[l].owner \in Coaches \cup {None} /\ arming[l] \in 0..MaxActs
    <3>1. arming[l] \in Nat /\ Cardinality(Missing(l)) \in Nat
          /\ arming[l] + Cardinality(Missing(l)) <= acts /\ acts \in 0..MaxActs
      BY <2>1, FS_CardinalityType DEF TypesInv, CountOK
    <3>2. QED
      BY <2>1, <3>1, LeadsAssumption DEF LeadsInv, Row1
  <2>3. sweep' = [sweep EXCEPT ![s] = z]
    BY <1>5 DEF SweepClaim
  <2>4. x \in SweepType /\ x.at = "claimed" /\ x.on = sweep[s].on /\ x.todo = sweep[s].todo
    BY <2>1, AtWork DEF SweepType
  <2> HIDE DEF x, l
  <2>5. y \in SweepType /\ y.at = "claimed" /\ y.on = sweep[s].on /\ y.todo = sweep[s].todo
    BY <2>2, <2>4 DEF SweepType
  <2> HIDE DEF y
  <2>6. z \in SweepType /\ z.at = "claimed" /\ z.on = sweep[s].on /\ z.todo = sweep[s].todo
    BY <2>2, <2>5 DEF SweepType
  <2> HIDE DEF z
  <2>7. SweepOK(z)
    BY <2>1, <2>6, AtWork DEF SweepOK
  <2>8. QED
    BY <2>3, <2>7
<1>6. CASE SweepRecheck(s) \/ SweepFail(s)
  BY <1>4, <1>6 DEF SweepRecheck, SweepFail
<1>7. CASE SweepSkip(s) \/ SweepDeliver(s) \/ SweepRelease(s) \/ SweepCrash(s)
  BY <1>3, <1>7 DEF SweepSkip, SweepDeliver, SweepRelease, SweepCrash
<1>8. QED
  BY <1>2, <1>5, <1>6, <1>7 DEF SweepStep

LEMMA SweepTypes ==
  ASSUME LeadsInv, TypesInv, NEW s \in Sweeps, SweepStep(s) \/ SweepCrash(s)
  PROVE  TypesInv'
<1>1. RowsKept
  BY SweepKeeps
<1>2. UNCHANGED <<job, queue, old, blocked, acts, arming>>
  BY DEF SweepStep, SweepScan, SweepClaim, SweepSkip, SweepRecheck, SweepDeliver, SweepFail,
         SweepRelease, SweepCrash, Sweeping, around
<1>3. SweepsOK'
  BY <1>1, RecordMoves, SweepMoves DEF TypesInv
<1>4. CountOK'
  BY <1>2 DEF TypesInv, CountOK, Missing, At
<1>5. ToldOK'
  <2>1. CASE UNCHANGED told
    BY <2>1 DEF TypesInv, ToldOK
  <2>2. CASE SweepDeliver(s)
    <3>1. PICK l \in Leads, n \in 0..MaxActs : l = sweep[s].on /\ n = sweep[s].arming
      BY <2>2, AtWork DEF SweepDeliver
    <3>2. told[l] \in [0..MaxActs -> Nat]
      BY DEF TypesInv, ToldOK
    <3>3. told[l][n] + 1 \in Nat
      <4>1. told[l][n] \in Nat
        BY <3>2, Zenon
      <4>2. QED
        BY <4>1
    <3> DEFINE x == [told[l] EXCEPT ![n] = @ + 1]
    <3>4. x \in [0..MaxActs -> Nat]
      BY <3>2, <3>3
    <3>5. told' = [told EXCEPT ![l] = x]
      BY <2>2, <3>1 DEF SweepDeliver
    <3> HIDE DEF x
    <3>6. QED
      BY <3>4, <3>5 DEF TypesInv, ToldOK
  <2>3. QED
    BY <2>1, <2>2 DEF SweepStep, SweepScan, SweepClaim, SweepSkip, SweepRecheck, SweepFail,
                      SweepRelease, SweepCrash
<1>6. old' \in 0..Len(queue)
  BY <1>2 DEF TypesInv, QueueOK
<1>7. QED
  BY <1>1, <1>2, <1>3, <1>4, <1>5, <1>6, QueueStays DEF TypesInv

LEMMA InitTypes == ASSUME Init PROVE TypesInv
<1>1. \A l \in Leads : ~Declared(l)
  BY DEF Init, Declared, NoLead
<1>2. QueueOK
  BY <1>1 DEF Init, QueueOK, ToSet, IsInjective
<1>3. SweepsOK
  BY LeadsAssumption DEF Init, SweepsOK, SweepOK, SweepType, Resting
<1>4. \A l \in Leads : Missing(l) = {}
  BY DEF Init, Missing, At, NoJob
<1>5. CountOK
  <2>1. \A l \in Leads : IsFiniteSet(Missing(l)) /\ Cardinality(Missing(l)) = 0
    BY <1>4, FS_EmptySet
  <2>2. QED
    BY <2>1, LeadsAssumption DEF Init, CountOK
<1>6. QED
  BY <1>2, <1>3, <1>5 DEF Init, TypesInv, ToldOK

\* What the types need: the queue and the declared leads agree, and so do the
\* armings and the actions they cost.
THEOREM TypesInvariant == Spec => []TypesInv
<1>1. Init => TypesInv
  BY InitTypes
<1>2. LeadsInv /\ TypesInv /\ [Next]_vars => TypesInv'
  BY RequestTypes, AroundTypes, SweepTypes DEF Next
<1>3. QED
  BY <1>1, <1>2, LeadsInvariant, PTL DEF Spec

\* Every variable has its type: the queue holds each declared lead once, and a
\* sweep at work is on a declared lead of its list (sweep_lead_reminders).
THEOREM LeadsTypeCorrect == Spec => []TypeOK
<1>1. LeadsInv /\ TypesInv => TypeOK
  <2> SUFFICES ASSUME LeadsInv, TypesInv PROVE TypeOK
    OBVIOUS
  <2>1. \A l \in Leads : arming[l] \in 0..MaxActs
    <3> TAKE l \in Leads
    <3>1. arming[l] \in Nat /\ Cardinality(Missing(l)) \in Nat
          /\ arming[l] + Cardinality(Missing(l)) <= acts /\ acts \in 0..MaxActs
      BY FS_CardinalityType DEF TypesInv, CountOK
    <3>2. QED
      BY <3>1, LeadsAssumption
  <2>2. arming \in [Leads -> 0..MaxActs]
    BY <2>1 DEF TypesInv, CountOK
  <2>3. \A l \in Leads : lead[l] \in Row1
    BY DEF LeadsInv
  <2>4. QED
    BY <2>2, <2>3 DEF LeadsInv, TypesInv, QueueOK, SweepsOK, SweepOK, ToldOK, TypeOK, Row1
<1>2. QED
  BY <1>1, TypesInvariant, LeadsInvariant, PTL

-----------------------------------------------------------------------------
(* Reminders: each claim is one push, and one claim per arming *)

Holding == {"claimed", "sending", "release"}
Claims(s, l) == sweep[s].at \in Holding /\ sweep[s].on = l
Fresh(l) == lead[l].status \notin Closed /\ lead[l].stamp = None

ToldTyped ==
    /\ arming \in [Leads -> Nat] /\ told \in [Leads -> [0..MaxActs -> Nat]]
    /\ sweep \in [Sweeps -> SweepType]

\* At most one push each, and none for an arming still to come.
ToldOnce ==
    \A l \in Leads, n \in 0..MaxActs : told[l][n] <= 1 /\ (n > arming[l] => told[l][n] = 0)

\* A sweep that holds a lead holds an arming of it: nobody was told yet, it is the
\* lead's last one while the stamp is the sweep's, and no other sweep holds it.
ClaimOK(s, l) ==
    Claims(s, l) =>
        /\ sweep[s].arming \in 0..arming[l]
        /\ sweep[s].arming \in 0..MaxActs => told[l][sweep[s].arming] = 0
        /\ lead[l].stamp = s /\ lead[l].status \notin Closed => sweep[s].arming = arming[l]
        /\ \A t \in Sweeps \ {s} : Claims(t, l) => sweep[t].arming # sweep[s].arming

\* A lead without a stamp is one whose last arming nobody told of and nobody holds.
FreshOK(l) ==
    Fresh(l) =>
        /\ arming[l] \in 0..MaxActs => told[l][arming[l]] = 0
        /\ \A s \in Sweeps : Claims(s, l) => sweep[s].arming # arming[l]

ToldInv ==
    /\ ToldOnce
    /\ \A s \in Sweeps, l \in Leads : ClaimOK(s, l)
    /\ \A l \in Leads : FreshOK(l)
    /\ \A l \in Leads : lead[l].status = "none" => lead[l].stamp = None

\* What a step that clears no stamp does to a lead.
StampKept(l) ==
    \/ lead'[l].status \in Closed
    \/ /\ lead'[l].stamp = lead[l].stamp
       /\ lead[l].status \notin Closed
       /\ lead'[l].status = "none" => lead[l].status = "none"

\* What a step that claims nothing does to the sweeps.
ClaimsShrink ==
    \A s \in Sweeps : sweep'[s].at \in Holding =>
        /\ sweep[s].at \in Holding
        /\ sweep'[s].on = sweep[s].on /\ sweep'[s].arming = sweep[s].arming

\* A step that claims nothing, tells nobody and clears no stamp.
LEMMA QuietTelling ==
  ASSUME ToldTyped, ToldInv, UNCHANGED <<told, arming>>, ClaimsShrink, \A l \in Leads : StampKept(l)
  PROVE  ToldInv'
<1>1. ToldOnce'
  BY DEF ToldInv, ToldTyped, ToldOnce, ClaimsShrink
<1>2. \A s \in Sweeps, l \in Leads :
          Claims(s, l)' => Claims(s, l) /\ sweep'[s].arming = sweep[s].arming
  BY DEF Claims, ClaimsShrink
<1>3. \A l \in Leads : Fresh(l)' => Fresh(l)
  BY DEF Fresh, StampKept
<1>4. \A s \in Sweeps, l \in Leads : ClaimOK(s, l)'
  <2> SUFFICES ASSUME NEW s \in Sweeps, NEW l \in Leads, Claims(s, l)' PROVE ClaimOK(s, l)'
    BY DEF ClaimOK
  <2>1. Claims(s, l) /\ sweep'[s].arming = sweep[s].arming /\ ClaimOK(s, l)
    BY <1>2 DEF ToldInv
  <2>2. lead'[l].stamp = s /\ lead'[l].status \notin Closed
            => lead[l].stamp = s /\ lead[l].status \notin Closed
    BY DEF StampKept
  <2>3. \A t \in Sweeps \ {s} : Claims(t, l)' => sweep'[t].arming # sweep'[s].arming
    BY <1>2, <2>1 DEF ClaimOK
  <2>4. QED
    BY <2>1, <2>2, <2>3 DEF ClaimOK
<1>5. \A l \in Leads : FreshOK(l)'
  BY <1>2, <1>3 DEF ToldInv, FreshOK
<1>6. \A l \in Leads : lead'[l].status = "none" => lead'[l].stamp = None
  BY DEF ToldInv, StampKept, Closed
<1>7. QED
  BY <1>1, <1>4, <1>5, <1>6 DEF ToldInv

\* Where the sweeps stand still.
LEMMA StillTelling ==
  ASSUME ToldTyped, ToldInv, UNCHANGED <<told, arming, sweep>>, \A l \in Leads : StampKept(l)
  PROVE  ToldInv'
<1>1. ClaimsShrink
  BY DEF ToldInv, ToldTyped, ClaimsShrink
<1>2. QED
  BY <1>1, QuietTelling

\* A row that is left alone.
LEMMA StampStays ==
  ASSUME FinalKept, NEW l \in Leads, lead'[l].stamp = lead[l].stamp,
         lead'[l].status = "none" => lead[l].status = "none"
  PROVE  StampKept(l)
  BY DEF StampKept, FinalKept

\* A request that saves its row with the stamp that is on it.
LEMMA SavedStamps ==
  ASSUME LeadsInv, FinalKept, NEW r \in Requests, job[r] # NoJob, NEW b, Save(r, b),
         b.status \in Closed \/ b.stamp = Row(r).stamp,
         b.status = "none" => Row(r).status = "none"
  PROVE  \A l \in Leads : StampKept(l)
<1> TAKE l \in Leads
<1>1. job[r].lead \in Leads
  BY JobFacts
<1>2. CASE l = job[r].lead
  <2>1. lead'[l] = b /\ Row(r) = lead[l]
    BY <1>1, <1>2 DEF Save, Row, LeadsInv
  <2>2. CASE b.status \in Closed
    BY <2>1, <2>2 DEF StampKept
  <2>3. CASE b.stamp = Row(r).stamp
    BY <2>1, <2>3, StampStays
  <2>4. QED
    BY <2>2, <2>3
<1>3. CASE l # job[r].lead
  <2>1. lead'[l] = lead[l]
    BY <1>1, <1>3 DEF Save, LeadsInv
  <2>2. QED
    BY <2>1, StampStays
<1>4. QED
  BY <1>2, <1>3

\* A request's save of a lead, whatever it is about, clears no stamp; only a call
\* that did not happen does.
LEMMA CoachSaves ==
  ASSUME LeadsInv, FinalKept, NEW r \in Requests,
         SaveNotes(r) \/ Approve(r) \/ Claim(r) \/ StartReview(r) \/ ScheduleCall(r)
  PROVE  \A l \in Leads : StampKept(l)
<1> DEFINE a == Row(r)
           k == job[r].coach
<1>1. job[r].op \in CoachOps
  BY DEF SaveNotes, Approve, Claim, StartReview, ScheduleCall, At, CoachOps, WorkOps
<1>2. job[r] # NoJob /\ a \in Row1
  BY <1>1, RowFacts DEF CoachOps, WorkOps, CoOps
<1>3. k \in Coaches
  BY <1>1, JobFacts
<1>4. PICK b : /\ Save(r, b)
               /\ b \in {a, [a EXCEPT !.owner = k],
                         [a EXCEPT !.status = "coach_approved", !.owner = k],
                         Taken(a, k), [Taken(a, k) EXCEPT !.status = "coach_reviewing"],
                         [a EXCEPT !.scheduled = TRUE]}
  BY DEF SaveNotes, Approve, Claim, StartReview, ScheduleCall
<1> HIDE DEF a, k
<1>5. Taken(a, k) \in Row1 /\ Taken(a, k).stamp = a.stamp /\ Taken(a, k).status = a.status
  BY <1>2, <1>3 DEF Row1, Taken
<1>6. [Taken(a, k) EXCEPT !.status = "coach_reviewing"].stamp = a.stamp
      /\ [Taken(a, k) EXCEPT !.status = "coach_reviewing"].status = "coach_reviewing"
  BY <1>5 DEF Row1
<1>7. b.stamp = a.stamp /\ (b.status = "none" => a.status = "none")
  BY <1>2, <1>3, <1>4, <1>5, <1>6 DEF Row1
<1>8. QED
  BY <1>2, <1>4, <1>7, SavedStamps DEF a

LEMMA AnswerSaves ==
  ASSUME LeadsInv, FinalKept, NEW r \in Requests,
         RecordConsent(r) \/ RecordAnswer(r) \/ CoCoachAnswers(r)
  PROVE  \A l \in Leads : StampKept(l)
<1> DEFINE a == Row(r)
<1>1. job[r].op \in CoachOps
  BY DEF RecordConsent, RecordAnswer, CoCoachAnswers, At, CoachOps, WorkOps, CoOps
<1>2. job[r] # NoJob /\ a \in Row1
  BY <1>1, RowFacts DEF CoachOps, WorkOps, CoOps
<1>3. PICK yes \in BOOLEAN :
          \E b \in {a, [a EXCEPT !.consents[1] = yes, !.status = IF yes THEN @ ELSE "declined"],
                   Answered(a, yes)} : Save(r, b)
  BY DEF RecordConsent, RecordAnswer, CoCoachAnswers, At
<1> HIDE DEF a
<1>4. PICK b \in {a, [a EXCEPT !.consents[1] = yes, !.status = IF yes THEN @ ELSE "declined"],
                 Answered(a, yes)} : Save(r, b)
  BY <1>3
<1>5. b.stamp = a.stamp /\ (b.status = "none" => a.status = "none")
  BY <1>2, <1>4 DEF Row1, Answered
<1>6. QED
  BY <1>2, <1>4, <1>5, SavedStamps DEF a

\* What closes a lead, and what a member saves of one that was introduced.
LEMMA ClosingSaves ==
  ASSUME LeadsInv, FinalKept, NEW r \in Requests,
         Share(r) \/ BlockTerminate(r) \/ MemberConsentSave(r)
  PROVE  \A l \in Leads : StampKept(l)
<1> DEFINE a == Row(r)
<1>1. job[r].op \in {"share", "terminate", "member"}
  BY DEF Share, BlockTerminate, MemberConsentSave, At
<1>2. job[r] # NoJob /\ a \in Row1 /\ JobOK(job[r])
  BY <1>1, RowFacts DEF CoachOps, WorkOps
<1>3. PICK b : /\ Save(r, b)
               /\ \/ b = a \/ b = [a EXCEPT !.status = "shared"]
                  \/ b = [a EXCEPT !.status = "declined"]
                  \/ b = job[r].row /\ job[r].op = "member"
  BY DEF Share, BlockTerminate, MemberConsentSave, At
<1> HIDE DEF a
<1>4. (b.status \in Closed \/ b.stamp = a.stamp) /\ (b.status = "none" => a.status = "none")
  BY <1>2, <1>3 DEF Row1, JobOK, Closed
<1>5. QED
  BY <1>2, <1>3, <1>4, SavedStamps DEF a

\* A new lead has no stamp, as its row had none.
LEMMA CreateStamps ==
  ASSUME LeadsInv, ToldTyped, ToldInv, FinalKept, NEW r \in Requests, NEW route \in Routes,
         DeclareCreate(r, route)
  PROVE  \A l \in Leads : StampKept(l)
<1> DEFINE m == job[r].lead
           b == [NoLead EXCEPT !.status = "pending", !.owner = route[1], !.cocoach = route[2]]
<1>1. job[r] # NoJob /\ m \in Leads
  BY JobFacts DEF DeclareCreate, At, NoJob
<1>2. b.status = "pending" /\ b.stamp = None
  BY DEF NoLead
<1>3. CASE UNCHANGED lead
  BY <1>3, StampStays
<1>4. CASE lead' = [lead EXCEPT ![m] = b] /\ ~Declared(m)
  <2>1. Row(r).status = "none" /\ Row(r).stamp = None
    BY <1>1, <1>4 DEF Row, Declared, ToldInv
  <2>2. Save(r, b)
    BY <1>4 DEF Save
  <2> HIDE DEF b
  <2>3. QED
    BY <1>1, <1>2, <2>1, <2>2, SavedStamps
<1>5. QED
  BY <1>3, <1>4 DEF DeclareCreate

\* A call that did not happen: the lead has a new arming, which no sweep holds and
\* nobody was told of.
LEMMA MissedTelling ==
  ASSUME LeadsInv, ToldTyped, ToldInv, NEW l \in Leads,
         lead' = [lead EXCEPT ![l] = Missed(@)],
         arming' = [arming EXCEPT ![l] = @ + 1],
         lead[l].status \in Open, UNCHANGED <<told, sweep>>
  PROVE  ToldInv'
<1>1. lead[l] \in Row1 /\ arming[l] \in Nat
  BY DEF LeadsInv, ToldInv, ToldTyped
<1>2. lead'[l].stamp = None /\ lead'[l].status = lead[l].status
  BY <1>1 DEF LeadsInv, Missed, Row1
<1>3. \A m \in Leads \ {l} : lead'[m] = lead[m] /\ arming'[m] = arming[m]
  BY DEF LeadsInv, ToldInv, ToldTyped
<1>4. arming'[l] = arming[l] + 1 /\ arming' \in [Leads -> Nat]
  BY DEF ToldInv, ToldTyped
<1>6. \A m \in Leads : arming[m] \in Nat /\ arming'[m] \in Nat /\ arming'[m] >= arming[m]
  BY <1>3, <1>4 DEF ToldInv, ToldTyped
<1>7. ToldOnce'
  BY <1>6 DEF ToldInv, ToldOnce
<1>8. \A s \in Sweeps, m \in Leads : Claims(s, m)' <=> Claims(s, m)
  BY DEF Claims
<1>9. \A s \in Sweeps, m \in Leads : ClaimOK(s, m)'
  <2> SUFFICES ASSUME NEW s \in Sweeps, NEW m \in Leads, Claims(s, m)' PROVE ClaimOK(s, m)'
    BY DEF ClaimOK
  <2>1. Claims(s, m) /\ ClaimOK(s, m) /\ None # s
    BY <1>8, LeadsAssumption DEF ToldInv
  <2>2. lead'[m].stamp = s /\ lead'[m].status \notin Closed => sweep[s].arming = arming'[m]
    BY <1>2, <1>3, <2>1 DEF ClaimOK
  <2>3. sweep[s].arming \in 0..arming'[m]
    BY <1>6, <2>1 DEF ClaimOK
  <2>4. QED
    BY <1>8, <2>1, <2>2, <2>3 DEF ClaimOK
<1>10. \A m \in Leads : FreshOK(m)'
  <2> TAKE m \in Leads
  <2>1. CASE m # l
    BY <1>3, <1>8, <2>1 DEF ToldInv, FreshOK, Fresh
  <2>2. CASE m = l
    <3>1. arming'[l] \in 0..MaxActs => told[l][arming'[l]] = 0
      BY <1>1, <1>4 DEF ToldInv, ToldOnce
    <3>2. \A s \in Sweeps : Claims(s, l) => sweep[s].arming # arming'[l]
      BY <1>1, <1>4 DEF ToldInv, ClaimOK
    <3>3. QED
      BY <2>2, <3>1, <3>2, <1>8 DEF FreshOK
  <2>3. QED
    BY <2>1, <2>2
<1>11. \A m \in Leads : lead'[m].status = "none" => lead'[m].stamp = None
  BY <1>2, <1>3 DEF ToldInv
<1>12. QED
  BY <1>7, <1>9, <1>10, <1>11 DEF ToldInv

LEMMA LogTelling ==
  ASSUME LeadsInv, ToldTyped, ToldInv, FinalKept, NEW r \in Requests, LogCall(r)
  PROVE  ToldInv'
<1> DEFINE a == Row(r)
<1>1. job[r].op \in CoachOps /\ UNCHANGED <<sweep, told>>
  BY DEF LogCall, At, Done, reminding, CoachOps, WorkOps
<1>2. job[r] # NoJob /\ a \in Row1 /\ job[r].lead \in Leads
  BY <1>1, RowFacts, JobFacts DEF CoachOps, WorkOps, CoOps
<1>3. CASE UNCHANGED <<lead, arming>>
  <2>1. \A l \in Leads : StampKept(l)
    BY <1>3, StampStays
  <2>2. QED
    BY <1>1, <1>3, <2>1, StillTelling
<1>4. CASE Save(r, [a EXCEPT !.completed = TRUE]) /\ UNCHANGED arming
  <2> DEFINE b == [a EXCEPT !.completed = TRUE]
  <2> HIDE DEF a
  <2>1. b.stamp = a.stamp /\ b.status = a.status
    BY <1>2 DEF Row1
  <2>2. Save(r, b)
    BY <1>4
  <2> HIDE DEF b
  <2>3. \A l \in Leads : StampKept(l)
    BY <1>2, <2>1, <2>2, SavedStamps DEF a
  <2>4. QED
    BY <1>1, <1>4, <2>3, StillTelling
<1>5. CASE /\ Save(r, Missed(a)) /\ Workable(r)
           /\ arming' = [arming EXCEPT ![job[r].lead] = @ + 1]
  <2>1. lead' = [lead EXCEPT ![job[r].lead] = Missed(@)] /\ lead[job[r].lead].status \in Open
    BY <1>5 DEF Save, Workable, Row
  <2>2. QED
    BY <1>1, <1>2, <1>5, <2>1, MissedTelling
<1>6. QED
  BY <1>3, <1>4, <1>5 DEF LogCall

\* What a request does, and what else goes on around the leads.
LEMMA RequestTelling ==
  ASSUME LeadsInv, ToldTyped, ToldInv, FinalKept, NEW r \in Requests, RequestStep(r) \/ RequestBegin(r)
  PROVE  ToldInv'
<1>1. CASE LogCall(r)
  BY <1>1, LogTelling
<1>2. CASE DeclareCount(r) \/ RequestBegin(r)
  <2>1. UNCHANGED <<lead, told, arming, sweep>>
    BY <1>2 DEF DeclareCount, RequestBegin, DeclareBegin, BlockBegin, MemberConsentBegin,
               CoachBegin, reminding
  <2>2. QED
    BY <2>1, StampStays, StillTelling
<1>3. CASE \E route \in Routes : DeclareCreate(r, route)
  <2>1. PICK route \in Routes : DeclareCreate(r, route)
    BY <1>3
  <2>2. UNCHANGED <<told, arming, sweep>>
    BY <2>1 DEF DeclareCreate, reminding
  <2>3. QED
    BY <2>1, <2>2, CreateStamps, StillTelling
<1>4. CASE \/ SaveNotes(r) \/ Approve(r) \/ Claim(r) \/ StartReview(r) \/ ScheduleCall(r)
           \/ RecordConsent(r) \/ RecordAnswer(r) \/ CoCoachAnswers(r)
           \/ Share(r) \/ BlockTerminate(r) \/ MemberConsentSave(r)
  <2>1. UNCHANGED <<told, arming, sweep>>
    BY <1>4 DEF SaveNotes, Approve, Claim, StartReview, ScheduleCall, RecordConsent,
               RecordAnswer, CoCoachAnswers, Share, BlockTerminate, MemberConsentSave,
               Done, reminding
  <2>2. \A l \in Leads : StampKept(l)
    BY <1>4, CoachSaves, AnswerSaves, ClosingSaves
  <2>3. QED
    BY <2>1, <2>2, StillTelling
<1>5. QED
  BY <1>1, <1>2, <1>3, <1>4 DEF RequestStep

LEMMA AroundTelling ==
  ASSUME ToldTyped, ToldInv, FinalKept, (\E k \in Coaches : SetActive(k)) \/ DayPasses \/ UNCHANGED vars
  PROVE  ToldInv'
<1>1. UNCHANGED <<lead, told, arming, sweep>>
  BY DEF SetActive, DayPasses, vars, reminding
<1>2. QED
  BY <1>1, StampStays, StillTelling

-----------------------------------------------------------------------------
(* Sweeps *)

\* A sweep that moves on, rests or is lost holds nothing afterwards.
Dropped(s) ==
    \E x : x.at \in {"rest", "next"} /\ sweep' = [sweep EXCEPT ![s] = x]

LEMMA NextDrops ==
  ASSUME NEW s \in Sweeps,
         NextLead(s) \/ Rest(s) \/ \E S : sweep' = [sweep EXCEPT ![s] = Turned(S)]
  PROVE  Dropped(s)
<1>1. Resting.at = "rest" /\ \A S : Turned(S).at \in {"rest", "next"}
  BY DEF Turned, Resting
<1>2. \E x : x.at \in {"rest", "next"} /\ sweep' = [sweep EXCEPT ![s] = x]
  BY <1>1 DEF NextLead, Rest
<1>3. QED
  BY <1>2 DEF Dropped

LEMMA DropShrinks ==
  ASSUME ToldTyped, NEW s \in Sweeps, Dropped(s)
  PROVE  /\ ClaimsShrink /\ sweep'[s].at \notin Holding
         /\ \A t \in Sweeps \ {s} : sweep'[t] = sweep[t]
<1>1. PICK x : x.at \in {"rest", "next"} /\ sweep' = [sweep EXCEPT ![s] = x]
  BY DEF Dropped
<1>2. sweep'[s] = x /\ \A t \in Sweeps \ {s} : sweep'[t] = sweep[t]
  BY <1>1 DEF ToldTyped
<1>3. x.at \notin Holding
  BY <1>1 DEF Holding
<1>4. QED
  BY <1>2, <1>3 DEF ClaimsShrink

\* A sweep that looks again, or fails to send, holds what it held.
LEMMA GoingOn ==
  ASSUME ToldTyped, NEW s \in Sweeps, sweep[s].at \in Holding, NEW at, GoTo(s, at)
  PROVE  ClaimsShrink
<1> DEFINE x == [sweep[s] EXCEPT !.at = at]
<1>1. x.on = sweep[s].on /\ x.arming = sweep[s].arming
  BY DEF ToldTyped, SweepType
<1>2. sweep'[s] = x /\ \A t \in Sweeps \ {s} : sweep'[t] = sweep[t]
  BY DEF GoTo, ToldTyped
<1> HIDE DEF x
<1>3. QED
  BY <1>1, <1>2 DEF ClaimsShrink

\* The steps of a sweep that neither claim, send nor release.
LEMMA PlainSweeping ==
  ASSUME LeadsInv, ToldTyped, ToldInv, FinalKept, NEW s \in Sweeps,
         \/ SweepScan(s) \/ SweepSkip(s) \/ SweepRecheck(s) \/ SweepFail(s) \/ SweepCrash(s)
  PROVE  ToldInv'
<1>1. UNCHANGED <<lead, told, arming>>
  BY DEF SweepScan, SweepSkip, SweepRecheck, SweepFail, SweepCrash, Sweeping
<1>2. \A l \in Leads : StampKept(l)
  BY <1>1, StampStays
<1>3. CASE SweepScan(s)
  <2>1. \E S : sweep' = [sweep EXCEPT ![s] = Turned(S)]
    BY <1>3 DEF SweepScan
  <2>2. Dropped(s)
    BY <2>1, NextDrops
  <2>3. QED
    BY <1>1, <1>2, <2>2, DropShrinks, QuietTelling
<1>4. CASE SweepSkip(s) \/ SweepCrash(s)
  <2>1. Dropped(s)
    BY <1>4, NextDrops DEF SweepSkip, SweepCrash
  <2>2. QED
    BY <1>1, <1>2, <2>1, DropShrinks, QuietTelling
<1>5. CASE SweepRecheck(s) \/ SweepFail(s)
  <2>1. sweep[s].at \in Holding /\ \E at : GoTo(s, at)
    BY <1>5 DEF SweepRecheck, SweepFail, Holding
  <2>2. QED
    BY <1>1, <1>2, <2>1, GoingOn, QuietTelling
<1>6. QED
  BY <1>3, <1>4, <1>5

\* A claim takes the last arming of a lead without a stamp.
LEMMA ClaimTelling ==
  ASSUME LeadsInv, ToldTyped, ToldInv, NEW s \in Sweeps, SweepClaim(s)
  PROVE  ToldInv'
<1> DEFINE l == sweep[s].on
           x == [sweep[s] EXCEPT !.at = "claimed", !.coach = lead[l].owner, !.arming = arming[l]]
<1>1. UNCHANGED <<told, arming>> /\ Due(l)
  BY DEF SweepClaim, Sweeping
<1>2. x.at = "claimed" /\ x.on = l /\ x.arming = arming[l]
  <2> DEFINE y == [sweep[s] EXCEPT !.at = "claimed"]
             z == [y EXCEPT !.coach = lead[l].owner]
  <2>1. sweep[s] = [at |-> sweep[s].at, on |-> l, todo |-> sweep[s].todo,
                    coach |-> sweep[s].coach, arming |-> sweep[s].arming]
    BY DEF ToldTyped, SweepType
  <2>2. x = [z EXCEPT !.arming = arming[l]]
    OBVIOUS
  <2> HIDE DEF l
  <2>3. y = [at |-> "claimed", on |-> l, todo |-> sweep[s].todo,
             coach |-> sweep[s].coach, arming |-> sweep[s].arming]
    BY <2>1
  <2> HIDE DEF y
  <2>4. z = [at |-> "claimed", on |-> l, todo |-> sweep[s].todo,
             coach |-> lead[l].owner, arming |-> sweep[s].arming]
    BY <2>3
  <2> HIDE DEF x, z
  <2>5. QED
    BY <2>2, <2>4
<1>3. sweep'[s] = x /\ \A t \in Sweeps \ {s} : sweep'[t] = sweep[t]
  BY DEF SweepClaim, ToldInv, ToldTyped
<1>5. lead' = [lead EXCEPT ![l] = [lead[l] EXCEPT !.stamp = s]]
  BY DEF SweepClaim
<1> HIDE DEF x
<1>7. ToldOnce'
  BY <1>1 DEF ToldInv, ToldOnce
<1>8. \A t \in Sweeps \ {s}, m \in Leads : Claims(t, m)' <=> Claims(t, m)
  BY <1>3 DEF Claims
<1>9. \A m \in Leads : Claims(s, m)' => m = l
  BY <1>2, <1>3 DEF Claims
<1>10. \A m \in Leads \ {l} : lead'[m] = lead[m]
  BY <1>5 DEF LeadsInv
<1>11. l \in Leads => /\ lead'[l].stamp = s /\ lead'[l].status = lead[l].status
                      /\ lead[l].status \in Open /\ lead[l].stamp = None /\ Fresh(l)
  BY <1>1, <1>5 DEF LeadsInv, Row1, Due, Untouched, Fresh, Open, Closed
<1> HIDE DEF l
<1>12. s # None
  BY LeadsAssumption
<1>13. \A t \in Sweeps, m \in Leads : ClaimOK(t, m)'
  <2> SUFFICES ASSUME NEW t \in Sweeps, NEW m \in Leads, Claims(t, m)' PROVE ClaimOK(t, m)'
    BY DEF ClaimOK
  <2>1. CASE t = s
    <3>1. m = l /\ FreshOK(l) /\ Fresh(l) /\ arming[l] \in Nat /\ sweep'[s].arming = arming[l]
      BY <2>1, <1>2, <1>3, <1>9, <1>11 DEF ToldInv, ToldTyped
    <3>2. sweep'[s].arming \in 0..arming'[l]
      BY <3>1, <1>1
    <3>3. sweep'[s].arming \in 0..MaxActs => told'[l][sweep'[s].arming] = 0
      BY <3>1, <1>1 DEF FreshOK
    <3>4. ASSUME NEW u \in Sweeps \ {s}, Claims(u, m)' PROVE sweep'[u].arming # sweep'[s].arming
      <4>1. Claims(u, l) /\ sweep'[u] = sweep[u]
        BY <3>1, <3>4, <1>3, <1>8
      <4>2. QED
        BY <3>1, <4>1 DEF FreshOK
    <3>5. QED
      BY <2>1, <3>1, <3>2, <3>3, <3>4, <1>1 DEF ClaimOK
  <2>2. CASE t # s
    <3>1. Claims(t, m) /\ ClaimOK(t, m) /\ sweep'[t] = sweep[t]
      BY <2>2, <1>3, <1>8 DEF ToldInv
    <3>2. lead'[m].stamp = t /\ lead'[m].status \notin Closed => sweep'[t].arming = arming'[m]
      BY <2>2, <3>1, <1>1, <1>10, <1>11 DEF ClaimOK
    <3>3. ASSUME NEW u \in Sweeps \ {t}, Claims(u, m)' PROVE sweep'[u].arming # sweep'[t].arming
      <4>1. CASE u = s
        <5>1. m = l /\ FreshOK(l) /\ Fresh(l) /\ sweep'[s].arming = arming[l]
          BY <3>3, <4>1, <1>2, <1>3, <1>9, <1>11 DEF ToldInv
        <5>2. QED
          BY <4>1, <5>1, <3>1 DEF FreshOK
      <4>2. CASE u # s
        BY <3>3, <4>2, <3>1, <1>3, <1>8 DEF ClaimOK
      <4>3. QED
        BY <4>1, <4>2
    <3>4. QED
      BY <3>1, <3>2, <3>3, <1>1 DEF ClaimOK
  <2>3. QED
    BY <2>1, <2>2
<1>14. \A m \in Leads : FreshOK(m)'
  <2> SUFFICES ASSUME NEW m \in Leads, Fresh(m)' PROVE FreshOK(m)'
    BY DEF FreshOK
  <2>1. m # l
    BY <1>11, <1>12 DEF Fresh
  <2>2. FreshOK(m) /\ Fresh(m)
    BY <2>1, <1>10 DEF ToldInv, Fresh
  <2>3. QED
    BY <2>1, <2>2, <1>1, <1>3, <1>8, <1>9 DEF FreshOK
<1>15. \A m \in Leads : lead'[m].status = "none" => lead'[m].stamp = None
  BY <1>10, <1>11 DEF ToldInv, Open
<1>16. QED
  BY <1>7, <1>13, <1>14, <1>15 DEF ToldInv

\* A push is the one of the arming the sweep holds.
LEMMA PushTelling ==
  ASSUME ToldTyped, ToldInv, NEW s \in Sweeps, NEW l \in Leads, Claims(s, l), Dropped(s),
         told' = [told EXCEPT ![l][sweep[s].arming] = @ + 1], UNCHANGED <<lead, arming>>
  PROVE  ToldInv'
<1> DEFINE n == sweep[s].arming
<1>1. /\ ClaimsShrink /\ sweep'[s].at \notin Holding
      /\ \A t \in Sweeps \ {s} : sweep'[t] = sweep[t]
  BY DropShrinks
<1>2. ClaimOK(s, l) /\ told \in [Leads -> [0..MaxActs -> Nat]] /\ arming[l] \in Nat
  BY DEF ToldInv, ToldTyped
<1>3. n \in 0..arming[l] /\ (n \in 0..MaxActs => told[l][n] = 0)
  BY <1>2 DEF ClaimOK
<1>4. \A m \in Leads, k \in 0..MaxActs :
          told'[m][k] = IF m = l /\ k = n THEN told[m][k] + 1 ELSE told[m][k]
  BY <1>2
<1>7. ToldOnce'
  <2> SUFFICES ASSUME NEW m \in Leads, NEW k \in 0..MaxActs
               PROVE  told'[m][k] <= 1 /\ (k > arming[m] => told'[m][k] = 0)
    BY DEF ToldOnce
  <2>1. CASE m = l /\ k = n
    BY <2>1, <1>2, <1>3, <1>4
  <2>2. CASE ~(m = l /\ k = n)
    BY <2>2, <1>4 DEF ToldInv, ToldOnce
  <2>3. QED
    BY <2>1, <2>2
<1>8. \A t \in Sweeps, m \in Leads :
          Claims(t, m)' => t # s /\ Claims(t, m) /\ sweep'[t] = sweep[t]
  BY <1>1 DEF Claims
<1> HIDE DEF n
<1>9. \A t \in Sweeps, m \in Leads : ClaimOK(t, m)'
  <2> SUFFICES ASSUME NEW t \in Sweeps, NEW m \in Leads, Claims(t, m)' PROVE ClaimOK(t, m)'
    BY DEF ClaimOK
  <2>1. t # s /\ Claims(t, m) /\ sweep'[t] = sweep[t] /\ ClaimOK(t, m)
    BY <1>8 DEF ToldInv
  <2>2. m = l => sweep[t].arming # n
    BY <2>1, <1>2 DEF ClaimOK, n
  <2>3. sweep[t].arming \in 0..MaxActs => told'[m][sweep[t].arming] = 0
    BY <2>1, <2>2, <1>4 DEF ClaimOK
  <2>4. \A u \in Sweeps \ {t} : Claims(u, m)' => sweep'[u].arming # sweep'[t].arming
    BY <2>1, <1>8 DEF ClaimOK
  <2>5. QED
    BY <2>1, <2>3, <2>4 DEF ClaimOK
<1>10. \A m \in Leads : FreshOK(m)'
  <2> SUFFICES ASSUME NEW m \in Leads, Fresh(m)' PROVE FreshOK(m)'
    BY DEF FreshOK
  <2>1. Fresh(m) /\ FreshOK(m) /\ arming'[m] = arming[m]
    BY DEF ToldInv, Fresh
  <2>2. m = l => arming[l] # n
    BY <2>1 DEF FreshOK, n
  <2>3. arming[m] \in 0..MaxActs => told'[m][arming[m]] = 0
    BY <2>1, <2>2, <1>4 DEF FreshOK
  <2>4. \A t \in Sweeps : Claims(t, m)' => sweep'[t].arming # arming[m]
    BY <2>1, <1>8 DEF FreshOK
  <2>5. QED
    BY <2>1, <2>3, <2>4 DEF FreshOK
<1>11. QED
  BY <1>7, <1>9, <1>10 DEF ToldInv

\* A release clears a stamp that is the sweep's own: what it held is free again.
LEMMA ReleaseTelling ==
  ASSUME LeadsInv, ToldTyped, ToldInv, NEW s \in Sweeps, NEW l \in Leads, Claims(s, l), Dropped(s),
         lead' = [lead EXCEPT ![l] = Released(@, s)], UNCHANGED <<told, arming>>
  PROVE  ToldInv'
<1>1. /\ ClaimsShrink /\ sweep'[s].at \notin Holding
      /\ \A t \in Sweeps \ {s} : sweep'[t] = sweep[t]
  BY DropShrinks
<1>2. lead[l] \in Row1 /\ \A m \in Leads \ {l} : lead'[m] = lead[m]
  BY DEF LeadsInv
<1>3. /\ lead'[l].status = lead[l].status
      /\ lead'[l].stamp = IF lead[l].stamp = s THEN None ELSE lead[l].stamp
  BY <1>2 DEF LeadsInv, Released, Row1
<1>4. ToldOnce'
  BY <1>1 DEF ToldInv, ToldTyped, ToldOnce, ClaimsShrink
<1>5. \A t \in Sweeps, m \in Leads :
          Claims(t, m)' => t # s /\ Claims(t, m) /\ sweep'[t] = sweep[t]
  BY <1>1 DEF Claims
<1>6. \A t \in Sweeps, m \in Leads : ClaimOK(t, m)'
  <2> SUFFICES ASSUME NEW t \in Sweeps, NEW m \in Leads, Claims(t, m)' PROVE ClaimOK(t, m)'
    BY DEF ClaimOK
  <2>1. t # s /\ Claims(t, m) /\ sweep'[t] = sweep[t] /\ ClaimOK(t, m) /\ t # None
    BY <1>5, LeadsAssumption DEF ToldInv
  <2>2. lead'[m].stamp = t /\ lead'[m].status \notin Closed => sweep[t].arming = arming[m]
    BY <2>1, <1>2, <1>3 DEF ClaimOK
  <2>3. \A u \in Sweeps \ {t} : Claims(u, m)' => sweep'[u].arming # sweep'[t].arming
    BY <2>1, <1>5 DEF ClaimOK
  <2>4. QED
    BY <2>1, <2>2, <2>3 DEF ClaimOK
<1>7. \A m \in Leads : FreshOK(m)'
  <2> SUFFICES ASSUME NEW m \in Leads, Fresh(m)' PROVE FreshOK(m)'
    BY DEF FreshOK
  <2>1. CASE Fresh(m)
    BY <2>1, <1>5 DEF ToldInv, FreshOK
  <2>2. CASE ~Fresh(m)
    <3>1. m = l /\ lead[l].stamp = s /\ lead[l].status \notin Closed
      BY <2>2, <1>2, <1>3 DEF Fresh
    <3>2. ClaimOK(s, l) /\ sweep[s].arming = arming[l]
      BY <3>1 DEF ToldInv, ClaimOK
    <3>3. arming[l] \in 0..MaxActs => told[l][arming[l]] = 0
      BY <3>2 DEF ClaimOK
    <3>4. \A t \in Sweeps : Claims(t, m)' => sweep'[t].arming # arming[m]
      BY <3>1, <3>2, <1>5 DEF ClaimOK
    <3>5. QED
      BY <3>1, <3>3, <3>4 DEF FreshOK
  <2>3. QED
    BY <2>1, <2>2
<1>8. \A m \in Leads : lead'[m].status = "none" => lead'[m].stamp = None
  BY <1>2, <1>3 DEF ToldInv
<1>9. QED
  BY <1>4, <1>6, <1>7, <1>8 DEF ToldInv

LEMMA SweepTelling ==
  ASSUME LeadsInv, ToldTyped, ToldInv, FinalKept, NEW s \in Sweeps, SweepStep(s) \/ SweepCrash(s),
         sweep[s].at # "rest" => sweep[s].on \in Leads
  PROVE  ToldInv'
<1>1. CASE SweepDeliver(s)
  <2>1. PICK l \in Leads : l = sweep[s].on
    BY <1>1 DEF SweepDeliver
  <2>2. /\ Claims(s, l) /\ Dropped(s) /\ UNCHANGED <<lead, arming>>
        /\ told' = [told EXCEPT ![l][sweep[s].arming] = @ + 1]
    BY <1>1, <2>1, NextDrops DEF SweepDeliver, Sweeping, Holding, Claims
  <2>3. QED
    BY <2>2, PushTelling
<1>2. CASE SweepRelease(s)
  <2>1. PICK l \in Leads : l = sweep[s].on
    BY <1>2 DEF SweepRelease
  <2>2. /\ Claims(s, l) /\ Dropped(s) /\ UNCHANGED <<told, arming>>
        /\ lead' = [lead EXCEPT ![l] = Released(@, s)]
    BY <1>2, <2>1, NextDrops DEF SweepRelease, Sweeping, Holding, Claims
  <2>3. QED
    BY <2>2, ReleaseTelling
<1>3. CASE SweepClaim(s)
  BY <1>3, ClaimTelling
<1>4. CASE \/ SweepScan(s) \/ SweepSkip(s) \/ SweepRecheck(s) \/ SweepFail(s) \/ SweepCrash(s)
  BY <1>4, PlainSweeping
<1>5. QED
  BY <1>1, <1>2, <1>3, <1>4 DEF SweepStep

LEMMA InitTelling == ASSUME Init PROVE ToldInv
<1>1. \A s \in Sweeps, l \in Leads : ~Claims(s, l)
  BY DEF Init, Claims, Holding, Resting
<1>2. \A l \in Leads : arming[l] = 0 /\ lead[l].stamp = None /\ \A n \in 0..MaxActs : told[l][n] = 0
  BY DEF Init, NoLead
<1>3. QED
  BY <1>1, <1>2 DEF ToldInv, ToldOnce, ClaimOK, FreshOK

LEMMA StepTells ==
  ASSUME LeadsInv, TypesInv, ToldInv, [Next]_vars
  PROVE  ToldInv'
<1>1. ToldTyped
  BY DEF TypesInv, CountOK, SweepsOK, ToldOK, ToldTyped
<1>2. QED
  BY <1>1, StepKeeps, AtWork, RequestTelling, AroundTelling, SweepTelling DEF Next

\* One push for each arming of a lead, for any number of overlapping sweeps, lost
\* ones and failed pushes (sweep_lead_reminders).
THEOREM RemindersAreSingle == Spec => []ToldOncePerArming
<1>1. Init => ToldInv
  BY InitTelling
<1>2. LeadsInv /\ TypesInv /\ ToldInv /\ [Next]_vars => ToldInv'
  BY StepTells
<1>3. Spec => []ToldInv
  BY <1>1, <1>2, LeadsInvariant, TypesInvariant, PTL DEF Spec
<1>4. ToldInv => ToldOncePerArming
  BY DEF ToldInv, ToldOnce, ToldOncePerArming
<1>5. QED
  BY <1>3, <1>4, PTL
=============================================================================
