-------------------------- MODULE CrushConnectProofs --------------------------
(***************************************************************************)
(* Proofs about CrushConnect, for any members, questions, days and         *)
(* requests.  What a request read before it writes may be stale, except    *)
(* what the transaction of the answer gate holds until it ends: its claim  *)
(* on a drop (JobOK, ClaimsApart) and the guesses it adds, which nobody    *)
(* adds meanwhile (AddsOK).  With these, who misread a gate keeps misread   *)
(* it, and who read it has read it, for as long as the gate stands         *)
(* (VerdictsOK, CommitsOK).                                                *)
(***************************************************************************)
EXTENDS CrushConnect, FiniteSetTheorems, SequenceTheorems, TLAPS

Spark == [status : {"none", "pending", "accepted", "declined"}, drop : 0..Days]
Drop == [made : {"no", "empty", "full"}, cards : SUBSET Members, read : Members \cup {None}]

Inserting == [op : {"gate"}, step : {"insert"}, pair : Pairs, day : 1..Days,
              back : BOOLEAN, says : Gates]
Scoring == [op : {"gate"}, step : {"score"}, pair : Pairs, day : 1..Days,
            back : BOOLEAN, says : Gates, adds : SUBSET Facts, claims : BOOLEAN]
Committing == [op : {"gate"}, step : {"commit"}, pair : Pairs, day : 1..Days,
               adds : SUBSET Facts, claims : BOOLEAN, does : {"nothing", "send", "accept"},
               on : Nat, missed : BOOLEAN]
Choosing == [op : {"repick"}, owner : Members, new : Gates, was : Nat,
             gone : [Pairs -> SUBSET Facts]]
Dropping == [op : {"drop"}, key : DropKeys, cards : SUBSET Members]
Filling == [op : {"fill"}, key : DropKeys, cards : SUBSET Members, fresh : BOOLEAN]
Answering == [op : {"respond", "answer pick"}, pair : Pairs, to : {"accepted", "declined"}]
Picking == [op : {"withdraw", "propose"}, pair : Pairs]
Clearing == [op : {"clear"}, pairs : SUBSET Pairs, todo : Seq({"picks", "sparks"}) \ {<<>>}]
Job == {NoJob} \cup Inserting \cup Scoring \cup Committing \cup Choosing \cup Dropping
           \cup Filling \cup Answering \cup Picking \cup Clearing

Sent(p) == sparks[p].status # "none"

\* Every spark went to the card its drop was spent on.
SparksOK ==
    \A p \in Pairs :
        /\ sparks[p].status = "none" <=> sparks[p] = NoSpark
        /\ Sent(p) => /\ p[1] \in Receivers /\ sparks[p].drop \in 1..Days
                      /\ drops[<<p[1], sparks[p].drop>>].read = p[2]

\* A transaction of the gate that spends its drop, or has found it spent so.
Uses(j) ==
    \/ j.step = "score" /\ ~j.back
    \/ j.step = "commit" /\ (j.claims \/ j.does = "send")

\* What a request at the gate remembers and still holds.
GateOK(j) ==
    /\ Uses(j) => /\ j.pair[1] \in Receivers
                  /\ drops[<<j.pair[1], j.day>>].read = IF j.claims THEN None ELSE j.pair[2]
    /\ j.step # "commit" => IF j.back THEN Sent(Back(j.pair)) ELSE j.pair[1] \in Receivers
    /\ j.step = "score" /\ j.back => ~j.claims
    /\ j.step = "commit" /\ j.does = "accept" => Sent(Back(j.pair))

JobOK(j) ==
    /\ j.op \in {"drop", "fill"} => j.key[1] \notin j.cards
    /\ j.op = "fill" => j.cards # {}
    /\ j.op = "gate" => GateOK(j)
    /\ j.op = "respond" => Sent(j.pair)
    /\ j.op = "repick" => \A p \in Pairs : p[2] # j.owner => j.gone[p] = {}

\* Two transactions never claim one drop.
ClaimsApart ==
    \A q, r \in Requests :
        q # r /\ Holds(q) /\ Holds(r) /\ job[q].claims /\ job[r].claims => DropOf(q) # DropOf(r)

JobsOK ==
    /\ job \in [Requests -> Job]
    /\ \A r \in Requests : JobOK(job[r])
    /\ ClaimsApart

\* One visit at most makes a drop, and the others that fill it found it empty.
FillsOK ==
    \A r \in Requests : At(r, "fill") =>
        IF job[r].fresh
        THEN /\ drops[job[r].key].made = "no"
             /\ \A q \in Requests \ {r} : ~Making(q, job[r].key)
        ELSE drops[job[r].key].made = "empty"

Stocked == \A k \in DropKeys : drops[k].made = "full" => drops[k].cards # {}

\* Facts about different questions.
Fresh(facts, more) == Asked(facts) \cap Asked(more) = {}
Misses(facts, truths) == ~Aligned(facts, truths) /\ Asked(truths) \subseteq Asked(facts)

\* The guesses a transaction adds are first guesses, and nobody else adds them.
AddsOK ==
    \A r \in Requests : Holds(r) =>
        /\ OnePerQuestion(job[r].adds)
        /\ Fresh(guesses[job[r].pair], job[r].adds)
        /\ \A q \in Requests \ {r} :
              Holds(q) /\ job[q].pair = job[r].pair => Fresh(job[q].adds, job[r].adds)

\* p[1] has misread, or read, the e-th gate of p[2], or is about to commit it.
MissedAt(p, e) ==
    \/ <<p, e>> \in misread
    \/ \E r \in Requests : GateAt(r, "commit") /\ job[r].pair = p /\ job[r].on = e /\ job[r].missed
ReadAt(p, e) ==
    \/ <<p, e>> \in read
    \/ \E r \in Requests : /\ GateAt(r, "commit") /\ job[r].pair = p /\ job[r].on = e
                           /\ job[r].does # "nothing"

\* Of one gate nobody has both; and the guesses stored say which, while it stands.
VerdictsOK ==
    \A p \in Pairs, e \in Nat :
        /\ MissedAt(p, e) \/ ReadAt(p, e) => e <= edition[p[2]]
        /\ ~(MissedAt(p, e) /\ ReadAt(p, e))
        /\ e = edition[p[2]] =>
              /\ <<p, e>> \in misread => Misses(guesses[p], gate[p[2]])
              /\ <<p, e>> \in read => Aligned(guesses[p], gate[p[2]])
CommitsOK ==
    \A r \in Requests : GateAt(r, "commit") /\ job[r].on = edition[job[r].pair[2]] =>
        /\ job[r].missed => Misses(Known(r), gate[job[r].pair[2]])
        /\ job[r].does # "nothing" => Aligned(Known(r), gate[job[r].pair[2]])

SparksRead ==
    \A p \in Pairs : Sent(p) => \E e \in 0..edition[p[2]] : <<p, e>> \in read

ReadingOK == AddsOK /\ VerdictsOK /\ CommitsOK /\ SparksRead

ConnectInv == TypeOK /\ SparksOK /\ JobsOK /\ FillsOK /\ Stocked /\ ReadingOK

\* What DropPinned says of one step.
CardsKept ==
    \A k \in DropKeys : drops[k].made = "full" =>
        drops'[k].cards = drops[k].cards /\ drops'[k].made = "full"

-----------------------------------------------------------------------------
(* Guesses and truths *)

LEMMA FactsFinite == IsFiniteSet(Facts)
<1>1. IsFiniteSet({}) /\ IsFiniteSet({} \cup {TRUE}) /\ IsFiniteSet(({} \cup {TRUE}) \cup {FALSE})
  BY FS_EmptySet, FS_AddElement
<1>2. ({} \cup {TRUE}) \cup {FALSE} = BOOLEAN
  OBVIOUS
<1>3. IsFiniteSet(BOOLEAN)
  BY <1>1, <1>2
<1>4. IsFiniteSet(Questions)
  BY ConnectAssumption
<1>5. QED
  BY <1>3, <1>4, FS_Product DEF Facts

\* More guesses never undo a reading.
LEMMA MoreGuesses ==
  ASSUME NEW S \in SUBSET Facts, NEW T \in SUBSET Facts, S \subseteq T, NEW g, Aligned(S, g)
  PROVE  Aligned(T, g)
<1>1. IsFiniteSet(T \cap g)
  BY FactsFinite, FS_Subset
<1>2. S \cap g \in SUBSET (T \cap g)
  OBVIOUS
<1>3. Cardinality(S \cap g) <= Cardinality(T \cap g)
  BY <1>1, <1>2, FS_Subset
<1>4. Cardinality(S \cap g) \in Nat /\ Cardinality(T \cap g) \in Nat /\ AlignMin \in Nat
  BY <1>1, <1>2, FS_Subset, FS_CardinalityType, ConnectAssumption
<1>5. QED
  BY <1>3, <1>4 DEF Aligned

\* Nor do guesses at other questions undo a miss.
LEMMA OtherGuesses ==
  ASSUME NEW S, NEW T, NEW g, Fresh(S, T), Misses(S, g)
  PROVE  Misses(S \cup T, g)
<1>1. \A f \in T : f \notin g
  <2> SUFFICES ASSUME NEW f \in T, f \in g PROVE FALSE
    OBVIOUS
  <2>1. f[1] \in Asked(T) /\ f[1] \in Asked(g)
    BY DEF Asked
  <2>2. f[1] \in Asked(S)
    BY <2>1 DEF Misses
  <2>3. QED
    BY <2>1, <2>2 DEF Fresh
<1>2. (S \cup T) \cap g = S \cap g
  BY <1>1
<1>3. Asked(S) \subseteq Asked(S \cup T)
  BY DEF Asked
<1>4. QED
  BY <1>2, <1>3 DEF Misses, Aligned

\* Two sets of first guesses never both miss and read one gate.
LEMMA OneVerdict ==
  ASSUME NEW S \in SUBSET Facts, NEW T \in SUBSET Facts, NEW U \in SUBSET Facts,
         Fresh(S, U), Fresh(T, U), NEW g, Misses(S \cup T, g), Aligned(S \cup U, g)
  PROVE  FALSE
<1>1. Fresh(S \cup T, U)
  BY DEF Fresh, Asked
<1>2. Misses((S \cup T) \cup U, g)
  BY <1>1, OtherGuesses
<1>3. Aligned((S \cup T) \cup U, g)
  BY MoreGuesses
<1>4. QED
  BY <1>2, <1>3 DEF Misses

-----------------------------------------------------------------------------
(* Requests *)

\* What kind of record a request of a given operation is.
LEMMA KindsOfJobs ==
  ASSUME NEW j \in Job
  PROVE  /\ j.op = "gate" => j \in Inserting \cup Scoring \cup Committing
         /\ j.op = "gate" /\ j.step = "insert" => j \in Inserting
         /\ j.op = "gate" /\ j.step = "score" => j \in Scoring
         /\ j.op = "gate" /\ j.step = "commit" => j \in Committing
         /\ j.op = "repick" => j \in Choosing
         /\ j.op = "drop" => j \in Dropping
         /\ j.op = "fill" => j \in Filling
         /\ j.op \in {"respond", "answer pick"} => j \in Answering
         /\ j.op \in {"withdraw", "propose"} => j \in Picking
         /\ j.op = "clear" => j \in Clearing
<1>1. CASE j = NoJob
  BY <1>1 DEF NoJob
<1>2. CASE j \in Inserting
  BY <1>2 DEF Inserting
<1>3. CASE j \in Scoring
  BY <1>3 DEF Scoring
<1>4. CASE j \in Committing
  BY <1>4 DEF Committing
<1>5. CASE j \in Dropping
  BY <1>5 DEF Dropping
<1>6. CASE j \in Answering
  BY <1>6 DEF Answering
<1>7. CASE j \in Picking
  BY <1>7 DEF Picking
<1>8. CASE j \in Clearing
  BY <1>8 DEF Clearing
<1>9. CASE j \in Filling
  BY <1>9 DEF Filling
<1>10. CASE j \in Choosing
  BY <1>10 DEF Choosing
<1>11. QED
  BY <1>1, <1>2, <1>3, <1>4, <1>5, <1>6, <1>7, <1>8, <1>9, <1>10 DEF Job

LEMMA PairFacts ==
  ASSUME NEW p \in Pairs
  PROVE  /\ p = <<p[1], p[2]>> /\ p[1] \in Members /\ p[2] \in Members /\ p[1] # p[2]
         /\ p[1] # None /\ p[2] # None /\ Back(p) \in Pairs /\ Back(Back(p)) = p
  BY ConnectAssumption DEF Pairs, Back

\* The gate's requests name a pair and a day, and from their insert on what they
\* add and claim.
LEMMA GateFacts ==
  ASSUME JobsOK, NEW r \in Requests, At(r, "gate")
  PROVE  /\ job[r] \in Job /\ job[r].op = "gate" /\ GateOK(job[r])
         /\ job[r].pair \in Pairs /\ job[r].day \in 1..Days
         /\ job[r].pair[1] \in Receivers => DropOf(r) \in DropKeys
         /\ GateAt(r, "insert") => job[r] \in Inserting
         /\ GateAt(r, "score") => job[r] \in Scoring
         /\ GateAt(r, "commit") => job[r] \in Committing
         /\ Holds(r) => job[r].adds \in SUBSET Facts /\ job[r].claims \in BOOLEAN
<1>1. job[r] \in Job /\ JobOK(job[r]) /\ job[r].op = "gate"
  BY DEF JobsOK, At
<1>2. job[r] \in Inserting \cup Scoring \cup Committing
  BY <1>1, KindsOfJobs
<1>3. job[r].pair \in Pairs /\ job[r].day \in 1..Days
  BY <1>2 DEF Inserting, Scoring, Committing
<1>4. job[r].pair[1] \in Receivers => DropOf(r) \in DropKeys
  BY <1>3 DEF DropOf, DropKeys
<1>5. /\ GateAt(r, "insert") => job[r] \in Inserting
      /\ GateAt(r, "score") => job[r] \in Scoring
      /\ GateAt(r, "commit") => job[r] \in Committing
  BY <1>1, KindsOfJobs DEF GateAt
<1>6. Holds(r) => job[r].adds \in SUBSET Facts /\ job[r].claims \in BOOLEAN
  BY <1>5 DEF Holds, Scoring, Committing
<1>7. QED
  BY <1>1, <1>3, <1>4, <1>5, <1>6 DEF JobOK

\* A request that becomes J keeps the others, if no spark goes away and no other
\* transaction of the gate loses the drop it spends.
LEMMA JobsStep ==
  ASSUME JobsOK, NEW r \in Requests, NEW J \in Job, Begin(r, J), JobOK(J)',
         \A p \in Pairs : Sent(p) => Sent(p)',
         \A k \in Requests \ {r} : Holds(k) /\ Uses(job[k]) =>
             drops'[DropOf(k)].read = drops[DropOf(k)].read,
         J.op = "gate" /\ J.step \in {"score", "commit"} /\ J.claims =>
             \A k \in Requests \ {r} : Holds(k) /\ job[k].claims => DropOf(k) # <<J.pair[1], J.day>>
  PROVE  JobsOK'
<1>1. job' \in [Requests -> Job] /\ job'[r] = J /\ \A k \in Requests \ {r} : job'[k] = job[k]
  BY DEF JobsOK, Begin
<1>2. \A k \in Requests : JobOK(job[k])'
  <2> TAKE k \in Requests
  <2>1. CASE k = r
    BY <2>1, <1>1 DEF JobOK, GateOK, Uses, Sent
  <2>2. CASE k # r
    <3>1. JobOK(job[k]) /\ job'[k] = job[k] /\ job[k] \in Job
      BY <2>2, <1>1 DEF JobsOK
    <3>2. /\ job[k].op \in {"drop", "fill"} => job[k].key[1] \notin job[k].cards
          /\ job[k].op = "fill" => job[k].cards # {}
          /\ job[k].op = "repick" => \A p \in Pairs : p[2] # job[k].owner => job[k].gone[p] = {}
      BY <3>1 DEF JobOK
    <3>3. job[k].op = "respond" => job[k].pair \in Pairs
      BY <3>1, KindsOfJobs DEF Answering
    <3>4. job[k].op = "respond" => Sent(job[k].pair)'
      BY <3>1, <3>3, <1>1 DEF JobOK, Sent
    <3>5. job[k].op = "gate" => GateOK(job[k])'
      <4> SUFFICES ASSUME job[k].op = "gate" PROVE GateOK(job[k])'
        OBVIOUS
      <4>1. GateOK(job[k]) /\ job[k].pair \in Pairs /\ Back(job[k].pair) \in Pairs
        BY GateFacts, PairFacts DEF At
      <4>2. job[k].step \in {"insert", "score", "commit"}
        BY <3>1, KindsOfJobs DEF Inserting, Scoring, Committing
      <4>3. Uses(job[k]) => drops'[<<job[k].pair[1], job[k].day>>].read
                              = drops[<<job[k].pair[1], job[k].day>>].read
        BY <2>2, <4>2 DEF Holds, GateAt, At, Uses, DropOf
      <4>4. Sent(Back(job[k].pair)) => sparks'[Back(job[k].pair)].status # "none"
        BY <4>1 DEF Sent
      <4>5. QED
        BY <3>1, <4>1, <4>3, <4>4 DEF GateOK, Uses, Sent, Back
    <3>6. QED
      BY <3>1, <3>2, <3>4, <3>5 DEF JobOK
  <2>3. QED
    BY <2>1, <2>2
<1>3. ClaimsApart'
  BY <1>1 DEF JobsOK, ClaimsApart, Holds, GateAt, At, DropOf
<1>4. QED
  BY <1>1, <1>2, <1>3 DEF JobsOK

LEMMA FillKey ==
  ASSUME ConnectInv, NEW r \in Requests, At(r, "fill")
  PROVE  job[r].key \in DropKeys
<1>1. job[r] \in Job /\ job[r].op = "fill"
  BY DEF ConnectInv, JobsOK, At
<1>2. job[r] \in Filling
  BY <1>1, KindsOfJobs
<1>3. QED
  BY <1>2 DEF Filling

\* Fills stay sound if r does not start one and no row is made meanwhile.
LEMMA FillsStep ==
  ASSUME ConnectInv, NEW r \in Requests, NEW J \in Job, Begin(r, J), J.op # "fill",
         \A k \in DropKeys : drops'[k].made = drops[k].made /\ drops'[k].cards = drops[k].cards
  PROVE  FillsOK' /\ Stocked'
<1>1. job' \in [Requests -> Job] /\ job'[r] = J /\ \A k \in Requests \ {r} : job'[k] = job[k]
  BY DEF ConnectInv, JobsOK, Begin
<1>2. SUFFICES ASSUME NEW q \in Requests, At(q, "fill")'
               PROVE  IF job'[q].fresh
                      THEN /\ drops'[job'[q].key].made = "no"
                           /\ \A i \in Requests \ {q} : ~Making(i, job[q].key)'
                      ELSE drops'[job'[q].key].made = "empty"
  BY DEF ConnectInv, FillsOK, Stocked
<1>3. q # r /\ job'[q] = job[q] /\ At(q, "fill")
  BY <1>1, <1>2 DEF At
<1>4. job[q].key \in DropKeys
  BY <1>3, FillKey
<1>5. \A i \in Requests : Making(i, job[q].key)' => Making(i, job[q].key)
  BY <1>1, <1>3 DEF Making, At
<1>6. QED
  BY <1>3, <1>4, <1>5 DEF ConnectInv, FillsOK

\* A request that holds nothing at the gate leaves its readings as they are.
LEMMA ReadingQuiet ==
  ASSUME ConnectInv, NEW r \in Requests, NEW J \in Job, Begin(r, J),
         J.op # "gate" \/ J.step = "insert", UNCHANGED answers,
         \A p \in Pairs : Sent(p)' => Sent(p)
  PROVE  ReadingOK'
<1>1. job' \in [Requests -> Job] /\ job'[r] = J /\ \A k \in Requests \ {r} : job'[k] = job[k]
  BY DEF ConnectInv, JobsOK, Begin
<1>2. \A k \in Requests :
          /\ GateAt(k, "commit")' => GateAt(k, "commit") /\ job'[k] = job[k]
          /\ Holds(k)' => Holds(k) /\ job'[k] = job[k]
  BY <1>1 DEF Holds, GateAt, At
<1>3. UNCHANGED <<gate, guesses, edition, misread, read>>
  BY DEF answers
<1>4. AddsOK'
  BY <1>2, <1>3 DEF ConnectInv, ReadingOK, AddsOK
<1>5. \A p \in Pairs, e \in Nat : (MissedAt(p, e)' => MissedAt(p, e)) /\ (ReadAt(p, e)' => ReadAt(p, e))
  BY <1>2, <1>3 DEF MissedAt, ReadAt
<1>6. VerdictsOK'
  BY <1>3, <1>5 DEF ConnectInv, ReadingOK, VerdictsOK
<1>7. CommitsOK'
  BY <1>2, <1>3 DEF ConnectInv, ReadingOK, CommitsOK, Known
<1>8. SparksRead'
  BY <1>3 DEF ConnectInv, ReadingOK, SparksRead
<1>9. QED
  BY <1>4, <1>6, <1>7, <1>8 DEF ReadingOK

\* A step of a request that writes no drop, answer or spark.
LEMMA ReadStep ==
  ASSUME ConnectInv, NEW r \in Requests, NEW J \in Job, Begin(r, J), JobOK(J), TypeOK',
         J.op # "fill", J.op # "gate" \/ J.step = "insert",
         UNCHANGED <<drops, answers, sparks>>
  PROVE  ConnectInv' /\ CardsKept
<1>1. JobOK(J)' /\ SparksOK' /\ CardsKept
  BY DEF ConnectInv, JobOK, GateOK, SparksOK, Sent, CardsKept
<1>2. JobsOK'
  BY <1>1, JobsStep DEF Sent, ConnectInv
<1>3. FillsOK' /\ Stocked'
  BY FillsStep
<1>4. ReadingOK'
  BY ReadingQuiet DEF Sent
<1>5. QED
  BY <1>1, <1>2, <1>3, <1>4 DEF ConnectInv

LEMMA NoJobOK ==
  NoJob \in Job /\ JobOK(NoJob) /\ JobOK(NoJob)' /\ NoJob.op = "idle"
  BY DEF NoJob, Job, JobOK

\* A step around the requests.
LEMMA QuietStep ==
  ASSUME ConnectInv, TypeOK', UNCHANGED <<drops, answers, sparks, job>>
  PROVE  ConnectInv' /\ CardsKept
<1>1. SparksOK' /\ CardsKept
  BY DEF ConnectInv, SparksOK, Sent, CardsKept
<1>2. JobsOK'
  BY DEF ConnectInv, JobsOK, JobOK, GateOK, Sent, ClaimsApart, Holds, GateAt, At, DropOf
<1>3. FillsOK' /\ Stocked'
  BY DEF ConnectInv, FillsOK, Stocked, Making, At
<1>4. ReadingOK'
  <2>1. UNCHANGED <<gate, guesses, edition, misread, read, job>>
    BY DEF answers
  <2>2. AddsOK' /\ SparksRead'
    BY <2>1 DEF ConnectInv, ReadingOK, AddsOK, SparksRead, Holds, GateAt, At, Sent
  <2>3. \A p \in Pairs, e \in Nat : (MissedAt(p, e)' <=> MissedAt(p, e)) /\ (ReadAt(p, e)' <=> ReadAt(p, e))
    BY <2>1 DEF MissedAt, ReadAt, GateAt, At
  <2>4. VerdictsOK'
    BY <2>1, <2>3 DEF ConnectInv, ReadingOK, VerdictsOK
  <2>5. CommitsOK'
    BY <2>1 DEF ConnectInv, ReadingOK, CommitsOK, Known, GateAt, At
  <2>6. QED
    BY <2>2, <2>4, <2>5 DEF ReadingOK
<1>5. QED
  BY <1>1, <1>2, <1>3, <1>4 DEF ConnectInv
-----------------------------------------------------------------------------
(* Requests that only read, or write picks *)

LEMMA DropBegins ==
  ASSUME ConnectInv, NEW r \in Requests, NEW u \in Receivers, DropBegin(r, u)
  PROVE  ConnectInv' /\ CardsKept
<1>0. PICK cards \in Draws(Pool(u)) :
          Begin(r, [op |-> "drop", key |-> <<u, day>>, cards |-> cards])
  BY DEF DropBegin
<1> DEFINE J == [op |-> "drop", key |-> <<u, day>>, cards |-> cards]
<1>1. Begin(r, J) /\ UNCHANGED <<rows, around>>
  BY <1>0 DEF DropBegin
<1>2. TypeOK'
  BY <1>1 DEF ConnectInv, TypeOK, rows, answers, around
<1>3. cards \subseteq Members /\ u \notin cards
  BY <1>0 DEF Pool, Draws
<1>4. <<u, day>> \in DropKeys
  BY DEF DropKeys, ConnectInv, TypeOK
<1>5. J \in Dropping
  BY <1>3, <1>4 DEF Dropping
<1>6. JobOK(J)
  BY <1>3 DEF JobOK
<1>7. J \in Job /\ J.op = "drop"
  BY <1>5 DEF Job
<1> HIDE DEF J
<1>8. QED
  BY <1>1, <1>2, <1>6, <1>7, ReadStep DEF rows

LEMMA GateBegins ==
  ASSUME ConnectInv, NEW r \in Requests, NEW p \in Pairs, NEW d \in 1..Days,
         NEW says \in Gates, GateBegin(r, p, d, says)
  PROVE  ConnectInv' /\ CardsKept
<1> DEFINE back == sparks[Back(p)].status = "pending"
           J == [op |-> "gate", step |-> "insert", pair |-> p, day |-> d,
                 back |-> back, says |-> says]
<1>1. Begin(r, J) /\ UNCHANGED <<rows, around>>
  BY DEF GateBegin
<1>2. TypeOK'
  BY <1>1 DEF ConnectInv, TypeOK, rows, answers, around
<1>3. back => Sent(Back(p))
  BY DEF Sent
<1>4. ~back => p[1] \in Receivers
  BY DEF GateBegin, CanSend, Eligible, SenderEligible
<1>5. back \in BOOLEAN
  OBVIOUS
<1> HIDE DEF back
<1>6. J \in Inserting /\ J.op = "gate" /\ J.step = "insert"
  BY <1>5 DEF Inserting
<1>7. JobOK(J)
  BY <1>3, <1>4 DEF JobOK, GateOK, Uses
<1>8. J \in Job
  BY <1>6 DEF Job
<1> HIDE DEF J
<1>9. QED
  BY <1>1, <1>2, <1>6, <1>7, <1>8, ReadStep DEF rows

LEMMA RespondBegins ==
  ASSUME ConnectInv, NEW r \in Requests, NEW p \in Pairs, NEW yes \in BOOLEAN,
         RespondBegin(r, p, yes) \/ PickRespondBegin(r, p, yes)
  PROVE  ConnectInv' /\ CardsKept
<1>1. PICK op \in {"respond", "answer pick"}, to \in {"accepted", "declined"} :
          /\ Begin(r, [op |-> op, pair |-> p, to |-> to])
          /\ op = "respond" => sparks[p].status = "pending"
  BY DEF RespondBegin, PickRespondBegin
<1> DEFINE J == [op |-> op, pair |-> p, to |-> to]
<1>2. UNCHANGED <<rows, around>>
  BY DEF RespondBegin, PickRespondBegin
<1>3. TypeOK'
  BY <1>2 DEF ConnectInv, TypeOK, rows, answers, around
<1>4. J \in Answering /\ J.op = op
  BY DEF Answering
<1>5. JobOK(J)
  BY <1>1 DEF JobOK, Sent
<1>6. J \in Job /\ J.op # "gate"
  BY <1>4 DEF Job
<1> HIDE DEF J
<1>7. QED
  BY <1>1, <1>2, <1>3, <1>5, <1>6, ReadStep DEF rows, J

LEMMA ProposeBegins ==
  ASSUME ConnectInv, NEW r \in Requests, NEW p \in Pairs, ProposeBegin(r, p)
  PROVE  ConnectInv' /\ CardsKept
<1> DEFINE J == [op |-> "withdraw", pair |-> p]
<1>1. Begin(r, J) /\ UNCHANGED <<rows, around>>
  BY DEF ProposeBegin
<1>2. TypeOK'
  BY <1>1 DEF ConnectInv, TypeOK, rows, answers, around
<1>3. J \in Picking /\ JobOK(J) /\ J.op # "gate" /\ J.op # "fill"
  BY DEF Picking, JobOK
<1>4. J \in Job
  BY <1>3 DEF Job
<1> HIDE DEF J
<1>5. QED
  BY <1>1, <1>2, <1>3, <1>4, ReadStep DEF rows

LEMMA WithdrawStep ==
  ASSUME ConnectInv, NEW r \in Requests, ProposeWithdraw(r)
  PROVE  ConnectInv' /\ CardsKept
<1>1. job[r] \in Picking
  BY KindsOfJobs DEF ConnectInv, JobsOK, ProposeWithdraw, At
<1> DEFINE J == [op |-> "propose", pair |-> job[r].pair]
<1>2. Begin(r, J) /\ UNCHANGED <<drops, answers, sparks, around>>
  BY DEF ProposeWithdraw
<1>3. TypeOK'
  BY <1>2 DEF ConnectInv, TypeOK, answers, around, ProposeWithdraw
<1>4. J \in Picking /\ JobOK(J) /\ J.op # "gate" /\ J.op # "fill"
  BY <1>1 DEF Picking, JobOK
<1>5. J \in Job
  BY <1>4 DEF Job
<1> HIDE DEF J
<1>6. QED
  BY <1>2, <1>3, <1>4, <1>5, ReadStep

LEMMA PickSteps ==
  ASSUME ConnectInv, NEW r \in Requests, ProposeCreate(r) \/ PickRespondWrite(r)
  PROVE  ConnectInv' /\ CardsKept
<1>1. End(r) /\ UNCHANGED <<drops, answers, sparks, around>>
  BY DEF ProposeCreate, PickRespondWrite
<1>2. job[r] \in Picking \cup Answering
  BY KindsOfJobs DEF ConnectInv, JobsOK, ProposeCreate, PickRespondWrite, At
<1>3. job[r].op = "answer pick" => job[r].to \in {"accepted", "declined"}
  <2>1. job[r] \in Job
    BY DEF ConnectInv, JobsOK
  <2>2. job[r].op = "answer pick" => job[r] \in Answering
    BY <2>1, KindsOfJobs
  <2>3. QED
    BY <2>2 DEF Answering
<1>4. picks' \in [Pairs -> {"none", "proposed", "accepted", "declined", "withdrawn"}]
  BY <1>2, <1>3 DEF ProposeCreate, PickRespondWrite, At, ConnectInv, TypeOK
<1>5. TypeOK'
  BY <1>1, <1>4 DEF ConnectInv, TypeOK, answers, around
<1>6. QED
  BY <1>1, <1>5, NoJobOK, ReadStep DEF End

LEMMA RepickBegins ==
  ASSUME ConnectInv, NEW r \in Requests, NEW u \in Members, NEW new \in Gates,
         RepickBegin(r, u, new)
  PROVE  ConnectInv' /\ CardsKept
<1> DEFINE stale == Asked(gate[u] \ new)
           gone == [p \in Pairs |-> {f \in guesses[p] : p[2] = u /\ f[1] \in stale}]
           J == [op |-> "repick", owner |-> u, new |-> new, was |-> edition[u], gone |-> gone]
<1>1. Begin(r, J) /\ UNCHANGED <<rows, day, blocks, out, mentored>> /\ turns' = turns + 1
  BY DEF RepickBegin, Turn
<1>2. TypeOK'
  BY <1>1 DEF ConnectInv, TypeOK, rows, answers
<1>3. gone \in [Pairs -> SUBSET Facts]
  BY DEF ConnectInv, TypeOK
<1>4. \A p \in Pairs : p[2] # u => gone[p] = {}
  OBVIOUS
<1>5. edition[u] \in Nat
  BY DEF ConnectInv, TypeOK
<1> HIDE DEF gone, stale
<1>6. J \in Choosing /\ J.op = "repick"
  BY <1>3, <1>5 DEF Choosing
<1>7. JobOK(J)
  BY <1>4 DEF JobOK
<1>8. J \in Job
  BY <1>6 DEF Job
<1> HIDE DEF J
<1>9. QED
  BY <1>1, <1>2, <1>6, <1>7, <1>8, ReadStep DEF rows

-----------------------------------------------------------------------------
(* The answer gate *)

\* The insert keeps its new guesses and its claim to itself.
LEMMA InsertStep ==
  ASSUME ConnectInv, NEW r \in Requests, GateInsert(r)
  PROVE  ConnectInv' /\ CardsKept
<1> DEFINE p == job[r].pair
           adds == {f \in job[r].says : f[1] \notin Asked(guesses[p])}
           claims == ~job[r].back /\ drops[DropOf(r)].read = None
           J == [op |-> "gate", step |-> "score", pair |-> p, day |-> job[r].day,
                 back |-> job[r].back, says |-> job[r].says, adds |-> adds, claims |-> claims]
<1>1. GateAt(r, "insert") /\ At(r, "gate") /\ ~Waits(r) /\ UNCHANGED <<rows, around>>
  BY DEF GateInsert, GateAt
<1>2. TypeOK'
  BY <1>1 DEF ConnectInv, TypeOK, rows, answers, around
<1>3. CASE ~Claims(r)
  <2>1. End(r)
    BY <1>3 DEF GateInsert
  <2>2. QED
    BY <1>1, <1>2, <2>1, NoJobOK, ReadStep DEF rows, End
<1>4. CASE Claims(r)
  <2>1. job[r] \in Inserting /\ GateOK(job[r]) /\ p \in Pairs
    BY <1>1, GateFacts DEF ConnectInv
  <2>2. /\ job[r].day \in 1..Days /\ job[r].back \in BOOLEAN /\ job[r].says \in Gates
        /\ job[r].step = "insert"
    BY <2>1 DEF Inserting
  <2>3. adds \in SUBSET Facts /\ OnePerQuestion(adds) /\ adds \subseteq job[r].says
    BY <2>2 DEF Gates, OnePerQuestion
  <2>4. Fresh(guesses[p], adds)
    BY DEF Fresh, Asked
  <2>5. claims \in BOOLEAN
    OBVIOUS
  <2>6. PICK j : j = J
    OBVIOUS
  <2>7. Begin(r, j)
    BY <1>4, <2>6 DEF GateInsert
  <2>8. /\ j.op = "gate" /\ j.step = "score" /\ j.pair = p /\ j.day = job[r].day
        /\ j.back = job[r].back /\ j.adds = adds /\ j.claims = claims
    BY <2>6
  <2>9. j \in Scoring
    BY <2>1, <2>2, <2>3, <2>5, <2>6 DEF Scoring
  <2>10. j \in Job
    BY <2>9 DEF Job
  <2>11. claims => ~job[r].back
    OBVIOUS
  <2>12. ~job[r].back => drops[<<p[1], job[r].day>>].read = IF claims THEN None ELSE p[2]
    BY <1>4 DEF Claims, DropOf
  <2> HIDE DEF J
  <2>13. GateOK(j)
    BY <2>1, <2>2, <2>8, <2>11, <2>12 DEF GateOK, Uses
  <2>14. \A k \in Requests \ {r} : Holds(k) /\ job[k].claims /\ claims =>
             DropOf(k) # <<p[1], job[r].day>>
    BY <1>1, <2>11 DEF Waits, DropOf
  <2>15. \A k \in Requests \ {r} : Holds(k) /\ job[k].pair = p =>
             Fresh(job[k].adds, adds) /\ Fresh(adds, job[k].adds)
    BY <1>1, <2>3 DEF Waits, Fresh, Asked
  <2> HIDE DEF adds, claims, p
  <2>16. JobOK(j)'
    BY <1>1, <2>8, <2>13 DEF JobOK, GateOK, Uses, Sent, rows
  <2>17. JobsOK'
    BY <1>1, <2>7, <2>8, <2>10, <2>14, <2>16, JobsStep DEF ConnectInv, Sent, rows
  <2>18. SparksOK' /\ CardsKept /\ FillsOK' /\ Stocked'
    BY <1>1, <2>7, <2>8, <2>10, FillsStep DEF ConnectInv, SparksOK, Sent, CardsKept, rows
  <2>19. UNCHANGED <<gate, guesses, edition, misread, read, sparks>>
    BY <1>1 DEF rows, answers
  <2>20. job' \in [Requests -> Job] /\ job'[r] = j /\ \A k \in Requests \ {r} : job'[k] = job[k]
    BY <2>7, <2>10 DEF ConnectInv, JobsOK, Begin
  <2>21. AddsOK'
    <3> SUFFICES ASSUME NEW k \in Requests, Holds(k)'
                 PROVE  /\ OnePerQuestion(job'[k].adds)
                        /\ Fresh(guesses[job'[k].pair], job'[k].adds)
                        /\ \A q \in Requests \ {k} :
                              Holds(q)' /\ job'[q].pair = job'[k].pair => Fresh(job'[q].adds, job'[k].adds)
      BY <2>19 DEF AddsOK
    <3>1. CASE k = r
      BY <3>1, <2>3, <2>4, <2>8, <2>15, <2>20 DEF Holds, GateAt, At
    <3>2. CASE k # r
      <4>1. Holds(k) /\ job'[k] = job[k]
        BY <3>2, <2>20 DEF Holds, GateAt, At
      <4>2. /\ OnePerQuestion(job[k].adds)
            /\ Fresh(guesses[job[k].pair], job[k].adds)
            /\ \A q \in Requests \ {k} :
                  Holds(q) /\ job[q].pair = job[k].pair => Fresh(job[q].adds, job[k].adds)
        BY <4>1 DEF ConnectInv, ReadingOK, AddsOK
      <4>3. job[k].pair = p => Fresh(adds, job[k].adds)
        BY <3>2, <4>1, <2>15
      <4>4. \A q \in Requests \ {k} :
                Holds(q)' /\ job'[q].pair = job'[k].pair => Fresh(job'[q].adds, job'[k].adds)
        <5> SUFFICES ASSUME NEW q \in Requests \ {k}, Holds(q)', job'[q].pair = job'[k].pair
                     PROVE  Fresh(job'[q].adds, job'[k].adds)
          OBVIOUS
        <5>1. CASE q = r
          BY <5>1, <4>1, <4>3, <2>8, <2>20
        <5>2. CASE q # r
          BY <5>2, <4>1, <4>2, <2>20 DEF Holds, GateAt, At
        <5>3. QED
          BY <5>1, <5>2
      <4>5. QED
        BY <4>1, <4>2, <4>4
    <3>3. QED
      BY <3>1, <3>2
  <2>22. \A k \in Requests : GateAt(k, "commit")' <=> GateAt(k, "commit") /\ job'[k] = job[k]
    BY <1>1, <2>8, <2>20 DEF GateAt, At
  <2>23. \A q \in Pairs, e \in Nat : (MissedAt(q, e)' => MissedAt(q, e)) /\ (ReadAt(q, e)' => ReadAt(q, e))
    BY <2>19, <2>22 DEF MissedAt, ReadAt
  <2>24. VerdictsOK'
    BY <2>19, <2>23 DEF ConnectInv, ReadingOK, VerdictsOK
  <2>25. CommitsOK'
    BY <2>19, <2>22 DEF ConnectInv, ReadingOK, CommitsOK, Known
  <2>26. SparksRead'
    BY <2>19 DEF ConnectInv, ReadingOK, SparksRead, Sent
  <2>27. QED
    BY <1>2, <2>17, <2>18, <2>21, <2>24, <2>25, <2>26 DEF ConnectInv, ReadingOK
<1>5. QED
  BY <1>3, <1>4

\* A verdict on the gate of now agrees with those there are on it.
LEMMA ScoreStep ==
  ASSUME ConnectInv, NEW r \in Requests, GateScore(r)
  PROVE  ConnectInv' /\ CardsKept
<1> DEFINE p == job[r].pair
           truths == gate[p[2]]
           aligned == Aligned(Known(r), truths)
           sends == aligned /\ ~job[r].back
           does == IF sends THEN "send"
                   ELSE IF aligned /\ CanAccept(Back(p)) THEN "accept" ELSE "nothing"
           missed == ~aligned /\ Asked(truths) \subseteq Asked(Known(r))
           J == [op |-> "gate", step |-> "commit", pair |-> p, day |-> job[r].day,
                 adds |-> job[r].adds, claims |-> job[r].claims, does |-> does,
                 on |-> edition[p[2]], missed |-> missed]
<1>1. GateAt(r, "score") /\ At(r, "gate") /\ Holds(r) /\ UNCHANGED <<rows, around>>
  BY DEF GateScore, GateAt, Holds
<1>2. TypeOK'
  BY <1>1 DEF ConnectInv, TypeOK, rows, answers, around
<1>3. Begin(r, J) \/ End(r)
  BY DEF GateScore
<1>4. CASE End(r)
  BY <1>1, <1>2, <1>4, NoJobOK, ReadStep DEF rows, End
<1>5. CASE Begin(r, J)
  <2>1. job[r] \in Scoring /\ GateOK(job[r]) /\ p \in Pairs /\ p[2] \in Members
    BY <1>1, GateFacts, PairFacts DEF ConnectInv
  <2>2. /\ job[r].day \in 1..Days /\ job[r].back \in BOOLEAN /\ job[r].step = "score"
        /\ job[r].adds \in SUBSET Facts /\ job[r].claims \in BOOLEAN
    BY <2>1 DEF Scoring
  <2>3. edition[p[2]] \in Nat /\ guesses[p] \in SUBSET Facts
    BY <2>1 DEF ConnectInv, TypeOK
  <2>4. does \in {"nothing", "send", "accept"} /\ missed \in BOOLEAN
    OBVIOUS
  <2>5. /\ does = "send" => ~job[r].back
        /\ does = "accept" => job[r].back
        /\ does # "nothing" => Aligned(Known(r), truths)
        /\ missed => Misses(Known(r), truths)
    BY <2>2 DEF Misses
  <2>6. PICK j : j = J
    OBVIOUS
  <2>7. Begin(r, j)
    BY <1>5, <2>6
  <2>8. /\ j.op = "gate" /\ j.step = "commit" /\ j.pair = p /\ j.day = job[r].day
        /\ j.adds = job[r].adds /\ j.claims = job[r].claims /\ j.does = does
        /\ j.on = edition[p[2]] /\ j.missed = missed
    BY <2>6
  <2> HIDE DEF does, missed
  <2>9. j \in Committing
    BY <2>1, <2>2, <2>3, <2>4, <2>6 DEF Committing
  <2>10. j \in Job
    BY <2>9 DEF Job
  <2> HIDE DEF J
  <2>11. GateOK(j)
    BY <2>1, <2>2, <2>5, <2>8 DEF GateOK, Uses
  <2>12. JobOK(j)'
    BY <1>1, <2>8, <2>11 DEF JobOK, GateOK, Uses, Sent, rows
  <2>13. \A k \in Requests \ {r} : Holds(k) /\ job[k].claims /\ j.claims =>
             DropOf(k) # <<j.pair[1], j.day>>
    BY <1>1, <2>8 DEF ConnectInv, JobsOK, ClaimsApart, DropOf
  <2>14. JobsOK'
    BY <1>1, <2>7, <2>10, <2>12, <2>13, JobsStep DEF ConnectInv, Sent, rows
  <2>15. SparksOK' /\ CardsKept /\ FillsOK' /\ Stocked'
    BY <1>1, <2>7, <2>8, <2>10, FillsStep DEF ConnectInv, SparksOK, Sent, CardsKept, rows
  <2>16. UNCHANGED <<gate, guesses, edition, misread, read, sparks>>
    BY <1>1 DEF rows, answers
  <2>17. job' \in [Requests -> Job] /\ job'[r] = j /\ \A k \in Requests \ {r} : job'[k] = job[k]
    BY <2>7, <2>10 DEF ConnectInv, JobsOK, Begin
  <2>18. \A k \in Requests : (Holds(k)' <=> Holds(k)) /\ job'[k].adds = job[k].adds
                             /\ job'[k].pair = job[k].pair
    BY <1>1, <2>8, <2>17 DEF Holds, GateAt, At
  <2>19. AddsOK'
    BY <2>16, <2>18 DEF ConnectInv, ReadingOK, AddsOK
  <2>20. \A k \in Requests \ {r} : GateAt(k, "commit")' <=> GateAt(k, "commit")
    BY <2>17 DEF GateAt, At
  <2>21. GateAt(r, "commit")' /\ ~GateAt(r, "commit")
    BY <1>1, <2>8, <2>17 DEF GateAt, At
  <2>22. CommitsOK'
    <3>1. Known(r)' = Known(r)
      BY <2>8, <2>16, <2>17 DEF Known
    <3>2. \A k \in Requests \ {r} : Known(k)' = Known(k)
      BY <2>16, <2>17 DEF Known
    <3> SUFFICES ASSUME NEW k \in Requests, GateAt(k, "commit")', job'[k].on = edition[job'[k].pair[2]]
                 PROVE  /\ job'[k].missed => Misses(Known(k)', gate[job'[k].pair[2]])
                        /\ job'[k].does # "nothing" => Aligned(Known(k)', gate[job'[k].pair[2]])
      BY <2>16 DEF CommitsOK, Misses, Aligned
    <3>3. CASE k = r
      BY <3>1, <3>3, <2>5, <2>8, <2>17
    <3>4. CASE k # r
      BY <3>2, <3>4, <2>16, <2>17, <2>20 DEF ConnectInv, ReadingOK, CommitsOK
    <3>5. QED
      BY <3>3, <3>4
  <2>23. \A q \in Pairs, e \in Nat :
            /\ MissedAt(q, e)' => MissedAt(q, e) \/ (q = p /\ e = edition[p[2]] /\ missed)
            /\ ReadAt(q, e)' => ReadAt(q, e) \/ (q = p /\ e = edition[p[2]] /\ does # "nothing")
    BY <2>8, <2>16, <2>17, <2>20, <2>21 DEF MissedAt, ReadAt
  <2>24. Fresh(guesses[p], job[r].adds)
         /\ \A k \in Requests \ {r} : Holds(k) /\ job[k].pair = p =>
               /\ Fresh(job[r].adds, job[k].adds) /\ Fresh(job[k].adds, job[r].adds)
               /\ Fresh(guesses[p], job[k].adds) /\ job[k].adds \in SUBSET Facts
    <3>1. \A k \in Requests : Holds(k) => job[k].adds \in SUBSET Facts
      BY GateFacts DEF ConnectInv, Holds, GateAt
    <3>2. QED
      BY <1>1, <3>1 DEF ConnectInv, ReadingOK, AddsOK
  <2>25. Known(r) = guesses[p] \cup job[r].adds
    BY DEF Known
  <2>26. missed => ~ReadAt(p, edition[p[2]])
    <3> SUFFICES ASSUME missed, ReadAt(p, edition[p[2]]) PROVE FALSE
      OBVIOUS
    <3>1. Misses(guesses[p] \cup job[r].adds, truths)
      BY <2>5, <2>25
    <3>2. CASE <<p, edition[p[2]]>> \in read
      <4>1. Aligned(guesses[p], truths)
        BY <3>2, <2>1, <2>3 DEF ConnectInv, ReadingOK, VerdictsOK
      <4>2. Aligned(guesses[p] \cup job[r].adds, truths)
        BY <4>1, <2>2, <2>3, MoreGuesses
      <4>3. QED
        BY <3>1, <4>2 DEF Misses
    <3>3. CASE \E k \in Requests : /\ GateAt(k, "commit") /\ job[k].pair = p
                                   /\ job[k].on = edition[p[2]] /\ job[k].does # "nothing"
      <4>1. PICK k \in Requests : /\ GateAt(k, "commit") /\ job[k].pair = p
                                  /\ job[k].on = edition[p[2]] /\ job[k].does # "nothing"
        BY <3>3
      <4>2. k # r /\ Holds(k)
        BY <4>1, <2>21 DEF Holds
      <4>3. Aligned(guesses[p] \cup job[k].adds, truths)
        BY <4>1 DEF ConnectInv, ReadingOK, CommitsOK, Known
      <4>4. QED
        BY <3>1, <4>1, <4>2, <4>3, <2>2, <2>3, <2>24, OneVerdict
    <3>4. QED
      BY <3>2, <3>3 DEF ReadAt
  <2>27. does # "nothing" => ~MissedAt(p, edition[p[2]])
    <3> SUFFICES ASSUME does # "nothing", MissedAt(p, edition[p[2]]) PROVE FALSE
      OBVIOUS
    <3>1. Aligned(guesses[p] \cup job[r].adds, truths)
      BY <2>5, <2>25
    <3>2. CASE <<p, edition[p[2]]>> \in misread
      <4>1. Misses(guesses[p], truths)
        BY <3>2, <2>1, <2>3 DEF ConnectInv, ReadingOK, VerdictsOK
      <4>2. Misses(guesses[p] \cup job[r].adds, truths)
        BY <4>1, <2>24, OtherGuesses
      <4>3. QED
        BY <3>1, <4>2 DEF Misses
    <3>3. CASE \E k \in Requests : /\ GateAt(k, "commit") /\ job[k].pair = p
                                   /\ job[k].on = edition[p[2]] /\ job[k].missed
      <4>1. PICK k \in Requests : /\ GateAt(k, "commit") /\ job[k].pair = p
                                  /\ job[k].on = edition[p[2]] /\ job[k].missed
        BY <3>3
      <4>2. k # r /\ Holds(k)
        BY <4>1, <2>21 DEF Holds
      <4>3. Misses(guesses[p] \cup job[k].adds, truths)
        BY <4>1 DEF ConnectInv, ReadingOK, CommitsOK, Known
      <4>4. QED
        BY <3>1, <4>1, <4>2, <4>3, <2>2, <2>3, <2>24, OneVerdict
    <3>4. QED
      BY <3>2, <3>3 DEF MissedAt
  <2>28. ~(missed /\ does # "nothing")
    BY <2>5 DEF Misses
  <2>29. VerdictsOK'
    <3> SUFFICES ASSUME NEW q \in Pairs, NEW e \in Nat
                 PROVE  /\ MissedAt(q, e)' \/ ReadAt(q, e)' => e <= edition[q[2]]
                        /\ ~(MissedAt(q, e)' /\ ReadAt(q, e)')
                        /\ e = edition[q[2]] =>
                              /\ <<q, e>> \in misread => Misses(guesses[q], gate[q[2]])
                              /\ <<q, e>> \in read => Aligned(guesses[q], gate[q[2]])
      BY <2>16 DEF VerdictsOK, Misses, Aligned
    <3>1. /\ MissedAt(q, e) \/ ReadAt(q, e) => e <= edition[q[2]]
          /\ ~(MissedAt(q, e) /\ ReadAt(q, e))
          /\ e = edition[q[2]] =>
                /\ <<q, e>> \in misread => Misses(guesses[q], gate[q[2]])
                /\ <<q, e>> \in read => Aligned(guesses[q], gate[q[2]])
      BY DEF ConnectInv, ReadingOK, VerdictsOK
    <3> HIDE DEF p
    <3>2. QED
      BY <3>1, <2>3, <2>23, <2>26, <2>27, <2>28
  <2>30. SparksRead'
    BY <2>16 DEF ConnectInv, ReadingOK, SparksRead, Sent
  <2>31. QED
    BY <1>2, <2>14, <2>15, <2>19, <2>22, <2>29, <2>30 DEF ConnectInv, ReadingOK
<1>6. QED
  BY <1>3, <1>4, <1>5

\* What the commit of the gate writes, unless its spark's key is taken.
Writes(r) ==
    LET p == job[r].pair
        seen == {<<p, job[r].on>>}
    IN  /\ guesses' = [guesses EXCEPT ![p] = @ \cup job[r].adds]
        /\ drops' = IF job[r].claims THEN [drops EXCEPT ![DropOf(r)].read = p[2]] ELSE drops
        /\ job[r].does = "send" => /\ sparks[p] = NoSpark
                                   /\ sparks' = [sparks EXCEPT ![p] =
                                          [status |-> "pending", drop |-> job[r].day]]
        /\ job[r].does = "accept" => sparks' = [sparks EXCEPT ![Back(p)].status = "accepted"]
        /\ job[r].does = "nothing" => sparks' = sparks
        /\ misread' = IF job[r].missed THEN misread \cup seen ELSE misread
        /\ read' = IF job[r].does = "nothing" THEN read ELSE read \cup seen
        /\ UNCHANGED <<gate, edition, picks, around>>

LEMMA CommitCases ==
  ASSUME ConnectInv, NEW r \in Requests, GateCommit(r)
  PROVE  /\ GateAt(r, "commit") /\ At(r, "gate") /\ Holds(r) /\ End(r)
         /\ UNCHANGED <<rows, around>> \/ Writes(r)
<1>1. GateAt(r, "commit") /\ At(r, "gate") /\ Holds(r) /\ End(r) /\ UNCHANGED around
  BY DEF GateCommit, GateAt, Holds
<1>2. job[r] \in Committing
  BY <1>1, GateFacts DEF ConnectInv
<1>3. CASE job[r].does = "send" /\ sparks[job[r].pair] # NoSpark
  BY <1>1, <1>3 DEF GateCommit
<1>4. CASE job[r].does = "send" /\ sparks[job[r].pair] = NoSpark
  BY <1>1, <1>4, SMT DEF GateCommit, Writes
<1>5. CASE job[r].does = "accept"
  BY <1>1, <1>5, SMT DEF GateCommit, Writes
<1>6. CASE job[r].does = "nothing"
  BY <1>1, <1>6, SMT DEF GateCommit, Writes
<1>7. QED
  BY <1>1, <1>2, <1>3, <1>4, <1>5, <1>6 DEF Committing

\* What is known of a request that commits.
LEMMA CommitFacts ==
  ASSUME ConnectInv, NEW r \in Requests, GateAt(r, "commit")
  PROVE  /\ job[r].pair \in Pairs /\ job[r].pair[2] \in Members /\ job[r].pair[2] # None
         /\ Back(job[r].pair) \in Pairs
         /\ job[r].day \in 1..Days /\ job[r].adds \in SUBSET Facts /\ job[r].claims \in BOOLEAN
         /\ job[r].does \in {"nothing", "send", "accept"} /\ job[r].on \in Nat
         /\ job[r].missed \in BOOLEAN
         /\ job[r].claims \/ job[r].does = "send" =>
               /\ job[r].pair[1] \in Receivers /\ DropOf(r) \in DropKeys
               /\ drops[DropOf(r)].read = IF job[r].claims THEN None ELSE job[r].pair[2]
         /\ job[r].does = "accept" => Sent(Back(job[r].pair))
<1>1. At(r, "gate") /\ Holds(r) /\ job[r].step = "commit"
  BY DEF GateAt, Holds
<1>2. /\ job[r] \in Committing /\ GateOK(job[r]) /\ job[r].pair \in Pairs
      /\ job[r].pair[1] \in Receivers => DropOf(r) \in DropKeys
  BY <1>1, GateFacts DEF ConnectInv
<1>3. job[r].pair[2] \in Members /\ job[r].pair[2] # None /\ Back(job[r].pair) \in Pairs
  BY <1>2, PairFacts
<1>4. /\ job[r].claims \/ job[r].does = "send" =>
               /\ job[r].pair[1] \in Receivers
               /\ drops[DropOf(r)].read = IF job[r].claims THEN None ELSE job[r].pair[2]
      /\ job[r].does = "accept" => Sent(Back(job[r].pair))
  BY <1>1, <1>2 DEF GateOK, Uses, DropOf
<1>5. QED
  BY <1>2, <1>3, <1>4 DEF Committing

\* The commit keeps the rows well-formed.
LEMMA CommitTypes ==
  ASSUME ConnectInv, NEW r \in Requests, GateAt(r, "commit"), Writes(r)
  PROVE  TypeOK'
<1> DEFINE p == job[r].pair
<1>1. /\ p \in Pairs /\ p[2] \in Members /\ Back(p) \in Pairs
      /\ job[r].day \in 1..Days /\ job[r].adds \in SUBSET Facts
      /\ job[r].does \in {"nothing", "send", "accept"} /\ job[r].on \in Nat
      /\ job[r].claims => DropOf(r) \in DropKeys
  BY CommitFacts
<1>2. guesses' \in [Pairs -> SUBSET Facts] /\ \A q \in Pairs : OnePerQuestion(guesses'[q])
  <2>1. guesses \in [Pairs -> SUBSET Facts] /\ \A q \in Pairs : OnePerQuestion(guesses[q])
    BY DEF ConnectInv, TypeOK
  <2>2. guesses' = [guesses EXCEPT ![p] = @ \cup job[r].adds]
    BY DEF Writes
  <2>3. OnePerQuestion(job[r].adds) /\ Fresh(guesses[p], job[r].adds)
    BY DEF ConnectInv, ReadingOK, AddsOK, Holds
  <2>4. OnePerQuestion(guesses[p] \cup job[r].adds)
    BY <1>1, <2>1, <2>3 DEF OnePerQuestion, Fresh, Asked
  <2> HIDE DEF p
  <2>5. QED
    BY <1>1, <2>1, <2>2, <2>4
<1>3. drops' \in [DropKeys -> Drop] /\ \A k \in DropKeys : drops'[k].cards = drops[k].cards
  <2>1. drops \in [DropKeys -> Drop]
    BY DEF ConnectInv, TypeOK, Drop
  <2>2. drops' = IF job[r].claims THEN [drops EXCEPT ![DropOf(r)].read = p[2]] ELSE drops
    BY DEF Writes
  <2>3. QED
    BY <1>1, <2>1, <2>2 DEF Drop
<1>4. sparks' \in [Pairs -> Spark]
  <2>1. sparks \in [Pairs -> Spark] /\ Days \in Nat
    BY ConnectAssumption DEF ConnectInv, TypeOK, Spark
  <2>2. CASE job[r].does = "send"
    <3>1. sparks' = [sparks EXCEPT ![p] = [status |-> "pending", drop |-> job[r].day]]
      BY <2>2 DEF Writes
    <3>2. [status |-> "pending", drop |-> job[r].day] \in Spark
      BY <1>1, <2>1 DEF Spark
    <3>3. QED
      BY <1>1, <2>1, <3>1, <3>2
  <2>3. CASE job[r].does = "accept"
    <3>1. sparks' = [sparks EXCEPT ![Back(p)].status = "accepted"]
      BY <2>3 DEF Writes
    <3>2. QED
      BY <1>1, <2>1, <3>1 DEF Spark
  <2>4. CASE job[r].does = "nothing"
    <3>1. sparks' = sparks
      BY <2>4 DEF Writes
    <3>2. QED
      BY <2>1, <3>1
  <2>5. QED
    BY <1>1, <2>2, <2>3, <2>4
<1>5. misread' \cup read' \subseteq Pairs \X Nat
  <2>1. misread \cup read \subseteq Pairs \X Nat
    BY DEF ConnectInv, TypeOK
  <2>2. <<p, job[r].on>> \in Pairs \X Nat
    BY <1>1
  <2>3. QED
    BY <2>1, <2>2 DEF Writes
<1>6. UNCHANGED <<gate, edition, picks, around>>
  BY DEF Writes
<1>7. QED
  BY <1>2, <1>3, <1>4, <1>5, <1>6 DEF ConnectInv, TypeOK, around, Drop, Spark

\* The commit reads the card its drop was spent on.
LEMMA CommitSparks ==
  ASSUME ConnectInv, NEW r \in Requests, GateAt(r, "commit"), End(r), Writes(r)
  PROVE  /\ SparksOK' /\ JobsOK' /\ FillsOK' /\ Stocked' /\ CardsKept
         /\ \A q \in Pairs : Sent(q)' => Sent(q) \/ (q = job[r].pair /\ job[r].does = "send")
<1> DEFINE p == job[r].pair
<1>1. /\ p \in Pairs /\ p[2] \in Members /\ p[2] # None /\ Back(p) \in Pairs
      /\ job[r].day \in 1..Days /\ job[r].claims \in BOOLEAN
      /\ job[r].does \in {"nothing", "send", "accept"}
      /\ job[r].claims \/ job[r].does = "send" =>
               /\ p[1] \in Receivers /\ DropOf(r) \in DropKeys
               /\ drops[DropOf(r)].read = IF job[r].claims THEN None ELSE p[2]
      /\ job[r].does = "accept" => Sent(Back(p))
  BY CommitFacts
<1>2. /\ drops' = IF job[r].claims THEN [drops EXCEPT ![DropOf(r)].read = p[2]] ELSE drops
      /\ job[r].does = "send" =>
           /\ sparks[p] = NoSpark
           /\ sparks' = [sparks EXCEPT ![p] = [status |-> "pending", drop |-> job[r].day]]
      /\ job[r].does = "accept" => sparks' = [sparks EXCEPT ![Back(p)].status = "accepted"]
      /\ job[r].does = "nothing" => sparks' = sparks
  BY DEF Writes
<1>3. drops \in [DropKeys -> Drop] /\ sparks \in [Pairs -> Spark]
  BY DEF ConnectInv, TypeOK, Drop, Spark
<1>4. DropOf(r) = <<p[1], job[r].day>>
  BY DEF DropOf
<1> HIDE DEF p
<1>5. \A k \in DropKeys : drops'[k].made = drops[k].made /\ drops'[k].cards = drops[k].cards
  BY <1>1, <1>2, <1>3 DEF Drop
<1>6. \A k \in DropKeys : drops[k].read # None => drops'[k].read = drops[k].read
  BY <1>1, <1>2, <1>3 DEF Drop
<1>7. \A q \in Pairs : /\ Sent(q) => Sent(q)' /\ sparks'[q].drop = sparks[q].drop
                       /\ Sent(q)' => Sent(q) \/ (q = p /\ job[r].does = "send")
  <2>1. CASE job[r].does = "send"
    BY <2>1, <1>1, <1>2, <1>3 DEF Sent, Spark, NoSpark
  <2>2. CASE job[r].does = "accept"
    BY <2>2, <1>1, <1>2, <1>3 DEF Sent, Spark
  <2>3. CASE job[r].does = "nothing"
    BY <2>3, <1>1, <1>2, <1>3 DEF Sent, Spark
  <2>4. QED
    BY <1>1, <2>1, <2>2, <2>3
<1>8. SparksOK'
  <2> SUFFICES ASSUME NEW q \in Pairs
               PROVE  /\ sparks'[q].status = "none" <=> sparks'[q] = NoSpark
                      /\ sparks'[q].status # "none" =>
                            /\ q[1] \in Receivers /\ sparks'[q].drop \in 1..Days
                            /\ drops'[<<q[1], sparks'[q].drop>>].read = q[2]
    BY DEF SparksOK, Sent
  <2>1. /\ sparks[q].status = "none" <=> sparks[q] = NoSpark
        /\ sparks[q].status # "none" =>
              /\ q[1] \in Receivers /\ sparks[q].drop \in 1..Days
              /\ drops[<<q[1], sparks[q].drop>>].read = q[2]
    BY DEF ConnectInv, SparksOK, Sent
  <2>2. q[2] # None
    BY PairFacts
  <2>3. sparks[q].status # "none" =>
              /\ <<q[1], sparks[q].drop>> \in DropKeys
              /\ drops'[<<q[1], sparks[q].drop>>].read = q[2]
    <3>1. sparks[q].status # "none" => <<q[1], sparks[q].drop>> \in DropKeys
      BY <2>1 DEF DropKeys
    <3>2. QED
      BY <2>1, <2>2, <3>1, <1>6
  <2>4. CASE job[r].does = "send" /\ q = p
    <3>1. sparks'[q] = [status |-> "pending", drop |-> job[r].day]
      BY <2>4, <1>2, <1>3
    <3>2. sparks'[q].status = "pending" /\ sparks'[q].drop = job[r].day /\ sparks'[q] # NoSpark
      BY <3>1 DEF NoSpark
    <3>3. drops'[DropOf(r)].read = q[2]
      BY <2>4, <1>1, <1>2, <1>3 DEF Drop
    <3>4. QED
      BY <2>4, <3>2, <3>3, <1>1, <1>4
  <2>5. CASE job[r].does = "accept" /\ q = Back(p)
    <3>1. sparks[q].status # "none"
      BY <2>5, <1>1 DEF Sent
    <3>2. sparks'[q].status = "accepted" /\ sparks'[q].drop = sparks[q].drop
      BY <2>5, <1>2, <1>3 DEF Spark
    <3>3. sparks'[q] # NoSpark
      BY <3>2 DEF NoSpark
    <3>4. QED
      BY <2>1, <2>3, <3>1, <3>2, <3>3
  <2>6. CASE ~(job[r].does = "send" /\ q = p) /\ ~(job[r].does = "accept" /\ q = Back(p))
    <3>1. sparks'[q] = sparks[q]
      BY <2>6, <1>1, <1>2, <1>3
    <3>2. QED
      BY <2>1, <2>3, <3>1
  <2>7. QED
    BY <2>4, <2>5, <2>6
<1>9. \A k \in Requests \ {r} : Holds(k) /\ Uses(job[k]) =>
             drops'[DropOf(k)].read = drops[DropOf(k)].read
  <2> SUFFICES ASSUME NEW k \in Requests \ {r}, Holds(k), Uses(job[k])
               PROVE  drops'[DropOf(k)].read = drops[DropOf(k)].read
    OBVIOUS
  <2>1. /\ DropOf(k) \in DropKeys /\ job[k].claims \in BOOLEAN /\ job[k].pair \in Pairs
        /\ drops[DropOf(k)].read = IF job[k].claims THEN None ELSE job[k].pair[2]
    BY GateFacts DEF ConnectInv, Holds, GateAt, GateOK, DropOf
  <2>2. CASE ~job[k].claims
    BY <2>1, <2>2, <1>6, PairFacts
  <2>3. CASE job[k].claims /\ ~job[r].claims
    BY <2>3, <1>2
  <2>4. CASE job[k].claims /\ job[r].claims
    <3>1. DropOf(k) # DropOf(r)
      BY <2>4 DEF ConnectInv, JobsOK, ClaimsApart, Holds
    <3>2. QED
      BY <3>1, <2>1, <2>4, <1>1, <1>2, <1>3
  <2>5. QED
    BY <2>1, <2>2, <2>3, <2>4, <1>1
<1>10. JobsOK'
  BY <1>7, <1>9, NoJobOK, JobsStep DEF End, ConnectInv
<1>11. FillsOK' /\ Stocked' /\ CardsKept
  BY <1>5, NoJobOK, FillsStep DEF End, CardsKept
<1>12. QED
  BY <1>7, <1>8, <1>10, <1>11 DEF p

\* The commit stores the guesses its verdict stands on.
LEMMA CommitReadings ==
  ASSUME ConnectInv, NEW r \in Requests, GateAt(r, "commit"), End(r), Writes(r)
  PROVE  ReadingOK'
<1> DEFINE p == job[r].pair
           A == job[r].adds
           on == job[r].on
<1>1. /\ p \in Pairs /\ A \in SUBSET Facts /\ on \in Nat /\ job[r].missed \in BOOLEAN
      /\ job[r].does \in {"nothing", "send", "accept"}
  BY CommitFacts
<1>2. guesses \in [Pairs -> SUBSET Facts] /\ edition \in [Members -> Nat] /\ p[2] \in Members
  BY CommitFacts DEF ConnectInv, TypeOK
<1>3. /\ guesses' = [guesses EXCEPT ![p] = @ \cup A]
      /\ misread' = IF job[r].missed THEN misread \cup {<<p, on>>} ELSE misread
      /\ read' = IF job[r].does = "nothing" THEN read ELSE read \cup {<<p, on>>}
      /\ gate' = gate /\ edition' = edition
  BY DEF Writes
<1>4. guesses'[p] = guesses[p] \cup A /\ \A q \in Pairs : q # p => guesses'[q] = guesses[q]
  BY <1>1, <1>2, <1>3
<1>5. /\ job' \in [Requests -> Job] /\ job'[r] = NoJob
      /\ \A k \in Requests \ {r} : job'[k] = job[k]
  BY NoJobOK DEF ConnectInv, JobsOK, Begin, End
<1>6. \A k \in Requests :
          /\ Holds(k)' => k # r /\ Holds(k) /\ job'[k] = job[k]
          /\ GateAt(k, "commit")' => k # r /\ GateAt(k, "commit") /\ job'[k] = job[k]
  BY <1>5 DEF Holds, GateAt, At, NoJob
<1>7. Holds(r) /\ Known(r) = guesses[p] \cup A
  BY DEF Holds, Known
<1>8. \A k \in Requests \ {r} : Holds(k) =>
          /\ job[k].adds \in SUBSET Facts /\ job[k].pair \in Pairs
          /\ OnePerQuestion(job[k].adds) /\ Fresh(guesses[job[k].pair], job[k].adds)
          /\ job[k].pair = p => Fresh(A, job[k].adds) /\ Fresh(job[k].adds, A)
          /\ \A q \in Requests \ {k} :
                Holds(q) /\ job[q].pair = job[k].pair => Fresh(job[q].adds, job[k].adds)
  <2>1. \A k \in Requests : Holds(k) => job[k].adds \in SUBSET Facts /\ job[k].pair \in Pairs
    BY GateFacts DEF ConnectInv, Holds, GateAt
  <2>2. QED
    BY <1>7, <2>1 DEF ConnectInv, ReadingOK, AddsOK
<1>9. Fresh(guesses[p], A)
  BY <1>7 DEF ConnectInv, ReadingOK, AddsOK
<1> HIDE DEF p, A, on
<1>10. AddsOK'
  <2> SUFFICES ASSUME NEW k \in Requests, Holds(k)'
               PROVE  /\ OnePerQuestion(job'[k].adds)
                      /\ Fresh(guesses'[job'[k].pair], job'[k].adds)
                      /\ \A q \in Requests \ {k} :
                            Holds(q)' /\ job'[q].pair = job'[k].pair => Fresh(job'[q].adds, job'[k].adds)
    BY DEF AddsOK
  <2>1. k # r /\ Holds(k) /\ job'[k] = job[k]
    BY <1>6
  <2>2. Fresh(guesses'[job[k].pair], job[k].adds)
    <3>1. CASE job[k].pair = p
      <4>1. Fresh(guesses[p], job[k].adds) /\ Fresh(A, job[k].adds)
        BY <3>1, <2>1, <1>8
      <4>2. QED
        BY <4>1, <3>1, <1>4 DEF Fresh, Asked
    <3>2. CASE job[k].pair # p
      BY <3>2, <2>1, <1>4, <1>8
    <3>3. QED
      BY <3>1, <3>2
  <2>3. QED
    BY <2>1, <2>2, <1>6, <1>8
<1>11. /\ \A q \in Pairs, e \in Nat : MissedAt(q, e)' => MissedAt(q, e)
       /\ \A q \in Pairs, e \in Nat : ReadAt(q, e)' => ReadAt(q, e)
  BY <1>1, <1>3, <1>6 DEF MissedAt, ReadAt, p, on
<1>12. \A q \in Pairs : Misses(guesses[q], gate[q[2]]) => Misses(guesses'[q], gate[q[2]])
  <2>1. \A g : Misses(guesses[p], g) => Misses(guesses[p] \cup A, g)
    BY <1>9, OtherGuesses
  <2>2. QED
    BY <2>1, <1>4
<1>13. \A q \in Pairs : Aligned(guesses[q], gate[q[2]]) => Aligned(guesses'[q], gate[q[2]])
  <2>1. guesses[p] \in SUBSET Facts /\ guesses[p] \cup A \in SUBSET Facts
        /\ guesses[p] \subseteq guesses[p] \cup A
    BY <1>1, <1>2
  <2>2. \A g : Aligned(guesses[p], g) => Aligned(guesses[p] \cup A, g)
    BY <2>1, MoreGuesses
  <2>3. QED
    BY <2>2, <1>4
<1>14. on = edition[p[2]] =>
          /\ job[r].missed => Misses(guesses'[p], gate[p[2]])
          /\ job[r].does # "nothing" => Aligned(guesses'[p], gate[p[2]])
  BY <1>4, <1>7 DEF ConnectInv, ReadingOK, CommitsOK, p, on
<1>15. VerdictsOK'
  <2> SUFFICES ASSUME NEW q \in Pairs, NEW e \in Nat
               PROVE  /\ MissedAt(q, e)' \/ ReadAt(q, e)' => e <= edition[q[2]]
                      /\ ~(MissedAt(q, e)' /\ ReadAt(q, e)')
                      /\ e = edition[q[2]] =>
                            /\ <<q, e>> \in misread' => Misses(guesses'[q], gate[q[2]])
                            /\ <<q, e>> \in read' => Aligned(guesses'[q], gate[q[2]])
    BY <1>3 DEF VerdictsOK, Misses, Aligned
  <2>1. /\ MissedAt(q, e) \/ ReadAt(q, e) => e <= edition[q[2]]
        /\ ~(MissedAt(q, e) /\ ReadAt(q, e))
        /\ e = edition[q[2]] =>
              /\ <<q, e>> \in misread => Misses(guesses[q], gate[q[2]])
              /\ <<q, e>> \in read => Aligned(guesses[q], gate[q[2]])
    BY DEF ConnectInv, ReadingOK, VerdictsOK
  <2>2. /\ <<q, e>> \in misread' => <<q, e>> \in misread \/ (q = p /\ e = on /\ job[r].missed)
        /\ <<q, e>> \in read' => <<q, e>> \in read \/ (q = p /\ e = on /\ job[r].does # "nothing")
    BY <1>3
  <2>3. QED
    BY <2>1, <2>2, <1>11, <1>12, <1>13, <1>14
<1>16. CommitsOK'
  <2> SUFFICES ASSUME NEW k \in Requests, GateAt(k, "commit")', job'[k].on = edition[job'[k].pair[2]]
               PROVE  /\ job'[k].missed => Misses(Known(k)', gate[job'[k].pair[2]])
                      /\ job'[k].does # "nothing" => Aligned(Known(k)', gate[job'[k].pair[2]])
    BY <1>3 DEF CommitsOK, Misses, Aligned
  <2>1. k # r /\ GateAt(k, "commit") /\ job'[k] = job[k] /\ Holds(k)
    BY <1>6 DEF Holds
  <2>2. /\ job[k].missed => Misses(Known(k), gate[job[k].pair[2]])
        /\ job[k].does # "nothing" => Aligned(Known(k), gate[job[k].pair[2]])
    BY <2>1 DEF ConnectInv, ReadingOK, CommitsOK
  <2>3. Known(k)' = guesses'[job[k].pair] \cup job[k].adds
    BY <2>1 DEF Known
  <2>4. CASE job[k].pair # p
    <3>1. Known(k)' = Known(k)
      BY <2>1, <2>3, <2>4, <1>4, <1>8 DEF Known
    <3>2. QED
      BY <2>1, <2>2, <3>1
  <2>5. CASE job[k].pair = p
    <3>1. Known(k)' = Known(k) \cup A
      BY <2>3, <2>5, <1>4 DEF Known
    <3>2. Fresh(Known(k), A)
      <4>1. Fresh(guesses[p], A) /\ Fresh(job[k].adds, A)
        BY <2>1, <2>5, <1>8, <1>9
      <4>2. QED
        BY <4>1, <2>5 DEF Known, Fresh, Asked
    <3>3. Known(k) \in SUBSET Facts /\ Known(k) \cup A \in SUBSET Facts
      BY <2>1, <2>5, <1>1, <1>2, <1>8 DEF Known
    <3>4. job[k].missed => Misses(Known(k) \cup A, gate[job[k].pair[2]])
      BY <2>2, <3>2, OtherGuesses
    <3>5. job[k].does # "nothing" => Aligned(Known(k) \cup A, gate[job[k].pair[2]])
      BY <2>2, <3>3, MoreGuesses
    <3>6. QED
      BY <2>1, <3>1, <3>4, <3>5
  <2>6. QED
    BY <2>4, <2>5
<1>17. SparksRead'
  <2> SUFFICES ASSUME NEW q \in Pairs, Sent(q)'
               PROVE  \E e \in 0..edition[q[2]] : <<q, e>> \in read'
    BY <1>3 DEF SparksRead
  <2>1. read \subseteq read'
    BY <1>3
  <2>2. CASE Sent(q)
    BY <2>1, <2>2 DEF ConnectInv, ReadingOK, SparksRead
  <2>3. CASE q = p /\ job[r].does = "send"
    <3>1. <<q, on>> \in read'
      BY <2>3, <1>3
    <3>2. ReadAt(p, on)
      BY <2>3 DEF ReadAt, p, on
    <3>3. on <= edition[p[2]]
      BY <3>2, <1>1 DEF ConnectInv, ReadingOK, VerdictsOK
    <3>4. on \in 0..edition[q[2]]
      BY <2>3, <3>3, <1>1, <1>2
    <3>5. QED
      BY <3>1, <3>4
  <2>4. QED
    BY <2>2, <2>3, CommitSparks DEF p
<1>18. QED
  BY <1>10, <1>15, <1>16, <1>17 DEF ReadingOK

LEMMA CommitStep ==
  ASSUME ConnectInv, NEW r \in Requests, GateCommit(r)
  PROVE  ConnectInv' /\ CardsKept
<1>1. CASE UNCHANGED <<rows, around>>
  <2>1. TypeOK'
    BY <1>1 DEF ConnectInv, TypeOK, rows, answers, around
  <2>2. QED
    BY <1>1, <2>1, CommitCases, NoJobOK, ReadStep DEF rows, End
<1>2. CASE Writes(r)
  BY <1>2, CommitCases, CommitTypes, CommitSparks, CommitReadings DEF ConnectInv
<1>3. QED
  BY <1>1, <1>2, CommitCases

\* A new choice of questions opens a new gate, of which there is no verdict yet.
LEMMA RepickStep ==
  ASSUME ConnectInv, NEW r \in Requests, RepickCommit(r)
  PROVE  ConnectInv' /\ CardsKept
<1> DEFINE u == job[r].owner
           gone == job[r].gone
<1>1. At(r, "repick") /\ End(r) /\ UNCHANGED <<misread, read, drops, sparks, picks, around>>
  BY DEF RepickCommit, Repicking
<1>2. job[r] \in Job /\ JobOK(job[r]) /\ job[r].op = "repick"
  BY <1>1 DEF ConnectInv, JobsOK, At
<1>3. job[r] \in Choosing
  BY <1>2, KindsOfJobs
<1>4. /\ u \in Members /\ job[r].new \in Gates /\ gone \in [Pairs -> SUBSET Facts]
      /\ \A q \in Pairs : q[2] # u => gone[q] = {}
  BY <1>2, <1>3 DEF Choosing, JobOK
<1>5. /\ gate \in [Members -> Gates] /\ edition \in [Members -> Nat]
      /\ guesses \in [Pairs -> SUBSET Facts] /\ \A q \in Pairs : OnePerQuestion(guesses[q])
  BY DEF ConnectInv, TypeOK
<1>6. CASE UNCHANGED <<gate, edition, guesses>>
  <2>1. TypeOK' /\ UNCHANGED <<drops, answers, sparks>>
    BY <1>1, <1>6 DEF ConnectInv, TypeOK, answers, around
  <2>2. QED
    BY <1>1, <2>1, NoJobOK, ReadStep DEF End
<1>7. CASE /\ gate' = [gate EXCEPT ![u] = job[r].new]
           /\ edition' = [edition EXCEPT ![u] = @ + 1]
           /\ guesses' = [q \in Pairs |-> guesses[q] \ gone[q]]
  <2> HIDE DEF u, gone
  <2>1. gate' \in [Members -> Gates] /\ edition' \in [Members -> Nat]
    BY <1>4, <1>5, <1>7
  <2>2. guesses' \in [Pairs -> SUBSET Facts] /\ \A q \in Pairs : OnePerQuestion(guesses'[q])
    BY <1>4, <1>5, <1>7 DEF OnePerQuestion
  <2>3. TypeOK'
    BY <1>1, <2>1, <2>2 DEF ConnectInv, TypeOK, around
  <2>4. JobsOK' /\ SparksOK' /\ FillsOK' /\ Stocked' /\ CardsKept
    <3>1. JobsOK'
      BY <1>1, NoJobOK, JobsStep DEF End, Sent, ConnectInv
    <3>2. FillsOK' /\ Stocked'
      BY <1>1, NoJobOK, FillsStep DEF End
    <3>3. QED
      BY <1>1, <3>1, <3>2 DEF ConnectInv, SparksOK, Sent, CardsKept
  <2>5. /\ job' \in [Requests -> Job] /\ job'[r] = NoJob
        /\ \A k \in Requests \ {r} : job'[k] = job[k]
    BY <1>1, NoJobOK DEF ConnectInv, JobsOK, Begin, End
  <2>6. \A k \in Requests :
            /\ Holds(k)' => k # r /\ Holds(k) /\ job'[k] = job[k]
            /\ GateAt(k, "commit")' => k # r /\ GateAt(k, "commit") /\ job'[k] = job[k]
    BY <2>5 DEF Holds, GateAt, At, NoJob
  <2>7. \A k \in Requests : Holds(k) => job[k].pair \in Pairs
    BY GateFacts DEF ConnectInv, Holds, GateAt
  <2>8. \A q \in Pairs : guesses'[q] \subseteq guesses[q] /\ (q[2] # u => guesses'[q] = guesses[q])
    BY <1>4, <1>5, <1>7
  <2>9. AddsOK'
    BY <2>6, <2>7, <2>8 DEF ConnectInv, ReadingOK, AddsOK, Fresh, Asked
  <2>10. \A m \in Members : /\ edition[m] <= edition'[m]
                            /\ m # u => edition'[m] = edition[m] /\ gate'[m] = gate[m]
    BY <1>4, <1>5, <1>7
  <2>11. edition'[u] = edition[u] + 1 /\ edition[u] \in Nat
    BY <1>4, <1>5, <1>7
  <2>12. \A q \in Pairs, e \in Nat : (MissedAt(q, e)' => MissedAt(q, e)) /\ (ReadAt(q, e)' => ReadAt(q, e))
    BY <1>1, <2>6 DEF MissedAt, ReadAt
  <2>13. VerdictsOK'
    <3> SUFFICES ASSUME NEW q \in Pairs, NEW e \in Nat
                 PROVE  /\ MissedAt(q, e)' \/ ReadAt(q, e)' => e <= edition'[q[2]]
                        /\ ~(MissedAt(q, e)' /\ ReadAt(q, e)')
                        /\ e = edition'[q[2]] =>
                              /\ <<q, e>> \in misread => Misses(guesses'[q], gate'[q[2]])
                              /\ <<q, e>> \in read => Aligned(guesses'[q], gate'[q[2]])
      BY <1>1 DEF VerdictsOK, Misses, Aligned
    <3>1. /\ MissedAt(q, e) \/ ReadAt(q, e) => e <= edition[q[2]]
          /\ ~(MissedAt(q, e) /\ ReadAt(q, e))
          /\ e = edition[q[2]] =>
                /\ <<q, e>> \in misread => Misses(guesses[q], gate[q[2]])
                /\ <<q, e>> \in read => Aligned(guesses[q], gate[q[2]])
      BY DEF ConnectInv, ReadingOK, VerdictsOK
    <3>2. q[2] \in Members /\ edition[q[2]] \in Nat /\ edition'[q[2]] \in Nat
      BY <1>5, <2>1, PairFacts
    <3>3. MissedAt(q, e)' \/ ReadAt(q, e)' => e <= edition'[q[2]]
      BY <3>1, <3>2, <2>10, <2>12
    <3>4. CASE q[2] # u
      BY <3>1, <3>2, <3>3, <3>4, <2>8, <2>10, <2>12
    <3>5. CASE q[2] = u
      <4>1. e = edition'[u] => ~(MissedAt(q, e) \/ ReadAt(q, e))
        BY <3>1, <3>5, <2>11
      <4>2. (<<q, e>> \in misread => MissedAt(q, e)) /\ (<<q, e>> \in read => ReadAt(q, e))
        BY DEF MissedAt, ReadAt
      <4>3. QED
        BY <3>1, <3>3, <3>5, <4>1, <4>2, <2>12
    <3>6. QED
      BY <3>4, <3>5
  <2>14. CommitsOK'
    <3> SUFFICES ASSUME NEW k \in Requests, GateAt(k, "commit")', job'[k].on = edition'[job'[k].pair[2]]
                 PROVE  /\ job'[k].missed => Misses(Known(k)', gate'[job'[k].pair[2]])
                        /\ job'[k].does # "nothing" => Aligned(Known(k)', gate'[job'[k].pair[2]])
      BY DEF CommitsOK
    <3>1. k # r /\ GateAt(k, "commit") /\ job'[k] = job[k] /\ Holds(k)
      BY <2>6 DEF Holds
    <3>2. job[k].pair \in Pairs /\ job[k].pair[2] \in Members /\ job[k].on \in Nat
          /\ job[k].missed \in BOOLEAN
      BY <3>1, CommitFacts
    <3>3. CASE job[k].pair[2] # u
      <4>1. Known(k)' = Known(k)
        BY <3>1, <3>2, <3>3, <2>8 DEF Known
      <4>2. job[k].on = edition[job[k].pair[2]] /\ gate'[job[k].pair[2]] = gate[job[k].pair[2]]
        BY <3>1, <3>2, <3>3, <2>10
      <4>3. QED
        BY <3>1, <4>1, <4>2 DEF ConnectInv, ReadingOK, CommitsOK
    <3>4. CASE job[k].pair[2] = u
      <4>1. job[k].missed \/ job[k].does # "nothing" =>
               MissedAt(job[k].pair, job[k].on) \/ ReadAt(job[k].pair, job[k].on)
        BY <3>1 DEF MissedAt, ReadAt
      <4>2. job[k].missed \/ job[k].does # "nothing" => job[k].on <= edition[u]
        BY <4>1, <3>2, <3>4 DEF ConnectInv, ReadingOK, VerdictsOK
      <4>3. job[k].on = edition[u] + 1
        BY <3>1, <3>4, <2>11
      <4>4. ~(job[k].missed \/ job[k].does # "nothing")
        BY <4>2, <4>3, <2>11
      <4>5. QED
        BY <3>1, <4>4
    <3>5. QED
      BY <3>3, <3>4
  <2>15. SparksRead'
    <3> SUFFICES ASSUME NEW q \in Pairs, Sent(q)'
                 PROVE  \E e \in 0..edition'[q[2]] : <<q, e>> \in read
      BY <1>1 DEF SparksRead
    <3>1. Sent(q)
      BY <1>1 DEF Sent
    <3>2. PICK e \in 0..edition[q[2]] : <<q, e>> \in read
      BY <3>1 DEF ConnectInv, ReadingOK, SparksRead
    <3>3. q[2] \in Members /\ edition[q[2]] \in Nat /\ edition'[q[2]] \in Nat
      BY <1>5, <2>1, PairFacts
    <3>4. e \in 0..edition'[q[2]]
      BY <3>2, <3>3, <2>10
    <3>5. QED
      BY <3>2, <3>4
  <2>16. QED
    BY <2>3, <2>4, <2>9, <2>13, <2>14, <2>15 DEF ConnectInv, ReadingOK
<1>8. QED
  BY <1>6, <1>7 DEF RepickCommit

-----------------------------------------------------------------------------
(* Drops, answers, blocks and exclusions *)

\* A step of a request that makes a drop's row or sets its cards.
LEMMA RowStep ==
  ASSUME ConnectInv, NEW r \in Requests, End(r), UNCHANGED <<answers, sparks, picks, around>>,
         NEW key \in DropKeys, NEW row \in Drop, drops' = [drops EXCEPT ![key] = row],
         row.read = drops[key].read, key[1] \notin row.cards,
         drops[key].made # "full", row.made = "full" => row.cards # {},
         row.made = drops[key].made \/
            (drops[key].made = "no" /\ \A q \in Requests \ {r} : ~Making(q, key))
  PROVE  ConnectInv' /\ CardsKept
<1>1. drops \in [DropKeys -> Drop] /\ \A k \in DropKeys : k[1] \notin drops[k].cards
  BY DEF ConnectInv, TypeOK, Drop
<1>2. drops' \in [DropKeys -> Drop]
  BY <1>1
<1>3. \A k \in DropKeys : drops'[k].read = drops[k].read /\ k[1] \notin drops'[k].cards
  BY <1>1
<1>4. TypeOK'
  BY <1>2, <1>3 DEF ConnectInv, TypeOK, answers, around, Drop
<1>5. SparksOK'
  BY <1>3 DEF ConnectInv, SparksOK, Sent, DropKeys
<1>6. \A k \in Requests \ {r} : Holds(k) /\ Uses(job[k]) => DropOf(k) \in DropKeys
  BY GateFacts DEF ConnectInv, Holds, GateAt, GateOK
<1>7. JobsOK' /\ ReadingOK'
  BY <1>3, <1>6, NoJobOK, JobsStep, ReadingQuiet DEF End, Sent, ConnectInv
<1>8. CardsKept
  BY <1>1 DEF CardsKept
<1>9. FillsOK'
  <2>1. /\ job' \in [Requests -> Job] /\ job'[r] = NoJob
        /\ \A k \in Requests \ {r} : job'[k] = job[k]
    BY NoJobOK DEF ConnectInv, JobsOK, Begin, End
  <2>2. SUFFICES ASSUME NEW q \in Requests, At(q, "fill")'
                 PROVE  IF job'[q].fresh
                        THEN /\ drops'[job'[q].key].made = "no"
                             /\ \A i \in Requests \ {q} : ~Making(i, job[q].key)'
                        ELSE drops'[job'[q].key].made = "empty"
    BY DEF FillsOK
  <2>3. q # r /\ job'[q] = job[q] /\ At(q, "fill")
    BY <2>1, <2>2 DEF At, NoJob
  <2>4. job[q].key \in DropKeys
    BY <2>3, FillKey
  <2>5. \A i \in Requests : Making(i, job[q].key)' => Making(i, job[q].key)
    BY <2>1, <2>3 DEF Making, At, NoJob
  <2>6. IF job[q].fresh
        THEN /\ drops[job[q].key].made = "no"
             /\ \A i \in Requests \ {q} : ~Making(i, job[q].key)
        ELSE drops[job[q].key].made = "empty"
    BY <2>3 DEF ConnectInv, FillsOK
  <2>7. drops'[job[q].key].made = drops[job[q].key].made
    <3>1. CASE job[q].key # key
      BY <3>1, <2>4, <1>1
    <3>2. CASE job[q].key = key /\ drops[key].made = "no"
      <4>1. Making(q, key)
        BY <3>2, <2>3, <2>6 DEF Making
      <4>2. row.made = drops[key].made
        BY <4>1, <2>3
      <4>3. QED
        BY <3>2, <4>2, <1>1
    <3>3. CASE job[q].key = key /\ drops[key].made # "no"
      BY <3>3, <1>1
    <3>4. QED
      BY <3>1, <3>2, <3>3
  <2>8. QED
    BY <2>3, <2>5, <2>6, <2>7
<1>10. Stocked'
  BY <1>1 DEF ConnectInv, Stocked
<1>11. QED
  BY <1>4, <1>5, <1>7, <1>8, <1>9, <1>10 DEF ConnectInv

\* A visit makes the row without cards, finds cards, or goes on to set its own.
LEMMA OpenStep ==
  ASSUME ConnectInv, NEW r \in Requests, DropOpen(r)
  PROVE  ConnectInv' /\ CardsKept
<1> DEFINE key == job[r].key
           cards == job[r].cards
           new == drops[key].made = "no"
           J == [op |-> "fill", key |-> key, cards |-> cards, fresh |-> new]
<1>1. At(r, "drop") /\ UNCHANGED <<answers, sparks, picks, around>>
      /\ \A q \in Requests : ~Making(q, key)
  BY DEF DropOpen
<1>2. job[r] \in Job /\ JobOK(job[r]) /\ job[r].op = "drop"
  BY <1>1 DEF ConnectInv, JobsOK, At
<1>3. key \in DropKeys /\ cards \in SUBSET Members /\ key[1] \notin cards
  BY <1>2, KindsOfJobs DEF Dropping, JobOK
<1>4. drops \in [DropKeys -> Drop] /\ \A k \in DropKeys : k[1] \notin drops[k].cards
  BY DEF ConnectInv, TypeOK, Drop
<1>5. CASE cards # {} /\ Unfilled(drops[key])
  <2>1. PICK j : j = J
    OBVIOUS
  <2>2. Begin(r, j) /\ UNCHANGED drops
    BY <1>5, <2>1 DEF DropOpen
  <2>3. j.op = "fill" /\ j.key = key /\ j.cards = cards /\ j.fresh = new
    BY <2>1
  <2>4. j \in Filling
    BY <1>3, <2>1 DEF Filling
  <2>5. j \in Job
    BY <2>4 DEF Job
  <2>6. JobOK(j)'
    BY <1>3, <1>5, <2>3 DEF JobOK
  <2> HIDE DEF key, cards, J
  <2>7. SparksOK' /\ CardsKept /\ Stocked' /\ TypeOK'
    BY <1>1, <2>2 DEF ConnectInv, SparksOK, Sent, CardsKept, Stocked, TypeOK, answers, around
  <2>8. JobsOK' /\ ReadingOK'
    BY <1>1, <2>2, <2>3, <2>5, <2>6, JobsStep, ReadingQuiet DEF Sent, ConnectInv
  <2>9. FillsOK'
    <3>1. /\ job' \in [Requests -> Job] /\ job'[r] = j
          /\ \A k \in Requests \ {r} : job'[k] = job[k]
      BY <2>2, <2>5 DEF ConnectInv, JobsOK, Begin
    <3>2. SUFFICES ASSUME NEW q \in Requests, At(q, "fill")'
                   PROVE  IF job'[q].fresh
                          THEN /\ drops'[job'[q].key].made = "no"
                               /\ \A i \in Requests \ {q} : ~Making(i, job[q].key)'
                          ELSE drops'[job'[q].key].made = "empty"
      BY DEF FillsOK
    <3>3. \A i \in Requests \ {r}, k \in DropKeys : Making(i, k)' <=> Making(i, k)
      BY <3>1 DEF Making, At
    <3>4. CASE q = r
      <4>1. ~new => drops[key].made = "empty"
        BY <1>3, <1>4, <1>5 DEF ConnectInv, Stocked, Unfilled, Drop
      <4>2. job'[q].key = key /\ job'[q].fresh = new
        BY <2>3, <3>1, <3>4
      <4>3. PICK k \in DropKeys : k = key
        BY <1>3
      <4>4. \A i \in Requests \ {q} : ~Making(i, k)'
        BY <1>1, <3>3, <3>4, <4>3
      <4>5. \A i \in Requests \ {q} : ~Making(i, job[q].key)'
        BY <4>2, <4>3, <4>4 DEF Making
      <4>6. QED
        BY <2>2, <4>1, <4>2, <4>5
    <3>5. CASE q # r
      <4>1. job'[q] = job[q] /\ At(q, "fill")
        BY <3>1, <3>2, <3>5 DEF At
      <4>2. job[q].key \in DropKeys
        BY <4>1, FillKey
      <4>3. job[q].fresh => job[q].key # key
        BY <1>1, <4>1 DEF Making
      <4>4. job[q].fresh => ~Making(r, job[q].key)'
        BY <2>3, <3>1, <4>1, <4>3 DEF Making
      <4>5. IF job[q].fresh
            THEN /\ drops[job[q].key].made = "no"
                 /\ \A i \in Requests \ {q} : ~Making(i, job[q].key)
            ELSE drops[job[q].key].made = "empty"
        BY <4>1 DEF ConnectInv, FillsOK
      <4>6. job[q].fresh => \A i \in Requests \ {q} : ~Making(i, job[q].key)'
        <5> SUFFICES ASSUME job[q].fresh, NEW i \in Requests \ {q}
                     PROVE  ~Making(i, job[q].key)'
          OBVIOUS
        <5>1. CASE i = r
          BY <4>4, <5>1
        <5>2. CASE i # r
          BY <3>1, <4>1, <4>5, <5>2 DEF Making, At
        <5>3. QED
          BY <5>1, <5>2
      <4>7. QED
        BY <2>2, <4>1, <4>5, <4>6
    <3>6. QED
      BY <3>4, <3>5
  <2>10. QED
    BY <2>7, <2>8, <2>9 DEF ConnectInv
<1>6. CASE ~(cards # {} /\ Unfilled(drops[key])) /\ new
  <2> DEFINE row == [drops[key] EXCEPT !.made = "empty"]
  <2>1. End(r) /\ drops' = [drops EXCEPT ![key] = row]
    BY <1>3, <1>4, <1>6 DEF DropOpen
  <2>2. row \in Drop /\ row.read = drops[key].read /\ row.cards = drops[key].cards
        /\ row.made = "empty"
    BY <1>3, <1>4 DEF Drop
  <2>3. drops[key].made = "no" /\ drops[key].made # "full"
    BY <1>6
  <2> HIDE DEF row, key, cards
  <2>4. QED
    BY <1>1, <1>3, <1>4, <2>1, <2>2, <2>3, RowStep
<1>7. CASE ~(cards # {} /\ Unfilled(drops[key])) /\ ~new
  <2>1. Begin(r, NoJob) /\ UNCHANGED drops
    BY <1>7 DEF DropOpen, End
  <2>2. TypeOK'
    BY <1>1, <2>1 DEF ConnectInv, TypeOK, answers, around
  <2>3. QED
    BY <1>1, <2>1, <2>2, NoJobOK, ReadStep
<1>8. QED
  BY <1>5, <1>6, <1>7

LEMMA FillStep ==
  ASSUME ConnectInv, NEW r \in Requests, DropFill(r)
  PROVE  ConnectInv' /\ CardsKept
<1> DEFINE key == job[r].key
           cards == job[r].cards
<1>1. At(r, "fill") /\ End(r) /\ UNCHANGED <<answers, sparks, picks, around>>
  BY DEF DropFill
<1>2. job[r] \in Job /\ JobOK(job[r]) /\ job[r].op = "fill"
  BY <1>1 DEF ConnectInv, JobsOK, At
<1>3. key \in DropKeys /\ cards \in SUBSET Members /\ key[1] \notin cards /\ cards # {}
  BY <1>2, KindsOfJobs DEF Filling, JobOK
<1>4. drops \in [DropKeys -> Drop] /\ \A k \in DropKeys : k[1] \notin drops[k].cards
  BY DEF ConnectInv, TypeOK, Drop
<1>5. IF job[r].fresh
      THEN /\ drops[key].made = "no"
           /\ \A q \in Requests \ {r} : ~Making(q, key)
      ELSE drops[key].made = "empty"
  BY <1>1 DEF ConnectInv, FillsOK
<1>6. PICK now \in {cards, cards \cup drops[key].cards} :
         drops' = [drops EXCEPT ![key].cards = now,
                                ![key].made = IF job[r].fresh THEN "full" ELSE @]
  BY DEF DropFill
<1> DEFINE row == [drops[key] EXCEPT !.cards = now,
                                     !.made = IF job[r].fresh THEN "full" ELSE drops[key].made]
<1>7. drops[key] \in Drop /\ now \in SUBSET Members /\ key[1] \notin now /\ now # {}
  BY <1>3, <1>4, <1>6 DEF Drop
<1>8. /\ row \in Drop /\ row.read = drops[key].read /\ row.cards = now
      /\ row.made = IF job[r].fresh THEN "full" ELSE drops[key].made
  BY <1>7 DEF Drop
<1>9. drops' = [drops EXCEPT ![key] = row]
  BY <1>3, <1>4, <1>6
<1> HIDE DEF row, key, cards
<1>10. QED
  BY <1>1, <1>3, <1>5, <1>7, <1>8, <1>9, RowStep

\* A step of a request that changes the status of sparks already sent, nothing else
\* of them.
LEMMA StatusStep ==
  ASSUME ConnectInv, NEW r \in Requests, NEW J \in Job, Begin(r, J), JobOK(J)',
         J.op \notin {"gate", "fill"}, TypeOK', UNCHANGED <<drops, answers>>,
         \A q \in Pairs : IF Sent(q)
                          THEN sparks'[q].status # "none" /\ sparks'[q].drop = sparks[q].drop
                          ELSE sparks'[q] = sparks[q]
  PROVE  ConnectInv' /\ CardsKept
<1>1. SparksOK'
  <2> SUFFICES ASSUME NEW q \in Pairs
               PROVE  /\ sparks'[q].status = "none" <=> sparks'[q] = NoSpark
                      /\ sparks'[q].status # "none" =>
                            /\ q[1] \in Receivers /\ sparks'[q].drop \in 1..Days
                            /\ drops'[<<q[1], sparks'[q].drop>>].read = q[2]
    BY DEF SparksOK, Sent
  <2>1. /\ sparks[q].status = "none" <=> sparks[q] = NoSpark
        /\ Sent(q) => /\ q[1] \in Receivers /\ sparks[q].drop \in 1..Days
                      /\ drops[<<q[1], sparks[q].drop>>].read = q[2]
    BY DEF ConnectInv, SparksOK
  <2>2. CASE Sent(q)
    BY <2>1, <2>2 DEF NoSpark
  <2>3. CASE ~Sent(q)
    BY <2>1, <2>3 DEF Sent
  <2>4. QED
    BY <2>2, <2>3
<1>2. \A q \in Pairs : Sent(q) => Sent(q)'
  BY DEF Sent
<1>3. JobsOK'
  BY <1>2, JobsStep DEF ConnectInv
<1>4. FillsOK' /\ Stocked' /\ CardsKept
  BY FillsStep DEF CardsKept
<1>5. ReadingOK'
  BY ReadingQuiet DEF Sent
<1>6. QED
  BY <1>1, <1>3, <1>4, <1>5 DEF ConnectInv

LEMMA RespondStep ==
  ASSUME ConnectInv, NEW r \in Requests, RespondWrite(r)
  PROVE  ConnectInv' /\ CardsKept
<1> DEFINE p == job[r].pair
           to == job[r].to
<1>1. At(r, "respond") /\ End(r) /\ UNCHANGED <<drops, answers, picks, around>>
  BY DEF RespondWrite
<1>2. job[r] \in Job /\ JobOK(job[r]) /\ job[r].op = "respond"
  BY <1>1 DEF ConnectInv, JobsOK, At
<1>3. p \in Pairs /\ to \in {"accepted", "declined"} /\ Sent(p)
  BY <1>2, KindsOfJobs DEF Answering, JobOK
<1>4. sparks' = [sparks EXCEPT ![p].status = to] /\ sparks \in [Pairs -> Spark]
  BY DEF RespondWrite, ConnectInv, TypeOK, Spark
<1> HIDE DEF p, to
<1>5. sparks' \in [Pairs -> Spark]
  BY <1>3, <1>4 DEF Spark
<1>6. TypeOK'
  BY <1>1, <1>5 DEF ConnectInv, TypeOK, answers, around, Spark
<1>7. \A q \in Pairs : IF Sent(q)
                       THEN sparks'[q].status # "none" /\ sparks'[q].drop = sparks[q].drop
                       ELSE sparks'[q] = sparks[q]
  BY <1>3, <1>4 DEF Sent, Spark
<1>8. QED
  BY <1>1, <1>6, <1>7, NoJobOK, StatusStep DEF End

\* A statement of a block or an exclusion, and what is left for it to do.
LEMMA ClearStep ==
  ASSUME ConnectInv, NEW r \in Requests, Clear(r)
  PROVE  ConnectInv' /\ CardsKept
<1> DEFINE hit == job[r].pairs
           todo == job[r].todo
<1>1. At(r, "clear") /\ UNCHANGED <<drops, answers, around>>
  BY DEF Clear
<1>2. hit \subseteq Pairs /\ todo \in Seq({"picks", "sparks"}) /\ todo # <<>>
  <2>1. job[r] \in Job /\ job[r].op = "clear"
    BY <1>1 DEF ConnectInv, JobsOK, At
  <2>2. job[r] \in Clearing
    BY <2>1, KindsOfJobs
  <2>3. QED
    BY <2>2 DEF Clearing
<1>3. IF Head(todo) = "picks"
      THEN /\ picks' = [q \in Pairs |->
                IF q \in hit /\ picks[q] \in {"proposed", "accepted"} THEN "withdrawn" ELSE picks[q]]
           /\ UNCHANGED sparks
      ELSE /\ sparks' = [q \in Pairs |->
                IF q \in hit /\ sparks[q] # NoSpark
                THEN [sparks[q] EXCEPT !.status = "declined"] ELSE sparks[q]]
           /\ UNCHANGED picks
  BY DEF Clear
<1>4. IF Len(todo) = 1 THEN End(r)
      ELSE Begin(r, [op |-> "clear", pairs |-> hit, todo |-> Tail(todo)])
  BY DEF Clear
<1> HIDE DEF hit, todo
<1>5. PICK J : J \in Job /\ Begin(r, J) /\ JobOK(J)' /\ J.op \notin {"gate", "fill"}
  <2>1. CASE Len(todo) = 1
    BY <2>1, <1>4, NoJobOK DEF End
  <2>2. CASE Len(todo) # 1
    <3>1. Tail(todo) \in Seq({"picks", "sparks"}) /\ Tail(todo) # <<>>
      <4>1. Len(todo) \in Nat /\ Len(todo) # 0
        BY <1>2, EmptySeq, LenProperties
      <4>2. Tail(todo) \in Seq({"picks", "sparks"}) /\ Len(Tail(todo)) = Len(todo) - 1
        BY <1>2, HeadTailProperties
      <4>3. Len(Tail(todo)) # 0
        BY <2>2, <4>1, <4>2
      <4>4. QED
        BY <4>2, <4>3
    <3>2. [op |-> "clear", pairs |-> hit, todo |-> Tail(todo)] \in Clearing
      BY <3>1, <1>2 DEF Clearing
    <3>3. PICK j : j = [op |-> "clear", pairs |-> hit, todo |-> Tail(todo)]
      OBVIOUS
    <3>4. j \in Job /\ j.op = "clear"
      BY <3>2, <3>3 DEF Job
    <3>5. JobOK(j)'
      BY <3>4 DEF JobOK
    <3>6. QED
      BY <2>2, <1>4, <3>3, <3>4, <3>5
  <2>3. QED
    BY <2>1, <2>2
<1>6. /\ sparks \in [Pairs -> Spark]
      /\ picks \in [Pairs -> {"none", "proposed", "accepted", "declined", "withdrawn"}]
  BY DEF ConnectInv, TypeOK, Spark
<1>7. /\ sparks' \in [Pairs -> Spark]
      /\ picks' \in [Pairs -> {"none", "proposed", "accepted", "declined", "withdrawn"}]
  <2>1. CASE Head(todo) = "picks"
    BY <2>1, <1>3, <1>6
  <2>2. CASE Head(todo) # "picks"
    BY <2>2, <1>3, <1>6 DEF Spark
  <2>3. QED
    BY <2>1, <2>2
<1>8. \A q \in Pairs : sparks[q].status = "none" <=> sparks[q] = NoSpark
  BY DEF ConnectInv, SparksOK
<1>9. \A q \in Pairs : IF Sent(q)
                       THEN sparks'[q].status # "none" /\ sparks'[q].drop = sparks[q].drop
                       ELSE sparks'[q] = sparks[q]
  BY <1>3, <1>6, <1>8 DEF Sent, Spark
<1>10. TypeOK'
  BY <1>1, <1>7 DEF ConnectInv, TypeOK, answers, around, Spark
<1>11. QED
  BY <1>1, <1>5, <1>9, <1>10, StatusStep

LEMMA ClearsBegin ==
  ASSUME ConnectInv, NEW r \in Requests,
         (\E p \in Pairs : BlockMember(r, p)) \/ (\E u \in Members : Exclude(r, u))
  PROVE  ConnectInv' /\ CardsKept
<1>1. turns \in Nat /\ turns' = turns + 1
  BY DEF ConnectInv, TypeOK, BlockMember, Exclude, Turn
<1>2. turns' \in Nat
  BY <1>1
<1>3. UNCHANGED <<drops, answers, sparks, picks, day, mentored>>
  BY DEF BlockMember, Exclude, rows
<1>4. blocks' \subseteq Pairs /\ out' \subseteq Members
  BY DEF BlockMember, Exclude, ConnectInv, TypeOK
<1>5. TypeOK'
  BY <1>2, <1>3, <1>4 DEF ConnectInv, TypeOK, answers
<1>6. PICK hit \in SUBSET Pairs, todo \in {<<"picks", "sparks">>, <<"sparks", "picks">>} :
          Begin(r, [op |-> "clear", pairs |-> hit, todo |-> todo])
  <2>1. CASE \E p \in Pairs : BlockMember(r, p)
    <3>1. PICK p \in Pairs : BlockMember(r, p)
      BY <2>1
    <3>2. Between(p) \in SUBSET Pairs
      BY PairFacts DEF Between
    <3>3. QED
      BY <3>1, <3>2 DEF BlockMember
  <2>2. CASE \E u \in Members : Exclude(r, u)
    <3>1. PICK u \in Members : Exclude(r, u)
      BY <2>2
    <3>2. Of(u) \in SUBSET Pairs
      BY DEF Of
    <3>3. QED
      BY <3>1, <3>2 DEF Exclude
  <2>3. QED
    BY <2>1, <2>2
<1> DEFINE J == [op |-> "clear", pairs |-> hit, todo |-> todo]
<1>7. todo \in Seq({"picks", "sparks"}) \ {<<>>}
  <2>1. CASE todo = <<"picks", "sparks">>
    BY <2>1
  <2>2. CASE todo = <<"sparks", "picks">>
    BY <2>2
  <2>3. QED
    BY <1>6, <2>1, <2>2
<1>8. J \in Clearing /\ JobOK(J) /\ J.op # "gate" /\ J.op # "fill"
  BY <1>7 DEF Clearing, JobOK
<1>9. J \in Job /\ Begin(r, J)
  BY <1>6, <1>8 DEF Job
<1> HIDE DEF J
<1>10. QED
  BY <1>3, <1>5, <1>8, <1>9, ReadStep

LEMMA AroundSteps ==
  ASSUME ConnectInv,
         \/ NewDay
         \/ \E u \in Members : Readmit(u) \/ Mentor(u)
         \/ \E p \in Pairs : Unblock(p)
  PROVE  ConnectInv' /\ CardsKept
<1>1. Days \in Nat /\ MaxTurns \in Nat
  BY ConnectAssumption
<1>2. UNCHANGED <<rows, job>>
  BY DEF NewDay, Readmit, Mentor, Unblock
<1>3. day' \in 1..Days
  BY <1>1 DEF NewDay, Readmit, Mentor, Unblock, ConnectInv, TypeOK
<1>4. turns' \in Nat
  BY <1>1 DEF NewDay, Readmit, Mentor, Unblock, Turn, ConnectInv, TypeOK
<1>5. blocks' \subseteq Pairs /\ out' \subseteq Members /\ mentored' \subseteq Members
  BY DEF NewDay, Readmit, Mentor, Unblock, ConnectInv, TypeOK
<1>6. TypeOK'
  BY <1>2, <1>3, <1>4, <1>5 DEF ConnectInv, TypeOK, rows, answers
<1>7. QED
  BY <1>2, <1>6, QuietStep DEF rows

-----------------------------------------------------------------------------
(* The invariant *)

LEMMA ConnectStarts ==
  ASSUME Init
  PROVE  ConnectInv
<1>1. TypeOK
  BY ConnectAssumption DEF Init, TypeOK, NoDrop, NoSpark, OnePerQuestion
<1>2. SparksOK
  BY DEF Init, SparksOK, Sent, NoSpark
<1>3. JobsOK
  BY NoJobOK DEF Init, JobsOK, ClaimsApart, Holds, GateAt, At
<1>4. FillsOK /\ Stocked
  BY DEF Init, FillsOK, Stocked, At, NoJob, NoDrop
<1>5. AddsOK /\ CommitsOK /\ SparksRead
  BY DEF Init, AddsOK, CommitsOK, SparksRead, Holds, GateAt, At, NoJob, Sent, NoSpark
<1>6. VerdictsOK
  BY DEF Init, VerdictsOK, MissedAt, ReadAt, GateAt, At, NoJob
<1>7. QED
  BY <1>1, <1>2, <1>3, <1>4, <1>5, <1>6 DEF ConnectInv, ReadingOK

LEMMA ConnectSteps ==
  ASSUME ConnectInv, [Next]_vars
  PROVE  ConnectInv' /\ CardsKept
<1>1. ASSUME NEW r \in Requests, DropOpen(r) \/ DropFill(r)
      PROVE  ConnectInv' /\ CardsKept
  BY <1>1, OpenStep, FillStep
<1>2. ASSUME NEW r \in Requests, GateInsert(r) \/ GateScore(r) \/ GateCommit(r)
      PROVE  ConnectInv' /\ CardsKept
  BY <1>2, InsertStep, ScoreStep, CommitStep
<1>3. ASSUME NEW r \in Requests,
             RepickCommit(r) \/ \E u \in Members, new \in Gates : RepickBegin(r, u, new)
      PROVE  ConnectInv' /\ CardsKept
  BY <1>3, RepickStep, RepickBegins
<1>4. ASSUME NEW r \in Requests, RespondWrite(r)
      PROVE  ConnectInv' /\ CardsKept
  BY <1>4, RespondStep
<1>5. ASSUME NEW r \in Requests, ProposeWithdraw(r)
      PROVE  ConnectInv' /\ CardsKept
  BY <1>5, WithdrawStep
<1>6. ASSUME NEW r \in Requests, ProposeCreate(r) \/ PickRespondWrite(r)
      PROVE  ConnectInv' /\ CardsKept
  BY <1>6, PickSteps
<1>7. ASSUME NEW r \in Requests, Clear(r)
      PROVE  ConnectInv' /\ CardsKept
  BY <1>7, ClearStep
<1>8. ASSUME NEW r \in Requests, NEW u \in Receivers, DropBegin(r, u)
      PROVE  ConnectInv' /\ CardsKept
  BY <1>8, DropBegins
<1>9. ASSUME NEW r \in Requests,
             (\E p \in Pairs : BlockMember(r, p)) \/ (\E u \in Members : Exclude(r, u))
      PROVE  ConnectInv' /\ CardsKept
  BY <1>9, ClearsBegin
<1>10. ASSUME NEW r \in Requests, NEW p \in Pairs, ProposeBegin(r, p)
       PROVE  ConnectInv' /\ CardsKept
  BY <1>10, ProposeBegins
<1>11. ASSUME NEW r \in Requests, NEW p \in Pairs, NEW yes \in BOOLEAN,
              RespondBegin(r, p, yes) \/ PickRespondBegin(r, p, yes)
       PROVE  ConnectInv' /\ CardsKept
  BY <1>11, RespondBegins
<1>12. ASSUME NEW r \in Requests, NEW p \in Pairs, NEW says \in Replies, NEW d \in 1..Days,
              GateBegin(r, p, d, says)
       PROVE  ConnectInv' /\ CardsKept
  BY <1>12, GateBegins, ConnectAssumption
<1>13. ASSUME \/ NewDay
              \/ \E u \in Members : Readmit(u) \/ Mentor(u)
              \/ \E p \in Pairs : Unblock(p)
       PROVE  ConnectInv' /\ CardsKept
  BY <1>13, AroundSteps
<1>14. CASE UNCHANGED vars
  <2>1. UNCHANGED <<rows, around, job>>
    BY <1>14 DEF vars
  <2>2. TypeOK'
    BY <2>1 DEF ConnectInv, TypeOK, rows, answers, around
  <2>3. QED
    BY <2>1, <2>2, QuietStep DEF rows
<1>15. QED
  BY <1>1, <1>2, <1>3, <1>4, <1>5, <1>6, <1>7, <1>8, <1>9, <1>10, <1>11, <1>12, <1>13, <1>14
  DEF Next

\* The invariant the properties follow from holds in every state.
THEOREM ConnectInvariant == Spec => []ConnectInv
<1>1. Init => ConnectInv
  BY ConnectStarts
<1>2. ConnectInv /\ [Next]_vars => ConnectInv'
  BY ConnectSteps
<1>3. QED
  BY <1>1, <1>2, PTL DEF Spec

\* Rows stay well-formed; no drop shows a member to themselves (services/
\* crush_connect.py, get_eligible_pool leaves the viewer out of every card).
THEOREM ConnectTypes == Spec => []TypeOK
<1>1. ConnectInv => TypeOK
  BY DEF ConnectInv
<1>2. QED
  BY <1>1, ConnectInvariant, PTL

\* Every spark went to the one card that its sender's drop was spent on, whatever
\* answers came in together or from pages of earlier days.
THEOREM SparksFollowTheRead == Spec => []OneReadPerDrop
<1>1. ConnectInv => OneReadPerDrop
  BY DEF ConnectInv, SparksOK, OneReadPerDrop, Sent
<1>2. QED
  BY <1>1, ConnectInvariant, PTL

\* Nobody reaches a member they misread while that member keeps the questions and
\* answers they misread, however often they guess; and every spark stands on a
\* reading (alignment_score, _save_picks).
THEOREM SparksTakeAReading == Spec => []OnlyReadersSpark
<1>1. ASSUME ConnectInv PROVE OnlyReadersSpark
  <2>1. misread \cap read = {}
    <3> SUFFICES ASSUME NEW x \in misread, x \in read PROVE FALSE
      OBVIOUS
    <3>1. x \in Pairs \X Nat
      BY <1>1 DEF ConnectInv, TypeOK
    <3>2. PICK p \in Pairs, e \in Nat : x = <<p, e>>
      BY <3>1
    <3>3. MissedAt(p, e) /\ ReadAt(p, e)
      BY <3>2 DEF MissedAt, ReadAt
    <3>4. QED
      BY <1>1, <3>3 DEF ConnectInv, ReadingOK, VerdictsOK
  <2>2. ASSUME NEW p \in Pairs, sparks[p] # NoSpark
        PROVE  \E e \in 0..edition[p[2]] : <<p, e>> \in read
    <3>1. Sent(p)
      BY <1>1, <2>2 DEF ConnectInv, SparksOK, Sent
    <3>2. QED
      BY <1>1, <3>1 DEF ConnectInv, ReadingOK, SparksRead
  <2>3. QED
    BY <2>1, <2>2 DEF OnlyReadersSpark
<1>2. QED
  BY <1>1, ConnectInvariant, PTL

\* The cards of a drop whose first visit found members never change, however many
\* visits drew them at once (get_or_create_daily_drop).
THEOREM DropsStayPinned == Spec => DropPinned
<1>1. ConnectInv /\ [Next]_vars => [CardsKept]_vars
  BY ConnectSteps
<1>2. Spec => [][CardsKept]_vars
  BY <1>1, ConnectInvariant, PTL DEF Spec
<1>3. QED
  BY <1>2, PTL DEF DropPinned, CardsKept
=============================================================================
