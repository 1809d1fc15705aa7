--------------------------- MODULE EventLobbyProofs ---------------------------
(***************************************************************************)
(* Proofs about EventLobby, for any members, events, requests and quota.   *)
(* The actions are of four kinds, with a lemma each: steps around the       *)
(* requests (DoorStep), steps of a request that write no row (RequestStep), *)
(* the two commits, and the removal of an encounter (PairStep).            *)
(***************************************************************************)
EXTENDS EventLobby, FiniteSetTheorems, TLAPS

-----------------------------------------------------------------------------
(* Requests and the rows they hold *)

LEMMA RequestFacts ==
  ASSUME TypeOK, NEW w \in Workers, Busy(w)
  PROVE  /\ job[w] \in Request
         /\ job[w].e \in Events /\ job[w].from \in Members /\ job[w].to \in Members
         /\ job[w].kind \in Kinds /\ job[w].reverse \in BOOLEAN
<1>1. job[w] \in Request \cup {Idle}
  BY DEF TypeOK
<1>2. job[w] # Idle
  BY DEF Busy, Idle
<1>3. QED
  BY <1>1, <1>2 DEF Request

LEMMA IdleFacts ==
  /\ Idle \in Request \cup {Idle} /\ Idle.step = "idle"
  /\ HeldRows(Idle) = {} /\ Wants(Idle) = {}
  BY DEF Idle, HeldRows, Wants

LEMMA InOrderFacts ==
  ASSUME NEW j \in Request, j.from # j.to
  PROVE  /\ Low(j) < High(j) /\ Low(j) \in Members /\ High(j) \in Members
         /\ {Low(j), High(j)} = {j.from, j.to}
         /\ InOrder(j) \in Pairs
<1>1. j.from \in Members /\ j.to \in Members /\ j.from \in Nat /\ j.to \in Nat
  BY LobbyAssumption DEF Request
<1>2. CASE j.from < j.to
  BY <1>1, <1>2 DEF Low, High, InOrder, Pair, Pairs
<1>3. CASE ~(j.from < j.to)
  BY <1>1, <1>3 DEF Low, High, InOrder, Pair, Pairs
<1>4. QED
  BY <1>2, <1>3

LEMMA PairFacts ==
  ASSUME NEW a \in Members, NEW b \in Members, a # b
  PROVE  Pair(a, b) \in Pairs /\ Pair(a, b) = Pair(b, a)
<1>1. a \in Nat /\ b \in Nat
  BY LobbyAssumption
<1>2. QED
  BY <1>1 DEF Pair, Pairs

\* A step that gives w the request J keeps the locks apart, if what J holds is
\* free for it and present.
LEMMA LocksStep ==
  ASSUME TypeOK, LocksExclusive, HeldArePresent, NEW w \in Workers,
         NEW J \in Request \cup {Idle}, job' = [job EXCEPT ![w] = J],
         HeldRows(J) \subseteq attended, attended' = attended,
         \A v \in Workers \ {w} : HeldRows(job[v]) \cap HeldRows(J) = {}
  PROVE  LocksExclusive' /\ HeldArePresent'
<1>1. job'[w] = J /\ \A v \in Workers \ {w} : job'[v] = job[v]
  BY DEF TypeOK
<1>2. LocksExclusive'
  BY <1>1 DEF LocksExclusive, HeldRows, Low, High
<1>3. HeldArePresent'
  BY <1>1 DEF HeldArePresent, HeldRows, Low, High
<1>4. QED
  BY <1>2, <1>3

-----------------------------------------------------------------------------
(* Each step *)

\* The tables written by requests are left alone.
TablesKept == UNCHANGED <<signals, stamped, confirmed>>

\* All that a request does and holds, whatever it knows of the event.
SameWork(i, j) ==
  /\ i.step = j.step
  /\ j.step # "idle" => /\ i.kind = j.kind /\ i.e = j.e /\ i.from = j.from /\ i.to = j.to
                        /\ i.reverse = j.reverse /\ i.row = j.row

LEMMA SameHeld ==
  ASSUME NEW i, NEW j, SameWork(i, j)
  PROVE  HeldRows(i) = HeldRows(j)
  BY DEF SameWork, HeldRows, Low, High, InOrder

LEMMA DoorStep ==
  ASSUME LobbyInv, TypeOK', TablesKept, UNCHANGED pairVars,
         \A w \in Workers : SameWork(job'[w], job[w]) /\ HeldRows(job[w]) \subseteq attended'
  PROVE  LobbyInv'
<1>0. \A w \in Workers : HeldRows(job'[w]) = HeldRows(job[w])
  BY SameHeld
<1>1. HeldArePresent'
  BY <1>0 DEF HeldArePresent, HeldRows, Low, High
<1>2. LocksExclusive'
  BY <1>0 DEF LobbyInv, LocksExclusive, HeldRows, Low, High
<1>3. \A w \in Workers : ReadStillTrue(job[w])'
  BY DEF LobbyInv, TablesKept, ReadStillTrue, Used, SameWork
<1>4. \A w \in Workers : Busy(w)' => job'[w].from # job'[w].to
  BY DEF LobbyInv, Busy, SameWork
<1>5. SignalsWithinQuota' /\ RevealedIffMutual'
  BY DEF LobbyInv, TablesKept, SignalsWithinQuota, RevealedIffMutual, Used
<1>6. EncounterIffBothConfirmed' /\ RequestKeepsHidden'
  BY DEF LobbyInv, TablesKept, pairVars, EncounterIffBothConfirmed, RequestKeepsHidden
<1>7. QED
  BY <1>1, <1>2, <1>3, <1>4, <1>5, <1>6 DEF LobbyInv, TablesKept

\* The requests do not change at all.
LEMMA StillStep ==
  ASSUME LobbyInv, TypeOK', TablesKept, UNCHANGED <<pairVars, job>>,
         \A w \in Workers : HeldRows(job[w]) \subseteq attended'
  PROVE  LobbyInv'
  BY DoorStep DEF SameWork

\* A request moves on without writing.
LEMMA RequestStep ==
  ASSUME LobbyInv, NEW w \in Workers, NEW J \in Request \cup {Idle},
         job' = [job EXCEPT ![w] = J], UNCHANGED <<doorVars, saidVars, pairVars, troubles>>,
         J.step # "idle" => J.from # J.to,
         HeldRows(J) \subseteq attended,
         \A v \in Workers \ {w} : HeldRows(job[v]) \cap HeldRows(J) = {},
         ReadStillTrue(J)
  PROVE  LobbyInv'
<1>0. TypeOK /\ LocksExclusive /\ HeldArePresent
  BY DEF LobbyInv
<1>1. job'[w] = J /\ \A v \in Workers \ {w} : job'[v] = job[v]
  BY <1>0 DEF TypeOK
<1>2. TypeOK'
  BY <1>0 DEF TypeOK, doorVars, saidVars, pairVars
<1>3. LocksExclusive' /\ HeldArePresent'
  BY <1>0, LocksStep DEF doorVars
<1>4. \A v \in Workers : Busy(v)' => job'[v].from # job'[v].to
  BY <1>1 DEF LobbyInv, Busy
<1>5. ReadStillTrue(job[w])'
  BY <1>1 DEF ReadStillTrue, Used, saidVars
<1>6. ASSUME NEW v \in Workers \ {w} PROVE ReadStillTrue(job[v])'
  <2>1. ReadStillTrue(job[v]) /\ job'[v] = job[v]
    BY <1>1 DEF LobbyInv
  <2>2. QED
    BY <2>1 DEF ReadStillTrue, Used, saidVars
<1>7. /\ SignalsWithinQuota' /\ RevealedIffMutual' /\ IsFiniteSet(signals')
      /\ EncounterIffBothConfirmed' /\ RequestKeepsHidden'
  BY DEF LobbyInv, saidVars, pairVars, SignalsWithinQuota, RevealedIffMutual, Used,
         EncounterIffBothConfirmed, RequestKeepsHidden
<1>8. QED
  BY <1>2, <1>3, <1>4, <1>5, <1>6, <1>7 DEF LobbyInv

LEMMA EndStep ==
  ASSUME LobbyInv, NEW w \in Workers, End(w),
         UNCHANGED <<doorVars, saidVars, pairVars, troubles>>
  PROVE  LobbyInv'
<1>1. Idle \in Request \cup {Idle} /\ Idle.step = "idle" /\ HeldRows(Idle) = {}
  BY IdleFacts
<1>2. QED
  BY <1>1, RequestStep DEF End, ReadStillTrue

LEMMA LockStep ==
  ASSUME LobbyInv, NEW w \in Workers, Lock(w)
  PROVE  LobbyInv'
<1> DEFINE j == job[w]
<1>0. /\ TypeOK /\ LocksExclusive /\ HeldArePresent
      /\ Busy(w) /\ j \in Request /\ j.from # j.to
  BY RequestFacts DEF LobbyInv, Lock
<1>1. /\ Low(j) < High(j) /\ {Low(j), High(j)} = {j.from, j.to}
  BY <1>0, InOrderFacts
<1>2. ASSUME NEW s \in {"high", "read"}, NEW m \in Members, j.step \in Steps, Goto(w, s),
             UNCHANGED <<doorVars, saidVars, pairVars, troubles>>,
             Free(j.e, m), <<j.e, m>> \in attended,
             \/ s = "high" /\ m = Low(j)
             \/ s = "read" /\ m = High(j) /\ j.step = "high"
      PROVE  LobbyInv'
  <2> DEFINE J == [j EXCEPT !.step = s]
  <2>1. /\ J \in Request /\ J.step = s /\ J.e = j.e /\ J.from = j.from /\ J.to = j.to
        /\ Low(J) = Low(j) /\ High(J) = High(j)
    BY <1>0, <1>2 DEF Request, Steps, Low, High, InOrder
  <2>2. HeldRows(J) \subseteq HeldRows(j) \cup {<<j.e, m>>}
    BY <1>1, <1>2, <2>1 DEF HeldRows
  <2>3. HeldRows(j) \subseteq attended
    BY <1>0 DEF HeldArePresent
  <2>4. \A v \in Workers \ {w} : HeldRows(job[v]) \cap HeldRows(J) = {}
    BY <1>0, <1>2, <2>2 DEF LocksExclusive, Free
  <2>5. job' = [job EXCEPT ![w] = J]
    BY <1>2 DEF Goto
  <2>6. ReadStillTrue(J)
    BY <2>1, <1>2 DEF ReadStillTrue
  <2>7. HeldRows(J) \subseteq attended /\ J.from # J.to
    BY <1>0, <1>2, <2>1, <2>2, <2>3
  <2> HIDE DEF J
  <2>8. QED
    BY <1>2, <2>1, <2>4, <2>5, <2>6, <2>7, RequestStep
<1>3. CASE LockRow(w, "low", "high", Low(j))
  <2>1. CASE <<j.e, Low(j)>> \in attended \cap joined
    BY <1>0, <1>1, <1>2, <1>3, <2>1, InOrderFacts DEF LockRow, Steps
  <2>2. CASE <<j.e, Low(j)>> \notin attended \cap joined
    BY <1>3, <2>2, EndStep DEF LockRow
  <2>3. QED
    BY <2>1, <2>2
<1>4. CASE LockRow(w, "high", "read", High(j))
  <2>1. CASE <<j.e, High(j)>> \in attended \cap joined
    BY <1>0, <1>1, <1>2, <1>4, <2>1, InOrderFacts DEF LockRow, Steps
  <2>2. CASE <<j.e, High(j)>> \notin attended \cap joined
    BY <1>4, <2>2, EndStep DEF LockRow
  <2>3. QED
    BY <2>1, <2>2
<1>5. QED
  BY <1>3, <1>4 DEF Lock

\* What a request has read under its locks, it still holds when it writes.
LEMMA ReadStep ==
  ASSUME LobbyInv, NEW w \in Workers, SignalRead(w) \/ ConfirmRead(w)
  PROVE  LobbyInv'
<1> DEFINE j == job[w]
<1>0. TypeOK /\ LocksExclusive /\ HeldArePresent /\ j.step = "read"
  BY DEF LobbyInv, SignalRead, ConfirmRead
<1>1. Busy(w) /\ j \in Request /\ j.from # j.to
  BY <1>0, RequestFacts DEF Busy, LobbyInv
<1>2. ASSUME NEW r \in BOOLEAN, NEW h \in BOOLEAN,
             job' = [job EXCEPT ![w] = [j EXCEPT !.step = "write", !.reverse = r, !.row = h]],
             UNCHANGED <<doorVars, saidVars, pairVars, troubles>>,
             IF j.kind = "signal"
               THEN /\ <<j.e, j.from, j.to>> \notin signals
                    /\ Used(j.e, j.from) < MaxSignals
                    /\ r <=> <<j.e, j.to, j.from>> \in signals
               ELSE /\ <<j.e, j.from, j.to>> \notin confirmed
                    /\ r <=> <<j.e, j.to, j.from>> \in confirmed
      PROVE  LobbyInv'
  <2> DEFINE J == [j EXCEPT !.step = "write", !.reverse = r, !.row = h]
  <2>1. /\ J \in Request /\ J.step = "write" /\ J.e = j.e /\ J.from = j.from
        /\ J.to = j.to /\ J.kind = j.kind /\ J.reverse = r
    BY <1>1, <1>2 DEF Request, Steps
  <2>2. HeldRows(J) = HeldRows(j)
    BY <1>0, <2>1 DEF HeldRows
  <2>3. /\ HeldRows(J) \subseteq attended
        /\ \A v \in Workers \ {w} : HeldRows(job[v]) \cap HeldRows(J) = {}
    BY <1>0, <2>2 DEF HeldArePresent, LocksExclusive
  <2>4. ReadStillTrue(J)
    BY <1>2, <2>1 DEF ReadStillTrue
  <2> HIDE DEF J
  <2>5. job' = [job EXCEPT ![w] = J]
    BY <1>2 DEF J
  <2>6. QED
    BY <1>1, <1>2, <2>1, <2>3, <2>4, <2>5, RequestStep
<1>3. CASE SignalRead(w)
  <2>0. PICK now \in PhaseNow(j) :
          IF now = "live" /\ MaySignal(j.e, j.from, j.to)
          THEN job' = [job EXCEPT ![w] = [j EXCEPT !.step = "write",
                                          !.reverse = <<j.e, j.to, j.from>> \in signals]]
          ELSE End(w)
    BY <1>3 DEF SignalRead
  <2>1. CASE now = "live" /\ MaySignal(j.e, j.from, j.to)
    <3> DEFINE r == <<j.e, j.to, j.from>> \in signals
    <3>0. [j EXCEPT !.step = "write", !.reverse = r]
            = [j EXCEPT !.step = "write", !.reverse = r, !.row = j.row]
      BY <1>1 DEF Request
    <3>1. job' = [job EXCEPT ![w] = [j EXCEPT !.step = "write", !.reverse = r, !.row = j.row]]
      <4>1. job' = [job EXCEPT ![w] = [j EXCEPT !.step = "write", !.reverse = r]]
        BY <2>0, <2>1
      <4>2. QED
        BY <3>0, <4>1
    <3>2. j.row \in BOOLEAN /\ j.kind = "signal"
      BY <1>1, <1>3 DEF Request, SignalRead
    <3>3. UNCHANGED <<doorVars, saidVars, pairVars, troubles>>
      BY <1>3 DEF SignalRead
    <3>4. IF j.kind = "signal"
            THEN /\ <<j.e, j.from, j.to>> \notin signals
                 /\ Used(j.e, j.from) < MaxSignals
                 /\ r <=> <<j.e, j.to, j.from>> \in signals
            ELSE /\ <<j.e, j.from, j.to>> \notin confirmed
                 /\ r <=> <<j.e, j.to, j.from>> \in confirmed
      BY <2>1, <3>2 DEF MaySignal
    <3>5. r \in BOOLEAN 
      OBVIOUS
    <3> HIDE DEF r
    <3>6. QED
      BY <1>2, <3>1, <3>2, <3>3, <3>4, <3>5
  <2>2. CASE ~(now = "live" /\ MaySignal(j.e, j.from, j.to))
    BY <1>3, <2>0, <2>2, EndStep DEF SignalRead
  <2>3. QED
    BY <2>1, <2>2
<1>4. CASE ConfirmRead(w)
  <2> DEFINE p == Pair(j.from, j.to)
  <2>0. PICK now \in PhaseNow(j) :
          IF now = "recap" /\ encounter[p] # "active" /\ <<j.e, j.from, j.to>> \notin confirmed
          THEN job' = [job EXCEPT ![w] = [j EXCEPT !.step = "write",
                                          !.reverse = <<j.e, j.to, j.from>> \in confirmed,
                                          !.row = encounter[p] # "none"]]
          ELSE End(w)
    BY <1>4 DEF ConfirmRead
  <2>1. CASE now = "recap" /\ encounter[p] # "active" /\ <<j.e, j.from, j.to>> \notin confirmed
    <3> DEFINE r == <<j.e, j.to, j.from>> \in confirmed
               h == encounter[p] # "none"
    <3>1. job' = [job EXCEPT ![w] = [j EXCEPT !.step = "write", !.reverse = r, !.row = h]]
      BY <2>0, <2>1
    <3>2. j.kind # "signal"
      BY <1>4 DEF ConfirmRead
    <3>3. UNCHANGED <<doorVars, saidVars, pairVars, troubles>>
      BY <1>4 DEF ConfirmRead
    <3>4. IF j.kind = "signal"
            THEN /\ <<j.e, j.from, j.to>> \notin signals
                 /\ Used(j.e, j.from) < MaxSignals
                 /\ r <=> <<j.e, j.to, j.from>> \in signals
            ELSE /\ <<j.e, j.from, j.to>> \notin confirmed
                 /\ r <=> <<j.e, j.to, j.from>> \in confirmed
      BY <2>1, <3>2
    <3>5. r \in BOOLEAN /\ h \in BOOLEAN
      OBVIOUS
    <3> HIDE DEF r, h
    <3>6. QED
      BY <1>2, <3>1, <3>3, <3>4, <3>5
  <2>2. CASE ~(now = "recap" /\ encounter[p] # "active" /\ <<j.e, j.from, j.to>> \notin confirmed)
    BY <1>4, <2>0, <2>2, EndStep DEF ConfirmRead
  <2>3. QED
    BY <2>1, <2>2
<1>5. QED
  BY <1>3, <1>4

-----------------------------------------------------------------------------
(* The commits *)

\* Two requests under their locks are about different members, or events.
LEMMA WritersApart ==
  ASSUME LobbyInv, NEW v \in Workers, NEW w \in Workers, v # w,
         job[v].step = "write", job[w].step = "write"
  PROVE  /\ <<job[v].e, job[v].from>> # <<job[w].e, job[w].from>>
         /\ <<job[v].e, job[v].to>> # <<job[w].e, job[w].from>>
<1>1. HeldRows(job[v]) \cap HeldRows(job[w]) = {}
  BY DEF LobbyInv, LocksExclusive
<1>2. QED
  BY <1>1 DEF HeldRows

\* What a commit leaves of the requests: the locks stay apart, the writer is done.
LEMMA WriterEnds ==
  ASSUME LobbyInv, NEW w \in Workers, End(w), UNCHANGED attended
  PROVE  /\ job'[w] = Idle /\ \A v \in Workers \ {w} : job'[v] = job[v]
         /\ job' \in [Workers -> Request \cup {Idle}]
         /\ LocksExclusive' /\ HeldArePresent' /\ ReadStillTrue(job[w])'
         /\ \A v \in Workers : Busy(v)' => job'[v].from # job'[v].to
<1>1. TypeOK /\ LocksExclusive /\ HeldArePresent
  BY DEF LobbyInv
<1>2. job'[w] = Idle /\ \A v \in Workers \ {w} : job'[v] = job[v]
  BY <1>1 DEF TypeOK, End
<1>3. LocksExclusive' /\ HeldArePresent'
  BY <1>1, IdleFacts, LocksStep DEF End
<1>4. ReadStillTrue(job[w])'
  BY <1>2, IdleFacts DEF ReadStillTrue
<1>5. \A v \in Workers : Busy(v)' => job'[v].from # job'[v].to
  BY <1>2, IdleFacts DEF LobbyInv, Busy
<1>6. job' \in [Workers -> Request \cup {Idle}]
  BY <1>1, IdleFacts DEF TypeOK, End
<1>7. QED
  BY <1>2, <1>3, <1>4, <1>5, <1>6

LEMMA SignalCommitStep ==
  ASSUME LobbyInv, NEW w \in Workers, SignalCommit(w)
  PROVE  LobbyInv'
<1> DEFINE j == job[w]
           x == <<j.e, j.from, j.to>>
           y == <<j.e, j.to, j.from>>
<1>0. TypeOK /\ IsFiniteSet(signals) /\ j.step = "write" /\ j.kind = "signal" /\ End(w)
  BY DEF LobbyInv, SignalCommit
<1>1. /\ Busy(w) /\ j.e \in Events /\ j.from \in Members /\ j.to \in Members /\ j.from # j.to
      /\ x \in Ways /\ y \in Ways
  BY <1>0, RequestFacts DEF Busy, LobbyInv, Ways
<1>2. x \notin signals /\ Used(j.e, j.from) < MaxSignals /\ (j.reverse <=> y \in signals)
  BY <1>0 DEF LobbyInv, ReadStillTrue
<1>3. /\ signals' = signals \cup {x}
      /\ stamped' = IF j.reverse THEN stamped \cup {x, y} ELSE stamped
      /\ UNCHANGED <<doorVars, confirmed, pairVars, troubles>>
  BY DEF SignalCommit, Both
<1>4. /\ job'[w] = Idle /\ \A v \in Workers \ {w} : job'[v] = job[v]
      /\ job' \in [Workers -> Request \cup {Idle}]
      /\ LocksExclusive' /\ HeldArePresent' /\ ReadStillTrue(job[w])'
      /\ \A v \in Workers : Busy(v)' => job'[v].from # job'[v].to
  BY <1>0, <1>3, WriterEnds DEF doorVars
<1>5. signals' \subseteq Ways /\ stamped' \subseteq Ways
  <2>1. signals \subseteq Ways /\ stamped \subseteq Ways
    BY <1>0 DEF TypeOK
  <2>2. QED
    BY <2>1, <1>1, <1>3
<1>6. TypeOK'
  BY <1>0, <1>3, <1>4, <1>5 DEF TypeOK, doorVars, pairVars
<1>7. IsFiniteSet(signals')
  BY <1>0, <1>3, FS_AddElement
<1>8. \A e, a : <<e, a>> # <<j.e, j.from>> => Used(e, a)' = Used(e, a)
  <2> TAKE e, a
  <2> HAVE <<e, a>> # <<j.e, j.from>>
  <2>1. {z \in signals' : z[1] = e /\ z[2] = a} = {z \in signals : z[1] = e /\ z[2] = a}
    BY <1>3
  <2>2. QED
    BY <2>1 DEF Used
<1>9. Cardinality({z \in signals' : z[1] = j.e /\ z[2] = j.from}) = Used(j.e, j.from) + 1
  <2> DEFINE mine == {z \in signals : z[1] = j.e /\ z[2] = j.from}
  <2>1. {z \in signals' : z[1] = j.e /\ z[2] = j.from} = mine \cup {x}
    BY <1>3
  <2>2. IsFiniteSet(mine) /\ x \notin mine
    BY <1>0, <1>2, FS_Subset
  <2>3. Cardinality(mine \cup {x}) = Cardinality(mine) + 1
    BY <2>2, FS_AddElement
  <2>4. QED
    BY <2>1, <2>3 DEF Used
<1>10. SignalsWithinQuota'
  <2>1. Used(j.e, j.from) \in Nat /\ MaxSignals \in Nat
    <3>1. IsFiniteSet({z \in signals : z[1] = j.e /\ z[2] = j.from})
      BY <1>0, FS_Subset
    <3>2. QED
      BY <3>1, FS_CardinalityType, LobbyAssumption DEF Used
  <2>2. Cardinality({z \in signals' : z[1] = j.e /\ z[2] = j.from}) <= MaxSignals
    BY <1>2, <1>9, <2>1
  <2>3. ASSUME NEW e \in Events, NEW a \in Members PROVE Used(e, a)' <= MaxSignals
    <3>1. CASE e = j.e /\ a = j.from
      BY <2>2, <3>1 DEF Used
    <3>2. CASE <<e, a>> # <<j.e, j.from>>
      BY <1>8, <3>2 DEF LobbyInv, SignalsWithinQuota
    <3>3. QED
      BY <3>1, <3>2
  <2>4. QED
    BY <2>3 DEF SignalsWithinQuota
<1>11. RevealedIffMutual'
  <2>1. stamped = {z \in signals : <<z[1], z[3], z[2]>> \in signals}
    BY DEF LobbyInv, RevealedIffMutual
  <2>2. signals \subseteq Ways
    BY <1>0 DEF TypeOK
  <2>3. ASSUME NEW z \in Ways
        PROVE  z \in stamped' <=> z \in signals' /\ <<z[1], z[3], z[2]>> \in signals'
    <3>1. /\ z = x <=> <<z[1], z[3], z[2]>> = y
          /\ z = y <=> <<z[1], z[3], z[2]>> = x
          /\ x # y
      BY <1>1 DEF Ways
    <3>2. QED
      BY <1>2, <1>3, <2>1, <3>1
  <2>4. QED
    BY <1>5, <2>3 DEF RevealedIffMutual
<1>12. ASSUME NEW v \in Workers \ {w} PROVE ReadStillTrue(job[v])'
  <2>1. ReadStillTrue(job[v]) /\ job'[v] = job[v]
    BY <1>4 DEF LobbyInv
  <2>2. CASE job[v].step = "write"
    <3>1. /\ <<job[v].e, job[v].from>> # <<j.e, j.from>>
          /\ <<job[v].e, job[v].to>> # <<j.e, j.from>>
      BY <1>0, <2>2, WritersApart
    <3>2. Used(job[v].e, job[v].from)' = Used(job[v].e, job[v].from)'
      OBVIOUS
    <3>3. Cardinality({z \in signals' : z[1] = job[v].e /\ z[2] = job[v].from})
            = Used(job[v].e, job[v].from)
      BY <1>3, <3>1 DEF Used
    <3>4. /\ <<job[v].e, job[v].from, job[v].to>> # x
          /\ <<job[v].e, job[v].to, job[v].from>> # x
      BY <3>1
    <3>5. QED
      BY <1>3, <2>1, <3>3, <3>4 DEF ReadStillTrue, Used
  <2>3. CASE job[v].step # "write"
    BY <2>1, <2>3 DEF ReadStillTrue
  <2>4. QED
    BY <2>2, <2>3
<1>13. EncounterIffBothConfirmed' /\ RequestKeepsHidden'
  BY <1>3 DEF LobbyInv, pairVars, EncounterIffBothConfirmed, RequestKeepsHidden
<1>14. QED
  BY <1>4, <1>6, <1>7, <1>10, <1>11, <1>12, <1>13 DEF LobbyInv

LEMMA ConfirmCommitStep ==
  ASSUME LobbyInv, NEW w \in Workers, ConfirmCommit(w)
  PROVE  LobbyInv'
<1> DEFINE j == job[w]
           q == Pair(j.from, j.to)
           x == <<j.e, j.from, j.to>>
           y == <<j.e, j.to, j.from>>
<1>0. TypeOK /\ IsFiniteSet(signals) /\ j.step = "write" /\ j.kind = "confirm" /\ End(w)
  BY DEF LobbyInv, ConfirmCommit
<1>1. /\ Busy(w) /\ j.e \in Events /\ j.from \in Members /\ j.to \in Members /\ j.from # j.to
      /\ x \in Ways /\ y \in Ways /\ q \in Pairs /\ {q[1], q[2]} = {j.from, j.to}
  BY <1>0, RequestFacts, PairFacts DEF Busy, LobbyInv, Ways, Pair
<1>2. x \notin confirmed /\ (j.reverse <=> y \in confirmed)
  BY <1>0 DEF LobbyInv, ReadStillTrue
<1>3. /\ confirmed' = confirmed \cup {x}
      /\ encounter' = IF j.reverse THEN [encounter EXCEPT ![q] = Met(@)] ELSE encounter
      /\ UNCHANGED <<doorVars, signals, stamped, past, pending, troubles>>
  BY DEF ConfirmCommit
<1>4. /\ job'[w] = Idle /\ \A v \in Workers \ {w} : job'[v] = job[v]
      /\ job' \in [Workers -> Request \cup {Idle}]
      /\ LocksExclusive' /\ HeldArePresent' /\ ReadStillTrue(job[w])'
      /\ \A v \in Workers : Busy(v)' => job'[v].from # job'[v].to
  BY <1>0, <1>3, WriterEnds DEF doorVars
<1>5. /\ confirmed' \subseteq Ways
      /\ encounter' \in [Pairs -> {"none", "active"} \cup Hidden]
      /\ encounter \in [Pairs -> {"none", "active"} \cup Hidden]
  BY <1>0, <1>1, <1>3 DEF TypeOK, Met
<1>6. TypeOK'
  BY <1>0, <1>3, <1>4, <1>5 DEF TypeOK, doorVars
<1>7. SignalsWithinQuota' /\ RevealedIffMutual' /\ IsFiniteSet(signals')
  BY <1>3 DEF LobbyInv, SignalsWithinQuota, RevealedIffMutual, Used
<1>8. RequestKeepsHidden'
  BY <1>0, <1>1, <1>3 DEF LobbyInv, RequestKeepsHidden, TypeOK, Met
<1>9. EncounterIffBothConfirmed'
  <2>1. ASSUME NEW p \in Pairs
        PROVE  encounter'[p] # "none"
                 <=> p \in past \/ \E e \in Events : Both(e, p[1], p[2]) \subseteq confirmed'
    <3>1. encounter[p] # "none"
            <=> p \in past \/ \E e \in Events : Both(e, p[1], p[2]) \subseteq confirmed
      BY DEF LobbyInv, EncounterIffBothConfirmed
    <3>2. CASE p = q
      <4>1. \A e : Both(e, p[1], p[2]) = {<<e, j.from, j.to>>, <<e, j.to, j.from>>}
        BY <1>1, <3>2 DEF Both, Pair
      <4>2. CASE j.reverse
        BY <1>0, <1>1, <1>2, <1>3, <1>5, <3>2, <4>1, <4>2 DEF Met
      <4>3. CASE ~j.reverse
        BY <1>1, <1>2, <1>3, <3>1, <4>1, <4>3
      <4>4. QED
        BY <4>2, <4>3
    <3>3. CASE p # q
      <4>1. encounter'[p] = encounter[p]
        BY <1>1, <1>3, <1>5, <3>3
      <4>2. p = <<p[1], p[2]>>
        BY DEF Pairs
      <4>3. \A e : x \notin Both(e, p[1], p[2])
        <5>1. ~(j.from = p[1] /\ j.to = p[2]) /\ ~(j.from = p[2] /\ j.to = p[1])
          BY <1>1, <3>3, <4>2, PairFacts DEF Pair, Pairs
        <5>2. QED
          BY <5>1 DEF Both
      <4>4. \A e : Both(e, p[1], p[2]) \subseteq confirmed' <=> Both(e, p[1], p[2]) \subseteq confirmed
        BY <1>3, <4>3
      <4>5. QED
        BY <3>1, <4>1, <4>4
    <3>4. QED
      BY <3>2, <3>3
  <2>2. past' = past
    BY <1>3
  <2>3. QED
    BY <2>1, <2>2 DEF EncounterIffBothConfirmed, Both
<1>10. ASSUME NEW v \in Workers \ {w} PROVE ReadStillTrue(job[v])'
  <2>1. ReadStillTrue(job[v]) /\ job'[v] = job[v]
    BY <1>4 DEF LobbyInv
  <2>2. CASE job[v].step = "write"
    <3>1. /\ <<job[v].e, job[v].from>> # <<j.e, j.from>>
          /\ <<job[v].e, job[v].to>> # <<j.e, j.from>>
      BY <1>0, <2>2, WritersApart
    <3>2. /\ <<job[v].e, job[v].from, job[v].to>> # x
          /\ <<job[v].e, job[v].to, job[v].from>> # x
      BY <3>1
    <3>3. QED
      BY <1>3, <2>1, <3>2 DEF ReadStillTrue, Used
  <2>3. CASE job[v].step # "write"
    BY <2>1, <2>3 DEF ReadStillTrue
  <2>4. QED
    BY <2>2, <2>3
<1>11. QED
  BY <1>4, <1>6, <1>7, <1>8, <1>9, <1>10 DEF LobbyInv

-----------------------------------------------------------------------------
(* Removals, and the invariant *)

LEMMA PairStep ==
  ASSUME LobbyInv, NEW p \in Pairs, NEW st \in {"active"} \cup Hidden,
         encounter[p] # "none", encounter' = [encounter EXCEPT ![p] = st],
         \/ pending' = pending \ {p}
         \/ st = "removal_pending" /\ pending' = pending \cup {p},
         UNCHANGED <<doorVars, saidVars, past, job, troubles>>
  PROVE  LobbyInv'
<1>1. TypeOK
  BY DEF LobbyInv
<1>2. encounter' \in [Pairs -> {"none", "active"} \cup Hidden] /\ pending' \subseteq Pairs
  BY <1>1 DEF TypeOK
<1>3. TypeOK'
  BY <1>1, <1>2 DEF TypeOK, doorVars, saidVars
<1>4. \A q \in Pairs : encounter'[q] # "none" <=> encounter[q] # "none"
  BY <1>1 DEF TypeOK, Hidden
<1>5. EncounterIffBothConfirmed'
  BY <1>4 DEF LobbyInv, EncounterIffBothConfirmed, saidVars
<1>6. RequestKeepsHidden'
  BY <1>1 DEF LobbyInv, RequestKeepsHidden, TypeOK
<1>7. /\ LocksExclusive' /\ HeldArePresent' /\ IsFiniteSet(signals')
      /\ SignalsWithinQuota' /\ RevealedIffMutual'
      /\ \A v \in Workers : ReadStillTrue(job[v])'
      /\ \A v \in Workers : Busy(v)' => job'[v].from # job'[v].to
  BY DEF LobbyInv, LocksExclusive, HeldArePresent, HeldRows, Low, High, SignalsWithinQuota,
         RevealedIffMutual, ReadStillTrue, Used, Busy, saidVars, doorVars
<1>8. QED
  BY <1>3, <1>5, <1>6, <1>7 DEF LobbyInv

LEMMA LobbyInit == Init => LobbyInv
<1> SUFFICES ASSUME Init PROVE LobbyInv
  OBVIOUS
<1>1. TypeOK
  BY LobbyAssumption DEF Init, TypeOK, Phases, Hidden, Pairs
<1>2. \A w \in Workers : job[w] = Idle /\ ~Busy(w) /\ HeldRows(job[w]) = {} /\ job[w].step = "idle"
  BY IdleFacts DEF Init, Busy
<1>3. LocksExclusive /\ HeldArePresent /\ \A w \in Workers : ReadStillTrue(job[w])
  BY <1>2 DEF LocksExclusive, HeldArePresent, ReadStillTrue
<1>4. IsFiniteSet(signals) /\ RevealedIffMutual /\ RequestKeepsHidden
  BY FS_EmptySet DEF Init, RevealedIffMutual, RequestKeepsHidden
<1>5. SignalsWithinQuota
  <2>1. \A e, a : {x \in signals : x[1] = e /\ x[2] = a} = {}
    BY DEF Init
  <2>2. QED
    BY <2>1, FS_EmptySet, LobbyAssumption DEF SignalsWithinQuota, Used
<1>6. EncounterIffBothConfirmed
  BY DEF Init, EncounterIffBothConfirmed, Both
<1>7. QED
  BY <1>1, <1>2, <1>3, <1>4, <1>5, <1>6 DEF LobbyInv

LEMMA AroundStep ==
  ASSUME LobbyInv, \/ \E e \in Events, m \in Members : CheckIn(e, m) \/ Enter(e, m)
                   \/ \E e \in Events : PhasePasses(e)
                   \/ Trouble
  PROVE  LobbyInv'
<1>0. TypeOK /\ HeldArePresent
  BY DEF LobbyInv
<1>1. CASE \E e \in Events, m \in Members : CheckIn(e, m) \/ Enter(e, m)
  <2>1. TypeOK' /\ TablesKept /\ attended \subseteq attended' /\ UNCHANGED <<pairVars, job>>
    BY <1>0, <1>1 DEF CheckIn, Enter, TypeOK, TablesKept, saidVars, pairVars
  <2>2. QED
    BY <1>0, <2>1, StillStep DEF HeldArePresent
<1>2. CASE \E e \in Events : PhasePasses(e)
  <2>1. TypeOK' /\ TablesKept /\ UNCHANGED <<attended, pairVars, job>>
    BY <1>0, <1>2 DEF PhasePasses, TypeOK, TablesKept, saidVars, pairVars, Phases
  <2>2. QED
    BY <1>0, <2>1, StillStep DEF HeldArePresent
<1>3. CASE Trouble
  <2>0. TablesKept /\ UNCHANGED pairVars /\ troubles' \in 0..MaxTroubles
    BY <1>0, <1>3, LobbyAssumption DEF Trouble, TablesKept, saidVars, TypeOK
  <2>1. CASE \E e \in Events : Reschedule(e)
    <3>1. PICK e \in Events : Reschedule(e)
      BY <2>1
    <3>2. phase' \in [Events -> Phases] /\ UNCHANGED attended
      BY <1>0, <3>1 DEF Reschedule, TypeOK
    <3>3. ASSUME NEW w \in Workers
          PROVE  job'[w] \in Request \cup {Idle} /\ SameWork(job'[w], job[w])
      BY <1>0, <3>1, IdleFacts DEF Reschedule, TypeOK, Request, SameWork
    <3>4. job' \in [Workers -> Request \cup {Idle}]
      BY <3>1, <3>3 DEF Reschedule
    <3>5. TypeOK'
      BY <1>0, <2>0, <3>1, <3>2, <3>4 DEF Reschedule, TypeOK, TablesKept, pairVars
    <3>6. QED
      BY <1>0, <2>0, <3>2, <3>3, <3>5, DoorStep DEF HeldArePresent
  <2>2. CASE \E e \in Events, m \in Members : UndoCheckIn(e, m)
    <3>1. TypeOK' /\ UNCHANGED job /\ \A w \in Workers : HeldRows(job[w]) \subseteq attended'
      BY <1>0, <2>0, <2>2 DEF UndoCheckIn, TypeOK, TablesKept, pairVars, HeldArePresent, Free
    <3>2. QED
      BY <2>0, <3>1, StillStep
  <2>3. CASE \E m \in Members : GateTurns(m)
    <3>1. TypeOK' /\ UNCHANGED <<attended, job>>
      BY <1>0, <2>0, <2>3 DEF GateTurns, TypeOK, TablesKept, pairVars
    <3>2. QED
      BY <1>0, <2>0, <3>1, StillStep DEF HeldArePresent
  <2>4. CASE \E p \in Pairs : BlockTurns(p)
    <3>1. TypeOK' /\ UNCHANGED <<attended, job>>
      BY <1>0, <2>0, <2>4 DEF BlockTurns, TypeOK, TablesKept, pairVars
    <3>2. QED
      BY <1>0, <2>0, <3>1, StillStep DEF HeldArePresent
  <2>5. QED
    BY <1>3, <2>1, <2>2, <2>3, <2>4 DEF Trouble
<1>4. QED
  BY <1>1, <1>2, <1>3

LEMMA BeginStep ==
  ASSUME LobbyInv, NEW w \in Workers, NEW k \in Kinds, NEW e \in Events, NEW a \in Members,
         NEW b \in Members, Begin(w, k, e, a, b)
  PROVE  LobbyInv'
<1> DEFINE J == [step |-> "low", kind |-> k, e |-> e, edited |-> FALSE, from |-> a,
                 to |-> b, reverse |-> FALSE, row |-> FALSE]
<1>1. J \in Request /\ J.from # J.to /\ J.step = "low"
  BY DEF Request, Steps, Begin
<1>2. HeldRows(J) = {} /\ ReadStillTrue(J)
  BY <1>1 DEF HeldRows, ReadStillTrue
<1>3. job' = [job EXCEPT ![w] = J] /\ UNCHANGED <<doorVars, saidVars, pairVars, troubles>>
  BY DEF Begin
<1> HIDE DEF J
<1>4. QED
  BY <1>1, <1>2, <1>3, RequestStep

LEMMA LobbyNext == LobbyInv /\ [Next]_vars => LobbyInv'
<1> SUFFICES ASSUME LobbyInv, [Next]_vars PROVE LobbyInv'
  OBVIOUS
<1>1. CASE \E w \in Workers, k \in Kinds, e \in Events, a, b \in Members : Begin(w, k, e, a, b)
  BY <1>1, BeginStep
<1>2. CASE \E w \in Workers : Work(w) \/ Crash(w)
  BY <1>2, LockStep, ReadStep, SignalCommitStep, ConfirmCommitStep, EndStep DEF Work, Crash
<1>3. CASE \E p \in Pairs : \E a \in Members : SubmitRemoval(a, p)
  BY <1>3, PairStep DEF SubmitRemoval, Hidden
<1>4. CASE \E p \in Pairs, d \in Decisions : ReviewRemoval(p, d)
  <2>1. PICK p \in Pairs, d \in Decisions : ReviewRemoval(p, d)
    BY <1>4
  <2>2. encounter[p] # "none" /\ d \in {"active"} \cup Hidden
    BY <2>1 DEF LobbyInv, RequestKeepsHidden, ReviewRemoval, Decisions, Hidden
  <2>3. /\ encounter' = [encounter EXCEPT ![p] = d] /\ pending' = pending \ {p}
        /\ UNCHANGED <<doorVars, saidVars, past, job, troubles>>
    BY <2>1 DEF ReviewRemoval
  <2>4. \/ pending' = pending \ {p}
        \/ d = "removal_pending" /\ pending' = pending \cup {p}
    BY <2>3
  <2>5. LobbyInv /\ p \in Pairs /\ d \in {"active"} \cup Hidden
    BY <2>2
  <2>6. QED
    BY <2>2, <2>3, <2>4, <2>5, PairStep, Zenon
<1>5. CASE UNCHANGED vars
  <2>1. TypeOK' /\ TablesKept /\ UNCHANGED <<attended, pairVars, job>>
    BY <1>5 DEF vars, doorVars, saidVars, pairVars, TablesKept, LobbyInv, TypeOK
  <2>2. QED
    BY <2>1, StillStep DEF LobbyInv, HeldArePresent
<1>6. QED
  BY <1>1, <1>2, <1>3, <1>4, <1>5, AroundStep DEF Next

\* The tables stay consistent whatever requests, staff and accidents do.
THEOREM LobbyInvariant == Spec => []LobbyInv
  BY LobbyInit, LobbyNext, PTL DEF Spec

THEOREM LobbyTypeCorrect == Spec => []TypeOK
<1>1. LobbyInv => TypeOK
  BY DEF LobbyInv
<1>2. QED
  BY <1>1, LobbyInvariant, PTL

\* A member sends at most MaxSignals signals at one event (send_meet_signal).
THEOREM QuotaKept == Spec => []SignalsWithinQuota
<1>1. LobbyInv => SignalsWithinQuota
  BY DEF LobbyInv
<1>2. QED
  BY <1>1, LobbyInvariant, PTL

\* A reveal is on both signals of a pair, exactly when both were sent.
THEOREM RevealsAreMutual == Spec => []RevealedIffMutual
<1>1. LobbyInv => RevealedIffMutual
  BY DEF LobbyInv
<1>2. QED
  BY <1>1, LobbyInvariant, PTL

\* An encounter exists exactly for the pairs that both confirmed (confirm_meeting).
THEOREM EncountersAreMutual == Spec => []EncounterIffBothConfirmed
<1>1. LobbyInv => EncounterIffBothConfirmed
  BY DEF LobbyInv
<1>2. QED
  BY <1>1, LobbyInvariant, PTL

\* Locking the participation rows in the order of the user ids cannot deadlock.
THEOREM NoDeadlockOnRows == Spec => []NoCircularWait
<1>1. LobbyInv => NoCircularWait
  <2> SUFFICES ASSUME LobbyInv, NEW v \in Workers, NEW w \in Workers,
                      Wants(job[v]) \cap HeldRows(job[w]) # {},
                      Wants(job[w]) \cap HeldRows(job[v]) # {}
               PROVE  FALSE
    BY DEF NoCircularWait
  <2>1. job[v].step = "high" /\ job[w].step = "high"
    BY DEF Wants, HeldRows
  <2>2. /\ job[v] \in Request /\ job[w] \in Request
        /\ job[v].from # job[v].to /\ job[w].from # job[w].to
    BY <2>1, RequestFacts DEF LobbyInv, Busy
  <2>3. High(job[v]) = Low(job[w]) /\ High(job[w]) = Low(job[v])
    BY <2>1 DEF Wants, HeldRows
  <2>4. /\ Low(job[v]) < High(job[v]) /\ Low(job[w]) < High(job[w])
        /\ Low(job[v]) \in Nat /\ Low(job[w]) \in Nat
    BY <2>2, InOrderFacts, LobbyAssumption
  <2>5. QED
    BY <2>3, <2>4
<1>2. QED
  BY <1>1, LobbyInvariant, PTL

\* A hidden encounter comes back only when staff close its request; a removed
\* one never does.
THEOREM HiddenStaysHidden == Spec => HiddenUntilRestored
<1>1. LobbyInv /\ [Next]_vars
        => [\A p \in Pairs : encounter[p] \in Hidden /\ encounter'[p] \notin Hidden
               => encounter[p] = "removal_pending" /\ p \in pending \ pending']_vars
  <2> SUFFICES ASSUME LobbyInv, [Next]_vars, NEW p \in Pairs, encounter[p] \in Hidden,
                      encounter'[p] \notin Hidden
               PROVE  encounter[p] = "removal_pending" /\ p \in pending \ pending'
    OBVIOUS
  <2>0. encounter \in [Pairs -> {"none", "active"} \cup Hidden]
    BY DEF LobbyInv, TypeOK
  <2>1. encounter' # encounter
    OBVIOUS
  <2>2. CASE \E w \in Workers : ConfirmCommit(w)
    BY <2>0, <2>2 DEF ConfirmCommit, Met, Hidden
  <2>3. CASE \E q \in Pairs : \E a \in Members : SubmitRemoval(a, q)
    BY <2>0, <2>3 DEF SubmitRemoval, Hidden
  <2>4. CASE \E q \in Pairs, d \in Decisions : ReviewRemoval(q, d)
    <3>1. PICK q \in Pairs, d \in Decisions : ReviewRemoval(q, d)
      BY <2>4
    <3>2. q = p
      BY <2>0, <3>1 DEF ReviewRemoval
    <3>3. QED
      BY <3>1, <3>2 DEF ReviewRemoval, LobbyInv, RequestKeepsHidden
  <2>5. QED
    BY <2>1, <2>2, <2>3, <2>4 DEF Next, Work, Lock, LockRow, Goto, End, SignalRead, SignalCommit,
       ConfirmRead, Begin, CheckIn, Enter, PhasePasses, Trouble, Crash, pairVars, vars
<1>2. QED
  BY <1>1, LobbyInvariant, PTL DEF Spec, HiddenUntilRestored

\* Whoever a signal or a confirmation names is checked in when it is written.
THEOREM WrittenArePresent == Spec => OnlyPresentMembersWritten
<1>1. LobbyInv /\ [Next]_vars
        => [\A x \in (signals' \ signals) \cup (confirmed' \ confirmed) :
               {<<x[1], x[2]>>, <<x[1], x[3]>>} \subseteq attended]_vars
  <2> SUFFICES ASSUME LobbyInv, [Next]_vars,
                      NEW x \in (signals' \ signals) \cup (confirmed' \ confirmed)
               PROVE  {<<x[1], x[2]>>, <<x[1], x[3]>>} \subseteq attended
    OBVIOUS
  <2>1. ASSUME NEW w \in Workers, SignalCommit(w) \/ ConfirmCommit(w)
        PROVE  {<<x[1], x[2]>>, <<x[1], x[3]>>} \subseteq attended
    <3>1. job[w].step = "write" /\ x = <<job[w].e, job[w].from, job[w].to>>
      BY <2>1 DEF SignalCommit, ConfirmCommit
    <3>2. HeldRows(job[w]) \subseteq attended
      BY DEF LobbyInv, HeldArePresent
    <3>3. QED
      BY <3>1, <3>2 DEF HeldRows
  <2>2. CASE \A w \in Workers : ~SignalCommit(w) /\ ~ConfirmCommit(w)
    BY <2>2 DEF Next, Work, Lock, LockRow, Goto, End, SignalRead, ConfirmRead, Begin, CheckIn,
       Enter, PhasePasses, Trouble, Crash, SubmitRemoval, ReviewRemoval, saidVars, vars
  <2>3. QED
    BY <2>1, <2>2
<1>2. QED
  BY <1>1, LobbyInvariant, PTL DEF Spec, OnlyPresentMembersWritten

-----------------------------------------------------------------------------
(* Signals implement MutualConsent *)

LEMMA ConsentStep ==
  ASSUME LobbyInv, NEW w \in Workers, SignalCommit(w)
  PROVE  SignalConsent!Next
<1> DEFINE j == job[w]
<1>1. /\ j.step = "write" /\ j.kind = "signal" /\ j.e \in Events /\ j.from \in Members
      /\ j.to \in Members /\ j.from # j.to
  BY RequestFacts DEF SignalCommit, LobbyInv, Busy
<1>2. /\ <<j.e, j.from, j.to>> \notin signals /\ Used(j.e, j.from) < MaxSignals
      /\ j.reverse <=> <<j.e, j.to, j.from>> \in signals
  BY <1>1 DEF LobbyInv, ReadStillTrue
<1>3. SignalConsent!Cardinality(SignalConsent!SaidBy(j.e, j.from)) < MaxSignals
  <2>1. \A S : SignalConsent!Cardinality(S) = Cardinality(S)
    BY Zenon DEF Cardinality, SignalConsent!Cardinality
  <2>2. QED
    BY <1>2, <2>1 DEF Used, SignalConsent!SaidBy
<1>4. /\ signals' = signals \cup {<<j.e, j.from, j.to>>}
      /\ stamped' = IF j.reverse THEN stamped \cup Both(j.e, j.from, j.to) ELSE stamped
  BY DEF SignalCommit
<1> DEFINE Known(S) == {<<x[1], {x[2], x[3]}>> : x \in S}
<1>5. Known(stamped \cup Both(j.e, j.from, j.to)) = Known(stamped) \cup {<<j.e, {j.from, j.to}>>}
  <2>1. Known(Both(j.e, j.from, j.to)) = {<<j.e, {j.from, j.to}>>}
    BY DEF Both
  <2>2. QED
    BY <2>1
<1>6. Known(stamped') = IF <<j.e, j.to, j.from>> \in signals
                          THEN Known(stamped) \cup {<<j.e, {j.from, j.to}>>} ELSE Known(stamped)
  BY <1>2, <1>4, <1>5
<1>7. PICK o \in Events, a \in Members, b \in Members : o = j.e /\ a = j.from /\ b = j.to
  BY <1>1
<1>8. SignalConsent!Say(o, a, b)
  BY <1>1, <1>2, <1>3, <1>4, <1>6, <1>7 DEF SignalConsent!Say
<1>9. QED
  BY <1>8 DEF SignalConsent!Next

\* Every behaviour of the lobby's signals is one MutualConsent allows.
THEOREM SignalsRefineConsent == Spec => SignalsAreConsent
<1>1. Init => SignalConsent!Init
  BY DEF Init, SignalConsent!Init
<1>2. LobbyInv /\ [Next]_vars
        => [SignalConsent!Next]_<<signals, {<<x[1], {x[2], x[3]}>> : x \in stamped}>>
  <2> SUFFICES ASSUME LobbyInv, [Next]_vars
               PROVE  SignalConsent!Next \/ UNCHANGED <<signals, stamped>>
    OBVIOUS
  <2>1. CASE \E w \in Workers : SignalCommit(w)
    BY <2>1, ConsentStep
  <2>2. CASE \A w \in Workers : ~SignalCommit(w)
    BY <2>2 DEF Next, Work, Lock, LockRow, Goto, End, SignalRead, ConfirmRead, ConfirmCommit, Begin,
       CheckIn, Enter, PhasePasses, Trouble, Crash, SubmitRemoval, ReviewRemoval, saidVars, vars
  <2>3. QED
    BY <2>1, <2>2
<1>3. QED
  BY <1>1, <1>2, LobbyInvariant, PTL DEF Spec, SignalsAreConsent, SignalConsent!Spec
=============================================================================
