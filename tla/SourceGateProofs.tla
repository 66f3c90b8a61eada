-------------------------- MODULE SourceGateProofs --------------------------
(***************************************************************************)
(* Proofs about SourceGate, for any number of jobs, any budget, hour,      *)
(* retention and clock bound.                                              *)
(*                                                                         *)
(* The inductive invariant says who may be between spendRequest's read and *)
(* its write (Exclusion), that the rows are in the order of the clock      *)
(* (Ordered), what the read that let a job through still says when the     *)
(* row is written (ReadStillTrue), and that pruning never reaches a row of *)
(* the window (HorizonOld).                                                *)
(*                                                                         *)
(* About the block: how long it may last (BlockInv), who may shorten it    *)
(* (ShortenedByBudget), and that with one job nobody does (AloneInv).      *)
(***************************************************************************)
EXTENDS SourceGate, FiniteSetTheorems, SequenceTheorems, TLAPS

\* A job between the reservation and its release owns `running', alone.
Exclusion ==
    /\ OneHolder
    /\ \A j \in Job : pc[j] \in Holding => running

\* The rows are inserted in the order of the clock and none is in the future.
Ordered ==
    /\ \A i, k \in DOMAIN requests : i <= k => requests[i] <= requests[k]
    /\ \A i \in DOMAIN requests : requests[i] <= now

\* RecordRequest prunes only what no window of an hour can need.
HorizonOld == horizon > 0 => horizon + Hour <= now

\* The budget a job read stays true until the job writes its row.
ReadStillTrue ==
    \A j \in Job : pc[j] = "record" =>
        /\ at[j] <= now
        /\ \A i \in DOMAIN requests : requests[i] <= at[j]
        /\ \A i \in DOMAIN requests :
              i + Budget <= Len(requests) + 1 => requests[i] + Hour < at[j]

\* A request leaves after its row was written and before the next one's was.
SentInOrder ==
    /\ Len(sentAt) = Len(requests)
    /\ \A i \in DOMAIN sentAt : sentAt[i] # NotSent =>
          requests[i] <= sentAt[i] /\ sentAt[i] <= now
    /\ \A i, k \in DOMAIN sentAt :
          sentAt[i] # NotSent /\ i < k => sentAt[i] <= requests[k]
    /\ \A j \in Job : pc[j] = "record" =>
          \A i \in DOMAIN sentAt : sentAt[i] # NotSent => sentAt[i] <= at[j]
    /\ \A j \in Job : pc[j] = "send" => Len(requests) > 0

-----------------------------------------------------------------------------
(* Operators of the model                                                  *)

\* Appending keeps the elements and their places.
LEMMA AppendFacts ==
    ASSUME NEW S, NEW seq \in Seq(S), NEW e \in S
    PROVE  /\ Append(seq, e) \in Seq(S)
           /\ Len(Append(seq, e)) = Len(seq) + 1
           /\ DOMAIN seq = 1 .. Len(seq)
           /\ DOMAIN Append(seq, e) = 1 .. Len(seq) + 1
           /\ \A i \in DOMAIN seq : Append(seq, e)[i] = seq[i]
           /\ Append(seq, e)[Len(seq) + 1] = e
    OBVIOUS

\* RequestsSince over the last hour misses no row: pruning went only as far
\* back as HorizonOld says.
LEMMA WindowComplete ==
    ASSUME TypeOK, HorizonOld
    PROVE  RowsSince(now - Hour) = {i \in DOMAIN requests : requests[i] >= now - Hour}
    BY TimeAssumption DEF TypeOK, HorizonOld, RowsSince

\* When spendRequest finds budget left, the Budget-th row from the end, if
\* there is one, is out of the window: the rows after it are all inside, and
\* with it they would be Budget.
LEMMA BudgetLeft ==
    ASSUME TypeOK, Ordered, HorizonOld, ~BudgetSpent,
           NEW i \in DOMAIN requests, i + Budget <= Len(requests) + 1
    PROVE  requests[i] + Hour < now
<1> DEFINE W == RowsSince(now - Hour)
           D == 1 .. Len(requests)
           last == i .. i + Budget - 1
<1>0. /\ Budget \in Nat \ {0} /\ Hour \in Nat /\ now \in Nat
      /\ Len(requests) \in Nat /\ DOMAIN requests = D /\ i \in Nat
      /\ \A k \in D : requests[k] \in Nat
  BY BudgetAssumption, TimeAssumption DEF TypeOK
<1>1. SUFFICES ASSUME requests[i] >= now - Hour
               PROVE  FALSE
  BY <1>0
<1>2. W = {k \in D : requests[k] >= now - Hour}
  BY <1>0, WindowComplete
<1>3. last \subseteq W
  <2>1. last \subseteq D
    BY <1>0
  <2>2. \A k \in last : requests[i] <= requests[k]
    BY <1>0, <2>1 DEF Ordered
  <2>3. \A k \in last : requests[k] >= now - Hour
    BY <1>0, <1>1, <2>1, <2>2
  <2> QED BY <1>2, <2>1, <2>3
<1>4. IsFiniteSet(D)
  BY <1>0, FS_Interval
<1>5. IsFiniteSet(W) /\ W \in SUBSET D
  BY <1>2, <1>4, FS_Subset
<1>6. Cardinality(last) = Budget
  <2>1. i \in Int /\ i + Budget - 1 \in Int
    BY <1>0
  <2>2. Cardinality(last) = IF i > i + Budget - 1 THEN 0 ELSE (i + Budget - 1) - i + 1
    BY <2>1, FS_Interval
  <2> QED BY <1>0, <2>2
<1>7. Cardinality(last) <= Cardinality(W)
  BY <1>3, <1>5, FS_Subset
<1>8. Cardinality(W) \in Nat
  BY <1>5, FS_CardinalityType
<1>9. ~(Cardinality(W) >= Budget)
  BY DEF BudgetSpent
<1> QED BY <1>0, <1>6, <1>7, <1>8, <1>9

-----------------------------------------------------------------------------
(* The types                                                               *)

LEMMA TypeInit == Init => TypeOK
<1> SUFFICES ASSUME Init PROVE TypeOK
  OBVIOUS
<1>1. now \in 0 .. MaxTime /\ blockedUntil \in Nat /\ horizon \in Int
  BY TimeAssumption DEF Init
<1>4. blockedReason \in Reasons /\ running \in BOOLEAN
  BY DEF Init, Reasons
<1>5. at \in [Job -> Nat]
  BY DEF Init
<1>2. pc \in [Job -> PullStage \cup FetchStage]
      /\ (\A j \in Pulls : pc[j] \in PullStage) /\ (\A j \in Fetches : pc[j] \in FetchStage)
  BY DEF Init, Job, PullStage, FetchStage
<1>3. requests \in Seq(Nat) /\ sentAt \in Seq(Nat \cup {NotSent})
  BY DEF Init
<1> QED BY <1>1, <1>2, <1>3, <1>4, <1>5 DEF TypeOK

\* The control state, in every step.
LEMMA StageStep ==
    ASSUME TypeOK, Next
    PROVE  /\ pc' \in [Job -> PullStage \cup FetchStage]
           /\ \A j \in Pulls : pc'[j] \in PullStage
           /\ \A j \in Fetches : pc'[j] \in FetchStage
           /\ running' \in BOOLEAN
<1> USE JobAssumption DEF TypeOK, Job, PullStage, FetchStage, Release
<1>1. ASSUME NEW j \in Pulls, PullCheckBlock(j) \/ PullReserve(j) \/ PullRefused(j)
      PROVE  /\ pc' \in [Job -> PullStage \cup FetchStage]
             /\ \A k \in Pulls : pc'[k] \in PullStage
             /\ \A k \in Fetches : pc'[k] \in FetchStage
             /\ running' \in BOOLEAN
  BY <1>1 DEF PullCheckBlock, PullReserve, PullRefused, ReserveSource
<1>2. ASSUME NEW j \in Fetches, FetchReserve(j) \/ FetchCheckBlock(j)
      PROVE  /\ pc' \in [Job -> PullStage \cup FetchStage]
             /\ \A k \in Pulls : pc'[k] \in PullStage
             /\ \A k \in Fetches : pc'[k] \in FetchStage
             /\ running' \in BOOLEAN
  BY <1>2 DEF FetchReserve, FetchCheckBlock, ReserveSource
<1>3. ASSUME NEW j \in Job, Held(j)
      PROVE  /\ pc' \in [Job -> PullStage \cup FetchStage]
             /\ \A k \in Pulls : pc'[k] \in PullStage
             /\ \A k \in Fetches : pc'[k] \in FetchStage
             /\ running' \in BOOLEAN
  BY <1>3 DEF Held, PasswordGiven, Abort, SpendCheck, SpendRefused, RecordRequest, Send,
              ReceiveMore, ReceiveWait, ReceiveEnd
<1>4. CASE Tick BY <1>4 DEF Tick
<1>5. CASE Crash BY <1>5 DEF Crash
<1> QED BY <1>1, <1>2, <1>3, <1>4, <1>5 DEF Next

\* The other variables, action by action.
LEMMA TypeStep ==
    ASSUME TypeOK, [Next]_vars
    PROVE  TypeOK'
<1> DEFINE Data == /\ now \in 0 .. MaxTime
                   /\ at \in [Job -> Nat]
                   /\ requests \in Seq(Nat)
                   /\ horizon \in Int
                   /\ sentAt \in Seq(Nat \cup {NotSent})
                   /\ blockedUntil \in Nat
                   /\ blockedReason \in Reasons
<1>0. Data /\ now \in Nat
  BY TimeAssumption DEF TypeOK
<1>01. \A j \in Job : Release(j) => at' \in [Job -> Nat]
  BY <1>0 DEF Release
<1>1. ASSUME NEW j \in Pulls, PullCheckBlock(j) \/ PullReserve(j) \/ PullRefused(j)
      PROVE  Data'
  BY <1>0, <1>1 DEF PullCheckBlock, PullReserve, PullRefused, db
<1>2. ASSUME NEW j \in Fetches, FetchReserve(j) \/ FetchCheckBlock(j)
      PROVE  Data'
  <2>1. at' \in [Job -> Nat]
    BY <1>0, <1>01, <1>2 DEF FetchReserve, FetchCheckBlock, Job
  <2> QED BY <1>0, <1>2, <2>1 DEF FetchReserve, FetchCheckBlock, db
<1>3. ASSUME NEW j \in Job, Held(j)
      PROVE  Data'
  <2>1. CASE PasswordGiven(j) \/ ReceiveMore(j)
    BY <1>0, <2>1 DEF PasswordGiven, ReceiveMore, db
  <2>2. CASE Abort(j) \/ ReceiveEnd(j)
    BY <1>0, <1>01, <2>2 DEF Abort, ReceiveEnd, db
  <2>3. CASE SpendCheck(j)
    <3>1. at' \in [Job -> Nat]
      BY <1>0, <2>3 DEF SpendCheck
    <3> QED BY <1>0, <2>3, <3>1 DEF SpendCheck, db
  <2>4. CASE SpendRefused(j)
    <3>1. blockedUntil' \in Nat
      BY <1>0, <2>4, TimeAssumption DEF SpendRefused, SetBlockedUntil
    <3> QED BY <1>0, <2>4, <3>1 DEF SpendRefused, SetBlockedUntil, Release, Reasons
  <2>5. CASE RecordRequest(j)
    <3>1. at[j] \in Nat
      BY <1>0
    <3>2. requests' \in Seq(Nat) /\ sentAt' \in Seq(Nat \cup {NotSent})
      BY <1>0, <2>5, <3>1, AppendFacts DEF RecordRequest
    <3>3. horizon' \in Int
      BY <1>0, <2>5, <3>1, TimeAssumption DEF RecordRequest, PruneOld
    <3> QED BY <1>0, <2>5, <3>2, <3>3 DEF RecordRequest
  <2>6. CASE Send(j)
    <3>1. sentAt' \in Seq(Nat \cup {NotSent})
      <4>1. CASE Len(sentAt) \in 1 .. Len(sentAt)
        BY <1>0, <2>6, <4>1, ExceptSeq DEF Send
      <4>2. CASE Len(sentAt) \notin 1 .. Len(sentAt)
        <5>1. Len(sentAt) \notin DOMAIN sentAt
          BY <1>0, <4>2
        <5>2. sentAt' = sentAt
          BY <1>0, <2>6, <5>1 DEF Send
        <5> QED BY <1>0, <5>2
      <4> QED BY <4>1, <4>2
    <3> QED BY <1>0, <2>6, <3>1 DEF Send, db
  <2>7. CASE ReceiveWait(j)
    <3>1. blockedUntil' \in Nat
      BY <1>0, <2>7, TimeAssumption DEF ReceiveWait, SetBlockedUntil
    <3> QED BY <1>0, <2>7, <3>1 DEF ReceiveWait, SetBlockedUntil, Release, Reasons
  <2> QED BY <1>3, <2>1, <2>2, <2>3, <2>4, <2>5, <2>6, <2>7 DEF Held
<1>4. ASSUME Tick PROVE Data'
  BY <1>0, <1>4, TimeAssumption DEF Tick, db
<1>5. ASSUME Crash PROVE Data'
  <2>1. at' \in [Job -> Nat]
    BY <1>5 DEF Crash
  <2> QED BY <1>0, <1>5, <2>1 DEF Crash, db
<1>6. CASE UNCHANGED vars
  BY <1>6 DEF TypeOK, vars, db
<1> HIDE DEF Data
<1>7. CASE Next
  <2>1. Data'
    BY <1>1, <1>2, <1>3, <1>4, <1>5, <1>7 DEF Next
  <2> QED BY <1>7, <2>1, StageStep DEF TypeOK, Data
<1> QED BY <1>6, <1>7

\* Every variable keeps its type in every behaviour.
THEOREM TypeCorrect == Spec => []TypeOK
<1>1. Init => TypeOK
  BY TypeInit
<1>2. TypeOK /\ [Next]_vars => TypeOK'
  BY TypeStep
<1> QED BY <1>1, <1>2, PTL DEF Spec

-----------------------------------------------------------------------------
(* The reservation                                                         *)

\* A step leaves who holds the reservation alone, hands it to one job when
\* it was free, or takes it back.
LEMMA ExclusionStep ==
    ASSUME TypeOK, Exclusion, [Next]_vars
    PROVE  Exclusion'
<1> USE DEF Exclusion, OneHolder, Holding
<1>1. ASSUME NEW j \in Pulls, PullCheckBlock(j) \/ PullReserve(j) \/ PullRefused(j)
      PROVE  Exclusion'
  BY <1>1 DEF TypeOK, Job, PullCheckBlock, PullReserve, PullRefused, ReserveSource
<1>2. ASSUME NEW j \in Fetches, FetchReserve(j)
      PROVE  Exclusion'
  BY <1>2 DEF TypeOK, Job, FetchReserve, ReserveSource
<1>3. ASSUME NEW j \in Fetches, FetchCheckBlock(j)
      PROVE  Exclusion'
  BY <1>3 DEF TypeOK, Job, FetchCheckBlock, Release
<1>4. ASSUME NEW j \in Job, Held(j)
      PROVE  Exclusion'
  <2>1. CASE Release(j) /\ pc[j] \in Holding
    BY <2>1 DEF TypeOK, Release
  <2>2. CASE /\ pc[j] \in Holding /\ running' = running
             /\ \E s \in Holding : pc' = [pc EXCEPT ![j] = s]
    BY <2>2 DEF TypeOK
  <2> QED BY <1>4, <2>1, <2>2 DEF Held, PasswordGiven, Abort, SpendCheck, SpendRefused,
              RecordRequest, Send, ReceiveMore, ReceiveWait, ReceiveEnd
<1>5. CASE Tick
  BY <1>5 DEF Tick
<1>6. CASE Crash
  BY <1>6 DEF TypeOK, Crash
<1>7. CASE UNCHANGED vars
  BY <1>7 DEF vars
<1> QED BY <1>1, <1>2, <1>3, <1>4, <1>5, <1>6, <1>7 DEF Next

\* One job at a time holds the pair (ReserveSource and its release).
THEOREM ReservationExclusive == Spec => []OneHolder
<1>1. Init => TypeOK /\ Exclusion
  BY TypeInit DEF Init, Exclusion, OneHolder, Holding
<1>2. TypeOK /\ Exclusion /\ [Next]_vars => TypeOK' /\ Exclusion'
  BY TypeStep, ExclusionStep
<1>3. Exclusion => OneHolder
  BY DEF Exclusion
<1> QED BY <1>1, <1>2, <1>3, PTL DEF Spec

-----------------------------------------------------------------------------
(* What each part of the state owes to which action                        *)

\* The clock does not go back.
LEMMA ClockStep ==
    ASSUME TypeOK, [Next]_vars
    PROVE  now \in Nat /\ now' \in Nat /\ now <= now'
<1>1. now \in Nat
  BY TimeAssumption DEF TypeOK
<1> QED BY <1>1 DEF Next, vars, PullCheckBlock, PullReserve, PullRefused, FetchReserve,
           FetchCheckBlock, Held, PasswordGiven, Abort, SpendCheck, SpendRefused,
           RecordRequest, Send, ReceiveMore, ReceiveWait, ReceiveEnd, Tick, Crash

\* Only RecordRequest touches sync_requests; it and Send the history.
LEMMA RowsStep ==
    ASSUME [Next]_vars
    PROVE  \/ UNCHANGED <<requests, horizon, sentAt>>
           \/ \E j \in Job : Send(j)
           \/ \E j \in Job : RecordRequest(j)
    BY DEF Next, vars, db, PullCheckBlock, PullReserve, PullRefused, FetchReserve,
           FetchCheckBlock, Held, PasswordGiven, Abort, SpendCheck, SpendRefused,
           ReceiveMore, ReceiveWait, ReceiveEnd, Tick, Crash

\* A job comes to write a row only through spendRequest's read.
LEMMA RecordStageStep ==
    ASSUME TypeOK, [Next]_vars, NEW j \in Job, pc'[j] = "record"
    PROVE  \/ SpendCheck(j)
           \/ pc[j] = "record" /\ at'[j] = at[j]
<1> USE DEF TypeOK, Job
<1>1. ASSUME NEW k \in Pulls, PullCheckBlock(k) \/ PullReserve(k) \/ PullRefused(k)
      PROVE  pc[j] = "record" /\ at'[j] = at[j]
  BY <1>1 DEF PullCheckBlock, PullReserve, PullRefused
<1>2. ASSUME NEW k \in Fetches, FetchReserve(k) \/ FetchCheckBlock(k)
      PROVE  pc[j] = "record" /\ at'[j] = at[j]
  BY <1>2 DEF FetchReserve, FetchCheckBlock, Release
<1>3. ASSUME NEW k \in Job, Held(k), k # j
      PROVE  pc[j] = "record" /\ at'[j] = at[j]
  BY <1>3 DEF Held, PasswordGiven, Abort, SpendCheck, SpendRefused, RecordRequest, Send,
              ReceiveMore, ReceiveWait, ReceiveEnd, Release
<1>4. ASSUME Held(j)
      PROVE  SpendCheck(j)
  BY <1>4 DEF Held, PasswordGiven, Abort, SpendRefused, RecordRequest, Send,
              ReceiveMore, ReceiveWait, ReceiveEnd, Release
<1>5. ASSUME Tick \/ Crash \/ UNCHANGED vars
      PROVE  pc[j] = "record" /\ at'[j] = at[j]
  BY <1>5 DEF Tick, Crash, vars
<1> QED BY <1>1, <1>2, <1>3, <1>4, <1>5 DEF Next

\* A job comes to send only by writing its row.
LEMMA SendStageStep ==
    ASSUME TypeOK, [Next]_vars, NEW j \in Job, pc'[j] = "send"
    PROVE  pc[j] = "send" \/ RecordRequest(j)
<1> USE DEF TypeOK, Job
<1>1. ASSUME NEW k \in Pulls, PullCheckBlock(k) \/ PullReserve(k) \/ PullRefused(k)
      PROVE  pc[j] = "send"
  BY <1>1 DEF PullCheckBlock, PullReserve, PullRefused
<1>2. ASSUME NEW k \in Fetches, FetchReserve(k) \/ FetchCheckBlock(k)
      PROVE  pc[j] = "send"
  BY <1>2 DEF FetchReserve, FetchCheckBlock, Release
<1>3. ASSUME NEW k \in Job, Held(k), k # j
      PROVE  pc[j] = "send"
  BY <1>3 DEF Held, PasswordGiven, Abort, SpendCheck, SpendRefused, RecordRequest, Send,
              ReceiveMore, ReceiveWait, ReceiveEnd, Release
<1>4. ASSUME Held(j)
      PROVE  RecordRequest(j)
  BY <1>4 DEF Held, PasswordGiven, Abort, SpendCheck, SpendRefused, Send,
              ReceiveMore, ReceiveWait, ReceiveEnd, Release
<1>5. ASSUME Tick \/ Crash \/ UNCHANGED vars
      PROVE  pc[j] = "send"
  BY <1>5 DEF Tick, Crash, vars
<1> QED BY <1>1, <1>2, <1>3, <1>4, <1>5 DEF Next

-----------------------------------------------------------------------------
(* The budget                                                              *)

BudgetInv == TypeOK /\ Exclusion /\ Ordered /\ HorizonOld /\ ReadStillTrue /\ BudgetRespected

\* What RecordRequest does to the rows.
LEMMA RecordedRow ==
    ASSUME TypeOK, NEW j \in Job, RecordRequest(j)
    PROVE  /\ Len(requests') = Len(requests) + 1
           /\ Len(requests) \in Nat
           /\ DOMAIN requests = 1 .. Len(requests)
           /\ DOMAIN requests' = 1 .. Len(requests) + 1
           /\ \A i \in DOMAIN requests : requests'[i] = requests[i] /\ requests[i] \in Nat
           /\ requests'[Len(requests) + 1] = at[j]
           /\ at[j] \in Nat
<1>1. at[j] \in Nat /\ requests \in Seq(Nat) /\ requests' = Append(requests, at[j])
  BY DEF TypeOK, RecordRequest
<1> QED BY <1>1, AppendFacts

\* The order of the rows and the age of the pruned ones.
LEMMA OrderedStep ==
    ASSUME BudgetInv, [Next]_vars
    PROVE  Ordered' /\ HorizonOld'
<1>0. now \in Nat /\ now' \in Nat /\ now <= now'
  BY ClockStep DEF BudgetInv
<1>1. CASE UNCHANGED <<requests, horizon>>
  <2>1. \A i \in DOMAIN requests : requests[i] \in Nat
    BY DEF BudgetInv, TypeOK
  <2>2. Ordered'
    <3>1. \A i, k \in DOMAIN requests' : i <= k => requests'[i] <= requests'[k]
      BY <1>1 DEF BudgetInv, Ordered
    <3>2. \A i \in DOMAIN requests : requests[i] <= now'
      BY <1>0, <2>1 DEF BudgetInv, Ordered
    <3> QED BY <1>1, <3>1, <3>2 DEF Ordered
  <2>3. HorizonOld'
    <3>1. horizon \in Int /\ Hour \in Nat
      BY TimeAssumption DEF BudgetInv, TypeOK
    <3>2. horizon > 0 => horizon + Hour <= now'
      BY <1>0, <3>1 DEF BudgetInv, HorizonOld
    <3> QED BY <1>1, <3>2 DEF HorizonOld
  <2> QED BY <2>2, <2>3
<1>2. ASSUME NEW j \in Job, RecordRequest(j)
      PROVE  Ordered' /\ HorizonOld'
  <2>1. /\ at[j] <= now
        /\ \A i \in DOMAIN requests : requests[i] <= at[j]
    BY <1>2 DEF BudgetInv, ReadStillTrue, RecordRequest
  <2>2. Ordered'
    <3>1. \A i, k \in DOMAIN requests' : i <= k => requests'[i] <= requests'[k]
      BY <1>2, <2>1, RecordedRow DEF BudgetInv, Ordered
    <3>2. \A i \in DOMAIN requests' : requests'[i] <= now'
      BY <1>0, <1>2, <2>1, RecordedRow DEF BudgetInv, Ordered
    <3> QED BY <3>1, <3>2 DEF Ordered
  <2>3. HorizonOld'
    BY <1>0, <1>2, <2>1, RecordedRow, TimeAssumption
    DEF BudgetInv, HorizonOld, RecordRequest, PruneOld, TypeOK
  <2> QED BY <2>2, <2>3
<1>3. ASSUME NEW j \in Job, Send(j)
      PROVE  UNCHANGED <<requests, horizon>>
  BY <1>3 DEF Send, db
<1> QED BY <1>1, <1>2, <1>3, RowsStep

\* Nobody writes a row between a job's read of the budget and its own row.
LEMMA ReadStillTrueStep ==
    ASSUME BudgetInv, [Next]_vars
    PROVE  ReadStillTrue'
<1> SUFFICES ASSUME NEW j \in Job, pc'[j] = "record"
             PROVE  /\ at'[j] <= now'
                    /\ \A i \in DOMAIN requests' : requests'[i] <= at'[j]
                    /\ \A i \in DOMAIN requests' :
                          i + Budget <= Len(requests') + 1 => requests'[i] + Hour < at'[j]
  BY DEF ReadStillTrue
<1>0. now \in Nat /\ now' \in Nat /\ now <= now'
  BY ClockStep DEF BudgetInv
<1>1. CASE SpendCheck(j)
  <2>1. at'[j] = now /\ requests' = requests /\ now' = now /\ ~BudgetSpent
    BY <1>1 DEF SpendCheck, db, BudgetInv, TypeOK
  <2>2. \A i \in DOMAIN requests : i + Budget <= Len(requests) + 1 => requests[i] + Hour < now
    BY <2>1, BudgetLeft DEF BudgetInv
  <2> QED BY <1>0, <2>1, <2>2 DEF BudgetInv, Ordered
<1>2. CASE pc[j] = "record" /\ at'[j] = at[j]
  <2>1. requests' = requests
    <3>1. ASSUME NEW k \in Job, RecordRequest(k)
          PROVE  FALSE
      <4>1. k = j
        BY <1>2, <3>1 DEF BudgetInv, Exclusion, OneHolder, Holding, RecordRequest
      <4>2. pc'[j] = "send"
        BY <3>1, <4>1 DEF RecordRequest, BudgetInv, TypeOK
      <4> QED BY <4>2
    <3>2. ASSUME NEW k \in Job, Send(k)
          PROVE  requests' = requests
      BY <3>2 DEF Send, db
    <3> QED BY <3>1, <3>2, RowsStep
  <2>2. at[j] \in Nat
    BY DEF BudgetInv, TypeOK
  <2> QED BY <1>0, <1>2, <2>1, <2>2 DEF BudgetInv, ReadStillTrue
<1> QED BY <1>1, <1>2, RecordStageStep DEF BudgetInv

\* A new row is more than an hour after the Budget-th row before it.
LEMMA BudgetRespectedStep ==
    ASSUME BudgetInv, [Next]_vars
    PROVE  BudgetRespected'
<1>1. ASSUME NEW j \in Job, RecordRequest(j)
      PROVE  BudgetRespected'
  <2> SUFFICES ASSUME NEW i \in DOMAIN requests', NEW k \in DOMAIN requests', i + Budget <= k
               PROVE  requests'[k] > requests'[i] + Hour
    BY DEF BudgetRespected
  <2>0. Budget \in Nat \ {0} /\ Hour \in Nat
    BY BudgetAssumption, TimeAssumption
  <2>1. i \in DOMAIN requests
    BY <1>1, <2>0, RecordedRow DEF BudgetInv
  <2>2. CASE k \in DOMAIN requests
    BY <1>1, <2>1, <2>2, RecordedRow DEF BudgetInv, BudgetRespected
  <2>3. CASE k = Len(requests) + 1
    <3>1. requests[i] + Hour < at[j]
      BY <1>1, <2>1, <2>3 DEF BudgetInv, ReadStillTrue, RecordRequest
    <3> QED BY <1>1, <2>0, <2>1, <2>3, <3>1, RecordedRow DEF BudgetInv
  <2> QED BY <1>1, <2>2, <2>3, RecordedRow DEF BudgetInv
<1>2. CASE requests' = requests
  BY <1>2 DEF BudgetInv, BudgetRespected
<1>3. ASSUME NEW j \in Job, Send(j)
      PROVE  requests' = requests
  BY <1>3 DEF Send, db
<1> QED BY <1>1, <1>2, <1>3, RowsStep

\* The rolling budget holds for any budget, hour and number of jobs: between
\* a recorded request and the Budget-th after it more than an hour passes.
THEOREM RollingBudget == Spec => []BudgetRespected
<1>1. Init => BudgetInv
  BY TypeInit DEF Init, BudgetInv, Exclusion, OneHolder, Holding, Ordered, HorizonOld,
                  ReadStillTrue, BudgetRespected
<1>2. BudgetInv /\ [Next]_vars => BudgetInv'
  BY TypeStep, ExclusionStep, OrderedStep, ReadStillTrueStep, BudgetRespectedStep
  DEF BudgetInv
<1>3. BudgetInv => BudgetRespected
  BY DEF BudgetInv
<1> QED BY <1>1, <1>2, <1>3, PTL DEF Spec

-----------------------------------------------------------------------------
(* What the tax authority sees                                             *)

\* What Send does to the history.
LEMMA SentRequest ==
    ASSUME BudgetInv, SentInOrder, NEW j \in Job, Send(j)
    PROVE  /\ Len(sentAt') = Len(sentAt)
           /\ Len(sentAt) \in Nat \ {0}
           /\ DOMAIN sentAt' = DOMAIN sentAt
           /\ DOMAIN sentAt = 1 .. Len(sentAt)
           /\ sentAt'[Len(sentAt)] = now
           /\ \A i \in DOMAIN sentAt : i # Len(sentAt) => sentAt'[i] = sentAt[i]
<1>1. sentAt \in Seq(Nat \cup {NotSent}) /\ now \in Nat
  BY TimeAssumption DEF BudgetInv, TypeOK
<1>2. Len(sentAt) \in 1 .. Len(sentAt)
  BY <1>1 DEF BudgetInv, TypeOK, SentInOrder, Send
<1> QED BY <1>1, <1>2, ExceptSeq DEF Send

\* The history in every step.
LEMMA SentInOrderStep ==
    ASSUME BudgetInv, SentInOrder, [Next]_vars
    PROVE  SentInOrder'
<1>0. /\ now \in Nat /\ now' \in Nat /\ now <= now' /\ NotSent = -1
      /\ Len(sentAt) \in Nat /\ DOMAIN sentAt = 1 .. Len(sentAt)
      /\ Len(requests) = Len(sentAt) /\ DOMAIN requests = DOMAIN sentAt
      /\ \A i \in DOMAIN requests : requests[i] \in Nat /\ requests[i] <= now
      /\ \A i \in DOMAIN sentAt : sentAt[i] \in Nat \cup {NotSent}
  BY ClockStep DEF BudgetInv, TypeOK, SentInOrder, Ordered, NotSent
<1> DEFINE Rows == /\ Len(sentAt) = Len(requests)
                   /\ \A i \in DOMAIN sentAt : sentAt[i] # NotSent =>
                         requests[i] <= sentAt[i] /\ sentAt[i] <= now
                   /\ \A i, k \in DOMAIN sentAt :
                         sentAt[i] # NotSent /\ i < k => sentAt[i] <= requests[k]
<1>1. Rows'
  <2>1. CASE UNCHANGED <<requests, sentAt>>
    <3>1. \A i \in DOMAIN sentAt : sentAt[i] # NotSent =>
              requests[i] <= sentAt[i] /\ sentAt[i] <= now'
      BY <1>0 DEF SentInOrder
    <3>2. \A i, k \in DOMAIN sentAt :
              sentAt[i] # NotSent /\ i < k => sentAt[i] <= requests[k]
      BY DEF SentInOrder
    <3> QED BY <1>0, <2>1, <3>1, <3>2
  <2>2. ASSUME NEW j \in Job, Send(j)
        PROVE  Rows'
    <3>1. requests' = requests /\ now' = now
      BY <2>2 DEF Send, db
    <3>2. \A i \in DOMAIN sentAt : sentAt'[i] # NotSent =>
              requests[i] <= sentAt'[i] /\ sentAt'[i] <= now
      BY <1>0, <2>2, SentRequest DEF SentInOrder
    <3>3. \A i, k \in DOMAIN sentAt :
              sentAt'[i] # NotSent /\ i < k => sentAt'[i] <= requests[k]
      BY <1>0, <2>2, SentRequest DEF SentInOrder
    <3> QED BY <1>0, <2>2, <3>1, <3>2, <3>3, SentRequest
  <2>3. ASSUME NEW j \in Job, RecordRequest(j)
        PROVE  Rows'
    <3> DEFINE n == Len(sentAt)
    <3>1. now' = now /\ sentAt' = Append(sentAt, NotSent) /\ sentAt \in Seq(Nat \cup {NotSent})
      BY <2>3 DEF RecordRequest, BudgetInv, TypeOK
    <3>2. /\ Len(sentAt') = n + 1 /\ DOMAIN sentAt' = 1 .. n + 1
          /\ (\A i \in DOMAIN sentAt : sentAt'[i] = sentAt[i]) /\ sentAt'[n + 1] = NotSent
      BY <3>1, AppendFacts
    <3>3. /\ Len(requests') = n + 1 /\ (\A i \in DOMAIN sentAt : requests'[i] = requests[i])
          /\ requests'[n + 1] = at[j]
      BY <1>0, <2>3, RecordedRow DEF BudgetInv
    <3>4. \A i \in DOMAIN sentAt : sentAt[i] # NotSent => sentAt[i] <= at[j]
      BY <2>3 DEF SentInOrder, RecordRequest
    <3>5. \A i \in DOMAIN sentAt' : sentAt'[i] # NotSent =>
              requests'[i] <= sentAt'[i] /\ sentAt'[i] <= now
      BY <1>0, <3>2, <3>3 DEF SentInOrder
    <3>6. \A i, k \in DOMAIN sentAt' :
              sentAt'[i] # NotSent /\ i < k => sentAt'[i] <= requests'[k]
      <4> SUFFICES ASSUME NEW i \in 1 .. n + 1, NEW k \in 1 .. n + 1, sentAt'[i] # NotSent, i < k
                   PROVE  sentAt'[i] <= requests'[k]
        BY <3>2
      <4>1. i \in DOMAIN sentAt
        BY <1>0
      <4>2. CASE k = n + 1
        BY <3>2, <3>3, <3>4, <4>1, <4>2
      <4>3. CASE k \in DOMAIN sentAt
        BY <3>2, <3>3, <4>1, <4>3 DEF SentInOrder
      <4> QED BY <1>0, <4>2, <4>3
    <3> QED BY <3>1, <3>2, <3>3, <3>5, <3>6
  <2> QED BY <2>1, <2>2, <2>3, RowsStep
<1>2. ASSUME NEW j \in Job, pc'[j] = "record", NEW i \in DOMAIN sentAt', sentAt'[i] # NotSent
      PROVE  sentAt'[i] <= at'[j]
  <2>1. CASE SpendCheck(j)
    BY <1>0, <1>2, <2>1 DEF SpendCheck, BudgetInv, TypeOK, SentInOrder
  <2>2. CASE pc[j] = "record" /\ at'[j] = at[j]
    <3>1. ASSUME NEW k \in Job, RecordRequest(k) \/ Send(k)
          PROVE  FALSE
      <4>1. k = j
        BY <2>2, <3>1 DEF BudgetInv, Exclusion, OneHolder, Holding, RecordRequest, Send
      <4>2. pc'[j] # "record"
        BY <3>1, <4>1 DEF RecordRequest, Send, BudgetInv, TypeOK
      <4> QED BY <1>2, <4>2
    <3>2. sentAt' = sentAt
      BY <3>1, RowsStep
    <3> QED BY <1>2, <2>2, <3>2 DEF SentInOrder
  <2> QED BY <1>2, <2>1, <2>2, RecordStageStep DEF BudgetInv
<1>3. ASSUME NEW j \in Job, pc'[j] = "send"
      PROVE  Len(requests') > 0
  <2>1. CASE pc[j] = "send"
    <3>1. Len(requests) > 0
      BY <2>1 DEF SentInOrder
    <3>2. ASSUME NEW k \in Job, RecordRequest(k)
          PROVE  Len(requests') = Len(requests) + 1
      BY <3>2, RecordedRow DEF BudgetInv
    <3>3. ASSUME NEW k \in Job, Send(k)
          PROVE  requests' = requests
      BY <3>3 DEF Send, db
    <3> QED BY <1>0, <3>1, <3>2, <3>3, RowsStep
  <2>2. CASE RecordRequest(j)
    BY <1>0, <2>2, RecordedRow DEF BudgetInv
  <2> QED BY <1>3, <2>1, <2>2, SendStageStep DEF BudgetInv
<1> QED BY <1>1, <1>2, <1>3 DEF SentInOrder

\* A request that leaves late still leaves after the row that follows it in
\* the budget was due, so at most one request more than Budget is seen in an
\* hour.
LEMMA SendRateFromBudget ==
    ASSUME BudgetInv, SentInOrder
    PROVE  SendRate
<1> SUFFICES ASSUME NEW i \in DOMAIN sentAt, NEW k \in DOMAIN sentAt, i + Budget + 1 <= k,
                    sentAt[i] # NotSent, sentAt[k] # NotSent
             PROVE  sentAt[k] > sentAt[i] + Hour
  BY DEF SendRate
<1>1. /\ Budget \in Nat \ {0} /\ Hour \in Nat /\ Len(sentAt) \in Nat
      /\ DOMAIN sentAt = 1 .. Len(sentAt) /\ DOMAIN requests = DOMAIN sentAt
      /\ sentAt[i] \in Nat /\ sentAt[k] \in Nat
  BY BudgetAssumption, TimeAssumption DEF BudgetInv, TypeOK, SentInOrder
<1>2. i + 1 \in DOMAIN sentAt /\ requests[i + 1] \in Nat /\ requests[k] \in Nat
  <2>1. i + 1 \in 1 .. Len(sentAt)
    BY <1>1
  <2>2. requests \in Seq(Nat)
    BY DEF BudgetInv, TypeOK
  <2>3. \A m \in DOMAIN requests : requests[m] \in Nat
    BY <2>2
  <2>4. i + 1 \in DOMAIN sentAt
    BY <1>1, <2>1
  <2> QED BY <1>1, <2>3, <2>4
<1>3. sentAt[i] <= requests[i + 1]
  BY <1>1, <1>2 DEF SentInOrder
<1>4. requests[k] > requests[i + 1] + Hour
  BY <1>1, <1>2 DEF BudgetInv, BudgetRespected
<1>5. requests[k] <= sentAt[k]
  BY DEF SentInOrder
<1>6. sentAt[k] \in Nat /\ sentAt[i] \in Nat /\ Hour \in Nat
  BY <1>1
<1>7. requests[i + 1] \in Nat /\ requests[k] \in Nat
  BY <1>2
<1> QED BY ONLY <1>3, <1>4, <1>5, <1>6, <1>7

\* Budget + 2 requests never leave within an hour.
THEOREM RateSeenOutside == Spec => []SendRate
<1>1. Init => BudgetInv /\ SentInOrder
  BY TypeInit DEF Init, BudgetInv, Exclusion, OneHolder, Holding, Ordered, HorizonOld,
                  ReadStillTrue, BudgetRespected, SentInOrder
<1>2. BudgetInv /\ SentInOrder /\ [Next]_vars => BudgetInv' /\ SentInOrder'
  BY TypeStep, ExclusionStep, OrderedStep, ReadStillTrueStep, BudgetRespectedStep,
     SentInOrderStep DEF BudgetInv
<1>3. BudgetInv /\ SentInOrder => SendRate
  BY SendRateFromBudget
<1> QED BY <1>1, <1>2, <1>3, PTL DEF Spec

-----------------------------------------------------------------------------
(* The block                                                               *)

\* Only the holder of the reservation sets a block, and lets go in the same
\* step.
LEMMA BlockStep ==
    ASSUME [Next]_vars
    PROVE  \/ UNCHANGED <<blockedUntil, blockedReason>>
           \/ \E j \in Job : pc[j] \in Holding /\ Release(j)
    BY DEF Next, vars, db, Holding, PullCheckBlock, PullReserve, PullRefused, FetchReserve,
           FetchCheckBlock, Held, PasswordGiven, Abort, SpendCheck, SpendRefused,
           RecordRequest, Send, ReceiveMore, ReceiveWait, ReceiveEnd, Tick, Crash

\* A fetch past its check got there by the check or was there before.
LEMMA FetchStageStep ==
    ASSUME TypeOK, [Next]_vars, NEW f \in Fetches, pc'[f] \in Holding \ {"reserved"}
    PROVE  /\ pc[f] \in Holding
           /\ \/ pc[f] # "reserved"
              \/ /\ ~BlockedFor({"consumo_indevido", "rate_budget"})
                 /\ UNCHANGED <<now, blockedUntil, blockedReason>>
<1> USE JobAssumption DEF TypeOK, Job, Holding
<1>1. ASSUME NEW k \in Pulls, PullCheckBlock(k) \/ PullReserve(k) \/ PullRefused(k)
      PROVE  pc'[f] = pc[f]
  BY <1>1 DEF PullCheckBlock, PullReserve, PullRefused
<1>2. ASSUME NEW k \in Fetches, FetchReserve(k)
      PROVE  pc'[f] = pc[f]
  BY <1>2 DEF FetchReserve
<1>3. ASSUME NEW k \in Fetches, FetchCheckBlock(k), k # f
      PROVE  pc'[f] = pc[f]
  BY <1>3 DEF FetchCheckBlock, Release
<1>4. ASSUME FetchCheckBlock(f)
      PROVE  /\ pc[f] = "reserved"
             /\ ~BlockedFor({"consumo_indevido", "rate_budget"})
             /\ UNCHANGED <<now, blockedUntil, blockedReason>>
  BY <1>4 DEF FetchCheckBlock, Release, db
<1>5. ASSUME NEW k \in Job, Held(k), k # f
      PROVE  pc'[f] = pc[f]
  BY <1>5 DEF Held, PasswordGiven, Abort, SpendCheck, SpendRefused, RecordRequest, Send,
              ReceiveMore, ReceiveWait, ReceiveEnd, Release
<1>6. ASSUME Held(f)
      PROVE  pc[f] \in Holding \ {"reserved"}
  BY <1>6 DEF Held, PasswordGiven, Abort, SpendCheck, SpendRefused, RecordRequest, Send,
              ReceiveMore, ReceiveWait, ReceiveEnd
<1>7. ASSUME Tick \/ Crash \/ UNCHANGED vars
      PROVE  pc'[f] = pc[f]
  BY <1>7 DEF Tick, Crash, vars
<1> QED BY <1>1, <1>2, <1>3, <1>4, <1>5, <1>6, <1>7 DEF Next

\* Nobody but the fetch itself could set a block under it, and time only
\* ends blocks.
LEMMA FetchHonoursBlockStep ==
    ASSUME TypeOK, Exclusion, FetchHonoursBlock, [Next]_vars
    PROVE  FetchHonoursBlock'
<1> DEFINE R == {"consumo_indevido", "rate_budget"}
<1> SUFFICES ASSUME NEW f \in Fetches, pc'[f] \in Holding \ {"reserved"}
             PROVE  (now >= blockedUntil \/ blockedReason \notin R)'
  BY DEF FetchHonoursBlock, Holding
<1>1. pc[f] \in Holding /\ f \in Job
  BY FetchStageStep DEF Job
<1>2. UNCHANGED <<blockedUntil, blockedReason>>
  <2>1. ASSUME NEW j \in Job, pc[j] \in Holding, Release(j)
        PROVE  FALSE
    <3>1. j = f
      BY <1>1, <2>1 DEF Exclusion, OneHolder
    <3>2. pc'[f] = "idle"
      BY <1>1, <2>1, <3>1 DEF Release, TypeOK
    <3> QED BY <3>2 DEF Holding
  <2> QED BY <2>1, BlockStep
<1>3. now \in Nat /\ now' \in Nat /\ now <= now' /\ blockedUntil \in Nat
  BY ClockStep DEF TypeOK
<1>4. now >= blockedUntil \/ blockedReason \notin R
  BY <1>1, <1>3, FetchStageStep DEF FetchHonoursBlock, Holding, BlockedFor
<1> QED BY <1>2, <1>3, <1>4

\* FetchByChave never has a request on its way against a consumo_indevido or
\* rate_budget block in force (app/nfe_fetch.go reserves, then checks).
THEOREM FetchRespectsBlock == Spec => []FetchHonoursBlock
<1>1. Init => TypeOK /\ Exclusion /\ FetchHonoursBlock
  BY TypeInit DEF Init, Exclusion, OneHolder, Holding, FetchHonoursBlock, Job
<1>2. TypeOK /\ Exclusion /\ FetchHonoursBlock /\ [Next]_vars
        => TypeOK' /\ Exclusion' /\ FetchHonoursBlock'
  BY TypeStep, ExclusionStep, FetchHonoursBlockStep
<1> QED BY <1>1, <1>2, PTL DEF Spec

-----------------------------------------------------------------------------
(* How long a block lasts, and who shortens one.  Two findings are that a  *)
(* pull may query against a block and that a block in force may be         *)
(* replaced by one that ends earlier; these say how far that goes.         *)

\* No block ends more than an hour from now.
WaitBounded == blockedUntil <= now + Hour

\* blocked_reason is NULL with blocked_until.
NullTogether == blockedReason = "none" => blockedUntil = 0

\* A block in force, of any reason, is never replaced by one that ends earlier.
BlockNeverShortened ==
    [][now < blockedUntil => blockedUntil' >= blockedUntil]_vars

\* A block in force is shortened by the budget alone, and only when it is the
\* wait after caught_up, which a fetch may ignore, or by a pull that went past
\* its check before the block was set.
ShortenedByBudget ==
    [][now < blockedUntil /\ blockedUntil' < blockedUntil =>
          /\ blockedReason' = "rate_budget"
          /\ blockedReason = "caught_up" \/ \E p \in Pulls : pc[p] = "budget"]_vars

\* What job j writes when it finds the budget spent, and when it is told to wait.
BudgetBlock(j) ==
    /\ pc[j] = "budget"
    /\ blockedReason' = "rate_budget"
    /\ \E i \in DOMAIN requests : blockedUntil' = requests[i] + Hour
WaitBlock(j) ==
    /\ pc[j] = "receive"
    /\ blockedUntil' = now + Hour
    /\ \/ blockedReason' = "caught_up" /\ j \in Pulls
       \/ blockedReason' = "consumo_indevido"

\* The two writers of the block.
LEMMA BlockWriters ==
    ASSUME TypeOK, [Next]_vars
    PROVE  \/ UNCHANGED <<blockedUntil, blockedReason>>
           \/ now' = now /\ \E j \in Job : BudgetBlock(j) \/ WaitBlock(j)
<1>1. ASSUME NEW j \in Job, SpendRefused(j)
      PROVE  now' = now /\ BudgetBlock(j)
  <2>1. PICK until \in 0 .. now + Hour :
           IsRateUntil(until) /\ SetBlockedUntil(until, "rate_budget")
    BY <1>1 DEF SpendRefused
  <2>2. PICK i \in RowsSince(now - Hour) : until = requests[i] + Hour
    BY <2>1 DEF IsRateUntil
  <2> QED BY <1>1, <2>1, <2>2 DEF SpendRefused, BudgetBlock, SetBlockedUntil, RowsSince
<1>2. ASSUME NEW j \in Job, ReceiveWait(j)
      PROVE  now' = now /\ WaitBlock(j)
  BY <1>2 DEF ReceiveWait, WaitBlock, SetBlockedUntil
<1>3. ASSUME NEW j \in Job, Held(j), ~SpendRefused(j), ~ReceiveWait(j)
      PROVE  UNCHANGED <<blockedUntil, blockedReason>>
  BY <1>3 DEF Held, db, PasswordGiven, Abort, SpendCheck, RecordRequest, Send, ReceiveMore,
              ReceiveEnd
<1>4. ASSUME ~\E j \in Job : Held(j)
      PROVE  UNCHANGED <<blockedUntil, blockedReason>>
  BY <1>4 DEF Next, vars, db, PullCheckBlock, PullReserve, PullRefused, FetchReserve,
              FetchCheckBlock, Tick, Crash
<1> QED BY <1>1, <1>2, <1>3, <1>4

LEMMA LaterEnds ==
    ASSUME NEW a \in Nat, NEW b \in Nat, a <= b, NEW h \in Nat, NEW u \in Nat, u <= a + h
    PROVE  u <= b + h
    OBVIOUS

\* Each block is written as an hour after the clock or after a row, and no
\* row is in the future.
LEMMA WaitBoundedStep ==
    ASSUME BudgetInv, WaitBounded, [Next]_vars
    PROVE  WaitBounded'
<1>1. now \in Nat /\ now' \in Nat /\ now <= now' /\ Hour \in Nat /\ blockedUntil \in Nat
  BY ClockStep, TimeAssumption DEF BudgetInv, TypeOK
<1>2. \A i \in DOMAIN requests : requests[i] \in Nat /\ requests[i] <= now
  BY DEF BudgetInv, TypeOK, Ordered
<1>3. CASE UNCHANGED <<blockedUntil, blockedReason>>
  <2>1. blockedUntil' = blockedUntil
    BY <1>3
  <2>2. blockedUntil <= now + Hour
    BY DEF WaitBounded
  <2>3. blockedUntil <= now' + Hour
    BY <1>1, <2>2, LaterEnds
  <2> QED BY <2>1, <2>3 DEF WaitBounded
<1>4. ASSUME now' = now, NEW j \in Job, BudgetBlock(j) \/ WaitBlock(j)
      PROVE  WaitBounded'
  <2>1. CASE BudgetBlock(j)
    <3>1. PICK i \in DOMAIN requests : blockedUntil' = requests[i] + Hour
      BY <2>1 DEF BudgetBlock
    <3>2. requests[i] + Hour <= now + Hour
      BY <1>1, <1>2, <3>1
    <3> QED BY <1>4, <3>1, <3>2 DEF WaitBounded
  <2>2. CASE WaitBlock(j)
    BY <1>1, <1>4, <2>2 DEF WaitBounded, WaitBlock
  <2> QED BY <1>4, <2>1, <2>2
<1> QED BY <1>3, <1>4, BlockWriters DEF BudgetInv

LEMMA NullTogetherStep ==
    ASSUME TypeOK, NullTogether, [Next]_vars
    PROVE  NullTogether'
    BY BlockWriters DEF NullTogether, BudgetBlock, WaitBlock

BlockInv == FetchHonoursBlock /\ WaitBounded /\ NullTogether

LEMMA GateInvAlways == Spec => [](BudgetInv /\ BlockInv)
<1>1. Init => BudgetInv /\ BlockInv
  BY TypeInit, TimeAssumption
  DEF Init, BudgetInv, Exclusion, OneHolder, Holding, Ordered, HorizonOld, ReadStillTrue,
      BudgetRespected, FetchHonoursBlock, WaitBounded, NullTogether, BlockInv, Job
<1>2. BudgetInv /\ BlockInv /\ [Next]_vars
        => BudgetInv' /\ BlockInv'
  BY TypeStep, ExclusionStep, OrderedStep, ReadStillTrueStep, BudgetRespectedStep,
     FetchHonoursBlockStep, WaitBoundedStep, NullTogetherStep DEF BudgetInv, BlockInv
<1> QED BY <1>1, <1>2, PTL DEF Spec

\* Whatever was recorded, in whatever order, a source is queried again within
\* an hour (distWaitAfterStop, blockBudget).
THEOREM WaitsBounded == Spec => []WaitBounded
<1>1. BlockInv => WaitBounded
  BY DEF BlockInv
<1> QED BY <1>1, GateInvAlways, PTL

\* distWaitAfterStop never shortens a block, nor does a fetch one set for
\* consumo_indevido or for the budget.
THEOREM BudgetShortens == Spec => ShortenedByBudget
<1>1. ASSUME BudgetInv, BlockInv, [Next]_vars,
             now < blockedUntil, blockedUntil' < blockedUntil
      PROVE  /\ blockedReason' = "rate_budget"
             /\ blockedReason = "caught_up" \/ \E p \in Pulls : pc[p] = "budget"
  <2>0. now \in Nat /\ Hour \in Nat /\ blockedUntil \in Nat /\ blockedReason \in Reasons
    BY <1>1, ClockStep, TimeAssumption DEF BudgetInv, TypeOK
  <2>1. PICK j \in Job : BudgetBlock(j) \/ WaitBlock(j)
    BY <1>1, <2>0, BlockWriters DEF BudgetInv
  <2>2. ~WaitBlock(j)
    BY <1>1, <2>0 DEF WaitBlock, WaitBounded, BlockInv
  <2>3. BudgetBlock(j)
    BY <2>1, <2>2
  <2>4. ASSUME j \in Fetches
        PROVE  blockedReason = "caught_up"
    <3>1. blockedReason \notin {"consumo_indevido", "rate_budget"}
      BY <1>1, <2>0, <2>3, <2>4 DEF BlockInv, FetchHonoursBlock, BudgetBlock
    <3>2. blockedReason # "none"
      BY <1>1, <2>0 DEF BlockInv, NullTogether
    <3> QED BY <2>0, <3>1, <3>2 DEF Reasons
  <2> QED BY <2>3, <2>4 DEF BudgetBlock, Job
<1>2. BudgetInv /\ BlockInv /\ [Next]_vars
        => [now < blockedUntil /\ blockedUntil' < blockedUntil =>
              /\ blockedReason' = "rate_budget"
              /\ blockedReason = "caught_up" \/ \E p \in Pulls : pc[p] = "budget"]_vars
  BY <1>1
<1> QED BY <1>2, GateInvAlways, PTL DEF Spec, ShortenedByBudget

-----------------------------------------------------------------------------
(* A job alone, which pulls or fetches again and again: the findings need  *)
(* a second pull, or a fetch next to the pull.                             *)

\* The stages in which a job has checked the block.
Checked == {"unblocked"} \cup (Holding \ {"reserved"})

\* A fetch that has no pull beside it never meets the wait after caught_up.
AloneInv ==
    /\ TypeOK
    /\ NullTogether
    /\ \A j \in Job : pc[j] \in Checked => now >= blockedUntil
    /\ Fetches # {} => blockedReason # "caught_up"

LEMMA AloneStep ==
    ASSUME \A j, k \in Job : j = k, AloneInv, [Next]_vars
    PROVE  AloneInv'
<1>0. /\ TypeOK' /\ NullTogether' /\ TypeOK
      /\ now \in Nat /\ now' \in Nat /\ now <= now' /\ blockedUntil \in Nat
      /\ blockedReason \in Reasons
  BY TypeStep, NullTogetherStep, ClockStep DEF AloneInv, TypeOK
<1>1. (Fetches # {} => blockedReason # "caught_up")'
  BY <1>0, BlockWriters, JobAssumption DEF AloneInv, BudgetBlock, WaitBlock, Job
<1>2. ASSUME NEW j \in Job, pc'[j] \in Checked
      PROVE  now' >= blockedUntil'
  <2> USE DEF Checked, Holding
  <2>1. ASSUME pc[j] \in Checked, UNCHANGED <<blockedUntil, blockedReason>>
        PROVE  now' >= blockedUntil'
    BY <1>0, <2>1 DEF AloneInv
  <2>2. ASSUME pc[j] \notin Checked
        PROVE  /\ now' = now /\ blockedUntil' = blockedUntil
               /\ \/ ~BlockedFor(Reasons)
                  \/ /\ j \in Fetches
                     /\ ~BlockedFor({"consumo_indevido", "rate_budget"})
    <3>1. pc'[j] # pc[j]
      BY <1>2, <2>2
    <3>2. ~Tick /\ ~Crash /\ ~UNCHANGED vars
      BY <1>2, <3>1 DEF Tick, Crash, vars
    <3>3. ASSUME NEW k \in Job, Held(k)
          PROVE  FALSE
      <4>1. k = j
        OBVIOUS
      <4> QED BY <2>2, <3>3, <4>1 DEF Held, PasswordGiven, Abort, SpendCheck, SpendRefused,
                  RecordRequest, Send, ReceiveMore, ReceiveWait, ReceiveEnd
    <3>4. ASSUME NEW k \in Pulls, PullCheckBlock(k) \/ PullReserve(k) \/ PullRefused(k)
          PROVE  now' = now /\ blockedUntil' = blockedUntil /\ ~BlockedFor(Reasons)
      <4>1. k = j
        BY DEF Job
      <4> QED BY <2>2, <3>4, <4>1 DEF PullCheckBlock, PullReserve, PullRefused, db
    <3>5. ASSUME NEW k \in Fetches, FetchReserve(k) \/ FetchCheckBlock(k)
          PROVE  /\ now' = now /\ blockedUntil' = blockedUntil /\ k = j
                 /\ ~BlockedFor({"consumo_indevido", "rate_budget"})
      <4>1. k = j
        BY DEF Job
      <4>2. ~FetchReserve(j)
        BY <1>0, <1>2 DEF FetchReserve, TypeOK
      <4>3. FetchCheckBlock(j)
        BY <3>5, <4>1, <4>2
      <4>4. ASSUME BlockedFor({"consumo_indevido", "rate_budget"})
            PROVE  pc'[j] = "idle"
        BY <1>0, <4>3, <4>4 DEF FetchCheckBlock, Release, TypeOK
      <4>5. now' = now /\ blockedUntil' = blockedUntil
        BY <4>3 DEF FetchCheckBlock, db
      <4>6. ~BlockedFor({"consumo_indevido", "rate_budget"})
        BY <1>2, <4>4
      <4> QED BY <4>1, <4>5, <4>6
    <3> QED BY <3>2, <3>3, <3>4, <3>5 DEF Next
  <2>3. ASSUME pc[j] \in Checked, ~UNCHANGED <<blockedUntil, blockedReason>>
        PROVE  FALSE
    <3>1. PICK k \in Job : pc[k] \in Holding /\ Release(k)
      BY <2>3, BlockStep
    <3>2. pc'[j] = "idle"
      BY <1>0, <3>1 DEF Release, TypeOK
    <3> QED BY <1>2, <3>2
  <2>4. ASSUME pc[j] \notin Checked
        PROVE  now >= blockedUntil
    BY <1>0, <2>2, <2>4 DEF AloneInv, NullTogether, BlockedFor, Reasons
  <2> QED BY <2>1, <2>2, <2>3, <2>4
<1> QED BY <1>0, <1>1, <1>2 DEF AloneInv

\* With one job, of either kind, no pull is about to query while a block is
\* in force, and a block in force is never replaced by one that ends earlier.
THEOREM AloneHonoursBlock ==
    ASSUME \A j, k \in Job : j = k
    PROVE  Spec => []PullHonoursBlock /\ BlockNeverShortened
<1>1. Init => AloneInv
  BY TypeInit DEF Init, AloneInv, NullTogether, Checked, Holding, Job
<1>2. AloneInv /\ [Next]_vars => AloneInv'
  BY AloneStep
<1>3. AloneInv => PullHonoursBlock
  BY TimeAssumption DEF AloneInv, PullHonoursBlock, BlockedFor, Checked, Holding, Job, TypeOK
<1>4. AloneInv /\ [Next]_vars => [now < blockedUntil => blockedUntil' >= blockedUntil]_vars
  <2> SUFFICES ASSUME AloneInv, [Next]_vars, now < blockedUntil
               PROVE  blockedUntil' >= blockedUntil
    OBVIOUS
  <2>1. now \in Nat /\ blockedUntil \in Nat
    BY ClockStep DEF AloneInv, TypeOK
  <2>2. ~\E j \in Job : BudgetBlock(j) \/ WaitBlock(j)
    BY <2>1 DEF AloneInv, BudgetBlock, WaitBlock, Checked, Holding
  <2> QED BY <2>1, <2>2, BlockWriters DEF AloneInv
<1> QED BY <1>1, <1>2, <1>3, <1>4, PTL DEF Spec, BlockNeverShortened
=============================================================================
