--------------------------- MODULE SyncLoopProofs ---------------------------
(***************************************************************************)
(* Proofs about SyncLoop, for any number of NSUs of any kinds, any         *)
(* MaxAttempts and any number of faults.                                   *)
(*                                                                         *)
(* NoNSULost is not inductive: a commit moves the cursor to its item and   *)
(* must know that nothing lies between.  WalkInv says, for each stage of   *)
(* the loop, up to where everything was dealt with and that the items left *)
(* in the batch are all that lies between there and the batch's end.       *)
(*                                                                         *)
(* GiveUpIsEarned needs that the persisted count is not ahead of the       *)
(* failures (FailedCounted), CursorForward that the loop's cursor does not *)
(* lag the persisted one (NoLag), CaughtUpHonest that a batch which says   *)
(* so reaches all that was published (AllReached), and                     *)
(* PolicyEndsWithInitialSync that the flag read at the start was not set   *)
(* since (SnapshotKept).                                                   *)
(*                                                                         *)
(* NSUFeed is proved to keep its own promise, and the idle clock to miss   *)
(* no answer of a run that ended well (RecordedInv).                       *)
(***************************************************************************)
EXTENDS SyncLoop, TLAPS

\* Where the walk stands inside a batch: the last item committed, or the
\* cursor the batch was asked for.
Reached == IF fresh THEN last ELSE c

\* The loop's own cursor is the checkpoint, or a walk from the start has met
\* nothing yet.
InStep(p) == c = p \/ (c < p /\ Between(0, c) = {})

CursorInStep ==
    /\ pc \in {"top", "fetch", "wait"} => InStep(last)
    /\ pc \in {"items", "giveup"} /\ ~fresh => InStep(last)

\* The checkpoint in memory is the persisted one, but for the step between
\* computing and writing it.
LastPersisted ==
    /\ pc \in {"top", "fetch", "wait", "items", "giveup", "mark", "after"} => last = cursor
    /\ pc = "checkpoint" => last = IF batch.next > cursor THEN batch.next ELSE cursor

\* The items left are all that lies between there and the end of the batch.
BatchExact ==
    pc \in {"wait", "items", "giveup"} =>
        /\ batch.items \subseteq Between(0, batch.next)
        /\ \A n \in batch.items : n > c => n > Reached
        /\ c <= batch.next
        /\ batch.reason # "consumo_indevido" => Between(Reached, batch.next) \subseteq batch.items
        /\ batch.reason = "consumo_indevido" => batch.items = {} /\ ~fresh /\ batch.done
        /\ fresh => c < last /\ last <= batch.next /\ pc # "wait"

\* skipPoisonItem gives up on an item of the batch.
GivingUp ==
    pc = "giveup" => \A n \in NSU : NextItem(n) => n > c

\* After the items: what the batch covered was dealt with, or the authority
\* is about to move the cursor over it.
BatchClosed ==
    /\ pc = "checkpoint" /\ batch.reason # "consumo_indevido" =>
          Between(cursor, batch.next) = {} /\ (batch.next < cursor => Between(0, batch.next) = {})
    /\ pc = "checkpoint" /\ batch.reason = "consumo_indevido" =>
          batch.done /\ c <= batch.next /\ InStep(cursor)
    /\ pc \in {"mark", "after"} /\ ~batch.done =>
          batch.next = last \/ (batch.next < last /\ Between(0, batch.next) = {})

WalkInv == LastPersisted /\ CursorInStep /\ BatchExact /\ GivingUp /\ BatchClosed

IInv == TypeOK /\ WalkInv /\ NoNSULost

-----------------------------------------------------------------------------
(* The types                                                               *)

LEMMA ConstantFacts ==
    /\ N \in Nat
    /\ MaxAttempts \in Nat \ {0}
    /\ MaxFaults \in Nat
    /\ 0 \in 0 .. N /\ 0 \in 0 .. MaxFaults /\ 0 \in 0 .. MaxAttempts
    BY NSUAssumption, LoopAssumption

LEMMA NSUFacts ==
    /\ Present \subseteq NSU
    /\ \A low, high : Between(low, high) \subseteq NSU
    BY DEF Present, Between

\* The part of TypeOK about the variables in memory, and the rest of it.
MemoryType ==
    /\ pc \in Stages
    /\ c \in 0 .. N
    /\ last \in 0 .. N
    /\ initSnap \in BOOLEAN
    /\ batch \in Batch
    /\ fresh \in BOOLEAN
    /\ outcome \in [status : Statuses, reason : Reasons]
    /\ cancelled \in BOOLEAN

StoredType ==
    /\ published \in 0 .. N
    /\ cursor \in 0 .. N
    /\ failed \in [nsu : 0 .. N, attempts : 0 .. MaxAttempts]
    /\ initialDone \in BOOLEAN
    /\ fate \in [NSU -> Fates]
    /\ run \in [status : Statuses, reason : Reasons]
    /\ faults \in 0 .. MaxFaults

HistoryType ==
    /\ jumped \in SUBSET NSU
    /\ failures \in [NSU -> 0 .. MaxAttempts]
    /\ owed \in BOOLEAN
    /\ unrecorded \in BOOLEAN
    /\ seen \in 0 .. N

LEMMA TypeParts == TypeOK <=> MemoryType /\ StoredType /\ HistoryType
    BY DEF TypeOK, MemoryType, StoredType, HistoryType

LEMMA TypePartsNext ==
    ASSUME MemoryType', StoredType', HistoryType'
    PROVE  TypeOK'
    BY DEF TypeOK, MemoryType, StoredType, HistoryType

LEMMA EmptyRecords ==
    /\ NoBatch \in Batch
    /\ NoOutcome \in [status : Statuses, reason : Reasons]
    /\ NoFailure \in [nsu : 0 .. N, attempts : 0 .. MaxAttempts]
<1>1. NoBatch \in Batch
  BY ConstantFacts DEF NoBatch, Batch, Reasons
<1>2. NoOutcome \in [status : Statuses, reason : Reasons]
  BY DEF NoOutcome, Statuses, Reasons
<1>3. NoFailure \in [nsu : 0 .. N, attempts : 0 .. MaxAttempts]
  BY ConstantFacts DEF NoFailure
<1> QED BY <1>1, <1>2, <1>3

LEMMA TypeInit == Init => TypeOK
<1> SUFFICES ASSUME Init PROVE TypeOK
  OBVIOUS
<1>1. MemoryType
  BY ConstantFacts, EmptyRecords DEF Init, MemoryType, Stages
<1>2. StoredType
  <2>1. fate \in [NSU -> Fates]
    BY DEF Init, Fates
  <2> QED BY <2>1, ConstantFacts, EmptyRecords DEF Init, StoredType
<1>3. HistoryType
  <2>1. failures \in [NSU -> 0 .. MaxAttempts]
    BY ConstantFacts DEF Init
  <2> QED BY <2>1, ConstantFacts DEF Init, HistoryType
<1> QED BY <1>1, <1>2, <1>3, TypeParts

\* What the building blocks of the actions do to the types.
LEMMA StopType ==
    ASSUME MemoryType, NEW status \in Statuses, NEW reason \in Reasons, Stop(status, reason)
    PROVE  MemoryType'
    BY DEF MemoryType, Stop, Stages

LEMMA ForgetType ==
    ASSUME ForgetMemory
    PROVE  MemoryType'
    BY ConstantFacts, EmptyRecords DEF ForgetMemory, MemoryType, Stages

LEMMA FaultType ==
    ASSUME StoredType
    PROVE  Fault => faults' \in 0 .. MaxFaults
    BY ConstantFacts DEF StoredType, Fault

LEMMA StopInterruptedType ==
    ASSUME MemoryType, StopInterrupted
    PROVE  MemoryType' /\ faults' = faults
    BY StopType DEF StopInterrupted, Statuses, Reasons

LEMMA StopFailedType ==
    ASSUME MemoryType, StoredType, StopFailed
    PROVE  MemoryType' /\ faults' \in 0 .. MaxFaults
    BY StopType, FaultType DEF StopFailed, Statuses, Reasons

LEMMA CommitType ==
    ASSUME TypeOK, NEW n \in NSU, NEW f \in Fates, Commit(n, f)
    PROVE  /\ MemoryType' /\ HistoryType'
           /\ cursor' \in 0 .. N /\ fate' \in [NSU -> Fates]
           /\ UNCHANGED <<published, failed, initialDone, run>>
<1>1. n \in 0 .. N
  BY ConstantFacts DEF NSU
<1>2. batch' \in Batch
  BY DEF TypeOK, Commit, Batch
<1>3. MemoryType'
  BY <1>1, <1>2 DEF TypeOK, Commit, MemoryType, Stages
<1>4. fate' \in [NSU -> Fates]
  BY DEF TypeOK, Commit
<1> QED BY <1>1, <1>3, <1>4 DEF TypeOK, Commit, HistoryType

LEMMA DeliverType ==
    ASSUME TypeOK, NEW b \in Batch, Deliver(b)
    PROVE  /\ MemoryType' /\ HistoryType'
           /\ UNCHANGED <<published, stored, run>>
<1>1. MemoryType'
  BY DEF TypeOK, Deliver, MemoryType, Stages, Batch
<1>2. HistoryType'
  BY DEF TypeOK, Deliver, HistoryType, Batch
<1> QED BY <1>1, <1>2 DEF Deliver

\* The answers are batches.
LEMMA AnswerType ==
    ASSUME TypeOK, Answer \/ OddAnswer
    PROVE  /\ MemoryType' /\ HistoryType'
           /\ UNCHANGED <<published, stored, run>> /\ faults' \in 0 .. MaxFaults
<1> USE ConstantFacts
<1>0. /\ c \in 0 .. N /\ published \in 0 .. N /\ faults \in 0 .. MaxFaults
      /\ \A ult \in 0 .. N : NextCursor(ult) \in 0 .. N
  BY DEF TypeOK, NextCursor
<1>1. CASE AnswerDocuments
  <2>1. PICK ult \in c + 1 .. published :
            Deliver([items |-> Between(c, ult), next |-> NextCursor(ult), done |-> ult >= published,
                     reason |-> IF ult >= published THEN "caught_up" ELSE "none",
                     wait |-> ult >= published])
    BY <1>1 DEF AnswerDocuments
  <2>2. ult \in 0 .. N
    BY <1>0
  <2>3. [items |-> Between(c, ult), next |-> NextCursor(ult), done |-> ult >= published,
         reason |-> IF ult >= published THEN "caught_up" ELSE "none",
         wait |-> ult >= published] \in Batch
    BY <1>0, <2>2, NSUFacts DEF Batch, Reasons
  <2> QED BY <1>0, <1>1, <2>1, <2>3, DeliverType DEF AnswerDocuments
<1>2. CASE AnswerNothing
  <2>1. PICK ult \in {c, published} :
            Deliver([items |-> {}, next |-> NextCursor(ult), done |-> TRUE,
                     reason |-> "caught_up", wait |-> TRUE])
    BY <1>2 DEF AnswerNothing
  <2>2. [items |-> {}, next |-> NextCursor(ult), done |-> TRUE,
         reason |-> "caught_up", wait |-> TRUE] \in Batch
    BY <1>0 DEF Batch, Reasons
  <2> QED BY <1>0, <1>2, <2>1, <2>2, DeliverType DEF AnswerNothing
<1>3. CASE AnswerConsumoIndevido
  <2>1. PICK ult \in 0 .. published :
            Deliver([items |-> {}, next |-> NextCursor(ult), done |-> TRUE,
                     reason |-> "consumo_indevido", wait |-> TRUE])
    BY <1>3 DEF AnswerConsumoIndevido
  <2>2. ult \in 0 .. N
    BY <1>0
  <2>3. [items |-> {}, next |-> NextCursor(ult), done |-> TRUE,
         reason |-> "consumo_indevido", wait |-> TRUE] \in Batch
    BY <1>0, <2>2 DEF Batch, Reasons
  <2>4. faults' \in 0 .. MaxFaults
    BY <1>0, <1>3 DEF AnswerConsumoIndevido, Fault
  <2> QED BY <2>1, <2>3, <2>4, DeliverType
<1>4. CASE AnswerADN
  <2>1. PICK top \in c .. published :
            Deliver([items |-> Between(c, top), next |-> top, done |-> Between(c, top) = {},
                     reason |-> IF Between(c, top) = {} THEN "empty_limit" ELSE "none",
                     wait |-> FALSE])
    BY <1>4 DEF AnswerADN
  <2>2. top \in 0 .. N
    BY <1>0
  <2>3. [items |-> Between(c, top), next |-> top, done |-> Between(c, top) = {},
         reason |-> IF Between(c, top) = {} THEN "empty_limit" ELSE "none",
         wait |-> FALSE] \in Batch
    BY <2>2, NSUFacts DEF Batch, Reasons
  <2> QED BY <1>0, <1>4, <2>1, <2>3, DeliverType DEF AnswerADN
<1>5. CASE AnswerStale
  <2>1. PICK top \in Between(c, published) \cup {c} :
            Deliver([items |-> Between(c, top) \cup {c}, next |-> top, done |-> FALSE,
                     reason |-> "none", wait |-> FALSE])
    BY <1>5 DEF AnswerStale
  <2>2. top \in 0 .. N /\ c \in NSU
    BY <1>0, <1>5, NSUFacts DEF AnswerStale, NSU
  <2>3. [items |-> Between(c, top) \cup {c}, next |-> top, done |-> FALSE,
         reason |-> "none", wait |-> FALSE] \in Batch
    BY <2>2, NSUFacts DEF Batch, Reasons
  <2>4. faults' \in 0 .. MaxFaults
    BY <1>0, <1>5 DEF AnswerStale, Fault
  <2> QED BY <2>1, <2>3, <2>4, DeliverType
<1> QED BY <1>1, <1>2, <1>3, <1>4, <1>5 DEF Answer, OddAnswer

\* The items.
LEMMA ItemType ==
    ASSUME TypeOK, NEW n \in NSU,
           SkipStale(n) \/ StoreItem(n) \/ StoreItemFails(n) \/ PoisonItem(n) \/ GiveUp(n)
    PROVE  TypeOK'
<1> USE ConstantFacts
<1>0. MemoryType /\ StoredType /\ HistoryType
  BY TypeParts
<1>01. n \in 0 .. N
  BY DEF NSU
<1>1. CASE SkipStale(n)
  <2>1. batch' \in Batch
    BY <1>1 DEF TypeOK, SkipStale, Batch
  <2>2. MemoryType'
    BY <1>0, <1>1, <2>1 DEF MemoryType, SkipStale
  <2>3. StoredType' /\ HistoryType'
    BY <1>0, <1>1 DEF StoredType, HistoryType, SkipStale, stored, history
  <2> QED BY <2>2, <2>3, TypePartsNext
<1>2. CASE StoreItem(n)
  <2>1. FateOf(n) \in Fates
    BY DEF FateOf, Fates
  <2> QED BY <1>0, <1>2, <2>1, CommitType, TypePartsNext DEF StoreItem, StoredType
<1>3. CASE StoreItemFails(n)
  <2>1. MemoryType' /\ faults' \in 0 .. MaxFaults
    BY <1>0, <1>3, StopInterruptedType, StopFailedType DEF StoreItemFails, StoredType
  <2>2. cursor' \in 0 .. N
    BY <1>3 DEF TypeOK, StoreItemFails, FailedProgress
  <2>3. StoredType' /\ HistoryType'
    BY <1>0, <1>3, <2>1, <2>2 DEF StoreItemFails, StoredType, HistoryType, history
  <2> QED BY <2>1, <2>3, TypePartsNext
<1>4. CASE PoisonItem(n)
  <2>1. Attempts(n) \in 0 .. MaxAttempts
    BY DEF TypeOK, Attempts
  <2>2. failed' \in [nsu : 0 .. N, attempts : 0 .. MaxAttempts]
    BY <1>01, <1>4, <2>1 DEF PoisonItem
  <2>3. failures' \in [NSU -> 0 .. MaxAttempts]
    BY <1>4 DEF TypeOK, PoisonItem
  <2>4. MemoryType' /\ cursor' \in 0 .. N
    <3>1. CASE Attempts(n) < MaxAttempts
      BY <1>0, <1>4, <3>1, StopType DEF PoisonItem, FailedProgress, MemoryType, Statuses, Reasons
    <3>2. CASE ~(Attempts(n) < MaxAttempts)
      BY <1>0, <1>4, <3>2 DEF PoisonItem, MemoryType, StoredType, memory, Stages
    <3> QED BY <3>1, <3>2
  <2>5. StoredType' /\ HistoryType'
    BY <1>0, <1>4, <2>2, <2>3, <2>4 DEF PoisonItem, StoredType, HistoryType
  <2> QED BY <2>4, <2>5, TypePartsNext
<1>5. CASE GiveUp(n)
  <2>1. CASE Commit(n, "given_up") /\ UNCHANGED faults
    <3>1. "given_up" \in Fates
      BY DEF Fates
    <3> QED BY <1>0, <2>1, <3>1, CommitType, TypePartsNext DEF StoredType
  <2>2. CASE (StopInterrupted \/ StopFailed) /\ UNCHANGED <<published, stored, run, history>>
    <3>1. MemoryType' /\ faults' \in 0 .. MaxFaults
      BY <1>0, <2>2, StopInterruptedType, StopFailedType DEF StoredType
    <3>2. StoredType' /\ HistoryType'
      BY <1>0, <2>2, <3>1 DEF StoredType, HistoryType, stored, history
    <3> QED BY <3>1, <3>2, TypePartsNext
  <2> QED BY <1>5, <2>1, <2>2 DEF GiveUp
<1> QED BY <1>1, <1>2, <1>3, <1>4, <1>5

\* The rest of the loop.
LEMMA LoopType ==
    ASSUME TypeOK,
           \/ Top \/ FetchFails \/ RecordWait \/ ItemsDone \/ Checkpoint
           \/ MarkInitialSyncCompleted \/ AfterBatch \/ FinishRun
    PROVE  TypeOK'
<1> USE ConstantFacts
<1>0. MemoryType /\ StoredType /\ HistoryType
  BY TypeParts
<1>01. ASSUME StopInterrupted \/ StopFailed
       PROVE  MemoryType' /\ faults' \in 0 .. MaxFaults
  BY <1>0, <1>01, StopInterruptedType, StopFailedType DEF StoredType
<1>02. ASSUME UNCHANGED memory, pc' \in Stages
       PROVE  MemoryType'
  BY <1>0, <1>02 DEF MemoryType, memory
<1>1. CASE Top
  <2>1. MemoryType' /\ faults' \in 0 .. MaxFaults
    <3>1. CASE Fault /\ Stop("completed", "rate_budget")
      BY <1>0, <3>1, StopType, FaultType DEF Statuses, Reasons
    <3>2. CASE pc' = "fetch" /\ UNCHANGED <<memory, faults>>
      BY <1>0, <1>02, <3>2 DEF StoredType, Stages
    <3> QED BY <1>1, <1>01, <3>1, <3>2 DEF Top
  <2>2. StoredType' /\ HistoryType'
    BY <1>0, <1>1, <2>1 DEF Top, StoredType, HistoryType, stored, history
  <2> QED BY <2>1, <2>2, TypePartsNext
<1>2. CASE FetchFails
  <2>1. MemoryType' /\ faults' \in 0 .. MaxFaults
    <3>1. CASE Fault /\ Stop("failed", "fetch_error")
      BY <1>0, <3>1, StopType, FaultType DEF Statuses, Reasons
    <3> QED BY <1>2, <1>01, <3>1 DEF FetchFails
  <2>2. StoredType' /\ HistoryType'
    BY <1>0, <1>2, <2>1 DEF FetchFails, StoredType, HistoryType, stored, history
  <2> QED BY <2>1, <2>2, TypePartsNext
<1>3. CASE RecordWait
  <2>1. MemoryType' /\ faults' \in 0 .. MaxFaults
    <3>1. CASE pc' = "items" /\ UNCHANGED <<memory, faults>>
      BY <1>0, <1>02, <3>1 DEF StoredType, Stages
    <3> QED BY <1>3, <1>01, <3>1 DEF RecordWait
  <2>2. owed' \in BOOLEAN
    BY <1>3 DEF RecordWait
  <2>3. StoredType' /\ HistoryType'
    BY <1>0, <1>3, <2>1, <2>2 DEF RecordWait, StoredType, HistoryType, stored
  <2> QED BY <2>1, <2>3, TypePartsNext
<1>4. CASE ItemsDone
  <2>1. last' \in 0 .. N
    BY <1>4 DEF TypeOK, ItemsDone, Batch
  <2>2. MemoryType'
    BY <1>0, <1>4, <2>1 DEF ItemsDone, MemoryType, Stages
  <2>3. StoredType' /\ HistoryType'
    BY <1>0, <1>4 DEF ItemsDone, StoredType, HistoryType, stored, history
  <2> QED BY <2>2, <2>3, TypePartsNext
<1>5. CASE Checkpoint
  <2>1. MemoryType' /\ faults' \in 0 .. MaxFaults
    <3>1. CASE pc' = "mark" /\ UNCHANGED <<memory, faults>>
      BY <1>0, <1>02, <3>1 DEF StoredType, Stages
    <3> QED BY <1>5, <1>01, <3>1 DEF Checkpoint
  <2>2. jumped' \in SUBSET NSU
    BY <1>5, NSUFacts DEF TypeOK, Checkpoint
  <2>3. cursor' \in 0 .. N /\ unrecorded' \in BOOLEAN
    BY <1>5 DEF TypeOK, Checkpoint
  <2>4. StoredType' /\ HistoryType'
    BY <1>0, <1>5, <2>1, <2>2, <2>3 DEF Checkpoint, StoredType, HistoryType
  <2> QED BY <2>1, <2>4, TypePartsNext
<1>6. CASE MarkInitialSyncCompleted
  <2>1. MemoryType' /\ faults' \in 0 .. MaxFaults
    <3>1. CASE pc' = "after" /\ UNCHANGED <<memory, faults>>
      BY <1>0, <1>02, <3>1 DEF StoredType, Stages
    <3> QED BY <1>6, <1>01, <3>1 DEF MarkInitialSyncCompleted
  <2>2. initialDone' \in BOOLEAN
    BY <1>6 DEF TypeOK, MarkInitialSyncCompleted
  <2>3. StoredType' /\ HistoryType'
    BY <1>0, <1>6, <2>1, <2>2 DEF MarkInitialSyncCompleted, StoredType, HistoryType, history
  <2> QED BY <2>1, <2>3, TypePartsNext
<1>7. CASE AfterBatch
  <2>1. MemoryType' /\ faults' \in 0 .. MaxFaults
    <3>1. ASSUME NEW reason \in Reasons, Stop("completed", reason), UNCHANGED faults
          PROVE  MemoryType' /\ faults' \in 0 .. MaxFaults
      BY <1>0, <3>1, StopType DEF StoredType, Statuses
    <3>2. batch.reason \in Reasons /\ "empty_limit" \in Reasons
      BY DEF TypeOK, Batch, Reasons
    <3>3. CASE /\ c' = batch.next /\ pc' = "top" /\ batch' = NoBatch /\ fresh' = FALSE
               /\ UNCHANGED <<last, initSnap, outcome, cancelled, faults>>
      <4>1. batch.next \in 0 .. N
        BY DEF TypeOK, Batch
      <4> QED BY <1>0, <3>3, <4>1, EmptyRecords DEF MemoryType, StoredType, Stages
    <3> QED BY <1>7, <1>01, <3>1, <3>2, <3>3 DEF AfterBatch
  <2>2. StoredType' /\ HistoryType'
    BY <1>0, <1>7, <2>1 DEF AfterBatch, StoredType, HistoryType, stored, history
  <2> QED BY <2>1, <2>2, TypePartsNext
<1>8. CASE FinishRun
  <2>1. MemoryType'
    BY <1>8, ForgetType DEF FinishRun
  <2>2. run' \in [status : Statuses, reason : Reasons] /\ faults' \in 0 .. MaxFaults
    BY <1>0, <1>8, FaultType DEF FinishRun, MemoryType, StoredType
  <2>3. StoredType' /\ HistoryType'
    BY <1>0, <1>8, <2>2 DEF FinishRun, StoredType, HistoryType, stored, history
  <2> QED BY <2>1, <2>3, TypePartsNext
<1> QED BY <1>1, <1>2, <1>3, <1>4, <1>5, <1>6, <1>7, <1>8

LEMMA TypeStep ==
    ASSUME TypeOK, [Next]_vars
    PROVE  TypeOK'
<1> USE ConstantFacts
<1>0. MemoryType /\ StoredType /\ HistoryType
  BY TypeParts
<1>1. CASE Publish
  <2>1. published' \in 0 .. N
    BY <1>1 DEF TypeOK, Publish
  <2> QED BY <1>1, <2>1 DEF TypeOK, Publish, stored, memory, history
<1>2. ASSUME NEW mode \in Modes, Start(mode)
      PROVE  TypeOK'
  <2>1. MemoryType'
    BY <1>0, <1>2 DEF StoredType, MemoryType, Start, LastFromState, Stages
  <2>2. run' \in [status : Statuses, reason : Reasons]
    BY <1>2 DEF Start, Statuses, Reasons
  <2>3. StoredType' /\ HistoryType'
    BY <1>0, <1>2, <2>2 DEF Start, StoredType, HistoryType, stored, history
  <2> QED BY <2>1, <2>3, TypePartsNext
<1>3. CASE Cancel
  <2>1. MemoryType' /\ faults' \in 0 .. MaxFaults
    BY <1>0, <1>3, FaultType DEF Cancel, MemoryType
  <2>2. StoredType' /\ HistoryType'
    BY <1>0, <1>3, <2>1 DEF Cancel, StoredType, HistoryType, stored, history
  <2> QED BY <2>1, <2>2, TypePartsNext
<1>4. CASE Answer \/ OddAnswer
  <2>1. StoredType'
    BY <1>0, <1>4, AnswerType DEF StoredType, stored
  <2> QED BY <1>4, <2>1, AnswerType, TypePartsNext
<1>5. CASE Crash
  <2>1. MemoryType' /\ faults' \in 0 .. MaxFaults
    BY <1>0, <1>5, FaultType, ForgetType DEF Crash
  <2>2. StoredType' /\ HistoryType'
    BY <1>0, <1>5, <2>1 DEF Crash, StoredType, HistoryType, stored
  <2> QED BY <2>1, <2>2, TypePartsNext
<1>6. CASE Reset
  <2>1. MemoryType' /\ faults' \in 0 .. MaxFaults
    BY <1>0, <1>6, FaultType DEF Reset, MemoryType, memory
  <2>2. fate' \in [NSU -> Fates]
    <3>1. [n \in NSU |-> "unseen"] \in [NSU -> Fates]
      BY DEF Fates
    <3> QED BY <1>0, <1>6, <3>1 DEF Reset, StoredType
  <2>3. failures' \in [NSU -> 0 .. MaxAttempts]
    BY <1>6 DEF Reset
  <2>4. StoredType' /\ HistoryType'
    BY <1>0, <1>6, <2>1, <2>2, <2>3, EmptyRecords DEF Reset, StoredType, HistoryType
  <2> QED BY <2>1, <2>4, TypePartsNext
<1>7. CASE UNCHANGED vars
  BY <1>7 DEF TypeOK, vars, stored, memory, history
<1> QED BY <1>1, <1>2, <1>3, <1>4, <1>5, <1>6, <1>7, ItemType, LoopType DEF Next, Loop

\* Every variable keeps its type in every behaviour.
THEOREM TypeCorrect == Spec => []TypeOK
<1>1. Init => TypeOK
  BY TypeInit
<1>2. TypeOK /\ [Next]_vars => TypeOK'
  BY TypeStep
<1> QED BY <1>1, <1>2, PTL DEF Spec

-----------------------------------------------------------------------------
(* The walk                                                                *)

LEMMA BetweenFact ==
    ASSUME NEW low \in Nat, NEW high \in Nat, NEW n
    PROVE  n \in Between(low, high) <=> n \in Present /\ n \in Nat /\ low < n /\ n <= high
<1>1. n \in Present => n \in Nat
  BY ConstantFacts, NSUFacts DEF NSU
<1> QED BY <1>1 DEF Between

LEMMA BetweenLarger ==
    ASSUME NEW low \in Nat, NEW high \in Nat
    PROVE  Between(low, high) \subseteq Between(0, high)
<1> SUFFICES ASSUME NEW n \in Between(low, high)
             PROVE  n \in Between(0, high)
  OBVIOUS
<1>1. n \in Present /\ n \in Nat /\ low < n /\ n <= high
  BY BetweenFact
<1>2. 0 < n
  BY <1>1
<1> QED BY <1>1, <1>2, BetweenFact

LEMMA BetweenNothing ==
    ASSUME NEW n \in Nat
    PROVE  Between(n, n) = {}
<1> SUFFICES ASSUME NEW m \in Between(n, n)
             PROVE  FALSE
  OBVIOUS
<1> QED BY BetweenFact

\* Numbers out of the types, for the arithmetic of the steps.
LEMMA Numbers ==
    ASSUME TypeOK
    PROVE  /\ c \in Nat /\ last \in Nat /\ cursor \in Nat /\ published \in Nat
           /\ batch.next \in Nat /\ batch.items \subseteq NSU
           /\ NSU \subseteq Nat \ {0} /\ Present \subseteq NSU
    BY ConstantFacts, NSUFacts DEF TypeOK, Batch, NSU

\* No part of the invariant of the walk says anything of a run that is over.
LEMMA WalkStopped ==
    ASSUME pc' \in {"idle", "finish"}
    PROVE  WalkInv'
    BY DEF WalkInv, LastPersisted, CursorInStep, BatchExact, GivingUp, BatchClosed

LEMMA WalkSame ==
    ASSUME WalkInv, UNCHANGED <<pc, c, last, batch, fresh, cursor>>
    PROVE  WalkInv'
    BY DEF WalkInv, LastPersisted, CursorInStep, BatchExact, GivingUp, BatchClosed,
           Reached, InStep, NextItem

LEMMA NothingNewLost ==
    ASSUME NoNSULost, UNCHANGED <<cursor, fate, jumped>>
    PROVE  NoNSULost'
    BY DEF NoNSULost, handled

LEMMA StopWalk ==
    ASSUME StopInterrupted \/ StopFailed
    PROVE  pc' = "finish" /\ WalkInv'
    BY WalkStopped DEF StopInterrupted, StopFailed, Stop

\* An answer fits the cursor it was asked with.
GoodAnswer(b) ==
    /\ b.items \subseteq Between(0, b.next)
    /\ c <= b.next
    /\ b.reason # "consumo_indevido" => Between(c, b.next) \subseteq b.items
    /\ b.reason = "consumo_indevido" => b.items = {} /\ b.done

LEMMA DeliverWalk ==
    ASSUME TypeOK, WalkInv, NEW b \in Batch, Deliver(b), GoodAnswer(b)
    PROVE  WalkInv' /\ UNCHANGED <<cursor, fate, jumped>>
<1>0. /\ pc = "fetch" /\ pc' \in {"wait", "items"} /\ batch' = b /\ fresh' = FALSE
      /\ UNCHANGED <<c, last, cursor, fate, jumped>>
  BY DEF Deliver, stored
<1>1. LastPersisted'
  BY <1>0 DEF WalkInv, LastPersisted
<1>2. CursorInStep'
  BY <1>0 DEF WalkInv, CursorInStep, InStep
<1>3. BatchExact'
  BY <1>0 DEF GoodAnswer, BatchExact, Reached
<1>4. GivingUp' /\ BatchClosed'
  BY <1>0 DEF GivingUp, BatchClosed
<1> QED BY <1>0, <1>1, <1>2, <1>3, <1>4 DEF WalkInv

LEMMA AnswerWalk ==
    ASSUME TypeOK, WalkInv, Answer \/ OddAnswer
    PROVE  WalkInv' /\ UNCHANGED <<cursor, fate, jumped>>
<1> USE ConstantFacts
<1>0. /\ c \in 0 .. N /\ published \in 0 .. N
      /\ \A ult \in 0 .. N : NextCursor(ult) \in 0 .. N
  BY DEF TypeOK, NextCursor
<1>01. NSU \subseteq Nat \ {0} /\ Present \subseteq NSU
  BY Numbers
<1>1. CASE AnswerDocuments
  <2>1. PICK ult \in c + 1 .. published :
            Deliver([items |-> Between(c, ult), next |-> NextCursor(ult), done |-> ult >= published,
                     reason |-> IF ult >= published THEN "caught_up" ELSE "none",
                     wait |-> ult >= published])
    BY <1>1 DEF AnswerDocuments
  <2> DEFINE b == [items |-> Between(c, ult), next |-> NextCursor(ult), done |-> ult >= published,
                   reason |-> IF ult >= published THEN "caught_up" ELSE "none",
                   wait |-> ult >= published]
  <2>2. ult \in 0 .. N /\ NextCursor(ult) = ult /\ c < ult
    BY <1>0 DEF NextCursor
  <2>3. b \in Batch
    BY <1>0, <2>2, NSUFacts DEF Batch, Reasons
  <2>4. Between(c, ult) \subseteq Between(0, ult)
    BY <1>0, <2>2, BetweenLarger
  <2>5. GoodAnswer(b)
    BY <1>0, <2>2, <2>4 DEF GoodAnswer
  <2> HIDE DEF b
  <2> QED BY <2>1, <2>3, <2>5, DeliverWalk DEF b
<1>2. CASE AnswerNothing
  <2>1. PICK ult \in {c, published} :
            Deliver([items |-> {}, next |-> NextCursor(ult), done |-> TRUE,
                     reason |-> "caught_up", wait |-> TRUE])
    BY <1>2 DEF AnswerNothing
  <2> DEFINE b == [items |-> {}, next |-> NextCursor(ult), done |-> TRUE,
                   reason |-> "caught_up", wait |-> TRUE]
  <2>2. b \in Batch
    BY <1>0 DEF Batch, Reasons
  <2>3. NextCursor(ult) = c \/ (NextCursor(ult) = published /\ c < published)
    BY <1>0 DEF NextCursor
  <2>4. Between(c, NextCursor(ult)) = {}
    BY <1>0, <1>2, <2>3, BetweenNothing DEF AnswerNothing
  <2>5. GoodAnswer(b)
    BY <1>0, <2>3, <2>4 DEF GoodAnswer
  <2> HIDE DEF b
  <2> QED BY <2>1, <2>2, <2>5, DeliverWalk DEF b
<1>3. CASE AnswerConsumoIndevido
  <2>1. PICK ult \in 0 .. published :
            Deliver([items |-> {}, next |-> NextCursor(ult), done |-> TRUE,
                     reason |-> "consumo_indevido", wait |-> TRUE])
    BY <1>3 DEF AnswerConsumoIndevido
  <2> DEFINE b == [items |-> {}, next |-> NextCursor(ult), done |-> TRUE,
                   reason |-> "consumo_indevido", wait |-> TRUE]
  <2>2. ult \in 0 .. N /\ c <= NextCursor(ult)
    BY <1>0 DEF NextCursor
  <2>3. b \in Batch
    BY <1>0, <2>2 DEF Batch, Reasons
  <2>4. GoodAnswer(b)
    BY <2>2 DEF GoodAnswer
  <2> HIDE DEF b
  <2> QED BY <2>1, <2>3, <2>4, DeliverWalk DEF b
<1>4. CASE AnswerADN
  <2>1. PICK top \in c .. published :
            Deliver([items |-> Between(c, top), next |-> top, done |-> Between(c, top) = {},
                     reason |-> IF Between(c, top) = {} THEN "empty_limit" ELSE "none",
                     wait |-> FALSE])
    BY <1>4 DEF AnswerADN
  <2> DEFINE b == [items |-> Between(c, top), next |-> top, done |-> Between(c, top) = {},
                   reason |-> IF Between(c, top) = {} THEN "empty_limit" ELSE "none",
                   wait |-> FALSE]
  <2>2. top \in 0 .. N /\ c <= top
    BY <1>0
  <2>3. b \in Batch
    BY <2>2, NSUFacts DEF Batch, Reasons
  <2>4. Between(c, top) \subseteq Between(0, top)
    BY <1>0, <2>2, BetweenLarger
  <2>5. GoodAnswer(b)
    BY <2>2, <2>4 DEF GoodAnswer
  <2> HIDE DEF b
  <2> QED BY <2>1, <2>3, <2>5, DeliverWalk DEF b
<1>5. CASE AnswerStale
  <2>1. PICK top \in Between(c, published) \cup {c} :
            Deliver([items |-> Between(c, top) \cup {c}, next |-> top, done |-> FALSE,
                     reason |-> "none", wait |-> FALSE])
    BY <1>5 DEF AnswerStale
  <2> DEFINE b == [items |-> Between(c, top) \cup {c}, next |-> top, done |-> FALSE,
                   reason |-> "none", wait |-> FALSE]
  <2>2. top \in 0 .. N /\ c \in Present /\ c \in NSU /\ c <= top
    BY <1>0, <1>01, <1>5 DEF AnswerStale, Between
  <2>3. b \in Batch
    BY <2>2, NSUFacts DEF Batch, Reasons
  <2>4. Between(c, top) \cup {c} \subseteq Between(0, top)
    BY <1>0, <1>01, <2>2, BetweenLarger, BetweenFact
  <2>5. GoodAnswer(b)
    BY <2>2, <2>4 DEF GoodAnswer
  <2> HIDE DEF b
  <2> QED BY <2>1, <2>3, <2>5, DeliverWalk DEF b
<1> QED BY <1>1, <1>2, <1>3, <1>4, <1>5 DEF Answer, OddAnswer

\* A commit: everything before its item was dealt with already.
LEMMA CommitWalk ==
    ASSUME TypeOK, WalkInv, NoNSULost, NEW n \in NSU, NEW f \in Fates \ {"unseen"},
           pc \in {"items", "giveup"}, NextItem(n), c < n, Commit(n, f)
    PROVE  WalkInv' /\ NoNSULost'
<1>0. /\ pc' = "items" /\ fresh' = TRUE /\ cursor' = n /\ last' = n
      /\ c' = c /\ jumped' = jumped /\ fate' = [fate EXCEPT ![n] = f]
      /\ batch' = [batch EXCEPT !.items = @ \ {n}]
  BY DEF Commit
<1>1. /\ batch'.items = batch.items \ {n}
      /\ batch'.next = batch.next /\ batch'.reason = batch.reason
      /\ n \in batch.items /\ \A m \in batch.items : n <= m
      /\ last = cursor
  BY <1>0 DEF TypeOK, Batch, NextItem, WalkInv, LastPersisted
<1>2. /\ batch.items \subseteq Between(0, batch.next)
      /\ batch.reason # "consumo_indevido"
      /\ Between(Reached, batch.next) \subseteq batch.items
      /\ c <= batch.next
      /\ n > Reached
      /\ fresh => c < last /\ last <= batch.next
  BY <1>1, Numbers DEF WalkInv, BatchExact
<1>3. Reached \in Nat /\ n \in Nat /\ n \in Present /\ n <= batch.next
  BY <1>1, <1>2, Numbers, BetweenFact DEF Reached
<1>4. LastPersisted' /\ CursorInStep' /\ GivingUp' /\ BatchClosed'
  BY <1>0 DEF LastPersisted, CursorInStep, GivingUp, BatchClosed
<1>5. BatchExact'
  <2>1. batch'.items \subseteq Between(0, batch'.next)
    BY <1>1, <1>2
  <2>2. ASSUME NEW m \in batch'.items
        PROVE  m > Reached'
    <3>1. m \in Nat /\ n <= m /\ m # n
      BY <1>1, <2>2, Numbers
    <3> QED BY <3>1, <1>0, <1>3 DEF Reached
  <2>3. Between(n, batch.next) \subseteq batch.items \ {n}
    <3> SUFFICES ASSUME NEW m \in Between(n, batch.next)
                 PROVE  m \in batch.items /\ m # n
      OBVIOUS
    <3>1. m \in Present /\ m \in Nat /\ n < m /\ m <= batch.next
      BY <1>3, Numbers, BetweenFact
    <3>2. Reached < m
      BY <1>2, <1>3, <3>1
    <3>3. m \in Between(Reached, batch.next)
      BY <1>3, <3>1, <3>2, Numbers, BetweenFact
    <3> QED BY <1>2, <1>3, <3>1, <3>3
  <2> QED BY <1>0, <1>1, <1>2, <1>3, <2>1, <2>2, <2>3 DEF BatchExact, Reached
<1>6. NoNSULost'
  <2> SUFFICES ASSUME NEW m \in Between(0, n)
               PROVE  m \in NSU /\ (fate'[m] # "unseen" \/ m \in jumped)
    BY <1>0 DEF NoNSULost, handled, Between, Present
  <2>1. m \in Present /\ m \in Nat /\ 0 < m /\ m <= n /\ m \in NSU
    BY <1>3, BetweenFact, NSUFacts
  <2>2. CASE m = n
    BY <1>0, <2>2 DEF TypeOK, Fates
  <2>3. CASE m # n
    <3>1. m < n /\ m <= batch.next
      BY <1>3, <2>1, <2>3, Numbers
    <3>2. m \notin batch.items
      BY <1>1, <1>3, <2>1, <3>1
    <3>3. ~(Reached < m)
      BY <1>2, <1>3, <2>1, <3>1, <3>2, Numbers, BetweenFact
    <3>4. m <= cursor
      <4>1. CASE fresh
        BY <1>1, <2>1, <3>3, <4>1, Numbers DEF Reached
      <4>2. CASE ~fresh
        <5>1. m <= c
          BY <2>1, <3>3, <4>2, Numbers DEF Reached
        <5>2. c = last \/ c < last
          BY <4>2 DEF WalkInv, CursorInStep, InStep
        <5> QED BY <1>1, <2>1, <5>1, <5>2, Numbers
      <4> QED BY <4>1, <4>2
    <3>5. m \in Between(0, cursor)
      BY <2>1, <3>4, Numbers, BetweenFact
    <3>6. m \in handled \cup jumped
      BY <3>5 DEF NoNSULost
    <3> QED BY <1>0, <2>1, <2>3, <3>6 DEF TypeOK, handled
  <2> QED BY <2>2, <2>3
<1> QED BY <1>4, <1>5, <1>6 DEF WalkInv

\* The items of a batch.
LEMMA ItemWalk ==
    ASSUME TypeOK, WalkInv, NoNSULost, NEW n \in NSU,
           SkipStale(n) \/ StoreItem(n) \/ StoreItemFails(n) \/ PoisonItem(n) \/ GiveUp(n)
    PROVE  WalkInv' /\ NoNSULost'
<1>1. CASE SkipStale(n)
  <2>1. /\ pc = "items" /\ pc' = "items" /\ n <= c /\ n \in batch.items
        /\ batch' = [batch EXCEPT !.items = @ \ {n}]
        /\ UNCHANGED <<c, last, fresh, cursor, fate, jumped>>
    BY <1>1 DEF SkipStale, stored, history, NextItem
  <2>2. /\ batch'.items = batch.items \ {n}
        /\ batch'.next = batch.next /\ batch'.reason = batch.reason /\ batch'.done = batch.done
    BY <2>1 DEF TypeOK, Batch
  <2>3. n \notin Between(Reached, batch.next)
    <3>1. Reached \in Nat /\ c <= Reached
      BY <2>1, Numbers DEF Reached, WalkInv, BatchExact
    <3> QED BY <2>1, <3>1, Numbers, BetweenFact
  <2>4. BatchExact'
    <3>1. Reached' = Reached
      BY <2>1 DEF Reached
    <3>2. Between(Reached, batch.next)' = Between(Reached, batch.next)
      BY <2>2, <3>1 DEF Between, Present
    <3> QED BY <2>1, <2>2, <2>3, <3>1, <3>2 DEF WalkInv, BatchExact
  <2>5. LastPersisted' /\ CursorInStep' /\ GivingUp' /\ BatchClosed'
    BY <2>1, <2>2 DEF WalkInv, LastPersisted, CursorInStep, InStep, GivingUp, BatchClosed
  <2> QED BY <2>1, <2>4, <2>5, NothingNewLost DEF WalkInv
<1>2. CASE StoreItem(n)
  <2>1. FateOf(n) \in Fates \ {"unseen"}
    BY DEF FateOf, Fates
  <2>2. c < n
    BY <1>2, Numbers DEF StoreItem
  <2> QED BY <1>2, <2>1, <2>2, CommitWalk DEF StoreItem
<1>3. CASE StoreItemFails(n)
  <2>1. cursor' = cursor /\ fate' = fate /\ jumped' = jumped
    BY <1>3 DEF StoreItemFails, FailedProgress, history, WalkInv, LastPersisted
  <2> QED BY <1>3, <2>1, StopWalk, NothingNewLost DEF StoreItemFails
<1>4. CASE PoisonItem(n)
  <2>1. cursor' = cursor /\ fate' = fate /\ jumped' = jumped
    BY <1>4 DEF PoisonItem, FailedProgress, WalkInv, LastPersisted
  <2>2. WalkInv'
    <3>1. CASE Attempts(n) < MaxAttempts
      BY <1>4, <3>1, WalkStopped DEF PoisonItem, Stop
    <3>2. CASE ~(Attempts(n) < MaxAttempts)
      <4>1. /\ pc = "items" /\ pc' = "giveup" /\ n > c /\ NextItem(n)
            /\ UNCHANGED <<c, last, batch, fresh, cursor>>
        BY <1>4, <2>1, <3>2 DEF PoisonItem, memory
      <4>2. GivingUp'
        <5> SUFFICES ASSUME NEW m \in NSU, NextItem(m)
                     PROVE  m > c
          BY <4>1 DEF GivingUp, NextItem
        <5>1. m <= n /\ n <= m
          BY <4>1 DEF NextItem
        <5> QED BY <4>1, <5>1, Numbers
      <4> QED BY <4>1, <4>2 DEF WalkInv, LastPersisted, CursorInStep, InStep, BatchExact, Reached, BatchClosed
    <3> QED BY <3>1, <3>2
  <2> QED BY <2>1, <2>2, NothingNewLost
<1>5. CASE GiveUp(n)
  <2>1. CASE Commit(n, "given_up")
    <3>1. c < n
      BY <1>5, Numbers DEF GiveUp, WalkInv, GivingUp
    <3>2. "given_up" \in Fates \ {"unseen"}
      BY DEF Fates
    <3> QED BY <1>5, <2>1, <3>1, <3>2, CommitWalk DEF GiveUp
  <2>2. CASE (StopInterrupted \/ StopFailed) /\ UNCHANGED <<published, stored, run, history>>
    BY <2>2, StopWalk, NothingNewLost DEF stored, history
  <2> QED BY <1>5, <2>1, <2>2 DEF GiveUp
<1> QED BY <1>1, <1>2, <1>3, <1>4, <1>5

\* The end of a batch: nothing is left between the cursor and its end.
LEMMA ItemsDoneWalk ==
    ASSUME TypeOK, WalkInv, ItemsDone
    PROVE  WalkInv' /\ UNCHANGED <<cursor, fate, jumped>>
<1>0. /\ pc = "items" /\ batch.items = {}
      /\ last' = IF batch.next > last THEN batch.next ELSE last
      /\ pc' = IF ~fresh \/ batch.next > last THEN "checkpoint" ELSE "mark"
      /\ UNCHANGED <<c, batch, fresh, cursor, fate, jumped>>
  BY DEF ItemsDone, stored, history
<1>1. /\ last = cursor /\ c <= batch.next
      /\ batch.reason # "consumo_indevido" => Between(Reached, batch.next) = {}
      /\ batch.reason = "consumo_indevido" => ~fresh /\ batch.done
      /\ fresh => c < last /\ last <= batch.next
  BY <1>0 DEF WalkInv, LastPersisted, BatchExact
<1>2. ~fresh => c = cursor \/ (c < cursor /\ Between(0, c) = {})
  BY <1>0, <1>1 DEF WalkInv, CursorInStep, InStep
<1>3. LastPersisted' /\ CursorInStep' /\ BatchExact' /\ GivingUp'
  BY <1>0, <1>1, Numbers DEF LastPersisted, CursorInStep, BatchExact, GivingUp
<1>4. ASSUME pc' = "checkpoint", batch.reason # "consumo_indevido"
      PROVE  /\ Between(cursor, batch.next) = {}
             /\ batch.next < cursor => Between(0, batch.next) = {}
  <2>1. CASE fresh
    BY <1>1, <2>1, Numbers DEF Reached
  <2>2. CASE ~fresh /\ c = cursor
    BY <1>1, <1>4, <2>2, Numbers DEF Reached
  <2>3. CASE ~fresh /\ c < cursor /\ Between(0, c) = {}
    <3>1. Between(c, batch.next) = {}
      BY <1>1, <1>4, <2>3 DEF Reached
    <3>2. Between(0, batch.next) = {}
      <4> SUFFICES ASSUME NEW m \in Between(0, batch.next)
                   PROVE  FALSE
        OBVIOUS
      <4>1. m \in Present /\ m \in Nat /\ 0 < m /\ m <= batch.next
        BY Numbers, BetweenFact
      <4>2. CASE m <= c
        BY <2>3, <4>1, <4>2, Numbers, BetweenFact
      <4>3. CASE c < m
        BY <3>1, <4>1, <4>3, Numbers, BetweenFact
      <4> QED BY <4>1, <4>2, <4>3, Numbers
    <3>3. Between(cursor, batch.next) = {}
      BY <3>2, Numbers, BetweenLarger
    <3> QED BY <3>2, <3>3
  <2> QED BY <1>2, <2>1, <2>2, <2>3
<1>5. ASSUME pc' = "checkpoint", batch.reason = "consumo_indevido"
      PROVE  batch.done /\ c <= batch.next /\ InStep(cursor)
  BY <1>1, <1>2, <1>5 DEF InStep
<1>6. ASSUME pc' = "mark"
      PROVE  batch.next = last'
  BY <1>0, <1>1, <1>6, Numbers
<1>7. BatchClosed'
  BY <1>0, <1>4, <1>5, <1>6 DEF BatchClosed, InStep, Between, Present
<1> QED BY <1>0, <1>3, <1>7 DEF WalkInv

LEMMA CheckpointWalk ==
    ASSUME TypeOK, WalkInv, NoNSULost, Checkpoint
    PROVE  WalkInv' /\ NoNSULost'
<1>1. CASE StopInterrupted \/ StopFailed
  <2>1. CASE UNCHANGED <<cursor, unrecorded, jumped>>
    BY <1>1, <2>1, StopWalk, NothingNewLost DEF Checkpoint
  <2>2. CASE pc' = "mark"
    BY <1>1, <2>2, StopWalk
  <2> QED BY <2>1, <2>2 DEF Checkpoint
<1>2. CASE ~(StopInterrupted \/ StopFailed)
  <2>0. /\ pc = "checkpoint" /\ pc' = "mark" /\ cursor' = last
        /\ jumped' = IF batch.reason = "consumo_indevido"
                       THEN jumped \cup (Between(c, batch.next) \ handled)
                       ELSE jumped
        /\ UNCHANGED <<c, last, batch, fresh, fate>>
    BY <1>2 DEF Checkpoint, memory
  <2>1. last = IF batch.next > cursor THEN batch.next ELSE cursor
    BY <2>0 DEF WalkInv, LastPersisted
  <2>2. /\ batch.reason # "consumo_indevido" =>
              Between(cursor, batch.next) = {} /\ (batch.next < cursor => Between(0, batch.next) = {})
        /\ batch.reason = "consumo_indevido" => batch.done /\ c <= batch.next /\ InStep(cursor)
    BY <2>0 DEF WalkInv, BatchClosed
  <2>3. LastPersisted' /\ CursorInStep' /\ BatchExact' /\ GivingUp'
    BY <2>0 DEF LastPersisted, CursorInStep, BatchExact, GivingUp
  <2>4. BatchClosed'
    <3>1. ~batch.done => batch.next = last \/ (batch.next < last /\ Between(0, batch.next) = {})
      BY <2>1, <2>2, Numbers
    <3> QED BY <2>0, <3>1 DEF BatchClosed, Between, Present
  <2>5. NoNSULost'
    <3> SUFFICES ASSUME NEW m \in Between(0, last)
                 PROVE  m \in handled \cup jumped'
      BY <2>0 DEF NoNSULost, handled, Between, Present
    <3>1. m \in Present /\ m \in Nat /\ 0 < m /\ m <= last
      BY Numbers, BetweenFact
    <3>2. CASE m <= cursor
      <4>1. m \in Between(0, cursor)
        BY <3>1, <3>2, Numbers, BetweenFact
      <4> QED BY <2>0, <4>1 DEF NoNSULost
    <3>3. CASE cursor < m
      <4>1. m <= batch.next /\ m \in Between(cursor, batch.next)
        BY <2>1, <3>1, <3>3, Numbers, BetweenFact
      <4>2. batch.reason = "consumo_indevido" /\ (c = cursor \/ c < cursor)
        BY <2>2, <4>1 DEF InStep
      <4>3. m \in Between(c, batch.next)
        BY <3>1, <3>3, <4>1, <4>2, Numbers, BetweenFact
      <4> QED BY <2>0, <4>2, <4>3
    <3> QED BY <3>1, <3>2, <3>3, Numbers
  <2> QED BY <2>3, <2>4, <2>5 DEF WalkInv
<1> QED BY <1>1, <1>2

\* The steps that touch neither the documents nor the persisted cursor.
LEMMA LoopWalk ==
    ASSUME TypeOK, WalkInv,
           Top \/ FetchFails \/ RecordWait \/ MarkInitialSyncCompleted \/ AfterBatch \/ FinishRun
    PROVE  WalkInv' /\ UNCHANGED <<cursor, fate, jumped>>
<1>1. CASE Top
  <2>1. UNCHANGED <<cursor, fate, jumped>>
    BY <1>1 DEF Top, stored, history
  <2>2. CASE pc' = "finish"
    BY <2>1, <2>2, WalkStopped
  <2>3. CASE pc' = "fetch" /\ UNCHANGED memory
    BY <1>1, <2>1, <2>3 DEF Top, memory, WalkInv, LastPersisted, CursorInStep, InStep,
           BatchExact, GivingUp, BatchClosed
  <2> QED BY <1>1, <2>2, <2>3 DEF Top, StopInterrupted, StopFailed, Stop
<1>2. CASE FetchFails
  BY <1>2, WalkStopped DEF FetchFails, StopInterrupted, Stop, stored, history
<1>3. CASE RecordWait
  <2>1. UNCHANGED <<cursor, fate, jumped>>
    BY <1>3 DEF RecordWait, stored
  <2>2. CASE pc' = "items" /\ UNCHANGED memory
    <3>1. pc = "wait" /\ UNCHANGED <<c, last, batch, fresh, cursor>>
      BY <1>3, <2>1, <2>2 DEF RecordWait, memory
    <3>2. BatchExact'
      BY <2>2, <3>1 DEF WalkInv, BatchExact, Reached, Between, Present
    <3> QED BY <2>1, <2>2, <3>1, <3>2 DEF WalkInv, LastPersisted, CursorInStep, InStep, GivingUp,
               BatchClosed
  <2>3. CASE StopFailed
    BY <2>1, <2>3, StopWalk
  <2> QED BY <1>3, <2>2, <2>3 DEF RecordWait
<1>4. CASE MarkInitialSyncCompleted
  <2>1. UNCHANGED <<cursor, fate, jumped>>
    BY <1>4 DEF MarkInitialSyncCompleted, history
  <2>2. CASE pc' = "after" /\ UNCHANGED memory
    <3>1. pc = "mark" /\ UNCHANGED <<c, last, batch, fresh, cursor>>
      BY <1>4, <2>1, <2>2 DEF MarkInitialSyncCompleted, memory
    <3> QED BY <2>1, <2>2, <3>1 DEF WalkInv, LastPersisted, CursorInStep, BatchExact, GivingUp,
               BatchClosed, InStep, Between, Present
  <2>3. CASE StopInterrupted \/ StopFailed
    BY <2>1, <2>3, StopWalk
  <2> QED BY <1>4, <2>2, <2>3 DEF MarkInitialSyncCompleted
<1>5. CASE AfterBatch
  <2>1. UNCHANGED <<cursor, fate, jumped>>
    BY <1>5 DEF AfterBatch, stored, history
  <2>2. CASE pc' = "finish"
    BY <2>1, <2>2, WalkStopped
  <2>3. CASE ~batch.done /\ c' = batch.next /\ pc' = "top" /\ last' = last
    <3>1. pc = "after" /\ last = cursor
      BY <1>5 DEF AfterBatch, WalkInv, LastPersisted
    <3>2. batch.next = last \/ (batch.next < last /\ Between(0, batch.next) = {})
      BY <2>3, <3>1 DEF WalkInv, BatchClosed
    <3> QED BY <2>1, <2>3, <3>1, <3>2 DEF WalkInv, LastPersisted, CursorInStep, InStep,
               BatchExact, GivingUp, BatchClosed, Between, Present
  <2> QED BY <1>5, <2>2, <2>3 DEF AfterBatch, StopInterrupted, Stop
<1>6. CASE FinishRun
  BY <1>6, WalkStopped DEF FinishRun, ForgetMemory, stored, history
<1> QED BY <1>1, <1>2, <1>3, <1>4, <1>5, <1>6

LEMMA WalkStep ==
    ASSUME IInv, [Next]_vars
    PROVE  WalkInv' /\ NoNSULost'
<1>0. TypeOK /\ WalkInv /\ NoNSULost
  BY DEF IInv
<1>1. CASE Publish
  <2>1. UNCHANGED <<pc, c, last, batch, fresh, cursor, fate, jumped>>
    BY <1>1 DEF Publish, stored, memory, history
  <2> QED BY <1>0, <2>1, WalkSame, NothingNewLost
<1>2. ASSUME NEW mode \in Modes, Start(mode)
      PROVE  WalkInv' /\ NoNSULost'
  <2>1. /\ pc' = "top" /\ last' = cursor /\ UNCHANGED <<cursor, fate, jumped>>
        /\ c' = 0 \/ c' = cursor
    BY <1>2 DEF Start, LastFromState, stored, history
  <2>2. InStep(last)'
    <3>1. Between(0, 0) = {}
      BY BetweenNothing
    <3> QED BY <1>0, <2>1, <3>1, Numbers DEF InStep, Between, Present
  <2> QED BY <1>0, <2>1, <2>2, NothingNewLost DEF WalkInv, LastPersisted, CursorInStep, BatchExact,
             GivingUp, BatchClosed
<1>3. CASE Cancel
  <2>1. UNCHANGED <<pc, c, last, batch, fresh, cursor, fate, jumped>>
    BY <1>3 DEF Cancel, stored, history
  <2> QED BY <1>0, <2>1, WalkSame, NothingNewLost
<1>4. CASE Answer \/ OddAnswer
  BY <1>0, <1>4, AnswerWalk, NothingNewLost
<1>5. CASE Top \/ FetchFails \/ RecordWait \/ MarkInitialSyncCompleted \/ AfterBatch \/ FinishRun
  BY <1>0, <1>5, LoopWalk, NothingNewLost
<1>6. CASE ItemsDone
  BY <1>0, <1>6, ItemsDoneWalk, NothingNewLost
<1>7. CASE Crash
  BY <1>0, <1>7, WalkStopped, NothingNewLost DEF Crash, ForgetMemory, stored
<1>8. CASE Reset
  <2>1. WalkInv'
    BY <1>8, WalkStopped DEF Reset
  <2>2. NoNSULost'
    <3>1. Between(0, 0) = {}
      BY BetweenNothing
    <3> QED BY <1>8, <3>1 DEF Reset, NoNSULost, Between, Present
  <2> QED BY <2>1, <2>2
<1>9. CASE UNCHANGED vars
  <2>1. UNCHANGED <<pc, c, last, batch, fresh, cursor, fate, jumped>>
    BY <1>9 DEF vars, stored, memory, history
  <2> QED BY <1>0, <2>1, WalkSame, NothingNewLost
<1> QED BY <1>0, <1>1, <1>2, <1>3, <1>4, <1>5, <1>6, <1>7, <1>8, <1>9, ItemWalk, CheckpointWalk
        DEF Next, Loop

LEMMA InvInit == Init => IInv
<1> SUFFICES ASSUME Init PROVE IInv
  OBVIOUS
<1>1. WalkInv
  BY DEF Init, WalkInv, LastPersisted, CursorInStep, BatchExact, GivingUp, BatchClosed
<1>2. Between(0, 0) = {}
  BY BetweenNothing
<1>3. NoNSULost
  BY <1>2 DEF Init, NoNSULost
<1> QED BY <1>1, <1>3, TypeInit DEF IInv

\* Whatever crash, cancel, failed write, odd answer, walk from the start or
\* reset came before, everything at or below the persisted cursor was dealt
\* with, or the authority moved the cursor over it.
THEOREM NothingLost == Spec => []NoNSULost
<1>1. Init => IInv
  BY InvInit
<1>2. IInv /\ [Next]_vars => IInv'
  BY TypeStep, WalkStep DEF IInv
<1>3. IInv => NoNSULost
  BY DEF IInv
<1> QED BY <1>1, <1>2, <1>3, PTL DEF Spec

-----------------------------------------------------------------------------
(* The loop implements the feed                                            *)

LEMMA FeedSame ==
    ASSUME UNCHANGED <<cursor, fate, jumped>>
    PROVE  UNCHANGED Feed!feedVars
    BY DEF Feed!feedVars, handled

\* A commit takes the next document, or the first one again.
LEMMA CommitFeed ==
    ASSUME TypeOK, WalkInv, NoNSULost, NEW n \in NSU, NEW f \in Fates \ {"unseen"},
           pc \in {"items", "giveup"}, NextItem(n), c < n, Commit(n, f)
    PROVE  Feed!Next
<1>0. /\ cursor' = n /\ jumped' = jumped /\ fate' = [fate EXCEPT ![n] = f]
  BY DEF Commit
<1>1. handled' = handled \cup {n}
  BY <1>0 DEF TypeOK, handled, Fates
<1>2. /\ n \in batch.items /\ \A m \in batch.items : n <= m
      /\ batch.items \subseteq Between(0, batch.next)
      /\ batch.reason # "consumo_indevido"
      /\ Between(Reached, batch.next) \subseteq batch.items
      /\ n > Reached /\ last = cursor
  BY DEF NextItem, WalkInv, BatchExact, LastPersisted
<1>3. Reached \in Nat /\ n \in Nat /\ n \in Present /\ n <= batch.next
  BY <1>2, Numbers, BetweenFact DEF Reached
<1>4. ASSUME NEW m \in Present, m # n, m <= n
      PROVE  ~(Reached < m)
  <2>1. m \in Nat /\ m < n /\ m <= batch.next
    BY <1>3, <1>4, Numbers
  <2>2. m \notin batch.items
    BY <1>2, <1>3, <2>1
  <2> QED BY <1>2, <1>3, <2>1, <2>2, Numbers, BetweenFact
<1>5. CASE Reached = cursor
  <2>1. Feed!Between(cursor, n) = {n}
    BY <1>2, <1>3, <1>4, <1>5 DEF Feed!Between
  <2>2. Feed!Take(n)
    BY <1>0, <1>1, <2>1 DEF Feed!Take
  <2> QED BY <1>3, <2>2 DEF Feed!Next
<1>6. CASE Reached # cursor
  <2>1. ~fresh /\ Reached = c /\ c < cursor /\ Between(0, c) = {}
    BY <1>2, <1>6 DEF Reached, WalkInv, CursorInStep, InStep
  <2>2. ASSUME NEW m \in Present, 0 < m, m <= n
        PROVE  m = n
    <3>1. CASE c < m
      BY <1>4, <2>1, <2>2, <3>1
    <3>2. CASE ~(c < m)
      <4>1. m \in Between(0, c)
        BY <2>2, <3>2, Numbers, BetweenFact
      <4> QED BY <2>1, <4>1
    <3> QED BY <3>1, <3>2
  <2>3. CASE n <= cursor
    <3>1. 0 < n /\ \A m \in Present : 0 < m /\ m <= n <=> m = n
      BY <1>3, <2>2, Numbers
    <3>2. Feed!Between(0, n) = {n}
      BY <1>3, <3>1 DEF Feed!Between
    <3>3. Feed!Rewind(n)
      BY <1>0, <1>1, <2>3, <3>2 DEF Feed!Rewind
    <3> QED BY <1>3, <3>3 DEF Feed!Next
  <2>4. CASE cursor < n
    <3>1. \A m \in Present : cursor < m /\ m <= n <=> m = n
      BY <1>3, <2>2, <2>4, Numbers
    <3>2. Feed!Between(cursor, n) = {n}
      BY <1>3, <3>1 DEF Feed!Between
    <3>3. Feed!Take(n)
      BY <1>0, <1>1, <3>2 DEF Feed!Take
    <3> QED BY <1>3, <3>3 DEF Feed!Next
  <2> QED BY <1>3, <2>3, <2>4, Numbers
<1> QED BY <1>5, <1>6

LEMMA ItemFeed ==
    ASSUME TypeOK, WalkInv, NoNSULost, NEW n \in NSU,
           SkipStale(n) \/ StoreItem(n) \/ StoreItemFails(n) \/ PoisonItem(n) \/ GiveUp(n)
    PROVE  Feed!Next \/ UNCHANGED Feed!feedVars
<1>1. CASE SkipStale(n)
  BY <1>1, FeedSame DEF SkipStale, stored, history
<1>2. CASE StoreItem(n)
  <2>1. FateOf(n) \in Fates \ {"unseen"}
    BY DEF FateOf, Fates
  <2>2. c < n
    BY <1>2, Numbers DEF StoreItem
  <2> QED BY <1>2, <2>1, <2>2, CommitFeed DEF StoreItem
<1>3. CASE StoreItemFails(n)
  <2>1. cursor' = cursor /\ fate' = fate /\ jumped' = jumped
    BY <1>3 DEF StoreItemFails, FailedProgress, history, WalkInv, LastPersisted
  <2> QED BY <2>1, FeedSame
<1>4. CASE PoisonItem(n)
  <2>1. cursor' = cursor /\ fate' = fate /\ jumped' = jumped
    BY <1>4 DEF PoisonItem, FailedProgress, WalkInv, LastPersisted
  <2> QED BY <2>1, FeedSame
<1>5. CASE GiveUp(n)
  <2>1. CASE Commit(n, "given_up")
    <3>1. c < n
      BY <1>5, Numbers DEF GiveUp, WalkInv, GivingUp
    <3>2. "given_up" \in Fates \ {"unseen"}
      BY DEF Fates
    <3> QED BY <1>5, <2>1, <3>1, <3>2, CommitFeed DEF GiveUp
  <2>2. CASE UNCHANGED <<published, stored, run, history>>
    BY <2>2, FeedSame DEF stored, history
  <2> QED BY <1>5, <2>1, <2>2 DEF GiveUp
<1> QED BY <1>1, <1>2, <1>3, <1>4, <1>5

\* A checkpoint passes over numbers that carry nothing, or jumps where the
\* authority said so.
LEMMA CheckpointFeed ==
    ASSUME TypeOK, WalkInv, NoNSULost, Checkpoint
    PROVE  Feed!Next \/ UNCHANGED Feed!feedVars
<1>1. CASE UNCHANGED <<cursor, unrecorded, jumped>>
  BY <1>1, FeedSame DEF Checkpoint
<1>2. CASE ~(UNCHANGED <<cursor, unrecorded, jumped>>)
  <2>0. /\ pc = "checkpoint" /\ cursor' = last /\ fate' = fate
        /\ jumped' = IF batch.reason = "consumo_indevido"
                       THEN jumped \cup (Between(c, batch.next) \ handled)
                       ELSE jumped
    BY <1>2 DEF Checkpoint
  <2>1. /\ last = IF batch.next > cursor THEN batch.next ELSE cursor
        /\ batch.reason # "consumo_indevido" => Between(cursor, batch.next) = {}
        /\ batch.reason = "consumo_indevido" => c <= batch.next /\ InStep(cursor)
        /\ handled' = handled
    BY <2>0 DEF WalkInv, LastPersisted, BatchClosed, handled
  <2>2. \A m \in Present : m \in Nat /\ 0 < m
    BY Numbers
  <2>3. ASSUME NEW m \in Present, m <= cursor
        PROVE  m \in handled \cup jumped
    BY <2>2, <2>3, Numbers, BetweenFact DEF NoNSULost
  <2>4. CASE batch.next > cursor
    <3>1. cursor' = batch.next /\ cursor' \in Nat /\ cursor' > cursor
      BY <2>0, <2>1, <2>4, Numbers
    <3>2. CASE batch.reason # "consumo_indevido"
      <4>1. Feed!Between(cursor, cursor') = {}
        BY <2>1, <3>1, <3>2 DEF Feed!Between, Between
      <4>2. Feed!Pass
        BY <2>0, <2>1, <3>1, <3>2, <4>1 DEF Feed!Pass
      <4> QED BY <4>2 DEF Feed!Next
    <3>3. CASE batch.reason = "consumo_indevido"
      <4>1. jumped' = jumped \cup (Between(c, batch.next) \ handled)
        BY <2>0, <3>3
      <4>2. c <= cursor
        BY <2>1, <3>3, Numbers DEF InStep
      <4>3. \A m \in Present : cursor < m => c < m
        BY <2>2, <4>2, Numbers
      <4>4. \A m \in Present : ~(cursor < m) => m \in handled \cup jumped
        BY <2>2, <2>3, Numbers
      <4>5. jumped' = jumped \cup (Feed!Between(cursor, cursor') \ handled)
        BY <3>1, <4>1, <4>3, <4>4 DEF Feed!Between, Between
      <4>6. Feed!Jump
        BY <2>1, <3>1, <4>5 DEF Feed!Jump
      <4> QED BY <4>6 DEF Feed!Next
    <3> QED BY <3>2, <3>3
  <2>5. CASE ~(batch.next > cursor)
    <3>1. cursor' = cursor
      BY <2>0, <2>1, <2>5
    <3>2. \A m \in Present : m <= batch.next => m <= cursor
      BY <2>2, <2>5, Numbers
    <3>3. Between(c, batch.next) \ handled \subseteq jumped
      BY <2>3, <3>2 DEF Between
    <3>4. jumped' = jumped
      BY <2>0, <3>3
    <3> QED BY <2>0, <3>1, <3>4, FeedSame
  <2> QED BY <2>4, <2>5
<1> QED BY <1>1, <1>2

LEMMA FeedStep ==
    ASSUME IInv, [Next]_vars
    PROVE  [Feed!Next]_(Feed!feedVars)
<1>0. TypeOK /\ WalkInv /\ NoNSULost
  BY DEF IInv
<1>1. CASE Reset
  <2>1. handled' \in {handled, {}}
    BY <1>1 DEF Reset, handled
  <2>2. Feed!Restart
    BY <1>1, <2>1 DEF Reset, Feed!Restart
  <2> QED BY <2>2 DEF Feed!Next
<1>2. CASE Publish \/ (\E mode \in Modes : Start(mode)) \/ Cancel \/ Crash \/ UNCHANGED vars
  <2>1. UNCHANGED <<cursor, fate, jumped>>
    BY <1>2 DEF Publish, Start, Cancel, Crash, vars, stored, history
  <2> QED BY <2>1, FeedSame
<1>3. CASE Answer \/ OddAnswer
  BY <1>0, <1>3, AnswerWalk, FeedSame
<1>4. CASE Top \/ FetchFails \/ RecordWait \/ MarkInitialSyncCompleted \/ AfterBatch \/ FinishRun
  BY <1>0, <1>4, LoopWalk, FeedSame
<1>5. CASE ItemsDone
  BY <1>0, <1>5, ItemsDoneWalk, FeedSame
<1>6. CASE Checkpoint
  BY <1>0, <1>6, CheckpointFeed
<1> QED BY <1>0, <1>1, <1>2, <1>3, <1>4, <1>5, <1>6, ItemFeed DEF Next, Loop

\* The loop keeps what a distribution cursor promises: every behaviour of it
\* is one of the feed.
THEOREM ImplementsFeed == Spec => FeedSpec
<1>1. Init => IInv
  BY InvInit
<1>2. IInv /\ [Next]_vars => IInv'
  BY TypeStep, WalkStep DEF IInv
<1>3. Init => Feed!Init
  BY DEF Init, Feed!Init, handled
<1>4. IInv /\ [Next]_vars => [Feed!Next]_(Feed!feedVars)
  BY FeedStep
<1> QED BY <1>1, <1>2, <1>3, <1>4, PTL DEF Spec, FeedSpec, Feed!Spec

-----------------------------------------------------------------------------
(* The wait                                                                *)

\* An answer that asks for a wait is followed by the record of the wait, a
\* failure of that write, or the end of the process: no cancel comes between.
THEOREM WaitRecorded == Spec => []WaitSurvivesCancel
<1>1. Init => WaitSurvivesCancel
  BY DEF Init, WaitSurvivesCancel
<1>2. WaitSurvivesCancel /\ [Next]_vars => WaitSurvivesCancel'
  <2> SUFFICES ASSUME WaitSurvivesCancel, [Next]_vars
               PROVE  WaitSurvivesCancel'
    OBVIOUS
  <2>1. CASE Answer \/ OddAnswer
    <3>1. \A b : Deliver(b) => (owed' => pc' = "wait")
      BY DEF Deliver
    <3>2. owed' => pc' = "wait"
      <4>1. CASE AnswerDocuments
        BY <3>1, <4>1, Zenon DEF AnswerDocuments
      <4>2. CASE AnswerNothing
        BY <3>1, <4>2, Zenon DEF AnswerNothing
      <4>3. CASE AnswerConsumoIndevido
        BY <3>1, <4>3, Zenon DEF AnswerConsumoIndevido
      <4>4. CASE AnswerADN
        BY <3>1, <4>4, Zenon DEF AnswerADN
      <4>5. CASE AnswerStale
        BY <3>1, <4>5, Zenon DEF AnswerStale
      <4> QED BY <2>1, <4>1, <4>2, <4>3, <4>4, <4>5 DEF Answer, OddAnswer
    <3> QED BY <3>2 DEF WaitSurvivesCancel
  <2>2. CASE RecordWait
    BY <2>2 DEF RecordWait, WaitSurvivesCancel
  <2>3. CASE Crash
    BY <2>3 DEF Crash, WaitSurvivesCancel
  <2>4. CASE Publish \/ Cancel \/ UNCHANGED vars
    BY <2>4 DEF Publish, Cancel, vars, memory, history, WaitSurvivesCancel
  <2>5. CASE Reset \/ \E mode \in Modes : Start(mode)
    BY <2>5 DEF Reset, Start, history, WaitSurvivesCancel
  <2>6. CASE Top \/ FetchFails \/ ItemsDone \/ Checkpoint \/ MarkInitialSyncCompleted \/ AfterBatch \/ FinishRun
    BY <2>6 DEF Top, FetchFails, ItemsDone, Checkpoint, MarkInitialSyncCompleted, AfterBatch, FinishRun,
           history, WaitSurvivesCancel
  <2>7. ASSUME NEW n \in NSU,
               SkipStale(n) \/ StoreItem(n) \/ StoreItemFails(n) \/ PoisonItem(n) \/ GiveUp(n)
        PROVE  WaitSurvivesCancel'
    BY <2>7 DEF SkipStale, StoreItem, StoreItemFails, PoisonItem, GiveUp, Commit, history,
           WaitSurvivesCancel
  <2> QED BY <2>1, <2>2, <2>3, <2>4, <2>5, <2>6, <2>7 DEF Next, Loop
<1> QED BY <1>1, <1>2, PTL DEF Spec

-----------------------------------------------------------------------------
(* Giving up                                                               *)

\* The count of the row never runs ahead of the failures that happened.
FailedCounted == failed.nsu \in NSU => failed.attempts <= failures[failed.nsu]

EarnedInv == TypeOK /\ FailedCounted /\ GiveUpIsEarned

LEMMA EarnedItem ==
    ASSUME EarnedInv, NEW n \in NSU,
           SkipStale(n) \/ StoreItem(n) \/ StoreItemFails(n) \/ PoisonItem(n) \/ GiveUp(n)
    PROVE  FailedCounted' /\ GiveUpIsEarned'
<1>0. TypeOK /\ FailedCounted /\ GiveUpIsEarned
  BY DEF EarnedInv
<1>1. CASE PoisonItem(n)
  <2>1. /\ NextItem(n) /\ KindOf[n] = "poison"
        /\ failed' = [nsu |-> n, attempts |-> Attempts(n)]
        /\ failures' = [failures EXCEPT ![n] = IF @ < MaxAttempts THEN @ + 1 ELSE MaxAttempts]
    BY <1>1 DEF PoisonItem
  <2>2. failures[n] \in 0 .. MaxAttempts /\ failed.attempts \in 0 .. MaxAttempts
    BY <1>0 DEF TypeOK
  <2>3. failures'[n] = IF failures[n] < MaxAttempts THEN failures[n] + 1 ELSE MaxAttempts
    BY <1>0, <2>1 DEF TypeOK
  <2>4. Attempts(n) <= failures'[n]
    <3>1. failed.nsu = n => failed.attempts <= failures[n]
      BY <1>0 DEF FailedCounted
    <3> QED BY <2>2, <2>3, <3>1, ConstantFacts DEF Attempts
  <2>5. FailedCounted'
    BY <2>1, <2>4 DEF FailedCounted
  <2>6. GiveUpIsEarned'
    <3>1. CASE Attempts(n) < MaxAttempts
      BY <1>1, <3>1 DEF PoisonItem, Stop, GiveUpIsEarned
    <3>2. CASE ~(Attempts(n) < MaxAttempts)
      <4>1. batch' = batch
        BY <1>1, <3>2 DEF PoisonItem, memory
      <4>2. failures'[n] >= MaxAttempts
        BY <2>2, <2>3, <2>4, <3>2, ConstantFacts DEF Attempts
      <4>3. \A m \in NSU : NextItem(m)' => m = n
        BY <2>1, <4>1, Numbers, <1>0 DEF NextItem
      <4> QED BY <2>1, <4>2, <4>3 DEF GiveUpIsEarned
    <3> QED BY <3>1, <3>2
  <2> QED BY <2>5, <2>6
<1>2. CASE SkipStale(n) \/ StoreItem(n) \/ StoreItemFails(n) \/ GiveUp(n)
  <2>1. failed' = failed /\ failures' = failures /\ pc' # "giveup"
    BY <1>2 DEF SkipStale, StoreItem, StoreItemFails, GiveUp, Commit, StopInterrupted, StopFailed,
           Stop, stored, history
  <2> QED BY <1>0, <2>1 DEF FailedCounted, GiveUpIsEarned
<1> QED BY <1>1, <1>2

LEMMA EarnedStep ==
    ASSUME EarnedInv, [Next]_vars
    PROVE  EarnedInv'
<1>0. TypeOK /\ FailedCounted /\ GiveUpIsEarned
  BY DEF EarnedInv
<1>1. TypeOK'
  BY <1>0, TypeStep
<1>2. FailedCounted' /\ GiveUpIsEarned'
  <2>1. CASE Publish \/ Cancel \/ UNCHANGED vars
    <3>1. UNCHANGED <<failed, failures, pc, batch>>
      BY <2>1 DEF Publish, Cancel, vars, stored, memory, history
    <3> QED BY <1>0, <3>1 DEF FailedCounted, GiveUpIsEarned, NextItem
  <2>2. CASE Answer \/ OddAnswer
    <3>1. \A b : Deliver(b) => UNCHANGED <<failed, failures>> /\ pc' # "giveup"
      BY DEF Deliver, stored
    <3>2. UNCHANGED <<failed, failures>> /\ pc' # "giveup"
      <4>1. CASE AnswerDocuments
        BY <3>1, <4>1, Zenon DEF AnswerDocuments
      <4>2. CASE AnswerNothing
        BY <3>1, <4>2, Zenon DEF AnswerNothing
      <4>3. CASE AnswerConsumoIndevido
        BY <3>1, <4>3, Zenon DEF AnswerConsumoIndevido
      <4>4. CASE AnswerADN
        BY <3>1, <4>4, Zenon DEF AnswerADN
      <4>5. CASE AnswerStale
        BY <3>1, <4>5, Zenon DEF AnswerStale
      <4> QED BY <2>2, <4>1, <4>2, <4>3, <4>4, <4>5 DEF Answer, OddAnswer
    <3> QED BY <1>0, <3>2 DEF FailedCounted, GiveUpIsEarned
  <2>3. CASE Reset
    <3>1. failed' = NoFailure /\ pc = "idle" /\ pc' = pc
      BY <2>3 DEF Reset
    <3> QED BY <3>1 DEF FailedCounted, GiveUpIsEarned, NoFailure, NSU
  <2>4. CASE \/ Top \/ FetchFails \/ RecordWait \/ ItemsDone \/ Checkpoint
             \/ MarkInitialSyncCompleted \/ AfterBatch \/ FinishRun \/ Crash
             \/ \E mode \in Modes : Start(mode)
    <3>1. UNCHANGED <<failed, failures>> /\ pc' # "giveup"
      BY <2>4 DEF Top, FetchFails, RecordWait, ItemsDone, Checkpoint, MarkInitialSyncCompleted,
             AfterBatch, FinishRun, Crash, Start, ForgetMemory, StopInterrupted, StopFailed, Stop,
             stored, history
    <3> QED BY <1>0, <3>1 DEF FailedCounted, GiveUpIsEarned
  <2> QED BY <2>1, <2>2, <2>3, <2>4, EarnedItem DEF Next, Loop
<1> QED BY <1>1, <1>2 DEF EarnedInv

\* An item is given up only when it cannot be read and MaxAttempts runs failed
\* at it since the last reset (RecordItemFailure, skipPoisonItem).
THEOREM GivenUpEarned == Spec => []GiveUpIsEarned
<1>1. Init => EarnedInv
  <2>1. Init => FailedCounted
    BY DEF Init, FailedCounted, NoFailure, NSU
  <2>2. Init => GiveUpIsEarned
    BY DEF Init, GiveUpIsEarned
  <2> QED BY <2>1, <2>2, TypeInit DEF EarnedInv
<1>2. EarnedInv /\ [Next]_vars => EarnedInv'
  BY EarnedStep
<1>3. EarnedInv => GiveUpIsEarned
  BY DEF EarnedInv
<1> QED BY <1>1, <1>2, <1>3, PTL DEF Spec

-----------------------------------------------------------------------------
(* The cursor in normal mode                                               *)

\* Without a walk from the start the loop's cursor never lags the persisted
\* one, and no batch ends before it.
NoLag ==
    /\ pc \in {"top", "fetch", "wait"} => c = cursor
    /\ pc \in {"items", "giveup"} => Reached = cursor /\ c <= batch.next
    /\ pc \in {"checkpoint", "mark", "after"} => batch.next = last

LEMMA NoLagItem ==
    ASSUME IInv, NoLag, NEW n \in NSU,
           SkipStale(n) \/ StoreItem(n) \/ StoreItemFails(n) \/ PoisonItem(n) \/ GiveUp(n)
    PROVE  NoLag' /\ cursor' >= cursor
<1>0. TypeOK /\ WalkInv
  BY DEF IInv
<1>1. CASE SkipStale(n)
  <2>1. UNCHANGED <<pc, c, last, fresh, cursor>> /\ batch'.next = batch.next
    BY <1>0, <1>1 DEF SkipStale, stored, TypeOK, Batch
  <2> QED BY <1>0, <2>1, Numbers DEF NoLag, Reached
<1>2. ASSUME NEW f \in Fates, Commit(n, f), pc \in {"items", "giveup"}, NextItem(n), n > c
      PROVE  NoLag' /\ cursor' >= cursor
  <2>1. /\ pc' = "items" /\ fresh' = TRUE /\ cursor' = n /\ last' = n /\ c' = c
        /\ batch'.next = batch.next
    BY <1>0, <1>2 DEF Commit, TypeOK, Batch
  <2>2. n > Reached
    BY <1>0, <1>2 DEF WalkInv, BatchExact, NextItem
  <2>3. Reached = cursor /\ c <= batch.next
    BY <1>2 DEF NoLag
  <2> QED BY <1>0, <2>1, <2>2, <2>3, Numbers DEF NoLag, Reached
<1>3. CASE StoreItem(n)
  <2>1. FateOf(n) \in Fates
    BY DEF FateOf, Fates
  <2> QED BY <1>2, <1>3, <2>1 DEF StoreItem
<1>4. CASE StoreItemFails(n)
  <2>1. cursor' = cursor /\ pc' = "finish"
    BY <1>0, <1>4 DEF StoreItemFails, FailedProgress, WalkInv, LastPersisted, StopInterrupted,
           StopFailed, Stop
  <2> QED BY <1>0, <2>1, Numbers DEF NoLag
<1>5. CASE PoisonItem(n)
  <2>1. pc = "items" /\ last = cursor
    BY <1>0, <1>5 DEF PoisonItem, WalkInv, LastPersisted
  <2>2. CASE Attempts(n) < MaxAttempts
    BY <1>0, <1>5, <2>1, <2>2, Numbers DEF PoisonItem, FailedProgress, Stop, NoLag
  <2>3. CASE ~(Attempts(n) < MaxAttempts)
    BY <1>0, <1>5, <2>1, <2>3, Numbers DEF PoisonItem, memory, NoLag, Reached
  <2> QED BY <2>2, <2>3
<1>6. CASE GiveUp(n)
  <2>1. CASE Commit(n, "given_up")
    <3>1. "given_up" \in Fates
      BY DEF Fates
    <3>2. n > c /\ pc = "giveup" /\ NextItem(n)
      BY <1>0, <1>6 DEF GiveUp, WalkInv, GivingUp
    <3> QED BY <1>2, <2>1, <3>1, <3>2
  <2>2. CASE (StopInterrupted \/ StopFailed) /\ UNCHANGED <<published, stored, run, history>>
    BY <1>0, <2>2, Numbers DEF StopInterrupted, StopFailed, Stop, stored, NoLag
  <2> QED BY <1>6, <2>1, <2>2 DEF GiveUp
<1> QED BY <1>1, <1>3, <1>4, <1>5, <1>6

LEMMA NoLagStep ==
    ASSUME Modes \subseteq {"normal"}, IInv, NoLag, [Next]_vars
    PROVE  NoLag' /\ (cursor' >= cursor \/ (pc = "idle" /\ cursor' = 0))
<1>0. TypeOK /\ WalkInv
  BY DEF IInv
<1>1. CASE Publish \/ Cancel \/ UNCHANGED vars
  <2>1. UNCHANGED <<pc, c, last, batch, fresh, cursor>>
    BY <1>1 DEF Publish, Cancel, vars, stored, memory, history
  <2> QED BY <1>0, <2>1, Numbers DEF NoLag, Reached
<1>2. ASSUME NEW mode \in Modes, Start(mode)
      PROVE  NoLag' /\ cursor' >= cursor
  BY <1>0, <1>2, Numbers DEF Start, stored, NoLag
<1>3. CASE Answer \/ OddAnswer
  <2>1. ASSUME NEW b, Deliver(b)
        PROVE  pc = "fetch" /\ pc' \in {"wait", "items"} /\ c' = c /\ cursor' = cursor /\ fresh' = FALSE
    BY <2>1 DEF Deliver, stored
  <2>2. pc = "fetch" /\ pc' \in {"wait", "items"} /\ c' = c /\ cursor' = cursor /\ fresh' = FALSE
    <3>1. CASE AnswerDocuments
      BY <2>1, <3>1, Zenon DEF AnswerDocuments
    <3>2. CASE AnswerNothing
      BY <2>1, <3>2, Zenon DEF AnswerNothing
    <3>3. CASE AnswerConsumoIndevido
      BY <2>1, <3>3, Zenon DEF AnswerConsumoIndevido
    <3>4. CASE AnswerADN
      BY <2>1, <3>4, Zenon DEF AnswerADN
    <3>5. CASE AnswerStale
      BY <2>1, <3>5, Zenon DEF AnswerStale
    <3> QED BY <1>3, <3>1, <3>2, <3>3, <3>4, <3>5 DEF Answer, OddAnswer
  <2>3. c' <= batch'.next
    BY <1>0, <1>3, <2>2, AnswerWalk DEF WalkInv, BatchExact
  <2> QED BY <1>0, <2>2, <2>3, Numbers DEF NoLag, Reached
<1>4. CASE RecordWait
  <2>1. c <= batch.next /\ ~fresh
    BY <1>0, <1>4 DEF RecordWait, WalkInv, BatchExact
  <2> QED BY <1>0, <1>4, <2>1, Numbers DEF RecordWait, StopFailed, Stop, memory, stored, NoLag, Reached
<1>5. CASE Top \/ FetchFails
  BY <1>0, <1>5, Numbers DEF Top, FetchFails, StopInterrupted, StopFailed, Stop, memory, stored, NoLag
<1>6. CASE ItemsDone
  <2>1. /\ pc = "items" /\ pc' \in {"checkpoint", "mark"} /\ UNCHANGED <<batch, cursor>>
        /\ last' = IF batch.next > last THEN batch.next ELSE last
    BY <1>6 DEF ItemsDone, stored
  <2>2. batch.next >= last
    <3>1. fresh => last <= batch.next
      BY <1>0, <2>1 DEF WalkInv, BatchExact
    <3>2. last = cursor
      BY <1>0, <2>1 DEF WalkInv, LastPersisted
    <3>3. ~fresh => last <= batch.next
      BY <2>1, <3>2 DEF NoLag, Reached
    <3> QED BY <1>0, <3>1, <3>3, Numbers
  <2> QED BY <1>0, <2>1, <2>2, Numbers DEF NoLag
<1>7. CASE Checkpoint
  <2>1. CASE ~cancelled /\ cursor' = last /\ pc' = "mark" /\ UNCHANGED memory
    <3>1. last = IF batch.next > cursor THEN batch.next ELSE cursor
      BY <1>0, <1>7 DEF Checkpoint, WalkInv, LastPersisted
    <3> QED BY <1>0, <1>7, <2>1, <3>1, Numbers DEF Checkpoint, memory, NoLag
  <2>2. CASE (StopInterrupted \/ StopFailed) /\ cursor' = cursor
    BY <1>0, <2>2, Numbers DEF StopInterrupted, StopFailed, Stop, NoLag
  <2> QED BY <1>7, <2>1, <2>2 DEF Checkpoint
<1>8. CASE MarkInitialSyncCompleted
  BY <1>0, <1>8, Numbers DEF MarkInitialSyncCompleted, StopInterrupted, StopFailed, Stop, memory, NoLag
<1>9. CASE AfterBatch
  <2>1. pc = "after" /\ cursor' = cursor /\ last = cursor
    BY <1>0, <1>9 DEF AfterBatch, stored, WalkInv, LastPersisted
  <2>2. CASE pc' = "finish"
    BY <1>0, <2>1, <2>2, Numbers DEF NoLag
  <2>3. CASE c' = batch.next /\ pc' = "top"
    BY <1>0, <2>1, <2>3, Numbers DEF NoLag
  <2> QED BY <1>9, <2>2, <2>3 DEF AfterBatch, StopInterrupted, Stop
<1>10. CASE FinishRun \/ Crash
  BY <1>0, <1>10, Numbers DEF FinishRun, Crash, ForgetMemory, stored, NoLag
<1>11. CASE Reset
  BY <1>11 DEF Reset, NoLag
<1> QED BY <1>1, <1>2, <1>3, <1>4, <1>5, <1>6, <1>7, <1>8, <1>9, <1>10, <1>11, NoLagItem DEF Next, Loop, IInv

\* Where every walk goes on from the persisted cursor, only a reset moves it
\* back.
THEOREM CursorOnlyForward == Modes \subseteq {"normal"} => (Spec => CursorForward)
<1> SUFFICES ASSUME Modes \subseteq {"normal"} PROVE Spec => CursorForward
  OBVIOUS
<1>1. Init => IInv /\ NoLag
  BY InvInit DEF Init, NoLag
<1>2. IInv /\ [Next]_vars => IInv'
  BY TypeStep, WalkStep DEF IInv
<1>3. IInv /\ NoLag /\ [Next]_vars => NoLag' /\ [cursor' >= cursor \/ (pc = "idle" /\ cursor' = 0)]_vars
  BY NoLagStep
<1> QED BY <1>1, <1>2, <1>3, PTL DEF Spec, CursorForward

-----------------------------------------------------------------------------
(* Caught up                                                               *)

\* The batch says that nothing more exists.
SaysAll(b) == b.done /\ b.reason \in {"caught_up", "empty_limit"}

\* Such a batch reaches to all that was published when its answer came, and
\* what is left to do before the loop says so is to bring the cursor there.
AllReached ==
    /\ pc \in {"wait", "items", "giveup", "checkpoint", "mark", "after"} /\ SaysAll(batch) =>
          Between(batch.next, seen) = {}
    /\ pc \in {"checkpoint", "mark", "after"} => batch.next <= last
    /\ pc = "finish" /\ outcome.reason = "caught_up" => \A n \in Between(0, seen) : n <= cursor

\* Everything that existed when the answer came is behind the cursor.
SeenBehind == \A n \in Between(0, seen) : n \in handled \cup jumped /\ n <= cursor

\* What each step may say of being caught up.
Honest ==
    \/ ~initialDone /\ initialDone'
    \/ run'.reason = "caught_up" /\ run.reason # "caught_up"
    => SeenBehind

LEMMA ReachedBehind ==
    ASSUME TypeOK, WalkInv, NoNSULost, AllReached, pc \in {"mark", "after"}, SaysAll(batch)
    PROVE  SeenBehind /\ \A n \in Between(0, seen) : n <= cursor
<1>0. seen \in Nat
  BY ConstantFacts DEF TypeOK
<1>1. last = cursor /\ batch.next <= last /\ Between(batch.next, seen) = {}
  BY DEF WalkInv, LastPersisted, AllReached
<1>2. ASSUME NEW n \in Between(0, seen)
      PROVE  n <= cursor /\ n \in handled \cup jumped
  <2>1. n \in Present /\ n \in Nat /\ 0 < n /\ n <= seen
    BY <1>0, BetweenFact
  <2>2. n <= batch.next
    BY <1>0, <1>1, <2>1, Numbers, BetweenFact
  <2>3. n <= cursor
    BY <1>1, <2>1, <2>2, Numbers
  <2>4. n \in Between(0, cursor)
    BY <2>1, <2>3, Numbers, BetweenFact
  <2> QED BY <2>3, <2>4 DEF NoNSULost
<1> QED BY <1>2 DEF SeenBehind

\* An answer that says all reaches to all.
LEMMA AnswerReaches ==
    ASSUME TypeOK, WalkInv, Answer \/ OddAnswer
    PROVE  /\ pc' \in {"wait", "items"} /\ seen' = published
           /\ UNCHANGED <<initialDone, run>>
           /\ SaysAll(batch') => Between(batch'.next, published) = {}
<1>0. c \in Nat /\ published \in Nat
  BY Numbers
<1>1. ASSUME NEW b, Deliver(b)
      PROVE  /\ pc' \in {"wait", "items"} /\ seen' = published
             /\ UNCHANGED <<initialDone, run>> /\ batch' = b
  BY <1>1 DEF Deliver, stored
<1> USE DEF SaysAll
<1>2. CASE AnswerDocuments
  <2>1. PICK ult \in c + 1 .. published :
            Deliver([items |-> Between(c, ult), next |-> NextCursor(ult), done |-> ult >= published,
                     reason |-> IF ult >= published THEN "caught_up" ELSE "none",
                     wait |-> ult >= published])
    BY <1>2 DEF AnswerDocuments
  <2>2. NextCursor(ult) = ult /\ (ult >= published => ult = published)
    BY <1>0 DEF NextCursor
  <2>3. batch' = [items |-> Between(c, ult), next |-> NextCursor(ult), done |-> ult >= published,
                  reason |-> IF ult >= published THEN "caught_up" ELSE "none",
                  wait |-> ult >= published]
    BY <1>1, <2>1
  <2>4. batch'.done => batch'.next = published
    BY <2>2, <2>3
  <2> QED BY <1>0, <1>1, <2>1, <2>4, BetweenNothing
<1>3. CASE AnswerNothing
  <2>1. PICK ult \in {c, published} :
            Deliver([items |-> {}, next |-> NextCursor(ult), done |-> TRUE,
                     reason |-> "caught_up", wait |-> TRUE])
    BY <1>3 DEF AnswerNothing
  <2>2. batch'.next = c \/ batch'.next = published
    BY <1>1, <2>1 DEF NextCursor
  <2> QED BY <1>0, <1>1, <1>3, <2>1, <2>2, BetweenNothing DEF AnswerNothing
<1>4. CASE AnswerConsumoIndevido
  <2>1. PICK ult \in 0 .. published :
            Deliver([items |-> {}, next |-> NextCursor(ult), done |-> TRUE,
                     reason |-> "consumo_indevido", wait |-> TRUE])
    BY <1>4 DEF AnswerConsumoIndevido
  <2>2. batch'.reason = "consumo_indevido"
    BY <1>1, <2>1
  <2> QED BY <1>1, <2>1, <2>2
<1>5. CASE AnswerADN
  <2>1. PICK top \in c .. published :
            /\ Between(c, top) = {} => Between(c, published) = {}
            /\ top \in Between(c, top) \cup {c}
            /\ Deliver([items |-> Between(c, top), next |-> top, done |-> Between(c, top) = {},
                        reason |-> IF Between(c, top) = {} THEN "empty_limit" ELSE "none",
                        wait |-> FALSE])
    BY <1>5 DEF AnswerADN
  <2>2. batch' = [items |-> Between(c, top), next |-> top, done |-> Between(c, top) = {},
                  reason |-> IF Between(c, top) = {} THEN "empty_limit" ELSE "none", wait |-> FALSE]
    BY <1>1, <2>1
  <2>3. batch'.done => batch'.next = c /\ Between(c, published) = {}
    BY <2>1, <2>2
  <2> QED BY <1>1, <2>1, <2>3
<1>6. CASE AnswerStale
  <2>1. PICK top \in Between(c, published) \cup {c} :
            Deliver([items |-> Between(c, top) \cup {c}, next |-> top, done |-> FALSE,
                     reason |-> "none", wait |-> FALSE])
    BY <1>6 DEF AnswerStale
  <2>2. ~batch'.done
    BY <1>1, <2>1
  <2> QED BY <1>1, <2>1, <2>2
<1> QED BY <1>2, <1>3, <1>4, <1>5, <1>6 DEF Answer, OddAnswer

LEMMA AllReachedItem ==
    ASSUME IInv, AllReached, NEW n \in NSU,
           SkipStale(n) \/ StoreItem(n) \/ StoreItemFails(n) \/ PoisonItem(n) \/ GiveUp(n)
    PROVE  AllReached' /\ UNCHANGED <<initialDone, run>>
<1>0. TypeOK
  BY DEF IInv
<1>1. UNCHANGED <<initialDone, run, seen>>
  BY DEF SkipStale, StoreItem, StoreItemFails, PoisonItem, GiveUp, Commit, stored, history
<1>2. \/ /\ pc \in {"items", "giveup"} /\ pc' \in {"items", "giveup"}
         /\ \/ batch' = batch
            \/ batch' = [batch EXCEPT !.items = @ \ {n}]
      \/ pc' = "finish" /\ outcome'.reason \in {"context_canceled", "process_error"}
  BY DEF SkipStale, StoreItem, StoreItemFails, PoisonItem, GiveUp, Commit, StopInterrupted,
         StopFailed, Stop, memory
<1>3. CASE pc \in {"items", "giveup"} /\ pc' \in {"items", "giveup"}
  <2>1. batch'.next = batch.next /\ SaysAll(batch') = SaysAll(batch)
    BY <1>0, <1>2, <1>3 DEF TypeOK, Batch, SaysAll
  <2>2. Between(batch.next, seen)' = Between(batch.next, seen)
    BY <1>1, <2>1 DEF Between, Present
  <2> QED BY <1>1, <1>3, <2>1, <2>2 DEF AllReached
<1> QED BY <1>1, <1>2, <1>3 DEF AllReached

LEMMA AllReachedStep ==
    ASSUME IInv, AllReached, [Next]_vars
    PROVE  AllReached' /\ Honest
<1>0. TypeOK /\ WalkInv /\ NoNSULost
  BY DEF IInv
<1>01. \A n, m : Between(n, m)' = Between(n, m)
  BY DEF Between, Present
<1>02. ASSUME UNCHANGED <<initialDone, run>>
       PROVE  Honest
  BY <1>02 DEF Honest
<1>03. ASSUME StopInterrupted \/ StopFailed
       PROVE  AllReached'
  BY <1>03 DEF StopInterrupted, StopFailed, Stop, AllReached
<1>1. CASE Publish \/ Cancel \/ UNCHANGED vars
  <2>1. UNCHANGED <<pc, c, last, batch, outcome, cursor, seen, initialDone, run>>
    BY <1>1 DEF Publish, Cancel, vars, stored, memory, history
  <2> QED BY <1>02, <2>1 DEF AllReached, Between, Present, SaysAll
<1>2. ASSUME NEW mode \in Modes, Start(mode)
      PROVE  AllReached' /\ Honest
  BY <1>2 DEF Start, stored, AllReached, Honest
<1>3. CASE Answer \/ OddAnswer
  <2>1. /\ pc' \in {"wait", "items"} /\ seen' = published
        /\ UNCHANGED <<initialDone, run>>
        /\ SaysAll(batch') => Between(batch'.next, published) = {}
    BY <1>0, <1>3, AnswerReaches
  <2>2. Between(batch.next, seen)' = Between(batch'.next, published)
    BY <2>1 DEF Between, Present
  <2> QED BY <1>02, <2>1, <2>2 DEF AllReached, SaysAll
<1>4. CASE RecordWait
  <2>1. UNCHANGED <<initialDone, run, seen, cursor>>
    BY <1>4 DEF RecordWait, stored
  <2>2. CASE pc' = "items" /\ UNCHANGED memory
    <3>1. pc = "wait" /\ batch' = batch
      BY <1>4, <2>2 DEF RecordWait, memory
    <3> QED BY <1>02, <2>1, <2>2, <3>1 DEF AllReached, SaysAll, Between, Present
  <2>3. CASE StopFailed
    BY <1>02, <1>03, <2>1, <2>3
  <2> QED BY <1>4, <2>2, <2>3 DEF RecordWait
<1>5. CASE Top \/ FetchFails
  <2>1. UNCHANGED <<initialDone, run>>
    BY <1>5 DEF Top, FetchFails, stored
  <2>2. AllReached'
    BY <1>5 DEF Top, FetchFails, StopInterrupted, StopFailed, Stop, AllReached
  <2> QED BY <1>02, <2>1, <2>2
<1>6. CASE ItemsDone
  <2>1. /\ pc = "items" /\ pc' \in {"checkpoint", "mark"}
        /\ UNCHANGED <<batch, cursor, seen, initialDone, run>>
        /\ last' = IF batch.next > last THEN batch.next ELSE last
    BY <1>6 DEF ItemsDone, stored, history
  <2>2. batch'.next <= last'
    BY <1>0, <2>1, Numbers
  <2> QED BY <1>02, <2>1, <2>2 DEF AllReached, SaysAll, Between, Present
<1>7. CASE Checkpoint
  <2>1. UNCHANGED <<initialDone, run, seen>>
    BY <1>7 DEF Checkpoint
  <2>2. CASE StopInterrupted \/ StopFailed
    BY <1>02, <1>03, <2>1, <2>2
  <2>3. CASE ~(StopInterrupted \/ StopFailed)
    <3>1. pc = "checkpoint" /\ pc' = "mark" /\ UNCHANGED <<batch, last>>
      BY <1>7, <2>3 DEF Checkpoint, memory
    <3> QED BY <1>02, <2>1, <3>1 DEF AllReached, SaysAll, Between, Present
  <2> QED BY <2>2, <2>3
<1>8. CASE MarkInitialSyncCompleted
  <2>1. pc = "mark" /\ UNCHANGED <<run, seen, cursor>>
    BY <1>8 DEF MarkInitialSyncCompleted, history
  <2>2. initialDone' # initialDone => SaysAll(batch)
    BY <1>8 DEF MarkInitialSyncCompleted, MarkInitial, SaysAll
  <2>3. Honest
    BY <1>0, <2>1, <2>2, ReachedBehind DEF Honest
  <2>4. CASE StopInterrupted \/ StopFailed
    BY <1>03, <2>3, <2>4
  <2>5. CASE ~(StopInterrupted \/ StopFailed)
    <3>1. pc' = "after" /\ UNCHANGED <<batch, last>>
      BY <1>8, <2>5 DEF MarkInitialSyncCompleted, memory
    <3> QED BY <2>1, <2>3, <3>1 DEF AllReached, SaysAll, Between, Present
  <2> QED BY <2>4, <2>5
<1>9. CASE AfterBatch
  <2>1. pc = "after" /\ UNCHANGED <<run, initialDone, seen, cursor>>
    BY <1>9 DEF AfterBatch, stored, history
  <2>2. CASE batch.done /\ Stop("completed", batch.reason)
    <3>1. pc' = "finish" /\ outcome'.reason = batch.reason
      BY <2>2 DEF Stop
    <3>2. batch.reason = "caught_up" => \A n \in Between(0, seen) : n <= cursor
      BY <1>0, <2>1, <2>2, ReachedBehind DEF SaysAll
    <3>3. AllReached'
      BY <2>1, <3>1, <3>2 DEF AllReached, Between, Present
    <3> QED BY <1>02, <2>1, <3>3
  <2>3. CASE ~batch.done
    <3>1. AllReached'
      BY <1>9, <2>3 DEF AfterBatch, StopInterrupted, Stop, AllReached
    <3> QED BY <1>02, <2>1, <3>1
  <2> QED BY <1>9, <2>2, <2>3 DEF AfterBatch
<1>10. CASE FinishRun
  <2>1. pc = "finish" /\ pc' = "idle" /\ initialDone' = initialDone /\ run' \in {outcome, run}
    BY <1>10 DEF FinishRun, ForgetMemory, stored
  <2>2. ASSUME outcome.reason = "caught_up"
        PROVE  SeenBehind
    <3>1. seen \in Nat
      BY <1>0, ConstantFacts DEF TypeOK
    <3>2. ASSUME NEW n \in Between(0, seen)
          PROVE  n \in handled \cup jumped /\ n <= cursor
      <4>1. n <= cursor
        BY <2>1, <2>2, <3>2 DEF AllReached
      <4>2. n \in Between(0, cursor)
        BY <1>0, <3>1, <3>2, <4>1, Numbers, BetweenFact
      <4> QED BY <1>0, <4>1, <4>2 DEF NoNSULost
    <3> QED BY <3>2 DEF SeenBehind
  <2> QED BY <2>1, <2>2 DEF AllReached, Honest
<1>11. CASE Crash \/ Reset
  BY <1>11 DEF Crash, Reset, ForgetMemory, stored, AllReached, Honest
<1>12. ASSUME NEW n \in NSU,
              SkipStale(n) \/ StoreItem(n) \/ StoreItemFails(n) \/ PoisonItem(n) \/ GiveUp(n)
       PROVE  AllReached' /\ Honest
  BY <1>02, <1>12, AllReachedItem
<1> QED BY <1>1, <1>2, <1>3, <1>4, <1>5, <1>6, <1>7, <1>8, <1>9, <1>10, <1>11, <1>12 DEF Next, Loop

\* The initial sync is marked done, and a run recorded as caught up, only with
\* everything that existed when the answer came behind the persisted cursor.
THEOREM CaughtUpIsHonest == Spec => CaughtUpHonest
<1>1. Init => IInv /\ AllReached
  BY InvInit DEF Init, AllReached
<1>2. IInv /\ [Next]_vars => IInv'
  BY TypeStep, WalkStep DEF IInv
<1>3. IInv /\ AllReached /\ [Next]_vars => AllReached' /\ [Honest]_vars
  BY AllReachedStep
<1>4. Honest <=> (\/ ~initialDone /\ initialDone'
                  \/ run'.reason = "caught_up" /\ run.reason # "caught_up"
                  => \A n \in Between(0, seen) : n \in handled \cup jumped /\ n <= cursor)
  BY DEF Honest, SeenBehind
<1> QED BY <1>1, <1>2, <1>3, <1>4, PTL DEF Spec, CaughtUpHonest

-----------------------------------------------------------------------------
(* The start policy                                                        *)

\* While the loop walks, what it read of the initial sync when it started is
\* still what the row says: only the last batch changes the row.
SnapshotKept ==
    pc \notin {"idle", "finish"} /\ ~(pc = "after" /\ batch.done) => initSnap = initialDone

PolicyStep == \A n \in NSU : fate'[n] = "passed" /\ fate[n] = "unseen" /\ KindOf[n] = "old" => ~initialDone

LEMMA SnapshotStep ==
    ASSUME TypeOK, SnapshotKept, [Next]_vars
    PROVE  SnapshotKept' /\ PolicyStep
<1>0. initSnap \in BOOLEAN /\ initialDone \in BOOLEAN
  BY DEF TypeOK
<1>01. ASSUME fate' = fate
       PROVE  PolicyStep
  BY <1>01 DEF PolicyStep
<1>02. ASSUME StopInterrupted \/ StopFailed
       PROVE  SnapshotKept'
  BY <1>02 DEF StopInterrupted, StopFailed, Stop, SnapshotKept
<1>1. CASE Publish \/ Cancel \/ UNCHANGED vars
  <2>1. UNCHANGED <<pc, batch, initSnap, initialDone, fate>>
    BY <1>1 DEF Publish, Cancel, vars, stored, memory, history
  <2> QED BY <1>01, <2>1 DEF SnapshotKept
<1>2. ASSUME NEW mode \in Modes, Start(mode)
      PROVE  SnapshotKept' /\ PolicyStep
  BY <1>01, <1>2 DEF Start, stored, SnapshotKept
<1>3. CASE Answer \/ OddAnswer
  <2>1. ASSUME NEW b, Deliver(b)
        PROVE  pc = "fetch" /\ pc' \in {"wait", "items"} /\ UNCHANGED <<initSnap, initialDone, fate>>
    BY <2>1 DEF Deliver, stored
  <2>2. pc = "fetch" /\ pc' \in {"wait", "items"} /\ UNCHANGED <<initSnap, initialDone, fate>>
    <3>1. CASE AnswerDocuments
      BY <2>1, <3>1, Zenon DEF AnswerDocuments
    <3>2. CASE AnswerNothing
      BY <2>1, <3>2, Zenon DEF AnswerNothing
    <3>3. CASE AnswerConsumoIndevido
      BY <2>1, <3>3, Zenon DEF AnswerConsumoIndevido
    <3>4. CASE AnswerADN
      BY <2>1, <3>4, Zenon DEF AnswerADN
    <3>5. CASE AnswerStale
      BY <2>1, <3>5, Zenon DEF AnswerStale
    <3> QED BY <1>3, <3>1, <3>2, <3>3, <3>4, <3>5 DEF Answer, OddAnswer
  <2> QED BY <1>01, <2>2 DEF SnapshotKept
<1>4. CASE Top \/ FetchFails \/ RecordWait \/ ItemsDone \/ Checkpoint
  <2>1. fate' = fate
    BY <1>4 DEF Top, FetchFails, RecordWait, ItemsDone, Checkpoint, stored
  <2>2. \/ pc' = "finish"
        \/ /\ pc \in {"top", "wait", "items", "checkpoint"} /\ pc' \notin {"after", "idle"}
           /\ UNCHANGED <<initSnap, initialDone>>
    BY <1>4 DEF Top, FetchFails, RecordWait, ItemsDone, Checkpoint, StopInterrupted, StopFailed,
           Stop, stored, memory
  <2> QED BY <1>01, <2>1, <2>2 DEF SnapshotKept
<1>5. CASE MarkInitialSyncCompleted
  <2>1. fate' = fate /\ pc = "mark"
    BY <1>5 DEF MarkInitialSyncCompleted
  <2>2. CASE StopInterrupted \/ StopFailed
    BY <1>01, <1>02, <2>1, <2>2
  <2>3. CASE ~(StopInterrupted \/ StopFailed)
    <3>1. /\ pc' = "after" /\ UNCHANGED <<batch, initSnap>>
          /\ initialDone' = initialDone \/ batch.done
      BY <1>5, <2>3 DEF MarkInitialSyncCompleted, MarkInitial, memory
    <3> QED BY <1>01, <2>1, <3>1 DEF SnapshotKept
  <2> QED BY <2>2, <2>3
<1>6. CASE AfterBatch
  <2>1. fate' = fate /\ initialDone' = initialDone /\ pc = "after"
    BY <1>6 DEF AfterBatch, stored
  <2>2. pc' = "finish" \/ (pc' = "top" /\ ~batch.done /\ initSnap' = initSnap)
    BY <1>6 DEF AfterBatch, StopInterrupted, Stop
  <2> QED BY <1>01, <2>1, <2>2 DEF SnapshotKept
<1>7. CASE FinishRun \/ Crash
  BY <1>01, <1>7 DEF FinishRun, Crash, ForgetMemory, stored, SnapshotKept
<1>8. CASE Reset
  <2>1. pc = "idle" /\ pc' = "idle"
    BY <1>8 DEF Reset
  <2>2. ASSUME NEW n \in NSU, fate'[n] = "passed", fate[n] = "unseen"
        PROVE  FALSE
    BY <1>8, <2>2 DEF Reset
  <2> QED BY <2>1, <2>2 DEF SnapshotKept, PolicyStep
<1>9. ASSUME NEW n \in NSU,
             SkipStale(n) \/ StoreItem(n) \/ StoreItemFails(n) \/ PoisonItem(n) \/ GiveUp(n)
      PROVE  SnapshotKept' /\ PolicyStep
  <2>1. \/ pc' = "finish"
        \/ /\ pc \in {"items", "giveup"} /\ pc' \in {"items", "giveup"}
           /\ UNCHANGED <<initSnap, initialDone>>
    BY <1>9 DEF SkipStale, StoreItem, StoreItemFails, PoisonItem, GiveUp, Commit, StopInterrupted,
           StopFailed, Stop, stored, memory
  <2>2. SnapshotKept'
    BY <2>1 DEF SnapshotKept
  <2>3. CASE StoreItem(n)
    <3>1. pc = "items" /\ fate' = [fate EXCEPT ![n] = FateOf(n)] /\ initSnap = initialDone
      BY <2>3 DEF StoreItem, Commit, SnapshotKept
    <3>2. ASSUME NEW m \in NSU, fate'[m] = "passed", fate[m] = "unseen", KindOf[m] = "old"
          PROVE  ~initialDone
      <4>1. m = n /\ FateOf(n) = "passed"
        BY <3>1, <3>2 DEF TypeOK
      <4>2. FateOf(n) = IF initSnap THEN "stored" ELSE "passed"
        BY <3>2, <4>1 DEF FateOf
      <4> QED BY <3>1, <4>1, <4>2
    <3> QED BY <2>2, <3>2 DEF PolicyStep
  <2>4. CASE GiveUp(n)
    <3>1. fate' = fate \/ fate' = [fate EXCEPT ![n] = "given_up"]
      BY <2>4 DEF GiveUp, Commit, stored
    <3>2. ASSUME NEW m \in NSU, fate'[m] = "passed", fate[m] = "unseen"
          PROVE  FALSE
      BY <3>1, <3>2 DEF TypeOK
    <3> QED BY <2>2, <3>2 DEF PolicyStep
  <2>5. CASE SkipStale(n) \/ StoreItemFails(n) \/ PoisonItem(n)
    BY <1>01, <2>2, <2>5 DEF SkipStale, StoreItemFails, PoisonItem, stored
  <2> QED BY <1>9, <2>3, <2>4, <2>5
<1> QED BY <1>1, <1>2, <1>3, <1>4, <1>5, <1>6, <1>7, <1>8, <1>9 DEF Next, Loop

\* Documents of before the start policy are passed over only while the initial
\* sync is not done (sync/dist.go, the policy of a source).
THEOREM PolicyEnds == Spec => PolicyEndsWithInitialSync
<1>1. Init => TypeOK /\ SnapshotKept
  BY TypeInit DEF Init, SnapshotKept
<1>2. TypeOK /\ SnapshotKept /\ [Next]_vars => TypeOK' /\ SnapshotKept' /\ [PolicyStep]_vars
  BY TypeStep, SnapshotStep
<1>3. PolicyStep <=>
        \A n \in NSU : fate'[n] = "passed" /\ fate[n] = "unseen" /\ KindOf[n] = "old" => ~initialDone
  BY DEF PolicyStep
<1> QED BY <1>1, <1>2, <1>3, PTL DEF Spec, PolicyEndsWithInitialSync

-----------------------------------------------------------------------------
(* What a distribution cursor promises, from NSUFeed alone and through it. *)

FeedInv == cursor \in Nat /\ Feed!Complete

LEMMA FeedBetween ==
    /\ Feed!Between(0, 0) = {}
    /\ \A n \in Present : n \in Nat
    /\ \A p, q \in Nat : Feed!Between(0, q) \subseteq Feed!Between(0, p) \cup Feed!Between(p, q)
<1>1. Present \subseteq Nat
  BY NSUFacts, NSUAssumption DEF NSU
<1>2. Feed!Between(0, 0) = {}
  <2>1. ASSUME NEW n \in Nat, 0 < n, n <= 0
        PROVE  FALSE
    BY <2>1
  <2> QED BY <1>1, <2>1, Zenon DEF Feed!Between
<1>3. ASSUME NEW p \in Nat, NEW q \in Nat, NEW n \in Present, 0 < n, n <= q
      PROVE  n <= p \/ p < n
  BY <1>1
<1>4. ASSUME NEW p \in Nat, NEW q \in Nat
      PROVE  Feed!Between(0, q) \subseteq Feed!Between(0, p) \cup Feed!Between(p, q)
  BY <1>3 DEF Feed!Between
<1> QED BY <1>1, <1>2, <1>4

\* Nothing at or below the cursor is missing, whatever follows the rules of a
\* cursor: taking the next document, passing gaps, being moved, going back.
THEOREM FeedKeepsPromise == Feed!Spec => []Feed!Complete
<1>1. Feed!Init => FeedInv
  <2>1. Feed!Init => cursor = 0 /\ Feed!Between(0, cursor) = {}
    BY FeedBetween DEF Feed!Init
  <2> QED BY <2>1 DEF FeedInv, Feed!Complete
<1>2. FeedInv /\ [Feed!Next]_(Feed!feedVars) => FeedInv'
  <2> SUFFICES ASSUME FeedInv, [Feed!Next]_(Feed!feedVars)
               PROVE  FeedInv'
    OBVIOUS
  <2>0. cursor \in Nat /\ Feed!Between(0, cursor) \subseteq handled \cup jumped
    BY DEF FeedInv, Feed!Complete
  <2>1. ASSUME NEW n \in Present, Feed!Take(n)
        PROVE  FeedInv'
    <3>1. cursor' = n /\ n \in Nat
      BY <2>1, FeedBetween DEF Feed!Take
    <3>2. Feed!Between(0, n) \subseteq Feed!Between(0, cursor) \cup {n}
      BY <2>0, <2>1, <3>1, FeedBetween DEF Feed!Take
    <3>3. Feed!Between(0, n) \subseteq handled' \cup jumped'
      BY <2>0, <2>1, <3>2 DEF Feed!Take
    <3> QED BY <3>1, <3>3 DEF FeedInv, Feed!Complete
  <2>2. ASSUME NEW n \in Present, Feed!Rewind(n)
        PROVE  FeedInv'
    BY <2>2, FeedBetween DEF FeedInv, Feed!Complete, Feed!Rewind
  <2>3. CASE Feed!Pass \/ Feed!Jump
    <3>1. /\ cursor' \in Nat
          /\ Feed!Between(cursor, cursor') \subseteq handled' \cup jumped'
          /\ handled \cup jumped \subseteq handled' \cup jumped'
      BY <2>3 DEF Feed!Pass, Feed!Jump
    <3>2. Feed!Between(0, cursor') \subseteq Feed!Between(0, cursor) \cup Feed!Between(cursor, cursor')
      BY <2>0, <3>1, FeedBetween
    <3>3. Feed!Between(0, cursor') \subseteq handled' \cup jumped'
      BY <2>0, <3>1, <3>2
    <3> QED BY <3>1, <3>3 DEF FeedInv, Feed!Complete
  <2>4. CASE Feed!Restart
    BY <2>4, FeedBetween DEF FeedInv, Feed!Complete, Feed!Restart
  <2>5. CASE UNCHANGED Feed!feedVars
    BY <2>5 DEF FeedInv, Feed!Complete, Feed!feedVars
  <2> QED BY <2>1, <2>2, <2>3, <2>4, <2>5 DEF Feed!Next
<1>3. FeedInv => Feed!Complete
  BY DEF FeedInv
<1> QED BY <1>1, <1>2, <1>3, PTL DEF Feed!Spec

\* The loop keeps it because it follows those rules: NoNSULost once more, by
\* way of the abstract cursor.
COROLLARY LoopKeepsPromise == Spec => []Feed!Complete
<1> QED BY ImplementsFeed, FeedKeepsPromise, PTL DEF FeedSpec

-----------------------------------------------------------------------------
(* The idle clock.  A run that fails or is interrupted may leave an answer *)
(* out of last_success_at, which is a finding; a run that ends well does   *)
(* not, and one that stops for the budget asked nothing.                   *)

CompletedRecorded ==
    pc = "idle" /\ run.status = "completed" /\ run.reason # "rate_budget" => ~unrecorded

EndsWell(r) == r.status = "completed" /\ r.reason # "rate_budget"

\* An answer is recorded with the first item it brings, or at its checkpoint.
RecordedInv ==
    /\ pc # "idle" => run.status = "running"
    /\ pc = "wait" => ~fresh
    /\ pc \in {"items", "giveup"} /\ fresh => ~unrecorded
    /\ pc \in {"mark", "after"} => ~unrecorded
    /\ pc = "finish" /\ EndsWell(outcome) => ~unrecorded
    /\ EndsWell(run) => ~unrecorded

LEMMA RecordedStep ==
    ASSUME TypeOK, RecordedInv, [Next]_vars
    PROVE  RecordedInv'
<1> USE DEF RecordedInv, EndsWell
<1>0. run \in [status : Statuses, reason : Reasons] /\ fresh \in BOOLEAN /\ unrecorded \in BOOLEAN
  BY DEF TypeOK
<1>1. ASSUME StopInterrupted \/ StopFailed, run' = run, pc # "idle"
      PROVE  RecordedInv'
  BY <1>1 DEF StopInterrupted, StopFailed, Stop
<1>2. CASE Publish \/ Cancel \/ UNCHANGED vars
  BY <1>2 DEF Publish, Cancel, vars, stored, memory, history
<1>3. ASSUME NEW mode \in Modes, Start(mode)
      PROVE  RecordedInv'
  BY <1>3 DEF Start, history
<1>4. CASE Answer \/ OddAnswer
  <2>1. ASSUME NEW b, Deliver(b)
        PROVE  pc = "fetch" /\ pc' \in {"wait", "items"} /\ fresh' = FALSE /\ run' = run
    BY <2>1 DEF Deliver
  <2>2. pc = "fetch" /\ pc' \in {"wait", "items"} /\ fresh' = FALSE /\ run' = run
    <3>1. CASE AnswerDocuments
      BY <2>1, <3>1, Zenon DEF AnswerDocuments
    <3>2. CASE AnswerNothing
      BY <2>1, <3>2, Zenon DEF AnswerNothing
    <3>3. CASE AnswerConsumoIndevido
      BY <2>1, <3>3, Zenon DEF AnswerConsumoIndevido
    <3>4. CASE AnswerADN
      BY <2>1, <3>4, Zenon DEF AnswerADN
    <3>5. CASE AnswerStale
      BY <2>1, <3>5, Zenon DEF AnswerStale
    <3> QED BY <1>4, <3>1, <3>2, <3>3, <3>4, <3>5 DEF Answer, OddAnswer
  <2> QED BY <2>2
<1>5. CASE Top
  BY <1>1, <1>5 DEF Top, Stop, history, memory
<1>6. CASE FetchFails
  BY <1>1, <1>6 DEF FetchFails, Stop, history
<1>7. CASE RecordWait
  <2>1. fresh' = fresh /\ unrecorded' = unrecorded /\ run' = run /\ pc = "wait"
    BY <1>7 DEF RecordWait, memory, StopFailed, Stop
  <2>2. CASE StopFailed
    BY <1>1, <2>1, <2>2
  <2>3. CASE pc' = "items"
    BY <2>1, <2>3
  <2> QED BY <1>7, <2>2, <2>3 DEF RecordWait
<1>8. CASE ItemsDone
  BY <1>8 DEF ItemsDone, history
<1>9. CASE Checkpoint
  BY <1>1, <1>9 DEF Checkpoint, memory
<1>10. CASE MarkInitialSyncCompleted
  BY <1>1, <1>10 DEF MarkInitialSyncCompleted, memory, history
<1>11. CASE AfterBatch
  BY <1>1, <1>11 DEF AfterBatch, Stop, history
<1>12. CASE FinishRun
  BY <1>12 DEF FinishRun, ForgetMemory, history
<1>13. CASE Crash
  BY <1>13 DEF Crash, ForgetMemory
<1>14. CASE Reset
  BY <1>14 DEF Reset, memory
<1>15. ASSUME NEW n \in NSU, StoreItem(n) \/ GiveUp(n)
       PROVE  RecordedInv'
  BY <1>1, <1>15 DEF StoreItem, GiveUp, Commit, history
<1>16. ASSUME NEW n \in NSU, SkipStale(n) \/ StoreItemFails(n) \/ PoisonItem(n)
       PROVE  RecordedInv'
  BY <1>1, <1>16 DEF SkipStale, StoreItemFails, PoisonItem, Stop, memory, history
<1> QED BY <1>2, <1>3, <1>4, <1>5, <1>6, <1>7, <1>8, <1>9, <1>10, <1>11, <1>12, <1>13, <1>14,
           <1>15, <1>16 DEF Next, Loop

\* After a run that ended well last_success_at is that of its last answer, so
\* that the warning of an idle source starts from there (sync/loop.go).
THEOREM CompletedRunsRecord == Spec => []CompletedRecorded
<1>1. Init => TypeOK /\ RecordedInv
  BY TypeInit DEF Init, RecordedInv, EndsWell, NoOutcome
<1>2. TypeOK /\ RecordedInv /\ [Next]_vars => TypeOK' /\ RecordedInv'
  BY TypeStep, RecordedStep
<1>3. RecordedInv => CompletedRecorded
  BY DEF RecordedInv, CompletedRecorded, EndsWell
<1> QED BY <1>1, <1>2, <1>3, PTL DEF Spec
=============================================================================
