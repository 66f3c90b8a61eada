------------------------------ MODULE SyncLoop ------------------------------
(***************************************************************************)
(* The pull loop of sync/loop.go: one company, one source, one             *)
(* environment.  SourceGate shows that one job at a time runs it, so it is *)
(* a single walker that crashes, is cancelled, and meets a database and an *)
(* authority that fail.                                                    *)
(*                                                                         *)
(* The numbers 1 .. N are the NSUs the authority will publish, in order.   *)
(* KindOf says what each carries: a document or an event that is stored,   *)
(* an `old' document of before the company's start policy, one the loop    *)
(* skips for good (an unsupported schema, an event of an unseen document), *)
(* one that cannot be decoded or parsed (`poison'), or nothing (`gap').    *)
(***************************************************************************)
EXTENDS Integers, FiniteSets

CONSTANTS
    N,              \* the last NSU that will be published
    KindOf,         \* [1 .. N -> Kinds]
    Sefaz,          \* TRUE: NF-e or CT-e (sync/dist.go); FALSE: NFS-e (ADN)
    Modes,          \* the modes Sync is called with
    MaxAttempts,    \* maxItemAttempts
    MaxFaults       \* bound on crashes, cancels, failures and odd answers

Kinds == {"doc", "old", "skip", "poison", "gap"}

ASSUME NSUAssumption == N \in Nat /\ KindOf \in [1 .. N -> Kinds]
ASSUME LoopAssumption ==
    /\ Sefaz \in BOOLEAN
    /\ Modes \subseteq {"normal", "first_setup"}
    /\ MaxAttempts \in Nat \ {0}
    /\ MaxFaults \in Nat

NSU == 1 .. N
Present == {n \in NSU : KindOf[n] # "gap"}
Between(low, high) == {n \in Present : low < n /\ n <= high}

VARIABLES
    published,      \* the authority: NSUs up to here exist
    cursor,         \* sync_state.last_checked_nsu, 0 without a row
    failed,         \* sync_state.failed_nsu and failed_nsu_attempts
    initialDone,    \* company_sync_sources.initial_sync_completed_at is set
    fate,           \* what the tables and the log say of each NSU
    run,            \* the latest row of sync_runs
    pc,             \* where Sync stands; idle when it does not run
    c,              \* its local cursor
    last,           \* runState.lastProcessedNSU
    initSnap,       \* runState.source.InitialSyncDoneAt, read at the start
    batch,          \* the batch being processed, with the items left
    fresh,          \* processedAny
    outcome,        \* finalStatus and stopReason, for the deferred finishRun
    cancelled,      \* the caller's context is done
    jumped,         \* history: NSUs an answer 656 moved the cursor over
    failures,       \* history: runs that failed at each NSU since the reset
    owed,           \* history: an answer asked for a wait not recorded yet
    unrecorded,     \* history: an answer not in last_success_at yet
    seen,           \* history: published when the answer being processed came
    faults          \* faults so far

stored == <<cursor, failed, initialDone, fate>>
memory == <<c, last, initSnap, batch, fresh, outcome, cancelled>>
history == <<jumped, failures, owed, unrecorded, seen>>
vars == <<published, stored, run, pc, memory, history, faults>>

Fates == {"unseen", "stored", "passed", "given_up"}
Stages == {"idle", "top", "fetch", "wait", "items", "giveup", "checkpoint",
           "mark", "after", "finish"}
Statuses == {"none", "running", "completed", "interrupted", "failed"}
Reasons == {"none", "caught_up", "consumo_indevido", "rate_budget", "empty_limit",
            "context_canceled", "fetch_error", "process_error"}

Batch == [items : SUBSET NSU, next : 0 .. N, done : BOOLEAN, reason : Reasons, wait : BOOLEAN]
NoBatch == [items |-> {}, next |-> 0, done |-> FALSE, reason |-> "none", wait |-> FALSE]
NoOutcome == [status |-> "none", reason |-> "none"]
NoFailure == [nsu |-> 0, attempts |-> 0]

TypeOK ==
    /\ published \in 0 .. N
    /\ cursor \in 0 .. N
    /\ failed \in [nsu : 0 .. N, attempts : 0 .. MaxAttempts]
    /\ initialDone \in BOOLEAN
    /\ fate \in [NSU -> Fates]
    /\ run \in [status : Statuses, reason : Reasons]
    /\ pc \in Stages
    /\ c \in 0 .. N
    /\ last \in 0 .. N
    /\ initSnap \in BOOLEAN
    /\ batch \in Batch
    /\ fresh \in BOOLEAN
    /\ outcome \in [status : Statuses, reason : Reasons]
    /\ cancelled \in BOOLEAN
    /\ jumped \in SUBSET NSU
    /\ failures \in [NSU -> 0 .. MaxAttempts]
    /\ owed \in BOOLEAN
    /\ unrecorded \in BOOLEAN
    /\ seen \in 0 .. N
    /\ faults \in 0 .. MaxFaults

Init ==
    /\ published = 0
    /\ cursor = 0
    /\ failed = NoFailure
    /\ initialDone = FALSE
    /\ fate = [n \in NSU |-> "unseen"]
    /\ run = NoOutcome
    /\ pc = "idle"
    /\ c = 0
    /\ last = 0
    /\ initSnap = FALSE
    /\ batch = NoBatch
    /\ fresh = FALSE
    /\ outcome = NoOutcome
    /\ cancelled = FALSE
    /\ jumped = {}
    /\ failures = [n \in NSU |-> 0]
    /\ owed = FALSE
    /\ unrecorded = FALSE
    /\ seen = 0
    /\ faults = 0

-----------------------------------------------------------------------------
(* Building blocks                                                         *)

handled == {n \in NSU : fate[n] # "unseen"}

\* Something goes wrong; the bound keeps the instance finite.
Fault == faults < MaxFaults /\ faults' = faults + 1

\* The run is over; the deferred finishRun will record this outcome.
Stop(status, reason) ==
    /\ pc' = "finish"
    /\ outcome' = [status |-> status, reason |-> reason]
    /\ UNCHANGED <<c, last, initSnap, batch, fresh, cancelled>>

\* What a cancelled context makes of any error (classifySyncError).
StopInterrupted == cancelled /\ Stop("interrupted", "context_canceled") /\ UNCHANGED faults

\* A database error is persist_error or process_error: the run failed.
StopFailed == Fault /\ Stop("failed", "process_error")

ForgetMemory ==
    /\ pc' = "idle"
    /\ c' = 0
    /\ last' = 0
    /\ initSnap' = FALSE
    /\ batch' = NoBatch
    /\ fresh' = FALSE
    /\ outcome' = NoOutcome
    /\ cancelled' = FALSE

\* What an item becomes when it is processed without error.  Documents older
\* than the start policy are skipped until the initial sync is done.
FateByPolicyOnly(n) == IF KindOf[n] \in {"old", "skip"} THEN "passed" ELSE "stored"
FateOf(n) ==
    CASE KindOf[n] = "old" -> IF initSnap THEN "stored" ELSE "passed"
      [] KindOf[n] = "skip" -> "passed"
      [] OTHER -> "stored"

-----------------------------------------------------------------------------
(* The authority                                                           *)

Publish ==
    /\ published < N
    /\ published' = published + 1
    /\ UNCHANGED <<stored, run, pc, memory, history, faults>>

\* An answer reaches the loop.  A wait is recorded before anything else.
Deliver(b) ==
    /\ pc = "fetch"
    /\ batch' = b
    /\ fresh' = FALSE
    /\ pc' = IF b.wait THEN "wait" ELSE "items"
    /\ owed' = b.wait
    /\ unrecorded' = TRUE
    /\ seen' = published
    /\ UNCHANGED <<published, stored, run, c, last, initSnap, outcome, cancelled,
                   jumped, failures>>

\* max(cursor, ultNSU).
NextAfter(ult) == IF ult > c THEN ult + 1 ELSE c
NextCursor(ult) == IF ult > c THEN ult ELSE c

\* cStat 138: the documents up to ultNSU, with maxNSU = published.
AnswerDocuments ==
    /\ Sefaz
    /\ \E ult \in c + 1 .. published :
          /\ Between(c, ult) # {}
          /\ Deliver([items |-> Between(c, ult), next |-> NextCursor(ult), done |-> ult >= published,
                      reason |-> IF ult >= published THEN "caught_up" ELSE "none",
                      wait |-> ult >= published])
    /\ UNCHANGED faults

\* cStat 137: nothing after the cursor.
AnswerNothing ==
    /\ Sefaz
    /\ Between(c, published) = {}
    /\ \E ult \in {c, published} :
          Deliver([items |-> {}, next |-> NextCursor(ult), done |-> TRUE,
                   reason |-> "caught_up", wait |-> TRUE])
    /\ UNCHANGED faults

\* cStat 656: the next cursor is ultNSU if that is ahead, whatever lies between.
AnswerConsumoIndevido ==
    /\ Sefaz
    /\ Fault
    /\ \E ult \in 0 .. published :
          Deliver([items |-> {}, next |-> NextCursor(ult), done |-> TRUE,
                   reason |-> "consumo_indevido", wait |-> TRUE])

\* The ADN: the documents after the cursor; an empty answer ends the run.
AnswerADN ==
    /\ ~Sefaz
    /\ \E top \in c .. published :
          LET items == Between(c, top) IN
          /\ items = {} => Between(c, published) = {}
          /\ top \in items \cup {c}
          /\ Deliver([items |-> items, next |-> top, done |-> items = {},
                      reason |-> IF items = {} THEN "empty_limit" ELSE "none", wait |-> FALSE])
    /\ UNCHANGED faults

\* Either service repeats a document the loop already has, alone or before
\* new ones, and does not say that it ended.
AnswerStale ==
    /\ Fault
    /\ c \in Present
    /\ \E top \in Between(c, published) \cup {c} :
          Deliver([items |-> Between(c, top) \cup {c}, next |-> top, done |-> FALSE,
                   reason |-> "none", wait |-> FALSE])

-----------------------------------------------------------------------------
(* Sync                                                                    *)

\* runState.lastProcessedNSU when the run starts.
LastFromZero == 0
LastFromState == cursor

\* GetOrCreateState, SourceState and StartRun, which also marks a run left
\* running as interrupted: the row of the new run replaces it here.
Start(mode) ==
    /\ pc = "idle"
    /\ run' = [status |-> "running", reason |-> "none"]
    /\ pc' = "top"
    /\ c' = IF mode = "first_setup" THEN 0 ELSE cursor
    /\ last' = LastFromState
    /\ initSnap' = initialDone
    /\ UNCHANGED <<published, stored, batch, fresh, outcome, cancelled, history, faults>>

\* The caller gives up (CancelSync, Ctrl+C).
Cancel ==
    /\ pc \notin {"idle", "finish"}
    /\ ~cancelled
    /\ Fault
    /\ cancelled' = TRUE
    /\ UNCHANGED <<published, stored, run, pc, c, last, initSnap, batch, fresh, outcome, history>>

\* The head of the loop: ctx.Done, then spendRequest.
Top ==
    /\ pc = "top"
    /\ \/ StopInterrupted
       \/ ~cancelled /\ StopFailed /\ Sefaz
       \/ ~cancelled /\ Sefaz /\ Fault /\ Stop("completed", "rate_budget")
       \/ ~cancelled /\ pc' = "fetch" /\ UNCHANGED <<memory, faults>>
    /\ UNCHANGED <<published, stored, run, history>>

\* Source.Fetch fails: a transport error, a rejection, or the cancel.
FetchFails ==
    /\ pc = "fetch"
    /\ \/ StopInterrupted
       \/ ~cancelled /\ Fault /\ Stop("failed", "fetch_error")
    /\ UNCHANGED <<published, stored, run, history>>

\* SetBlockedUntil runs outside the caller's context: a cancel does not stop it.
RecordWaitInContext ==
    /\ pc = "wait"
    /\ \/ ~cancelled /\ pc' = "items" /\ owed' = FALSE /\ UNCHANGED <<memory, faults>>
       \/ StopInterrupted /\ UNCHANGED owed
       \/ StopFailed /\ owed' = FALSE
    /\ UNCHANGED <<published, stored, run, jumped, failures, unrecorded, seen>>

RecordWait ==
    /\ pc = "wait"
    /\ \/ pc' = "items" /\ owed' = FALSE /\ UNCHANGED <<memory, faults>>
       \/ StopFailed /\ owed' = FALSE
    /\ UNCHANGED <<published, stored, run, jumped, failures, unrecorded, seen>>

-----------------------------------------------------------------------------
(* The items of a batch, in NSU order                                      *)

AnyItem(n) == n \in batch.items
NextItem(n) == n \in batch.items /\ \A m \in batch.items : n <= m

\* One item is done with: ApplyWithProgress or commitSkip writes what it
\* becomes and the cursor in one transaction.
Commit(n, f) ==
    /\ fate' = [fate EXCEPT ![n] = f]
    /\ cursor' = n
    /\ last' = n
    /\ fresh' = TRUE
    /\ batch' = [batch EXCEPT !.items = @ \ {n}]
    /\ unrecorded' = FALSE
    /\ pc' = "items"
    /\ UNCHANGED <<published, failed, initialDone, run, c, initSnap, outcome, cancelled,
                   jumped, failures, owed, seen>>

\* Items at or before the loop's cursor are ignored.
SkipStale(n) ==
    /\ pc = "items"
    /\ NextItem(n)
    /\ n <= c
    /\ batch' = [batch EXCEPT !.items = @ \ {n}]
    /\ UNCHANGED <<published, stored, run, pc, c, last, initSnap, fresh, outcome, cancelled,
                   history, faults>>

StoreItem(n) ==
    /\ pc = "items"
    /\ NextItem(n)
    /\ n > c
    /\ KindOf[n] # "poison"
    /\ ~cancelled
    /\ Commit(n, FateOf(n))
    /\ UNCHANGED faults

\* The checkpoint of a failed item does not move the cursor.
FailedAtItem(n) == n
FailedProgress(n) == last

\* The blob or the transaction failed.  The run ends with the cursor where
\* the last committed item left it (the progress write may fail as well).
StoreItemFails(n) ==
    /\ pc = "items"
    /\ NextItem(n)
    /\ n > c
    /\ \/ StopInterrupted /\ UNCHANGED cursor
       \/ StopFailed /\ cursor' \in {cursor, FailedProgress(n)}
    /\ UNCHANGED <<published, failed, initialDone, fate, run, history>>

\* RecordItemFailure: a failure at another NSU starts the count over.  The
\* count is only ever compared with MaxAttempts, so it stops there.
AttemptsIgnoringNSU(n) ==
    IF failed.attempts < MaxAttempts THEN failed.attempts + 1 ELSE MaxAttempts
AttemptsForgotten(n) == 1
Attempts(n) ==
    IF failed.nsu # n THEN 1
    ELSE IF failed.attempts < MaxAttempts THEN failed.attempts + 1 ELSE MaxAttempts

\* The item cannot be read: the failure is counted, and before the last
\* attempt the run fails with it.
PoisonItem(n) ==
    /\ pc = "items"
    /\ NextItem(n)
    /\ n > c
    /\ KindOf[n] = "poison"
    /\ ~cancelled
    /\ failed' = [nsu |-> n, attempts |-> Attempts(n)]
    /\ failures' = [failures EXCEPT ![n] = IF @ < MaxAttempts THEN @ + 1 ELSE MaxAttempts]
    /\ IF Attempts(n) < MaxAttempts
         THEN Stop("failed", "process_error") /\ cursor' = FailedProgress(n)
         ELSE pc' = "giveup" /\ UNCHANGED <<memory, cursor>>
    /\ UNCHANGED <<published, initialDone, fate, run, jumped, owed, unrecorded, seen, faults>>

\* skipPoisonItem commits it as unsupported, in a transaction of its own.
GiveUp(n) ==
    /\ pc = "giveup"
    /\ NextItem(n)
    /\ \/ ~cancelled /\ Commit(n, "given_up") /\ UNCHANGED faults
       \/ /\ StopInterrupted \/ StopFailed
          /\ UNCHANGED <<published, stored, run, history>>

-----------------------------------------------------------------------------
(* The end of a batch                                                      *)

\* A batch without fresh items, or one that moves the cursor past its last
\* item, is checkpointed.  Only an answer 656 moves it past documents.
ItemsDone ==
    /\ pc = "items"
    /\ batch.items = {}
    /\ last' = IF batch.next > last THEN batch.next ELSE last
    /\ pc' = IF ~fresh \/ batch.next > last THEN "checkpoint" ELSE "mark"
    /\ UNCHANGED <<published, stored, run, c, initSnap, batch, fresh, outcome, cancelled,
                   history, faults>>

\* PersistProgress.
Checkpoint ==
    /\ pc = "checkpoint"
    /\ \/ /\ ~cancelled
          /\ cursor' = last
          /\ unrecorded' = FALSE
          /\ jumped' = IF batch.reason = "consumo_indevido"
                         THEN jumped \cup (Between(c, batch.next) \ handled)
                         ELSE jumped
          /\ pc' = "mark"
          /\ UNCHANGED <<memory, faults>>
       \/ /\ StopInterrupted \/ StopFailed
          /\ UNCHANGED <<cursor, unrecorded, jumped>>
    /\ UNCHANGED <<published, failed, initialDone, fate, run, failures, owed, seen>>

\* The first batch that says the source has nothing more marks the initial
\* sync as done.
MarkWhenDone == batch.done /\ ~initSnap
MarkOnEmptyOnly == batch.done /\ ~initSnap /\ batch.reason = "empty_limit"
MarkInitial == batch.done /\ ~initSnap /\ batch.reason \in {"empty_limit", "caught_up"}

MarkInitialSyncCompleted ==
    /\ pc = "mark"
    /\ IF MarkInitial
         THEN \/ ~cancelled /\ initialDone' = TRUE /\ pc' = "after" /\ UNCHANGED <<memory, faults>>
              \/ (StopInterrupted \/ StopFailed) /\ UNCHANGED initialDone
         ELSE pc' = "after" /\ UNCHANGED <<initialDone, memory, faults>>
    /\ UNCHANGED <<published, cursor, failed, fate, run, history>>

\* Back in Sync: stop, or wait RequestDelay and go on from the next cursor.
\* A batch that did not advance leaves the outcome the run started with.
AfterBatch ==
    /\ pc = "after"
    /\ \/ batch.done /\ Stop("completed", batch.reason) /\ UNCHANGED faults
       \/ ~batch.done /\ batch.next <= c /\ Stop("completed", "empty_limit") /\ UNCHANGED faults
       \/ ~batch.done /\ batch.next > c /\ StopInterrupted
       \/ /\ ~batch.done /\ batch.next > c
          /\ ~cancelled
          /\ c' = batch.next
          /\ pc' = "top"
          /\ batch' = NoBatch
          /\ fresh' = FALSE
          /\ UNCHANGED <<last, initSnap, outcome, cancelled, faults>>
    /\ UNCHANGED <<published, stored, run, history>>

\* finishRun writes outside the caller's context.  Its error is ignored.
FinishRun ==
    /\ pc = "finish"
    /\ \/ run' = outcome /\ UNCHANGED faults
       \/ Fault /\ UNCHANGED run
    /\ ForgetMemory
    /\ UNCHANGED <<published, stored, history>>

\* The process dies.  What the answer said is lost with it.
Crash ==
    /\ pc # "idle"
    /\ Fault
    /\ ForgetMemory
    /\ owed' = FALSE
    /\ UNCHANGED <<published, stored, run, jumped, failures, unrecorded, seen>>

\* Manager.ResetSyncState deletes the row of the cursor and keeps what was
\* stored; NFeService.Reset deletes the documents in the same transaction.
Reset ==
    /\ pc = "idle"
    /\ Fault
    /\ cursor' = 0
    /\ failed' = NoFailure
    /\ initialDone' = FALSE
    /\ \/ UNCHANGED fate
       \/ Sefaz /\ fate' = [n \in NSU |-> "unseen"]
    /\ jumped' = {}
    /\ failures' = [n \in NSU |-> 0]
    /\ UNCHANGED <<published, run, pc, memory, owed, unrecorded, seen>>

-----------------------------------------------------------------------------
Answer ==
    \/ AnswerDocuments
    \/ AnswerNothing
    \/ AnswerADN

OddAnswer == AnswerConsumoIndevido \/ AnswerStale

\* What Sync does by itself once it was called.
Loop ==
    \/ Top
    \/ FetchFails
    \/ Answer
    \/ OddAnswer
    \/ RecordWait
    \/ \E n \in NSU : SkipStale(n) \/ StoreItem(n) \/ StoreItemFails(n) \/ PoisonItem(n) \/ GiveUp(n)
    \/ ItemsDone
    \/ Checkpoint
    \/ MarkInitialSyncCompleted
    \/ AfterBatch
    \/ FinishRun

Next ==
    \/ Publish
    \/ \E mode \in Modes : Start(mode)
    \/ Cancel
    \/ Loop
    \/ Crash
    \/ Reset

Spec == Init /\ [][Next]_vars

\* The loop goes on while its process lives, the authority answers, and
\* somebody pulls again and again (the user, or the desktop's button).
FairSpec ==
    /\ Spec
    /\ WF_vars(Loop)
    /\ WF_vars(\E mode \in Modes : Start(mode))

-----------------------------------------------------------------------------
(* What must hold                                                          *)

\* No document is lost: whatever crash, cancel, failed write, reset or full
\* walk came before, everything at or below the persisted cursor was stored
\* or deliberately passed, or the authority moved the cursor over it.
NoNSULost == \A n \in Between(0, cursor) : n \in handled \cup jumped

\* An unreadable item is given up only after it failed in MaxAttempts runs
\* since the last reset (RecordItemFailure, skipPoisonItem), and nothing that
\* can be read is ever given up.
GiveUpIsEarned ==
    pc = "giveup" => \A n \in NSU : NextItem(n) =>
        KindOf[n] = "poison" /\ failures[n] >= MaxAttempts

\* In normal mode only a reset moves the cursor back.
CursorForward ==
    [][cursor' >= cursor \/ (pc = "idle" /\ cursor' = 0)]_vars

\* The initial sync is marked done, and a run recorded as caught_up, only
\* when everything that existed when the answer came is behind the persisted
\* cursor: the flag and the record never get ahead of the documents.
CaughtUpHonest ==
    [][\/ ~initialDone /\ initialDone'
       \/ run'.reason = "caught_up" /\ run.reason # "caught_up"
       => \A n \in Between(0, seen) : n \in handled \cup jumped /\ n <= cursor]_vars

\* Documents older than the start policy are passed over only before the
\* initial sync is done: once done, a walk stores everything it meets.
PolicyEndsWithInitialSync ==
    [][\A n \in NSU : fate'[n] = "passed" /\ fate[n] = "unseen" /\ KindOf[n] = "old" => ~initialDone]_vars

\* "a cancel while the batch is processed must not let the next sync query
\* too early" (sync/loop.go:325): no answer that asks for a wait is followed
\* by anything but the record of the wait, a failure or a crash.
WaitSurvivesCancel == owed => pc = "wait"

\* last_success_at is documented as the last time the SEFAZ answered a query
\* (sync/dist.go:28, docs/NFE_SEFAZ.md:71): when no run is going on, no answer
\* is missing from it.
IdleClockHonest == pc = "idle" => ~unrecorded

\* A published document is dealt with in the end: neither an item that cannot
\* be read nor a run that fails stalls the source.  A number that carries
\* nothing is passed only with what follows it.
NothingStalls ==
    \A n \in NSU : KindOf[n] # "gap" => ((published >= n) ~> (cursor >= n))

\* A source that publishes no more is recorded as caught up in the end.
InitialSyncEnds == (published = N) ~> initialDone

\* The loop does what a distribution cursor promises.
Feed == INSTANCE NSUFeed WITH pos <- cursor, lost <- jumped
FeedSpec == Feed!Spec
=============================================================================
