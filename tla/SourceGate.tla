----------------------------- MODULE SourceGate -----------------------------
(***************************************************************************)
(* Who may query a distribution service, and when.                         *)
(*                                                                         *)
(* One (company, source) pair in one environment, for a source with an     *)
(* hourly budget (NF-e, CT-e).  Inside one process two kinds of job send   *)
(* requests: Pull (sync/manager.go) walks the distribution with distNSU,   *)
(* FetchByChave (app/nfe_fetch.go) asks for one document with consChNFe.   *)
(* They share the in-memory reservation `running', the block recorded in   *)
(* company_sync_sources and the rows of sync_requests, which survive a     *)
(* crash of the process.                                                   *)
(*                                                                         *)
(* Time is counted in ticks; Hour is the length of the budget's window and *)
(* of the waits of distWaitAfterStop and fetchBlockWait.                   *)
(***************************************************************************)
EXTENDS Integers, Sequences, FiniteSets

CONSTANTS
    Pulls,      \* calls of Manager.Pull
    Fetches,    \* calls of NFeService.FetchByChave
    Budget,     \* requestsPerHour of the source
    Hour,       \* ticks in an hour
    Retention,  \* ticks requestRetention keeps a row of sync_requests
    MaxTime     \* bound: the clock stops here

ASSUME JobAssumption == Pulls \cap Fetches = {}
ASSUME BudgetAssumption == Budget \in Nat \ {0}
ASSUME TimeAssumption ==
    /\ Hour \in Nat \ {0}
    /\ Retention \in Nat
    /\ Retention >= Hour
    /\ MaxTime \in Nat

Job == Pulls \cup Fetches

VARIABLES
    now,            \* the wall clock
    running,        \* Manager.running[company:source]
    pc,             \* where each job stands
    at,             \* the instant spendRequest read, until its row is written; 0 otherwise
    requests,       \* requested_at of every row ever inserted in sync_requests
    horizon,        \* rows older than this were pruned
    sentAt,         \* history: when the i-th recorded request left, or NotSent
    blockedUntil,   \* company_sync_sources.blocked_until, 0 when NULL
    blockedReason   \* company_sync_sources.blocked_reason

db == <<requests, horizon, blockedUntil, blockedReason>>
vars == <<now, running, pc, at, db, sentAt>>

NotSent == -1

\* A Pull checks the block and then reserves; a fetch reserves first.
PullStage == {"idle", "unblocked", "password", "budget", "record", "send", "receive"}
FetchStage == {"idle", "reserved", "password", "budget", "record", "send", "receive"}
\* The stages in which the job holds the reservation.
Holding == {"reserved", "password", "budget", "record", "send", "receive"}

Reasons == {"none", "caught_up", "consumo_indevido", "rate_budget"}

TypeOK ==
    /\ now \in 0 .. MaxTime
    /\ running \in BOOLEAN
    /\ pc \in [Job -> PullStage \cup FetchStage]
    /\ \A j \in Pulls : pc[j] \in PullStage
    /\ \A j \in Fetches : pc[j] \in FetchStage
    /\ at \in [Job -> Nat]
    /\ requests \in Seq(Nat)
    /\ horizon \in Int
    /\ sentAt \in Seq(Nat \cup {NotSent})
    /\ blockedUntil \in Nat
    /\ blockedReason \in Reasons

Init ==
    /\ now = 0
    /\ running = FALSE
    /\ pc = [j \in Job |-> "idle"]
    /\ at = [j \in Job |-> 0]
    /\ requests = <<>>
    /\ horizon = 0
    /\ sentAt = <<>>
    /\ blockedUntil = 0
    /\ blockedReason = "none"

-----------------------------------------------------------------------------
(* The queries of the store                                                *)

\* RequestsSince: the rows at or after since that were not pruned.
RowsSince(since) == {i \in DOMAIN requests : requests[i] >= horizon /\ requests[i] >= since}

BudgetSpent == Cardinality(RowsSince(now - Hour)) >= Budget

\* The until of a rate_budget block: the oldest row of the window plus an hour.
IsRateUntil(until) ==
    \E i \in RowsSince(now - Hour) :
        /\ \A k \in RowsSince(now - Hour) : requests[i] <= requests[k]
        /\ until = requests[i] + Hour

\* checkBlocked, for a block set for one of the given reasons.
BlockedForIgnoringConsumo(reasons) ==
    now < blockedUntil /\ blockedReason \in reasons \ {"consumo_indevido"}
BlockedFor(reasons) == now < blockedUntil /\ blockedReason \in reasons

\* SetBlockedUntil overwrites whatever block was there.
SetBlockedBackwards(until, reason) ==
    /\ blockedUntil' = now - until
    /\ blockedReason' = reason
SetBlockedUntil(until, reason) ==
    /\ blockedUntil' = until
    /\ blockedReason' = reason

-----------------------------------------------------------------------------
(* Reservation                                                             *)

ReserveSource == ~running /\ running' = TRUE

\* The deferred release, at the end of the caller.
Release(j) ==
    /\ running' = FALSE
    /\ pc' = [pc EXCEPT ![j] = "idle"]
    /\ at' = [at EXCEPT ![j] = 0]

-----------------------------------------------------------------------------
(* Manager.Pull up to the password                                         *)

\* The block is checked first.  A blocked source refuses the pull.
PullCheckBlock(j) ==
    /\ pc[j] = "idle"
    /\ ~BlockedFor(Reasons)
    /\ pc' = [pc EXCEPT ![j] = "unblocked"]
    /\ UNCHANGED <<now, running, at, db, sentAt>>

PullReserve(j) ==
    /\ pc[j] = "unblocked"
    /\ ReserveSource
    /\ pc' = [pc EXCEPT ![j] = "password"]
    /\ UNCHANGED <<now, at, db, sentAt>>

\* ErrSyncRunning.
PullRefused(j) ==
    /\ pc[j] = "unblocked"
    /\ running
    /\ pc' = [pc EXCEPT ![j] = "idle"]
    /\ UNCHANGED <<now, running, at, db, sentAt>>

-----------------------------------------------------------------------------
(* FetchByChave up to the password: the reservation comes first, and the   *)
(* wait after caught_up does not count.                                    *)

FetchReserve(j) ==
    /\ pc[j] = "idle"
    /\ ReserveSource
    /\ pc' = [pc EXCEPT ![j] = "reserved"]
    /\ UNCHANGED <<now, at, db, sentAt>>

FetchCheckBlock(j) ==
    /\ pc[j] = "reserved"
    /\ IF BlockedFor({"consumo_indevido", "rate_budget"})
         THEN Release(j)
         ELSE pc' = [pc EXCEPT ![j] = "password"] /\ UNCHANGED <<running, at>>
    /\ UNCHANGED <<now, db, sentAt>>

-----------------------------------------------------------------------------
(* What both do with the reservation held                                  *)

\* LoadForCompany waits for the user as long as it takes.
PasswordGiven(j) ==
    /\ pc[j] = "password"
    /\ pc' = [pc EXCEPT ![j] = "budget"]
    /\ UNCHANGED <<now, running, at, db, sentAt>>

\* A refused password, a cancel before the request, or a database error.
Abort(j) ==
    /\ pc[j] \in {"password", "budget", "record", "send"}
    /\ Release(j)
    /\ UNCHANGED <<now, db, sentAt>>

\* spendRequest with budget left: the row is written by RecordRequest.
SpendCheck(j) ==
    /\ pc[j] = "budget"
    /\ ~BudgetSpent
    /\ at' = [at EXCEPT ![j] = now]
    /\ pc' = [pc EXCEPT ![j] = "record"]
    /\ UNCHANGED <<now, running, db, sentAt>>

\* spendRequest with the budget spent: the source is blocked, the job ends.
SpendRefused(j) ==
    /\ pc[j] = "budget"
    /\ BudgetSpent
    /\ \E until \in 0 .. now + Hour :
          IsRateUntil(until) /\ SetBlockedUntil(until, "rate_budget")
    /\ Release(j)
    /\ UNCHANGED <<now, requests, horizon, sentAt>>

\* RecordRequest: insert the row and prune, in one transaction.
PruneAll(t) == horizon' = t
PruneOld(t) == horizon' = IF t - Retention > horizon THEN t - Retention ELSE horizon

RecordRequest(j) ==
    /\ pc[j] = "record"
    /\ requests' = Append(requests, at[j])
    /\ PruneOld(at[j])
    /\ sentAt' = Append(sentAt, NotSent)
    /\ at' = [at EXCEPT ![j] = 0]
    /\ pc' = [pc EXCEPT ![j] = "send"]
    /\ UNCHANGED <<now, running, blockedUntil, blockedReason>>

\* The request leaves for the tax authority.
Send(j) ==
    /\ pc[j] = "send"
    /\ sentAt' = [sentAt EXCEPT ![Len(sentAt)] = now]
    /\ pc' = [pc EXCEPT ![j] = "receive"]
    /\ UNCHANGED <<now, running, at, db>>

\* The answer asks for no wait: a pull with more to fetch loops.
ReceiveMore(j) ==
    /\ pc[j] = "receive"
    /\ j \in Pulls
    /\ pc' = [pc EXCEPT ![j] = "budget"]
    /\ UNCHANGED <<now, running, at, db, sentAt>>

\* cStat 137, or 138 with ultNSU = maxNSU (pull), or cStat 656 (both): the
\* wait is recorded outside the caller's context before anything else.
ReceiveWait(j) ==
    /\ pc[j] = "receive"
    /\ \E reason \in {"caught_up", "consumo_indevido"} :
          /\ reason = "caught_up" => j \in Pulls
          /\ SetBlockedUntil(now + Hour, reason)
    /\ Release(j)
    /\ UNCHANGED <<now, requests, horizon, sentAt>>

\* A fetch that got its answer, a transport error, a rejection, a lost
\* answer, or a wait the database refused to record.
ReceiveEnd(j) ==
    /\ pc[j] = "receive"
    /\ Release(j)
    /\ UNCHANGED <<now, db, sentAt>>

-----------------------------------------------------------------------------
(* The environment                                                         *)

Tick ==
    /\ now < MaxTime
    /\ now' = now + 1
    /\ UNCHANGED <<running, pc, at, db, sentAt>>

\* The process dies: what was in memory is gone, the database stays.
Crash ==
    /\ running' = FALSE
    /\ pc' = [j \in Job |-> "idle"]
    /\ at' = [j \in Job |-> 0]
    /\ UNCHANGED <<now, db, sentAt>>

-----------------------------------------------------------------------------
Held(j) ==
    \/ PasswordGiven(j)
    \/ Abort(j)
    \/ SpendCheck(j)
    \/ SpendRefused(j)
    \/ RecordRequest(j)
    \/ Send(j)
    \/ ReceiveMore(j)
    \/ ReceiveWait(j)
    \/ ReceiveEnd(j)

Next ==
    \/ \E j \in Pulls : PullCheckBlock(j) \/ PullReserve(j) \/ PullRefused(j)
    \/ \E j \in Fetches : FetchReserve(j) \/ FetchCheckBlock(j)
    \/ \E j \in Job : Held(j)
    \/ Tick
    \/ Crash

Spec == Init /\ [][Next]_vars

-----------------------------------------------------------------------------
(* What must hold                                                          *)

\* At most one job of the pair holds the reservation, so the read of the
\* budget and the write of its row (spendRequest) are not interleaved with
\* another job's, although they are two statements.
OneHolder ==
    \A j, k \in Job : pc[j] \in Holding /\ pc[k] \in Holding => j = k

\* The rolling budget: between a recorded request and the Budget-th one after
\* it more than an hour passes, over crashes and pruning, whichever jobs
\* spent them (spendRequest, RequestsSince, RecordRequest).
BudgetRespected ==
    \A i, k \in DOMAIN requests : i + Budget <= k => requests[k] > requests[i] + Hour

\* What the tax authority sees.  A row is written before the request leaves
\* and the request may leave late, so it can count one request more than
\* Budget in an hour, and never two.
SendRate ==
    \A i, k \in DOMAIN sentAt :
        /\ i + Budget + 1 <= k
        /\ sentAt[i] # NotSent
        /\ sentAt[k] # NotSent
        => sentAt[k] > sentAt[i] + Hour

\* FetchByChave never has a request on its way while a consumo_indevido or
\* rate_budget block recorded before it is in force: it checks the block
\* after reserving, and nobody else writes the block until it releases.
FetchHonoursBlock ==
    \A j \in Fetches :
        pc[j] \in {"password", "budget", "record", "send", "receive"} =>
            now >= blockedUntil \/ blockedReason \notin {"consumo_indevido", "rate_budget"}

\* The documentation: "Um pull dentro desse intervalo e recusado antes de
\* pedir a senha" (docs/NFE_SEFAZ.md:69, without accents here).  No pull is
\* about to query while a block is in force.
PullHonoursBlock ==
    \A j \in Pulls : pc[j] = "send" => ~BlockedFor(Reasons)

\* The documentation: "o pull para com caught_up e a proxima consulta so e
\* permitida 1 hora depois" (docs/NFE_SEFAZ.md:65, without accents here).  The
\* wait a pull recorded for that lasts its hour, whoever queries meanwhile.
CaughtUpWaitKept ==
    [][now < blockedUntil /\ blockedReason = "caught_up" => blockedUntil' >= blockedUntil]_vars
=============================================================================
