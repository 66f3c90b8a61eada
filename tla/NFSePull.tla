------------------------------ MODULE NFSePull ------------------------------
(***************************************************************************)
(* The NFS-e of a company, pulled by two processes (sync/manager.go,       *)
(* sync/loop.go, sync/source_nfse.go, sync/store.go) while its record is   *)
(* edited (Companies) and its cursor reset.                                *)
(*                                                                         *)
(* A pull reads the company once, may then wait long for the password of   *)
(* its certificate, and only after that opens the cursor and its run.  The *)
(* reservation of the source is in the memory of one process: nothing but  *)
(* StartRun, which interrupts every running run of the company and source  *)
(* unless its UPDATE fails, knows of the other process.  SyncLoop has the rest of the loop: the     *)
(* requests, the waits and the items that cannot be read.                  *)
(***************************************************************************)
EXTENDS Companies, Sequences, FiniteSets

CONSTANTS
    Processes,      \* the desktop and the CLI
    Chaves,         \* the NFS-e
    NFSeFeed,       \* [Envs -> Seq(NFSeItem)], what the ADN hands the company
    MaxRuns,        \* bound on runs
    MaxNFSeResets   \* bound on resets

NFSeEventTypes == {"cancelamento", "substituicao", "outro"}
NFSeDocument == [kind : {"document"}, chave : Chaves, date : Nat]
NFSeEvent == [kind : {"event"}, chave : Chaves, type : NFSeEventTypes]
NFSeItem == NFSeDocument \cup NFSeEvent

ASSUME NFSeAssumption ==
    /\ NFSeFeed \in [Envs -> Seq(NFSeItem)]
    /\ IsFiniteSet(Processes)
    /\ MaxRuns \in Nat /\ MaxNFSeResets \in Nat

VARIABLES
    status,         \* documents.status by chave, "none" without a row
    nfseEvents,     \* the events rows, which raw_hash keeps distinct
    nfseLinked,     \* those whose document_id points to their document
    sees,           \* chaves with a company_documents row
    initialDone,    \* environments with initial_sync_completed_at
    runs,           \* the sync_runs rows, in order of insertion
    pulling,        \* the pull each process runs
    nfseResets      \* resets so far

nfseVars == <<companyVars, status, nfseEvents, nfseLinked, sees, initialDone, runs, pulling, nfseResets>>

NFSeStatuses == {"normal", "cancelada", "substituida"}
NoPull == [stage |-> "none"]
PullStages == {"reserved", "opened", "read", "cleared", "walking", "keep", "drop", "caught_up", "finishing"}
\* cleared: how many rows the UPDATE of StartRun went over, none if it failed.
Run == [status : {"running", "interrupted", "finished"}, env : Envs, cleared : Nat]
Pull == [stage : PullStages, env : Envs, start : Starts, at : Nat, done : BOOLEAN,
         cleared : Nat, run : Nat]

NFSeTypeOK ==
    /\ CompaniesTypeOK
    /\ status \in [Chaves -> {"none"} \cup NFSeStatuses]
    /\ nfseEvents \subseteq NFSeEvent
    /\ nfseLinked \subseteq nfseEvents
    /\ sees \subseteq Chaves
    /\ initialDone \subseteq Envs
    /\ runs \in Seq(Run)
    /\ Len(runs) <= MaxRuns
    /\ pulling \in [Processes -> {NoPull} \cup Pull]
    /\ \A p \in Processes : pulling[p] # NoPull => pulling[p].run <= Len(runs)
    /\ nfseResets \in 0 .. MaxNFSeResets

NFSeInit ==
    /\ CompaniesInit
    /\ status = [k \in Chaves |-> "none"]
    /\ nfseEvents = {}
    /\ nfseLinked = {}
    /\ sees = {}
    /\ initialDone = {}
    /\ runs = <<>>
    /\ pulling = [p \in Processes |-> NoPull]
    /\ nfseResets = 0

nfseDocs == <<status, nfseEvents, nfseLinked, sees>>

-----------------------------------------------------------------------------
(* The start of a pull.                                                    *)

At(p, stage) == pulling[p].stage = stage

Step(p, next) == pulling' = [pulling EXCEPT ![p] = next]

\* The company is read, the reservation taken; the password may take long.
ReadCompany(p) ==
    /\ pulling[p] = NoPull
    /\ company # NoCompany
    /\ Len(runs) + Cardinality({q \in Processes : pulling[q] # NoPull /\ pulling[q].run = 0}) < MaxRuns
    /\ Step(p, [stage |-> "reserved", env |-> company.env, start |-> company.start,
                at |-> 0, done |-> FALSE, cleared |-> 0, run |-> 0])
    /\ MarkRaced
    /\ UNCHANGED <<company, cursor, edits, overlapped, nfseDocs, initialDone, runs, nfseResets>>

GetOrCreateState(p) ==
    /\ At(p, "reserved")
    /\ LET env == pulling[p].env
           n == IF cursor[env] = NoCursor THEN 0 ELSE cursor[env]
       IN  /\ cursor' = [cursor EXCEPT ![env] = n]
           /\ Step(p, [pulling[p] EXCEPT !.stage = "opened", !.at = n])
    /\ UNCHANGED <<company, editing, edits, overlapped, nfseDocs, initialDone, runs, nfseResets>>

ReadSourceState(p) ==
    /\ At(p, "opened")
    /\ Step(p, [pulling[p] EXCEPT !.stage = "read", !.done = pulling[p].env \in initialDone])
    /\ UNCHANGED <<companyVars, nfseDocs, initialDone, runs, nfseResets>>

\* Mutant of Covered: only the runs of the pull's own environment.
CoveredHere(p, r) == r.status = "running" /\ r.env = pulling[p].env

\* The rows the UPDATE of StartRun interrupts.
Covered(p, r) == r.status = "running"

InterruptRuns(p) ==
    /\ At(p, "read")
    /\ runs' = [i \in DOMAIN runs |->
                  IF Covered(p, runs[i]) THEN [runs[i] EXCEPT !.status = "interrupted"] ELSE runs[i]]
    /\ Step(p, [pulling[p] EXCEPT !.stage = "cleared", !.cleared = Len(runs)])
    /\ UNCHANGED <<companyVars, nfseDocs, initialDone, nfseResets>>

\* The UPDATE fails: StartRun discards its error, and inserts the run with the
\* others running.
InterruptFails(p) ==
    /\ At(p, "read")
    /\ Step(p, [pulling[p] EXCEPT !.stage = "cleared"])
    /\ UNCHANGED <<companyVars, nfseDocs, initialDone, runs, nfseResets>>

InsertRun(p) ==
    /\ At(p, "cleared")
    /\ runs' = Append(runs, [status |-> "running", env |-> pulling[p].env,
                             cleared |-> pulling[p].cleared])
    /\ Step(p, [pulling[p] EXCEPT !.stage = "walking", !.run = Len(runs) + 1])
    /\ UNCHANGED <<companyVars, nfseDocs, initialDone, nfseResets>>

-----------------------------------------------------------------------------
(* The walk.  The progress of an item is in its transaction; it is an      *)
(* UPDATE, which writes nothing when another process removed the row.      *)

NextNFSe(p) == NFSeFeed[pulling[p].env][pulling[p].at + 1]

Left(p) == pulling[p].at < Len(NFSeFeed[pulling[p].env])

Persist(p, n) ==
    cursor' = IF cursor[pulling[p].env] = NoCursor THEN cursor
              ELSE [cursor EXCEPT ![pulling[p].env] = n]

Advance(p) ==
    /\ Persist(p, pulling[p].at + 1)
    /\ Step(p, [pulling[p] EXCEPT !.stage = "walking", !.at = pulling[p].at + 1])

\* The date decides only until the first walk of the environment is over.
SkipByInitialPolicy(p) == ~pulling[p].done /\ NextNFSe(p).date < pulling[p].start

EventsOf(k) == {x \in nfseEvents : x.chave = k}

EventTypes(evs) == {x.type : x \in evs}

StatusFromEvents(evs) ==
    IF "substituicao" \in EventTypes(evs) THEN "substituida"
    ELSE IF "cancelamento" \in EventTypes(evs) THEN "cancelada"
    ELSE "normal"

\* Mutant of StatusAfterUpsert: the status the parser gives is left as it is.
StatusAsParsed(k) == "normal"

\* The upsert writes the status the parser gives, and recomputeDocumentStatus
\* applies the stored events over it.
StatusAfterUpsert(k) == StatusFromEvents(EventsOf(k))

UpsertDocument(k) == status' = [status EXCEPT ![k] = StatusAfterUpsert(k)]

UpsertCompanyDocument(k) == sees' = sees \cup {k}

LinkEvents(k) == nfseLinked' = nfseLinked \cup EventsOf(k)

StoreNFSe(p) ==
    LET k == NextNFSe(p).chave
    IN  /\ At(p, "walking") /\ Left(p)
        /\ NextNFSe(p).kind = "document"
        /\ ~SkipByInitialPolicy(p)
        /\ UpsertDocument(k)
        /\ UpsertCompanyDocument(k)
        /\ LinkEvents(k)
        /\ Advance(p)
        /\ UNCHANGED <<company, editing, edits, overlapped, nfseEvents, initialDone, runs, nfseResets>>

SkipNFSe(p) ==
    /\ At(p, "walking") /\ Left(p)
    /\ NextNFSe(p).kind = "document"
    /\ SkipByInitialPolicy(p)
    /\ Advance(p)
    /\ UNCHANGED <<company, editing, edits, overlapped, nfseDocs, initialDone, runs, nfseResets>>

\* An event is kept if the company sees its document; what is decided here is
\* done in a later transaction.
CheckNFSeEvent(p) ==
    /\ At(p, "walking") /\ Left(p)
    /\ NextNFSe(p).kind = "event"
    /\ Step(p, [pulling[p] EXCEPT !.stage = IF NextNFSe(p).chave \in sees THEN "keep" ELSE "drop"])
    /\ UNCHANGED <<companyVars, nfseDocs, initialDone, runs, nfseResets>>

\* The same raw_hash is stored once, linked to the document of its chave.
InsertEvent(x) ==
    /\ nfseEvents' = nfseEvents \cup {x}
    /\ nfseLinked' = IF x \in nfseEvents \/ status[x.chave] = "none" THEN nfseLinked
                     ELSE nfseLinked \cup {x}

\* The UPDATE writes nothing when there is no document.
RecomputeStatus(x) ==
    status' = IF status[x.chave] = "none" THEN status
              ELSE [status EXCEPT ![x.chave] = StatusFromEvents(EventsOf(x.chave) \cup {x})]

StoreNFSeEvent(p) ==
    LET x == NextNFSe(p)
    IN  /\ At(p, "keep")
        /\ InsertEvent(x)
        /\ RecomputeStatus(x)
        /\ Advance(p)
        /\ UNCHANGED <<company, editing, edits, overlapped, sees, initialDone, runs, nfseResets>>

DropNFSeEvent(p) ==
    /\ At(p, "drop")
    /\ Advance(p)
    /\ UNCHANGED <<company, editing, edits, overlapped, nfseDocs, initialDone, runs, nfseResets>>

\* The empty batch, with its checkpoint, and the first walk that is over.
EmptyBatch(p) ==
    /\ At(p, "walking") /\ ~Left(p)
    /\ Persist(p, pulling[p].at)
    /\ Step(p, [pulling[p] EXCEPT !.stage = IF pulling[p].done THEN "finishing" ELSE "caught_up"])
    /\ UNCHANGED <<company, editing, edits, overlapped, nfseDocs, initialDone, runs, nfseResets>>

MarkInitialSyncCompleted(p) ==
    /\ At(p, "caught_up")
    /\ initialDone' = initialDone \cup {pulling[p].env}
    /\ Step(p, [pulling[p] EXCEPT !.stage = "finishing"])
    /\ UNCHANGED <<companyVars, nfseDocs, runs, nfseResets>>

\* FinishRun writes the row of the run whatever its status is by now: when
\* the walk is over, or when it failed or was cancelled anywhere before.
FinishRun(p) ==
    /\ pulling[p] # NoPull
    /\ pulling[p].run # 0
    /\ runs' = [runs EXCEPT ![pulling[p].run].status = "finished"]
    /\ Step(p, NoPull)
    /\ UNCHANGED <<companyVars, nfseDocs, initialDone, nfseResets>>

\* A pull that fails before its run, or a process that dies.
Die(p) ==
    /\ pulling[p] # NoPull
    /\ Step(p, NoPull)
    /\ UNCHANGED <<companyVars, nfseDocs, initialDone, runs, nfseResets>>

\* The reset needs the reservation of its own process.  It removes the cursor
\* and clears the flag in every environment; the documents stay.
ResetNFSe(p) ==
    /\ pulling[p] = NoPull
    /\ company # NoCompany
    /\ nfseResets < MaxNFSeResets
    /\ nfseResets' = nfseResets + 1
    /\ cursor' = [e \in Envs |-> NoCursor]
    /\ initialDone' = {}
    /\ UNCHANGED <<company, editing, edits, overlapped, nfseDocs, runs, pulling>>

\* Registration and edits, which take no reservation.
EditCompany ==
    /\ \/ AddCompany
       \/ \E input \in EditInputs : CheckEdit(input, \E p \in Processes : pulling[p] # NoPull)
       \/ WriteEdit
       \/ AbandonEdit
    /\ UNCHANGED <<nfseDocs, initialDone, runs, pulling, nfseResets>>

NFSeNext ==
    \/ EditCompany
    \/ \E p \in Processes :
        \/ ReadCompany(p) \/ GetOrCreateState(p) \/ ReadSourceState(p)
        \/ InterruptRuns(p) \/ InterruptFails(p) \/ InsertRun(p)
        \/ StoreNFSe(p) \/ SkipNFSe(p)
        \/ CheckNFSeEvent(p) \/ StoreNFSeEvent(p) \/ DropNFSeEvent(p)
        \/ EmptyBatch(p) \/ MarkInitialSyncCompleted(p) \/ FinishRun(p)
        \/ Die(p)
        \/ ResetNFSe(p)

NFSeSpec == NFSeInit /\ [][NFSeNext]_nfseVars

-----------------------------------------------------------------------------
(* Properties.                                                             *)

\* The status of a stored NFS-e is the one its stored events give, although
\* the walk after a reset writes the parsed one, always normal, over it, and
\* the events that give it are those linked to the document, which the user
\* sees with it (sync/store.go:133, sync/store.go:852).
StatusFollowsEvents ==
    \A k \in Chaves : status[k] # "none" =>
        /\ status[k] = StatusFromEvents(EventsOf(k))
        /\ EventsOf(k) \subseteq nfseLinked

\* What the cursor passed and the company does not see was issued before the
\* start its record says now, whatever edits, changes of environment, resets
\* and pulls of two processes came before.  The exception is a start that an
\* edit changed while it overlapped a pull (company/manager.go:211,
\* sync/manager.go:160).
PolicyKept ==
    ~overlapped =>
        \A e \in Envs : \A i \in 1 .. cursor[e] :
            LET x == NFSeFeed[e][i]
            IN  x.kind = "document" /\ x.chave \notin sees => x.date < company.start

\* A run whose row was there when the UPDATE of a later start went through
\* does not show as running: what a dead process left is cleaned up in every
\* environment, and no late write brings it back.  A start whose UPDATE failed
\* cleans nothing up, and its run stands beside the old one
\* (sync/manager.go:270, sync/store.go:75).
RunsInterrupted ==
    \A j \in DOMAIN runs : \A i \in 1 .. runs[j].cleared : runs[i].status # "running"
=============================================================================
