----------------------------- MODULE CloseGuard -----------------------------
(***************************************************************************)
(* The operations of the desktop and what waits for them                   *)
(* (desktop/closeguard.go, app.go, updater.go, main.go).                   *)
(*                                                                         *)
(* A bound method runs on a goroutine of its own from its call to its      *)
(* return.  The guard counts the tracked ones: an update is refused while  *)
(* one runs and refuses new ones, the window asks before it leaves a pull, *)
(* and the shutdown waits for them, a bounded time, before it closes the   *)
(* database.  What a method does between its call and its return is one    *)
(* step here; Desktop adds the certificate it loads.                       *)
(***************************************************************************)
EXTENDS Integers, FiniteSets

CONSTANTS
    Calls,      \* the calls that may be in flight at once
    Keys,       \* (company, source) pairs, as CancelSync names them
    KeyOf,      \* [Calls -> Keys]
    Bound       \* [Calls -> subsets of Methods], the bound methods each call may be of

\* How a bound method runs: it asks the guard (tracked), counts as a pull,
\* can be found by CancelSync, stops with its own call and loads a
\* certificate.
Running(pull, cancelable, own, loads) ==
    [tracked |-> TRUE, pull |-> pull, cancelable |-> cancelable, own |-> own, loads |-> loads]
Sync == Running(TRUE, TRUE, TRUE, TRUE)
Import == Running(TRUE, FALSE, TRUE, FALSE)
Fetch == Running(TRUE, FALSE, TRUE, TRUE)
Ask == Running(FALSE, FALSE, TRUE, TRUE)
Export == Running(FALSE, FALSE, TRUE, FALSE)
Send == Running(FALSE, FALSE, FALSE, TRUE)
Reset == Running(FALSE, FALSE, FALSE, FALSE)
\* Only the readiness is checked: the app's context and no count.
Brief == [Reset EXCEPT !.tracked = FALSE]

NFeSyncMethods ==
    [PullNFe |-> Sync, ImportNFeXML |-> Import, FetchNFeByChave |-> Fetch,
     StatusNFe |-> Brief, ListNFe |-> Brief]
NFeEventMethods ==
    [MarkNFeViewed |-> Brief, ListNFeEvents |-> Brief, ListNFePendingManifestacoes |-> Brief,
     PlanNFeCiencia |-> Reset, RegisterNFeCiencia |-> Send, RegisterNFeManifestacao |-> Send]
NFeExportMethods ==
    [ExportNFeXML |-> Export, ExportDANFE |-> Export, ExportNFeDocuments |-> Export,
     ResetNFe |-> Reset]
CTeSyncMethods ==
    [PullCTe |-> Sync, ImportCTeXML |-> Import, StatusCTe |-> Brief, ListCTe |-> Brief,
     MarkCTeViewed |-> Brief, ListCTeEvents |-> Brief]
CTeExportMethods ==
    [ExportCTeXML |-> Export, ExportDACTE |-> Export, ExportCTeDocuments |-> Export,
     PreviewResetCTe |-> Reset, ResetCTe |-> Reset]
NFSeSyncMethods ==
    [Pull |-> Sync, ResetSyncState |-> Reset, QueryNFSeEvents |-> Ask,
     ListDocuments |-> Brief, ListEventsForDocument |-> Brief, Status |-> Brief]
NFSeExportMethods ==
    [ExportDANFSe |-> Export, ExportXML |-> Export, ExportDocuments |-> Export,
     MarkDocumentsViewed |-> Brief]
CompanyMethods ==
    [AddCompany |-> Brief, AddCredential |-> Brief, ListCredentials |-> Brief,
     UpdateCredentialPath |-> Brief, UpdateCredentialData |-> Brief, UpdateCompany |-> Brief,
     AssignCredentialToCompany |-> Brief, ListCompanies |-> Brief,
     TestConnection |-> Ask, TestCTeConnection |-> Ask]

\* The methods by area, each name in one of them.
Areas == {NFeSyncMethods, NFeEventMethods, NFeExportMethods, CTeSyncMethods, CTeExportMethods,
          NFSeSyncMethods, NFSeExportMethods, CompanyMethods}
Methods == UNION {DOMAIN area : area \in Areas}
MethodOf(name) == (CHOOSE area \in Areas : name \in DOMAIN area)[name]
Kinds == {Sync, Import, Fetch, Ask, Export, Send, Reset, Brief}

ASSUME BoundAssumption ==
    /\ IsFiniteSet(Calls)
    /\ KeyOf \in [Calls -> Keys]
    /\ Bound \in [Calls -> SUBSET Methods]

VARIABLES
    stage,      \* where each call is
    method,     \* how the method of each call runs
    canceled,   \* its context ended
    ops,        \* closeGuard.ops
    pulls,      \* closeGuard.pulls
    cancels,    \* the calls with an entry in closeGuard.cancels
    installing, \* closeGuard.installing
    update,     \* the update being installed
    allow,      \* closeGuard.allow
    window,     \* the window, and the confirmation it may show
    app,        \* the app's shutdown
    expired,    \* shutdownWait passed
    due         \* history: calls in flight when the shutdown began to wait, still to record

guard == <<ops, pulls, cancels, installing, allow>>
leaving == <<update, window, app, expired>>
calls == <<stage, method, canceled>>
guardVars == <<calls, guard, leaving, due>>

Stages == {"idle", "begun", "core", "ended"}

GuardTypeOK ==
    /\ stage \in [Calls -> Stages]
    /\ method \in [Calls -> Kinds]
    /\ canceled \in [Calls -> BOOLEAN]
    /\ ops \in Nat /\ pulls \in Nat
    /\ cancels \subseteq Calls
    /\ installing \in BOOLEAN
    /\ update \in {"none", "running", "restarted"}
    /\ allow \in BOOLEAN
    /\ window \in {"open", "confirming", "leaving"}
    /\ app \in {"running", "waiting", "closing", "closed"}
    /\ expired \in BOOLEAN
    /\ due \subseteq Calls

GuardInit ==
    /\ stage = [c \in Calls |-> "idle"]
    /\ method = [c \in Calls |-> Brief]
    /\ canceled = [c \in Calls |-> FALSE]
    /\ ops = 0 /\ pulls = 0
    /\ cancels = {}
    /\ installing = FALSE
    /\ update = "none"
    /\ allow = FALSE
    /\ window = "open"
    /\ app = "running"
    /\ expired = FALSE
    /\ due = {}

Tracked == {c \in Calls : stage[c] # "idle" /\ method[c].tracked}
InPull == {c \in Tracked : method[c].pull}

-----------------------------------------------------------------------------
(* A call.  Nothing runs once the database is closed: the process ends.    *)
(* The shutdown holds the UI thread, so the user's other steps come before.*)

\* Mutant of Start: only the pulls are counted.
StartPull(m) ==
    /\ ~installing
    /\ IF m.pull THEN ops' = ops + 1 /\ pulls' = pulls + 1 ELSE UNCHANGED <<ops, pulls>>

\* closeGuard.start: refused once an update installs, counted otherwise.
Start(m) ==
    /\ ~installing
    /\ ops' = ops + 1
    /\ pulls' = pulls + (IF m.pull THEN 1 ELSE 0)

\* App.begin; a call that finds an update installing returns at once.
Begin(c, name) ==
    LET m == MethodOf(name)
    IN  /\ stage[c] = "idle"
        /\ app # "closed"
        /\ IF m.tracked THEN Start(m) ELSE UNCHANGED <<ops, pulls>>
        /\ stage' = [stage EXCEPT ![c] = IF m.cancelable THEN "begun" ELSE "core"]
        /\ method' = [method EXCEPT ![c] = m]
        /\ UNCHANGED <<canceled, cancels, installing, allow, leaving, due>>

\* closeGuard.cancelable: until here CancelSync does not find the call.
Cancelable(c) ==
    /\ stage[c] = "begun" /\ app # "closed"
    /\ cancels' = cancels \cup {c}
    /\ stage' = [stage EXCEPT ![c] = "core"]
    /\ UNCHANGED <<method, canceled, ops, pulls, installing, allow, leaving, due>>

\* The core returned: it recorded how the operation ended, or its work.
CoreEnds(c) ==
    /\ stage[c] = "core" /\ app # "closed"
    /\ stage' = [stage EXCEPT ![c] = "ended"]
    /\ due' = due \ {c}
    /\ UNCHANGED <<method, canceled, guard, leaving>>

\* The func start returned.
Done(m) ==
    /\ ops' = ops - 1
    /\ pulls' = pulls - (IF m.pull THEN 1 ELSE 0)

\* The deferred stop of cancelable, then the end of begin; the next call has
\* a context of its own.
End(c) ==
    /\ stage[c] = "ended" /\ app # "closed"
    /\ cancels' = cancels \ {c}
    /\ stage' = [stage EXCEPT ![c] = "idle"]
    /\ method' = [method EXCEPT ![c] = Brief]
    /\ canceled' = [canceled EXCEPT ![c] = FALSE]
    /\ IF method[c].tracked THEN Done(method[c]) ELSE UNCHANGED <<ops, pulls>>
    /\ UNCHANGED <<installing, allow, leaving, due>>

\* The calls an entry of key k cancels.
Canceled(k) == {c \in cancels : KeyOf[c] = k}

CancelSync(k) ==
    /\ app = "running"
    /\ canceled' = [c \in Calls |-> canceled[c] \/ c \in Canceled(k)]
    /\ UNCHANGED <<stage, method, guard, leaving, due>>

\* The frontend cancels its call, or the window closes.
CancelCall(c) ==
    /\ stage[c] \in {"begun", "core"} /\ app = "running"
    /\ method[c].own
    /\ canceled' = [canceled EXCEPT ![c] = TRUE]
    /\ UNCHANGED <<stage, method, guard, leaving, due>>

\* callContext: the app's context ends each call's, from a goroutine.
CancelByShutdown(c) ==
    /\ app \in {"waiting", "closing"}
    /\ stage[c] # "idle" /\ ~canceled[c]
    /\ canceled' = [canceled EXCEPT ![c] = TRUE]
    /\ UNCHANGED <<stage, method, guard, leaving, due>>

-----------------------------------------------------------------------------
(* An update.                                                              *)

\* Mutant of Idle: an export or an event being sent does not hold it.
NoPull == pulls = 0

\* What beginInstall requires of the counts.
Idle == pulls = 0 /\ ops = 0

BeginInstall ==
    /\ app = "running"
    /\ ~installing /\ Idle
    /\ installing' = TRUE
    /\ update' = "running"
    /\ UNCHANGED <<calls, ops, pulls, cancels, allow, window, app, expired, due>>

\* DownloadAndInstall or Restart fails.
EndInstall ==
    /\ app # "closed"
    /\ update = "running"
    /\ installing' = FALSE
    /\ update' = "none"
    /\ UNCHANGED <<calls, ops, pulls, cancels, allow, window, app, expired, due>>

-----------------------------------------------------------------------------
(* The window and the shutdown.                                            *)

\* Mutant of MayLeave: a sync is what CancelSync could cancel.
MayLeaveUncancelable == allow \/ cancels = {}

\* beforeClose lets the window go.
MayLeave == allow \/ pulls = 0

\* The download is done: Restart asks Wails to quit, which asks beforeClose.
Restart ==
    /\ update = "running" /\ app = "running"
    /\ window # "leaving" /\ MayLeave
    /\ update' = "restarted"
    /\ window' = "leaving"
    /\ UNCHANGED <<calls, guard, app, expired, due>>

\* The title bar, Ctrl+Q, the menu or the system.
CloseWindow ==
    /\ window # "leaving"
    /\ window' = IF MayLeave THEN "leaving" ELSE "confirming"
    /\ UNCHANGED <<calls, guard, update, app, expired, due>>

Stay ==
    /\ window = "confirming"
    /\ window' = "open"
    /\ UNCHANGED <<calls, guard, update, app, expired, due>>

ConfirmQuit ==
    /\ window = "confirming"
    /\ allow' = TRUE
    /\ window' = "leaving"
    /\ UNCHANGED <<calls, ops, pulls, cancels, installing, update, app, expired, due>>

\* Wails ends the app's context and calls ServiceShutdown right away.
ServiceShutdown ==
    /\ window = "leaving" /\ app = "running"
    /\ app' = "waiting"
    /\ due' = {c \in Tracked : stage[c] \in {"begun", "core"}}
    /\ UNCHANGED <<calls, guard, update, window, expired>>

\* Mutant of NoneRuns: only the syncs are waited for.
NoPullRuns == pulls = 0

\* What waitIdle polls for.
NoneRuns == ops = 0

WaitIdle ==
    /\ app = "waiting" /\ NoneRuns
    /\ app' = "closing"
    /\ UNCHANGED <<calls, guard, update, window, expired, due>>

\* Mutant of WaitExpires: the wait has no bound.
WaitsForever == FALSE

WaitExpires ==
    /\ app = "waiting" /\ ops > 0
    /\ app' = "closing"
    /\ expired' = TRUE
    /\ UNCHANGED <<calls, guard, update, window, due>>

\* The database and the log close.
Cleanup ==
    /\ app = "closing"
    /\ app' = "closed"
    /\ UNCHANGED <<calls, guard, update, window, expired, due>>

LeavingNext ==
    \/ BeginInstall \/ EndInstall \/ Restart
    \/ CloseWindow \/ Stay \/ ConfirmQuit
    \/ ServiceShutdown \/ WaitIdle \/ WaitExpires \/ Cleanup

GuardNext ==
    \/ \E c \in Calls :
          \/ \E name \in Bound[c] : Begin(c, name)
          \/ Cancelable(c) \/ CoreEnds(c) \/ End(c)
          \/ CancelCall(c) \/ CancelByShutdown(c)
    \/ \E k \in Keys : CancelSync(k)
    \/ LeavingNext

GuardSpec == GuardInit /\ [][GuardNext]_guardVars

-----------------------------------------------------------------------------

\* The counts are the operations in flight, and an update that installs runs
\* alone: an operation and an update never both start (closeGuard.start,
\* beginInstall).
InstallAlone ==
    /\ ops = Cardinality(Tracked) /\ pulls = Cardinality(InPull)
    /\ installing => Tracked = {}

\* The window leaves a sync, an import or a fetch in flight only after the
\* user confirmed it (beforeClose, ConfirmQuit).
QuitConfirmed ==
    [][window # "leaving" /\ window' = "leaving" /\ InPull # {} => allow']_guardVars

\* The database closes under an operation that was running at shutdown only
\* after shutdownWait: otherwise each recorded how it ended (ServiceShutdown).
RecordedBeforeClose == app = "closed" /\ ~expired => due = {}
=============================================================================
