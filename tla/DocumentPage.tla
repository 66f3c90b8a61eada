---------------------------- MODULE DocumentPage ----------------------------
(***************************************************************************)
(* A document page of the desktop's frontend: NFS-e, NF-e or CT-e          *)
(* (desktop/frontend/src: stores/ and composables/).  The stores outlive   *)
(* the page, the user picks another company or competência at any time,    *)
(* and the replies of the backend come in any order, after the company     *)
(* changed or the page was left.                                           *)
(*                                                                         *)
(* A step runs to its next await, with the watchers it triggers: nothing   *)
(* else runs in between.  A row stands for a document and the company      *)
(* whose reply brought it.  Texts, filters that only narrow a search and   *)
(* notices are left out.                                                   *)
(***************************************************************************)
EXTENDS Naturals, FiniteSets

CONSTANTS
    Companies,      \* CNPJs
    FirstCompany,   \* the first company of every list
    Competences,    \* the competências the user steps through
    Notes,          \* documents every company sees
    Sessions        \* bound on sessions: the page, what the user does, how many
                    \* loads run when the user acts, and how many calls,
                    \* dialogs and plans at once

Uses == {"companies", "months", "list", "sync", "events"}

ASSUME CompanyAssumption == FirstCompany \in Companies /\ "none" \notin Companies
ASSUME SessionAssumption ==
    Sessions \subseteq [source : {"nfse", "nfe", "cte"}, uses : SUBSET Uses,
                        loads : Nat, busy : Nat]

VARIABLES
    session,        \* the page, and what the user does
    backendList,    \* the companies the backend lists
    companies,      \* the list loaded last
    cnpj,           \* the workspace company, or None
    stored,         \* the last company chosen, kept across restarts
    competence,     \* the workspace competência
    mounted,        \* the page is shown
    listError,      \* the filter cannot be sent
    loads,          \* loads that wait for their reply
    rows, rowsFor, selected, loading,
    pageStatus, pending, pendingLoading,    \* whose status and pendências are shown
    activeSyncs, cancellable, cancelling, resettingCNPJ,
    cancels,        \* CancelSync calls that wait for their reply
    choosing,       \* imports whose file dialog is open, by company
    calls,          \* pulls, imports, fetches and resets in flight
    unselect,       \* a reset NF-e page has still to drop the selection
    exporting,
    markingViewed,  \* the mark in flight, or NoMark
    dialogs,        \* the dialogs of the page
    previewing,     \* the reset counts being loaded, by company, or None
    planningCiencia, cienciaInFlight, manifestacaoInFlight,
    sends           \* the manifestações being sent

workspace == <<backendList, companies, cnpj, stored, competence>>
view == <<mounted, listError>>
list == <<rows, rowsFor, selected, loading>>
infoVars == <<pageStatus, pending, pendingLoading>>
syncs == <<activeSyncs, cancellable, cancelling, resettingCNPJ, cancels, choosing, calls, unselect>>
actions == <<exporting, markingViewed, dialogs, previewing>>
events == <<planningCiencia, cienciaInFlight, manifestacaoInFlight, sends>>
pageVars == <<session, workspace, view, loads, list, infoVars, syncs, actions, events>>

None == "none"
source == session.source
Does(use) == use \in session.uses
Key == [cnpj : Companies, competence : Competences]
NoKey == [cnpj |-> None, competence |-> None]
Row == [chave : Notes, of : Companies]
NoMark == [cnpj |-> None, chaves |-> {}]
Mark == [cnpj : Companies, chaves : (SUBSET Notes) \ {{}}]

Kinds == {"companies", "search", "pageStatus", "pending", "note"}
Load == [kind : Kinds, cnpj : Companies \cup {None}, competence : Competences \cup {None},
         of : SUBSET (Companies \cup Notes), reset : BOOLEAN, latest : BOOLEAN]
\* A load of company c; of is the list a "companies" load will bring, or the
\* chave of a "note".
NewLoad(kind, c, m, of) ==
    [kind |-> kind, cnpj |-> c, competence |-> m, of |-> of, reset |-> FALSE, latest |-> TRUE]

DialogKinds == {"fetch", "reset", "mark", "export", "ciencia", "manifestacao"}
\* asked is the company the dialog was opened for.
Dialog == [kind : DialogKinds, asked : Companies, chaves : SUBSET Notes]
Call == [kind : {"pull", "import", "fetch", "reset"}, cnpj : Companies, asked : Companies]
Send == [tipo : {"ciencia", "conclusiva"}, cnpj : Companies, chaves : SUBSET Notes]

PageTypeOK ==
    /\ session \in Sessions
    /\ backendList \subseteq Companies /\ companies \subseteq backendList
    /\ cnpj \in companies \cup {None} /\ stored \in Companies \cup {None}
    /\ competence \in Competences /\ mounted \in BOOLEAN /\ listError \in BOOLEAN
    /\ loads \subseteq Load
    /\ rows \subseteq Row /\ selected \subseteq rows
    /\ rowsFor \in Key \cup {NoKey} /\ loading \in BOOLEAN
    /\ pageStatus \in Companies \cup {None} /\ pending \in Companies \cup {None}
    /\ pendingLoading \in BOOLEAN
    /\ activeSyncs \in [Companies -> 0 .. session.busy]
    /\ cancelling \subseteq Companies /\ cancellable \subseteq Companies
    /\ resettingCNPJ \in Companies \cup {None}
    /\ cancels \subseteq Companies /\ choosing \subseteq Companies
    /\ calls \subseteq Call /\ unselect \in BOOLEAN /\ exporting \in BOOLEAN
    /\ markingViewed \in Mark \cup {NoMark}
    /\ dialogs \subseteq Dialog /\ previewing \in Companies \cup {None}
    /\ planningCiencia \in Mark \cup {NoMark}
    /\ cienciaInFlight \in SUBSET Notes /\ manifestacaoInFlight \in SUBSET Notes
    /\ sends \subseteq Send

\* The layout loads the companies; the workspace chose one in an earlier session.
PageInit ==
    /\ session \in Sessions
    /\ backendList = (IF Does("companies") THEN {FirstCompany} ELSE Companies) /\ companies = {}
    /\ cnpj = None /\ stored \in backendList \cup {None}
    /\ competence \in Competences
    /\ mounted = FALSE /\ listError = FALSE
    /\ loads = {NewLoad("companies", None, None, backendList)}
    /\ rows = {} /\ rowsFor = NoKey /\ selected = {} /\ loading = FALSE
    /\ pageStatus = None /\ pending = None /\ pendingLoading = FALSE
    /\ activeSyncs = [c \in Companies |-> 0]
    /\ cancellable = {} /\ cancelling = {} /\ resettingCNPJ = None
    /\ cancels = {} /\ choosing = {} /\ calls = {} /\ unselect = FALSE
    /\ exporting = FALSE /\ markingViewed = NoMark /\ dialogs = {} /\ previewing = None
    /\ planningCiencia = NoMark /\ cienciaInFlight = {} /\ manifestacaoInFlight = {}
    /\ sends = {}

-----------------------------------------------------------------------------
(* The loads (useDocumentLoaders, useNFeLoaders, latestOnly).              *)

\* begin of latestOnly: a newer load takes over from those of its kind.  A
\* reload of one note has no gate.
Begun(ls, l) ==
    {IF x.kind = l.kind /\ l.kind # "note" THEN [x EXCEPT !.latest = FALSE] ELSE x : x \in ls}
        \cup {l}

\* search sends nothing without a company, or with a filter in error.
Searches(c) == c # None /\ ~listError

Searching(ls, c, m) == IF Searches(c) THEN Begun(ls, NewLoad("search", c, m, {})) ELSE ls

\* The NFS-e page has no status, and only the NF-e page has pendências.
LoadingStatus(ls, c) ==
    IF source = "nfse" THEN ls ELSE Begun(ls, NewLoad("pageStatus", c, None, {}))

LoadingPending(ls, c) ==
    IF source # "nfe" THEN ls ELSE Begun(ls, NewLoad("pending", c, None, {}))

LoadingCompanies(ls) == Begun(ls, NewLoad("companies", None, None, backendList))

\* loading and pendingLoading follow the loads that begin.
Flags(ls) ==
    /\ loading' = (loading \/ \E l \in ls \ loads : l.kind = "search" /\ l.latest)
    /\ pendingLoading' = (pendingLoading \/ \E l \in ls \ loads : l.kind = "pending" /\ l.latest)

\* Only the company the page shows is refreshed; the NFS-e page always lists
\* the companies, whose fields carry its sync state.
IsSelected(c) == c = cnpj

RefreshNFSe(ls, c) ==
    LET cs == LoadingCompanies(ls)
    IN  IF IsSelected(c) THEN Searching(cs, c, competence) ELSE cs

RefreshCTe(ls, c) ==
    IF IsSelected(c) THEN LoadingStatus(Searching(ls, c, competence), c) ELSE ls

RefreshNFe(ls, c) ==
    IF IsSelected(c) THEN LoadingPending(LoadingStatus(Searching(ls, c, competence), c), c) ELSE ls

Refresh(ls, c) ==
    CASE source = "nfse" -> RefreshNFSe(ls, c)
      [] source = "cte" -> RefreshCTe(ls, c)
      [] source = "nfe" -> RefreshNFe(ls, c)

\* Only a listed note is reloaded alone.
RefreshNote(ls, c, chave) ==
    IF ~IsSelected(c) THEN ls
    ELSE LET found == IF \E r \in rows : r.chave = chave
                      THEN Begun(ls, NewLoad("note", c, None, {chave}))
                      ELSE Searching(ls, c, competence)
         IN  LoadingPending(LoadingStatus(found, c), c)

\* pruneSelection: the selected rows still listed, swapped for the fresh ones.
Pruned(next, sel) == {r \in next : \E s \in sel : s.chave = r.chave}

SetRows(next) == rows' = next /\ selected' = Pruned(next, selected)

\* Mutant of Accepts: an earlier search of the company counts too.
AcceptsSelected(l) == IsSelected(l.cnpj)

\* A reply counts when no newer load of its kind began and its company is
\* still the one shown.
Accepts(l) == l.latest /\ IsSelected(l.cnpj)

\* The end of a load turns its flag off unless a newer one runs.
Ends(l) ==
    /\ l \in loads
    /\ loads' = loads \ {l}
    /\ loading' = (loading /\ ~(l.kind = "search" /\ l.latest))
    /\ pendingLoading' = (pendingLoading /\ ~(l.kind = "pending" /\ l.latest))

LoadFails(l) ==
    /\ Ends(l)
    /\ UNCHANGED <<session, workspace, view, rows, rowsFor, selected, pageStatus, pending,
                   syncs, actions, events>>

SearchArrives(l, found) ==
    /\ l.kind = "search"
    /\ Ends(l)
    /\ IF Accepts(l)
       THEN /\ SetRows({[chave |-> k, of |-> l.cnpj] : k \in found})
            /\ rowsFor' = [cnpj |-> l.cnpj, competence |-> l.competence]
       ELSE UNCHANGED <<rows, rowsFor, selected>>
    /\ UNCHANGED <<session, workspace, view, pageStatus, pending, syncs, actions, events>>

StatusArrives(l) ==
    /\ l.kind = "pageStatus"
    /\ Ends(l)
    /\ pageStatus' = IF Accepts(l) THEN l.cnpj ELSE pageStatus
    /\ UNCHANGED <<session, workspace, view, rows, rowsFor, selected, pending, syncs, actions, events>>

PendingArrives(l) ==
    /\ l.kind = "pending"
    /\ Ends(l)
    /\ pending' = IF Accepts(l) THEN l.cnpj ELSE pending
    /\ UNCHANGED <<session, workspace, view, rows, rowsFor, selected, pageStatus, syncs, actions, events>>

\* patchRow: the note is swapped for the fresh one, or left out when it no
\* longer matches the filters.
Patched(s, l, matches) ==
    {r \in s : r.chave \notin l.of}
        \cup {[chave |-> r.chave, of |-> l.cnpj] : r \in {x \in s : matches /\ x.chave \in l.of}}

NoteArrives(l, matches) ==
    /\ l.kind = "note"
    /\ Ends(l)
    /\ IF IsSelected(l.cnpj) /\ rowsFor.cnpj = l.cnpj
       THEN rows' = Patched(rows, l, matches) /\ selected' = Patched(selected, l, matches)
       ELSE UNCHANGED <<rows, selected>>
    /\ UNCHANGED <<session, workspace, view, rowsFor, pageStatus, pending, syncs, actions, events>>

-----------------------------------------------------------------------------
(* The workspace (stores/workspace, useWorkspaceList).                     *)

\* Rows of another company or competência.
Cleared(c, m) == rowsFor # [cnpj |-> c, competence |-> m]

\* The watchers of the page, for the company and competência now chosen:
\* what was loaded for others is cleared, then loaded again.  The pendências
\* of the NF-e page go with the status.
Watch(ls, c, m, newCompany) ==
    LET onCompany == IF newCompany THEN LoadingPending(LoadingStatus(ls, c), c) ELSE ls
        next == IF c = None THEN ls ELSE Searching(onCompany, c, m)
    IN  /\ loads' = next /\ Flags(next)
        /\ IF Cleared(c, m)
           THEN rows' = {} /\ selected' = {} /\ rowsFor' = NoKey
           ELSE UNCHANGED <<rows, selected, rowsFor>>
        /\ IF newCompany /\ pageStatus # c
           THEN pageStatus' = None /\ pending' = None
           ELSE UNCHANGED <<pageStatus, pending>>

\* A page that is not shown watches nothing.
Rekey(ls, c, m, newCompany) ==
    IF mounted THEN Watch(ls, c, m, newCompany) ELSE loads' = ls /\ UNCHANGED <<list, infoVars>>

\* The company of a new list: the current one, else the stored one, else the
\* first.
CompanyIn(listed) ==
    CASE cnpj \in listed -> cnpj
      [] cnpj \notin listed /\ stored \in listed -> stored
      [] OTHER -> FirstCompany

CompaniesArrive(l) ==
    LET c == CompanyIn(l.of)
        others == loads \ {l}
    IN  /\ l \in loads /\ l.kind = "companies"
        /\ IF l.latest
           THEN /\ companies' = l.of /\ cnpj' = c /\ stored' = c
                /\ IF c # cnpj
                   THEN Rekey(others, c, competence, TRUE)
                   ELSE loads' = others /\ UNCHANGED <<list, infoVars>>
           ELSE /\ loads' = others
                /\ UNCHANGED <<companies, cnpj, stored, list, infoVars>>
        /\ UNCHANGED <<session, backendList, competence, view, syncs, actions, events>>

\* The user leaves room for the rest: a bound.
Room ==
    /\ Cardinality(loads) <= session.loads
    /\ Cardinality(calls) + Cardinality(sends) + Cardinality(dialogs) + Cardinality(choosing)
         + Cardinality({x \in {planningCiencia, markingViewed} : x # NoMark})
         + (IF exporting THEN 1 ELSE 0) + (IF previewing = None THEN 0 ELSE 1) < session.busy

\* A dialog is modal: the user acts on nothing else.
Free == dialogs = {} /\ Cardinality(loads) <= session.loads

SelectCompany(c) ==
    /\ Free /\ c \in companies \ {cnpj}
    /\ cnpj' = c /\ stored' = c
    /\ Rekey(loads, c, competence, TRUE)
    /\ UNCHANGED <<session, backendList, companies, competence, view, syncs, actions, events>>

SelectCompetence(m) ==
    /\ Free /\ m \in Competences \ {competence}
    /\ competence' = m
    /\ Rekey(loads, cnpj, m, FALSE)
    /\ UNCHANGED <<session, backendList, companies, cnpj, stored, view, syncs, actions, events>>

\* The page is shown: its watchers run at once.
Mount ==
    /\ Free /\ ~mounted
    /\ mounted' = TRUE
    /\ Watch(loads, cnpj, competence, TRUE)
    /\ UNCHANGED <<session, workspace, listError, syncs, actions, events>>

Unmount ==
    /\ Free /\ mounted
    /\ mounted' = FALSE
    /\ UNCHANGED <<session, workspace, listError, loads, list, infoVars, syncs, actions, events>>

\* The Empresas page registers a company and lists them again.
AddAndReload ==
    /\ Free /\ ~mounted /\ backendList # Companies
    /\ backendList' = Companies
    /\ loads' = Begun(loads, NewLoad("companies", None, None, Companies))
    /\ UNCHANGED <<session, companies, cnpj, stored, competence, view, list, infoVars,
                   syncs, actions, events>>

\* The user acts on the page of a company.
AtPage == mounted /\ Free /\ cnpj # None

\* The NF-e key of the CT-e filters; its field is disabled while loading.
EditFilter ==
    /\ AtPage /\ source = "cte" /\ ~loading
    /\ listError' = ~listError
    /\ UNCHANGED <<session, workspace, mounted, loads, list, infoVars, syncs, actions, events>>

Search ==
    /\ AtPage
    /\ loads' = Searching(loads, cnpj, competence) /\ Flags(loads')
    /\ UNCHANGED <<session, workspace, view, rows, rowsFor, selected, infoVars, syncs, actions, events>>

Select(sel) ==
    /\ AtPage
    /\ selected' = sel
    /\ UNCHANGED <<session, workspace, view, loads, rows, rowsFor, loading, infoVars,
                   syncs, actions, events>>

-----------------------------------------------------------------------------
(* Pulls, imports, fetches and resets (companySync, useNFeDocuments and    *)
(* its like).                                                              *)

IsSyncing(c) == activeSyncs[c] > 0

\* Mutant of SyncBusy: a reset in flight is not looked at.
SyncBusyBySync(c) == IsSyncing(c)

SyncBusy(c) == IsSyncing(c) \/ resettingCNPJ = c

\* runSync: the marker is up while the call runs.
StartSync(kind, c) ==
    /\ activeSyncs' = [activeSyncs EXCEPT ![c] = @ + 1]
    /\ calls' = calls \cup {[kind |-> kind, cnpj |-> c, asked |-> c]}

\* runCancellableSync, of a pull.
StartPull(c) ==
    /\ ~SyncBusy(c)
    /\ StartSync("pull", c)
    /\ cancellable' = cancellable \cup {c}
    /\ UNCHANGED <<session, workspace, view, loads, list, infoVars, cancelling, resettingCNPJ,
                   cancels, choosing, unselect, actions, events>>

SyncNFSe == source = "nfse" /\ AtPage /\ Room /\ StartPull(cnpj)
SyncNFe == source = "nfe" /\ AtPage /\ Room /\ StartPull(cnpj)
SyncCTe == source = "cte" /\ AtPage /\ Room /\ StartPull(cnpj)

CancelSync ==
    /\ AtPage /\ cnpj \in cancellable \ cancelling
    /\ cancelling' = cancelling \cup {cnpj}
    /\ cancels' = cancels \cup {cnpj}
    /\ UNCHANGED <<session, workspace, view, loads, list, infoVars, activeSyncs, cancellable,
                   resettingCNPJ, choosing, calls, unselect, actions, events>>

CancelReplies(c, failed) ==
    /\ c \in cancels
    /\ cancels' = cancels \ {c}
    /\ cancelling' = IF failed THEN cancelling \ {c} ELSE cancelling
    /\ UNCHANGED <<session, workspace, view, loads, list, infoVars, activeSyncs, cancellable,
                   resettingCNPJ, choosing, calls, unselect, actions, events>>

\* The import asks for the files first; its button waits for an export, a
\* sync and a reset.
ChooseFiles ==
    /\ AtPage /\ Room /\ source # "nfse"
    /\ ~exporting /\ ~SyncBusy(cnpj)
    /\ choosing' = choosing \cup {cnpj}
    /\ UNCHANGED <<session, workspace, view, loads, list, infoVars, activeSyncs, cancellable,
                   cancelling, resettingCNPJ, cancels, calls, unselect, actions, events>>

\* The dialog closes, with files or without; the company may be busy by then.
ImportXML(c, files) ==
    /\ c \in choosing
    /\ choosing' = choosing \ {c}
    /\ IF files /\ ~SyncBusy(c)
       THEN StartSync("import", c)
       ELSE UNCHANGED <<activeSyncs, calls>>
    /\ UNCHANGED <<session, workspace, view, loads, list, infoVars, cancellable, cancelling,
                   resettingCNPJ, cancels, unselect, actions, events>>

\* A dialog opens, for the company and the documents of the page.
Open(d) == dialogs' = dialogs \cup {d}
Close(d) == d \in dialogs /\ dialogs' = dialogs \ {d}
DialogOf(kind, chaves) == [kind |-> kind, asked |-> cnpj, chaves |-> chaves]

OpenFetch ==
    /\ AtPage /\ Room /\ source = "nfe"
    /\ ~exporting /\ ~SyncBusy(cnpj)
    /\ Open(DialogOf("fetch", {}))
    /\ UNCHANGED <<session, workspace, view, loads, list, infoVars, syncs, exporting,
                   markingViewed, previewing, events>>

\* What fetchByChave finds once the dialog is confirmed.
FetchByChave(d) ==
    /\ d.kind = "fetch" /\ Close(d)
    /\ IF SyncBusy(cnpj) THEN UNCHANGED <<activeSyncs, calls>> ELSE StartSync("fetch", cnpj)
    /\ UNCHANGED <<session, workspace, view, loads, list, infoVars, cancellable, cancelling,
                   resettingCNPJ, cancels, choosing, unselect, exporting, markingViewed,
                   previewing, events>>

\* No reset is in flight, of any company, nor a sync of this one.
MayReset(c) == resettingCNPJ = None /\ ~IsSyncing(c)

\* The NFS-e and NF-e pages ask at once.
ConfirmReset ==
    /\ AtPage /\ Room /\ source # "cte" /\ MayReset(cnpj)
    /\ Open(DialogOf("reset", {}))
    /\ UNCHANGED <<session, workspace, view, loads, list, infoVars, syncs, exporting,
                   markingViewed, previewing, events>>

\* The CT-e page first counts what the reset would remove.
PreviewReset ==
    /\ AtPage /\ Room /\ source = "cte" /\ MayReset(cnpj) /\ previewing = None
    /\ previewing' = cnpj
    /\ UNCHANGED <<session, workspace, view, loads, list, infoVars, syncs, exporting,
                   markingViewed, dialogs, events>>

\* And asks with the counts of the company it counted for.
PreviewArrives(failed) ==
    /\ previewing # None
    /\ previewing' = None
    /\ IF failed
       THEN UNCHANGED dialogs
       ELSE Open([kind |-> "reset", asked |-> previewing, chaves |-> {}])
    /\ UNCHANGED <<session, workspace, view, loads, list, infoVars, syncs, exporting,
                   markingViewed, events>>

\* The reset is of the company shown when the dialog is confirmed.
StartReset(d) ==
    /\ d.kind = "reset" /\ Close(d)
    /\ IF MayReset(cnpj)
       THEN /\ resettingCNPJ' = cnpj
            /\ calls' = calls \cup {[kind |-> "reset", cnpj |-> cnpj, asked |-> d.asked]}
       ELSE UNCHANGED <<resettingCNPJ, calls>>
    /\ UNCHANGED <<session, workspace, view, loads, list, infoVars, activeSyncs, cancellable,
                   cancelling, cancels, choosing, unselect, exporting, markingViewed,
                   previewing, events>>

ResetFromNFSe(d) == source = "nfse" /\ StartReset(d)
ResetFromNFe(d) == source = "nfe" /\ StartReset(d)
ResetFromCTe(d) == source = "cte" /\ StartReset(d)

\* The loads of the refresh of a reset, which the NF-e page waits for.
OfReset(ls) ==
    {IF l.latest /\ l.kind \in {"search", "pageStatus", "pending"} THEN [l EXCEPT !.reset = TRUE] ELSE l
        : l \in ls}

\* The markers of a pull, import or fetch that ended.
FinishSync(x) ==
    /\ activeSyncs' = [activeSyncs EXCEPT ![x.cnpj] = @ - 1]
    /\ cancellable' = IF x.kind = "pull" THEN cancellable \ {x.cnpj} ELSE cancellable
    /\ cancelling' = IF x.kind = "pull" THEN cancelling \ {x.cnpj} ELSE cancelling
    /\ UNCHANGED resettingCNPJ

FinishReset == resettingCNPJ' = None /\ UNCHANGED <<activeSyncs, cancellable, cancelling>>

\* A call ends, done, cancelled or failed, and its company is refreshed.
CallEnds(x, failed) ==
    LET dropped == source = "nfe" /\ x.kind = "reset" /\ ~failed
        next == Refresh(loads, x.cnpj)
    IN  /\ x \in calls /\ Cardinality(loads) <= session.loads
        /\ calls' = calls \ {x}
        /\ IF x.kind = "reset" THEN FinishReset ELSE FinishSync(x)
        /\ loads' = IF dropped /\ IsSelected(x.cnpj) THEN OfReset(next) ELSE next
        /\ Flags(loads')
        /\ unselect' = (unselect \/ dropped)
        /\ UNCHANGED <<session, workspace, view, rows, rowsFor, selected, pageStatus, pending,
                       cancels, choosing, actions, events>>

\* The NF-e page drops the selection once the refresh of the reset ended.
ReportReset ==
    /\ unselect /\ \A l \in loads : ~l.reset
    /\ unselect' = FALSE
    /\ selected' = {}
    /\ UNCHANGED <<session, workspace, view, loads, rows, rowsFor, loading, infoVars, activeSyncs,
                   cancellable, cancelling, resettingCNPJ, cancels, choosing, calls, actions, events>>

-----------------------------------------------------------------------------
(* Marks and exports (useMarkViewed, useExportGuard,                       *)
(* useDocumentListActions).                                                *)

\* The selection, or else every row.
ScopeChaves == {r.chave : r \in IF selected = {} THEN rows ELSE selected}

MarkViewed(chaves) ==
    markingViewed' = IF markingViewed = NoMark THEN [cnpj |-> cnpj, chaves |-> chaves] ELSE markingViewed

\* A selection is marked right away; for the whole list the user is asked.
ConfirmMarkViewed(chaves) ==
    /\ AtPage /\ Room
    /\ chaves # {} /\ chaves \subseteq ScopeChaves
    /\ IF selected # {}
       THEN MarkViewed(chaves) /\ UNCHANGED dialogs
       ELSE Open(DialogOf("mark", chaves)) /\ UNCHANGED markingViewed
    /\ UNCHANGED <<session, workspace, view, loads, list, infoVars, syncs, exporting, previewing, events>>

MarkConfirmed(d) ==
    /\ d.kind = "mark" /\ Close(d)
    /\ MarkViewed(d.chaves)
    /\ UNCHANGED <<session, workspace, view, loads, list, infoVars, syncs, exporting, previewing, events>>

\* The marked documents leave a list of the ones not viewed, whatever company
\* it is of by now, and the selection is dropped.
MarkEnds(failed, onlyUnviewed) ==
    /\ markingViewed # NoMark
    /\ markingViewed' = NoMark
    /\ IF failed
       THEN UNCHANGED <<rows, selected>>
       ELSE /\ selected' = {}
            /\ rows' = IF onlyUnviewed THEN {r \in rows : r.chave \notin markingViewed.chaves} ELSE rows
    /\ UNCHANGED <<session, workspace, view, loads, rowsFor, loading, infoVars, syncs, exporting,
                   dialogs, previewing, events>>

OpenExport ==
    /\ AtPage /\ Room /\ ~exporting /\ ScopeChaves # {}
    /\ Open(DialogOf("export", ScopeChaves))
    /\ UNCHANGED <<session, workspace, view, loads, list, infoVars, syncs, exporting,
                   markingViewed, previewing, events>>

\* The menu of a row exports that document alone.
ExportXML ==
    /\ AtPage /\ Room /\ ~exporting /\ rows # {}
    /\ exporting' = TRUE
    /\ UNCHANGED <<session, workspace, view, loads, list, infoVars, syncs, markingViewed, dialogs,
                   previewing, events>>

\* runExport: one at a time.
Export(d) ==
    /\ d.kind = "export" /\ Close(d)
    /\ exporting' = TRUE
    /\ UNCHANGED <<session, workspace, view, loads, list, infoVars, syncs, markingViewed,
                   previewing, events>>

ExportEnds ==
    /\ exporting
    /\ exporting' = FALSE
    /\ UNCHANGED <<session, workspace, view, loads, list, infoVars, syncs, markingViewed, dialogs,
                   previewing, events>>

\* The user leaves a dialog.
Dismiss(d) ==
    /\ Close(d)
    /\ UNCHANGED <<session, workspace, view, loads, list, infoVars, syncs, exporting,
                   markingViewed, previewing, events>>

-----------------------------------------------------------------------------
(* Manifestações of the NF-e page (useNFeManifestacao and its actions).    *)

IsChaveBusy(k) == k \in cienciaInFlight \cup manifestacaoInFlight

AskPlanCiencia(chaves) ==
    /\ AtPage /\ Room /\ source = "nfe" /\ planningCiencia = NoMark
    /\ chaves # {} /\ chaves \subseteq {r.chave : r \in rows}
    /\ planningCiencia' = [cnpj |-> cnpj, chaves |-> chaves]
    /\ UNCHANGED <<session, workspace, view, loads, list, infoVars, syncs, actions,
                   cienciaInFlight, manifestacaoInFlight, sends>>

\* The dialog shows the notes the backend found eligible, if any.
PlanArrives(eligible) ==
    /\ planningCiencia # NoMark /\ eligible \subseteq planningCiencia.chaves
    /\ planningCiencia' = NoMark
    /\ IF eligible = {}
       THEN UNCHANGED dialogs
       ELSE Open([kind |-> "ciencia", asked |-> planningCiencia.cnpj, chaves |-> eligible])
    /\ UNCHANGED <<session, workspace, view, loads, list, infoVars, syncs, exporting, markingViewed,
                   previewing, cienciaInFlight, manifestacaoInFlight, sends>>

\* No ciência is in flight, nor an event of one of the notes.
MayRegister(chaves) == cienciaInFlight = {} /\ \A k \in chaves : ~IsChaveBusy(k)

RegisterCiencia(d) ==
    /\ d.kind = "ciencia" /\ Close(d)
    /\ IF MayRegister(d.chaves)
       THEN /\ cienciaInFlight' = d.chaves
            /\ sends' = sends \cup {[tipo |-> "ciencia", cnpj |-> cnpj, chaves |-> d.chaves]}
       ELSE UNCHANGED <<cienciaInFlight, sends>>
    /\ UNCHANGED <<session, workspace, view, loads, list, infoVars, syncs, exporting, markingViewed,
                   previewing, planningCiencia, manifestacaoInFlight>>

\* The menu of a note, which waits for its events.
OpenManifestacao(k) ==
    /\ AtPage /\ Room /\ source = "nfe"
    /\ \E r \in rows : r.chave = k
    /\ ~IsChaveBusy(k)
    /\ Open(DialogOf("manifestacao", {k}))
    /\ UNCHANGED <<session, workspace, view, loads, list, infoVars, syncs, exporting,
                   markingViewed, previewing, events>>

RegisterManifestacao(d) ==
    /\ d.kind = "manifestacao" /\ Close(d)
    /\ IF \A k \in d.chaves : ~IsChaveBusy(k)
       THEN /\ manifestacaoInFlight' = manifestacaoInFlight \cup d.chaves
            /\ sends' = sends \cup {[tipo |-> "conclusiva", cnpj |-> cnpj, chaves |-> d.chaves]}
       ELSE UNCHANGED <<manifestacaoInFlight, sends>>
    /\ UNCHANGED <<session, workspace, view, loads, list, infoVars, syncs, exporting, markingViewed,
                   previewing, planningCiencia, cienciaInFlight>>

\* The answer of the ciência drops the selection and refreshes its company.
CienciaEnds(s, failed) ==
    /\ s \in sends /\ s.tipo = "ciencia" /\ Cardinality(loads) <= session.loads
    /\ sends' = sends \ {s}
    /\ cienciaInFlight' = {}
    /\ IF failed
       THEN UNCHANGED <<loads, list, infoVars>>
       ELSE /\ loads' = Refresh(loads, s.cnpj) /\ Flags(loads')
            /\ selected' = {}
            /\ UNCHANGED <<rows, rowsFor, pageStatus, pending>>
    /\ UNCHANGED <<session, workspace, view, syncs, actions, planningCiencia, manifestacaoInFlight>>

\* The answer of a conclusive one refreshes the note.
ManifestacaoEnds(s, failed) ==
    /\ s \in sends /\ s.tipo = "conclusiva" /\ Cardinality(loads) <= session.loads
    /\ sends' = sends \ {s}
    /\ manifestacaoInFlight' = manifestacaoInFlight \ s.chaves
    /\ IF failed
       THEN UNCHANGED <<loads, list, infoVars>>
       ELSE /\ loads' = RefreshNote(loads, s.cnpj, CHOOSE k \in s.chaves : TRUE) /\ Flags(loads')
            /\ UNCHANGED <<rows, rowsFor, selected, pageStatus, pending>>
    /\ UNCHANGED <<session, workspace, view, syncs, actions, planningCiencia, cienciaInFlight>>

-----------------------------------------------------------------------------

Replies ==
    \/ \E l \in loads :
          \/ CompaniesArrive(l) \/ StatusArrives(l) \/ PendingArrives(l) \/ LoadFails(l)
          \/ \E found \in SUBSET Notes : SearchArrives(l, found)
          \/ \E matches \in BOOLEAN : NoteArrives(l, matches)
    \/ \E x \in calls, failed \in BOOLEAN : CallEnds(x, failed)
    \/ \E c \in cancels, failed \in BOOLEAN : CancelReplies(c, failed)
    \/ \E failed \in BOOLEAN : PreviewArrives(failed)
    \/ \E failed, onlyUnviewed \in BOOLEAN : MarkEnds(failed, onlyUnviewed)
    \/ \E eligible \in SUBSET Notes : PlanArrives(eligible)
    \/ \E s \in sends, failed \in BOOLEAN : CienciaEnds(s, failed) \/ ManifestacaoEnds(s, failed)
    \/ ExportEnds \/ ReportReset

Navigates ==
    \/ \E c \in companies : SelectCompany(c)
    \/ Does("months") /\ \E m \in Competences : SelectCompetence(m)
    \/ Does("companies") /\ AddAndReload
    \/ Mount \/ Unmount

Asks ==
    \/ EditFilter \/ Search
    \/ /\ Does("list")
       /\ \/ OpenExport \/ ExportXML
          \/ \E sel \in SUBSET rows : Select(sel)
          \/ \E chaves \in SUBSET Notes : ConfirmMarkViewed(chaves)
    \/ /\ Does("sync")
       /\ \/ SyncNFSe \/ SyncNFe \/ SyncCTe \/ CancelSync
          \/ ChooseFiles \/ OpenFetch \/ ConfirmReset \/ PreviewReset
    \/ /\ Does("events")
       /\ \/ \E chaves \in SUBSET Notes : AskPlanCiencia(chaves)
          \/ \E k \in Notes : OpenManifestacao(k)

Answers ==
    \/ \E c \in choosing, files \in BOOLEAN : ImportXML(c, files)
    \/ \E d \in dialogs :
          \/ FetchByChave(d) \/ ResetFromNFSe(d) \/ ResetFromNFe(d) \/ ResetFromCTe(d)
          \/ MarkConfirmed(d) \/ Export(d) \/ RegisterCiencia(d) \/ RegisterManifestacao(d)
          \/ Dismiss(d)

PageNext == Replies \/ Navigates \/ Asks \/ Answers

PageSpec == PageInit /\ [][PageNext]_pageVars

-----------------------------------------------------------------------------

\* What a page shows is of the company and competência of its header, whatever
\* order the replies came in: its rows, their search and the status
\* (useWorkspaceList, useDocumentLoaders).
ShownOfHeader == mounted =>
    /\ rowsFor \in {NoKey, [cnpj |-> cnpj, competence |-> competence]}
    /\ \A r \in rows : r.of = rowsFor.cnpj
    /\ pageStatus \in {None, cnpj}

\* The markers tell what runs: at most one pull, import, fetch or reset of a
\* company, marked while it runs and no longer, cancellable if a pull; the list
\* busy exactly while the search that will fill it runs; and no note has two
\* events in flight, nor does a second ciência start (companySync,
\* useNFeDocuments, useNFeManifestacao).
MarkersHonest ==
    /\ \A c \in Companies :
          LET own == {x \in calls : x.cnpj = c}
          IN  /\ Cardinality(own) <= 1
              /\ activeSyncs[c] = Cardinality({x \in own : x.kind # "reset"})
              /\ (resettingCNPJ = c) = (\E x \in own : x.kind = "reset")
              /\ (c \in cancellable) = (\E x \in own : x.kind = "pull")
    /\ cancelling \subseteq cancellable
    /\ loading = (\E l \in loads : l.kind = "search" /\ l.latest)
    /\ pendingLoading = (\E l \in loads : l.kind = "pending" /\ l.latest)
    /\ \A s, t \in sends : s # t =>
          s.chaves \cap t.chaves = {} /\ {s.tipo, t.tipo} # {"ciencia"}

\* A reset removes the documents of the company whose counts the user
\* confirmed (confirmResetCTe).
ResetAsConfirmed == \A x \in calls : x.asked = x.cnpj
=============================================================================
