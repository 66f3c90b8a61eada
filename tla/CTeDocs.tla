------------------------------ MODULE CTeDocs ------------------------------
(***************************************************************************)
(* One CT-e in the database: its row, its events, the companies that see   *)
(* it and what they exported of it (store/cte.go, store/dfe.go).           *)
(*                                                                         *)
(* A CT-e has no resumo.  Instead, the parties named in autXML receive a   *)
(* masked copy of what the others receive whole, and they share the row.   *)
(* A copy of an event always replaces the stored one, so an imported file  *)
(* that the SEFAZ rejected can take the place of a registered event, and a *)
(* registered one can take its place later.  The writers are the pull of   *)
(* each company, the import of files and the reset.                        *)
(***************************************************************************)
EXTENDS Integers, Sequences, FiniteSets

CONSTANTS
    CTeCompanies,   \* the registered companies that are parties of the CT-e
    CTeEvents,      \* its events: (tpEvento, nSeqEvento)
    Cancelamentos,  \* those of type cancelamento
    CTeAuthorOf,    \* [CTeEvents -> a company or some other CNPJ]
    CTeQueue,       \* what the distribution hands each company, in order
    CTeImportable,  \* the files each company may import
    MaxCTeExports,  \* bound on exports
    MaxCTeResets    \* bound on resets

\* What the parser gives of a document XML, which stands for its hash.
CTeVersion == [masked : BOOLEAN, situacao : {"autorizada", "denegada"}]
CTeDocumentItem == [kind : {"document"}, version : CTeVersion]
CTeEventItem == [kind : {"event"}, event : CTeEvents, copy : {"registered", "rejected"}]

ASSUME CTeAssumption ==
    /\ IsFiniteSet(CTeEvents)
    /\ Cancelamentos \subseteq CTeEvents
    /\ DOMAIN CTeAuthorOf = CTeEvents
    /\ CTeQueue \in [CTeCompanies -> Seq(CTeDocumentItem \cup CTeEventItem)]
    /\ CTeImportable \in [CTeCompanies -> SUBSET (CTeDocumentItem \cup CTeEventItem)]
    /\ MaxCTeExports \in Nat /\ MaxCTeResets \in Nat

VARIABLES
    cte,            \* the cte_documents row: id 0 when there is none
    cteRows,        \* the copy of each event in cte_events, "none" without one
    cteLinked,      \* the events whose row points to the document
    cteHolders,     \* companies with a company_cte_documents row
    cteMarks,       \* company_cte_export_marks, by company, kind and document id
    ctePos,         \* items of its queue each company walked
    ctePull,        \* what each company's pull decided of its next event
    cteImport,      \* the event an import is about to store
    cteExporting,   \* an export between its selection and its mark
    cteShipped,     \* history: what the file of each mark holds
    cteExports,     \* exports so far
    cteResets       \* resets so far

cteTables == <<cte, cteRows, cteLinked, cteHolders>>
cteBounds == <<cteExports, cteResets>>
cteCalls == <<ctePull, cteImport, cteExporting>>
cteVars == <<cteTables, cteMarks, ctePos, cteCalls, cteShipped, cteBounds>>

CTeIds == 1 .. MaxCTeResets + 1
ExportKinds == {"xml", "dacte"}
CTeSituacoes == {"autorizada", "denegada", "cancelada"}
CTeCopies == {"none", "registered", "rejected"}

NoCTe == [id |-> 0, raw |-> [masked |-> TRUE, situacao |-> "autorizada"], situacao |-> "autorizada"]
NoCTeMark == [events |-> -1]
NoCTeExport == [stage |-> "none"]
NoCTeRows == [e \in CTeEvents |-> "none"]
NoCTeFile == [raw |-> NoCTe.raw, events |-> NoCTeRows, cancelada |-> FALSE, alone |-> FALSE,
              rows |-> NoCTeRows]
NoCTeImport == [kind |-> "none"]

CTeRow == [id : CTeIds \cup {0}, raw : CTeVersion, situacao : CTeSituacoes]
CTeMark == [raw : CTeVersion, events : 0 .. Cardinality(CTeEvents)]
\* A file: the version, the copies of the events packed with it, the watermark
\* of the DACTE, and the event rows that the mark counts.
CTeFile == [raw : CTeVersion, events : [CTeEvents -> CTeCopies], cancelada : BOOLEAN,
            alone : BOOLEAN, rows : [CTeEvents -> CTeCopies]]

CTeTypeOK ==
    /\ cte \in CTeRow
    /\ cteRows \in [CTeEvents -> CTeCopies]
    /\ cteLinked \subseteq CTeEvents
    /\ cteHolders \subseteq CTeCompanies
    /\ cteMarks \in [CTeCompanies -> [ExportKinds -> [CTeIds -> {NoCTeMark} \cup CTeMark]]]
    /\ ctePos \in [CTeCompanies -> Nat]
    /\ \A c \in CTeCompanies : ctePos[c] <= Len(CTeQueue[c])
    /\ ctePull \in [CTeCompanies -> {"idle", "keep", "drop"}]
    /\ cteImport \in [CTeCompanies -> {NoCTeImport} \cup CTeEventItem]
    /\ cteExporting \in [CTeCompanies ->
          {NoCTeExport} \cup [stage : {"selected", "read"}, kind : ExportKinds,
                              id : CTeIds, mark : CTeMark, file : CTeFile]]
    /\ cteShipped \in [CTeCompanies -> [ExportKinds -> [CTeIds -> CTeFile]]]
    /\ cteExports \in 0 .. MaxCTeExports
    /\ cteResets \in 0 .. MaxCTeResets

\* The values of a company without marks.  A DACTE stands for the CSV and the
\* XLSX too: they hold what the selection returned.
NoCTeMarks == [k \in ExportKinds |-> [i \in CTeIds |-> NoCTeMark]]
NoCTeFiles == [k \in ExportKinds |-> [i \in CTeIds |-> NoCTeFile]]

CTeInit ==
    /\ cte = NoCTe
    /\ cteRows = NoCTeRows
    /\ cteLinked = {}
    /\ cteHolders = {}
    /\ cteMarks = [c \in CTeCompanies |-> NoCTeMarks]
    /\ ctePos = [c \in CTeCompanies |-> 0]
    /\ ctePull = [c \in CTeCompanies |-> "idle"]
    /\ cteImport = [c \in CTeCompanies |-> NoCTeImport]
    /\ cteExporting = [c \in CTeCompanies |-> NoCTeExport]
    /\ cteShipped = [c \in CTeCompanies |-> NoCTeFiles]
    /\ cteExports = 0
    /\ cteResets = 0

-----------------------------------------------------------------------------
(* What a transaction writes.                                              *)

StoredCTe(r) == {e \in CTeEvents : r[e] # "none"}

SeverityOfCTe(s) ==
    CASE s = "cancelada" -> 3 [] s = "denegada" -> 2 [] s = "autorizada" -> 1

MoreSevereCTe(a, b) == IF SeverityOfCTe(b) > SeverityOfCTe(a) THEN b ELSE a

\* Mutant of MergeCTe: the copy that came last is kept, masked or not.
MergeLastCTe(d, v) ==
    [id |-> d.id, raw |-> v, situacao |-> MoreSevereCTe(d.situacao, v.situacao)]

\* The row that is kept when version v arrives over the row d: a masked copy
\* never replaces a full one.
MergeCTe(d, v) ==
    [id |-> d.id,
     raw |-> IF v.masked /\ ~d.raw.masked THEN d.raw ELSE v,
     situacao |-> MoreSevereCTe(d.situacao, v.situacao)]

\* The row stored for version v; a new row gets an id never used before.
CTeWith(v) ==
    IF cte.id = 0
    THEN [id |-> cteResets + 1, raw |-> v, situacao |-> v.situacao]
    ELSE MergeCTe(cte, v)

CTeSituacaoFromEvents(base, r) ==
    IF \E e \in Cancelamentos : r[e] = "registered" THEN "cancelada" ELSE base

LinkCTeEvents(r) == cteLinked' = StoredCTe(r)

\* The end of every transaction that stores: refreshCTeChave links the events
\* to the document, if there is one, and applies the registered ones to its
\* situation.
RefreshCTeChave(d, r) ==
    /\ cteRows' = r
    /\ IF d.id = 0
       THEN cte' = d /\ UNCHANGED cteLinked
       ELSE /\ cte' = [id |-> d.id, raw |-> d.raw,
                      situacao |-> CTeSituacaoFromEvents(d.situacao, r)]
            /\ LinkCTeEvents(r)

UpsertCompanyCTe(c) == cteHolders' = cteHolders \cup {c}

ApplyCTeDocument(c, v) ==
    /\ RefreshCTeChave(CTeWith(v), cteRows)
    /\ UpsertCompanyCTe(c)

\* Any copy replaces the row of the event.
UpsertCTeEvent(x) == [cteRows EXCEPT ![x.event] = x.copy]

ApplyCTeEvent(x) ==
    /\ RefreshCTeChave(cte, UpsertCTeEvent(x))
    /\ UNCHANGED cteHolders

-----------------------------------------------------------------------------
(* The pull of a company, which has the reservation of the source, and the *)
(* import of files, which takes none: one batch of a company at a time.    *)

NextCTe(c) == CTeQueue[c][ctePos[c] + 1]

CTeAt(c, stage, kind) ==
    /\ ctePull[c] = stage
    /\ ctePos[c] < Len(CTeQueue[c])
    /\ NextCTe(c).kind = kind

\* The cursor moves in the transaction of the item.
CTeCheckpoint(c) ==
    /\ ctePos' = [ctePos EXCEPT ![c] = @ + 1]
    /\ ctePull' = [ctePull EXCEPT ![c] = "idle"]

PullCTe(c) ==
    /\ CTeAt(c, "idle", "document")
    /\ ApplyCTeDocument(c, NextCTe(c).version)
    /\ CTeCheckpoint(c)
    /\ UNCHANGED <<cteMarks, cteImport, cteExporting, cteShipped, cteBounds>>

\* An event is kept if the company authored it or sees the document.
MayKeepCTeEvent(c, x) == CTeAuthorOf[x.event] = c \/ c \in cteHolders

CheckCTeEvent(c) ==
    /\ CTeAt(c, "idle", "event")
    /\ ctePull' = [ctePull EXCEPT ![c] = IF MayKeepCTeEvent(c, NextCTe(c)) THEN "keep" ELSE "drop"]
    /\ UNCHANGED <<cteTables, cteMarks, ctePos, cteImport, cteExporting, cteShipped, cteBounds>>

KeepCTeEvent(c) ==
    /\ CTeAt(c, "keep", "event")
    /\ ApplyCTeEvent(NextCTe(c))
    /\ CTeCheckpoint(c)
    /\ UNCHANGED <<cteMarks, cteImport, cteExporting, cteShipped, cteBounds>>

DropCTeEvent(c) ==
    /\ CTeAt(c, "drop", "event")
    /\ CTeCheckpoint(c)
    /\ UNCHANGED <<cteTables, cteMarks, cteImport, cteExporting, cteShipped, cteBounds>>

ImportCTe(c, x) ==
    /\ x.kind = "document"
    /\ ApplyCTeDocument(c, x.version)
    /\ UNCHANGED <<cteMarks, ctePos, cteCalls, cteShipped, cteBounds>>

\* The event of an import is checked here and stored in a later transaction.
ImportCTeEvent(c, x) ==
    /\ x.kind = "event"
    /\ cteImport[c] = NoCTeImport
    /\ MayKeepCTeEvent(c, x)
    /\ cteImport' = [cteImport EXCEPT ![c] = x]
    /\ UNCHANGED <<cteTables, cteMarks, ctePos, ctePull, cteExporting, cteShipped, cteBounds>>

StoreCTeImport(c) ==
    /\ cteImport[c] # NoCTeImport
    /\ ApplyCTeEvent(cteImport[c])
    /\ cteImport' = [cteImport EXCEPT ![c] = NoCTeImport]
    /\ UNCHANGED <<cteMarks, ctePos, ctePull, cteExporting, cteShipped, cteBounds>>

\* What a company has under way fails, is cancelled or dies with the process.
AbandonCTe(c) ==
    /\ \/ ctePull[c] # "idle"
       \/ cteImport[c] # NoCTeImport
       \/ cteExporting[c] # NoCTeExport
    /\ ctePull' = [ctePull EXCEPT ![c] = "idle"]
    /\ cteImport' = [cteImport EXCEPT ![c] = NoCTeImport]
    /\ cteExporting' = [cteExporting EXCEPT ![c] = NoCTeExport]
    /\ UNCHANGED <<cteTables, cteMarks, ctePos, cteShipped, cteBounds>>

-----------------------------------------------------------------------------
(* Reset of a company: its documents, marks and cursor in one transaction. *)

ExclusiveCTe(c) == cteHolders = {c}

\* Events of another registered company stay; the rest go with an exclusive
\* document, and c's own go when there is no document at all.
CTeEventRemoved(c, e) ==
    /\ CTeAuthorOf[e] \notin CTeCompanies \ {c}
    /\ ExclusiveCTe(c) \/ (CTeAuthorOf[e] = c /\ cte.id = 0)

ResetCTe(c) ==
    /\ ctePull[c] = "idle"
    /\ cteResets < MaxCTeResets
    /\ cteResets' = cteResets + 1
    /\ cte' = IF ExclusiveCTe(c) THEN NoCTe ELSE cte
    /\ cteRows' = [e \in CTeEvents |-> IF CTeEventRemoved(c, e) THEN "none" ELSE cteRows[e]]
    /\ cteLinked' = IF ExclusiveCTe(c) THEN {} ELSE cteLinked
    /\ cteHolders' = cteHolders \ {c}
    /\ cteMarks' = [cteMarks EXCEPT ![c] = NoCTeMarks]
    /\ cteShipped' = [cteShipped EXCEPT ![c] = NoCTeFiles]
    /\ ctePos' = [ctePos EXCEPT ![c] = 0]
    /\ UNCHANGED <<cteCalls, cteExports>>

-----------------------------------------------------------------------------
(* Exports of the XML and of the DACTE.  The row, its situation and its    *)
(* number of events come from one query; an archive of XML reads the       *)
(* events after it; the mark is written after the file.                    *)

CTeMarkNow == [raw |-> cte.raw, events |-> Cardinality(StoredCTe(cteRows))]

CTePending(c, k) == cteMarks[c][k][cte.id] # CTeMarkNow

CTeSelected(k, alone) ==
    [stage |-> IF k = "xml" /\ ~alone THEN "selected" ELSE "read",
     kind |-> k,
     id |-> cte.id,
     mark |-> CTeMarkNow,
     file |-> [raw |-> cte.raw, events |-> NoCTeRows, alone |-> alone, rows |-> cteRows,
               cancelada |-> cte.situacao = "cancelada"]]

SelectCTe(c, k, alone) ==
    /\ cteExports < MaxCTeExports
    /\ cteExports' = cteExports + 1
    /\ cteExporting[c] = NoCTeExport
    /\ c \in cteHolders
    /\ cteExporting' = [cteExporting EXCEPT ![c] = CTeSelected(k, alone)]
    /\ UNCHANGED <<cteTables, cteMarks, ctePos, ctePull, cteImport, cteShipped, cteResets>>

\* ExportXMLZip and ExportDACTEZip, incremental or not.
BulkExportCTe(c, k) == SelectCTe(c, k, FALSE)

\* ExportXML and ExportDACTE.
ExportCTeAlone(c, k) == SelectCTe(c, k, TRUE)

\* Events are read only for a document that had some when it was selected.
CTeEventsRead(c) == IF cteExporting[c].mark.events > 0 THEN cteRows ELSE NoCTeRows

ReadCTeEvents(c) ==
    /\ cteExporting[c].stage = "selected"
    /\ cteExporting' = [cteExporting EXCEPT ![c] =
            LET x == cteExporting[c]
            IN  [stage |-> "read", kind |-> x.kind, id |-> x.id, mark |-> x.mark,
                 file |-> [raw |-> x.file.raw, events |-> CTeEventsRead(c),
                           cancelada |-> x.file.cancelada, alone |-> x.file.alone,
                           rows |-> x.file.rows]]]
    /\ UNCHANGED <<cteTables, cteMarks, ctePos, ctePull, cteImport, cteShipped, cteBounds>>

\* Mutant of CTeMarkOf: the events are counted when the mark is written.
CTeCountedLate(c) == [cteExporting[c].mark EXCEPT !.events = Cardinality(StoredCTe(cteRows))]

CTeMarkOf(c) == cteExporting[c].mark

MarkCTeExported(c) ==
    LET x == cteExporting[c]
    IN  /\ x.stage = "read"
        /\ cteMarks' = [cteMarks EXCEPT ![c][x.kind][x.id] = CTeMarkOf(c)]
        /\ cteShipped' = [cteShipped EXCEPT ![c][x.kind][x.id] = x.file]
        /\ cteExporting' = [cteExporting EXCEPT ![c] = NoCTeExport]
        /\ UNCHANGED <<cteTables, ctePos, ctePull, cteImport, cteBounds>>

CTeNext ==
    \E c \in CTeCompanies :
        \/ PullCTe(c)
        \/ CheckCTeEvent(c)
        \/ KeepCTeEvent(c)
        \/ DropCTeEvent(c)
        \/ \E x \in CTeImportable[c] : ImportCTe(c, x) \/ ImportCTeEvent(c, x)
        \/ StoreCTeImport(c)
        \/ AbandonCTe(c)
        \/ ResetCTe(c)
        \/ \E k \in ExportKinds : BulkExportCTe(c, k) \/ ExportCTeAlone(c, k)
        \/ ReadCTeEvents(c)
        \/ MarkCTeExported(c)

CTeSpec == CTeInit /\ [][CTeNext]_cteVars

-----------------------------------------------------------------------------
(* Properties.                                                             *)

\* What an incremental export leaves out has its version as it is now in the
\* last file, and there every event now stored, in the copy that was stored
\* when the file was written (an XML exported alone ships none and is
\* excluded); a DACTE has the watermark of a registered cancelamento.  The
\* last is claimed only if the file was not made while a rejected copy held
\* the row of that event: the registered copy then replaces it without
\* changing the count, and for the same reason an XML archive may hold the
\* copy replaced (store/cte.go:203, store/dfe.go:82).
CTeExportComplete ==
    \A c \in cteHolders, k \in ExportKinds : ~CTePending(c, k) =>
        LET file == cteShipped[c][k][cte.id]
        IN  /\ file.raw = cte.raw
            /\ k = "xml" /\ ~file.alone => StoredCTe(cteRows) \subseteq StoredCTe(file.events)
            /\ k = "dacte" =>
                 \A e \in Cancelamentos :
                    cteRows[e] = "registered" /\ file.rows[e] # "rejected" => file.cancelada

\* Seen from outside, the CT-e is a document that companies share: an autXML
\* party never costs the others their unmasked copy, and the situation never
\* gets milder, while any of them sees it (cte/merge.go:5, store/dfe.go:186).
SharedCTe == INSTANCE SharedDocument WITH
    Members <- CTeCompanies,
    Severities <- 0 .. 3,
    holders <- cteHolders,
    whole <- cte.id # 0 /\ ~cte.raw.masked,
    severity <- IF cte.id = 0 THEN 0 ELSE SeverityOfCTe(cte.situacao)

CTeSharedSpec == SharedCTe!Spec
=============================================================================
