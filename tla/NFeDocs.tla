------------------------------ MODULE NFeDocs ------------------------------
(***************************************************************************)
(* One NF-e in the database: its row, its events, the companies that see   *)
(* it and what they exported of it (store/nfe.go, store/dfe.go).           *)
(*                                                                         *)
(* Several registered companies may be parties of the same NF-e.  They     *)
(* share its row of nfe_documents and its rows of nfe_events, and each has *)
(* its own company_nfe_documents, queue, cursor and export marks.  The     *)
(* writers are the pull loop (SyncLoop), the import of files, the fetch by *)
(* chave, the record of a sent manifestacao and the reset; each writes in  *)
(* one transaction, and some decide by what they read before it.           *)
(***************************************************************************)
EXTENDS Integers, Sequences, FiniteSets

CONSTANTS
    Companies,      \* the registered companies that are parties of the NF-e
    Events,         \* its events: (tpEvento, nSeqEvento)
    TypeOf,         \* [Events -> EventTypes]
    AuthorOf,       \* [Events -> a company or some other CNPJ]
    RegisteredAt,   \* [Events -> Nat], the order SEFAZ registered them in
    Queue,          \* what the distribution hands each company, in order
    Importable,     \* the files each company may import
    MaxExports,     \* bound on exports
    MaxResets       \* bound on resets with deletion

EventTypes == {"cancelamento", "carta_correcao", "ciencia", "confirmacao",
               "desconhecimento", "nao_realizada", "unknown"}
Conclusive == {"confirmacao", "desconhecimento", "nao_realizada"}
Situacoes == {"autorizada", "denegada", "cancelada"}

\* A document XML stands for its hash: resNFe (a resumo) or procNFe.
Version == [full : BOOLEAN, situacao : Situacoes]
DocumentItem == [kind : {"document"}, version : Version]
\* blob says that the event's XML is in the blob store and raw_hash names it.
EventItem == [kind : {"event"}, event : Events, full : BOOLEAN, registered : BOOLEAN,
              blob : BOOLEAN]

ASSUME EventAssumption ==
    /\ IsFiniteSet(Events)
    /\ TypeOf \in [Events -> EventTypes]
    /\ DOMAIN AuthorOf = Events
    /\ RegisteredAt \in [Events -> Nat]
    /\ \A d, e \in Events : RegisteredAt[d] = RegisteredAt[e] => d = e
ASSUME InputAssumption ==
    /\ Queue \in [Companies -> Seq(DocumentItem \cup EventItem)]
    /\ Importable \in [Companies -> SUBSET (DocumentItem \cup EventItem)]
    /\ \A c \in Companies : \A i \in DOMAIN Queue[c] :
          Queue[c][i].kind = "event" =>
             Queue[c][i].blob /\ (~Queue[c][i].full => Queue[c][i].registered)
    /\ \A c \in Companies : \A x \in Importable[c] : x.kind = "event" => x.blob
    /\ MaxExports \in Nat /\ MaxResets \in Nat

VARIABLES
    doc,        \* the nfe_documents row: id 0 when there is none
    rows,       \* the nfe_events rows
    holders,    \* companies with a company_nfe_documents row
    manif,      \* company_nfe_documents.manifestacao
    marks,      \* company_nfe_export_marks of kind xml, by document id
    pos,        \* items of its queue each company walked
    pull,       \* what each company's pull decided of its next event
    pending,    \* an import or a manifestacao about to store its event
    exporting,  \* an export between its selection and its mark
    shipped,    \* history: what the archive of each mark holds
    exports,    \* exports so far
    resets      \* resets so far

tables == <<doc, rows, holders, manif>>
calls == <<pull, pending, exporting>>
bounds == <<exports, resets>>
vars == <<tables, marks, pos, calls, shipped, bounds>>

NoDoc == [id |-> 0, raw |-> [full |-> FALSE, situacao |-> "autorizada"], situacao |-> "autorizada"]
NoRow == [xml |-> "none", blob |-> FALSE, registered |-> FALSE, linked |-> FALSE]
NoMark == [events |-> -1]
NoCall == [kind |-> "none"]
NoExport == [stage |-> "none"]
NoArchive ==
    [raw |-> NoDoc.raw, completas |-> {}, resumos |-> {}, bare |-> {}, alone |-> FALSE]

DocIds == 1 .. MaxResets + 1
DocRow == [id : DocIds \cup {0}, raw : Version, situacao : Situacoes]
EventRow == {NoRow} \cup
    [xml : {"resumo", "completa"}, blob : BOOLEAN, registered : BOOLEAN, linked : BOOLEAN]
Mark == [raw : Version, events : 0 .. Cardinality(Events)]
\* What an archive holds of the document, and the events it left out: the
\* resumos and the completas whose XML was not kept.
Archive == [raw : Version, completas : SUBSET Events, resumos : SUBSET Events,
            bare : SUBSET Events, alone : BOOLEAN]
Export == [stage : {"selected", "read"}, id : DocIds, mark : Mark, archive : Archive]
Manifestacoes == {"nenhuma", "ciencia"} \cup Conclusive

TypeOK ==
    /\ doc \in DocRow
    /\ rows \in [Events -> EventRow]
    /\ holders \subseteq Companies
    /\ manif \in [Companies -> Manifestacoes]
    /\ marks \in [Companies -> [DocIds -> {NoMark} \cup Mark]]
    /\ pos \in [Companies -> Nat]
    /\ \A c \in Companies : pos[c] <= Len(Queue[c])
    /\ pull \in [Companies -> {"idle", "keep", "drop"}]
    /\ pending \in [Companies -> {NoCall} \cup EventItem]
    /\ exporting \in [Companies -> {NoExport} \cup Export]
    /\ shipped \in [Companies -> [DocIds -> Archive]]
    /\ exports \in 0 .. MaxExports
    /\ resets \in 0 .. MaxResets

Init ==
    /\ doc = NoDoc
    /\ rows = [e \in Events |-> NoRow]
    /\ holders = {}
    /\ manif = [c \in Companies |-> "nenhuma"]
    /\ marks = [c \in Companies |-> [i \in DocIds |-> NoMark]]
    /\ pos = [c \in Companies |-> 0]
    /\ pull = [c \in Companies |-> "idle"]
    /\ pending = [c \in Companies |-> NoCall]
    /\ exporting = [c \in Companies |-> NoExport]
    /\ shipped = [c \in Companies |-> [i \in DocIds |-> NoArchive]]
    /\ exports = 0
    /\ resets = 0

-----------------------------------------------------------------------------
(* What a transaction writes.                                              *)

Stored(r) == {e \in Events : r[e].xml # "none"}

SeverityOf(s) ==
    CASE s = "cancelada" -> 3 [] s = "denegada" -> 2 [] s = "autorizada" -> 1

\* Mutant of MoreSevere: the situation is that of the document that came last.
LatestSituacao(a, b) == b

MoreSevere(a, b) == IF SeverityOf(b) > SeverityOf(a) THEN b ELSE a

\* Mutant of MergeDocument: a resumo replaces a completa.
MergeLatest(d, v) ==
    [id |-> d.id, raw |-> v, situacao |-> MoreSevere(d.situacao, v.situacao)]

\* The row that is kept when version v arrives over the row d.
MergeDocument(d, v) ==
    [id |-> d.id,
     raw |-> IF d.raw.full /\ ~v.full THEN d.raw ELSE v,
     situacao |-> MoreSevere(d.situacao, v.situacao)]

\* The row stored for version v; a new row gets an id never used before.
DocumentWith(v) ==
    IF doc.id = 0
    THEN [id |-> resets + 1, raw |-> v, situacao |-> v.situacao]
    ELSE MergeDocument(doc, v)

\* The rows after an event is stored: a resumo never replaces a completa,
\* and the link stays.
UpsertEvent(x) ==
    IF rows[x.event].xml = "completa" /\ ~x.full
    THEN rows
    ELSE [rows EXCEPT ![x.event] =
            [xml |-> IF x.full THEN "completa" ELSE "resumo",
             blob |-> x.blob,
             registered |-> x.registered,
             linked |-> @.linked]]

\* The registered manifestacoes of company c among the rows r.
Own(r, c) ==
    {e \in Stored(r) : r[e].registered /\ AuthorOf[e] = c
                       /\ TypeOf[e] \in Conclusive \cup {"ciencia"}}

\* The latest conclusive one decides, else any ciencia.
ManifestacaoOf(own) ==
    LET conclusive == {e \in own : TypeOf[e] # "ciencia"}
    IN  IF conclusive # {}
        THEN TypeOf[CHOOSE e \in conclusive :
                      \A d \in conclusive : RegisteredAt[d] <= RegisteredAt[e]]
        ELSE IF own # {} THEN "ciencia" ELSE "nenhuma"

ManifestacaoFromEvents(r, c) == ManifestacaoOf(Own(r, c))

SituacaoFromEvents(base, r) ==
    IF \E e \in Stored(r) : r[e].registered /\ TypeOf[e] = "cancelamento"
    THEN "cancelada" ELSE base

\* Mutant of Refreshed: the relations are read before the new one is inserted.
RefreshedBefore(h) == holders

\* The companies refreshChave recomputes: those with a row, the new one
\* included.
Refreshed(h) == h

\* The end of every transaction that stores: with a document, refreshChave
\* links the events, applies them to the situation and recomputes the
\* manifestacao of each company that sees it.
RefreshChave(d, r, h) ==
    /\ holders' = h
    /\ IF d.id = 0
       THEN doc' = d /\ rows' = r /\ UNCHANGED manif
       ELSE /\ doc' = [d EXCEPT !.situacao = SituacaoFromEvents(d.situacao, r)]
            /\ rows' = [e \in Events |-> [r[e] EXCEPT !.linked = e \in Stored(r)]]
            /\ manif' = [c \in Companies |->
                            IF c \in Refreshed(h) THEN ManifestacaoFromEvents(r, c) ELSE manif[c]]

ApplyDocument(c, v) == RefreshChave(DocumentWith(v), rows, holders \cup {c})

ApplyEvent(x) == RefreshChave(doc, UpsertEvent(x), holders)

-----------------------------------------------------------------------------
(* The pull of a company: SyncLoop's items, with what they do here.  A run *)
(* may end and another start between any two items, so pull says only what *)
(* a run holds over two transactions; a run that holds it has the          *)
(* reservation of the source.                                              *)

NextItem(c) == Queue[c][pos[c] + 1]

At(c, stage, kind) ==
    /\ pull[c] = stage
    /\ pos[c] < Len(Queue[c])
    /\ NextItem(c).kind = kind

\* The checkpoint is in the transaction of the item.
Checkpoint(c) ==
    /\ pos' = [pos EXCEPT ![c] = @ + 1]
    /\ pull' = [pull EXCEPT ![c] = "idle"]

PullDocument(c) ==
    /\ At(c, "idle", "document")
    /\ ApplyDocument(c, NextItem(c).version)
    /\ Checkpoint(c)
    /\ UNCHANGED <<marks, pending, exporting, shipped, bounds>>

\* The event is kept if the company authored it or sees the document; the
\* answer is acted on in a later transaction.
PullEventCheck(c) ==
    /\ At(c, "idle", "event")
    /\ pull' = [pull EXCEPT ![c] =
          IF AuthorOf[NextItem(c).event] = c \/ c \in holders THEN "keep" ELSE "drop"]
    /\ UNCHANGED <<tables, marks, pos, pending, exporting, shipped, bounds>>

PullEventKeep(c) ==
    /\ At(c, "keep", "event")
    /\ ApplyEvent(NextItem(c))
    /\ Checkpoint(c)
    /\ UNCHANGED <<marks, pending, exporting, shipped, bounds>>

PullEventDrop(c) ==
    /\ At(c, "drop", "event")
    /\ Checkpoint(c)
    /\ UNCHANGED <<tables, marks, pending, exporting, shipped, bounds>>

\* The run fails or is cancelled before the second transaction.
EndPull(c) ==
    /\ pull[c] # "idle"
    /\ pull' = [pull EXCEPT ![c] = "idle"]
    /\ UNCHANGED <<tables, marks, pos, pending, exporting, shipped, bounds>>

\* Mutant of FetchByChave: the document fetched counts as an item of the queue.
FetchAsItem(c) ==
    /\ pull[c] = "idle"
    /\ \E i \in DOMAIN Queue[c] :
          Queue[c][i].kind = "document" /\ ApplyDocument(c, Queue[c][i].version)
    /\ Checkpoint(c)
    /\ UNCHANGED <<marks, pending, exporting, shipped, bounds>>

\* The answer of a consulta by chave: the document, without its events and
\* without moving the cursor.  It holds the reservation of the source.
FetchByChave(c) ==
    /\ pull[c] = "idle"
    /\ \E i \in DOMAIN Queue[c] :
          Queue[c][i].kind = "document" /\ ApplyDocument(c, Queue[c][i].version)
    /\ UNCHANGED <<marks, pos, calls, shipped, bounds>>

-----------------------------------------------------------------------------
(* Imports and manifestacoes take no reservation.                          *)

ImportDocument(c, x) ==
    /\ x.kind = "document"
    /\ ApplyDocument(c, x.version)
    /\ UNCHANGED <<marks, pos, calls, shipped, bounds>>

\* An event the company neither authored nor sees the document of is refused.
ImportEvent(c, x) ==
    /\ x.kind = "event"
    /\ pending[c] = NoCall
    /\ AuthorOf[x.event] = c \/ c \in holders
    /\ pending' = [pending EXCEPT ![c] = x]
    /\ UNCHANGED <<tables, marks, pos, pull, exporting, shipped, bounds>>

\* A manifestacao nanci plans and sends, and SEFAZ registers.  Its XML is not
\* in the blob store before the answer.
Manifest(c, e) ==
    /\ pending[c] = NoCall
    /\ c \in holders
    /\ AuthorOf[e] = c
    /\ doc.situacao = "autorizada"
    /\ \/ TypeOf[e] = "ciencia" /\ manif[c] = "nenhuma"
       \/ TypeOf[e] \in Conclusive /\ manif[c] \notin Conclusive
    /\ pending' = [pending EXCEPT ![c] =
          [kind |-> "event", event |-> e, full |-> TRUE, registered |-> TRUE, blob |-> FALSE]]
    /\ UNCHANGED <<tables, marks, pos, pull, exporting, shipped, bounds>>

\* The blob store may fail to take the XML of the answer: the event is stored
\* all the same (keepXML).  An imported file is in it already.
StorePending(c) ==
    /\ pending[c] # NoCall
    /\ \E kept \in BOOLEAN : ApplyEvent([pending[c] EXCEPT !.blob = @ \/ kept])
    /\ pending' = [pending EXCEPT ![c] = NoCall]
    /\ UNCHANGED <<marks, pos, pull, exporting, shipped, bounds>>

\* The import fails, the answer of SEFAZ is lost, or it says that the event was
\* registered before and its row is there already.
LosePending(c) ==
    /\ pending[c] # NoCall
    /\ pending' = [pending EXCEPT ![c] = NoCall]
    /\ UNCHANGED <<tables, marks, pos, pull, exporting, shipped, bounds>>

-----------------------------------------------------------------------------
(* Reset of a company.                                                     *)

\* Mutant of Exclusive: the NOT EXISTS of the query is missing.
Seen(c) == c \in holders

\* The document only company c sees.
Exclusive(c) == holders = {c}

\* Events of another registered company are kept; the rest go with an
\* exclusive document, and c's own go when there is no document at all.
EventRemoved(c, e) ==
    /\ AuthorOf[e] \notin Companies \ {c}
    /\ Exclusive(c) \/ (AuthorOf[e] = c /\ doc.id = 0)

ResetCompany(c) ==
    /\ pull[c] = "idle"
    /\ resets < MaxResets
    /\ resets' = resets + 1
    /\ doc' = IF Exclusive(c) THEN NoDoc ELSE doc
    /\ rows' = [e \in Events |->
                  IF EventRemoved(c, e) THEN NoRow
                  ELSE [rows[e] EXCEPT !.linked = @ /\ ~Exclusive(c)]]
    /\ holders' = holders \ {c}
    /\ manif' = [manif EXCEPT ![c] = "nenhuma"]
    /\ marks' = [marks EXCEPT ![c] = [i \in DocIds |-> NoMark]]
    /\ shipped' = [shipped EXCEPT ![c] = [i \in DocIds |-> NoArchive]]
    /\ pos' = [pos EXCEPT ![c] = 0]
    /\ UNCHANGED <<calls, exports>>

\* The cursor alone goes back: the documents stay.  The Manager takes any
\* source; the desktop asks it for NFS-e only.
ResetSyncState(c) ==
    /\ pull[c] = "idle"
    /\ pos' = [pos EXCEPT ![c] = 0]
    /\ UNCHANGED <<tables, marks, calls, shipped, bounds>>

-----------------------------------------------------------------------------
(* Exports.  The documents are selected, then the events of those that     *)
(* have any are read, the archive is written with the completas among      *)
(* them that have an XML, and then the mark, which counts them all.        *)

CurrentMark == [raw |-> doc.raw, events |-> Cardinality(Stored(rows))]

Pending(c) == marks[c][doc.id] # CurrentMark

\* The document as it was selected, alone or with events still to be read.
Selected(stage, alone) ==
    [stage |-> stage,
     id |-> doc.id,
     mark |-> CurrentMark,
     archive |-> [raw |-> doc.raw, completas |-> {}, resumos |-> {}, bare |-> {},
                  alone |-> alone]]

\* ExportXMLZip, incremental or not, with its resumos.
SelectForExport(c) ==
    /\ exports < MaxExports
    /\ exports' = exports + 1
    /\ exporting[c] = NoExport
    /\ c \in holders
    /\ exporting' = [exporting EXCEPT ![c] = Selected("selected", FALSE)]
    /\ UNCHANGED <<tables, marks, pos, pull, pending, shipped, resets>>

\* Events are read only for a document that had some when it was selected.
EventsRead(c) == IF exporting[c].mark.events > 0 THEN Stored(rows) ELSE {}

\* What the archive leaves out of the events read.
Resumos(events) == {e \in events : rows[e].xml = "resumo"}
Bare(events) == {e \in events : rows[e].xml = "completa" /\ ~rows[e].blob}

ReadEvents(c) ==
    /\ exporting[c] # NoExport
    /\ exporting[c].stage = "selected"
    /\ LET read == EventsRead(c)
       IN  exporting' = [exporting EXCEPT ![c] =
             [stage |-> "read",
              id |-> @.id,
              mark |-> @.mark,
              archive |-> [raw |-> @.archive.raw, alone |-> FALSE,
                           completas |-> read \ (Resumos(read) \cup Bare(read)),
                           resumos |-> Resumos(read),
                           bare |-> Bare(read)]]]
    /\ UNCHANGED <<tables, marks, pos, pull, pending, shipped, bounds>>

\* ExportXML writes the document alone.
ExportAlone(c) ==
    /\ exports < MaxExports
    /\ exports' = exports + 1
    /\ exporting[c] = NoExport
    /\ c \in holders
    /\ exporting' = [exporting EXCEPT ![c] = Selected("read", TRUE)]
    /\ UNCHANGED <<tables, marks, pos, pull, pending, shipped, resets>>

\* Mutant of MarkOf: the events are counted when the mark is written.
MarkNow(c) == [exporting[c].mark EXCEPT !.events = Cardinality(Stored(rows))]

\* The version and the number of events of the selection.
MarkOf(c) == exporting[c].mark

MarkExported(c) ==
    /\ exporting[c] # NoExport
    /\ exporting[c].stage = "read"
    /\ marks' = [marks EXCEPT ![c][exporting[c].id] = MarkOf(c)]
    /\ shipped' = [shipped EXCEPT ![c][exporting[c].id] = exporting[c].archive]
    /\ exporting' = [exporting EXCEPT ![c] = NoExport]
    /\ UNCHANGED <<tables, pos, pull, pending, bounds>>

\* The archive cannot be written, or the mark.
ExportFails(c) ==
    /\ exporting[c] # NoExport
    /\ exporting' = [exporting EXCEPT ![c] = NoExport]
    /\ UNCHANGED <<tables, marks, pos, pull, pending, shipped, bounds>>

\* The process dies: the tables stay.
Crash ==
    /\ pull' = [c \in Companies |-> "idle"]
    /\ pending' = [c \in Companies |-> NoCall]
    /\ exporting' = [c \in Companies |-> NoExport]
    /\ UNCHANGED <<tables, marks, pos, shipped, bounds>>

Next ==
    \/ \E c \in Companies :
        \/ PullDocument(c) \/ PullEventCheck(c)
        \/ PullEventKeep(c) \/ PullEventDrop(c) \/ EndPull(c)
        \/ FetchByChave(c)
        \/ \E x \in Importable[c] : ImportDocument(c, x) \/ ImportEvent(c, x)
        \/ \E e \in Events : Manifest(c, e)
        \/ StorePending(c) \/ LosePending(c)
        \/ ResetCompany(c) \/ ResetSyncState(c)
        \/ SelectForExport(c) \/ ReadEvents(c) \/ ExportAlone(c)
        \/ MarkExported(c) \/ ExportFails(c)
    \/ Crash

Spec == Init /\ [][Next]_vars

-----------------------------------------------------------------------------
(* Properties.                                                             *)

\* The document row is there exactly while some company sees it, and an
\* event is linked exactly while the document is there.  A row nobody sees
\* could be neither exported nor reset, and a link to a removed row would
\* make the reset fail on its foreign key (store/dfe.go:212).
Referential ==
    /\ doc.id # 0 <=> holders # {}
    /\ \A e \in Stored(rows) : rows[e].linked <=> doc.id # 0

\* The stored situation and manifestacoes are those the stored events give,
\* whoever stored the events, in whatever order and before or after the
\* document or the company's own row (store/nfe.go:395).
EventsApplied ==
    doc.id # 0 =>
        /\ doc.situacao = SituacaoFromEvents(doc.situacao, rows)
        /\ \A c \in holders : manif[c] = ManifestacaoFromEvents(rows, c)

\* Of two items of a queue, the second could be kept thanks to the first.
Keepable(c, i) ==
    \/ AuthorOf[Queue[c][i].event] = c
    \/ \E j \in 1 .. i - 1 : Queue[c][j].kind = "document"

\* What a company's cursor passed is in the tables, whatever the other
\* companies import, fetch, reset or export: the document no less complete
\* and no less severe, the events no less complete, though perhaps without
\* their XML (store/nfe.go:58, store/nfe.go:161, store/dfe.go:186).
WalkedMeansKnown ==
    \A c \in Companies : \A i \in 1 .. pos[c] :
        LET x == Queue[c][i]
        IN  IF x.kind = "document"
            THEN /\ c \in holders
                 /\ x.version.full => doc.raw.full
                 /\ SeverityOf(doc.situacao) >= SeverityOf(x.version.situacao)
            ELSE Keepable(c, i) =>
                 /\ rows[x.event].xml # "none"
                 /\ x.full => rows[x.event].xml = "completa"

\* A document that an incremental export leaves out is in the archive of the
\* last one as it is now, and each event stored of it was read for that
\* archive: it is in it, in the copy stored then, or was left out for what it
\* was then, a resumo or a completa without XML (report/nfe_zip.go:29).  No
\* event that came while the export ran is hidden.  Such a resumo may be a
\* completa by now, the gap docs/NFE_SEFAZ.md:223 names, and the XML of such a
\* completa may have come since.  An export of the document alone ships no
\* events and yet takes them out of the next incremental archive; of those
\* only the document is claimed (store/dfe.go:83, store/nfe.go:294).
ExportComplete ==
    \A c \in holders : ~Pending(c) =>
        LET archive == shipped[c][doc.id]
        IN  /\ archive.raw = doc.raw
            /\ \/ archive.alone
               \/ Stored(rows) \subseteq archive.completas \cup archive.resumos \cup archive.bare

\* Seen from outside, the document is one that companies share: it is known
\* better and better while any of them sees it (nfe/merge.go:5,
\* store/dfe.go:186).
SharedDoc == INSTANCE SharedDocument WITH
    Members <- Companies,
    Severities <- 0 .. 3,
    holders <- holders,
    whole <- doc.id # 0 /\ doc.raw.full,
    severity <- IF doc.id = 0 THEN 0 ELSE SeverityOf(doc.situacao)

SharedSpec == SharedDoc!Spec

\* An event is discarded only if the company does not see its document
\* (docs/NFE_SEFAZ.md:29, sync/source_dfe.go:73).
DroppedOnlyIfUnseen ==
    [][\A c \in Companies : pull[c] = "drop" /\ pos'[c] > pos[c] => c \notin holders]_vars
=============================================================================
