----------------------------- MODULE NFSeExport -----------------------------
(***************************************************************************)
(* The XML of one NFS-e on its way from the pulls of its parties to the    *)
(* files a user exports (files/blobstore.go, sync/source_nfse.go,          *)
(* store/documents.go, app/export.go, app/helpers.go).                     *)
(*                                                                         *)
(* An XML is kept in a file named by its hash before the transaction that  *)
(* puts the hash in the documents row.  Its bytes may differ from party to *)
(* party and from one walk to the next, so the row may change its hash.    *)
(* Each arrival of a hash truncates and rewrites the file of that hash,    *)
(* which other pulls may be writing and exports reading.  An export        *)
(* selects the row, reads the file, moves its own file in place and marks  *)
(* the hash it selected.                                                   *)
(***************************************************************************)
EXTENDS Integers, Sequences

CONSTANTS
    NFSeParties,    \* registered companies that are parties of the NFS-e
    Xmls,           \* its XML, which stand for their hashes
    Handed,         \* [NFSeParties -> Seq(Xmls)], what the ADN hands each
    Exporters,      \* the desktop and the CLI
    MaxNFSeExports, \* bound on exports
    MaxTears        \* bound on interrupted stores

NoXml == "none"

ASSUME NFSeExportAssumption ==
    /\ NoXml \notin Xmls
    /\ Handed \in [NFSeParties -> Seq(Xmls)]
    /\ MaxNFSeExports \in Nat /\ MaxTears \in Nat

VARIABLES
    blobs,          \* the files blobs/<hash>.xml
    rawHash,        \* documents.raw_hash, NoXml without a row
    parties,        \* companies with a company_documents row
    walked,         \* how much each company walked of what it is handed
    storing,        \* the XML each pull keeps
    nfseMarks,      \* company_document_export_marks.exported_hash
    nfseExporting,  \* the export each process runs
    nfseFiles,      \* history: the files exported, by company and kind
    torn,           \* history: XMLs of which a store was cut short, or went
                    \* on while an export read them
    tears,          \* interrupted stores so far
    nfseExports     \* exports so far

nfseExportVars == <<blobs, rawHash, parties, walked, storing, nfseMarks,
                    nfseExporting, nfseFiles, torn, tears, nfseExports>>

NoStore == [stage |-> "none"]
NoNFSeExport == [stage |-> "none"]
NFSeKinds == {"csv", "xml", "danfse"}
BlobStates == {"absent", "partial", "whole"}
NFSeFile == [xml : Xmls, whole : BOOLEAN]

NFSeExportTypeOK ==
    /\ blobs \in [Xmls -> BlobStates]
    /\ rawHash \in Xmls \cup {NoXml}
    /\ parties \subseteq NFSeParties
    /\ walked \in [NFSeParties -> Nat]
    /\ \A c \in NFSeParties : walked[c] <= Len(Handed[c])
    /\ storing \in [NFSeParties -> {NoStore} \cup [stage : {"open", "stored"}, xml : Xmls]]
    /\ nfseMarks \in [NFSeParties -> [NFSeKinds -> Xmls \cup {NoXml}]]
    /\ nfseExporting \in [Exporters ->
          {NoNFSeExport} \cup [stage : {"selected", "generated", "moved"}, company : NFSeParties,
                               kind : NFSeKinds, xml : Xmls, whole : BOOLEAN]]
    /\ nfseFiles \in [NFSeParties -> [NFSeKinds -> SUBSET NFSeFile]]
    /\ torn \subseteq Xmls
    /\ tears \in 0 .. MaxTears
    /\ nfseExports \in 0 .. MaxNFSeExports

NFSeExportInit ==
    /\ blobs = [x \in Xmls |-> "absent"]
    /\ rawHash = NoXml
    /\ parties = {}
    /\ walked = [c \in NFSeParties |-> 0]
    /\ storing = [c \in NFSeParties |-> NoStore]
    /\ nfseMarks = [c \in NFSeParties |-> [k \in NFSeKinds |-> NoXml]]
    /\ nfseExporting = [p \in Exporters |-> NoNFSeExport]
    /\ nfseFiles = [c \in NFSeParties |-> [k \in NFSeKinds |-> {}]]
    /\ torn = {}
    /\ tears = 0
    /\ nfseExports = 0

-----------------------------------------------------------------------------
(* The pulls.  One of a company at a time; the item and the cursor are one *)
(* transaction.                                                            *)

exportTables == <<nfseMarks, nfseExporting, nfseFiles, nfseExports>>

\* The file is truncated, whatever it held.
OpenBlob(c) ==
    /\ storing[c] = NoStore
    /\ walked[c] < Len(Handed[c])
    /\ LET x == Handed[c][walked[c] + 1]
       IN  /\ storing' = [storing EXCEPT ![c] = [stage |-> "open", xml |-> x]]
           /\ blobs' = [blobs EXCEPT ![x] = "partial"]
    /\ UNCHANGED <<rawHash, parties, walked, torn, tears, exportTables>>

WriteBlob(c) ==
    /\ storing[c].stage = "open"
    /\ blobs' = [blobs EXCEPT ![storing[c].xml] = "whole"]
    /\ storing' = [storing EXCEPT ![c] = [stage |-> "stored", xml |-> @.xml]]
    /\ UNCHANGED <<rawHash, parties, walked, torn, tears, exportTables>>

XmlKept(c) == storing[c].stage = "stored"

\* The upsert replaces every column of the row.
UpsertNFSe(c) ==
    /\ XmlKept(c)
    /\ rawHash' = storing[c].xml
    /\ parties' = parties \cup {c}
    /\ walked' = [walked EXCEPT ![c] = @ + 1]
    /\ storing' = [storing EXCEPT ![c] = NoStore]
    /\ UNCHANGED <<blobs, torn, tears, exportTables>>

\* The file cannot be written, the transaction fails, the pull is cancelled or
\* its process dies.  The next run takes the item again, or gave it up after
\* the last attempt.
StoringFails(c) ==
    /\ storing[c] # NoStore
    /\ tears < MaxTears
    /\ tears' = tears + 1
    /\ torn' = IF blobs[storing[c].xml] = "partial" THEN torn \cup {storing[c].xml} ELSE torn
    /\ walked' \in {walked, [walked EXCEPT ![c] = @ + 1]}
    /\ storing' = [storing EXCEPT ![c] = NoStore]
    /\ UNCHANGED <<blobs, rawHash, parties, exportTables>>

-----------------------------------------------------------------------------
(* The exports: CSV and XLSX (csv) hold what the selection returned, the   *)
(* others what the file of the hash holds when it is read.                 *)

pullTables == <<blobs, rawHash, parties, walked, storing, tears>>

\* What an incremental export selects.
PendingNFSe(c, k) == c \in parties /\ nfseMarks[c][k] # rawHash

\* ListCompanyDocuments, ListPendingExportDocuments or CompanyDocumentByChave:
\* an export that is not incremental selects the row although it is marked.
SelectNFSe(p, c, k) ==
    /\ nfseExporting[p] = NoNFSeExport
    /\ nfseExports < MaxNFSeExports
    /\ c \in parties
    /\ nfseExports' = nfseExports + 1
    /\ nfseExporting' = [nfseExporting EXCEPT ![p] =
          [stage |-> "selected", company |-> c, kind |-> k, xml |-> rawHash, whole |-> TRUE]]
    /\ UNCHANGED <<pullTables, torn, nfseMarks, nfseFiles>>

\* A report, which reads no XML.
WriteReport(p) ==
    /\ nfseExporting[p].stage = "selected"
    /\ nfseExporting[p].kind = "csv"
    /\ nfseExporting' = [nfseExporting EXCEPT ![p].stage = "generated"]
    /\ UNCHANGED <<pullTables, torn, nfseMarks, nfseFiles, nfseExports>>

\* Some pull has the file of x open.
BeingStored(x) == \E c \in NFSeParties : storing[c] = [stage |-> "open", xml |-> x]

\* The XML is copied as the file has it; a DANFSe of a part of it cannot be
\* rendered, and the export fails.
ReadBlob(p) ==
    LET x == nfseExporting[p].xml
    IN  /\ nfseExporting[p].stage = "selected"
        /\ nfseExporting[p].kind # "csv"
        /\ blobs[x] # "absent"
        /\ nfseExporting[p].kind = "danfse" => blobs[x] = "whole"
        /\ torn' = IF BeingStored(x) THEN torn \cup {x} ELSE torn
        /\ nfseExporting' = [nfseExporting EXCEPT ![p] =
              [stage |-> "generated", company |-> @.company, kind |-> @.kind, xml |-> x,
               whole |-> blobs[x] = "whole"]]
        /\ UNCHANGED <<pullTables, nfseMarks, nfseFiles, nfseExports>>

\* The temporary file takes the place of what was at the path.
MoveToOutPath(p) ==
    LET e == nfseExporting[p]
    IN  /\ e.stage = "generated"
        /\ nfseFiles' = [nfseFiles EXCEPT ![e.company][e.kind] =
                            @ \cup {[xml |-> e.xml, whole |-> e.whole]}]
        /\ nfseExporting' = [nfseExporting EXCEPT ![p].stage = "moved"]
        /\ UNCHANGED <<pullTables, torn, nfseMarks, nfseExports>>

\* Mutant of HashOf: the hash is read when the mark is written.
HashNow(p) == rawHash

HashOf(p) == nfseExporting[p].xml

MarkDocumentsExported(p) ==
    LET e == nfseExporting[p]
    IN  /\ e.stage = "moved"
        /\ nfseMarks' = [nfseMarks EXCEPT ![e.company][e.kind] = HashOf(p)]
        /\ nfseExporting' = [nfseExporting EXCEPT ![p] = NoNFSeExport]
        /\ UNCHANGED <<pullTables, torn, nfseFiles, nfseExports>>

\* An export fails, is cancelled or dies; its temporary file is of no use.
NFSeExportFails(p) ==
    /\ nfseExporting[p] # NoNFSeExport
    /\ nfseExporting' = [nfseExporting EXCEPT ![p] = NoNFSeExport]
    /\ UNCHANGED <<pullTables, torn, nfseMarks, nfseFiles, nfseExports>>

NFSeExportNext ==
    \/ \E c \in NFSeParties : OpenBlob(c) \/ WriteBlob(c) \/ UpsertNFSe(c) \/ StoringFails(c)
    \/ \E p \in Exporters :
        \/ \E c \in NFSeParties, k \in NFSeKinds : SelectNFSe(p, c, k)
        \/ WriteReport(p) \/ ReadBlob(p) \/ MoveToOutPath(p)
        \/ MarkDocumentsExported(p) \/ NFSeExportFails(p)

NFSeExportSpec == NFSeExportInit /\ [][NFSeExportNext]_nfseExportVars

-----------------------------------------------------------------------------
(* Properties.                                                             *)

\* What an incremental export leaves out was exported with the XML the row has
\* now, whole but for the same exception, however pulls and exports interleave
\* and wherever they fail (app/export.go:155, store/documents.go:218).  The
\* status of the NFS-e, which events change, does not reopen it.
NFSeExportComplete ==
    \A c \in parties, k \in NFSeKinds : ~PendingNFSe(c, k) =>
        \E f \in nfseFiles[c][k] : f.xml = rawHash /\ (f.whole \/ rawHash \in torn)
=============================================================================
