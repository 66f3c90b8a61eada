---------------------------- MODULE StoreProofs ----------------------------
(***************************************************************************)
(* Theorems about what is kept on disk: CTeDocs, the stores of CT-e;       *)
(* NFSeExport and NFSePull, the exports and the pulls of NFS-e; LogFiles.  *)
(*                                                                         *)
(* CT-e.  A step stores a document, stores an event, resets a company or   *)
(* leaves the tables alone (CTeTableSteps).  An event row changes its copy,*)
(* so that what a file holds can be compared only with the set of stored   *)
(* events, which grows while the document keeps its id.                    *)
(*                                                                         *)
(* Exports of NFS-e.  A file that is not whole is one that a pull has open,*)
(* or one whose XML was torn (PartialExplained).  So what an export read   *)
(* is whole or of a torn XML (ReadTruly), it is at its path before the     *)
(* mark (MovedIsThere), and what a mark names was exported (MarkedIsThere).*)
(*                                                                         *)
(* Pulls of NFS-e.  While no edit of the start overlapped a pull, a pull   *)
(* has the start of the company and walked over what that start excludes   *)
(* (PullFits): an edit that no pull overlapped changes the start where     *)
(* there is no cursor (EditIsAlone).  A pull decided on an event that its  *)
(* feed has, writes to a run that is there, and interrupted the runs       *)
(* before its own (PullFits, RunsCleared).                                 *)
(*                                                                         *)
(* Log files.  LogsInOrder needs that a rotation has emptied the file      *)
(* whose number it gives next (WriterSound), that the backups are in use   *)
(* from the first on until a call fails (UsedInOrder), and that the export *)
(* has read only what is older than all it has still to read (ExportSound).*)
(***************************************************************************)
EXTENDS CTeDocs, NFSeExport, NFSePull, LogFiles, FiniteSetTheorems, TLAPS

-----------------------------------------------------------------------------
(* The parts of CTeTypeOK.                                                 *)

CTeTableType ==
    /\ cte \in CTeRow
    /\ cteRows \in [CTeEvents -> CTeCopies]
    /\ cteLinked \subseteq CTeEvents
    /\ cteHolders \subseteq CTeCompanies

CTeWalkType ==
    /\ ctePos \in [CTeCompanies -> Nat]
    /\ \A c \in CTeCompanies : ctePos[c] <= Len(CTeQueue[c])
    /\ ctePull \in [CTeCompanies -> {"idle", "keep", "drop"}]
    /\ cteImport \in [CTeCompanies -> {NoCTeImport} \cup CTeEventItem]

CTeExportRow ==
    [stage : {"selected", "read"}, kind : ExportKinds, id : CTeIds, mark : CTeMark, file : CTeFile]

CTeExportType ==
    /\ cteMarks \in [CTeCompanies -> [ExportKinds -> [CTeIds -> {NoCTeMark} \cup CTeMark]]]
    /\ cteExporting \in [CTeCompanies -> {NoCTeExport} \cup CTeExportRow]
    /\ cteShipped \in [CTeCompanies -> [ExportKinds -> [CTeIds -> CTeFile]]]
    /\ cteExports \in 0 .. MaxCTeExports
    /\ cteResets \in 0 .. MaxCTeResets

LEMMA CTeTypeParts == CTeTypeOK <=> CTeTableType /\ CTeWalkType /\ CTeExportType
    BY DEF CTeTypeOK, CTeTableType, CTeWalkType, CTeExportType, CTeExportRow

LEMMA CTeItemType ==
    ASSUME CTeTypeOK, NEW c \in CTeCompanies, ctePos[c] < Len(CTeQueue[c])
    PROVE  NextCTe(c) \in CTeDocumentItem \cup CTeEventItem
  <1>1. CTeQueue[c] \in Seq(CTeDocumentItem \cup CTeEventItem)
    BY CTeAssumption
  <1>2. ctePos[c] \in Nat /\ Len(CTeQueue[c]) \in Nat
    BY <1>1 DEF CTeTypeOK
  <1>3. ctePos[c] + 1 \in 1 .. Len(CTeQueue[c])
    BY <1>2
  <1> QED BY <1>1, <1>3 DEF NextCTe

LEMMA CTeItemKinds ==
    /\ \A x \in CTeDocumentItem \cup CTeEventItem : x.kind = "document" => x \in CTeDocumentItem
    /\ \A x \in CTeDocumentItem \cup CTeEventItem : x.kind = "event" => x \in CTeEventItem
    /\ \A x \in CTeDocumentItem : x.version \in CTeVersion
    /\ \A x \in CTeEventItem : x.event \in CTeEvents /\ x.copy \in {"registered", "rejected"}
    /\ \A x \in {NoCTeImport} \cup CTeEventItem : x # NoCTeImport => x \in CTeEventItem
    BY DEF CTeDocumentItem, CTeEventItem, NoCTeImport

-----------------------------------------------------------------------------
(* What the helpers return.                                                *)

LEMMA CTeSeverityFacts ==
    /\ \A s \in CTeSituacoes : SeverityOfCTe(s) \in 1 .. 3
    /\ SeverityOfCTe("cancelada") = 3
    /\ \A a, b \in CTeSituacoes :
          /\ MoreSevereCTe(a, b) \in CTeSituacoes
          /\ SeverityOfCTe(MoreSevereCTe(a, b)) >= SeverityOfCTe(a)
    BY DEF CTeSituacoes, SeverityOfCTe, MoreSevereCTe

\* A registered cancelamento cancels, and nothing makes the situation milder.
LEMMA CTeSituacaoFacts ==
    ASSUME NEW s \in CTeSituacoes, NEW r
    PROVE  /\ CTeSituacaoFromEvents(s, r) \in CTeSituacoes
           /\ SeverityOfCTe(CTeSituacaoFromEvents(s, r)) >= SeverityOfCTe(s)
           /\ \A e \in Cancelamentos : r[e] = "registered" => CTeSituacaoFromEvents(s, r) = "cancelada"
    BY CTeSeverityFacts DEF CTeSituacaoFromEvents, CTeSituacoes

\* A masked copy never replaces a whole one (cte/merge.go:15).
LEMMA CTeWithFacts ==
    ASSUME CTeTypeOK, NEW v \in CTeVersion
    PROVE  /\ CTeWith(v) \in CTeRow
           /\ CTeWith(v).id = IF cte.id = 0 THEN cteResets + 1 ELSE cte.id
           /\ CTeWith(v).id # 0
           /\ cte.id # 0 =>
                /\ ~cte.raw.masked => ~CTeWith(v).raw.masked
                /\ SeverityOfCTe(CTeWith(v).situacao) >= SeverityOfCTe(cte.situacao)
  <1>1. /\ cte \in CTeRow /\ cteResets \in 0 .. MaxCTeResets /\ MaxCTeResets \in Nat
        /\ v.situacao \in CTeSituacoes /\ v.masked \in BOOLEAN
        /\ cte.situacao \in CTeSituacoes /\ cte.raw \in CTeVersion /\ cte.id \in CTeIds \cup {0}
    BY CTeAssumption DEF CTeTypeOK, CTeVersion, CTeSituacoes, CTeRow
  <1>2. CASE cte.id = 0
    <2>1. CTeWith(v) = [id |-> cteResets + 1, raw |-> v, situacao |-> v.situacao]
      BY <1>2 DEF CTeWith
    <2>2. cteResets + 1 \in CTeIds /\ cteResets + 1 # 0
      BY <1>1 DEF CTeIds
    <2> QED BY <1>1, <1>2, <2>1, <2>2 DEF CTeRow
  <1>3. CASE cte.id # 0
    <2>1. CTeWith(v) =
            [id |-> cte.id, raw |-> IF v.masked /\ ~cte.raw.masked THEN cte.raw ELSE v,
             situacao |-> MoreSevereCTe(cte.situacao, v.situacao)]
      BY <1>3 DEF CTeWith, MergeCTe
    <2> QED BY <1>1, <1>3, <2>1, CTeSeverityFacts DEF CTeRow
  <1> QED BY <1>2, <1>3

LEMMA CTeUpsertFacts ==
    ASSUME CTeTypeOK, NEW x \in CTeEventItem
    PROVE  /\ UpsertCTeEvent(x) \in [CTeEvents -> CTeCopies]
           /\ StoredCTe(cteRows) \subseteq StoredCTe(UpsertCTeEvent(x))
  <1>1. cteRows \in [CTeEvents -> CTeCopies] /\ x.event \in CTeEvents
        /\ x.copy \in {"registered", "rejected"}
    BY CTeItemKinds DEF CTeTypeOK
  <1> QED BY <1>1 DEF UpsertCTeEvent, StoredCTe, CTeCopies

-----------------------------------------------------------------------------
(* What a step does to the tables.                                         *)

\* A registered cancelamento is in the situation of the document.
CTeApplied ==
    cte.id # 0 => \A e \in Cancelamentos : cteRows[e] = "registered" => cte.situacao = "cancelada"

\* The step forgets no event, and nothing of the document if it is there.
CTeGrows ==
    /\ StoredCTe(cteRows) \subseteq StoredCTe(cteRows')
    /\ cte.id # 0 =>
          /\ cte'.id = cte.id
          /\ ~cte.raw.masked => ~cte'.raw.masked
          /\ SeverityOfCTe(cte'.situacao) >= SeverityOfCTe(cte.situacao)

\* What refreshCTeChave leaves.
LEMMA CTeRefreshed ==
    ASSUME NEW d \in CTeRow, NEW r \in [CTeEvents -> CTeCopies],
           cteLinked \subseteq CTeEvents, RefreshCTeChave(d, r)
    PROVE  /\ cte' \in CTeRow /\ cteRows' = r /\ cteLinked' \subseteq CTeEvents
           /\ cte'.id = d.id /\ cte'.raw = d.raw
           /\ SeverityOfCTe(cte'.situacao) >= SeverityOfCTe(d.situacao)
           /\ d.id = 0 => cte' = d
           /\ CTeApplied'
  <1>1. d.situacao \in CTeSituacoes /\ d.raw \in CTeVersion /\ d.id \in CTeIds \cup {0}
        /\ cteRows' = r
    BY DEF CTeRow, RefreshCTeChave
  <1>2. CASE d.id = 0
    <2>1. cte' = d /\ cteLinked' = cteLinked
      BY <1>2 DEF RefreshCTeChave
    <2> QED BY <1>1, <1>2, <2>1, CTeSeverityFacts DEF CTeApplied
  <1>3. CASE d.id # 0
    <2>1. /\ cte' = [id |-> d.id, raw |-> d.raw, situacao |-> CTeSituacaoFromEvents(d.situacao, r)]
          /\ cteLinked' = StoredCTe(r)
      BY <1>3 DEF RefreshCTeChave, LinkCTeEvents
    <2>2. /\ cte'.id = d.id /\ cte'.raw = d.raw
          /\ cte'.situacao = CTeSituacaoFromEvents(d.situacao, r)
      BY <2>1
    <2>3. cte' \in CTeRow
      BY <1>1, <2>1, CTeSituacaoFacts DEF CTeRow
    <2>4. CTeApplied'
      BY <1>1, <2>2, CTeSituacaoFacts DEF CTeApplied
    <2>5. cteLinked' \subseteq CTeEvents
      BY <2>1 DEF StoredCTe
    <2> QED BY <1>1, <1>3, <2>2, <2>3, <2>4, <2>5, CTeSituacaoFacts
  <1> QED BY <1>2, <1>3

LEMMA CTeDocumentStored ==
    ASSUME CTeTypeOK, NEW c \in CTeCompanies, NEW v \in CTeVersion, ApplyCTeDocument(c, v)
    PROVE  /\ CTeTableType' /\ CTeGrows /\ CTeApplied'
           /\ cteHolders' = cteHolders \cup {c}
           /\ cteRows' = cteRows
           /\ cte'.id = IF cte.id = 0 THEN cteResets + 1 ELSE cte.id
           /\ cte'.id # 0
  <1> DEFINE d == CTeWith(v)
  <1>1. /\ cteRows \in [CTeEvents -> CTeCopies] /\ cteLinked \subseteq CTeEvents
        /\ cteHolders \subseteq CTeCompanies /\ cte \in CTeRow
        /\ RefreshCTeChave(d, cteRows) /\ cteHolders' = cteHolders \cup {c}
    BY DEF CTeTypeOK, ApplyCTeDocument, UpsertCompanyCTe
  <1>2. /\ d \in CTeRow
        /\ d.id = IF cte.id = 0 THEN cteResets + 1 ELSE cte.id
        /\ d.id # 0
        /\ cte.id # 0 =>
             /\ ~cte.raw.masked => ~d.raw.masked
             /\ SeverityOfCTe(d.situacao) >= SeverityOfCTe(cte.situacao)
    BY CTeWithFacts
  <1> HIDE DEF d
  <1>3. /\ cte' \in CTeRow /\ cteRows' = cteRows /\ cteLinked' \subseteq CTeEvents
        /\ cte'.id = d.id /\ cte'.raw = d.raw
        /\ SeverityOfCTe(cte'.situacao) >= SeverityOfCTe(d.situacao)
        /\ CTeApplied'
    BY <1>1, <1>2, CTeRefreshed
  <1>4. \A s \in {cte'.situacao, d.situacao, cte.situacao} : SeverityOfCTe(s) \in 1 .. 3
    BY <1>1, <1>2, <1>3, CTeSeverityFacts DEF CTeRow
  <1>5. CTeGrows
    BY <1>2, <1>3, <1>4 DEF CTeGrows
  <1>6. CTeTableType'
    BY <1>1, <1>3 DEF CTeTableType
  <1> QED BY <1>1, <1>2, <1>3, <1>5, <1>6

LEMMA CTeEventStored ==
    ASSUME CTeTypeOK, NEW x \in CTeEventItem, ApplyCTeEvent(x)
    PROVE  /\ CTeTableType' /\ CTeGrows /\ CTeApplied'
           /\ cteHolders' = cteHolders
           /\ cte'.id = cte.id
           /\ cte.id = 0 => cte' = cte
  <1> DEFINE r == UpsertCTeEvent(x)
  <1>1. /\ cteLinked \subseteq CTeEvents /\ cteHolders \subseteq CTeCompanies /\ cte \in CTeRow
        /\ RefreshCTeChave(cte, r) /\ cteHolders' = cteHolders
    BY DEF CTeTypeOK, ApplyCTeEvent
  <1>2. r \in [CTeEvents -> CTeCopies] /\ StoredCTe(cteRows) \subseteq StoredCTe(r)
    BY CTeUpsertFacts
  <1> HIDE DEF r
  <1>3. /\ cte' \in CTeRow /\ cteRows' = r /\ cteLinked' \subseteq CTeEvents
        /\ cte'.id = cte.id /\ cte'.raw = cte.raw
        /\ SeverityOfCTe(cte'.situacao) >= SeverityOfCTe(cte.situacao)
        /\ cte.id = 0 => cte' = cte
        /\ CTeApplied'
    BY <1>1, <1>2, CTeRefreshed
  <1>4. CTeGrows
    BY <1>2, <1>3 DEF CTeGrows
  <1>5. CTeTableType'
    BY <1>1, <1>2, <1>3 DEF CTeTableType
  <1> QED BY <1>1, <1>3, <1>4, <1>5

\* A reset takes the document only with its last company, and touches no
\* event while the document stays.
LEMMA CTeResetFacts ==
    ASSUME CTeTypeOK, NEW c \in CTeCompanies, ResetCTe(c)
    PROVE  /\ CTeTableType'
           /\ cteHolders' = cteHolders \ {c}
           /\ cteResets' = cteResets + 1 /\ cteResets' \in 0 .. MaxCTeResets
           /\ ExclusiveCTe(c) => cte' = NoCTe
           /\ ~ExclusiveCTe(c) => cte' = cte
           /\ ~ExclusiveCTe(c) /\ cte.id # 0 => cteRows' = cteRows
  <1>1. /\ cte \in CTeRow /\ cteRows \in [CTeEvents -> CTeCopies] /\ cteLinked \subseteq CTeEvents
        /\ cteHolders \subseteq CTeCompanies /\ cteResets \in 0 .. MaxCTeResets
        /\ MaxCTeResets \in Nat
    BY CTeAssumption DEF CTeTypeOK
  <1>2. NoCTe \in CTeRow /\ "none" \in CTeCopies
    BY DEF NoCTe, CTeRow, CTeVersion, CTeSituacoes, CTeCopies
  <1>3. /\ cteResets < MaxCTeResets /\ cteResets' = cteResets + 1
        /\ cte' = IF ExclusiveCTe(c) THEN NoCTe ELSE cte
        /\ cteRows' = [e \in CTeEvents |-> IF CTeEventRemoved(c, e) THEN "none" ELSE cteRows[e]]
        /\ cteLinked' = IF ExclusiveCTe(c) THEN {} ELSE cteLinked
        /\ cteHolders' = cteHolders \ {c}
    BY DEF ResetCTe
  <1>4. CTeTableType'
    BY <1>1, <1>2, <1>3 DEF CTeTableType
  <1>5. ~ExclusiveCTe(c) /\ cte.id # 0 => cteRows' = cteRows
    <2> SUFFICES ASSUME ~ExclusiveCTe(c), cte.id # 0 PROVE cteRows' = cteRows
      OBVIOUS
    <2>1. \A e \in CTeEvents : ~CTeEventRemoved(c, e)
      BY DEF CTeEventRemoved
    <2> QED BY <1>1, <1>3, <2>1
  <1> QED BY <1>1, <1>3, <1>4, <1>5

\* The four kinds of step, as seen by the tables.
LEMMA CTeTableSteps ==
    ASSUME CTeTypeOK, [CTeNext]_cteVars
    PROVE  \/ \E c \in CTeCompanies, v \in CTeVersion : ApplyCTeDocument(c, v) /\ UNCHANGED cteResets
           \/ \E x \in CTeEventItem : ApplyCTeEvent(x) /\ UNCHANGED cteResets
           \/ \E c \in CTeCompanies : ResetCTe(c)
           \/ UNCHANGED cteTables /\ UNCHANGED cteResets
  <1> DEFINE Goal == \/ \E c \in CTeCompanies, v \in CTeVersion : ApplyCTeDocument(c, v) /\ UNCHANGED cteResets
                     \/ \E x \in CTeEventItem : ApplyCTeEvent(x) /\ UNCHANGED cteResets
                     \/ \E c \in CTeCompanies : ResetCTe(c)
                     \/ UNCHANGED cteTables /\ UNCHANGED cteResets
  <1> SUFFICES Goal
    OBVIOUS
  <1>1. ASSUME NEW c \in CTeCompanies, PullCTe(c)
        PROVE  Goal
    <2>1. NextCTe(c).version \in CTeVersion
      BY <1>1, CTeItemType, CTeItemKinds DEF PullCTe, CTeAt
    <2> QED BY <1>1, <2>1 DEF PullCTe, cteBounds
  <1>2. ASSUME NEW c \in CTeCompanies, KeepCTeEvent(c)
        PROVE  Goal
    <2>1. NextCTe(c) \in CTeEventItem
      BY <1>2, CTeItemType, CTeItemKinds DEF KeepCTeEvent, CTeAt
    <2> QED BY <1>2, <2>1 DEF KeepCTeEvent, cteBounds
  <1>3. ASSUME NEW c \in CTeCompanies, NEW x \in CTeImportable[c], ImportCTe(c, x)
        PROVE  Goal
    <2>1. x \in CTeDocumentItem \cup CTeEventItem
      BY CTeAssumption
    <2>2. x.version \in CTeVersion
      BY <1>3, <2>1, CTeItemKinds DEF ImportCTe
    <2> QED BY <1>3, <2>2 DEF ImportCTe, cteBounds
  <1>4. ASSUME NEW c \in CTeCompanies, StoreCTeImport(c)
        PROVE  Goal
    <2>1. cteImport[c] \in CTeEventItem
      BY <1>4, CTeItemKinds DEF CTeTypeOK, StoreCTeImport
    <2> QED BY <1>4, <2>1 DEF StoreCTeImport, cteBounds
  <1>5. ASSUME NEW c \in CTeCompanies,
               \/ CheckCTeEvent(c) \/ DropCTeEvent(c) \/ AbandonCTe(c)
               \/ ReadCTeEvents(c) \/ MarkCTeExported(c)
               \/ \E k \in ExportKinds, alone \in BOOLEAN : SelectCTe(c, k, alone)
               \/ \E x \in CTeImportable[c] : ImportCTeEvent(c, x)
        PROVE  Goal
    <2>1. UNCHANGED cteTables /\ UNCHANGED cteResets
      BY <1>5 DEF CheckCTeEvent, DropCTeEvent, AbandonCTe, ReadCTeEvents, MarkCTeExported,
                  SelectCTe, ImportCTeEvent, cteBounds
    <2> QED BY <2>1
  <1>6. CASE UNCHANGED cteVars
    BY <1>6 DEF cteVars, cteBounds
  <1> HIDE DEF Goal
  <1> QED BY <1>1, <1>2, <1>3, <1>4, <1>5, <1>6 DEF CTeNext, BulkExportCTe, ExportCTeAlone, Goal

-----------------------------------------------------------------------------
(* Type correctness, and what the types need: a document is stored exactly *)
(* while a company sees it.                                                *)

CTeSeen == cte.id # 0 <=> cteHolders # {}

LEMMA CTeNoneTypes ==
    /\ NoCTe \in CTeRow /\ NoCTe.raw \in CTeVersion
    /\ NoCTeFile \in CTeFile
    /\ NoCTeFiles \in [ExportKinds -> [CTeIds -> CTeFile]]
    /\ NoCTeMarks \in [ExportKinds -> [CTeIds -> {NoCTeMark} \cup CTeMark]]
    /\ NoCTeExport \notin CTeExportRow
    /\ NoCTeRows \in [CTeEvents -> CTeCopies]
  <1>1. NoCTe \in CTeRow /\ NoCTe.raw \in CTeVersion
    BY DEF NoCTe, CTeRow, CTeVersion, CTeSituacoes
  <1>2. NoCTeFile \in CTeFile
    <2>1. NoCTeRows \in [CTeEvents -> CTeCopies]
      BY DEF NoCTeRows, CTeCopies
    <2> QED BY <1>1, <2>1 DEF NoCTeFile, CTeFile
  <1>3. NoCTeFiles \in [ExportKinds -> [CTeIds -> CTeFile]]
    BY <1>2 DEF NoCTeFiles
  <1>4. NoCTeMarks \in [ExportKinds -> [CTeIds -> {NoCTeMark} \cup CTeMark]]
    BY DEF NoCTeMarks
  <1>5. NoCTeExport \notin CTeExportRow
    BY DEF NoCTeExport, CTeExportRow
  <1>6. NoCTeRows \in [CTeEvents -> CTeCopies]
    BY DEF NoCTeRows, CTeCopies
  <1> QED BY <1>1, <1>2, <1>3, <1>4, <1>5, <1>6

LEMMA CTeInitHolds == CTeInit => CTeTypeOK /\ CTeSeen /\ CTeApplied
  <1> SUFFICES ASSUME CTeInit PROVE CTeTypeOK /\ CTeSeen /\ CTeApplied
    OBVIOUS
  <1>1. CTeTableType
    BY CTeNoneTypes DEF CTeInit, CTeTableType, CTeCopies
  <1>2. CTeWalkType
    <2>1. \A c \in CTeCompanies : Len(CTeQueue[c]) \in Nat
      BY CTeAssumption
    <2> QED BY <2>1 DEF CTeInit, CTeWalkType
  <1>3. CTeExportType
    <2>1. 0 \in 0 .. MaxCTeExports /\ 0 \in 0 .. MaxCTeResets
      BY CTeAssumption
    <2> QED BY <2>1, CTeNoneTypes DEF CTeInit, CTeExportType
  <1>4. cte.id = 0 /\ cteHolders = {}
    BY DEF CTeInit, NoCTe
  <1> QED BY <1>1, <1>2, <1>3, <1>4, CTeTypeParts DEF CTeSeen, CTeApplied

LEMMA CTeTableStep ==
    CTeTypeOK /\ CTeSeen /\ CTeApplied /\ [CTeNext]_cteVars => CTeTableType' /\ CTeSeen' /\ CTeApplied'
  <1> SUFFICES ASSUME CTeTypeOK, CTeSeen, CTeApplied, [CTeNext]_cteVars
               PROVE  CTeTableType' /\ CTeSeen' /\ CTeApplied'
    OBVIOUS
  <1>1. ASSUME NEW c \in CTeCompanies, NEW v \in CTeVersion, ApplyCTeDocument(c, v)
        PROVE  CTeTableType' /\ CTeSeen' /\ CTeApplied'
    BY <1>1, CTeDocumentStored DEF CTeSeen
  <1>2. ASSUME NEW x \in CTeEventItem, ApplyCTeEvent(x)
        PROVE  CTeTableType' /\ CTeSeen' /\ CTeApplied'
    BY <1>2, CTeEventStored DEF CTeSeen
  <1>3. ASSUME NEW c \in CTeCompanies, ResetCTe(c)
        PROVE  CTeTableType' /\ CTeSeen' /\ CTeApplied'
    <2>1. /\ CTeTableType' /\ cteHolders' = cteHolders \ {c}
          /\ ExclusiveCTe(c) => cte' = NoCTe
          /\ ~ExclusiveCTe(c) => cte' = cte
          /\ ~ExclusiveCTe(c) /\ cte.id # 0 => cteRows' = cteRows
      BY <1>3, CTeResetFacts
    <2>2. CASE ExclusiveCTe(c)
      BY <2>1, <2>2 DEF ExclusiveCTe, CTeSeen, CTeApplied, NoCTe
    <2>3. CASE ~ExclusiveCTe(c)
      BY <2>1, <2>3 DEF ExclusiveCTe, CTeSeen, CTeApplied
    <2> QED BY <2>1, <2>2, <2>3
  <1>4. CASE UNCHANGED cteTables
    BY <1>4, CTeTypeParts DEF cteTables, CTeTableType, CTeSeen, CTeApplied
  <1> QED BY <1>1, <1>2, <1>3, <1>4, CTeTableSteps

LEMMA CTeWalkTypeStep == CTeTypeOK /\ [CTeNext]_cteVars => CTeWalkType'
  <1> SUFFICES ASSUME CTeTypeOK, [CTeNext]_cteVars PROVE CTeWalkType'
    OBVIOUS
  <1>0. CTeWalkType
    BY CTeTypeParts
  <1> DEFINE Stages == {"idle", "keep", "drop"}
             Calls == {NoCTeImport} \cup CTeEventItem
  <1>a. /\ ctePos \in [CTeCompanies -> Nat]
        /\ \A c \in CTeCompanies : ctePos[c] <= Len(CTeQueue[c]) /\ Len(CTeQueue[c]) \in Nat
        /\ ctePull \in [CTeCompanies -> Stages] /\ cteImport \in [CTeCompanies -> Calls]
        /\ NoCTeImport \in Calls
    BY <1>0, CTeAssumption DEF CTeWalkType
  <1>1. ASSUME NEW c \in CTeCompanies, PullCTe(c) \/ KeepCTeEvent(c) \/ DropCTeEvent(c)
        PROVE  CTeWalkType'
    <2>1. /\ ctePos' = [ctePos EXCEPT ![c] = ctePos[c] + 1] /\ ctePos[c] < Len(CTeQueue[c])
          /\ ctePull' = [ctePull EXCEPT ![c] = "idle"] /\ cteImport' = cteImport
      BY <1>1 DEF PullCTe, KeepCTeEvent, DropCTeEvent, CTeCheckpoint, CTeAt
    <2> QED BY <1>a, <2>1 DEF CTeWalkType
  <1>2. ASSUME NEW c \in CTeCompanies, CheckCTeEvent(c)
        PROVE  CTeWalkType'
    <2>1. /\ ctePos' = ctePos /\ cteImport' = cteImport
          /\ \E s \in Stages : ctePull' = [ctePull EXCEPT ![c] = s]
      BY <1>2 DEF CheckCTeEvent
    <2> QED BY <1>a, <2>1 DEF CTeWalkType
  <1>3. ASSUME NEW c \in CTeCompanies, NEW x \in CTeImportable[c],
               ImportCTe(c, x) \/ ImportCTeEvent(c, x)
        PROVE  CTeWalkType'
    <2>1. x.kind = "event" => x \in Calls
      BY CTeAssumption, CTeItemKinds
    <2>2. /\ ctePos' = ctePos /\ ctePull' = ctePull
          /\ \/ cteImport' = cteImport
             \/ \E y \in Calls : cteImport' = [cteImport EXCEPT ![c] = y]
      <3> HIDE DEF Calls
      <3> QED BY <1>3, <2>1 DEF ImportCTe, ImportCTeEvent, cteCalls
    <2> QED BY <1>a, <2>2 DEF CTeWalkType
  <1>4. ASSUME NEW c \in CTeCompanies, StoreCTeImport(c) \/ AbandonCTe(c)
        PROVE  CTeWalkType'
    <2>1. /\ ctePos' = ctePos /\ cteImport' = [cteImport EXCEPT ![c] = NoCTeImport]
          /\ \/ ctePull' = ctePull
             \/ ctePull' = [ctePull EXCEPT ![c] = "idle"]
      BY <1>4 DEF StoreCTeImport, AbandonCTe
    <2> QED BY <1>a, <2>1 DEF CTeWalkType
  <1>5. ASSUME NEW c \in CTeCompanies, ResetCTe(c)
        PROVE  CTeWalkType'
    <2>1. ctePos' = [ctePos EXCEPT ![c] = 0] /\ ctePull' = ctePull /\ cteImport' = cteImport
      BY <1>5 DEF ResetCTe, cteCalls
    <2> QED BY <1>a, <2>1 DEF CTeWalkType
  <1>6. ASSUME NEW c \in CTeCompanies,
               \/ ReadCTeEvents(c) \/ MarkCTeExported(c)
               \/ \E k \in ExportKinds, alone \in BOOLEAN : SelectCTe(c, k, alone)
        PROVE  CTeWalkType'
    <2>1. ctePos' = ctePos /\ ctePull' = ctePull /\ cteImport' = cteImport
      BY <1>6 DEF ReadCTeEvents, MarkCTeExported, SelectCTe
    <2> QED BY <1>0, <2>1 DEF CTeWalkType
  <1>7. CASE UNCHANGED cteVars
    BY <1>0, <1>7 DEF cteVars, cteCalls, CTeWalkType
  <1> QED BY <1>1, <1>2, <1>3, <1>4, <1>5, <1>6, <1>7 DEF CTeNext, BulkExportCTe, ExportCTeAlone

LEMMA CTeStoredFacts ==
    ASSUME NEW r
    PROVE  /\ StoredCTe(r) \subseteq CTeEvents
           /\ IsFiniteSet(StoredCTe(r))
           /\ Cardinality(StoredCTe(r)) \in Nat
           /\ Cardinality(StoredCTe(r)) \in 0 .. Cardinality(CTeEvents)
  <1>1. StoredCTe(r) \subseteq CTeEvents
    BY DEF StoredCTe
  <1>2. IsFiniteSet(CTeEvents)
    BY CTeAssumption
  <1>3. IsFiniteSet(StoredCTe(r)) /\ Cardinality(StoredCTe(r)) <= Cardinality(CTeEvents)
    BY <1>1, <1>2, FS_Subset
  <1> QED BY <1>1, <1>2, <1>3, FS_CardinalityType

LEMMA CTeSelectedType ==
    ASSUME CTeTypeOK, cte.id # 0, NEW k \in ExportKinds, NEW alone \in BOOLEAN
    PROVE  CTeSelected(k, alone) \in CTeExportRow
  <1>1. cte.id \in CTeIds /\ cte.raw \in CTeVersion /\ cteRows \in [CTeEvents -> CTeCopies]
    BY DEF CTeTypeOK, CTeRow
  <1>2. CTeMarkNow \in CTeMark
    BY <1>1, CTeStoredFacts DEF CTeMarkNow, CTeMark
  <1> DEFINE f == [raw |-> cte.raw, events |-> NoCTeRows, cancelada |-> cte.situacao = "cancelada",
                   alone |-> alone, rows |-> cteRows]
  <1>3. f \in CTeFile
    BY <1>1, CTeNoneTypes DEF CTeFile
  <1>4. CTeSelected(k, alone) =
          [stage |-> IF k = "xml" /\ ~alone THEN "selected" ELSE "read", kind |-> k,
           id |-> cte.id, mark |-> CTeMarkNow, file |-> f]
    BY DEF CTeSelected
  <1> HIDE DEF f
  <1> QED BY <1>1, <1>2, <1>3, <1>4 DEF CTeExportRow

LEMMA CTeReadType ==
    ASSUME CTeTypeOK, NEW c \in CTeCompanies, ReadCTeEvents(c)
    PROVE  \E y \in CTeExportRow : cteExporting' = [cteExporting EXCEPT ![c] = y]
  <1> DEFINE x == cteExporting[c]
             f == [raw |-> x.file.raw, events |-> CTeEventsRead(c), cancelada |-> x.file.cancelada,
                   alone |-> x.file.alone, rows |-> x.file.rows]
             y == [stage |-> "read", kind |-> x.kind, id |-> x.id, mark |-> x.mark, file |-> f]
  <1>1. x \in CTeExportRow
    BY CTeTypeParts DEF CTeExportType, ReadCTeEvents, NoCTeExport
  <1>2. x.kind \in ExportKinds /\ x.id \in CTeIds /\ x.mark \in CTeMark /\ x.file \in CTeFile
    BY <1>1 DEF CTeExportRow
  <1>3. CTeEventsRead(c) \in [CTeEvents -> CTeCopies]
    BY CTeNoneTypes DEF CTeEventsRead, CTeTypeOK
  <1>4. f \in CTeFile
    BY <1>2, <1>3 DEF CTeFile
  <1>5. cteExporting' = [cteExporting EXCEPT ![c] = y]
    BY DEF ReadCTeEvents
  <1>6. y \in CTeExportRow
    <2> HIDE DEF f
    <2> QED BY <1>2, <1>4 DEF CTeExportRow
  <1> QED BY <1>5, <1>6

LEMMA CTeExportTypeStep == CTeTypeOK /\ CTeSeen /\ [CTeNext]_cteVars => CTeExportType'
  <1> SUFFICES ASSUME CTeTypeOK, CTeSeen, [CTeNext]_cteVars PROVE CTeExportType'
    OBVIOUS
  <1>0. CTeExportType /\ MaxCTeExports \in Nat /\ MaxCTeResets \in Nat
    BY CTeTypeParts, CTeAssumption
  <1> DEFINE Marks == {NoCTeMark} \cup CTeMark
             Exporting == {NoCTeExport} \cup CTeExportRow
  <1>a. /\ cteMarks \in [CTeCompanies -> [ExportKinds -> [CTeIds -> Marks]]]
        /\ cteExporting \in [CTeCompanies -> Exporting] /\ NoCTeExport \in Exporting
        /\ cteShipped \in [CTeCompanies -> [ExportKinds -> [CTeIds -> CTeFile]]]
        /\ cteExports \in 0 .. MaxCTeExports /\ cteResets \in 0 .. MaxCTeResets
    BY <1>0 DEF CTeExportType
  <1>1. ASSUME NEW c \in CTeCompanies,
               \/ PullCTe(c) \/ CheckCTeEvent(c) \/ KeepCTeEvent(c) \/ DropCTeEvent(c)
               \/ StoreCTeImport(c) \/ \E x \in CTeImportable[c] : ImportCTe(c, x) \/ ImportCTeEvent(c, x)
        PROVE  CTeExportType'
    <2>1. UNCHANGED <<cteMarks, cteExporting, cteShipped, cteExports, cteResets>>
      BY <1>1 DEF PullCTe, CheckCTeEvent, KeepCTeEvent, DropCTeEvent, StoreCTeImport, ImportCTe,
                  ImportCTeEvent, cteCalls, cteBounds
    <2> QED BY <1>0, <2>1 DEF CTeExportType
  <1>2. ASSUME NEW c \in CTeCompanies, AbandonCTe(c)
        PROVE  CTeExportType'
    <2>1. /\ UNCHANGED <<cteMarks, cteShipped, cteExports, cteResets>>
          /\ cteExporting' = [cteExporting EXCEPT ![c] = NoCTeExport]
      BY <1>2 DEF AbandonCTe, cteBounds
    <2> QED BY <1>a, <2>1 DEF CTeExportType
  <1>3. ASSUME NEW c \in CTeCompanies, ResetCTe(c)
        PROVE  CTeExportType'
    <2>1. /\ cteMarks' = [cteMarks EXCEPT ![c] = NoCTeMarks]
          /\ cteShipped' = [cteShipped EXCEPT ![c] = NoCTeFiles]
          /\ cteExporting' = cteExporting /\ cteExports' = cteExports /\ cteResets' \in 0 .. MaxCTeResets
      BY <1>3, CTeResetFacts DEF ResetCTe, cteCalls
    <2> HIDE DEF Marks, Exporting
    <2>2. NoCTeMarks \in [ExportKinds -> [CTeIds -> Marks]]
      BY CTeNoneTypes DEF Marks
    <2>3. cteMarks' \in [CTeCompanies -> [ExportKinds -> [CTeIds -> Marks]]]
      BY <1>a, <2>1, <2>2
    <2>4. cteShipped' \in [CTeCompanies -> [ExportKinds -> [CTeIds -> CTeFile]]]
      BY <1>a, <2>1, CTeNoneTypes
    <2> QED BY <1>a, <2>1, <2>3, <2>4 DEF CTeExportType, Marks, Exporting
  <1>4. ASSUME NEW c \in CTeCompanies, NEW k \in ExportKinds, NEW alone \in BOOLEAN, SelectCTe(c, k, alone)
        PROVE  CTeExportType'
    <2>1. cte.id # 0
      BY <1>4 DEF SelectCTe, CTeSeen
    <2>2. /\ cteExporting' = [cteExporting EXCEPT ![c] = CTeSelected(k, alone)]
          /\ UNCHANGED <<cteMarks, cteShipped, cteResets>>
          /\ cteExports' = cteExports + 1 /\ cteExports < MaxCTeExports
      BY <1>4 DEF SelectCTe
    <2>3. CTeSelected(k, alone) \in Exporting
      BY <2>1, CTeSelectedType
    <2> HIDE DEF Exporting
    <2>4. cteExporting' \in [CTeCompanies -> Exporting]
      BY <1>a, <2>2, <2>3
    <2> QED BY <1>0, <1>a, <2>2, <2>4 DEF CTeExportType, Exporting
  <1>5. ASSUME NEW c \in CTeCompanies, ReadCTeEvents(c)
        PROVE  CTeExportType'
    <2>1. PICK y \in CTeExportRow : cteExporting' = [cteExporting EXCEPT ![c] = y]
      BY <1>5, CTeReadType
    <2>2. UNCHANGED <<cteMarks, cteShipped, cteExports, cteResets>>
      BY <1>5 DEF ReadCTeEvents, cteBounds
    <2> QED BY <1>a, <2>1, <2>2 DEF CTeExportType
  <1>6. ASSUME NEW c \in CTeCompanies, MarkCTeExported(c)
        PROVE  CTeExportType'
    <2>1. PICK x : x = cteExporting[c]
      OBVIOUS
    <2>2. x \in CTeExportRow
      BY <1>6, <1>a, <2>1 DEF MarkCTeExported, NoCTeExport
    <2>3. x.kind \in ExportKinds /\ x.id \in CTeIds /\ x.mark \in CTeMark /\ x.file \in CTeFile
      BY <2>2 DEF CTeExportRow
    <2>4. /\ cteMarks' = [cteMarks EXCEPT ![c][x.kind][x.id] = x.mark]
          /\ cteShipped' = [cteShipped EXCEPT ![c][x.kind][x.id] = x.file]
          /\ cteExporting' = [cteExporting EXCEPT ![c] = NoCTeExport]
          /\ cteExports' = cteExports /\ cteResets' = cteResets
      BY <1>6, <2>1 DEF MarkCTeExported, CTeMarkOf, cteBounds
    <2>5. x.mark \in Marks
      BY <2>3
    <2> HIDE DEF Marks, Exporting
    <2>6. cteMarks' \in [CTeCompanies -> [ExportKinds -> [CTeIds -> Marks]]]
      BY <1>a, <2>3, <2>4, <2>5
    <2>7. cteShipped' \in [CTeCompanies -> [ExportKinds -> [CTeIds -> CTeFile]]]
      BY <1>a, <2>3, <2>4
    <2>8. cteExporting' \in [CTeCompanies -> Exporting]
      BY <1>a, <2>4
    <2> QED BY <1>a, <2>4, <2>6, <2>7, <2>8 DEF CTeExportType, Marks, Exporting
  <1>7. CASE UNCHANGED cteVars
    BY <1>0, <1>7 DEF cteVars, cteCalls, cteBounds, CTeExportType
  <1> QED BY <1>1, <1>2, <1>3, <1>4, <1>5, <1>6, <1>7 DEF CTeNext, BulkExportCTe, ExportCTeAlone

CTeConsistent == CTeTypeOK /\ CTeSeen /\ CTeApplied

LEMMA CTeConsistentStep == CTeConsistent /\ [CTeNext]_cteVars => CTeConsistent'
  <1> SUFFICES ASSUME CTeConsistent, [CTeNext]_cteVars PROVE CTeConsistent'
    OBVIOUS
  <1>1. CTeTableType' /\ CTeSeen' /\ CTeApplied'
    BY CTeTableStep DEF CTeConsistent
  <1>2. CTeWalkType' /\ CTeExportType'
    BY CTeWalkTypeStep, CTeExportTypeStep DEF CTeConsistent
  <1>3. CTeTypeOK'
    BY <1>1, <1>2 DEF CTeTypeOK, CTeTableType, CTeWalkType, CTeExportType, CTeExportRow
  <1> QED BY <1>1, <1>3 DEF CTeConsistent

LEMMA CTeAlwaysConsistent == CTeSpec => []CTeConsistent
  <1>1. CTeInit => CTeConsistent
    BY CTeInitHolds DEF CTeConsistent
  <1> QED BY <1>1, CTeConsistentStep, PTL DEF CTeSpec

\* Every row, mark, export and import keeps its type, and a mark never counts
\* more events than the CT-e has (store/cte.go, store/dfe.go).
THEOREM CTeTypeCorrect == CTeSpec => []CTeTypeOK
  <1>1. CTeConsistent => CTeTypeOK
    BY DEF CTeConsistent
  <1> QED BY <1>1, CTeAlwaysConsistent, PTL

-----------------------------------------------------------------------------
(* The refinement.                                                         *)

LEMMA CTeSharedStep == CTeConsistent /\ [CTeNext]_cteVars => [SharedCTe!Next]_(SharedCTe!docVars)
  <1> SUFFICES ASSUME CTeConsistent, [CTeNext]_cteVars
               PROVE  SharedCTe!Next \/ UNCHANGED SharedCTe!docVars
    OBVIOUS
  <1> DEFINE whole == cte.id # 0 /\ ~cte.raw.masked
             severity == IF cte.id = 0 THEN 0 ELSE SeverityOfCTe(cte.situacao)
  <1>0. /\ CTeTypeOK /\ CTeSeen /\ cteHolders \subseteq CTeCompanies
        /\ cte.situacao \in CTeSituacoes /\ cte.raw.masked \in BOOLEAN
    BY DEF CTeConsistent, CTeTypeOK, CTeRow, CTeVersion
  <1>1. ASSUME CTeGrows, CTeTableType', cte'.id # 0,
               NEW c \in CTeCompanies, cteHolders' = cteHolders \cup {c}
        PROVE  SharedCTe!Next
    <2>1. cte'.situacao \in CTeSituacoes
      BY <1>1 DEF CTeTableType, CTeRow
    <2>2. severity' \in 0 .. 3 /\ severity' >= severity
      <3>1. severity' = SeverityOfCTe(cte'.situacao)
        BY <1>1
      <3> QED BY <1>0, <1>1, <2>1, <3>1, CTeSeverityFacts DEF CTeGrows
    <2>3. whole' \in BOOLEAN /\ (whole => whole')
      BY <1>1 DEF CTeGrows
    <2>4. SharedCTe!Learn(c)
      BY <1>1, <2>2, <2>3, Zenon DEF SharedCTe!Learn
    <2> QED BY <2>4 DEF SharedCTe!Next
  <1>2. ASSUME NEW c \in CTeCompanies, NEW v \in CTeVersion, ApplyCTeDocument(c, v)
        PROVE  SharedCTe!Next
    <2>1. CTeGrows /\ CTeTableType' /\ cte'.id # 0 /\ cteHolders' = cteHolders \cup {c}
      BY <1>0, <1>2, CTeDocumentStored
    <2> QED BY <1>1, <2>1
  <1>3. ASSUME NEW x \in CTeEventItem, ApplyCTeEvent(x)
        PROVE  SharedCTe!Next \/ UNCHANGED SharedCTe!docVars
    <2>1. /\ CTeGrows /\ CTeTableType' /\ cteHolders' = cteHolders /\ cte'.id = cte.id
          /\ cte.id = 0 => cte' = cte
      BY <1>0, <1>3, CTeEventStored
    <2>2. CASE cte.id = 0
      BY <2>1, <2>2 DEF SharedCTe!docVars
    <2>3. CASE cte.id # 0
      <3>1. PICK c \in cteHolders : TRUE
        BY <1>0, <2>3 DEF CTeSeen
      <3>2. cteHolders' = cteHolders \cup {c} /\ c \in CTeCompanies
        BY <1>0, <2>1, <3>1
      <3> QED BY <1>1, <2>1, <2>3, <3>2
    <2> QED BY <2>2, <2>3
  <1>4. ASSUME NEW c \in CTeCompanies, ResetCTe(c)
        PROVE  SharedCTe!Next \/ UNCHANGED SharedCTe!docVars
    <2>1. /\ cteHolders' = cteHolders \ {c}
          /\ ExclusiveCTe(c) => cte' = NoCTe
          /\ ~ExclusiveCTe(c) => cte' = cte
      BY <1>0, <1>4, CTeResetFacts
    <2>2. CASE ExclusiveCTe(c)
      <3>1. c \in cteHolders /\ cteHolders' = {} /\ cte'.id = 0
        BY <2>1, <2>2 DEF ExclusiveCTe, NoCTe
      <3>2. SharedCTe!Leave(c)
        BY <2>1, <3>1 DEF SharedCTe!Leave
      <3> QED BY <3>2 DEF SharedCTe!Next
    <2>3. CASE c \in cteHolders /\ ~ExclusiveCTe(c)
      <3>1. cteHolders' # {} /\ cte' = cte
        BY <2>1, <2>3 DEF ExclusiveCTe
      <3>2. SharedCTe!Leave(c)
        BY <2>1, <2>3, <3>1 DEF SharedCTe!Leave
      <3> QED BY <3>2 DEF SharedCTe!Next
    <2>4. CASE c \notin cteHolders
      <3>1. cteHolders' = cteHolders /\ cte' = cte
        BY <2>1, <2>4 DEF ExclusiveCTe
      <3> QED BY <3>1 DEF SharedCTe!docVars
    <2> QED BY <2>2, <2>3, <2>4
  <1>5. CASE UNCHANGED cteTables
    BY <1>5 DEF cteTables, SharedCTe!docVars
  <1> QED BY <1>0, <1>2, <1>3, <1>4, <1>5, CTeTableSteps

\* CTeDocs implements SharedDocument: an autXML party never costs the others
\* their unmasked copy, and the situation never gets milder, while one of them
\* sees the CT-e (cte/merge.go:5, store/dfe.go:186).
THEOREM CTeImplementsShared == CTeSpec => CTeSharedSpec
  <1>1. CTeInit => SharedCTe!Init
    BY DEF CTeInit, NoCTe, SharedCTe!Init
  <1> QED BY <1>1, CTeSharedStep, CTeAlwaysConsistent, PTL DEF CTeSpec, CTeSharedSpec, SharedCTe!Spec

-----------------------------------------------------------------------------
(* The export marks.  A document that is stored anew gets an id that no    *)
(* mark and no export knows (CTeUsed); while it keeps its id its events    *)
(* only grow, so a mark that counts as many as there are counts these.     *)

CTeUsed(i) == i <= cteResets + 1 /\ (cte.id = 0 => i <= cteResets)

\* What the selection read: the mark m counts the rows of the file f.
CTeSound(m, f) ==
    /\ f.raw = m.raw
    /\ m.events = Cardinality(StoredCTe(f.rows))
    /\ \A e \in Cancelamentos : f.rows[e] = "registered" => f.cancelada

\* A file of kind k against the events S that are stored.
CTeFits(k, m, f, S) ==
    /\ StoredCTe(f.rows) \subseteq S
    /\ k = "xml" /\ ~f.alone /\ m.events = Cardinality(S) => S \subseteq StoredCTe(f.events)

CTeMarksFit ==
    \A c \in CTeCompanies, k \in ExportKinds, i \in CTeIds : cteMarks[c][k][i] # NoCTeMark =>
        /\ CTeUsed(i)
        /\ CTeSound(cteMarks[c][k][i], cteShipped[c][k][i])
        /\ i = cte.id => CTeFits(k, cteMarks[c][k][i], cteShipped[c][k][i], StoredCTe(cteRows))

\* An export on its way, whose events are to be read or are read.
CTeOnItsWay(x) ==
    /\ CTeUsed(x.id)
    /\ CTeSound(x.mark, x.file)
    /\ x.id = cte.id =>
          /\ StoredCTe(x.file.rows) \subseteq StoredCTe(cteRows)
          /\ x.stage = "read" => CTeFits(x.kind, x.mark, x.file, StoredCTe(cteRows))

CTeExportsFit ==
    \A c \in CTeCompanies : cteExporting[c] # NoCTeExport => CTeOnItsWay(cteExporting[c])

CTeExported == cte.id <= cteResets + 1 /\ CTeMarksFit /\ CTeExportsFit

LEMMA CTeFitsGrow ==
    ASSUME NEW k, NEW m, NEW f, NEW S, NEW T, IsFiniteSet(T), S \subseteq T,
           CTeSound(m, f), CTeFits(k, m, f, S)
    PROVE  CTeFits(k, m, f, T)
  <1>1. /\ IsFiniteSet(S) /\ Cardinality(S) <= Cardinality(T)
        /\ Cardinality(S) = Cardinality(T) => S = T
    BY FS_Subset
  <1>2. Cardinality(StoredCTe(f.rows)) <= Cardinality(S)
    BY <1>1, FS_Subset DEF CTeFits
  <1>3. /\ Cardinality(S) \in Nat /\ Cardinality(T) \in Nat
        /\ Cardinality(StoredCTe(f.rows)) \in Nat
    BY <1>1, CTeStoredFacts, FS_CardinalityType
  <1>4. m.events = Cardinality(T) => S = T
    BY <1>1, <1>2, <1>3 DEF CTeSound
  <1> QED BY <1>4 DEF CTeFits

\* What a step does to an id in use: it stays in use, and is that of the
\* document only if it was before.
LEMMA CTeIdSteps ==
    ASSUME CTeConsistent, [CTeNext]_cteVars, cte.id <= cteResets + 1
    PROVE  /\ cte'.id <= cteResets' + 1
           /\ \A i \in CTeIds : CTeUsed(i) =>
                /\ CTeUsed(i)'
                /\ i = cte'.id => i = cte.id /\ StoredCTe(cteRows) \subseteq StoredCTe(cteRows')
  <1>0. /\ CTeTypeOK /\ cteResets \in Nat /\ cte.id \in Nat
        /\ \A i \in CTeIds : i \in Nat /\ i # 0
    BY CTeAssumption DEF CTeConsistent, CTeTypeOK, CTeRow, CTeIds
  <1>1. ASSUME NEW c \in CTeCompanies, NEW v \in CTeVersion, ApplyCTeDocument(c, v), UNCHANGED cteResets
        PROVE  /\ cte'.id # 0 /\ cte'.id = (IF cte.id = 0 THEN cteResets + 1 ELSE cte.id)
               /\ cteResets' = cteResets /\ cteRows' = cteRows
    BY <1>0, <1>1, CTeDocumentStored
  <1>2. ASSUME NEW x \in CTeEventItem, ApplyCTeEvent(x), UNCHANGED cteResets
        PROVE  /\ cte'.id = cte.id /\ cteResets' = cteResets
               /\ StoredCTe(cteRows) \subseteq StoredCTe(cteRows')
    BY <1>0, <1>2, CTeEventStored DEF CTeGrows
  <1>3. ASSUME NEW c \in CTeCompanies, ResetCTe(c)
        PROVE  /\ cteResets' = cteResets + 1
               /\ \/ cte'.id = 0
                  \/ cte' = cte /\ cteRows' = cteRows /\ cte.id # 0
    BY <1>0, <1>3, CTeResetFacts DEF NoCTe
  <1>4. ASSUME UNCHANGED cteTables, UNCHANGED cteResets
        PROVE  cte' = cte /\ cteResets' = cteResets /\ cteRows' = cteRows
    BY <1>4 DEF cteTables
  <1>5. \/ /\ cte'.id # 0 /\ cte'.id = (IF cte.id = 0 THEN cteResets + 1 ELSE cte.id)
           /\ cteResets' = cteResets /\ cteRows' = cteRows
        \/ /\ cte'.id = cte.id /\ cteResets' = cteResets
           /\ StoredCTe(cteRows) \subseteq StoredCTe(cteRows')
        \/ /\ cteResets' = cteResets + 1
           /\ \/ cte'.id = 0
              \/ cte' = cte /\ cteRows' = cteRows /\ cte.id # 0
    BY <1>0, <1>1, <1>2, <1>3, <1>4, CTeTableSteps
  <1> QED BY <1>0, <1>5 DEF CTeUsed

LEMMA CTeExportedInit == CTeInit => CTeExported
  <1> SUFFICES ASSUME CTeInit PROVE CTeExported
    OBVIOUS
  <1>1. cte.id = 0 /\ cteResets = 0
    BY DEF CTeInit, NoCTe
  <1>2. CTeMarksFit
    BY DEF CTeInit, CTeMarksFit, NoCTeMarks
  <1>3. CTeExportsFit
    BY DEF CTeInit, CTeExportsFit
  <1> QED BY <1>1, <1>2, <1>3 DEF CTeExported

LEMMA CTeMarksFitStep == CTeConsistent /\ CTeExported /\ [CTeNext]_cteVars => CTeMarksFit'
  <1> SUFFICES ASSUME CTeConsistent, CTeExported, [CTeNext]_cteVars,
                      NEW c \in CTeCompanies, NEW k \in ExportKinds, NEW i \in CTeIds,
                      cteMarks'[c][k][i] # NoCTeMark
               PROVE  /\ CTeUsed(i)'
                      /\ CTeSound(cteMarks'[c][k][i], cteShipped'[c][k][i])
                      /\ i = cte'.id => CTeFits(k, cteMarks'[c][k][i], cteShipped'[c][k][i], StoredCTe(cteRows'))
    BY DEF CTeMarksFit
  <1>0. /\ CTeTypeOK /\ CTeExportType /\ cte.id <= cteResets + 1
        /\ cteMarks \in [CTeCompanies -> [ExportKinds -> [CTeIds -> {NoCTeMark} \cup CTeMark]]]
        /\ cteShipped \in [CTeCompanies -> [ExportKinds -> [CTeIds -> CTeFile]]]
    BY CTeTypeParts DEF CTeConsistent, CTeExported, CTeExportType
  <1>1. CASE cteMarks'[c][k][i] = cteMarks[c][k][i] /\ cteShipped'[c][k][i] = cteShipped[c][k][i]
    <2>1. /\ CTeUsed(i)
          /\ CTeSound(cteMarks[c][k][i], cteShipped[c][k][i])
          /\ i = cte.id => CTeFits(k, cteMarks[c][k][i], cteShipped[c][k][i], StoredCTe(cteRows))
      BY <1>1 DEF CTeExported, CTeMarksFit
    <2>2. /\ CTeUsed(i)'
          /\ i = cte'.id => i = cte.id /\ StoredCTe(cteRows) \subseteq StoredCTe(cteRows')
      BY <1>0, <2>1, CTeIdSteps
    <2> QED BY <1>1, <2>1, <2>2, CTeFitsGrow, CTeStoredFacts
  <1> DEFINE x == cteExporting[c]
  <1>2. CASE MarkCTeExported(c) /\ k = x.kind /\ i = x.id
    <2>1. CTeOnItsWay(x) /\ x.stage = "read"
      BY <1>2 DEF MarkCTeExported, CTeExported, CTeExportsFit, NoCTeExport
    <2>2. cteMarks'[c][k][i] = x.mark /\ cteShipped'[c][k][i] = x.file
      BY <1>0, <1>2 DEF MarkCTeExported, CTeMarkOf
    <2>3. cte' = cte /\ cteRows' = cteRows /\ cteResets' = cteResets
      BY <1>2 DEF MarkCTeExported, cteTables, cteBounds
    <2> QED BY <1>2, <2>1, <2>2, <2>3 DEF CTeOnItsWay, CTeUsed
  <1>3. \/ cteMarks'[c][k][i] = cteMarks[c][k][i] /\ cteShipped'[c][k][i] = cteShipped[c][k][i]
        \/ MarkCTeExported(c) /\ k = x.kind /\ i = x.id
    <2>1. ASSUME NEW b \in CTeCompanies, MarkCTeExported(b),
                 ~(b = c /\ k = cteExporting[b].kind /\ i = cteExporting[b].id)
          PROVE  cteMarks'[c][k][i] = cteMarks[c][k][i] /\ cteShipped'[c][k][i] = cteShipped[c][k][i]
      <3>1. PICK y : y = cteExporting[b]
        OBVIOUS
      <3>2. /\ cteMarks' = [cteMarks EXCEPT ![b][y.kind][y.id] = y.mark]
            /\ cteShipped' = [cteShipped EXCEPT ![b][y.kind][y.id] = y.file]
            /\ ~(b = c /\ k = y.kind /\ i = y.id)
        BY <2>1, <3>1 DEF MarkCTeExported, CTeMarkOf
      <3> QED BY <1>0, <3>2
    <2>2. ASSUME NEW b \in CTeCompanies, ResetCTe(b)
          PROVE  cteMarks'[c][k][i] = cteMarks[c][k][i] /\ cteShipped'[c][k][i] = cteShipped[c][k][i]
      <3>1. /\ cteMarks' = [cteMarks EXCEPT ![b] = NoCTeMarks]
            /\ cteShipped' = [cteShipped EXCEPT ![b] = NoCTeFiles]
        BY <2>2 DEF ResetCTe
      <3>2. NoCTeMarks[k][i] = NoCTeMark
        BY DEF NoCTeMarks
      <3>3. b # c
        BY <1>0, <3>1, <3>2
      <3> QED BY <1>0, <3>1, <3>3
    <2>3. ASSUME NEW b \in CTeCompanies,
                 \/ PullCTe(b) \/ CheckCTeEvent(b) \/ KeepCTeEvent(b) \/ DropCTeEvent(b)
                 \/ StoreCTeImport(b) \/ AbandonCTe(b) \/ ReadCTeEvents(b)
                 \/ \E y \in CTeImportable[b] : ImportCTe(b, y) \/ ImportCTeEvent(b, y)
                 \/ \E kind \in ExportKinds, alone \in BOOLEAN : SelectCTe(b, kind, alone)
          PROVE  cteMarks' = cteMarks /\ cteShipped' = cteShipped
      BY <2>3 DEF PullCTe, CheckCTeEvent, KeepCTeEvent, DropCTeEvent, StoreCTeImport, AbandonCTe,
                  ReadCTeEvents, ImportCTe, ImportCTeEvent, SelectCTe
    <2>4. CASE UNCHANGED cteVars
      BY <2>4 DEF cteVars
    <2> HIDE DEF x
    <2> QED BY <2>1, <2>2, <2>3, <2>4 DEF CTeNext, BulkExportCTe, ExportCTeAlone, x
  <1> QED BY <1>1, <1>2, <1>3

LEMMA CTeSelectedFits ==
    ASSUME CTeConsistent, CTeExported, NEW c \in CTeCompanies, NEW k \in ExportKinds,
           NEW alone \in BOOLEAN, SelectCTe(c, k, alone)
    PROVE  CTeOnItsWay(CTeSelected(k, alone))
  <1> DEFINE x == CTeSelected(k, alone)
  <1>1. /\ x.id = cte.id /\ x.mark = CTeMarkNow /\ x.kind = k
        /\ x.stage = IF k = "xml" /\ ~alone THEN "selected" ELSE "read"
        /\ x.file.raw = cte.raw /\ x.file.rows = cteRows /\ x.file.alone = alone
        /\ x.file.cancelada = (cte.situacao = "cancelada")
    BY DEF CTeSelected
  <1>2. CTeMarkNow.raw = cte.raw /\ CTeMarkNow.events = Cardinality(StoredCTe(cteRows))
    BY DEF CTeMarkNow
  <1>3. cte.id # 0 /\ cte.id <= cteResets + 1
    BY DEF SelectCTe, CTeConsistent, CTeSeen, CTeExported
  <1>4. \A e \in Cancelamentos : cteRows[e] = "registered" => cte.situacao = "cancelada"
    BY <1>3 DEF CTeConsistent, CTeApplied
  <1> HIDE DEF x
  <1>5. CTeUsed(x.id)
    BY <1>1, <1>3 DEF CTeUsed
  <1>6. CTeSound(x.mark, x.file)
    BY <1>1, <1>2, <1>4 DEF CTeSound
  <1>7. x.stage = "read" => CTeFits(x.kind, x.mark, x.file, StoredCTe(cteRows))
    BY <1>1 DEF CTeFits
  <1> QED BY <1>1, <1>5, <1>6, <1>7 DEF CTeOnItsWay, x

LEMMA CTeReadFits ==
    ASSUME CTeConsistent, CTeExported, NEW c \in CTeCompanies, ReadCTeEvents(c)
    PROVE  CTeOnItsWay(cteExporting'[c])
  <1> DEFINE S == StoredCTe(cteRows)
  <1>1. PICK x : x = cteExporting[c]
    OBVIOUS
  <1>2. /\ x \in CTeExportRow /\ cteExporting \in [CTeCompanies -> {NoCTeExport} \cup CTeExportRow]
        /\ CTeOnItsWay(x)
    BY <1>1, CTeTypeParts DEF CTeConsistent, CTeExportType, ReadCTeEvents, NoCTeExport,
         CTeExported, CTeExportsFit
  <1>3. PICK y : y = cteExporting'[c]
    OBVIOUS
  <1>4. y = [stage |-> "read", kind |-> x.kind, id |-> x.id, mark |-> x.mark,
             file |-> [raw |-> x.file.raw, events |-> CTeEventsRead(c),
                       cancelada |-> x.file.cancelada, alone |-> x.file.alone,
                       rows |-> x.file.rows]]
    BY <1>1, <1>2, <1>3 DEF ReadCTeEvents
  <1>5. /\ y.id = x.id /\ y.mark = x.mark /\ y.kind = x.kind
        /\ y.file.raw = x.file.raw /\ y.file.events = CTeEventsRead(c)
        /\ y.file.cancelada = x.file.cancelada /\ y.file.rows = x.file.rows
    BY <1>4
  <1>6. x.mark.events = Cardinality(S) => S \subseteq StoredCTe(CTeEventsRead(c))
    <2>1. IsFiniteSet(S) /\ Cardinality(S) \in Nat
      BY CTeStoredFacts
    <2>2. CASE Cardinality(S) = 0
      BY <2>1, <2>2, FS_EmptySet
    <2>3. CASE Cardinality(S) # 0
      BY <1>1, <2>1, <2>3 DEF CTeEventsRead
    <2> QED BY <2>2, <2>3
  <1>7. CTeUsed(y.id) /\ CTeSound(y.mark, y.file)
    BY <1>2, <1>5 DEF CTeOnItsWay, CTeSound
  <1>8. y.id = cte.id => CTeFits(y.kind, y.mark, y.file, S) /\ StoredCTe(y.file.rows) \subseteq S
    BY <1>2, <1>5, <1>6 DEF CTeOnItsWay, CTeFits
  <1> QED BY <1>3, <1>7, <1>8 DEF CTeOnItsWay

LEMMA CTeExportsFitStep == CTeConsistent /\ CTeExported /\ [CTeNext]_cteVars => CTeExportsFit'
  <1> SUFFICES ASSUME CTeConsistent, CTeExported, [CTeNext]_cteVars, NEW c \in CTeCompanies,
                      cteExporting'[c] # NoCTeExport
               PROVE  CTeOnItsWay(cteExporting[c])'
    BY DEF CTeExportsFit
  <1>0. /\ CTeTypeOK /\ cte.id <= cteResets + 1
        /\ cteExporting \in [CTeCompanies -> {NoCTeExport} \cup CTeExportRow]
    BY CTeTypeParts DEF CTeConsistent, CTeExported, CTeExportType
  <1>1. CASE cteExporting'[c] = cteExporting[c]
    <2>1. PICK x : x = cteExporting[c]
      OBVIOUS
    <2>2. CTeOnItsWay(x) /\ x.id \in CTeIds
      BY <1>0, <1>1, <2>1 DEF CTeExported, CTeExportsFit, CTeExportRow
    <2>3. /\ CTeUsed(x.id)'
          /\ x.id = cte'.id => x.id = cte.id /\ StoredCTe(cteRows) \subseteq StoredCTe(cteRows')
      BY <1>0, <2>2, CTeIdSteps DEF CTeOnItsWay, CTeUsed
    <2>4. IsFiniteSet(StoredCTe(cteRows'))
      BY CTeStoredFacts
    <2>5. x.id = cte'.id =>
            /\ StoredCTe(x.file.rows) \subseteq StoredCTe(cteRows')
            /\ x.stage = "read" => CTeFits(x.kind, x.mark, x.file, StoredCTe(cteRows'))
      BY <2>2, <2>3, <2>4, CTeFitsGrow DEF CTeOnItsWay
    <2> QED BY <1>1, <2>1, <2>2, <2>3, <2>5 DEF CTeOnItsWay, CTeUsed
  <1>2. ASSUME NEW x, CTeOnItsWay(x), cteExporting'[c] = x,
               UNCHANGED <<cte, cteRows, cteResets>>
        PROVE  CTeOnItsWay(cteExporting[c])'
    BY <1>2 DEF CTeOnItsWay, CTeUsed
  <1>3. ASSUME NEW k \in ExportKinds, NEW alone \in BOOLEAN, SelectCTe(c, k, alone)
        PROVE  CTeOnItsWay(cteExporting[c])'
    <2>1. cteExporting'[c] = CTeSelected(k, alone) /\ UNCHANGED <<cte, cteRows, cteResets>>
      BY <1>0, <1>3 DEF SelectCTe, cteTables
    <2> QED BY <1>2, <1>3, <2>1, CTeSelectedFits
  <1>4. CASE ReadCTeEvents(c)
    <2>1. UNCHANGED <<cte, cteRows, cteResets>>
      BY <1>4 DEF ReadCTeEvents, cteTables, cteBounds
    <2>2. PICK y : y = cteExporting'[c]
      OBVIOUS
    <2>3. CTeOnItsWay(y)
      BY <1>4, <2>2, CTeReadFits
    <2> QED BY <1>2, <2>1, <2>2, <2>3
  <1>5. \/ cteExporting'[c] = cteExporting[c]
        \/ \E k \in ExportKinds, alone \in BOOLEAN : SelectCTe(c, k, alone)
        \/ ReadCTeEvents(c)
    <2>1. ASSUME NEW b \in CTeCompanies,
                 \/ \E k \in ExportKinds, alone \in BOOLEAN : SelectCTe(b, k, alone)
                 \/ ReadCTeEvents(b)
          PROVE  b = c \/ cteExporting'[c] = cteExporting[c]
      BY <1>0, <2>1 DEF SelectCTe, ReadCTeEvents
    <2>2. ASSUME NEW b \in CTeCompanies, MarkCTeExported(b) \/ AbandonCTe(b)
          PROVE  cteExporting'[c] = cteExporting[c]
      BY <1>0, <2>2 DEF MarkCTeExported, AbandonCTe
    <2>3. ASSUME NEW b \in CTeCompanies,
                 \/ PullCTe(b) \/ CheckCTeEvent(b) \/ KeepCTeEvent(b) \/ DropCTeEvent(b)
                 \/ StoreCTeImport(b) \/ ResetCTe(b)
                 \/ \E y \in CTeImportable[b] : ImportCTe(b, y) \/ ImportCTeEvent(b, y)
          PROVE  cteExporting' = cteExporting
      BY <2>3 DEF PullCTe, CheckCTeEvent, KeepCTeEvent, DropCTeEvent, StoreCTeImport, ResetCTe,
                  ImportCTe, ImportCTeEvent, cteCalls
    <2>4. CASE UNCHANGED cteVars
      BY <2>4 DEF cteVars, cteCalls
    <2> QED BY <2>1, <2>2, <2>3, <2>4 DEF CTeNext, BulkExportCTe, ExportCTeAlone
  <1> QED BY <1>1, <1>3, <1>4, <1>5

LEMMA CTeExportedStep == CTeConsistent /\ CTeExported /\ [CTeNext]_cteVars => CTeExported'
    BY CTeMarksFitStep, CTeExportsFitStep, CTeIdSteps DEF CTeExported

LEMMA CTeExportedMeansComplete == CTeConsistent /\ CTeExported => CTeExportComplete
  <1> SUFFICES ASSUME CTeConsistent, CTeExported, NEW c \in cteHolders, NEW k \in ExportKinds,
                      ~CTePending(c, k)
               PROVE  LET file == cteShipped[c][k][cte.id]
                      IN  /\ file.raw = cte.raw
                          /\ k = "xml" /\ ~file.alone => StoredCTe(cteRows) \subseteq StoredCTe(file.events)
                          /\ k = "dacte" =>
                               \A e \in Cancelamentos :
                                  cteRows[e] = "registered" /\ file.rows[e] # "rejected" => file.cancelada
    BY DEF CTeExportComplete
  <1>1. /\ CTeTypeOK /\ c \in CTeCompanies /\ cte.id \in CTeIds
        /\ CTeExportType
    BY CTeTypeParts DEF CTeConsistent, CTeTypeOK, CTeSeen, CTeRow
  <1>2. PICK f : f = cteShipped[c][k][cte.id]
    OBVIOUS
  <1>3. PICK m : m = CTeMarkNow
    OBVIOUS
  <1>4. m.raw = cte.raw /\ m.events = Cardinality(StoredCTe(cteRows))
    BY <1>3 DEF CTeMarkNow
  <1>5. m = cteMarks[c][k][cte.id] /\ m # NoCTeMark
    <2>1. m.events \in Nat
      BY <1>4, CTeStoredFacts
    <2>2. NoCTeMark.events = -1
      BY DEF NoCTeMark
    <2> QED BY <1>3, <2>1, <2>2 DEF CTePending
  <1>6. CTeSound(m, f) /\ CTeFits(k, m, f, StoredCTe(cteRows))
    BY <1>1, <1>2, <1>5 DEF CTeExported, CTeMarksFit
  <1>7. StoredCTe(f.rows) = StoredCTe(cteRows)
    <2>1. IsFiniteSet(StoredCTe(cteRows))
      BY CTeStoredFacts
    <2> QED BY <1>4, <1>6, <2>1, FS_Subset DEF CTeSound, CTeFits
  <1>8. f \in CTeFile
    BY <1>1, <1>2 DEF CTeExportType
  <1>9. ASSUME NEW e \in Cancelamentos, cteRows[e] = "registered", f.rows[e] # "rejected"
        PROVE  f.cancelada
    <2>1. e \in CTeEvents /\ e \in StoredCTe(f.rows)
      BY <1>7, <1>9, CTeAssumption DEF StoredCTe
    <2>2. f.rows[e] = "registered"
      BY <1>8, <1>9, <2>1 DEF CTeFile, CTeCopies, StoredCTe
    <2> QED BY <1>6, <2>2 DEF CTeSound
  <1> QED BY <1>2, <1>4, <1>6, <1>9 DEF CTeSound, CTeFits

\* What an incremental export of a CT-e leaves out has its version in the last
\* file and a copy there of each stored event, registered or rejected, that of
\* when the file was written; a DACTE written while no rejected copy held the
\* row of a cancelamento has the watermark (store/dfe.go:82, store/cte.go:203).
THEOREM CTeExportsMissNothing == CTeSpec => []CTeExportComplete
  <1>1. CTeInit => CTeConsistent /\ CTeExported
    BY CTeInitHolds, CTeExportedInit DEF CTeConsistent
  <1>2. CTeConsistent /\ CTeExported /\ [CTeNext]_cteVars => (CTeConsistent /\ CTeExported)'
    BY CTeConsistentStep, CTeExportedStep
  <1>3. CTeConsistent /\ CTeExported => CTeExportComplete
    BY CTeExportedMeansComplete
  <1> QED BY <1>1, <1>2, <1>3, PTL DEF CTeSpec

-----------------------------------------------------------------------------
(* The exports.                                                            *)

Storing == [stage : {"open", "stored"}, xml : Xmls]
Exporting == [stage : {"selected", "generated", "moved"}, company : NFSeParties,
              kind : NFSeKinds, xml : Xmls, whole : BOOLEAN]

PullType ==
    /\ blobs \in [Xmls -> BlobStates]
    /\ rawHash \in Xmls \cup {NoXml}
    /\ parties \subseteq NFSeParties
    /\ walked \in [NFSeParties -> Nat]
    /\ \A c \in NFSeParties : walked[c] <= Len(Handed[c])
    /\ storing \in [NFSeParties -> {NoStore} \cup Storing]
    /\ torn \subseteq Xmls
    /\ tears \in 0 .. MaxTears

ExportType ==
    /\ nfseMarks \in [NFSeParties -> [NFSeKinds -> Xmls \cup {NoXml}]]
    /\ nfseExporting \in [Exporters -> {NoNFSeExport} \cup Exporting]
    /\ nfseFiles \in [NFSeParties -> [NFSeKinds -> SUBSET NFSeFile]]
    /\ nfseExports \in 0 .. MaxNFSeExports

\* A storing pull has an item left to walk.
StoringHasItem == \A c \in NFSeParties : storing[c] # NoStore => walked[c] < Len(Handed[c])

PartiesHaveRow == parties # {} => rawHash # NoXml

PartialExplained == \A x \in Xmls : blobs[x] = "partial" => BeingStored(x) \/ x \in torn

\* x was exported to the company, whole unless it was torn.
Exported(c, k, x) == \E f \in nfseFiles[c][k] : f.xml = x /\ (f.whole \/ x \in torn)

ReadTruly ==
    \A p \in Exporters : nfseExporting[p] # NoNFSeExport /\ nfseExporting[p].stage # "moved" =>
        nfseExporting[p].whole \/ nfseExporting[p].xml \in torn

MovedIsThere ==
    \A p \in Exporters : nfseExporting[p] # NoNFSeExport /\ nfseExporting[p].stage = "moved" =>
        Exported(nfseExporting[p].company, nfseExporting[p].kind, nfseExporting[p].xml)

MarkedIsThere ==
    \A c \in NFSeParties, k \in NFSeKinds :
        nfseMarks[c][k] # NoXml => Exported(c, k, nfseMarks[c][k])

PullInv == PullType /\ StoringHasItem /\ PartiesHaveRow /\ PartialExplained
ExportInv == ExportType /\ ReadTruly /\ MovedIsThere /\ MarkedIsThere
NFSeExportInv == PullInv /\ ExportInv

LEMMA TypeFromExportInv == NFSeExportInv => NFSeExportTypeOK
    BY DEF NFSeExportInv, PullInv, ExportInv, PullType, ExportType, NFSeExportTypeOK, Storing, Exporting

LEMMA CompleteFromExportInv == NFSeExportInv => NFSeExportComplete
  <1> SUFFICES ASSUME NFSeExportInv, NEW c \in parties, NEW k \in NFSeKinds, nfseMarks[c][k] = rawHash
               PROVE  \E f \in nfseFiles[c][k] : f.xml = rawHash /\ (f.whole \/ rawHash \in torn)
    BY DEF NFSeExportComplete, PendingNFSe
  <1>1. c \in NFSeParties /\ rawHash # NoXml
    BY DEF NFSeExportInv, PullInv, PullType, PartiesHaveRow
  <1> QED BY <1>1 DEF NFSeExportInv, ExportInv, MarkedIsThere, Exported

-----------------------------------------------------------------------------
(* The pulls.                                                              *)

\* What a pull does to the exports: a torn XML stays torn.
ExportsAlone == UNCHANGED exportTables /\ torn \subseteq torn'

LEMMA AloneKeeps ==
    ASSUME NFSeExportInv, ExportsAlone
    PROVE  ExportInv'
  <1> USE DEF NFSeExportInv, ExportInv, ExportsAlone, exportTables
  <1>1. ExportType'
    BY DEF ExportType
  <1>2. ReadTruly'
    BY DEF ReadTruly
  <1>3. \A c, k, x : Exported(c, k, x) => Exported(c, k, x)'
    BY DEF Exported
  <1>4. MovedIsThere' /\ MarkedIsThere'
    BY <1>3, Zenon DEF MovedIsThere, MarkedIsThere
  <1> QED BY <1>1, <1>2, <1>4

LEMMA HandedXml ==
    ASSUME PullType, NEW c \in NFSeParties, walked[c] < Len(Handed[c])
    PROVE  Handed[c][walked[c] + 1] \in Xmls
  <1>1. Handed[c] \in Seq(Xmls)
    BY NFSeExportAssumption
  <1>2. walked[c] + 1 \in 1 .. Len(Handed[c])
    BY <1>1 DEF PullType
  <1> QED BY <1>1, <1>2

LEMMA StoringFields ==
    ASSUME PullType, NEW c \in NFSeParties, storing[c] # NoStore
    PROVE  /\ storing[c].xml \in Xmls
           /\ storing[c].stage \in {"open", "stored"}
           /\ storing[c] = [stage |-> storing[c].stage, xml |-> storing[c].xml]
    BY DEF PullType, Storing

LEMMA StoringMade ==
    ASSUME NEW stage \in {"open", "stored"}, NEW x \in Xmls
    PROVE  /\ [stage |-> stage, xml |-> x] \in Storing
           /\ [stage |-> stage, xml |-> x] # NoStore
           /\ \A y : [stage |-> stage, xml |-> x] = [stage |-> "open", xml |-> y]
                     <=> stage = "open" /\ x = y
           /\ \A y : NoStore # [stage |-> "open", xml |-> y]
    BY DEF Storing, NoStore

LEMMA OpenFileKeeps ==
    ASSUME NFSeExportInv, NEW c \in NFSeParties, OpenBlob(c)
    PROVE  NFSeExportInv'
  <1> USE DEF NFSeExportInv, PullInv
  <1>0. PICK x \in Xmls : x = Handed[c][walked[c] + 1]
    BY HandedXml DEF OpenBlob
  <1> DEFINE s == [stage |-> "open", xml |-> x]
  <1>1. storing[c] = NoStore /\ walked[c] < Len(Handed[c])
    BY DEF OpenBlob
  <1>2. s \in Storing /\ s # NoStore
    BY <1>1, StoringMade
  <1>3. /\ storing' = [storing EXCEPT ![c] = s]
        /\ blobs' = [blobs EXCEPT ![x] = "partial"]
        /\ UNCHANGED <<rawHash, parties, walked, torn, tears, exportTables>>
    BY <1>0 DEF OpenBlob
  <1>4. ExportInv'
    BY <1>3, AloneKeeps DEF ExportsAlone
  <1>5. s = [stage |-> "open", xml |-> x]
    OBVIOUS
  <1> HIDE DEF s
  <1>6. PullType'
    BY <1>1, <1>2, <1>3 DEF PullType, BlobStates
  <1>7. StoringHasItem' /\ PartiesHaveRow'
    BY <1>1, <1>3 DEF StoringHasItem, PartiesHaveRow, PullType
  <1>8. PartialExplained'
    <2>1. storing'[c] = s
      BY <1>3 DEF PullType
    <2>2. \A d \in NFSeParties : storing[d] # NoStore => storing'[d] = storing[d]
      BY <1>1, <1>3 DEF PullType
    <2>3. \A y \in Xmls : y # x => blobs'[y] = blobs[y]
      BY <1>3 DEF PullType
    <2>4. \A y : BeingStored(y) => BeingStored(y)'
      <3>1. \A y : NoStore # [stage |-> "open", xml |-> y]
        BY DEF NoStore
      <3> QED BY <2>2, <3>1 DEF BeingStored
    <2>5. BeingStored(x)'
      BY <1>5, <2>1 DEF BeingStored
    <2>6. torn' = torn
      BY <1>3
    <2> QED BY <2>3, <2>4, <2>5, <2>6, Zenon DEF PartialExplained
  <1> QED BY <1>4, <1>6, <1>7, <1>8

LEMMA WriteKeeps ==
    ASSUME NFSeExportInv, NEW c \in NFSeParties, WriteBlob(c)
    PROVE  NFSeExportInv'
  <1> USE DEF NFSeExportInv, PullInv
  <1>0. storing[c] # NoStore /\ storing[c].stage = "open"
    BY DEF WriteBlob, NoStore
  <1>1. PICK x \in Xmls : x = storing[c].xml
    BY <1>0, StoringFields
  <1> DEFINE s == [stage |-> "stored", xml |-> x]
  <1>2. s \in Storing /\ s # NoStore
    BY <1>1, StoringMade
  <1>3. /\ storing' = [storing EXCEPT ![c] = s]
        /\ blobs' = [blobs EXCEPT ![x] = "whole"]
        /\ UNCHANGED <<rawHash, parties, walked, torn, tears, exportTables>>
    BY <1>1 DEF WriteBlob, PullType
  <1>4. ExportInv'
    BY <1>3, AloneKeeps DEF ExportsAlone
  <1>5. \A y : storing[c] = [stage |-> "open", xml |-> y] => x = y
    BY <1>1
  <1> HIDE DEF s
  <1>6. PullType'
    BY <1>1, <1>2, <1>3 DEF PullType, BlobStates
  <1>7. StoringHasItem' /\ PartiesHaveRow'
    BY <1>0, <1>3 DEF StoringHasItem, PartiesHaveRow, PullType
  <1>8. PartialExplained'
    <2>1. \A d \in NFSeParties : d # c => storing'[d] = storing[d]
      BY <1>3 DEF PullType
    <2>2. \A y \in Xmls : y # x => blobs'[y] = blobs[y]
      BY <1>3 DEF PullType
    <2>3. blobs'[x] # "partial"
      BY <1>1, <1>3 DEF PullType
    <2>4. \A y : y # x /\ BeingStored(y) => BeingStored(y)'
      BY <1>5, <2>1 DEF BeingStored
    <2>5. torn' = torn
      BY <1>3
    <2> QED BY <2>2, <2>3, <2>4, <2>5, Zenon DEF PartialExplained
  <1> QED BY <1>4, <1>6, <1>7, <1>8

LEMMA UpsertKeeps ==
    ASSUME NFSeExportInv, NEW c \in NFSeParties, UpsertNFSe(c)
    PROVE  NFSeExportInv'
  <1> USE DEF NFSeExportInv, PullInv
  <1>0. storing[c].stage = "stored" /\ storing[c] # NoStore
    BY DEF UpsertNFSe, XmlKept, NoStore
  <1>1. storing[c].stage = "stored" /\ storing[c] # NoStore /\ storing[c].xml \in Xmls
    BY <1>0, StoringFields
  <1>2. walked[c] \in Nat /\ walked[c] < Len(Handed[c]) /\ Len(Handed[c]) \in Nat
    BY <1>1, NFSeExportAssumption DEF StoringHasItem, PullType
  <1>3. /\ rawHash' = storing[c].xml
        /\ parties' = parties \cup {c}
        /\ walked' = [walked EXCEPT ![c] = @ + 1]
        /\ storing' = [storing EXCEPT ![c] = NoStore]
        /\ UNCHANGED <<blobs, torn, tears, exportTables>>
    BY DEF UpsertNFSe
  <1>4. ExportInv'
    BY <1>3, AloneKeeps DEF ExportsAlone
  <1>5. PullType'
    BY <1>1, <1>2, <1>3 DEF PullType
  <1>6. StoringHasItem'
    BY <1>1, <1>2, <1>3 DEF StoringHasItem, PullType
  <1>7. PartiesHaveRow'
    BY <1>1, <1>3, NFSeExportAssumption DEF PartiesHaveRow
  <1>8. PartialExplained'
    <2>1. \A d \in NFSeParties : d # c => storing'[d] = storing[d]
      BY <1>3 DEF PullType
    <2>2. \A y : BeingStored(y) => BeingStored(y)'
      BY <1>1, <2>1 DEF BeingStored
    <2> QED BY <1>3, <2>2 DEF PartialExplained
  <1> QED BY <1>4, <1>5, <1>6, <1>7, <1>8

LEMMA FailKeeps ==
    ASSUME NFSeExportInv, NEW c \in NFSeParties, StoringFails(c)
    PROVE  NFSeExportInv'
  <1> USE DEF NFSeExportInv, PullInv
  <1>0. storing[c] # NoStore
    BY DEF StoringFails
  <1>1. PICK x \in Xmls : x = storing[c].xml
    BY <1>0, StoringFields
  <1>2. walked[c] \in Nat /\ walked[c] < Len(Handed[c]) /\ Len(Handed[c]) \in Nat
    BY <1>0, NFSeExportAssumption DEF StoringHasItem, PullType
  <1>3. /\ torn' = IF blobs[x] = "partial" THEN torn \cup {x} ELSE torn
        /\ walked' \in {walked, [walked EXCEPT ![c] = @ + 1]}
        /\ storing' = [storing EXCEPT ![c] = NoStore]
        /\ UNCHANGED <<blobs, rawHash, parties, exportTables>>
    BY <1>1 DEF StoringFails
  <1>4. ExportInv'
    BY <1>3, AloneKeeps DEF ExportsAlone
  <1>5. \A y : storing[c] = [stage |-> "open", xml |-> y] => x = y
    BY <1>1
  <1>6. PullType'
    <2>1. tears' \in 0 .. MaxTears
      BY NFSeExportAssumption DEF StoringFails, PullType
    <2>2. walked' \in [NFSeParties -> Nat] /\ \A d \in NFSeParties : walked'[d] <= Len(Handed[d])
      BY <1>2, <1>3 DEF PullType
    <2>3. torn' \subseteq Xmls
      BY <1>1, <1>3 DEF PullType
    <2> QED BY <1>3, <2>1, <2>2, <2>3 DEF PullType
  <1>7. StoringHasItem' /\ PartiesHaveRow'
    BY <1>3 DEF StoringHasItem, PartiesHaveRow, PullType
  <1>8. PartialExplained'
    <2>1. \A d \in NFSeParties : d # c => storing'[d] = storing[d]
      BY <1>3 DEF PullType
    <2>2. \A y : y # x /\ BeingStored(y) => BeingStored(y)'
      BY <1>5, <2>1 DEF BeingStored
    <2>3. blobs[x] = "partial" => x \in torn'
      BY <1>3
    <2>4. torn \subseteq torn' /\ blobs' = blobs
      BY <1>3
    <2> QED BY <2>2, <2>3, <2>4, Zenon DEF PartialExplained
  <1> QED BY <1>4, <1>6, <1>7, <1>8

-----------------------------------------------------------------------------
(* The exports.                                                            *)

\* What an export does to the pulls: an XML may turn out torn.
PullsAlone == UNCHANGED pullTables /\ torn \subseteq torn' /\ torn' \subseteq Xmls

LEMMA PullsKeep ==
    ASSUME NFSeExportInv, PullsAlone
    PROVE  PullInv'
  <1> USE DEF NFSeExportInv, PullInv, PullsAlone, pullTables
  <1>1. PullType' /\ StoringHasItem' /\ PartiesHaveRow'
    BY DEF PullType, StoringHasItem, PartiesHaveRow
  <1>2. \A y : BeingStored(y) => BeingStored(y)'
    BY DEF BeingStored
  <1>3. PartialExplained'
    BY <1>2 DEF PartialExplained
  <1> QED BY <1>1, <1>3

LEMMA ExportFields ==
    ASSUME ExportType, NEW p \in Exporters, nfseExporting[p] # NoNFSeExport
    PROVE  /\ nfseExporting[p] \in Exporting
           /\ nfseExporting[p].company \in NFSeParties /\ nfseExporting[p].kind \in NFSeKinds
           /\ nfseExporting[p].xml \in Xmls /\ nfseExporting[p].whole \in BOOLEAN
    BY DEF ExportType, Exporting

LEMMA ExportMade ==
    ASSUME NEW stage \in {"selected", "generated", "moved"}, NEW c \in NFSeParties,
           NEW k \in NFSeKinds, NEW x \in Xmls, NEW whole \in BOOLEAN
    PROVE  [stage |-> stage, company |-> c, kind |-> k, xml |-> x, whole |-> whole] \in Exporting
    BY DEF Exporting

\* The export of p becomes e, which read and moved nothing that is not there.
Turns(p, e) ==
    /\ nfseExporting' = [nfseExporting EXCEPT ![p] = e]
    /\ e \in {NoNFSeExport} \cup Exporting
    /\ e # NoNFSeExport /\ e.stage # "moved" => e.whole \/ e.xml \in torn'
    /\ e # NoNFSeExport /\ e.stage = "moved" => Exported(e.company, e.kind, e.xml)'
    /\ nfseExports' \in 0 .. MaxNFSeExports
    /\ PullsAlone

LEMMA TurnsKeep ==
    ASSUME NFSeExportInv, NEW p \in Exporters, NEW e, Turns(p, e),
           nfseFiles' \in [NFSeParties -> [NFSeKinds -> SUBSET NFSeFile]],
           nfseMarks' \in [NFSeParties -> [NFSeKinds -> Xmls \cup {NoXml}]],
           \A c \in NFSeParties, k \in NFSeKinds : nfseFiles[c][k] \subseteq nfseFiles'[c][k],
           \A c \in NFSeParties, k \in NFSeKinds :
              nfseMarks'[c][k] = nfseMarks[c][k] \/ Exported(c, k, nfseMarks[c][k])'
    PROVE  NFSeExportInv'
  <1>1. PullInv'
    BY PullsKeep DEF Turns
  <1>2. /\ nfseExporting'[p] = e
        /\ \A q \in Exporters : q # p => nfseExporting'[q] = nfseExporting[q]
        /\ nfseExporting' \in [Exporters -> {NoNFSeExport} \cup Exporting]
    BY DEF Turns, NFSeExportInv, ExportInv, ExportType
  <1>3. ExportType'
    BY <1>2 DEF Turns, ExportType
  <1>4. torn \subseteq torn'
    BY DEF Turns, PullsAlone
  <1>5. \A c \in NFSeParties, k \in NFSeKinds, x \in Xmls :
            Exported(c, k, x) => Exported(c, k, x)'
    BY <1>4 DEF Exported
  <1>6. ReadTruly'
    BY <1>2, <1>4 DEF Turns, NFSeExportInv, ExportInv, ReadTruly
  <1>7. MovedIsThere'
    <2>1. ASSUME NEW q \in Exporters, nfseExporting'[q] # NoNFSeExport,
                 nfseExporting'[q].stage = "moved"
          PROVE  (Exported(nfseExporting[q].company, nfseExporting[q].kind, nfseExporting[q].xml))'
      <3>1. CASE q = p
        <4>1. Exported(e.company, e.kind, e.xml)'
          BY <1>2, <2>1, <3>1 DEF Turns
        <4> QED BY <1>2, <3>1, <4>1 DEF Exported
      <3>2. CASE q # p
        <4>1. nfseExporting'[q] = nfseExporting[q]
          BY <1>2, <3>2
        <4>2. PICK o \in Exporting : o = nfseExporting[q]
          BY <2>1, <4>1, ExportFields DEF NFSeExportInv, ExportInv
        <4>3. o.company \in NFSeParties /\ o.kind \in NFSeKinds /\ o.xml \in Xmls
          BY <4>2, <2>1, <4>1, ExportFields DEF NFSeExportInv, ExportInv
        <4>4. Exported(o.company, o.kind, o.xml)
          BY <2>1, <4>1, <4>2 DEF NFSeExportInv, ExportInv, MovedIsThere
        <4>5. Exported(o.company, o.kind, o.xml)'
          BY <1>5, <4>3, <4>4
        <4>6. nfseExporting'[q] = o
          BY <4>1, <4>2
        <4> QED BY <4>5, <4>6, Zenon DEF Exported
      <3> QED BY <3>1, <3>2
    <2> QED BY <2>1 DEF MovedIsThere
  <1>8. MarkedIsThere'
    <2>1. ASSUME NEW c \in NFSeParties, NEW k \in NFSeKinds, nfseMarks'[c][k] # NoXml
          PROVE  (Exported(c, k, nfseMarks[c][k]))'
      <3>1. CASE nfseMarks'[c][k] = nfseMarks[c][k]
        <4>1. Exported(c, k, nfseMarks[c][k])
          BY <2>1, <3>1 DEF NFSeExportInv, ExportInv, MarkedIsThere
        <4> QED BY <1>4, <3>1, <4>1 DEF Exported
      <3> QED BY <3>1 DEF Exported
    <2> QED BY <2>1 DEF MarkedIsThere
  <1> QED BY <1>1, <1>3, <1>6, <1>7, <1>8 DEF NFSeExportInv, ExportInv

LEMMA StoresStay ==
    ASSUME NFSeExportInv, NEW p \in Exporters, NEW e, Turns(p, e), UNCHANGED <<nfseFiles, nfseMarks>>
    PROVE  NFSeExportInv'
  <1>1. /\ nfseFiles' \in [NFSeParties -> [NFSeKinds -> SUBSET NFSeFile]]
        /\ nfseMarks' \in [NFSeParties -> [NFSeKinds -> Xmls \cup {NoXml}]]
    BY DEF NFSeExportInv, ExportInv, ExportType
  <1> QED BY <1>1, TurnsKeep

LEMMA SelectNFSeKeeps ==
    ASSUME NFSeExportInv, NEW p \in Exporters, NEW c \in NFSeParties, NEW k \in NFSeKinds,
           SelectNFSe(p, c, k)
    PROVE  NFSeExportInv'
  <1> DEFINE e == [stage |-> "selected", company |-> c, kind |-> k, xml |-> rawHash,
                   whole |-> TRUE]
  <1>1. rawHash \in Xmls
    BY DEF SelectNFSe, NFSeExportInv, PullInv, PullType, PartiesHaveRow
  <1>2. e \in Exporting /\ e.stage = "selected" /\ e.whole
    BY <1>1, ExportMade
  <1>3. nfseExporting' = [nfseExporting EXCEPT ![p] = e]
    BY DEF SelectNFSe
  <1>4. /\ nfseExports' \in 0 .. MaxNFSeExports
    BY NFSeExportAssumption DEF SelectNFSe, NFSeExportInv, ExportInv, ExportType
  <1>5. PullsAlone /\ UNCHANGED <<nfseFiles, nfseMarks>>
    BY DEF SelectNFSe, PullsAlone, NFSeExportInv, PullInv, PullType
  <1> HIDE DEF e
  <1>6. Turns(p, e)
    BY <1>2, <1>3, <1>4, <1>5 DEF Turns
  <1> QED BY <1>5, <1>6, StoresStay

LEMMA FailExportKeeps ==
    ASSUME NFSeExportInv, NEW p \in Exporters, NFSeExportFails(p)
    PROVE  NFSeExportInv'
  <1>1. PullsAlone /\ UNCHANGED <<nfseFiles, nfseMarks, nfseExports>>
    BY DEF NFSeExportFails, PullsAlone, NFSeExportInv, PullInv, PullType
  <1>2. Turns(p, NoNFSeExport)
    BY <1>1 DEF NFSeExportFails, Turns, NFSeExportInv, ExportInv, ExportType
  <1> QED BY <1>1, <1>2, StoresStay

LEMMA ReportKeeps ==
    ASSUME NFSeExportInv, NEW p \in Exporters, WriteReport(p)
    PROVE  NFSeExportInv'
  <1> DEFINE e == [nfseExporting[p] EXCEPT !.stage = "generated"]
  <1>1. nfseExporting[p].stage = "selected" /\ nfseExporting[p] # NoNFSeExport
    BY DEF WriteReport, NoNFSeExport
  <1>2. nfseExporting[p] \in Exporting
    BY <1>1, ExportFields DEF NFSeExportInv, ExportInv
  <1>3. /\ e \in Exporting /\ e.stage = "generated"
        /\ e.whole = nfseExporting[p].whole /\ e.xml = nfseExporting[p].xml
    BY <1>2 DEF Exporting
  <1>4. PullsAlone /\ UNCHANGED <<torn, nfseFiles, nfseMarks, nfseExports>>
    BY DEF WriteReport, PullsAlone, NFSeExportInv, PullInv, PullType
  <1>5. nfseExporting' = [nfseExporting EXCEPT ![p] = e]
    BY DEF WriteReport
  <1> HIDE DEF e
  <1>6. e.whole \/ e.xml \in torn'
    BY <1>1, <1>3, <1>4 DEF NFSeExportInv, ExportInv, ReadTruly
  <1>7. Turns(p, e)
    BY <1>3, <1>4, <1>5, <1>6 DEF Turns, NFSeExportInv, ExportInv, ExportType
  <1> QED BY <1>4, <1>7, StoresStay

LEMMA ReadKeeps ==
    ASSUME NFSeExportInv, NEW p \in Exporters, ReadBlob(p)
    PROVE  NFSeExportInv'
  <1>1. nfseExporting[p].stage = "selected" /\ nfseExporting[p] # NoNFSeExport
    BY DEF ReadBlob, NoNFSeExport
  <1>2. PICK x \in Xmls : x = nfseExporting[p].xml
    BY <1>1, ExportFields DEF NFSeExportInv, ExportInv
  <1>3. PICK owner \in NFSeParties, kind \in NFSeKinds :
            owner = nfseExporting[p].company /\ kind = nfseExporting[p].kind
    BY <1>1, ExportFields DEF NFSeExportInv, ExportInv
  <1>4. PICK whole \in BOOLEAN : whole = (blobs[x] = "whole")
    OBVIOUS
  <1> DEFINE e == [stage |-> "generated", company |-> owner, kind |-> kind, xml |-> x,
                   whole |-> whole]
  <1>5. nfseExporting' = [nfseExporting EXCEPT ![p] = e]
    BY <1>2, <1>3, <1>4 DEF ReadBlob
  <1>6. e \in Exporting /\ e.stage = "generated" /\ e.whole = whole /\ e.xml = x
    BY <1>2, <1>3, <1>4, ExportMade
  <1>7. /\ torn' = IF BeingStored(x) THEN torn \cup {x} ELSE torn
        /\ blobs[x] # "absent"
        /\ UNCHANGED <<pullTables, nfseMarks, nfseFiles, nfseExports>>
    BY <1>2 DEF ReadBlob
  <1>8. whole \/ x \in torn'
    <2>1. ASSUME ~whole PROVE x \in torn'
      <3>1. blobs[x] = "partial"
        BY <1>4, <1>7, <2>1 DEF NFSeExportInv, PullInv, PullType, BlobStates
      <3>2. BeingStored(x) \/ x \in torn
        BY <3>1 DEF NFSeExportInv, PullInv, PartialExplained
      <3> QED BY <1>7, <3>2
    <2> QED BY <2>1
  <1>9. PullsAlone
    BY <1>7 DEF PullsAlone, NFSeExportInv, PullInv, PullType
  <1> HIDE DEF e
  <1>10. Turns(p, e)
    BY <1>5, <1>6, <1>7, <1>8, <1>9 DEF Turns, NFSeExportInv, ExportInv, ExportType
  <1> QED BY <1>7, <1>10, StoresStay

LEMMA MoveKeeps ==
    ASSUME NFSeExportInv, NEW p \in Exporters, MoveToOutPath(p)
    PROVE  NFSeExportInv'
  <1>1. nfseExporting[p].stage = "generated" /\ nfseExporting[p] # NoNFSeExport
    BY DEF MoveToOutPath, NoNFSeExport
  <1>2. PICK o \in Exporting : o = nfseExporting[p]
    BY <1>1, ExportFields DEF NFSeExportInv, ExportInv
  <1>3. /\ o.company \in NFSeParties /\ o.kind \in NFSeKinds /\ o.xml \in Xmls
        /\ o.whole \in BOOLEAN /\ o.stage = "generated"
    BY <1>1, <1>2, ExportFields DEF NFSeExportInv, ExportInv
  <1> DEFINE e == [o EXCEPT !.stage = "moved"]
             f == [xml |-> o.xml, whole |-> o.whole]
  <1>4. /\ e \in Exporting /\ e.stage = "moved" /\ e.company = o.company
        /\ e.kind = o.kind /\ e.xml = o.xml
    BY <1>2 DEF Exporting
  <1>5. f \in NFSeFile /\ f.xml = o.xml /\ f.whole = o.whole
    BY <1>3 DEF NFSeFile
  <1>6. nfseFiles' = [nfseFiles EXCEPT ![o.company][o.kind] = @ \cup {f}]
    BY <1>2 DEF MoveToOutPath
  <1>7. /\ nfseExporting' = [nfseExporting EXCEPT ![p] = e]
        /\ UNCHANGED <<pullTables, torn, nfseMarks, nfseExports>>
    BY <1>2 DEF MoveToOutPath
  <1> HIDE DEF e, f
  <1>8. /\ nfseFiles' \in [NFSeParties -> [NFSeKinds -> SUBSET NFSeFile]]
        /\ \A c \in NFSeParties, k \in NFSeKinds : nfseFiles[c][k] \subseteq nfseFiles'[c][k]
        /\ f \in nfseFiles'[o.company][o.kind]
    BY <1>3, <1>5, <1>6 DEF NFSeExportInv, ExportInv, ExportType
  <1>9. o.whole \/ o.xml \in torn
    BY <1>1, <1>2 DEF NFSeExportInv, ExportInv, ReadTruly
  <1>10. Exported(e.company, e.kind, e.xml)'
    BY <1>4, <1>5, <1>7, <1>8, <1>9 DEF Exported
  <1>11. PullsAlone
    BY <1>7 DEF PullsAlone, NFSeExportInv, PullInv, PullType
  <1>12. Turns(p, e)
    BY <1>4, <1>7, <1>10, <1>11 DEF Turns, NFSeExportInv, ExportInv, ExportType
  <1>13. nfseMarks' \in [NFSeParties -> [NFSeKinds -> Xmls \cup {NoXml}]]
    BY <1>7 DEF NFSeExportInv, ExportInv, ExportType
  <1> QED BY <1>7, <1>8, <1>12, <1>13, TurnsKeep

LEMMA MarkKeeps ==
    ASSUME NFSeExportInv, NEW p \in Exporters, MarkDocumentsExported(p)
    PROVE  NFSeExportInv'
  <1>1. nfseExporting[p].stage = "moved" /\ nfseExporting[p] # NoNFSeExport
    BY DEF MarkDocumentsExported, NoNFSeExport
  <1>2. PICK o \in Exporting : o = nfseExporting[p]
    BY <1>1, ExportFields DEF NFSeExportInv, ExportInv
  <1>3. o.company \in NFSeParties /\ o.kind \in NFSeKinds /\ o.xml \in Xmls
    BY <1>1, <1>2, ExportFields DEF NFSeExportInv, ExportInv
  <1>4. nfseMarks' = [nfseMarks EXCEPT ![o.company][o.kind] = o.xml]
    BY <1>2 DEF MarkDocumentsExported, HashOf
  <1>5. /\ nfseExporting' = [nfseExporting EXCEPT ![p] = NoNFSeExport]
        /\ UNCHANGED <<pullTables, torn, nfseFiles, nfseExports>>
    BY DEF MarkDocumentsExported
  <1>6. Exported(o.company, o.kind, o.xml)
    BY <1>1, <1>2 DEF NFSeExportInv, ExportInv, MovedIsThere
  <1>7. Exported(o.company, o.kind, o.xml)'
    BY <1>5, <1>6 DEF Exported
  <1>8. /\ nfseMarks' \in [NFSeParties -> [NFSeKinds -> Xmls \cup {NoXml}]]
        /\ \A c \in NFSeParties, k \in NFSeKinds :
              \/ nfseMarks'[c][k] = nfseMarks[c][k]
              \/ c = o.company /\ k = o.kind /\ nfseMarks'[c][k] = o.xml
    BY <1>3, <1>4 DEF NFSeExportInv, ExportInv, ExportType
  <1>9. ASSUME NEW c \in NFSeParties, NEW k \in NFSeKinds
        PROVE  nfseMarks'[c][k] = nfseMarks[c][k] \/ Exported(c, k, nfseMarks[c][k])'
    <2>1. CASE c = o.company /\ k = o.kind /\ nfseMarks'[c][k] = o.xml
      BY <1>7, <2>1, Zenon DEF Exported
    <2> QED BY <1>8, <2>1
  <1>10. PullsAlone
    BY <1>5 DEF PullsAlone, NFSeExportInv, PullInv, PullType
  <1>11. Turns(p, NoNFSeExport)
    BY <1>5, <1>10 DEF Turns, NFSeExportInv, ExportInv, ExportType
  <1>12. /\ nfseFiles' \in [NFSeParties -> [NFSeKinds -> SUBSET NFSeFile]]
         /\ \A c \in NFSeParties, k \in NFSeKinds : nfseFiles[c][k] \subseteq nfseFiles'[c][k]
    BY <1>5 DEF NFSeExportInv, ExportInv, ExportType
  <1> QED BY <1>8, <1>9, <1>11, <1>12, TurnsKeep

-----------------------------------------------------------------------------

LEMMA ExportStepKeeps ==
    ASSUME NFSeExportInv, [NFSeExportNext]_nfseExportVars
    PROVE  NFSeExportInv'
  <1>1. CASE UNCHANGED nfseExportVars
    <2>1. ExportsAlone /\ PullsAlone
      BY <1>1 DEF nfseExportVars, ExportsAlone, PullsAlone, exportTables, pullTables,
                  NFSeExportInv, PullInv, PullType
    <2> QED BY <2>1, AloneKeeps, PullsKeep DEF NFSeExportInv
  <1>2. ASSUME NEW c \in NFSeParties,
               OpenBlob(c) \/ WriteBlob(c) \/ UpsertNFSe(c) \/ StoringFails(c)
        PROVE  NFSeExportInv'
    BY <1>2, OpenFileKeeps, WriteKeeps, UpsertKeeps, FailKeeps
  <1>3. ASSUME NEW p \in Exporters,
               \/ \E c \in NFSeParties, k \in NFSeKinds : SelectNFSe(p, c, k)
               \/ WriteReport(p) \/ ReadBlob(p) \/ MoveToOutPath(p)
               \/ MarkDocumentsExported(p) \/ NFSeExportFails(p)
        PROVE  NFSeExportInv'
    BY <1>3, SelectNFSeKeeps, ReportKeeps, ReadKeeps, MoveKeeps, MarkKeeps, FailExportKeeps
  <1> QED BY <1>1, <1>2, <1>3 DEF NFSeExportNext

LEMMA ExportInitHolds == NFSeExportInit => NFSeExportInv
  <1> SUFFICES ASSUME NFSeExportInit PROVE NFSeExportInv
    OBVIOUS
  <1>1. PullType
    BY NFSeExportAssumption DEF NFSeExportInit, PullType, BlobStates
  <1>2. StoringHasItem /\ PartiesHaveRow /\ PartialExplained
    BY DEF NFSeExportInit, StoringHasItem, PartiesHaveRow, PartialExplained
  <1>3. ExportType
    BY NFSeExportAssumption DEF NFSeExportInit, ExportType
  <1>4. ReadTruly /\ MovedIsThere /\ MarkedIsThere
    BY DEF NFSeExportInit, ReadTruly, MovedIsThere, MarkedIsThere
  <1> QED BY <1>1, <1>2, <1>3, <1>4 DEF NFSeExportInv, PullInv, ExportInv

\* Every file, row, mark and export keeps its type, for any parties, XMLs and
\* order in which the ADN hands them.
THEOREM ExportTypes == NFSeExportSpec => []NFSeExportTypeOK
  <1> QED BY TypeFromExportInv, ExportInitHolds, ExportStepKeeps, PTL DEF NFSeExportSpec

\* What an incremental export leaves out was exported with the XML the row has
\* now, whole unless that XML was torn, for any parties, XMLs and exporters.
THEOREM ExportsComplete == NFSeExportSpec => []NFSeExportComplete
  <1> QED BY CompleteFromExportInv, ExportInitHolds, ExportStepKeeps, PTL DEF NFSeExportSpec

-----------------------------------------------------------------------------
(* The pulls.                                                              *)

\* The pulls that have yet to insert a run.
Opening == {q \in Processes : pulling[q] # NoPull /\ pulling[q].run = 0}

NFSeTableType ==
    /\ status \in [Chaves -> {"none"} \cup NFSeStatuses]
    /\ nfseEvents \subseteq NFSeEvent
    /\ nfseLinked \subseteq nfseEvents
    /\ sees \subseteq Chaves
    /\ initialDone \subseteq Envs
    /\ nfseResets \in 0 .. MaxNFSeResets

PullsType ==
    /\ runs \in Seq(Run)
    /\ pulling \in [Processes -> {NoPull} \cup Pull]
    /\ Len(runs) + Cardinality(Opening) <= MaxRuns

BeforeRun == {"reserved", "opened", "read", "cleared"}

\* What the cursor may pass: an event, a document seen, or one the start excludes.
Passed(e, i, start) ==
    LET x == NFSeFeed[e][i]
    IN  x.kind = "document" /\ x.chave \notin sees => x.date < start

\* A pull writes to a row that is there, has interrupted those before it,
\* decided on an event, and passed what the start of the company excludes.
PullFits(o) ==
    /\ o.run <= Len(runs) /\ o.cleared <= Len(runs)
    /\ \A i \in 1 .. o.cleared : runs[i].status # "running"
    /\ o.stage \in BeforeRun => o.run = 0
    /\ o.stage \in {"keep", "drop"} =>
          o.at < Len(NFSeFeed[o.env]) /\ NFSeFeed[o.env][o.at + 1].kind = "event"
    /\ ~overlapped => o.start = company.start
    /\ ~overlapped => \A i \in 1 .. o.at : Passed(o.env, i, o.start)

PullsFit == \A p \in Processes : pulling[p] # NoPull => PullFits(pulling[p])

RunsCleared == \A j \in DOMAIN runs : runs[j].cleared <= Len(runs)

\* Nothing moves before the registration; an edit that no pull overlapped
\* changes the start only where no cursor is.
NothingBefore ==
    company = NoCompany =>
        /\ cursor = [e \in Envs |-> NoCursor]
        /\ editing = NoEdit
        /\ \A p \in Processes : pulling[p] = NoPull

EditIsAlone ==
    editing # NoEdit /\ ~editing.raced =>
        /\ \A p \in Processes : pulling[p] = NoPull
        /\ editing.start # company.start => ~HasSyncState

PullingInv ==
    /\ CompaniesTypeOK /\ NFSeTableType /\ PullsType
    /\ PullsFit /\ RunsCleared /\ RunsInterrupted
    /\ StatusFollowsEvents /\ PolicyKept
    /\ NothingBefore /\ EditIsAlone

-----------------------------------------------------------------------------

LEMMA PullFields ==
    ASSUME PullsType, NEW p \in Processes, pulling[p] # NoPull
    PROVE  pulling[p] \in Pull
  BY DEF PullsType

LEMMA PullIsNot == \A o \in Pull : o # NoPull
  BY DEF Pull, NoPull, PullStages

LEMMA OpeningFinite == IsFiniteSet(Opening)
  BY NFSeAssumption, FS_Subset DEF Opening

LEMMA NFSeTypeFromInv == PullingInv => NFSeTypeOK
  <1> SUFFICES ASSUME PullingInv PROVE NFSeTypeOK
    OBVIOUS
  <1>1. Len(runs) <= MaxRuns
    <2>1. Cardinality(Opening) \in Nat
      BY OpeningFinite, FS_CardinalityType
    <2>2. Len(runs) \in Nat /\ MaxRuns \in Nat
      BY NFSeAssumption DEF PullingInv, PullsType
    <2> QED BY <2>1, <2>2 DEF PullingInv, PullsType
  <1> QED BY <1>1 DEF NFSeTypeOK, PullingInv, NFSeTableType, PullsType, PullsFit, PullFits

\* Of the environment and the start, an event of the feed has neither.
LEMMA FeedItem ==
    ASSUME NEW o \in Pull, o.at < Len(NFSeFeed[o.env])
    PROVE  /\ NFSeFeed[o.env][o.at + 1] \in NFSeItem
           /\ NFSeFeed[o.env][o.at + 1].chave \in Chaves
           /\ NFSeFeed[o.env][o.at + 1].kind = "event" => NFSeFeed[o.env][o.at + 1] \in NFSeEvent
  <1>1. o.env \in Envs /\ o.at \in Nat
    BY DEF Pull
  <1>2. NFSeFeed[o.env] \in Seq(NFSeItem)
    BY <1>1, NFSeAssumption
  <1>3. PICK x : x = NFSeFeed[o.env][o.at + 1]
    OBVIOUS
  <1>4. x \in NFSeItem
    BY <1>1, <1>2, <1>3
  <1>5. x.chave \in Chaves
    BY <1>4 DEF NFSeItem, NFSeDocument, NFSeEvent
  <1>6. x.kind = "event" => x \in NFSeEvent
    BY <1>4 DEF NFSeItem, NFSeDocument
  <1> QED BY <1>3, <1>4, <1>5, <1>6

\* What no step undoes for the pulls it does not move.
NFSeGrows ==
    /\ Len(runs) <= Len(runs')
    /\ \A i \in 1 .. Len(runs) : runs[i].status # "running" => runs'[i].status # "running"
    /\ sees \subseteq sees'
    /\ overlapped => overlapped'
    /\ overlapped' \/ company'.start = company.start

LEMMA FitsGrows ==
    ASSUME PullsType, PullsType', NFSeGrows, NEW o \in Pull, PullFits(o)
    PROVE  PullFits(o)'
  <1>1. o.run \in Nat /\ o.cleared \in Nat /\ o.at \in Nat
    BY DEF Pull
  <1>2. Len(runs) \in Nat /\ Len(runs') \in Nat
    BY DEF PullsType
  <1>3. o.run <= Len(runs') /\ o.cleared <= Len(runs')
    BY <1>1, <1>2 DEF PullFits, NFSeGrows
  <1>4. \A i \in 1 .. o.cleared : runs'[i].status # "running"
    BY <1>1, <1>2 DEF PullFits, NFSeGrows
  <1>5. ~overlapped' => o.start = company'.start
    BY DEF PullFits, NFSeGrows
  <1>6. ~overlapped' => \A i \in 1 .. o.at : Passed(o.env, i, o.start)'
    BY DEF PullFits, NFSeGrows, Passed
  <1> QED BY <1>3, <1>4, <1>5, <1>6 DEF PullFits

-----------------------------------------------------------------------------
(* The steps of a pull that write no run.                                  *)

SimpleMove(p, n) ==
    /\ pulling[p] \in Pull
    /\ n \in {NoPull} \cup Pull
    /\ pulling' = [pulling EXCEPT ![p] = n]
    /\ UNCHANGED <<company, editing, edits, overlapped, runs>>
    /\ sees \subseteq sees'
    /\ cursor' \in [Envs -> Nat \cup {NoCursor}]
    /\ \A e \in Envs : cursor'[e] = cursor[e] \/ (n # NoPull /\ n.env = e /\ cursor'[e] = n.at)
    /\ n # NoPull =>
         /\ n.run = pulling[p].run /\ n.cleared = pulling[p].cleared
         /\ n.env = pulling[p].env /\ n.start = pulling[p].start
         /\ n.stage \in BeforeRun => pulling[p].stage \in BeforeRun
         /\ n.stage \in {"keep", "drop"} =>
               n.at < Len(NFSeFeed[n.env]) /\ NFSeFeed[n.env][n.at + 1].kind = "event"
         /\ ~overlapped => \A i \in 1 .. n.at : Passed(n.env, i, n.start)'

\* A pull turns into n; none that had a run, or was over, waits for one now.
LEMMA OpeningShrinks ==
    ASSUME PullsType, NEW p \in Processes, NEW n \in {NoPull} \cup Pull,
           pulling' = [pulling EXCEPT ![p] = n],
           n # NoPull /\ n.run = 0 => p \in Opening
    PROVE  Cardinality(Opening') \in Nat /\ Cardinality(Opening') <= Cardinality(Opening)
  <1>1. Opening' \subseteq Opening
    BY DEF Opening, PullsType
  <1> QED BY <1>1, OpeningFinite, FS_Subset, FS_CardinalityType

LEMMA PullsFitStep ==
    ASSUME PullsType, PullsType', PullsFit, NFSeGrows, NEW p \in Processes, NEW n,
           pulling' = [pulling EXCEPT ![p] = n], n # NoPull => PullFits(n)'
    PROVE  PullsFit'
  <1> SUFFICES ASSUME NEW q \in Processes, pulling'[q] # NoPull
               PROVE  PullFits(pulling[q])'
    BY DEF PullsFit
  <1>1. CASE q = p
    <2>1. pulling'[q] = n
      BY <1>1 DEF PullsType
    <2>2. PullFits(n)'
      BY <2>1
    <2> QED BY <2>1, <2>2, Zenon DEF PullFits, Passed
  <1>2. CASE q # p
    <2>1. pulling'[q] = pulling[q] /\ pulling[q] # NoPull
      BY <1>2 DEF PullsType
    <2>2. PICK o \in Pull : o = pulling[q]
      BY <2>1, PullFields
    <2>3. PullFits(o)
      BY <2>1, <2>2 DEF PullsFit
    <2>4. PullFits(o)'
      BY <2>3, FitsGrows
    <2>5. pulling'[q] = o
      BY <2>1, <2>2
    <2> QED BY <2>4, <2>5, Zenon DEF PullFits, Passed
  <1> QED BY <1>1, <1>2

LEMMA SimpleKeeps ==
    ASSUME PullingInv, NEW p \in Processes, NEW n, SimpleMove(p, n)
    PROVE  /\ CompaniesTypeOK' /\ PullsType' /\ PullsFit' /\ RunsCleared' /\ RunsInterrupted'
           /\ PolicyKept' /\ NothingBefore' /\ EditIsAlone'
  <1>1. pulling[p] # NoPull
    BY DEF SimpleMove, Pull, NoPull, PullStages
  <1>2. PICK o \in Pull : o = pulling[p]
    BY DEF SimpleMove
  <1>3. PullFits(o)
    BY <1>1, <1>2 DEF PullingInv, PullsFit
  <1>4. PullsType
    BY DEF PullingInv
  <1>5. PullsType'
    <2>1. n # NoPull /\ n.run = 0 => p \in Opening
      BY <1>1 DEF SimpleMove, Opening
    <2>2. Cardinality(Opening') \in Nat /\ Cardinality(Opening') <= Cardinality(Opening)
      BY <1>4, <2>1, OpeningShrinks DEF SimpleMove
    <2>3. Len(runs) \in Nat /\ MaxRuns \in Nat /\ Cardinality(Opening) \in Nat
      BY <1>4, NFSeAssumption, OpeningFinite, FS_CardinalityType DEF PullsType
    <2>4. Len(runs') + Cardinality(Opening') <= MaxRuns
      BY <1>4, <2>2, <2>3 DEF SimpleMove, PullsType
    <2> QED BY <1>4, <2>4 DEF SimpleMove, PullsType
  <1>6. NFSeGrows
    BY <1>4 DEF SimpleMove, NFSeGrows, PullsType
  <1>7. n # NoPull => PullFits(n)'
    <2> SUFFICES ASSUME n # NoPull PROVE PullFits(n)'
      OBVIOUS
    <2>1. /\ n.run = o.run /\ n.cleared = o.cleared /\ n.env = o.env /\ n.start = o.start
          /\ n.stage \in BeforeRun => o.stage \in BeforeRun
          /\ n.stage \in {"keep", "drop"} =>
               n.at < Len(NFSeFeed[n.env]) /\ NFSeFeed[n.env][n.at + 1].kind = "event"
          /\ ~overlapped => \A i \in 1 .. n.at : Passed(n.env, i, n.start)'
          /\ UNCHANGED <<company, overlapped, runs>>
      BY <1>2 DEF SimpleMove
    <2> QED BY <1>3, <2>1 DEF PullFits
  <1>8. PullsFit'
    BY <1>4, <1>5, <1>6, <1>7, PullsFitStep DEF SimpleMove, PullingInv
  <1>9. RunsCleared' /\ RunsInterrupted'
    BY DEF SimpleMove, RunsCleared, RunsInterrupted, PullingInv
  <1>10. CompaniesTypeOK'
    BY DEF SimpleMove, CompaniesTypeOK, PullingInv
  <1>11. company # NoCompany /\ (editing # NoEdit => editing.raced)
    BY <1>1 DEF PullingInv, NothingBefore, EditIsAlone
  <1>12. NothingBefore' /\ EditIsAlone'
    BY <1>11 DEF SimpleMove, NothingBefore, EditIsAlone
  <1>13. PolicyKept'
    <2> SUFFICES ASSUME ~overlapped', NEW e \in Envs, NEW i \in 1 .. cursor'[e]
                 PROVE  Passed(e, i, company.start)'
      BY DEF PolicyKept, Passed
    <2>1. CASE cursor'[e] = cursor[e]
      <3>1. Passed(e, i, company.start)
        BY <2>1 DEF PullingInv, PolicyKept, Passed, SimpleMove
      <3> QED BY <3>1 DEF Passed, SimpleMove
    <2>2. CASE n # NoPull /\ n.env = e /\ cursor'[e] = n.at
      <3>1. Passed(n.env, i, n.start)' /\ n.start = company.start
        BY <1>2, <1>3, <2>2 DEF SimpleMove, PullFits
      <3> QED BY <2>2, <3>1 DEF Passed, SimpleMove
    <2> QED BY <2>1, <2>2 DEF SimpleMove
  <1> QED BY <1>5, <1>8, <1>9, <1>10, <1>12, <1>13

\* The pull of a process that is under way, as its stage tells.
LEMMA Pulling ==
    ASSUME PullingInv, NEW p \in Processes, pulling[p] # NoPull
    PROVE  pulling[p] \in Pull /\ PullFits(pulling[p])
  BY PullFields DEF PullingInv, PullsFit

LEMMA OpensMove ==
    ASSUME PullingInv, NEW p \in Processes,
           GetOrCreateState(p) \/ ReadSourceState(p) \/ InterruptFails(p)
    PROVE  \E n : SimpleMove(p, n)
  <1>1. pulling[p] # NoPull
    BY DEF GetOrCreateState, ReadSourceState, InterruptFails, At, NoPull
  <1>2. PICK o \in Pull : o = pulling[p] /\ PullFits(o)
    BY <1>1, Pulling
  <1>3. o.env \in Envs /\ cursor \in [Envs -> Nat \cup {NoCursor}]
    BY <1>2 DEF Pull, PullingInv, CompaniesTypeOK
  <1>4. CASE GetOrCreateState(p)
    <2>1. PICK m \in Nat : m = IF cursor[o.env] = NoCursor THEN 0 ELSE cursor[o.env]
      BY <1>3 DEF NoCursor
    <2>2. PICK n : n = [o EXCEPT !.stage = "opened", !.at = m]
      OBVIOUS
    <2>3. /\ n \in Pull /\ n.stage = "opened" /\ n.at = m /\ n.env = o.env /\ n.start = o.start
          /\ n.run = o.run /\ n.cleared = o.cleared
      BY <2>2 DEF Pull, PullStages
    <2>4. /\ cursor' = [cursor EXCEPT ![o.env] = m]
          /\ pulling' = [pulling EXCEPT ![p] = n]
          /\ o.stage = "reserved"
          /\ UNCHANGED <<company, editing, edits, overlapped, runs, sees>>
      BY <1>2, <1>4, <2>1, <2>2 DEF GetOrCreateState, At, Step, nfseDocs
    <2>5. ~overlapped => \A i \in 1 .. n.at : Passed(n.env, i, n.start)
      <3> SUFFICES ASSUME ~overlapped, NEW i \in 1 .. m PROVE Passed(o.env, i, o.start)
        BY <2>3
      <3>1. i \in 1 .. cursor[o.env]
        BY <2>1
      <3>2. o.start = company.start
        BY <1>2 DEF PullFits
      <3> QED BY <1>3, <3>1, <3>2 DEF PullingInv, PolicyKept, Passed
    <2>6. ~overlapped => \A i \in 1 .. n.at : Passed(n.env, i, n.start)'
      BY <2>4, <2>5 DEF Passed
    <2>7. SimpleMove(p, n)
      BY <1>2, <1>3, <2>3, <2>4, <2>6, PullIsNot DEF SimpleMove, BeforeRun
    <2> QED BY <2>7
  <1>5. CASE ReadSourceState(p)
    <2>1. PICK done \in BOOLEAN : done = (o.env \in initialDone)
      <3>1. (o.env \in initialDone) \in BOOLEAN
        OBVIOUS
      <3> QED BY <3>1, Zenon
    <2>2. PICK n : n = [o EXCEPT !.stage = "read", !.done = done]
      OBVIOUS
    <2>3. /\ n \in Pull /\ n.stage = "read" /\ n.at = o.at /\ n.env = o.env /\ n.start = o.start
          /\ n.run = o.run /\ n.cleared = o.cleared
      BY <2>2 DEF Pull, PullStages
    <2>4. /\ pulling' = [pulling EXCEPT ![p] = n]
          /\ o.stage = "opened"
          /\ UNCHANGED <<company, editing, edits, overlapped, cursor, runs, sees>>
      BY <1>2, <1>5, <2>1, <2>2 DEF ReadSourceState, At, Step, nfseDocs, companyVars
    <2>5. ~overlapped => \A i \in 1 .. n.at : Passed(n.env, i, n.start)
      BY <1>2, <2>3 DEF PullFits
    <2>6. ~overlapped => \A i \in 1 .. n.at : Passed(n.env, i, n.start)'
      BY <2>4, <2>5 DEF Passed
    <2>7. SimpleMove(p, n)
      BY <1>2, <1>3, <2>3, <2>4, <2>6, PullIsNot DEF SimpleMove, BeforeRun
    <2> QED BY <2>7
  <1>6. CASE InterruptFails(p)
    <2>1. PICK n : n = [o EXCEPT !.stage = "cleared"]
      OBVIOUS
    <2>2. /\ n \in Pull /\ n.stage = "cleared" /\ n.at = o.at /\ n.env = o.env /\ n.start = o.start
          /\ n.run = o.run /\ n.cleared = o.cleared
      BY <2>1 DEF Pull, PullStages
    <2>3. /\ pulling' = [pulling EXCEPT ![p] = n]
          /\ o.stage = "read"
          /\ UNCHANGED <<company, editing, edits, overlapped, cursor, runs, sees>>
      BY <1>2, <1>6, <2>1 DEF InterruptFails, At, Step, nfseDocs, companyVars
    <2>4. ~overlapped => \A i \in 1 .. n.at : Passed(n.env, i, n.start)
      BY <1>2, <2>2 DEF PullFits
    <2>5. ~overlapped => \A i \in 1 .. n.at : Passed(n.env, i, n.start)'
      BY <2>3, <2>4 DEF Passed
    <2>6. SimpleMove(p, n)
      BY <1>2, <1>3, <2>2, <2>3, <2>5, PullIsNot DEF SimpleMove, BeforeRun
    <2> QED BY <2>6
  <1> QED BY <1>4, <1>5, <1>6

\* The item a pull goes over is an event, now seen, or older than the start.
LEMMA AdvanceMoves ==
    ASSUME PullingInv, NEW p \in Processes, NEW o \in Pull, o = pulling[p], PullFits(o),
           Advance(p), ~(o.stage \in BeforeRun),
           UNCHANGED <<company, editing, edits, overlapped, runs>>, sees \subseteq sees',
           Passed(o.env, o.at + 1, o.start)'
    PROVE  \E n : SimpleMove(p, n)
  <1>3. o.env \in Envs /\ o.at \in Nat /\ cursor \in [Envs -> Nat \cup {NoCursor}]
    BY DEF Pull, PullingInv, CompaniesTypeOK
  <1>2. PICK m \in Nat : m = o.at + 1
    BY <1>3
  <1>4. PICK n : n = [o EXCEPT !.stage = "walking", !.at = m]
    OBVIOUS
  <1>5. /\ n \in Pull /\ n.stage = "walking" /\ n.at = m /\ n.env = o.env
        /\ n.start = o.start /\ n.run = o.run /\ n.cleared = o.cleared
    BY <1>4 DEF Pull, PullStages
  <1>6. /\ cursor' = IF cursor[o.env] = NoCursor THEN cursor ELSE [cursor EXCEPT ![o.env] = n.at]
        /\ pulling' = [pulling EXCEPT ![p] = n]
    <2>1. cursor' = IF cursor[o.env] = NoCursor THEN cursor ELSE [cursor EXCEPT ![o.env] = n.at]
      BY <1>2, <1>5 DEF Advance, Persist
    <2>2. pulling' = [pulling EXCEPT ![p] = n]
      BY <1>2, <1>4 DEF Advance, Step
    <2> QED BY <2>1, <2>2
  <1>7. ~overlapped => \A i \in 1 .. o.at : Passed(o.env, i, o.start)'
    BY DEF PullFits, Passed
  <1>10. ~overlapped => \A i \in 1 .. n.at : Passed(n.env, i, n.start)'
    <2> SUFFICES ASSUME ~overlapped, NEW i \in 1 .. o.at + 1 PROVE Passed(o.env, i, o.start)'
      BY <1>2, <1>5
    <2>1. i \in 1 .. o.at \/ i = o.at + 1
      BY <1>3
    <2>2. CASE i = o.at + 1
      BY <2>2, Zenon DEF Passed
    <2> QED BY <1>7, <2>1, <2>2
  <1>11. SimpleMove(p, n)
    BY <1>3, <1>5, <1>6, <1>10, PullIsNot DEF SimpleMove, BeforeRun
  <1> QED BY <1>11

LEMMA WalksMove ==
    ASSUME PullingInv, NEW p \in Processes,
           StoreNFSe(p) \/ SkipNFSe(p) \/ StoreNFSeEvent(p) \/ DropNFSeEvent(p)
    PROVE  \E n : SimpleMove(p, n)
  <1>1. /\ pulling[p] # NoPull
        /\ ~(pulling[p].stage \in BeforeRun)
        /\ Advance(p)
        /\ UNCHANGED <<company, editing, edits, overlapped, runs>>
    BY DEF StoreNFSe, SkipNFSe, StoreNFSeEvent, DropNFSeEvent, At, NoPull, nfseDocs, BeforeRun
  <1>2. sees \subseteq sees'
    BY DEF StoreNFSe, SkipNFSe, StoreNFSeEvent, DropNFSeEvent, nfseDocs, UpsertCompanyDocument
  <1>3. PICK o \in Pull : o = pulling[p] /\ PullFits(o)
    BY <1>1, Pulling
  <1>5. Passed(o.env, o.at + 1, o.start)'
    <2>1. PICK x : x = NFSeFeed[o.env][o.at + 1]
      OBVIOUS
    <2>2. CASE StoreNFSe(p)
      <3>1. x.chave \in sees'
        BY <1>3, <2>1, <2>2 DEF StoreNFSe, NextNFSe, UpsertCompanyDocument
      <3> QED BY <1>3, <2>1, <3>1 DEF Passed
    <2>3. CASE SkipNFSe(p)
      <3>1. x.date < o.start
        BY <1>3, <2>1, <2>3 DEF SkipNFSe, SkipByInitialPolicy, NextNFSe
      <3> QED BY <1>3, <2>1, <3>1 DEF Passed
    <2>4. CASE StoreNFSeEvent(p) \/ DropNFSeEvent(p)
      <3>1. x.kind = "event"
        BY <1>3, <2>1, <2>4 DEF StoreNFSeEvent, DropNFSeEvent, At, PullFits
      <3> QED BY <1>3, <2>1, <3>1 DEF Passed
    <2> QED BY <2>2, <2>3, <2>4
  <1> QED BY <1>1, <1>2, <1>3, <1>5, AdvanceMoves

LEMMA WaitsMove ==
    ASSUME PullingInv, NEW p \in Processes,
           CheckNFSeEvent(p) \/ EmptyBatch(p) \/ MarkInitialSyncCompleted(p)
    PROVE  \E n : SimpleMove(p, n)
  <1>1. pulling[p] # NoPull
    BY DEF CheckNFSeEvent, EmptyBatch, MarkInitialSyncCompleted, At, NoPull
  <1>2. PICK o \in Pull : o = pulling[p] /\ PullFits(o)
    BY <1>1, Pulling
  <1>3. o.env \in Envs /\ o.at \in Nat /\ cursor \in [Envs -> Nat \cup {NoCursor}]
    BY <1>2 DEF Pull, PullingInv, CompaniesTypeOK
  <1>4. PICK s : /\ s \in {"keep", "drop", "finishing", "caught_up"}
                 /\ pulling' = [pulling EXCEPT ![p] = [o EXCEPT !.stage = s]]
                 /\ s \in {"keep", "drop"} => CheckNFSeEvent(p)
    <2>1. CASE CheckNFSeEvent(p)
      <3>1. PICK s : s = IF NextNFSe(p).chave \in sees THEN "keep" ELSE "drop"
        OBVIOUS
      <3>2. pulling' = [pulling EXCEPT ![p] = [o EXCEPT !.stage = s]]
        BY <1>2, <2>1, <3>1 DEF CheckNFSeEvent, Step
      <3> QED BY <2>1, <3>1, <3>2
    <2>2. CASE EmptyBatch(p)
      <3>1. PICK s : s = IF o.done THEN "finishing" ELSE "caught_up"
        OBVIOUS
      <3>2. pulling' = [pulling EXCEPT ![p] = [o EXCEPT !.stage = s]]
        BY <1>2, <2>2, <3>1 DEF EmptyBatch, Step
      <3> QED BY <3>1, <3>2
    <2>3. CASE MarkInitialSyncCompleted(p)
      <3>1. pulling' = [pulling EXCEPT ![p] = [o EXCEPT !.stage = "finishing"]]
        BY <1>2, <2>3 DEF MarkInitialSyncCompleted, Step
      <3> QED BY <3>1
    <2> QED BY <2>1, <2>2, <2>3
  <1>5. PICK n : n = [o EXCEPT !.stage = s]
    OBVIOUS
  <1>6. /\ n \in Pull /\ n.stage = s /\ n.at = o.at /\ n.env = o.env
        /\ n.start = o.start /\ n.run = o.run /\ n.cleared = o.cleared
    BY <1>4, <1>5 DEF Pull, PullStages
  <1>7. UNCHANGED <<company, editing, edits, overlapped, runs, sees>>
    BY DEF CheckNFSeEvent, EmptyBatch, MarkInitialSyncCompleted, companyVars, nfseDocs
  <1>8. /\ cursor' \in [Envs -> Nat \cup {NoCursor}]
        /\ \A e \in Envs : cursor'[e] = cursor[e] \/ (n.env = e /\ cursor'[e] = n.at)
    <2>1. \/ cursor' = cursor
          \/ cursor' = [cursor EXCEPT ![o.env] = o.at]
      BY <1>2 DEF CheckNFSeEvent, EmptyBatch, MarkInitialSyncCompleted, companyVars, Persist
    <2> QED BY <1>3, <1>6, <2>1
  <1>9. s \in {"keep", "drop"} =>
          n.at < Len(NFSeFeed[n.env]) /\ NFSeFeed[n.env][n.at + 1].kind = "event"
    BY <1>2, <1>4, <1>6 DEF CheckNFSeEvent, Left, NextNFSe
  <1>10. ~overlapped => \A i \in 1 .. n.at : Passed(n.env, i, n.start)'
    BY <1>2, <1>6, <1>7 DEF PullFits, Passed
  <1>11. pulling' = [pulling EXCEPT ![p] = n]
    BY <1>4, <1>5
  <1>12. SimpleMove(p, n)
    BY <1>2, <1>4, <1>6, <1>7, <1>8, <1>9, <1>10, <1>11, PullIsNot DEF SimpleMove, BeforeRun
  <1> QED BY <1>12

LEMMA DiesMove ==
    ASSUME PullingInv, NEW p \in Processes, Die(p)
    PROVE  \E n : SimpleMove(p, n)
  <1>1. /\ pulling[p] \in Pull
        /\ pulling' = [pulling EXCEPT ![p] = NoPull]
        /\ UNCHANGED <<company, editing, edits, overlapped, runs, sees, cursor>>
    BY Pulling DEF Die, Step, companyVars, nfseDocs
  <1>2. cursor \in [Envs -> Nat \cup {NoCursor}]
    BY DEF PullingInv, CompaniesTypeOK
  <1>3. SimpleMove(p, NoPull)
    BY <1>1, <1>2 DEF SimpleMove
  <1> QED BY <1>3

-----------------------------------------------------------------------------
(* The steps that write a run.                                             *)

\* What a step does to the company and the documents when it is about runs.
OnlyRuns == UNCHANGED <<companyVars, nfseDocs, initialDone, nfseResets>>

PullsKept ==
    /\ CompaniesTypeOK' /\ PullsType' /\ PullsFit' /\ RunsCleared' /\ RunsInterrupted'
    /\ PolicyKept' /\ NothingBefore' /\ EditIsAlone'

LEMMA OnlyRunsKeeps ==
    ASSUME PullingInv, NEW p \in Processes, pulling[p] # NoPull, OnlyRuns
    PROVE  CompaniesTypeOK' /\ PolicyKept' /\ NothingBefore' /\ EditIsAlone'
  <1>1. company # NoCompany /\ (editing # NoEdit => editing.raced)
    BY DEF PullingInv, NothingBefore, EditIsAlone
  <1>2. NothingBefore' /\ EditIsAlone'
    BY <1>1 DEF OnlyRuns, companyVars, NothingBefore, EditIsAlone
  <1>3. CompaniesTypeOK' /\ PolicyKept'
    BY DEF OnlyRuns, companyVars, nfseDocs, CompaniesTypeOK, PolicyKept, PullingInv
  <1> QED BY <1>2, <1>3

LEMMA RunFacts ==
    ASSUME PullingInv, NEW j \in 1 .. Len(runs)
    PROVE  /\ runs[j].cleared \in Nat /\ runs[j].cleared <= Len(runs)
           /\ \A i \in 1 .. runs[j].cleared : runs[i].status # "running"
  <1>1. runs \in Seq(Run)
    BY DEF PullingInv, PullsType
  <1>2. PICK r \in Run : r = runs[j]
    BY <1>1
  <1>3. runs[j].cleared \in Nat
    BY <1>2 DEF Run
  <1>4. j \in DOMAIN runs
    BY <1>1
  <1>5. runs[j].cleared <= Len(runs)
    BY <1>4 DEF PullingInv, RunsCleared
  <1>6. \A i \in 1 .. runs[j].cleared : runs[i].status # "running"
    BY <1>4 DEF PullingInv, RunsInterrupted
  <1> QED BY <1>3, <1>5, <1>6

\* The rows a step changes keep what they counted; none becomes running.
LEMMA RunsChange ==
    ASSUME PullingInv, NEW p \in Processes, NEW n \in {NoPull} \cup Pull,
           pulling[p] # NoPull, OnlyRuns,
           pulling' = [pulling EXCEPT ![p] = n],
           runs' \in Seq(Run), Len(runs') = Len(runs),
           \A i \in 1 .. Len(runs) :
              /\ runs'[i].cleared = runs[i].cleared
              /\ runs[i].status # "running" => runs'[i].status # "running",
           n # NoPull /\ n.run = 0 => p \in Opening,
           n # NoPull => PullFits(n)'
    PROVE  PullsKept
  <1>1. PullsType /\ Len(runs) \in Nat
    BY DEF PullingInv, PullsType
  <1>2. PullsType'
    <2>1. Cardinality(Opening') \in Nat /\ Cardinality(Opening') <= Cardinality(Opening)
      BY <1>1, OpeningShrinks
    <2>2. MaxRuns \in Nat /\ Cardinality(Opening) \in Nat
      BY NFSeAssumption, OpeningFinite, FS_CardinalityType
    <2>3. Len(runs') + Cardinality(Opening') <= MaxRuns
      BY <1>1, <2>1, <2>2 DEF PullsType
    <2> QED BY <1>1, <2>3 DEF PullsType
  <1>3. NFSeGrows
    BY <1>1 DEF NFSeGrows, OnlyRuns, companyVars, nfseDocs
  <1>4. PullsFit'
    BY <1>1, <1>2, <1>3, PullsFitStep DEF PullingInv
  <1>5. RunsCleared' /\ RunsInterrupted'
    <2> SUFFICES ASSUME NEW j \in 1 .. Len(runs)
                 PROVE  /\ runs'[j].cleared <= Len(runs')
                        /\ \A i \in 1 .. runs'[j].cleared : runs'[i].status # "running"
      BY <1>1, <1>2 DEF RunsCleared, RunsInterrupted, PullsType
    <2>1. PICK k : k = runs[j].cleared
      OBVIOUS
    <2>2. k \in Nat /\ k <= Len(runs) /\ \A i \in 1 .. k : runs[i].status # "running"
      BY <2>1, RunFacts
    <2>3. \A i \in 1 .. k : runs'[i].status # "running"
      BY <1>1, <2>2
    <2> QED BY <2>1, <2>2, <2>3
  <1> QED BY <1>2, <1>4, <1>5, OnlyRunsKeeps DEF PullsKept

LEMMA InterruptKeeps ==
    ASSUME PullingInv, NEW p \in Processes, InterruptRuns(p)
    PROVE  PullsKept
  <1>1. pulling[p] # NoPull
    BY DEF InterruptRuns, At, NoPull
  <1>2. PICK o \in Pull : o = pulling[p] /\ PullFits(o)
    BY <1>1, Pulling
  <1>3. runs \in Seq(Run) /\ Len(runs) \in Nat /\ DOMAIN runs = 1 .. Len(runs)
    BY DEF PullingInv, PullsType
  <1>4. PICK m \in Nat : m = Len(runs)
    BY <1>3
  <1>5. PICK n : n = [o EXCEPT !.stage = "cleared", !.cleared = m]
    OBVIOUS
  <1>6. /\ n \in Pull /\ n.stage = "cleared" /\ n.at = o.at /\ n.env = o.env
        /\ n.start = o.start /\ n.run = o.run /\ n.cleared = m
    BY <1>5 DEF Pull, PullStages
  <1>7. pulling' = [pulling EXCEPT ![p] = n] /\ o.stage = "read"
    BY <1>2, <1>4, <1>5 DEF InterruptRuns, At, Step
  <1>8. ASSUME NEW i \in 1 .. Len(runs)
        PROVE  /\ runs'[i] \in Run
               /\ runs'[i].cleared = runs[i].cleared
               /\ runs'[i].status # "running"
    <2>1. PICK r \in Run : r = runs[i]
      BY <1>3
    <2>2. runs'[i] = IF r.status = "running" THEN [r EXCEPT !.status = "interrupted"] ELSE r
      BY <1>3, <2>1 DEF InterruptRuns, Covered
    <2> QED BY <2>1, <2>2 DEF Run
  <1>9. runs' \in Seq(Run) /\ Len(runs') = Len(runs)
    <2>1. runs' = [i \in 1 .. Len(runs) |-> runs'[i]]
      BY <1>3 DEF InterruptRuns
    <2> QED BY <1>3, <1>8, <2>1
  <1>10. PullFits(n)'
    <2>1. UNCHANGED <<overlapped, company, sees>>
      BY DEF InterruptRuns, companyVars, nfseDocs
    <2>2. \A i \in 1 .. n.cleared : runs'[i].status # "running"
      BY <1>4, <1>6, <1>8
    <2>3. n.run <= Len(runs') /\ n.cleared <= Len(runs')
      BY <1>2, <1>3, <1>4, <1>6, <1>9 DEF PullFits
    <2>4. ~overlapped => \A i \in 1 .. n.at : Passed(n.env, i, n.start)'
      BY <1>2, <1>6, <2>1 DEF PullFits, Passed
    <2>5. n.run = 0 /\ (~overlapped => n.start = company.start)
      BY <1>2, <1>6, <1>7 DEF PullFits, BeforeRun
    <2> QED BY <1>6, <2>1, <2>2, <2>3, <2>4, <2>5 DEF PullFits
  <1>11. p \in Opening
    BY <1>1, <1>2, <1>7 DEF Opening, PullFits, BeforeRun
  <1>12. OnlyRuns
    BY DEF InterruptRuns, OnlyRuns
  <1> QED BY <1>1, <1>6, <1>7, <1>8, <1>9, <1>10, <1>11, <1>12, RunsChange

LEMMA FinishPullKeeps ==
    ASSUME PullingInv, NEW p \in Processes, FinishRun(p)
    PROVE  PullsKept
  <1>1. pulling[p] # NoPull
    BY DEF FinishRun
  <1>2. PICK o \in Pull : o = pulling[p] /\ PullFits(o)
    BY <1>1, Pulling
  <1>3. runs \in Seq(Run) /\ Len(runs) \in Nat /\ DOMAIN runs = 1 .. Len(runs)
    BY DEF PullingInv, PullsType
  <1>4. o.run \in 1 .. Len(runs)
    BY <1>2, <1>3 DEF FinishRun, PullFits, Pull
  <1>5. runs' = [runs EXCEPT ![o.run].status = "finished"]
    BY <1>2 DEF FinishRun
  <1>6. ASSUME NEW i \in 1 .. Len(runs)
        PROVE  /\ runs'[i] \in Run
               /\ runs'[i].cleared = runs[i].cleared
               /\ runs[i].status # "running" => runs'[i].status # "running"
    <2>1. PICK r \in Run : r = runs[i]
      BY <1>3
    <2>2. runs'[i] = IF i = o.run THEN [r EXCEPT !.status = "finished"] ELSE r
      BY <1>3, <1>4, <1>5, <2>1
    <2> QED BY <2>1, <2>2 DEF Run
  <1>7. runs' \in Seq(Run) /\ Len(runs') = Len(runs)
    <2>1. runs' = [i \in 1 .. Len(runs) |-> runs'[i]]
      BY <1>3, <1>4, <1>5
    <2> QED BY <1>3, <1>6, <2>1
  <1>8. pulling' = [pulling EXCEPT ![p] = NoPull] /\ OnlyRuns
    BY DEF FinishRun, Step, OnlyRuns
  <1> QED BY <1>1, <1>6, <1>7, <1>8, RunsChange

LEMMA InsertKeeps ==
    ASSUME PullingInv, NEW p \in Processes, InsertRun(p)
    PROVE  PullsKept
  <1>1. pulling[p] # NoPull
    BY DEF InsertRun, At, NoPull
  <1>2. PICK o \in Pull : o = pulling[p] /\ PullFits(o)
    BY <1>1, Pulling
  <1>3. runs \in Seq(Run) /\ Len(runs) \in Nat /\ DOMAIN runs = 1 .. Len(runs)
    BY DEF PullingInv, PullsType
  <1>4. PICK m \in Nat : m = Len(runs) + 1
    BY <1>3
  <1>5. PICK n : n = [o EXCEPT !.stage = "walking", !.run = m]
    OBVIOUS
  <1>6. /\ n \in Pull /\ n.stage = "walking" /\ n.at = o.at /\ n.env = o.env
        /\ n.start = o.start /\ n.run = m /\ n.cleared = o.cleared
    BY <1>5 DEF Pull, PullStages
  <1>7. pulling' = [pulling EXCEPT ![p] = n] /\ o.stage = "cleared"
    BY <1>2, <1>4, <1>5 DEF InsertRun, At, Step
  <1>8. PICK r : r = [status |-> "running", env |-> o.env, cleared |-> o.cleared]
    OBVIOUS
  <1>9. r \in Run /\ r.cleared = o.cleared
    BY <1>8 DEF Run, Pull
  <1>10. runs' = Append(runs, r)
    BY <1>2, <1>8 DEF InsertRun
  <1>11. /\ runs' \in Seq(Run) /\ Len(runs') = m
         /\ \A i \in 1 .. Len(runs) : runs'[i] = runs[i]
         /\ runs'[m] = r
    BY <1>3, <1>4, <1>9, <1>10
  <1>12. PullsType /\ PullsFit
    BY DEF PullingInv
  <1>13. PullsType'
    <2>1. p \in Opening /\ Opening' = Opening \ {p}
      <3>1. p \in Opening
        BY <1>1, <1>2, <1>7 DEF Opening, PullFits, BeforeRun
      <3>2. n # NoPull /\ n.run # 0
        BY <1>3, <1>4, <1>6, PullIsNot
      <3> QED BY <1>7, <1>12, <3>1, <3>2 DEF Opening, PullsType
    <2>2. Cardinality(Opening') = Cardinality(Opening) - 1
      BY <2>1, OpeningFinite, FS_RemoveElement
    <2>3. Cardinality(Opening) \in Nat /\ MaxRuns \in Nat
      BY OpeningFinite, FS_CardinalityType, NFSeAssumption
    <2>4. Len(runs') + Cardinality(Opening') <= MaxRuns
      BY <1>3, <1>4, <1>11, <1>12, <2>2, <2>3 DEF PullsType
    <2> QED BY <1>6, <1>7, <1>11, <1>12, <2>4 DEF PullsType
  <1>14. OnlyRuns
    BY DEF InsertRun, OnlyRuns
  <1>15. NFSeGrows
    BY <1>3, <1>4, <1>11, <1>14 DEF NFSeGrows, OnlyRuns, companyVars, nfseDocs
  <1>16. PullFits(o)'
    BY <1>2, <1>12, <1>13, <1>15, FitsGrows
  <1>17. PullFits(n)'
    <2>1. n.run <= Len(runs')
      BY <1>6, <1>11
    <2>2. ~overlapped' => \A i \in 1 .. n.at : Passed(n.env, i, n.start)'
      BY <1>6, <1>16 DEF PullFits
    <2> QED BY <1>6, <1>16, <2>1, <2>2 DEF PullFits, BeforeRun
  <1>18. PullsFit'
    BY <1>7, <1>12, <1>13, <1>15, <1>17, PullsFitStep
  <1>19. RunsCleared' /\ RunsInterrupted'
    <2> SUFFICES ASSUME NEW j \in 1 .. m
                 PROVE  /\ runs'[j].cleared <= Len(runs')
                        /\ \A i \in 1 .. runs'[j].cleared : runs'[i].status # "running"
      BY <1>11 DEF RunsCleared, RunsInterrupted
    <2>1. CASE j = m
      <3>1. runs'[j].cleared = o.cleared
        BY <1>9, <1>11, <2>1
      <3> QED BY <1>16, <3>1 DEF PullFits
    <2>2. CASE j # m
      <3>1. j \in 1 .. Len(runs) /\ runs'[j] = runs[j]
        BY <1>3, <1>4, <1>11, <2>2
      <3>2. PICK k : k = runs[j].cleared
        OBVIOUS
      <3>3. k \in Nat /\ k <= Len(runs) /\ \A i \in 1 .. k : runs[i].status # "running"
        BY <3>1, <3>2, RunFacts
      <3>4. \A i \in 1 .. k : runs'[i].status # "running"
        BY <1>3, <1>11, <3>3
      <3> QED BY <1>3, <1>4, <1>11, <3>1, <3>2, <3>3, <3>4
    <2> QED BY <2>1, <2>2
  <1> QED BY <1>1, <1>13, <1>14, <1>18, <1>19, OnlyRunsKeeps DEF PullsKept

-----------------------------------------------------------------------------
(* The start of a pull, the reset, the registration and the edits.         *)

LEMMA NoneTypes ==
    /\ NoCompany \notin CompanyRow
    /\ \A e \in [env : Envs, start : Starts, raced : BOOLEAN] : e # NoEdit
  <1>1. NoCompany \notin CompanyRow
    BY CompaniesAssumption DEF NoCompany, CompanyRow
  <1>2. ASSUME NEW e \in [env : Envs, start : Starts, raced : BOOLEAN] PROVE e # NoEdit
    <2>1. e.start \in Nat
      BY CompaniesAssumption
    <2>2. NoEdit.start = -1
      BY DEF NoEdit
    <2> QED BY <2>1, <2>2
  <1> QED BY <1>1, <1>2

LEMMA EditFields ==
    ASSUME CompaniesTypeOK, editing # NoEdit
    PROVE  editing.env \in Envs /\ editing.start \in Starts /\ editing.raced \in BOOLEAN
  <1>1. editing \in [env : Envs, start : Starts, raced : BOOLEAN]
    BY DEF CompaniesTypeOK
  <1> QED BY <1>1

LEMMA CompanyFields ==
    ASSUME CompaniesTypeOK, company # NoCompany
    PROVE  company.env \in Envs /\ company.start \in Starts
  <1>1. company \in CompanyRow
    BY DEF CompaniesTypeOK
  <1> QED BY <1>1 DEF CompanyRow

LEMMA EditMade ==
    ASSUME NEW env \in Envs, NEW start \in Starts, NEW raced \in BOOLEAN, NEW e,
           e = [env |-> env, start |-> start, raced |-> raced]
    PROVE  /\ e \in [env : Envs, start : Starts, raced : BOOLEAN]
           /\ e # NoEdit /\ e.env = env /\ e.start = start /\ e.raced = raced
  <1>1. e \in [env : Envs, start : Starts, raced : BOOLEAN]
    OBVIOUS
  <1> QED BY <1>1, NoneTypes

LEMMA ReadCompanyKeeps ==
    ASSUME PullingInv, NEW p \in Processes, ReadCompany(p)
    PROVE  PullsKept
  <1>1. /\ pulling[p] = NoPull /\ company # NoCompany
        /\ UNCHANGED <<company, cursor, edits, overlapped, nfseDocs, initialDone, runs, nfseResets>>
        /\ MarkRaced
    BY DEF ReadCompany
  <1>2. company.env \in Envs /\ company.start \in Starts
    BY <1>1, CompanyFields DEF PullingInv
  <1>3. PICK n : n = [stage |-> "reserved", env |-> company.env, start |-> company.start,
                      at |-> 0, done |-> FALSE, cleared |-> 0, run |-> 0]
    OBVIOUS
  <1>4. /\ n \in Pull /\ n.stage = "reserved" /\ n.at = 0 /\ n.start = company.start
        /\ n.cleared = 0 /\ n.run = 0
    BY <1>2, <1>3 DEF Pull, PullStages
  <1>5. pulling' = [pulling EXCEPT ![p] = n]
    BY <1>3 DEF ReadCompany, Step
  <1>6. PullsType /\ PullsFit /\ Len(runs) \in Nat
    BY DEF PullingInv, PullsType
  <1>7. PullsType'
    <2>1. Opening' = Opening \cup {p} /\ p \notin Opening
      BY <1>1, <1>4, <1>5, <1>6, PullIsNot DEF Opening, PullsType
    <2>2. Cardinality(Opening') = Cardinality(Opening) + 1
      BY <2>1, OpeningFinite, FS_AddElement
    <2>3. Cardinality(Opening) \in Nat /\ MaxRuns \in Nat
      BY OpeningFinite, FS_CardinalityType, NFSeAssumption
    <2>4. Len(runs) + Cardinality(Opening) < MaxRuns
      BY DEF ReadCompany, Opening
    <2>5. Len(runs') + Cardinality(Opening') <= MaxRuns
      BY <1>1, <1>6, <2>2, <2>3, <2>4
    <2> QED BY <1>1, <1>4, <1>5, <1>6, <2>5 DEF PullsType
  <1>8. NFSeGrows
    BY <1>1, <1>6 DEF NFSeGrows, nfseDocs
  <1>9. PullFits(n)'
    <2>1. n.run <= Len(runs') /\ n.cleared <= Len(runs') /\ n.start = company'.start
      BY <1>1, <1>4, <1>6
    <2>2. \A i \in 1 .. 0 : FALSE
      OBVIOUS
    <2> QED BY <1>4, <2>1, <2>2 DEF PullFits
  <1>10. PullsFit'
    BY <1>5, <1>6, <1>7, <1>8, <1>9, PullsFitStep
  <1>11. RunsCleared' /\ RunsInterrupted' /\ PolicyKept'
    BY <1>1 DEF PullingInv, RunsCleared, RunsInterrupted, PolicyKept, nfseDocs
  <1>12. NothingBefore'
    BY <1>1 DEF NothingBefore
  <1>13. CompaniesTypeOK' /\ EditIsAlone'
    <2>1. CASE editing = NoEdit
      <3>1. editing' = NoEdit
        BY <1>1, <2>1 DEF MarkRaced
      <3> QED BY <1>1, <3>1 DEF PullingInv, CompaniesTypeOK, EditIsAlone
    <2>2. CASE editing # NoEdit
      <3>1. editing.env \in Envs /\ editing.start \in Starts
        BY <2>2, EditFields DEF PullingInv
      <3>2. PICK e : e = [env |-> editing.env, start |-> editing.start, raced |-> TRUE]
        OBVIOUS
      <3>3. editing' = e
        BY <1>1, <2>2, <3>2 DEF MarkRaced
      <3>4. e \in [env : Envs, start : Starts, raced : BOOLEAN] /\ e.raced = TRUE
        BY <3>1, <3>2, EditMade
      <3> QED BY <1>1, <3>3, <3>4 DEF PullingInv, CompaniesTypeOK, EditIsAlone
    <2> QED BY <2>1, <2>2
  <1> QED BY <1>7, <1>10, <1>11, <1>12, <1>13 DEF PullsKept

\* A step that moves no pull, writes no run and moves the company.
LEMMA CompanyMoves ==
    ASSUME PullingInv, UNCHANGED <<nfseDocs, runs, pulling>>, overlapped => overlapped',
           \/ overlapped' \/ company'.start = company.start
           \/ \A p \in Processes : pulling[p] = NoPull
    PROVE  PullsType' /\ PullsFit' /\ RunsCleared' /\ RunsInterrupted'
  <1>1. PullsType /\ PullsFit /\ Len(runs) \in Nat
    BY DEF PullingInv, PullsType
  <1>2. Opening' = Opening
    BY DEF Opening
  <1>3. PullsType' /\ RunsCleared' /\ RunsInterrupted'
    BY <1>1, <1>2 DEF PullingInv, PullsType, RunsCleared, RunsInterrupted
  <1>4. PullsFit'
    <2>1. CASE \A p \in Processes : pulling[p] = NoPull
      BY <2>1 DEF PullsFit
    <2>2. CASE overlapped' \/ company'.start = company.start
      <3>1. NFSeGrows
        BY <1>1, <2>2 DEF NFSeGrows, nfseDocs
      <3> SUFFICES ASSUME NEW q \in Processes, pulling'[q] # NoPull
                   PROVE  PullFits(pulling[q])'
        BY DEF PullsFit
      <3>2. PICK o \in Pull : o = pulling[q] /\ PullFits(o)
        BY Pulling
      <3>3. PullFits(o)' /\ pulling'[q] = o
        BY <1>1, <1>3, <3>1, <3>2, FitsGrows
      <3> QED BY <3>3, Zenon DEF PullFits, Passed
    <2> QED BY <2>1, <2>2
  <1> QED BY <1>3, <1>4

LEMMA ResetKeeps ==
    ASSUME PullingInv, NEW p \in Processes, ResetNFSe(p)
    PROVE  PullsKept
  <1>1. /\ company # NoCompany /\ cursor' = [e \in Envs |-> NoCursor]
        /\ UNCHANGED <<company, editing, edits, overlapped, nfseDocs, runs, pulling>>
    BY DEF ResetNFSe
  <1>2. PullsType' /\ PullsFit' /\ RunsCleared' /\ RunsInterrupted'
    BY <1>1, CompanyMoves
  <1>3. CompaniesTypeOK'
    BY <1>1 DEF PullingInv, CompaniesTypeOK
  <1>4. PolicyKept'
    BY <1>1 DEF PolicyKept, NoCursor
  <1>5. NothingBefore' /\ EditIsAlone'
    BY <1>1 DEF PullingInv, NothingBefore, EditIsAlone, HasSyncState
  <1> QED BY <1>2, <1>3, <1>4, <1>5 DEF PullsKept

LEMMA AddKeeps ==
    ASSUME PullingInv, AddCompany, UNCHANGED <<nfseDocs, runs, pulling>>
    PROVE  PullsKept
  <1>1. /\ company = NoCompany /\ company' \in CompanyRow /\ company' # NoCompany
        /\ UNCHANGED <<cursor, editing, edits, overlapped>>
    BY CompaniesAssumption, NoneTypes DEF AddCompany
  <1>2. /\ cursor = [e \in Envs |-> NoCursor]
        /\ editing = NoEdit
        /\ \A p \in Processes : pulling[p] = NoPull
    BY <1>1 DEF PullingInv, NothingBefore
  <1>3. PullsType' /\ PullsFit' /\ RunsCleared' /\ RunsInterrupted'
    BY <1>1, <1>2, CompanyMoves
  <1>4. CompaniesTypeOK'
    BY <1>1 DEF PullingInv, CompaniesTypeOK
  <1>5. PolicyKept'
    BY <1>1, <1>2 DEF PolicyKept, NoCursor
  <1>6. NothingBefore' /\ EditIsAlone'
    BY <1>1, <1>2 DEF NothingBefore, EditIsAlone
  <1> QED BY <1>3, <1>4, <1>5, <1>6 DEF PullsKept

LEMMA CheckKeeps ==
    ASSUME PullingInv, NEW input \in EditInputs,
           CheckEdit(input, \E p \in Processes : pulling[p] # NoPull),
           UNCHANGED <<nfseDocs, runs, pulling>>
    PROVE  PullsKept
  <1>1. PICK busy \in BOOLEAN : busy = (\E p \in Processes : pulling[p] # NoPull)
    OBVIOUS
  <1>2. /\ company # NoCompany /\ editing = NoEdit /\ edits' \in 0 .. MaxEdits
        /\ UNCHANGED <<company, cursor, overlapped>>
    BY CompaniesAssumption DEF CheckEdit, PullingInv, CompaniesTypeOK
  <1>3. company.start \in Starts /\ input.env \in Envs /\ input.start \in Starts
    BY <1>2, CompanyFields, CompaniesAssumption DEF PullingInv, CompanyRow
  <1>4. PICK start \in Starts :
            /\ start # company.start => ~HasSyncState
            /\ editing' = [env |-> input.env, start |-> start, raced |-> busy]
    BY <1>1, <1>3 DEF CheckEdit
  <1>5. /\ editing' \in [env : Envs, start : Starts, raced : BOOLEAN]
        /\ editing'.start = start /\ editing'.raced = busy
    BY <1>3, <1>4, EditMade
  <1>6. PullsType' /\ PullsFit' /\ RunsCleared' /\ RunsInterrupted'
    BY <1>2, CompanyMoves
  <1>7. CompaniesTypeOK'
    BY <1>2, <1>5 DEF PullingInv, CompaniesTypeOK
  <1>8. PolicyKept'
    BY <1>2 DEF PullingInv, PolicyKept, nfseDocs
  <1>9. NothingBefore' /\ EditIsAlone'
    BY <1>1, <1>2, <1>4, <1>5 DEF NothingBefore, EditIsAlone, HasSyncState
  <1> QED BY <1>6, <1>7, <1>8, <1>9 DEF PullsKept

LEMMA WriteEditKeeps ==
    ASSUME PullingInv, WriteEdit, UNCHANGED <<nfseDocs, runs, pulling>>
    PROVE  PullsKept
  <1>1. /\ editing # NoEdit /\ editing' = NoEdit
        /\ company' = [env |-> editing.env, start |-> editing.start]
        /\ overlapped' = (overlapped \/ (editing.raced /\ editing.start # company.start))
        /\ UNCHANGED <<cursor, edits>>
    BY DEF WriteEdit
  <1>2. editing.env \in Envs /\ editing.start \in Starts
    BY <1>1, EditFields DEF PullingInv
  <1>3. company' \in CompanyRow /\ company' # NoCompany /\ company'.start = editing.start
    BY <1>1, <1>2, NoneTypes DEF CompanyRow
  <1>4. \/ overlapped' \/ company'.start = company.start
        \/ (\A p \in Processes : pulling[p] = NoPull) /\ ~HasSyncState
    BY <1>1, <1>3 DEF PullingInv, EditIsAlone
  <1>5. PullsType' /\ PullsFit' /\ RunsCleared' /\ RunsInterrupted'
    BY <1>1, <1>4, CompanyMoves
  <1>6. CompaniesTypeOK'
    <2>1. overlapped' \in BOOLEAN
      BY <1>1 DEF PullingInv, CompaniesTypeOK
    <2> QED BY <1>1, <1>3, <2>1 DEF PullingInv, CompaniesTypeOK
  <1>7. PolicyKept'
    <2>1. CASE overlapped'
      BY <2>1 DEF PolicyKept
    <2>2. CASE company'.start = company.start /\ ~overlapped'
      BY <1>1, <2>2 DEF PullingInv, PolicyKept, nfseDocs
    <2>3. CASE ~HasSyncState
      BY <1>1, <2>3 DEF PolicyKept, HasSyncState, NoCursor
    <2> QED BY <1>4, <2>1, <2>2, <2>3
  <1>8. NothingBefore' /\ EditIsAlone'
    BY <1>1, <1>3 DEF NothingBefore, EditIsAlone
  <1> QED BY <1>5, <1>6, <1>7, <1>8 DEF PullsKept

LEMMA AbandonPullKeeps ==
    ASSUME PullingInv, AbandonEdit \/ UNCHANGED companyVars, UNCHANGED <<nfseDocs, runs, pulling>>
    PROVE  PullsKept
  <1>1. /\ editing' = NoEdit \/ editing' = editing
        /\ company # NoCompany \/ editing' = editing
        /\ UNCHANGED <<company, cursor, edits, overlapped>>
    BY DEF AbandonEdit, companyVars, PullingInv, NothingBefore
  <1>2. PullsType' /\ PullsFit' /\ RunsCleared' /\ RunsInterrupted'
    BY <1>1, CompanyMoves
  <1>3. CompaniesTypeOK' /\ PolicyKept'
    BY <1>1 DEF PullingInv, CompaniesTypeOK, PolicyKept, nfseDocs
  <1>4. NothingBefore' /\ EditIsAlone'
    BY <1>1 DEF PullingInv, NothingBefore, EditIsAlone, HasSyncState
  <1> QED BY <1>2, <1>3, <1>4 DEF PullsKept

-----------------------------------------------------------------------------
(* The tables.                                                             *)

LEMMA StatusFromEventsType == \A evs : StatusFromEvents(evs) \in NFSeStatuses
  BY DEF StatusFromEvents, NFSeStatuses

LEMMA StoreKeeps ==
    ASSUME PullingInv, NEW p \in Processes, StoreNFSe(p)
    PROVE  NFSeTableType' /\ StatusFollowsEvents'
  <1>1. pulling[p] # NoPull
    BY DEF StoreNFSe, At, NoPull
  <1>2. PICK o \in Pull : o = pulling[p] /\ PullFits(o)
    BY <1>1, Pulling
  <1>3. PICK k \in Chaves : k = NextNFSe(p).chave
    BY <1>2, FeedItem DEF StoreNFSe, Left, NextNFSe
  <1>4. /\ status' = [status EXCEPT ![k] = StatusFromEvents(EventsOf(k))]
        /\ sees' = sees \cup {k}
        /\ nfseLinked' = nfseLinked \cup EventsOf(k)
        /\ UNCHANGED <<nfseEvents, initialDone, nfseResets>>
    BY <1>3 DEF StoreNFSe, UpsertDocument, StatusAfterUpsert, UpsertCompanyDocument, LinkEvents
  <1>5. status \in [Chaves -> {"none"} \cup NFSeStatuses]
    BY DEF PullingInv, NFSeTableType
  <1>6. NFSeTableType'
    BY <1>3, <1>4, <1>5, StatusFromEventsType DEF PullingInv, NFSeTableType, EventsOf
  <1>7. StatusFollowsEvents'
    <2> SUFFICES ASSUME NEW l \in Chaves, status'[l] # "none"
                 PROVE  /\ status'[l] = StatusFromEvents(EventsOf(l))'
                        /\ EventsOf(l)' \subseteq nfseLinked'
      BY DEF StatusFollowsEvents
    <2>1. EventsOf(l)' = EventsOf(l)
      BY <1>4 DEF EventsOf
    <2>2. StatusFromEvents(EventsOf(l))' = StatusFromEvents(EventsOf(l))
      BY <1>4 DEF StatusFromEvents, EventTypes, EventsOf
    <2>3. CASE l = k
      BY <1>3, <1>4, <1>5, <2>1, <2>2, <2>3
    <2>4. CASE l # k
      <3>1. status'[l] = status[l]
        BY <1>4, <1>5, <2>4
      <3> QED BY <1>4, <2>1, <2>2, <3>1 DEF PullingInv, StatusFollowsEvents
    <2> QED BY <2>3, <2>4
  <1> QED BY <1>6, <1>7

LEMMA EventKeeps ==
    ASSUME PullingInv, NEW p \in Processes, StoreNFSeEvent(p)
    PROVE  NFSeTableType' /\ StatusFollowsEvents'
  <1>1. pulling[p] # NoPull
    BY DEF StoreNFSeEvent, At, NoPull
  <1>2. PICK o \in Pull : o = pulling[p] /\ PullFits(o)
    BY <1>1, Pulling
  <1>3. PICK x \in NFSeEvent : x = NextNFSe(p)
    <2>1. o.at < Len(NFSeFeed[o.env]) /\ NFSeFeed[o.env][o.at + 1].kind = "event"
      BY <1>2 DEF StoreNFSeEvent, At, PullFits
    <2> QED BY <1>2, <2>1, FeedItem DEF NextNFSe
  <1>4. x.chave \in Chaves
    BY DEF NFSeEvent
  <1>5. /\ nfseEvents' = nfseEvents \cup {x}
        /\ nfseLinked' = IF x \in nfseEvents \/ status[x.chave] = "none" THEN nfseLinked
                         ELSE nfseLinked \cup {x}
        /\ status' = IF status[x.chave] = "none" THEN status
                     ELSE [status EXCEPT ![x.chave] = StatusFromEvents(EventsOf(x.chave) \cup {x})]
        /\ UNCHANGED <<sees, initialDone, nfseResets>>
    BY <1>3 DEF StoreNFSeEvent, InsertEvent, RecomputeStatus
  <1>6. status \in [Chaves -> {"none"} \cup NFSeStatuses]
    BY DEF PullingInv, NFSeTableType
  <1>7. NFSeTableType'
    <2>1. status' \in [Chaves -> {"none"} \cup NFSeStatuses]
      BY <1>4, <1>5, <1>6, StatusFromEventsType
    <2> QED BY <1>5, <2>1 DEF PullingInv, NFSeTableType
  <1>8. StatusFollowsEvents'
    <2> SUFFICES ASSUME NEW l \in Chaves, status'[l] # "none"
                 PROVE  /\ status'[l] = StatusFromEvents(EventsOf(l))'
                        /\ EventsOf(l)' \subseteq nfseLinked'
      BY DEF StatusFollowsEvents
    <2>1. CASE l = x.chave
      <3>1. EventsOf(l)' = EventsOf(l) \cup {x}
        BY <1>5, <2>1 DEF EventsOf
      <3>2. status[l] # "none"
        BY <1>5, <2>1
      <3>3. EventsOf(l) \subseteq nfseLinked
        BY <3>2 DEF PullingInv, StatusFollowsEvents
      <3>4. status'[l] = StatusFromEvents(EventsOf(l) \cup {x})
        BY <1>5, <1>6, <2>1, <3>2
      <3>5. StatusFromEvents(EventsOf(l))' = StatusFromEvents(EventsOf(l) \cup {x})
        BY <3>1 DEF StatusFromEvents, EventTypes
      <3>6. x \in nfseEvents => x \in EventsOf(l)
        BY <2>1 DEF EventsOf
      <3> QED BY <1>5, <2>1, <3>1, <3>2, <3>3, <3>4, <3>5, <3>6
    <2>2. CASE l # x.chave
      <3>1. EventsOf(l)' = EventsOf(l)
        BY <1>5, <2>2 DEF EventsOf
      <3>2. status'[l] = status[l]
        BY <1>5, <1>6, <2>2
      <3>3. StatusFromEvents(EventsOf(l))' = StatusFromEvents(EventsOf(l))
        BY <3>1 DEF StatusFromEvents, EventTypes
      <3> QED BY <1>5, <3>1, <3>2, <3>3 DEF PullingInv, StatusFollowsEvents
    <2> QED BY <2>1, <2>2
  <1> QED BY <1>7, <1>8

\* Any other step leaves the documents alone.
LEMMA TablesStay ==
    ASSUME PullingInv, UNCHANGED nfseDocs,
           initialDone' \subseteq Envs, nfseResets' \in 0 .. MaxNFSeResets
    PROVE  NFSeTableType' /\ StatusFollowsEvents'
  <1>1. NFSeTableType'
    BY DEF PullingInv, NFSeTableType, nfseDocs
  <1>2. StatusFollowsEvents'
    BY DEF PullingInv, StatusFollowsEvents, nfseDocs, StatusFromEvents, EventTypes, EventsOf
  <1> QED BY <1>1, <1>2

-----------------------------------------------------------------------------

LEMMA PullingStep ==
    ASSUME PullingInv, [NFSeNext]_nfseVars
    PROVE  PullingInv'
  <1>0. nfseResets \in 0 .. MaxNFSeResets /\ initialDone \subseteq Envs /\ MaxNFSeResets \in Nat
    BY NFSeAssumption DEF PullingInv, NFSeTableType
  <1> DEFINE PullKept == NFSeTableType' /\ StatusFollowsEvents' /\ PullsKept
  <1>1. ASSUME NEW p \in Processes,
               \/ GetOrCreateState(p) \/ ReadSourceState(p) \/ InterruptFails(p)
               \/ StoreNFSe(p) \/ SkipNFSe(p) \/ StoreNFSeEvent(p) \/ DropNFSeEvent(p)
               \/ CheckNFSeEvent(p) \/ EmptyBatch(p) \/ MarkInitialSyncCompleted(p) \/ Die(p)
        PROVE  PullKept
    <2>1. \E n : SimpleMove(p, n)
      BY <1>1, OpensMove, WalksMove, WaitsMove, DiesMove
    <2>2. PullsKept
      BY <2>1, SimpleKeeps DEF PullsKept
    <2>3. CASE StoreNFSe(p) \/ StoreNFSeEvent(p)
      BY <2>2, <2>3, StoreKeeps, EventKeeps
    <2>4. CASE MarkInitialSyncCompleted(p)
      <3>1. pulling[p] # NoPull
        BY <2>4 DEF MarkInitialSyncCompleted, At, NoPull
      <3>2. pulling[p].env \in Envs
        BY <3>1, Pulling DEF Pull
      <3>3. initialDone' \subseteq Envs /\ UNCHANGED <<nfseDocs, nfseResets>>
        BY <1>0, <2>4, <3>2 DEF MarkInitialSyncCompleted
      <3> QED BY <1>0, <2>2, <3>3, TablesStay
    <2>5. CASE \/ GetOrCreateState(p) \/ ReadSourceState(p) \/ InterruptFails(p) \/ SkipNFSe(p) \/ DropNFSeEvent(p)
               \/ CheckNFSeEvent(p) \/ EmptyBatch(p) \/ Die(p)
      <3>1. UNCHANGED <<nfseDocs, initialDone, nfseResets>>
        BY <2>5 DEF GetOrCreateState, ReadSourceState, InterruptFails, SkipNFSe, DropNFSeEvent, CheckNFSeEvent,
                    EmptyBatch, Die
      <3> QED BY <1>0, <2>2, <3>1, TablesStay
    <2> QED BY <1>1, <2>3, <2>4, <2>5
  <1>2. ASSUME NEW p \in Processes, InterruptRuns(p) \/ InsertRun(p) \/ FinishRun(p) \/ ReadCompany(p)
        PROVE  PullKept
    <2>1. PullsKept
      BY <1>2, InterruptKeeps, InsertKeeps, FinishPullKeeps, ReadCompanyKeeps
    <2>2. UNCHANGED <<nfseDocs, initialDone, nfseResets>>
      BY <1>2 DEF InterruptRuns, InsertRun, FinishRun, ReadCompany
    <2> QED BY <1>0, <2>1, <2>2, TablesStay
  <1>3. ASSUME NEW p \in Processes, ResetNFSe(p) PROVE PullKept
    <2>1. UNCHANGED nfseDocs /\ initialDone' \subseteq Envs /\ nfseResets' \in 0 .. MaxNFSeResets
      BY <1>0, <1>3 DEF ResetNFSe
    <2> QED BY <1>3, <2>1, ResetKeeps, TablesStay
  <1>4. ASSUME EditCompany PROVE PullKept
    <2>1. UNCHANGED <<nfseDocs, initialDone, runs, pulling, nfseResets>>
      BY <1>4 DEF EditCompany
    <2>2. PullsKept
      <3>1. UNCHANGED <<nfseDocs, runs, pulling>>
        BY <2>1
      <3>2. ASSUME NEW input \in EditInputs,
                   CheckEdit(input, \E p \in Processes : pulling[p] # NoPull)
            PROVE  PullsKept
        BY <3>1, <3>2, CheckKeeps
      <3>3. CASE AddCompany
        BY <3>1, <3>3, AddKeeps
      <3>4. CASE WriteEdit
        BY <3>1, <3>4, WriteEditKeeps
      <3>5. CASE AbandonEdit
        BY <3>1, <3>5, AbandonPullKeeps
      <3> QED BY <1>4, <3>2, <3>3, <3>4, <3>5, Zenon DEF EditCompany
    <2>3. UNCHANGED nfseDocs /\ initialDone' \subseteq Envs /\ nfseResets' \in 0 .. MaxNFSeResets
      BY <1>0, <2>1
    <2>4. NFSeTableType' /\ StatusFollowsEvents'
      BY <2>3, TablesStay
    <2> QED BY <2>2, <2>4
  <1>5. ASSUME UNCHANGED nfseVars PROVE PullKept
    <2>1. UNCHANGED <<companyVars, nfseDocs, initialDone, runs, pulling, nfseResets>>
      BY <1>5 DEF nfseVars, nfseDocs
    <2>2. UNCHANGED companyVars /\ UNCHANGED <<nfseDocs, runs, pulling>>
      BY <2>1
    <2>3. PullsKept
      BY <2>2, AbandonPullKeeps
    <2>4. UNCHANGED nfseDocs /\ initialDone' \subseteq Envs /\ nfseResets' \in 0 .. MaxNFSeResets
      BY <1>0, <2>1
    <2>5. NFSeTableType' /\ StatusFollowsEvents'
      BY <2>4, TablesStay
    <2> QED BY <2>3, <2>5
  <1> HIDE DEF PullKept
  <1>6. PullKept
    <2>1. ASSUME NEW p \in Processes,
                 \/ ReadCompany(p) \/ GetOrCreateState(p) \/ ReadSourceState(p)
                 \/ InterruptRuns(p) \/ InterruptFails(p) \/ InsertRun(p)
                 \/ StoreNFSe(p) \/ SkipNFSe(p)
                 \/ CheckNFSeEvent(p) \/ StoreNFSeEvent(p) \/ DropNFSeEvent(p)
                 \/ EmptyBatch(p) \/ MarkInitialSyncCompleted(p) \/ FinishRun(p)
                 \/ Die(p)
                 \/ ResetNFSe(p)
          PROVE  PullKept
      BY <2>1, <1>1, <1>2, <1>3
    <2>2. CASE \E p \in Processes :
                 \/ ReadCompany(p) \/ GetOrCreateState(p) \/ ReadSourceState(p)
                 \/ InterruptRuns(p) \/ InterruptFails(p) \/ InsertRun(p)
                 \/ StoreNFSe(p) \/ SkipNFSe(p)
                 \/ CheckNFSeEvent(p) \/ StoreNFSeEvent(p) \/ DropNFSeEvent(p)
                 \/ EmptyBatch(p) \/ MarkInitialSyncCompleted(p) \/ FinishRun(p)
                 \/ Die(p)
                 \/ ResetNFSe(p)
      BY <2>1, <2>2
    <2> QED BY <2>2, <1>4, <1>5 DEF NFSeNext
  <1> QED BY <1>6 DEF PullKept, PullingInv, PullsKept

LEMMA PullingInit == NFSeInit => PullingInv
  <1> SUFFICES ASSUME NFSeInit PROVE PullingInv
    OBVIOUS
  <1>1. CompaniesInit
    BY DEF NFSeInit
  <1>2. CompaniesTypeOK
    <2>1. company \in {NoCompany} \cup CompanyRow
      BY <1>1, Zenon DEF CompaniesInit
    <2>2. cursor \in [Envs -> Nat \cup {NoCursor}]
      BY <1>1 DEF CompaniesInit
    <2>3. edits \in 0 .. MaxEdits
      BY <1>1, CompaniesAssumption DEF CompaniesInit
    <2>4. editing \in {NoEdit} \cup [env : Envs, start : Starts, raced : BOOLEAN]
      BY <1>1, Zenon DEF CompaniesInit
    <2> QED BY <1>1, <2>1, <2>2, <2>3, <2>4 DEF CompaniesInit, CompaniesTypeOK
  <1>3. NFSeTableType /\ StatusFollowsEvents
    BY NFSeAssumption DEF NFSeInit, NFSeTableType, StatusFollowsEvents
  <1>4. runs = <<>> /\ Len(runs) = 0
    BY DEF NFSeInit
  <1>5. \A p \in Processes : pulling[p] = NoPull
    BY DEF NFSeInit
  <1>6. Opening = {}
    BY <1>5 DEF Opening
  <1>7. PullsType
    <2>1. Cardinality(Opening) = 0
      BY <1>6, FS_EmptySet
    <2> QED BY <1>4, <2>1, NFSeAssumption DEF NFSeInit, PullsType
  <1>8. PullsFit /\ RunsCleared /\ RunsInterrupted
    BY <1>4, <1>5 DEF PullsFit, RunsCleared, RunsInterrupted
  <1>9. PolicyKept /\ NothingBefore /\ EditIsAlone
    BY <1>1, <1>5 DEF CompaniesInit, PolicyKept, NothingBefore, EditIsAlone, NoCursor
  <1> QED BY <1>2, <1>3, <1>7, <1>8, <1>9 DEF PullingInv

LEMMA PullingAlways == NFSeSpec => []PullingInv
  <1> QED BY PullingInit, PullingStep, PTL DEF NFSeSpec

\* Every row, run, edit and pull keeps its type, and a pull writes to a run that
\* has a row, for any feed, processes, edits and resets.
THEOREM PullTypes == NFSeSpec => []NFSeTypeOK
  <1> QED BY PullingAlways, NFSeTypeFromInv, PTL

\* The status of a stored NFS-e is the one its stored events give, and they are
\* linked to it, for any feed and any order in which the processes walk it.
THEOREM StatusIsOfEvents == NFSeSpec => []StatusFollowsEvents
  <1>1. PullingInv => StatusFollowsEvents
    BY DEF PullingInv
  <1> QED BY <1>1, PullingAlways, PTL

\* A run whose row was there when a later start interrupted what ran does not
\* show as running.  A start whose UPDATE failed interrupts nothing.
THEOREM RunsAreInterrupted == NFSeSpec => []RunsInterrupted
  <1>1. PullingInv => RunsInterrupted
    BY DEF PullingInv
  <1> QED BY <1>1, PullingAlways, PTL

\* What the cursor passed unseen was older than the start of the company, unless
\* an edit of the start overlapped a pull.
THEOREM PolicyIsKept == NFSeSpec => []PolicyKept
  <1>1. PullingInv => PolicyKept
    BY DEF PullingInv
  <1> QED BY <1>1, PullingAlways, PTL

-----------------------------------------------------------------------------
(* The log files.                                                          *)

\* A file by itself: its records have bytes, and rise, and it keeps the limit.
FileSound(f) ==
    /\ f.recs # <<>> => f.bytes > 0
    /\ Increasing(f.recs)
    /\ f.bytes <= MaxBytes \/ Len(f.recs) <= 1

FilesSound == \A i \in FileNumbers : FileSound(logFiles[i])

\* While nothing failed, bytes are those of records.
BytesAreRecords ==
    logFailures = 0 => \A i \in FileNumbers : logFiles[i].bytes > 0 => logFiles[i].recs # <<>>

\* The size the writer keeps is that of the base file, and a rotation has left
\* empty the number that it gives next.
WriterSound ==
    /\ logHandle = "open" => currentSize = logFiles[0].bytes
    /\ rotation # NoStep => logHandle = "none" /\ waiting \in RecordSizes
    /\ rotation \in FileNumbers => logFiles[rotation] = EmptyLog

RecordsCounted == \A i \in FileNumbers : \A m : InFile(i, m) => m \in 1 .. accepted

OlderBelow ==
    \A i, j \in FileNumbers : \A m, n : i < j /\ InFile(i, m) /\ InFile(j, n) => n < m

\* While nothing failed, the backups are used from the first on, but for the
\* one a rotation has emptied, and a record is lost when all are.
Used(i) == logFiles[i].recs # <<>>
UsedInOrder ==
    logFailures = 0 =>
        /\ rotation > 0 => Used(0)
        /\ \A i, j \in FileNumbers :
              /\ rotation = NoStep => i # 0
              /\ i < j /\ i # rotation /\ j # rotation /\ Used(j)
              => Used(i)
        /\ (\E n \in 1 .. accepted : ~Kept(n)) =>
              \A i \in FileNumbers :
                 /\ rotation = NoStep => i # 0
                 /\ i # rotation
                 => Used(i)

\* What the export has read is older than what it has still to read.
ExportSound ==
    /\ Increasing(logExport.read)
    /\ \A k \in 1 .. Len(logExport.read) :
          /\ logExport.read[k] <= accepted
          /\ \A i \in FileNumbers : \A m :
                i <= logExport.at /\ InFile(i, m) => logExport.read[k] < m

LogInv ==
    /\ LogTypeOK
    /\ FilesSound /\ BytesAreRecords /\ WriterSound
    /\ RecordsCounted /\ OlderBelow /\ NoGap
    /\ UsedInOrder /\ ExportSound

LEMMA LogInvMeans == LogInv => LogsInOrder
  <1> SUFFICES ASSUME LogInv PROVE LogsInOrder
    OBVIOUS
  <1>1. InCallOrder
    BY DEF LogInv, InCallOrder, FilesSound, FileSound, OlderBelow
  <1>2. LogBounded
    BY DEF LogInv, LogBounded, FilesSound, FileSound
  <1>3. LostForRoom
    <2>1. \A i \in 1 .. MaxBackups : i \in FileNumbers /\ i # 0 /\ i # NoStep
      BY LogFilesAssumption DEF FileNumbers, NoStep
    <2> QED BY <2>1 DEF LogInv, LostForRoom, UsedInOrder, Used
  <1> QED BY <1>1, <1>2, <1>3 DEF LogInv, LogsInOrder, ExportSound

LEMMA LogNumbers == /\ 0 \in FileNumbers /\ NoStep \notin FileNumbers /\ MaxBackups \in FileNumbers
                    /\ FileNumbers \subseteq Nat
  BY LogFilesAssumption DEF FileNumbers, NoStep

LEMMA EmptyLogFacts == /\ EmptyLog \in LogFile /\ FileSound(EmptyLog)
                       /\ EmptyLog.recs = <<>> /\ EmptyLog.bytes = 0 /\ Len(EmptyLog.recs) = 0
  <1>1. EmptyLog.recs = <<>> /\ EmptyLog.bytes = 0
    BY DEF EmptyLog
  <1>2. Len(EmptyLog.recs) = 0
    BY <1>1
  <1>3. EmptyLog \in LogFile
    BY DEF EmptyLog, LogFile
  <1>4. FileSound(EmptyLog)
    BY <1>1, <1>2, LogFilesAssumption DEF FileSound, Increasing
  <1> QED BY <1>1, <1>2, <1>3, <1>4

LEMMA LogInitHolds == LogInit => LogInv
  <1> SUFFICES ASSUME LogInit PROVE LogInv
    OBVIOUS
  <1>1. \A i \in FileNumbers : logFiles[i] = EmptyLog
    BY DEF LogInit
  <1>2. logExport.read = <<>> /\ Len(logExport.read) = 0 /\ accepted = 0 /\ rotation = NoStep
    BY DEF LogInit
  <1>3. \A i \in FileNumbers : \A m : ~InFile(i, m)
    BY <1>1, EmptyLogFacts DEF InFile
  <1>4. LogTypeOK
    <2>1. logFiles \in [FileNumbers -> LogFile]
      BY EmptyLogFacts DEF LogInit
    <2>2. logExport \in [at : -1 .. MaxBackups, seen : BOOLEAN, read : Seq(Nat)]
      BY LogFilesAssumption DEF LogInit, NoStep
    <2> QED BY <2>1, <2>2, LogFilesAssumption DEF LogInit, LogTypeOK, NoStep
  <1>5. FilesSound /\ BytesAreRecords
    BY <1>1, EmptyLogFacts DEF FilesSound, BytesAreRecords
  <1>6. WriterSound
    BY <1>1, LogNumbers, EmptyLogFacts DEF LogInit, WriterSound
  <1>7. RecordsCounted /\ OlderBelow /\ NoGap
    BY <1>3, <1>2 DEF RecordsCounted, OlderBelow, NoGap
  <1>8. UsedInOrder
    BY <1>1, <1>2, EmptyLogFacts DEF UsedInOrder, Used, NoStep
  <1>9. ExportSound
    BY <1>2 DEF ExportSound, Increasing
  <1> QED BY <1>4, <1>5, <1>6, <1>7, <1>8, <1>9 DEF LogInv

-----------------------------------------------------------------------------
(* A record is written to the base file.                                   *)

LEMMA AppendedFacts ==
    ASSUME NEW f \in LogFile, NEW len \in Nat \ {0}, NEW g, g = Appended(f, len), accepted \in Nat
    PROVE  /\ g \in LogFile
           /\ g.bytes = f.bytes + len
           /\ Len(g.recs) = Len(f.recs) + 1 /\ g.recs # <<>>
           /\ g.recs[Len(f.recs) + 1] = accepted + 1
           /\ \A k \in 1 .. Len(f.recs) : g.recs[k] = f.recs[k]
  <1>1. f.recs \in Seq(Nat) /\ f.bytes \in Nat
    BY DEF LogFile
  <1>2. g.recs = Append(f.recs, accepted + 1) /\ g.bytes = f.bytes + len
    BY DEF Appended
  <1>3. /\ Len(g.recs) = Len(f.recs) + 1
        /\ g.recs[Len(f.recs) + 1] = accepted + 1
        /\ \A k \in 1 .. Len(f.recs) : g.recs[k] = f.recs[k]
    BY <1>1, <1>2
  <1>4. g.recs # <<>>
    <2>1. Len(f.recs) \in Nat
      BY <1>1
    <2> QED BY <1>3, <2>1
  <1>5. g \in LogFile
    <2>1. g.recs \in Seq(Nat) /\ g.bytes \in Nat
      BY <1>1, <1>2
    <2> QED BY <2>1 DEF Appended, LogFile
  <1> QED BY <1>2, <1>3, <1>4, <1>5

\* The base file takes the next record; nothing waits any more.
Written(len) ==
    /\ len \in RecordSizes
    /\ logFiles' = [logFiles EXCEPT ![0] = Appended(logFiles[0], len)]
    /\ logFiles[0].bytes = 0 \/ logFiles[0].bytes + len <= MaxBytes
    /\ accepted' = accepted + 1
    /\ rotation' = NoStep /\ waiting' \in Nat
    /\ logHandle' = "open" /\ currentSize' = logFiles[0].bytes + len
    /\ rotation = NoStep \/ rotation = 0
    /\ UNCHANGED <<logExport, logFailures>>

LEMMA WrittenKeeps ==
    ASSUME LogInv, NEW len, Written(len)
    PROVE  LogInv'
  <1>1. PICK f \in LogFile : f = logFiles[0]
    BY LogNumbers DEF LogInv, LogTypeOK
  <1>2. len \in Nat \ {0} /\ accepted \in Nat /\ MaxBytes \in Nat
    BY LogFilesAssumption DEF Written, LogInv, LogTypeOK
  <1>3. PICK g : g = Appended(f, len)
    OBVIOUS
  <1>4. /\ g \in LogFile /\ g.bytes = f.bytes + len
        /\ Len(g.recs) = Len(f.recs) + 1 /\ g.recs # <<>>
        /\ g.recs[Len(f.recs) + 1] = accepted + 1
        /\ \A k \in 1 .. Len(f.recs) : g.recs[k] = f.recs[k]
    BY <1>2, <1>3, AppendedFacts
  <1>5. /\ logFiles'[0] = g
        /\ \A i \in FileNumbers : i # 0 => logFiles'[i] = logFiles[i]
        /\ logFiles' \in [FileNumbers -> LogFile]
    BY <1>1, <1>3, <1>4, LogNumbers DEF Written, LogInv, LogTypeOK
  <1>6. f.recs \in Seq(Nat) /\ Len(f.recs) \in Nat /\ f.bytes \in Nat
    BY DEF LogFile
  <1>7. ASSUME NEW i \in FileNumbers, NEW m
        PROVE  InFile(i, m)' <=> (InFile(i, m) \/ (i = 0 /\ m = accepted + 1))
    <2>1. CASE i # 0
      BY <1>5, <2>1 DEF InFile
    <2>2. CASE i = 0
      <3>1. InFile(i, m)' <=> \E k \in 1 .. Len(f.recs) + 1 : g.recs[k] = m
        BY <1>4, <1>5, <2>2 DEF InFile
      <3>2. InFile(i, m) <=> \E k \in 1 .. Len(f.recs) : f.recs[k] = m
        BY <1>1, <2>2 DEF InFile
      <3>3. \A k \in 1 .. Len(f.recs) + 1 : k \in 1 .. Len(f.recs) \/ k = Len(f.recs) + 1
        BY <1>6
      <3>4. \A k \in 1 .. Len(f.recs) : k \in 1 .. Len(f.recs) + 1
        BY <1>6
      <3>5. Len(f.recs) + 1 \in 1 .. Len(f.recs) + 1
        BY <1>6
      <3> QED BY <1>4, <2>2, <3>1, <3>2, <3>3, <3>4, <3>5
    <2> QED BY <2>1, <2>2
  <1>8. FileSound(f) /\ \A k \in 1 .. Len(f.recs) : f.recs[k] \in 1 .. accepted
    BY <1>1, LogNumbers DEF LogInv, FilesSound, RecordsCounted, InFile
  <1>9. FileSound(g)
    <2>1. f.bytes = 0 => Len(f.recs) = 0
      BY <1>6, <1>8 DEF FileSound
    <2>2. g.bytes <= MaxBytes \/ Len(g.recs) <= 1
      BY <1>1, <1>2, <1>4, <1>6, <2>1 DEF Written
    <2>3. Increasing(g.recs)
      <3> SUFFICES ASSUME NEW j \in 1 .. Len(f.recs) + 1, NEW k \in 1 .. Len(f.recs) + 1, j < k
                   PROVE  g.recs[j] < g.recs[k]
        BY <1>4 DEF Increasing
      <3>1. j \in 1 .. Len(f.recs) /\ g.recs[j] = f.recs[j] /\ f.recs[j] \in 1 .. accepted
        BY <1>4, <1>6, <1>8
      <3>2. CASE k = Len(f.recs) + 1
        BY <1>2, <1>4, <3>1, <3>2
      <3>3. CASE k # Len(f.recs) + 1
        <4>1. k \in 1 .. Len(f.recs)
          BY <1>6, <3>3
        <4>2. g.recs[k] = f.recs[k]
          BY <1>4, <4>1
        <4> QED BY <1>8, <3>1, <4>1, <4>2 DEF FileSound, Increasing
      <3> QED BY <3>2, <3>3
    <2>4. g.bytes > 0
      BY <1>2, <1>4, <1>6
    <2> QED BY <2>2, <2>3, <2>4 DEF FileSound
  <1>10. LogTypeOK'
    <2>1. currentSize' \in Nat /\ accepted' \in Nat /\ rotation' \in -1 .. MaxBackups + 1
      BY <1>1, <1>2, <1>6, LogFilesAssumption DEF Written, NoStep
    <2> QED BY <1>5, <2>1 DEF Written, LogInv, LogTypeOK
  <1>11. FilesSound' /\ BytesAreRecords'
    <2>1. FilesSound'
      BY <1>5, <1>9 DEF LogInv, FilesSound, FileSound, Increasing
    <2>2. BytesAreRecords'
      BY <1>4, <1>5 DEF Written, LogInv, BytesAreRecords
    <2> QED BY <2>1, <2>2
  <1>12. WriterSound'
    BY <1>1, <1>4, <1>5, LogNumbers DEF Written, WriterSound
  <1>13. RecordsCounted' /\ OlderBelow' /\ NoGap'
    <2>1. \A m : m \in 1 .. accepted => m \in 1 .. accepted' /\ m < accepted + 1
      BY <1>2 DEF Written
    <2>2. accepted + 1 \in 1 .. accepted' /\ accepted' = accepted + 1
      BY <1>2 DEF Written
    <2>3. RecordsCounted'
      BY <1>7, <2>1, <2>2 DEF LogInv, RecordsCounted
    <2>4. OlderBelow'
      <3> SUFFICES ASSUME NEW i \in FileNumbers, NEW j \in FileNumbers, NEW m, NEW n,
                          i < j, InFile(i, m)', InFile(j, n)'
                   PROVE  n < m
        BY DEF OlderBelow
      <3>1. j # 0
        BY LogNumbers
      <3>2. InFile(j, n) /\ n \in 1 .. accepted
        BY <1>7, <3>1 DEF LogInv, RecordsCounted
      <3>3. CASE InFile(i, m)
        BY <3>2, <3>3 DEF LogInv, OlderBelow
      <3>4. CASE m = accepted + 1
        BY <2>1, <3>2, <3>4
      <3> QED BY <1>7, <3>3, <3>4
    <2>5. NoGap'
      <3> SUFFICES ASSUME NEW m \in 1 .. accepted + 1, NEW n \in 1 .. accepted + 1, Kept(m)', m <= n
                   PROVE  Kept(n)'
        BY <2>2 DEF NoGap
      <3>1. CASE n = accepted + 1
        BY <1>7, <3>1, LogNumbers DEF Kept
      <3>2. CASE n # accepted + 1
        <4>1. m \in 1 .. accepted /\ n \in 1 .. accepted
          BY <1>2, <3>2
        <4>2. Kept(m)
          BY <1>2, <1>7, <4>1 DEF Kept
        <4>3. Kept(n)
          BY <4>1, <4>2 DEF LogInv, NoGap
        <4> QED BY <1>7, <4>3 DEF Kept
      <3> QED BY <3>1, <3>2
    <2> QED BY <2>3, <2>4, <2>5
  <1>14. UsedInOrder'
    <2> SUFFICES ASSUME logFailures = 0 PROVE UsedInOrder'
      BY DEF Written, UsedInOrder
    <2>0. \A i \in FileNumbers : i # 0 => Used(i)' = Used(i)
      BY <1>5 DEF Used
    <2>1. \A i, j \in FileNumbers : i # 0 /\ i < j => i # NoStep /\ j # NoStep /\ j # 0
      BY LogNumbers DEF NoStep
    <2>2. rotation' = NoStep /\ (rotation = NoStep \/ rotation = 0) /\ ~(rotation' > 0)
      BY DEF Written, NoStep
    <2>3. ASSUME NEW i \in FileNumbers, NEW j \in FileNumbers, i # 0, i < j, Used(j)'
          PROVE  Used(i)'
      BY <2>0, <2>1, <2>2, <2>3 DEF LogInv, UsedInOrder
    <2>4. ASSUME NEW n \in 1 .. accepted + 1, ~Kept(n)', NEW i \in FileNumbers, i # 0
          PROVE  Used(i)'
      <3>1. n # accepted + 1 /\ ~Kept(n)
        BY <1>7, <2>4, LogNumbers DEF Kept
      <3>2. n \in 1 .. accepted
        BY <1>2, <3>1
      <3>3. i # NoStep
        BY LogNumbers
      <3>4. Used(i)
        BY <2>2, <2>4, <3>1, <3>2, <3>3 DEF LogInv, UsedInOrder
      <3> QED BY <2>0, <2>4, <3>4
    <2> QED BY <2>2, <2>3, <2>4 DEF UsedInOrder, Written
  <1>15. ExportSound'
    <2> SUFFICES ASSUME NEW k \in 1 .. Len(logExport.read)
                 PROVE  /\ logExport.read[k] <= accepted + 1
                        /\ \A i \in FileNumbers : \A m :
                              i <= logExport.at /\ InFile(i, m)' => logExport.read[k] < m
      BY DEF LogInv, ExportSound, Written
    <2>1. logExport.read[k] \in Nat
      BY DEF LogInv, LogTypeOK
    <2>2. logExport.read[k] <= accepted
      BY DEF LogInv, ExportSound
    <2>3. logExport.read[k] <= accepted + 1 /\ logExport.read[k] < accepted + 1
      BY <1>2, <2>1, <2>2
    <2> QED BY <1>7, <2>3 DEF LogInv, ExportSound
  <1> QED BY <1>10, <1>11, <1>12, <1>13, <1>14, <1>15 DEF LogInv

\* The size a write goes by is that of the base file.
LEMMA SizeIsBase ==
    ASSUME LogInv, NEW len, CanWrite(len)
    PROVE  SizeAtWrite = logFiles[0].bytes /\ logFiles[0].bytes \in Nat /\ len \in Nat \ {0}
  <1>1. logFiles[0].bytes \in Nat
    BY LogNumbers DEF LogInv, LogTypeOK, LogFile
  <1> QED BY <1>1, LogFilesAssumption DEF LogInv, LogTypeOK, WriterSound, SizeAtWrite, CanWrite

LEMMA AppendKeeps ==
    ASSUME LogInv, NEW len \in RecordSizes, AppendRecord(len)
    PROVE  LogInv'
  <1>1. CanWrite(len) /\ Fits(SizeAtWrite, len)
    BY DEF AppendRecord
  <1>2. SizeAtWrite = logFiles[0].bytes
    BY <1>1, SizeIsBase
  <1>3. waiting \in Nat
    BY DEF LogInv, LogTypeOK
  <1>4. Written(len)
    BY <1>1, <1>2, <1>3 DEF AppendRecord, CanWrite, Fits, Written
  <1> QED BY <1>4, WrittenKeeps

LEMMA FinishRotationKeeps ==
    ASSUME LogInv, FinishRotation
    PROVE  LogInv'
  <1>1. rotation = 0 /\ rotation # NoStep /\ rotation \in FileNumbers
    BY LogNumbers DEF FinishRotation
  <1>2. waiting \in RecordSizes /\ logFiles[0].bytes = 0
    BY <1>1, EmptyLogFacts DEF LogInv, WriterSound
  <1>3. Written(waiting)
    BY <1>1, <1>2 DEF FinishRotation, Written
  <1> QED BY <1>3, WrittenKeeps

-----------------------------------------------------------------------------
(* The steps that leave the files alone.                                   *)

LEMMA LogAloneKeeps ==
    ASSUME LogInv, UNCHANGED <<logFiles, accepted>>, LogTypeOK', WriterSound', ExportSound',
           logFailures' = 0 => logFailures = 0,
           \/ logFailures' # 0
           \/ rotation' = rotation
           \/ rotation = NoStep /\ rotation' = MaxBackups + 1 /\ logFiles[0].bytes # 0
    PROVE  LogInv'
  <1>1. FilesSound' /\ RecordsCounted' /\ OlderBelow' /\ NoGap' /\ BytesAreRecords'
    BY DEF LogInv, FilesSound, RecordsCounted, OlderBelow, NoGap, InFile, Kept, BytesAreRecords
  <1>2. \A i \in FileNumbers : Used(i)' = Used(i)
    BY DEF Used
  <1>3. \A n : Kept(n)' = Kept(n)
    BY DEF Kept, InFile
  <1>4. UsedInOrder'
    <2>1. CASE logFailures' # 0
      BY <2>1 DEF UsedInOrder
    <2>2. CASE logFailures' = 0 /\ rotation' = rotation
      BY <1>2, <1>3, <2>2, LogNumbers DEF LogInv, UsedInOrder
    <2>3. CASE /\ logFailures' = 0
               /\ rotation = NoStep /\ rotation' = MaxBackups + 1 /\ logFiles[0].bytes # 0
      <3>1. logFiles[0].bytes > 0
        <4>1. logFiles[0].bytes \in Nat
          BY LogNumbers DEF LogInv, LogTypeOK, LogFile
        <4> QED BY <2>3, <4>1
      <3>2. Used(0)
        BY <2>3, <3>1, LogNumbers DEF LogInv, BytesAreRecords, Used
      <3>3. rotation' # NoStep /\ \A i \in FileNumbers : i # NoStep /\ i # rotation'
        BY <2>3, LogFilesAssumption DEF FileNumbers, NoStep
      <3>4. ASSUME NEW i \in FileNumbers, NEW j \in FileNumbers, i < j, Used(j)
            PROVE  Used(i)
        BY <2>3, <3>2, <3>3, <3>4 DEF LogInv, UsedInOrder
      <3>5. ASSUME NEW n \in 1 .. accepted, ~Kept(n), NEW i \in FileNumbers
            PROVE  Used(i)
        BY <2>3, <3>2, <3>3, <3>5 DEF LogInv, UsedInOrder
      <3> QED BY <1>2, <1>3, <3>2, <3>4, <3>5, LogNumbers DEF UsedInOrder
    <2> QED BY <2>1, <2>2, <2>3
  <1> QED BY <1>1, <1>4 DEF LogInv

\* What the export has read stays older than what it has to read.
LEMMA ExportStays ==
    ASSUME LogInv, UNCHANGED <<logFiles, accepted, logExport>>
    PROVE  ExportSound'
  BY DEF LogInv, ExportSound, InFile

LEMMA WriterKeeps ==
    ASSUME LogInv,
           \/ \E len \in RecordSizes : StartRotation(len) \/ FailToClose(len)
           \/ AbandonRotation \/ CloseLog \/ RestartLog
    PROVE  LogInv'
  <1>1. /\ logFiles[0].bytes \in Nat /\ logFailures \in Nat /\ MaxBackups + 1 \in Nat
        /\ logExport \in [at : -1 .. MaxBackups, seen : BOOLEAN, read : Seq(Nat)]
    BY LogNumbers, LogFilesAssumption DEF LogInv, LogTypeOK, LogFile
  <1>2. ASSUME NEW len \in RecordSizes, StartRotation(len) PROVE LogInv'
    <2>1. CanWrite(len) /\ ~Fits(SizeAtWrite, len) /\ SizeAtWrite = logFiles[0].bytes
          /\ len \in Nat \ {0}
      BY <1>2, SizeIsBase DEF StartRotation
    <2>2. logFiles[0].bytes # 0 /\ rotation = NoStep
      BY <2>1 DEF Fits, CanWrite
    <2>3. LogTypeOK'
      BY <1>1, <1>2, <2>1 DEF StartRotation, LogInv, LogTypeOK
    <2>4. WriterSound'
      BY <1>2, LogFilesAssumption DEF StartRotation, WriterSound, FileNumbers
    <2>5. ExportSound'
      BY <1>2, ExportStays DEF StartRotation
    <2> QED BY <1>2, <2>2, <2>3, <2>4, <2>5, LogAloneKeeps DEF StartRotation
  <1>3. ASSUME NEW len \in RecordSizes, FailToClose(len) PROVE LogInv'
    <2>1. CanWrite(len) /\ SizeAtWrite = logFiles[0].bytes
      BY <1>3, SizeIsBase DEF FailToClose
    <2>2. rotation = NoStep /\ logFailures' = logFailures + 1
      BY <1>3, <2>1 DEF FailToClose, CanWrite, Fails
    <2>3. LogTypeOK'
      BY <1>1, <1>3, <2>1, <2>2 DEF FailToClose, LogInv, LogTypeOK
    <2>4. WriterSound'
      BY <1>3, <2>2, LogNumbers DEF FailToClose, WriterSound
    <2>5. ExportSound'
      BY <1>3, ExportStays DEF FailToClose
    <2> QED BY <1>1, <1>3, <2>2, <2>3, <2>4, <2>5, LogAloneKeeps DEF FailToClose
  <1>4. CASE AbandonRotation
    <2>1. logFailures' = logFailures + 1 /\ rotation' = NoStep /\ logHandle = "none"
      BY <1>4 DEF AbandonRotation, Fails, LogInv, WriterSound, NoStep
    <2>2. LogTypeOK'
      BY <1>1, <1>4, <2>1 DEF AbandonRotation, LogInv, LogTypeOK, NoStep
    <2>3. WriterSound'
      BY <1>4, <2>1, LogNumbers DEF AbandonRotation, WriterSound
    <2>4. ExportSound'
      BY <1>4, ExportStays DEF AbandonRotation
    <2> QED BY <1>1, <1>4, <2>1, <2>2, <2>3, <2>4, LogAloneKeeps DEF AbandonRotation
  <1>5. CASE CloseLog
    <2>1. LogTypeOK'
      BY <1>5 DEF CloseLog, LogInv, LogTypeOK
    <2>2. WriterSound'
      BY <1>5, LogNumbers DEF CloseLog, WriterSound
    <2>3. ExportSound'
      BY <1>5, ExportStays DEF CloseLog
    <2> QED BY <1>5, <2>1, <2>2, <2>3, LogAloneKeeps DEF CloseLog
  <1>6. CASE RestartLog
    <2>1. /\ logFailures' \in Nat
          /\ logFailures' = 0 => logFailures = 0 /\ rotation' = rotation
      BY <1>1, <1>6 DEF RestartLog, Fails
    <2>2. /\ logExport' \in [at : -1 .. MaxBackups, seen : BOOLEAN, read : Seq(Nat)]
          /\ logExport'.read = <<>> /\ Len(logExport'.read) = 0
      BY <1>6, LogFilesAssumption DEF RestartLog, NoStep
    <2>3. LogTypeOK'
      BY <1>1, <1>6, <2>1, <2>2 DEF RestartLog, LogInv, LogTypeOK, NoStep
    <2>4. WriterSound'
      BY <1>6, LogNumbers DEF RestartLog, WriterSound
    <2>5. ExportSound'
      BY <2>2 DEF ExportSound, Increasing
    <2>6. UNCHANGED <<logFiles, accepted>>
      BY <1>6 DEF RestartLog
    <2> QED BY <2>1, <2>3, <2>4, <2>5, <2>6, LogAloneKeeps
  <1> QED BY <1>2, <1>3, <1>4, <1>5, <1>6

LEMMA ExportKeeps ==
    ASSUME LogInv, ExportLogs \/ StatLog \/ ReadLog \/ MissLog
    PROVE  LogInv'
  <1>1. UNCHANGED <<logFiles, logHandle, currentSize, rotation, waiting, accepted, logFailures>>
    BY DEF ExportLogs, StatLog, ReadLog, MissLog, writerVars
  <1>2. PICK at \in -1 .. MaxBackups, seen \in BOOLEAN, taken \in Seq(Nat) :
            logExport = [at |-> at, seen |-> seen, read |-> taken]
    BY DEF LogInv, LogTypeOK
  <1>3. WriterSound'
    BY <1>1 DEF LogInv, WriterSound
  <1>4. ASSUME NEW to \in -1 .. MaxBackups, NEW saw \in BOOLEAN, NEW now \in Seq(Nat),
               logExport' = [at |-> to, seen |-> saw, read |-> now],
               Increasing(now),
               \A k \in 1 .. Len(now) :
                  /\ now[k] <= accepted
                  /\ \A i \in FileNumbers : \A m : i <= to /\ InFile(i, m) => now[k] < m
        PROVE  LogInv'
    <2>1. LogTypeOK'
      BY <1>1, <1>4 DEF LogInv, LogTypeOK
    <2>2. ExportSound'
      BY <1>1, <1>4 DEF ExportSound, InFile
    <2> QED BY <1>1, <1>3, <2>1, <2>2, LogAloneKeeps
  <1>5. /\ Increasing(taken)
        /\ \A k \in 1 .. Len(taken) :
              /\ taken[k] <= accepted
              /\ \A i \in FileNumbers : \A m : i <= at /\ InFile(i, m) => taken[k] < m
    BY <1>2 DEF LogInv, ExportSound
  <1>6. CASE ExportLogs
    <2>1. PICK none : none = <<>>
      OBVIOUS
    <2>2. none \in Seq(Nat) /\ Len(none) = 0
      BY <2>1
    <2>3. \A k \in 1 .. Len(none) : FALSE
      BY <2>2
    <2>4. Increasing(none)
      BY <2>3 DEF Increasing
    <2>5. logExport' = [at |-> MaxBackups, seen |-> FALSE, read |-> none]
      BY <1>6, <2>1 DEF ExportLogs, OldestFirst
    <2>6. MaxBackups \in -1 .. MaxBackups
      BY LogFilesAssumption
    <2> QED BY <1>4, <2>2, <2>3, <2>4, <2>5, <2>6
  <1>7. ASSUME at # NoStep
        PROVE  /\ at \in FileNumbers /\ at - 1 \in -1 .. MaxBackups
               /\ \A i \in FileNumbers : i <= at - 1 => i <= at /\ i < at
    BY <1>7, LogFilesAssumption DEF NoStep, FileNumbers
  <1>8. CASE StatLog
    <2>1. at # NoStep
      BY <1>2, <1>8 DEF StatLog
    <2>2. \/ logExport' = [at |-> at - 1, seen |-> FALSE, read |-> taken]
          \/ logExport' = [at |-> at, seen |-> TRUE, read |-> taken]
      BY <1>2, <1>8 DEF StatLog, NextPath
    <2>3. CASE logExport' = [at |-> at, seen |-> TRUE, read |-> taken]
      BY <1>4, <1>5, <2>3
    <2>4. CASE logExport' = [at |-> at - 1, seen |-> FALSE, read |-> taken]
      <3>1. \A k \in 1 .. Len(taken) :
              /\ taken[k] <= accepted
              /\ \A i \in FileNumbers : \A m : i <= at - 1 /\ InFile(i, m) => taken[k] < m
        BY <1>5, <1>7, <2>1
      <3> QED BY <1>4, <1>5, <1>7, <2>1, <2>4, <3>1
    <2> QED BY <2>2, <2>3, <2>4
  <1>9. CASE ReadLog
    <2>1. at # NoStep
      BY <1>2, <1>9 DEF ReadLog
    <2>2. PICK f \in LogFile : f = logFiles[at]
      BY <1>7, <2>1 DEF LogInv, LogTypeOK
    <2>3. PICK recs \in Seq(Nat) : recs = f.recs
      BY DEF LogFile
    <2>4. PICK now : now = taken \o recs
      OBVIOUS
    <2>5. logExport' = [at |-> at - 1, seen |-> FALSE, read |-> now]
      BY <1>2, <1>9, <2>2, <2>3, <2>4 DEF ReadLog, NextPath
    <2>6. Increasing(recs) /\ \A k \in 1 .. Len(recs) : InFile(at, recs[k])
      BY <1>7, <2>1, <2>2, <2>3 DEF LogInv, FilesSound, FileSound, InFile
    <2>7. /\ now \in Seq(Nat) /\ Len(now) = Len(taken) + Len(recs)
          /\ \A k \in 1 .. Len(now) :
                IF k <= Len(taken) THEN now[k] = taken[k] ELSE now[k] = recs[k - Len(taken)]
      BY <2>4
    <2>8. Len(taken) \in Nat /\ Len(recs) \in Nat
      OBVIOUS
    <2>9. ASSUME NEW k \in 1 .. Len(now)
          PROVE  \/ k \in 1 .. Len(taken) /\ now[k] = taken[k]
                 \/ k > Len(taken) /\ k - Len(taken) \in 1 .. Len(recs) /\ now[k] = recs[k - Len(taken)]
      <3>1. k \in Nat /\ 1 <= k /\ k <= Len(taken) + Len(recs)
        BY <2>7, <2>8
      <3>2. CASE k <= Len(taken)
        BY <2>7, <3>1, <3>2
      <3>3. CASE k > Len(taken)
        <4>1. k - Len(taken) \in 1 .. Len(recs)
          BY <2>8, <3>1, <3>3
        <4> QED BY <2>7, <2>8, <3>1, <3>3, <4>1
      <3> QED BY <2>8, <3>1, <3>2, <3>3
    <2>10. \A j \in 1 .. Len(taken), k \in 1 .. Len(recs) : taken[j] < recs[k]
      <3>1. at <= at
        BY <1>7, <2>1, LogNumbers
      <3> QED BY <1>5, <1>7, <2>1, <2>6, <3>1
    <2>11. Increasing(now)
      <3> SUFFICES ASSUME NEW j \in 1 .. Len(now), NEW k \in 1 .. Len(now), j < k
                   PROVE  now[j] < now[k]
        BY DEF Increasing
      <3>1. CASE k \in 1 .. Len(taken) /\ now[k] = taken[k]
        <4>1. ~(j > Len(taken))
          BY <2>7, <2>8, <3>1
        <4>2. j \in 1 .. Len(taken) /\ now[j] = taken[j]
          BY <2>9, <4>1
        <4> QED BY <1>5, <3>1, <4>2 DEF Increasing
      <3>2. CASE k > Len(taken) /\ k - Len(taken) \in 1 .. Len(recs) /\ now[k] = recs[k - Len(taken)]
        <4>1. CASE j \in 1 .. Len(taken) /\ now[j] = taken[j]
          BY <2>10, <3>2, <4>1
        <4>2. CASE j > Len(taken) /\ j - Len(taken) \in 1 .. Len(recs) /\ now[j] = recs[j - Len(taken)]
          <5>1. j - Len(taken) < k - Len(taken)
            BY <2>7, <2>8
          <5> QED BY <2>6, <3>2, <4>2, <5>1 DEF Increasing
        <4> QED BY <2>9, <4>1, <4>2
      <3> QED BY <2>9, <3>1, <3>2
    <2>12. ASSUME NEW k \in 1 .. Len(now)
           PROVE  /\ now[k] <= accepted
                  /\ \A i \in FileNumbers : \A m : i <= at - 1 /\ InFile(i, m) => now[k] < m
      <3>1. CASE k \in 1 .. Len(taken) /\ now[k] = taken[k]
        BY <1>5, <1>7, <2>1, <3>1
      <3>2. CASE k - Len(taken) \in 1 .. Len(recs) /\ now[k] = recs[k - Len(taken)]
        <4>1. InFile(at, now[k])
          BY <2>6, <3>2
        <4>2. now[k] \in 1 .. accepted
          BY <1>7, <2>1, <4>1 DEF LogInv, RecordsCounted
        <4> QED BY <1>7, <2>1, <4>1, <4>2 DEF LogInv, OlderBelow
      <3> QED BY <2>9, <3>1, <3>2
    <2> QED BY <1>4, <1>7, <2>1, <2>5, <2>7, <2>11, <2>12
  <1>10. CASE MissLog
    <2>1. logExport' = [at |-> -1, seen |-> FALSE, read |-> taken]
      BY <1>2, <1>10 DEF MissLog, NoStep
    <2>2. \A i \in FileNumbers : ~(i <= -1)
      BY LogNumbers
    <2>3. -1 \in -1 .. MaxBackups
      BY LogFilesAssumption
    <2> QED BY <1>4, <1>5, <2>1, <2>2, <2>3
  <1> QED BY <1>6, <1>8, <1>9, <1>10

-----------------------------------------------------------------------------
(* The disk takes a part of a record, which leaves the records as they are. *)

LEMMA TearKeeps ==
    ASSUME LogInv, NEW len \in RecordSizes, NEW part \in 0 .. len - 1, TearRecord(len, part)
    PROVE  LogInv'
  <1>1. /\ CanWrite(len) /\ Fits(SizeAtWrite, len) /\ SizeAtWrite = logFiles[0].bytes
        /\ logFiles[0].bytes \in Nat /\ len \in Nat \ {0}
    BY SizeIsBase DEF TearRecord
  <1>2. part \in Nat /\ part < len /\ logFailures' # 0 /\ logFailures' \in Nat
    BY <1>1 DEF TearRecord, Fails, LogInv, LogTypeOK
  <1>3. PICK f \in LogFile : f = logFiles[0]
    BY LogNumbers DEF LogInv, LogTypeOK
  <1>4. f.recs \in Seq(Nat) /\ Len(f.recs) \in Nat /\ f.bytes \in Nat
    BY DEF LogFile
  <1>5. PICK g : g = [recs |-> f.recs, bytes |-> f.bytes + part]
    OBVIOUS
  <1>6. g \in LogFile /\ g.recs = f.recs /\ g.bytes = f.bytes + part
    BY <1>2, <1>4, <1>5 DEF LogFile
  <1>7. /\ logFiles'[0] = g
        /\ \A i \in FileNumbers : i # 0 => logFiles'[i] = logFiles[i]
        /\ logFiles' \in [FileNumbers -> LogFile]
        /\ UNCHANGED <<rotation, waiting, accepted, logExport>>
    BY <1>3, <1>5, <1>6, LogNumbers DEF TearRecord, LogInv, LogTypeOK
  <1>8. \A i \in FileNumbers : logFiles'[i].recs = logFiles[i].recs
    BY <1>3, <1>6, <1>7
  <1>9. FileSound(g)
    <2>1. FileSound(f)
      BY <1>3, LogNumbers DEF LogInv, FilesSound
    <2>2. g.recs # <<>> => g.bytes > 0
      BY <1>2, <1>4, <1>6, <2>1 DEF FileSound
    <2>3. g.bytes <= MaxBytes \/ Len(g.recs) <= 1
      <3>1. CASE f.bytes = 0
        <4>1. Len(f.recs) = 0
          BY <1>4, <2>1, <3>1 DEF FileSound
        <4> QED BY <1>6, <4>1
      <3>2. CASE f.bytes + len <= MaxBytes
        BY <1>1, <1>2, <1>4, <1>6, <3>2, LogFilesAssumption
      <3> QED BY <1>1, <1>3, <3>1, <3>2 DEF Fits
    <2> QED BY <1>6, <2>1, <2>2, <2>3 DEF FileSound
  <1>10. LogTypeOK'
    <2>1. currentSize' \in Nat /\ logHandle' = "open"
      BY <1>1, <1>2 DEF TearRecord
    <2> QED BY <1>2, <1>7, <2>1 DEF LogInv, LogTypeOK
  <1>11. FilesSound' /\ BytesAreRecords'
    BY <1>2, <1>7, <1>9 DEF LogInv, FilesSound, FileSound, Increasing, BytesAreRecords
  <1>12. WriterSound'
    <2>1. rotation' = NoStep /\ logHandle' = "open" /\ currentSize' = g.bytes
      BY <1>1, <1>3, <1>6, <1>7 DEF TearRecord, CanWrite
    <2> QED BY <1>7, <2>1, LogNumbers DEF WriterSound
  <1>13. \A i \in FileNumbers : \A m : InFile(i, m)' <=> InFile(i, m)
    BY <1>8 DEF InFile
  <1>14. RecordsCounted' /\ OlderBelow' /\ NoGap'
    BY <1>7, <1>13 DEF LogInv, RecordsCounted, OlderBelow, NoGap, Kept
  <1>15. UsedInOrder'
    BY <1>2 DEF UsedInOrder
  <1>16. ExportSound'
    BY <1>7, <1>13 DEF LogInv, ExportSound
  <1> QED BY <1>10, <1>11, <1>12, <1>14, <1>15, <1>16 DEF LogInv

-----------------------------------------------------------------------------
(* A rotation moves a file to the next number.                             *)

\* The file moved, that after it, and the others.
LEMMA ShiftedFacts ==
    ASSUME LogInv, MoveFile, NEW n, n = rotation - 1
    PROVE  /\ n \in FileNumbers /\ n # NoStep
           /\ logFiles' \in [FileNumbers -> LogFile]
           /\ logFiles'[n] = EmptyLog
           /\ n + 1 \in FileNumbers => logFiles'[n + 1] = logFiles[n] /\ logFiles[n + 1] = EmptyLog
           /\ \A i \in FileNumbers : i # n /\ i # n + 1 => logFiles'[i] = logFiles[i]
  <1>1. rotation \in 1 .. MaxBackups + 1
    BY LogFilesAssumption DEF LogInv, LogTypeOK, MoveFile
  <1>2. n \in FileNumbers /\ n # NoStep /\ n + 1 = rotation /\ n # n + 1
    BY <1>1, LogFilesAssumption DEF FileNumbers, NoStep
  <1>3. \A i \in FileNumbers :
           logFiles'[i] = IF i = n THEN EmptyLog
                          ELSE IF i = n + 1 /\ logFiles[n] # EmptyLog THEN logFiles[n]
                          ELSE logFiles[i]
    BY DEF MoveFile, Shifted
  <1>4. n + 1 \in FileNumbers => logFiles[n + 1] = EmptyLog
    BY <1>2 DEF LogInv, WriterSound
  <1>5. logFiles' \in [FileNumbers -> LogFile]
    <2>1. \A i \in FileNumbers : logFiles'[i] \in LogFile
      BY <1>2, <1>3, EmptyLogFacts DEF LogInv, LogTypeOK
    <2>2. logFiles' = [i \in FileNumbers |-> logFiles'[i]]
      BY DEF MoveFile, Shifted
    <2> QED BY <2>1, <2>2
  <1>6. n + 1 \in FileNumbers => logFiles'[n + 1] = logFiles[n]
    BY <1>2, <1>3, <1>4
  <1> QED BY <1>2, <1>3, <1>4, <1>5, <1>6

LEMMA MoveLogKeeps ==
    ASSUME LogInv, MoveFile
    PROVE  LogInv'
  <1>1. PICK n : n = rotation - 1
    OBVIOUS
  <1>2. /\ n \in FileNumbers /\ n # NoStep
        /\ logFiles' \in [FileNumbers -> LogFile]
        /\ logFiles'[n] = EmptyLog
        /\ n + 1 \in FileNumbers => logFiles'[n + 1] = logFiles[n] /\ logFiles[n + 1] = EmptyLog
        /\ \A i \in FileNumbers : i # n /\ i # n + 1 => logFiles'[i] = logFiles[i]
    BY <1>1, ShiftedFacts
  <1>3. /\ rotation' = n /\ rotation = n + 1 /\ n \in Nat /\ rotation > 0 /\ rotation # NoStep
        /\ UNCHANGED <<logHandle, currentSize, waiting, accepted, logExport, logFailures>>
    BY <1>1, <1>2, LogNumbers DEF MoveFile, LogInv, LogTypeOK, NoStep
  \* The file a file was, or EmptyLog.
  <1>4. ASSUME NEW i \in FileNumbers
        PROVE  \/ i = n /\ logFiles'[i] = EmptyLog
               \/ i # n /\ i = n + 1 /\ logFiles'[i] = logFiles[n] /\ logFiles[i] = EmptyLog
               \/ i # n /\ i # n + 1 /\ logFiles'[i] = logFiles[i]
    BY <1>2, <1>3
  <1>5. ASSUME NEW i \in FileNumbers, NEW m
        PROVE  InFile(i, m)' <=> (i # n /\ InFile(i, m)) \/ (i = n + 1 /\ InFile(n, m))
    <2>1. \A j \in FileNumbers : logFiles[j] = EmptyLog => ~InFile(j, m)
      BY EmptyLogFacts DEF InFile
    <2>2. CASE i = n /\ logFiles'[i] = EmptyLog
      <3>1. ~InFile(i, m)'
        BY <2>2, EmptyLogFacts DEF InFile
      <3> QED BY <1>3, <2>2, <3>1
    <2>3. CASE i # n /\ i = n + 1 /\ logFiles'[i] = logFiles[n] /\ logFiles[i] = EmptyLog
      <3>1. InFile(i, m)' <=> InFile(n, m)
        BY <2>3 DEF InFile
      <3> QED BY <2>1, <2>3, <3>1
    <2>4. CASE i # n /\ i # n + 1 /\ logFiles'[i] = logFiles[i]
      <3>1. InFile(i, m)' <=> InFile(i, m)
        BY <2>4 DEF InFile
      <3> QED BY <2>4, <3>1
    <2> QED BY <1>4, <2>2, <2>3, <2>4
  <1>6. LogTypeOK'
    <2>1. rotation' \in -1 .. MaxBackups + 1
      BY <1>2, <1>3, LogFilesAssumption DEF FileNumbers
    <2> QED BY <1>2, <1>3, <2>1 DEF LogInv, LogTypeOK
  <1>7. FilesSound'
    <2> SUFFICES ASSUME NEW i \in FileNumbers PROVE FileSound(logFiles[i])'
      BY DEF FilesSound
    <2>1. PICK f : f = logFiles'[i]
      OBVIOUS
    <2>2. FileSound(f)
      BY <1>2, <1>4, <2>1, EmptyLogFacts DEF LogInv, FilesSound
    <2> QED BY <2>1, <2>2 DEF FileSound, Increasing
  <1>8. BytesAreRecords'
    BY <1>2, <1>3, <1>4, EmptyLogFacts DEF LogInv, BytesAreRecords
  <1>9. WriterSound'
    BY <1>2, <1>3 DEF LogInv, WriterSound
  <1>10. RecordsCounted'
    BY <1>2, <1>3, <1>5 DEF LogInv, RecordsCounted
  <1>11. OlderBelow'
    <2> SUFFICES ASSUME NEW i \in FileNumbers, NEW j \in FileNumbers, NEW m, NEW o,
                        i < j, InFile(i, m)', InFile(j, o)'
                 PROVE  o < m
      BY DEF OlderBelow
    <2>0. ASSUME NEW c \in FileNumbers, NEW r, InFile(c, r)'
          PROVE  \E d \in FileNumbers : InFile(d, r) /\ ((d = c /\ c # n) \/ (d = n /\ c = n + 1))
      <3>1. CASE c # n /\ InFile(c, r)
        BY <3>1
      <3>2. CASE c = n + 1 /\ InFile(n, r)
        BY <1>2, <3>2
      <3> QED BY <1>5, <2>0, <3>1, <3>2
    <2>1. PICK a \in FileNumbers : InFile(a, m) /\ ((a = i /\ i # n) \/ (a = n /\ i = n + 1))
      BY <2>0
    <2>2. PICK b \in FileNumbers : InFile(b, o) /\ ((b = j /\ j # n) \/ (b = n /\ j = n + 1))
      BY <2>0
    <2>3. ~(a = n + 1) \/ ~InFile(a, m)
      BY <1>2, EmptyLogFacts DEF InFile
    <2>4. a < b
      BY <1>3, <2>1, <2>2, <2>3, LogNumbers
    <2> QED BY <2>1, <2>2, <2>4 DEF LogInv, OlderBelow
  \* What the move keeps: all but the records of the oldest backup.
  <1>12. ASSUME NEW m
         PROVE  Kept(m)' <=> \E i \in FileNumbers : InFile(i, m) /\ (i # n \/ n # MaxBackups)
    <2>1. n = MaxBackups <=> n + 1 \notin FileNumbers
      BY <1>2, <1>3, LogFilesAssumption DEF FileNumbers
    <2>2. ASSUME Kept(m)' PROVE \E i \in FileNumbers : InFile(i, m) /\ (i # n \/ n # MaxBackups)
      BY <1>2, <1>5, <2>1, <2>2 DEF Kept
    <2>3. ASSUME NEW i \in FileNumbers, InFile(i, m), i # n PROVE Kept(m)'
      BY <1>5, <2>3 DEF Kept
    <2>4. ASSUME InFile(n, m), n # MaxBackups PROVE Kept(m)'
      BY <1>2, <1>5, <2>1, <2>4 DEF Kept
    <2> QED BY <2>2, <2>3, <2>4
  <1>13. NoGap'
    <2> SUFFICES ASSUME NEW m \in 1 .. accepted, NEW o \in 1 .. accepted, Kept(m)', m <= o
                 PROVE  Kept(o)'
      BY <1>3 DEF NoGap
    <2>1. PICK i \in FileNumbers : InFile(i, m) /\ (i # n \/ n # MaxBackups)
      BY <1>12
    <2>2. Kept(m)
      BY <2>1 DEF Kept
    <2>3. PICK j \in FileNumbers : InFile(j, o)
      BY <2>2 DEF LogInv, NoGap, Kept
    <2>4. CASE j = n /\ n = MaxBackups
      <3>1. i < j
        BY <2>1, <2>4, LogFilesAssumption DEF FileNumbers
      <3>2. o < m
        BY <2>1, <2>3, <3>1 DEF LogInv, OlderBelow
      <3>3. accepted \in Nat
        BY DEF LogInv, LogTypeOK
      <3> QED BY <3>2, <3>3
    <2>5. CASE ~(j = n /\ n = MaxBackups)
      BY <1>12, <2>3, <2>5
    <2> QED BY <2>4, <2>5
  <1>14. UsedInOrder'
    <2> SUFFICES ASSUME logFailures = 0 PROVE UsedInOrder'
      BY <1>3 DEF UsedInOrder
    <2>1. ASSUME NEW i \in FileNumbers
          PROVE  /\ i # n /\ i # n + 1 => (Used(i)' <=> Used(i))
                 /\ i = n + 1 => (Used(i)' <=> Used(n))
                 /\ i = n => ~Used(i)'
      BY <1>3, <1>4, EmptyLogFacts DEF Used
    <2>2. /\ Used(0)
          /\ \A i, j \in FileNumbers : i < j /\ i # n + 1 /\ j # n + 1 /\ Used(j) => Used(i)
          /\ \A o \in 1 .. accepted : ~Kept(o) => \A i \in FileNumbers : i # n + 1 => Used(i)
      BY <1>3 DEF LogInv, UsedInOrder
    <2>3. n > 0 => Used(0)'
      BY <1>3, <2>1, <2>2, LogNumbers
    <2>4. ASSUME NEW i \in FileNumbers, NEW j \in FileNumbers, i < j, i # n, j # n, Used(j)'
          PROVE  Used(i)'
      <3>1. i \in Nat /\ j \in Nat
        BY LogNumbers
      <3>2. CASE j = n + 1
        <4>1. Used(n) /\ i < n
          BY <1>3, <2>1, <2>4, <3>1, <3>2
        <4> QED BY <1>2, <1>3, <2>1, <2>2, <2>4, <3>1, <4>1
      <3>3. CASE i = n + 1
        <4>1. Used(j) /\ n < j /\ j # n + 1
          BY <1>3, <2>1, <2>4, <3>1, <3>3
        <4> QED BY <1>2, <1>3, <2>1, <2>2, <3>3, <4>1
      <3>4. CASE i # n + 1 /\ j # n + 1
        BY <2>1, <2>2, <2>4, <3>4
      <3> QED BY <3>2, <3>3, <3>4
    <2>5. ASSUME NEW o \in 1 .. accepted, ~Kept(o)', NEW i \in FileNumbers, i # n
          PROVE  Used(i)'
      <3>1. \A j \in FileNumbers : j # n + 1 => Used(j)
        <4>1. CASE ~Kept(o)
          BY <2>2, <4>1
        <4>2. CASE Kept(o)
          <5>1. n = MaxBackups /\ InFile(n, o)
            BY <1>12, <2>5, <4>2 DEF Kept
          <5>2. Used(n)
            <6>1. Len(logFiles[n].recs) > 0
              <7>1. Len(logFiles[n].recs) \in Nat
                BY <1>2 DEF LogInv, LogTypeOK, LogFile
              <7> QED BY <5>1, <7>1 DEF InFile
            <6>2. Len(<<>>) = 0
              OBVIOUS
            <6> QED BY <6>1, <6>2 DEF Used
          <5>3. \A j \in FileNumbers : j # n => j < n /\ j # n + 1
            BY <5>1, LogFilesAssumption DEF FileNumbers
          <5>4. n # n + 1
            BY <1>3
          <5> QED BY <1>2, <2>2, <5>2, <5>3, <5>4
        <4> QED BY <4>1, <4>2
      <3> QED BY <1>2, <1>3, <2>1, <2>5, <3>1
    <2>6. rotation' # NoStep
      BY <1>2, <1>3
    <2> QED BY <1>3, <2>3, <2>4, <2>5, <2>6 DEF UsedInOrder
  <1>15. ExportSound'
    <2> SUFFICES ASSUME NEW k \in 1 .. Len(logExport.read), NEW i \in FileNumbers, NEW m,
                        i <= logExport.at, InFile(i, m)'
                 PROVE  logExport.read[k] < m
      BY <1>3 DEF LogInv, ExportSound
    <2>1. logExport.at \in Int
      BY DEF LogInv, LogTypeOK
    <2>2. CASE InFile(i, m)
      BY <2>2 DEF LogInv, ExportSound
    <2>3. CASE i = n + 1 /\ InFile(n, m)
      <3>1. n <= logExport.at
        BY <1>3, <2>1, <2>3
      <3> QED BY <1>2, <2>3, <3>1 DEF LogInv, ExportSound
    <2> QED BY <1>5, <2>2, <2>3
  <1> QED BY <1>6, <1>7, <1>8, <1>9, <1>10, <1>11, <1>13, <1>14, <1>15 DEF LogInv

LEMMA LogStep ==
    ASSUME LogInv, [LogNext]_logVars
    PROVE  LogInv'
  <1>1. CASE UNCHANGED logVars
    <2>1. /\ UNCHANGED <<logFiles, accepted, logExport, rotation, logFailures>>
          /\ LogTypeOK' /\ WriterSound'
      BY <1>1 DEF logVars, LogInv, LogTypeOK, WriterSound
    <2>2. ExportSound'
      BY <2>1, ExportStays
    <2> QED BY <2>1, <2>2, LogAloneKeeps
  <1>2. ASSUME NEW len \in RecordSizes,
               \/ AppendRecord(len) \/ StartRotation(len) \/ FailToClose(len)
               \/ \E part \in 0 .. len - 1 : TearRecord(len, part)
        PROVE  LogInv'
    BY <1>2, AppendKeeps, WriterKeeps, TearKeeps
  <1> QED BY <1>1, <1>2, MoveLogKeeps, WriterKeeps, FinishRotationKeeps, ExportKeeps DEF LogNext

LEMMA LogAlways == LogSpec => []LogInv
  <1> QED BY LogInitHolds, LogStep, PTL DEF LogSpec

\* Every log file and its export keeps its type, for any sizes of records,
\* number of backups and failures.
THEOREM LogTypes == LogSpec => []LogTypeOK
  <1>1. LogInv => LogTypeOK
    BY DEF LogInv
  <1> QED BY <1>1, LogAlways, PTL

\* The files keep the latest records in the order they were logged, a record
\* is given up only for room, and an export repeats and reorders none, for any
\* sizes of records, number of backups and failures (desktop/logging.go:116).
THEOREM LogsAreInOrder == LogSpec => []LogsInOrder
  <1> QED BY LogAlways, LogInvMeans, PTL
=============================================================================
