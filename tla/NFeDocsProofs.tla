--------------------------- MODULE NFeDocsProofs ---------------------------
(***************************************************************************)
(* Theorems about NFeDocs.                                                 *)
(*                                                                         *)
(* Every step does one of four things to the tables (TableSteps): it       *)
(* stores a document, stores an event, resets a company or leaves them     *)
(* alone.  What each of these does is stated once, in the lemmas of the    *)
(* first part, and the invariants are proved case by case from them.  The  *)
(* last part is about the events a pull discards (DropUnseen).             *)
(***************************************************************************)
EXTENDS NFeDocs, FiniteSetTheorems, WellFoundedInduction, TLAPS

-----------------------------------------------------------------------------
(* The parts of TypeOK.                                                    *)

TableType ==
    /\ doc \in DocRow
    /\ rows \in [Events -> EventRow]
    /\ holders \subseteq Companies
    /\ manif \in [Companies -> Manifestacoes]

WalkType ==
    /\ pos \in [Companies -> Nat]
    /\ \A c \in Companies : pos[c] <= Len(Queue[c])
    /\ pull \in [Companies -> {"idle", "keep", "drop"}]
    /\ pending \in [Companies -> {NoCall} \cup EventItem]

ExportType ==
    /\ marks \in [Companies -> [DocIds -> {NoMark} \cup Mark]]
    /\ exporting \in [Companies -> {NoExport} \cup Export]
    /\ shipped \in [Companies -> [DocIds -> Archive]]
    /\ exports \in 0 .. MaxExports
    /\ resets \in 0 .. MaxResets

LEMMA TypeParts == TypeOK <=> TableType /\ WalkType /\ ExportType
    BY DEF TypeOK, TableType, WalkType, ExportType

LEMMA TypePartsNext ==
    ASSUME TableType', WalkType', ExportType'
    PROVE  TypeOK'
    BY DEF TypeOK, TableType, WalkType, ExportType

LEMMA ItemType ==
    ASSUME TypeOK, NEW c \in Companies, pos[c] < Len(Queue[c])
    PROVE  NextItem(c) \in DocumentItem \cup EventItem
  <1>1. Queue[c] \in Seq(DocumentItem \cup EventItem)
    BY InputAssumption
  <1>2. pos[c] \in Nat /\ Len(Queue[c]) \in Nat
    BY <1>1 DEF TypeOK
  <1>3. pos[c] + 1 \in 1 .. Len(Queue[c])
    BY <1>2
  <1> QED BY <1>1, <1>3 DEF NextItem

LEMMA ItemKinds ==
    /\ \A x \in DocumentItem \cup EventItem : x.kind = "document" => x \in DocumentItem
    /\ \A x \in DocumentItem \cup EventItem : x.kind = "event" => x \in EventItem
    /\ \A x \in DocumentItem : x.version \in Version
    /\ \A x \in EventItem : x.event \in Events /\ x.full \in BOOLEAN /\ x.registered \in BOOLEAN
                           /\ x.blob \in BOOLEAN
    /\ \A x \in {NoCall} \cup EventItem : x # NoCall => x \in EventItem
    BY DEF DocumentItem, EventItem, NoCall

-----------------------------------------------------------------------------
(* What the helpers return.                                                *)

\* Of some events, one was registered last: they are finitely many.
LEMMA LatestExists ==
    ASSUME NEW S \in SUBSET Events, S # {}
    PROVE  \E e \in S : \A d \in S : RegisteredAt[d] <= RegisteredAt[e]
  <1> DEFINE After(e) == {d \in Events : RegisteredAt[d] > RegisteredAt[e]}
             T == {After(e) : e \in S}
  <1>1. IsFiniteSet(Events) /\ RegisteredAt \in [Events -> Nat]
    BY EventAssumption
  <1>2. T \subseteq FiniteSubsetsOf(Events)
    BY <1>1, FS_Subset DEF FiniteSubsetsOf
  <1>3. T # {}
    OBVIOUS
  <1>4. IsWellFoundedOn(StrictSubsetOrdering(Events), FiniteSubsetsOf(Events))
    BY FS_StrictSubsetOrderingWellFounded
  <1>5. PICK s \in T : \A t \in T : <<t, s>> \notin StrictSubsetOrdering(Events)
    <2> HIDE DEF T
    <2> QED BY <1>2, <1>3, <1>4, WFMin
  <1>6. PICK e \in S : s = After(e)
    BY <1>5
  <1>7. ASSUME NEW d \in S, ~(RegisteredAt[d] <= RegisteredAt[e])
        PROVE  FALSE
    <2>1. After(d) \in T /\ After(d) \subseteq After(e) /\ d \in After(e) /\ d \notin After(d)
      BY <1>1, <1>7
    <2>2. <<After(d), After(e)>> \in StrictSubsetOrdering(Events)
      BY <2>1 DEF StrictSubsetOrdering
    <2> QED BY <1>5, <1>6, <2>1, <2>2
  <1> QED BY <1>7

LEMMA ManifestacaoType ==
    ASSUME NEW r, NEW c
    PROVE  ManifestacaoFromEvents(r, c) \in Manifestacoes
  <1> DEFINE conclusive == {e \in Own(r, c) : TypeOf[e] # "ciencia"}
             Latest(e) == \A d \in conclusive : RegisteredAt[d] <= RegisteredAt[e]
  <1>1. CASE conclusive # {}
    <2>1. conclusive \in SUBSET Events
      BY DEF Own, Stored
    <2>2. \E e \in conclusive : Latest(e)
      <3> HIDE DEF conclusive
      <3> QED BY <1>1, <2>1, LatestExists
    <2>3. (CHOOSE e \in conclusive : Latest(e)) \in conclusive
      BY <2>2
    <2>4. \A e \in conclusive : TypeOf[e] \in Conclusive
      BY DEF Own
    <2> QED BY <1>1, <2>3, <2>4 DEF ManifestacaoFromEvents, ManifestacaoOf, Manifestacoes
  <1>2. CASE conclusive = {}
    BY <1>2 DEF ManifestacaoFromEvents, ManifestacaoOf, Manifestacoes
  <1> QED BY <1>1, <1>2

LEMMA SeverityFacts ==
    /\ \A s \in Situacoes : SeverityOf(s) \in 1 .. 3
    /\ SeverityOf("cancelada") = 3
    /\ \A a, b \in Situacoes :
          /\ MoreSevere(a, b) \in Situacoes
          /\ SeverityOf(MoreSevere(a, b)) >= SeverityOf(a)
          /\ SeverityOf(MoreSevere(a, b)) >= SeverityOf(b)
    BY DEF Situacoes, SeverityOf, MoreSevere

\* Events only worsen a situation, and to apply them again changes nothing.
LEMMA SituacaoFacts ==
    ASSUME NEW s \in Situacoes, NEW r
    PROVE  /\ SituacaoFromEvents(s, r) \in Situacoes
           /\ SeverityOf(SituacaoFromEvents(s, r)) >= SeverityOf(s)
           /\ SituacaoFromEvents(SituacaoFromEvents(s, r), r) = SituacaoFromEvents(s, r)
    BY SeverityFacts DEF SituacaoFromEvents, Situacoes

\* Nothing is forgotten by a merge (nfe/merge.go:16).
LEMMA MergeFacts ==
    ASSUME NEW d \in DocRow, NEW v \in Version
    PROVE  /\ MergeDocument(d, v) \in DocRow
           /\ MergeDocument(d, v).id = d.id
           /\ MergeDocument(d, v).raw.full = (d.raw.full \/ v.full)
           /\ SeverityOf(MergeDocument(d, v).situacao) >= SeverityOf(d.situacao)
           /\ SeverityOf(MergeDocument(d, v).situacao) >= SeverityOf(v.situacao)
  <1>1. d.situacao \in Situacoes /\ v.situacao \in Situacoes
    BY DEF DocRow, Version
  <1>2. MergeDocument(d, v) =
          [id |-> d.id, raw |-> IF d.raw.full /\ ~v.full THEN d.raw ELSE v,
           situacao |-> MoreSevere(d.situacao, v.situacao)]
    BY DEF MergeDocument
  <1>3. d.raw \in Version /\ d.id \in DocIds \cup {0}
    BY DEF DocRow
  <1>4. MergeDocument(d, v) \in DocRow
    BY <1>1, <1>2, <1>3, SeverityFacts DEF DocRow
  <1>5. d.raw.full \in BOOLEAN /\ v.full \in BOOLEAN
    BY <1>3 DEF Version
  <1>6. MergeDocument(d, v).raw.full = (d.raw.full \/ v.full)
    BY <1>2, <1>5
  <1> QED BY <1>1, <1>2, <1>4, <1>6, SeverityFacts

LEMMA DocumentWithFacts ==
    ASSUME TypeOK, NEW v \in Version
    PROVE  /\ DocumentWith(v) \in DocRow
           /\ DocumentWith(v).id = IF doc.id = 0 THEN resets + 1 ELSE doc.id
           /\ DocumentWith(v).id # 0
           /\ v.full => DocumentWith(v).raw.full
           /\ SeverityOf(DocumentWith(v).situacao) >= SeverityOf(v.situacao)
           /\ doc.id # 0 =>
                /\ doc.raw.full => DocumentWith(v).raw.full
                /\ SeverityOf(DocumentWith(v).situacao) >= SeverityOf(doc.situacao)
  <1>1. doc \in DocRow /\ resets \in 0 .. MaxResets /\ MaxResets \in Nat
    BY InputAssumption DEF TypeOK
  <1>2. CASE doc.id = 0
    <2>1. DocumentWith(v) = [id |-> resets + 1, raw |-> v, situacao |-> v.situacao]
      BY <1>2 DEF DocumentWith
    <2>2. resets + 1 \in DocIds /\ resets + 1 # 0
      BY <1>1 DEF DocIds
    <2>3. v.situacao \in Situacoes
      BY DEF Version
    <2> QED BY <1>2, <2>1, <2>2, <2>3, SeverityFacts DEF DocRow
  <1>3. CASE doc.id # 0
    <2>1. DocumentWith(v) = MergeDocument(doc, v)
      BY <1>3 DEF DocumentWith
    <2> QED BY <1>1, <1>3, <2>1, MergeFacts
  <1> QED BY <1>2, <1>3

\* A completa is never replaced by a resumo, nor a row lost
\* (store/queries/nfe.sql:85).
LEMMA UpsertFacts ==
    ASSUME TypeOK, NEW x \in EventItem
    PROVE  /\ UpsertEvent(x) \in [Events -> EventRow]
           /\ x.event \in Events
           /\ Stored(UpsertEvent(x)) = Stored(rows) \cup {x.event}
           /\ \A e \in Events : rows[e].xml = "completa" => UpsertEvent(x)[e].xml = "completa"
           /\ x.full => UpsertEvent(x)[x.event].xml = "completa"
           /\ \A e \in Events : UpsertEvent(x)[e].linked = rows[e].linked
  <1>1. rows \in [Events -> EventRow]
    BY DEF TypeOK
  <1>2. x.event \in Events /\ x.full \in BOOLEAN /\ x.registered \in BOOLEAN /\ x.blob \in BOOLEAN
    BY ItemKinds
  <1> DEFINE row == [xml |-> IF x.full THEN "completa" ELSE "resumo",
                     blob |-> x.blob,
                     registered |-> x.registered,
                     linked |-> rows[x.event].linked]
  <1>3. rows[x.event].linked \in BOOLEAN
    <2>1. rows[x.event] \in EventRow
      BY <1>1, <1>2
    <2>2. NoRow.linked \in BOOLEAN
      BY DEF NoRow
    <2> QED BY <2>1, <2>2 DEF EventRow
  <1>4. row \in EventRow /\ row.xml # "none" /\ row.linked = rows[x.event].linked
    BY <1>2, <1>3 DEF EventRow
  <1>5. CASE rows[x.event].xml = "completa" /\ ~x.full
    <2>1. UpsertEvent(x) = rows
      BY <1>5 DEF UpsertEvent
    <2>2. x.event \in Stored(rows)
      BY <1>2, <1>5 DEF Stored
    <2> QED BY <1>1, <1>2, <1>5, <2>1, <2>2
  <1>6. CASE ~(rows[x.event].xml = "completa" /\ ~x.full)
    <2>1. UpsertEvent(x) = [rows EXCEPT ![x.event] = row]
      BY <1>6 DEF UpsertEvent
    <2>2. row.xml = IF x.full THEN "completa" ELSE "resumo"
      OBVIOUS
    <2> HIDE DEF row
    <2> QED BY <1>1, <1>2, <1>4, <1>6, <2>1, <2>2 DEF Stored
  <1> QED BY <1>5, <1>6

\* What refreshChave leaves: the same documents and events, linked to each
\* other and applied.
LEMMA RefreshFacts ==
    ASSUME TypeOK, NEW d \in DocRow, NEW r \in [Events -> EventRow],
           NEW h \in SUBSET Companies, RefreshChave(d, r, h)
    PROVE  /\ TableType'
           /\ holders' = h
           /\ doc'.id = d.id /\ doc'.raw = d.raw
           /\ SeverityOf(doc'.situacao) >= SeverityOf(d.situacao)
           /\ \A e \in Events : rows'[e].xml = r[e].xml /\ rows'[e].registered = r[e].registered
           /\ d.id = 0 => doc' = d /\ rows' = r
           /\ d.id # 0 =>
                /\ doc'.situacao = SituacaoFromEvents(doc'.situacao, r)
                /\ \A e \in Events : rows'[e].linked <=> e \in Stored(r)
                /\ \A c \in h : manif'[c] = ManifestacaoFromEvents(r, c)
  <1>1. manif \in [Companies -> Manifestacoes] /\ holders' = h
    BY DEF TypeOK, RefreshChave
  <1>2. CASE d.id = 0
    <2>1. doc' = d /\ rows' = r /\ manif' = manif
      BY <1>2 DEF RefreshChave
    <2>2. d.situacao \in Situacoes
      BY DEF DocRow
    <2> QED BY <1>1, <1>2, <2>1, <2>2, SeverityFacts DEF TableType
  <1>3. CASE d.id # 0
    <2>1. /\ doc' = [d EXCEPT !.situacao = SituacaoFromEvents(d.situacao, r)]
          /\ rows' = [e \in Events |-> [r[e] EXCEPT !.linked = e \in Stored(r)]]
          /\ manif' = [c \in Companies |->
                         IF c \in h THEN ManifestacaoFromEvents(r, c) ELSE manif[c]]
      BY <1>3 DEF RefreshChave, Refreshed
    <2>2. d.situacao \in Situacoes /\ d.raw \in Version /\ d.id \in DocIds \cup {0}
      BY DEF DocRow
    <2>3. doc' = [id |-> d.id, raw |-> d.raw, situacao |-> SituacaoFromEvents(d.situacao, r)]
      BY <2>1 DEF DocRow
    <2>4. /\ doc' \in DocRow /\ doc'.id = d.id /\ doc'.raw = d.raw
          /\ SeverityOf(doc'.situacao) >= SeverityOf(d.situacao)
          /\ doc'.situacao = SituacaoFromEvents(doc'.situacao, r)
      BY <2>2, <2>3, SituacaoFacts DEF DocRow
    <2>5. \A e \in Events :
            /\ rows'[e] \in EventRow
            /\ rows'[e].xml = r[e].xml /\ rows'[e].registered = r[e].registered
            /\ rows'[e].linked <=> e \in Stored(r)
      <3> SUFFICES ASSUME NEW e \in Events
                   PROVE  /\ rows'[e] \in EventRow
                          /\ rows'[e].xml = r[e].xml /\ rows'[e].registered = r[e].registered
                          /\ rows'[e].linked <=> e \in Stored(r)
        OBVIOUS
      <3>1. rows'[e] = [r[e] EXCEPT !.linked = e \in Stored(r)]
        BY <2>1
      <3>2. CASE r[e] = NoRow
        <4>1. e \notin Stored(r)
          BY <3>2 DEF Stored, NoRow
        <4>2. (e \in Stored(r)) = FALSE
          BY <4>1
        <4>3. rows'[e] = [NoRow EXCEPT !.linked = FALSE]
          BY <3>1, <3>2, <4>2
        <4>4. rows'[e] = NoRow
          BY <4>3 DEF NoRow
        <4>5. NoRow \in EventRow /\ NoRow.linked = FALSE
          BY DEF EventRow, NoRow
        <4> QED BY <3>2, <4>1, <4>4, <4>5
      <3>3. CASE r[e] \in [xml : {"resumo", "completa"}, blob : BOOLEAN,
                            registered : BOOLEAN, linked : BOOLEAN]
        <4>1. e \in Stored(r)
          BY <3>3 DEF Stored
        <4>2. rows'[e] = [r[e] EXCEPT !.linked = TRUE]
          BY <3>1, <4>1
        <4>3. rows'[e] = [xml |-> r[e].xml, blob |-> r[e].blob,
                          registered |-> r[e].registered, linked |-> TRUE]
          BY <3>3, <4>2
        <4> QED BY <3>3, <4>1, <4>3 DEF EventRow
      <3> QED BY <3>2, <3>3 DEF EventRow
    <2>6. manif' \in [Companies -> Manifestacoes]
      BY <1>1, <2>1, ManifestacaoType
    <2>7. rows' \in [Events -> EventRow]
      BY <2>1, <2>5
    <2> QED BY <1>1, <1>3, <2>1, <2>4, <2>5, <2>6, <2>7 DEF TableType
  <1> QED BY <1>2, <1>3

-----------------------------------------------------------------------------
(* What a step does to the tables.                                         *)

\* The situation and the manifestacoes are those the rows r give.
AppliedWith(r) ==
    /\ doc.situacao = SituacaoFromEvents(doc.situacao, r)
    /\ \A e \in Events : rows[e].linked <=> e \in Stored(r)
    /\ \A c \in holders : manif[c] = ManifestacaoFromEvents(r, c)

\* The step forgets nothing of the events, nor of the document if it is there.
Kept ==
    /\ \A e \in Events :
          /\ e \in Stored(rows) => e \in Stored(rows')
          /\ rows[e].xml = "completa" => rows'[e].xml = "completa"
    /\ doc.id # 0 =>
          /\ doc'.id = doc.id
          /\ doc.raw.full => doc'.raw.full
          /\ SeverityOf(doc'.situacao) >= SeverityOf(doc.situacao)

LEMMA SameVersions ==
    ASSUME NEW r \in [Events -> EventRow], NEW q \in [Events -> EventRow],
           \A e \in Events : q[e].xml = r[e].xml /\ q[e].registered = r[e].registered
    PROVE  /\ Stored(q) = Stored(r)
           /\ \A s : SituacaoFromEvents(s, q) = SituacaoFromEvents(s, r)
           /\ \A c : ManifestacaoFromEvents(q, c) = ManifestacaoFromEvents(r, c)
  <1>1. Stored(q) = Stored(r)
    BY DEF Stored
  <1>2. \A s : SituacaoFromEvents(s, q) = SituacaoFromEvents(s, r)
    BY <1>1 DEF SituacaoFromEvents, Stored
  <1>3. \A c : Own(q, c) = Own(r, c)
    BY <1>1 DEF Own, Stored
  <1> QED BY <1>1, <1>2, <1>3 DEF ManifestacaoFromEvents

LEMMA DocumentStored ==
    ASSUME TypeOK, NEW c \in Companies, NEW v \in Version, ApplyDocument(c, v)
    PROVE  /\ TableType'
           /\ Kept
           /\ holders' = holders \cup {c}
           /\ doc'.id = IF doc.id = 0 THEN resets + 1 ELSE doc.id
           /\ doc'.id # 0
           /\ v.full => doc'.raw.full
           /\ SeverityOf(doc'.situacao) >= SeverityOf(v.situacao)
           /\ Stored(rows') = Stored(rows)
           /\ AppliedWith(rows)'
  <1> DEFINE d == DocumentWith(v)
             h == holders \cup {c}
  <1>1. /\ rows \in [Events -> EventRow] /\ h \in SUBSET Companies
        /\ RefreshChave(d, rows, h)
    BY DEF TypeOK, ApplyDocument
  <1>2. /\ d \in DocRow
        /\ d.id = IF doc.id = 0 THEN resets + 1 ELSE doc.id
        /\ d.id # 0
        /\ v.full => d.raw.full
        /\ SeverityOf(d.situacao) >= SeverityOf(v.situacao)
        /\ doc.id # 0 =>
             /\ doc.raw.full => d.raw.full
             /\ SeverityOf(d.situacao) >= SeverityOf(doc.situacao)
    BY DocumentWithFacts
  <1> HIDE DEF d, h
  <1>3. /\ TableType' /\ holders' = h /\ doc'.id = d.id /\ doc'.raw = d.raw
        /\ SeverityOf(doc'.situacao) >= SeverityOf(d.situacao)
        /\ \A e \in Events : rows'[e].xml = rows[e].xml /\ rows'[e].registered = rows[e].registered
        /\ doc'.situacao = SituacaoFromEvents(doc'.situacao, rows)
        /\ \A e \in Events : rows'[e].linked <=> e \in Stored(rows)
        /\ \A b \in h : manif'[b] = ManifestacaoFromEvents(rows, b)
    BY <1>1, <1>2, RefreshFacts
  <1>4. rows' \in [Events -> EventRow]
    BY <1>3 DEF TableType
  <1>5. /\ Stored(rows') = Stored(rows)
        /\ \A s : SituacaoFromEvents(s, rows') = SituacaoFromEvents(s, rows)
        /\ \A b : ManifestacaoFromEvents(rows', b) = ManifestacaoFromEvents(rows, b)
    BY <1>1, <1>3, <1>4, SameVersions
  <1>6. AppliedWith(rows)'
    BY <1>3, <1>5 DEF AppliedWith
  <1>7. /\ doc.situacao \in Situacoes /\ d.situacao \in Situacoes /\ v.situacao \in Situacoes
        /\ doc'.situacao \in Situacoes
    BY <1>2, <1>3 DEF TypeOK, TableType, DocRow, Version
  <1>8. /\ SeverityOf(doc'.situacao) >= SeverityOf(v.situacao)
        /\ doc.id # 0 => SeverityOf(doc'.situacao) >= SeverityOf(doc.situacao)
    BY <1>2, <1>3, <1>7, SeverityFacts
  <1>9. Kept
    BY <1>2, <1>3, <1>5, <1>8 DEF Kept
  <1> QED BY <1>2, <1>3, <1>5, <1>6, <1>8, <1>9 DEF h

LEMMA EventStored ==
    ASSUME TypeOK, NEW x \in EventItem, ApplyEvent(x)
    PROVE  /\ TableType'
           /\ Kept
           /\ holders' = holders
           /\ doc'.id = doc.id /\ doc'.raw = doc.raw
           /\ x.event \in Stored(rows')
           /\ x.full => rows'[x.event].xml = "completa"
           /\ Stored(rows) \subseteq Stored(rows')
           /\ doc.id = 0 => doc' = doc /\ \A e \in Events : rows'[e].linked = rows[e].linked
           /\ doc.id # 0 => AppliedWith(rows)'
  <1> DEFINE r == UpsertEvent(x)
  <1>1. /\ doc \in DocRow /\ holders \in SUBSET Companies
        /\ RefreshChave(doc, r, holders)
    BY DEF TypeOK, ApplyEvent
  <1>2. /\ r \in [Events -> EventRow] /\ x.event \in Events
        /\ Stored(r) = Stored(rows) \cup {x.event}
        /\ \A e \in Events : rows[e].xml = "completa" => r[e].xml = "completa"
        /\ x.full => r[x.event].xml = "completa"
        /\ \A e \in Events : r[e].linked = rows[e].linked
    BY UpsertFacts
  <1> HIDE DEF r
  <1>3. /\ TableType' /\ holders' = holders /\ doc'.id = doc.id /\ doc'.raw = doc.raw
        /\ SeverityOf(doc'.situacao) >= SeverityOf(doc.situacao)
        /\ \A e \in Events : rows'[e].xml = r[e].xml /\ rows'[e].registered = r[e].registered
        /\ doc.id = 0 => doc' = doc /\ rows' = r
        /\ doc.id # 0 =>
             /\ doc'.situacao = SituacaoFromEvents(doc'.situacao, r)
             /\ \A e \in Events : rows'[e].linked <=> e \in Stored(r)
             /\ \A c \in holders : manif'[c] = ManifestacaoFromEvents(r, c)
    BY <1>1, <1>2, RefreshFacts
  <1>4. rows' \in [Events -> EventRow]
    BY <1>3 DEF TableType
  <1>5. /\ Stored(rows') = Stored(r)
        /\ \A s : SituacaoFromEvents(s, rows') = SituacaoFromEvents(s, r)
        /\ \A c : ManifestacaoFromEvents(rows', c) = ManifestacaoFromEvents(r, c)
    BY <1>2, <1>3, <1>4, SameVersions
  <1>6. doc.id # 0 => AppliedWith(rows)'
    BY <1>3, <1>5 DEF AppliedWith
  <1>7. Kept
    BY <1>2, <1>3, <1>5 DEF Kept
  <1> QED BY <1>2, <1>3, <1>5, <1>6, <1>7

\* A reset takes the document with it only if no other company sees it, and
\* touches no row while the document stays.
LEMMA ResetFacts ==
    ASSUME TypeOK, NEW c \in Companies, ResetCompany(c)
    PROVE  /\ TableType'
           /\ holders' = holders \ {c}
           /\ resets' = resets + 1 /\ resets' \in 0 .. MaxResets
           /\ Exclusive(c) => doc' = NoDoc /\ \A e \in Stored(rows') : ~rows'[e].linked
           /\ ~Exclusive(c) => doc' = doc
           /\ ~Exclusive(c) /\ doc.id # 0 => rows' = rows
           /\ \A e \in Events :
                rows'[e] # NoRow => rows'[e].xml = rows[e].xml /\ (rows'[e].linked => rows[e].linked)
           /\ \A e \in Events, b \in Companies \ {c} :
                AuthorOf[e] = b => rows'[e].xml = rows[e].xml
           /\ \A b \in Companies \ {c} : manif'[b] = manif[b]
           /\ ~Exclusive(c) => \A e \in Events :
                rows'[e] = rows[e] \/ rows'[e] = NoRow
  <1>1. /\ rows \in [Events -> EventRow] /\ doc \in DocRow /\ resets \in 0 .. MaxResets
        /\ manif \in [Companies -> Manifestacoes] /\ holders \subseteq Companies
        /\ MaxResets \in Nat
    BY InputAssumption DEF TypeOK
  <1>2. NoDoc \in DocRow /\ NoRow \in EventRow /\ NoRow.linked = FALSE /\ NoRow.xml = "none"
    BY DEF NoDoc, DocRow, Version, Situacoes, EventRow, NoRow
  <1>3. ASSUME NEW e \in Events
        PROVE  /\ rows'[e] \in EventRow
               /\ rows'[e] # NoRow => rows'[e].xml = rows[e].xml
               /\ rows'[e] # NoRow => (rows'[e].linked => rows[e].linked)
               /\ ~EventRemoved(c, e) => rows'[e].xml = rows[e].xml
               /\ ~EventRemoved(c, e) /\ ~Exclusive(c) => rows'[e] = rows[e]
               /\ EventRemoved(c, e) => rows'[e] = NoRow
               /\ Exclusive(c) => ~rows'[e].linked
    <2>1. rows'[e] = IF EventRemoved(c, e) THEN NoRow
                     ELSE [rows[e] EXCEPT !.linked = @ /\ ~Exclusive(c)]
      BY DEF ResetCompany
    <2>2. CASE EventRemoved(c, e)
      BY <1>2, <2>1, <2>2
    <2>3. CASE ~EventRemoved(c, e) /\ Exclusive(c)
      <3>1. rows'[e] = [rows[e] EXCEPT !.linked = FALSE]
        <4>1. (rows[e].linked /\ ~Exclusive(c)) = FALSE
          BY <2>3
        <4> QED BY <2>1, <2>3, <4>1
      <3>2. CASE rows[e] = NoRow
        <4>1. rows'[e] = [NoRow EXCEPT !.linked = FALSE]
          BY <3>1, <3>2
        <4>2. rows'[e] = NoRow
          BY <4>1 DEF NoRow
        <4> QED BY <1>2, <2>3, <3>2, <4>2
      <3>3. CASE rows[e] \in [xml : {"resumo", "completa"}, blob : BOOLEAN,
                            registered : BOOLEAN, linked : BOOLEAN]
        <4>1. rows'[e] = [xml |-> rows[e].xml, blob |-> rows[e].blob,
                          registered |-> rows[e].registered, linked |-> FALSE]
          BY <3>1, <3>3
        <4> QED BY <2>3, <3>3, <4>1 DEF EventRow
      <3> QED BY <1>1, <3>2, <3>3 DEF EventRow
    <2>4. CASE ~EventRemoved(c, e) /\ ~Exclusive(c)
      <3>1. rows'[e] = [rows[e] EXCEPT !.linked = rows[e].linked]
        <4>1. rows[e].linked \in BOOLEAN
          <5>1. rows[e] \in EventRow
            BY <1>1
          <5> QED BY <1>2, <5>1 DEF EventRow
        <4>2. (rows[e].linked /\ ~Exclusive(c)) = rows[e].linked
          BY <2>4, <4>1
        <4> QED BY <2>1, <2>4, <4>2
      <3>2. rows'[e] = rows[e]
        <4>1. CASE rows[e] = NoRow
          BY <3>1, <4>1 DEF NoRow
        <4>2. CASE rows[e] \in [xml : {"resumo", "completa"}, blob : BOOLEAN,
                            registered : BOOLEAN, linked : BOOLEAN]
          BY <3>1, <4>2
        <4> QED BY <1>1, <4>1, <4>2 DEF EventRow
      <3> QED BY <1>1, <2>4, <3>2
    <2> QED BY <2>2, <2>3, <2>4
  <1>4. rows' \in [Events -> EventRow]
    BY <1>3 DEF ResetCompany
  <1>5. TableType'
    BY <1>1, <1>2, <1>4 DEF ResetCompany, TableType, Manifestacoes
  <1>6. ~Exclusive(c) /\ doc.id # 0 => rows' = rows
    <2> SUFFICES ASSUME ~Exclusive(c), doc.id # 0
                 PROVE  rows' = rows
      OBVIOUS
    <2>1. \A e \in Events : ~EventRemoved(c, e)
      BY DEF EventRemoved
    <2>2. \A e \in Events : rows'[e] = rows[e]
      BY <1>3, <2>1
    <2> QED BY <1>1, <1>4, <2>2
  <1>7. \A e \in Events, b \in Companies \ {c} : AuthorOf[e] = b => ~EventRemoved(c, e)
    BY DEF EventRemoved
  <1>8. /\ holders' = holders \ {c} /\ resets' = resets + 1 /\ resets < MaxResets
        /\ Exclusive(c) => doc' = NoDoc
        /\ ~Exclusive(c) => doc' = doc
        /\ \A b \in Companies \ {c} : manif'[b] = manif[b]
    BY <1>1 DEF ResetCompany
  <1>9. \A e \in Stored(rows') : e \in Events
    BY DEF Stored
  <1> QED BY <1>1, <1>3, <1>5, <1>6, <1>7, <1>8, <1>9

\* The four kinds of step, as seen by the tables.
LEMMA TableSteps ==
    ASSUME TypeOK, [Next]_vars
    PROVE  \/ \E c \in Companies, v \in Version : ApplyDocument(c, v) /\ UNCHANGED resets
           \/ \E x \in EventItem : ApplyEvent(x) /\ UNCHANGED resets
           \/ \E c \in Companies : ResetCompany(c)
           \/ UNCHANGED tables /\ UNCHANGED resets
  <1> DEFINE Goal == \/ \E c \in Companies, v \in Version : ApplyDocument(c, v) /\ UNCHANGED resets
                     \/ \E x \in EventItem : ApplyEvent(x) /\ UNCHANGED resets
                     \/ \E c \in Companies : ResetCompany(c)
                     \/ UNCHANGED tables /\ UNCHANGED resets
  <1> SUFFICES Goal
    OBVIOUS
  <1>1. ASSUME NEW c \in Companies, PullDocument(c)
        PROVE  Goal
    <2>1. NextItem(c).version \in Version
      BY <1>1, ItemType, ItemKinds DEF PullDocument, At
    <2> QED BY <1>1, <2>1 DEF PullDocument, bounds
  <1>2. ASSUME NEW c \in Companies, PullEventKeep(c)
        PROVE  Goal
    <2>1. NextItem(c) \in EventItem
      BY <1>2, ItemType, ItemKinds DEF PullEventKeep, At
    <2> QED BY <1>2, <2>1 DEF PullEventKeep, bounds
  <1>3. ASSUME NEW c \in Companies, FetchByChave(c)
        PROVE  Goal
    <2>1. PICK i \in DOMAIN Queue[c] :
            Queue[c][i].kind = "document" /\ ApplyDocument(c, Queue[c][i].version)
      BY <1>3 DEF FetchByChave
    <2>2. Queue[c] \in Seq(DocumentItem \cup EventItem)
      BY InputAssumption
    <2>3. Queue[c][i].version \in Version
      BY <2>1, <2>2, ItemKinds
    <2> QED BY <1>3, <2>1, <2>3 DEF FetchByChave, bounds
  <1>4. ASSUME NEW c \in Companies, NEW x \in Importable[c], ImportDocument(c, x)
        PROVE  Goal
    <2>1. x \in DocumentItem \cup EventItem
      BY InputAssumption
    <2>2. x.version \in Version
      BY <1>4, <2>1, ItemKinds DEF ImportDocument
    <2> QED BY <1>4, <2>2 DEF ImportDocument, bounds
  <1>5. ASSUME NEW c \in Companies, StorePending(c)
        PROVE  Goal
    <2>1. pending[c] \in EventItem
      BY <1>5, ItemKinds DEF TypeOK, StorePending
    <2>2. PICK kept \in BOOLEAN : ApplyEvent([pending[c] EXCEPT !.blob = @ \/ kept])
      BY <1>5 DEF StorePending
    <2>3. [pending[c] EXCEPT !.blob = @ \/ kept] \in EventItem
      <3>1. (pending[c].blob \/ kept) \in BOOLEAN
        OBVIOUS
      <3> QED BY <2>1, <3>1 DEF EventItem
    <2> QED BY <1>5, <2>2, <2>3 DEF StorePending, bounds
  <1>6. ASSUME NEW c \in Companies,
               PullEventCheck(c) \/ PullEventDrop(c) \/ EndPull(c) \/ LosePending(c)
               \/ ResetSyncState(c) \/ SelectForExport(c) \/ ReadEvents(c) \/ ExportAlone(c)
               \/ MarkExported(c) \/ ExportFails(c)
        PROVE  Goal
    BY <1>6 DEF PullEventCheck, PullEventDrop, EndPull, LosePending, ResetSyncState,
                SelectForExport, ReadEvents, ExportAlone, MarkExported, ExportFails, bounds, tables
  <1>7. ASSUME NEW c \in Companies, \/ \E x \in Importable[c] : ImportEvent(c, x)
                                    \/ \E e \in Events : Manifest(c, e)
        PROVE  Goal
    BY <1>7 DEF ImportEvent, Manifest, bounds
  <1>8. CASE Crash
    BY <1>8 DEF Crash, bounds
  <1>9. CASE UNCHANGED vars
    BY <1>9 DEF vars, bounds
  <1> HIDE DEF Goal
  <1> QED BY <1>1, <1>2, <1>3, <1>4, <1>5, <1>6, <1>7, <1>8, <1>9 DEF Next, Goal

-----------------------------------------------------------------------------
(* Type correctness.                                                       *)

LEMMA TypeInit == Init => TypeOK
  <1> SUFFICES ASSUME Init PROVE TypeOK
    OBVIOUS
  <1>1. NoDoc \in DocRow /\ NoRow \in EventRow /\ NoDoc.raw \in Version
    BY DEF NoDoc, DocRow, Version, Situacoes, NoRow, EventRow
  <1>2. NoArchive \in Archive
    BY <1>1 DEF NoArchive, Archive
  <1>3. TableType
    BY <1>1 DEF Init, TableType, Manifestacoes
  <1>4. WalkType
    <2>1. \A c \in Companies : Len(Queue[c]) \in Nat
      BY InputAssumption
    <2> QED BY <2>1 DEF Init, WalkType
  <1>5. ExportType
    <2>1. 0 \in 0 .. MaxExports /\ 0 \in 0 .. MaxResets
      BY InputAssumption
    <2> QED BY <1>2, <2>1 DEF Init, ExportType
  <1> QED BY <1>3, <1>4, <1>5, TypeParts

LEMMA TableTypeStep == TypeOK /\ [Next]_vars => TableType'
  <1> SUFFICES ASSUME TypeOK, [Next]_vars PROVE TableType'
    OBVIOUS
  <1>1. CASE UNCHANGED tables
    BY <1>1, TypeParts DEF tables, TableType
  <1> QED BY <1>1, TableSteps, DocumentStored, EventStored, ResetFacts

LEMMA WalkTypeStep == TypeOK /\ [Next]_vars => WalkType'
  <1> SUFFICES ASSUME TypeOK, [Next]_vars PROVE WalkType'
    OBVIOUS
  <1>0. WalkType
    BY TypeParts
  <1> DEFINE Stages == {"idle", "keep", "drop"}
             Calls == {NoCall} \cup EventItem
  <1>a. /\ pos \in [Companies -> Nat]
        /\ \A c \in Companies : pos[c] <= Len(Queue[c]) /\ Len(Queue[c]) \in Nat
        /\ pull \in [Companies -> Stages] /\ pending \in [Companies -> Calls]
        /\ NoCall \in Calls
    BY <1>0, InputAssumption DEF WalkType
  <1>1. ASSUME NEW c \in Companies, PullDocument(c) \/ PullEventKeep(c) \/ PullEventDrop(c)
        PROVE  WalkType'
    <2>1. /\ pos' = [pos EXCEPT ![c] = pos[c] + 1] /\ pos[c] < Len(Queue[c])
          /\ pull' = [pull EXCEPT ![c] = "idle"] /\ pending' = pending
      BY <1>1 DEF PullDocument, PullEventKeep, PullEventDrop, Checkpoint, At
    <2> QED BY <1>a, <2>1 DEF WalkType
  <1>2. ASSUME NEW c \in Companies, PullEventCheck(c) \/ EndPull(c)
        PROVE  WalkType'
    <2>1. /\ pos' = pos /\ pending' = pending
          /\ \E s \in Stages : pull' = [pull EXCEPT ![c] = s]
      BY <1>2 DEF PullEventCheck, EndPull
    <2> QED BY <1>a, <2>1 DEF WalkType
  <1>3. ASSUME NEW c \in Companies, FetchByChave(c)
        PROVE  WalkType'
    BY <1>0, <1>3 DEF FetchByChave, WalkType, calls
  <1>4. ASSUME NEW c \in Companies, NEW x \in Importable[c], ImportDocument(c, x)
        PROVE  WalkType'
    BY <1>0, <1>4 DEF ImportDocument, WalkType, calls
  <1>5. ASSUME NEW c \in Companies,
               \/ \E x \in Importable[c] : ImportEvent(c, x)
               \/ \E e \in Events : Manifest(c, e)
               \/ StorePending(c) \/ LosePending(c)
        PROVE  WalkType'
    <2>1. \A x \in Importable[c] : x.kind = "event" => x \in Calls
      BY InputAssumption, ItemKinds
    <2>2. \A e \in Events : 
            [kind |-> "event", event |-> e, full |-> TRUE, registered |-> TRUE, blob |-> FALSE]
              \in Calls
      BY DEF EventItem
    <2>3. pos' = pos /\ pull' = pull /\ \E x \in Calls : pending' = [pending EXCEPT ![c] = x]
      <3> HIDE DEF Calls
      <3> QED BY <1>5, <1>a, <2>1, <2>2 DEF ImportEvent, Manifest, StorePending, LosePending
    <2> QED BY <1>a, <2>3 DEF WalkType
  <1>6. ASSUME NEW c \in Companies, ResetCompany(c) \/ ResetSyncState(c)
        PROVE  WalkType'
    <2>1. pos' = [pos EXCEPT ![c] = 0] /\ pull' = pull /\ pending' = pending
      BY <1>6 DEF ResetCompany, ResetSyncState, calls
    <2> QED BY <1>a, <2>1 DEF WalkType
  <1>7. ASSUME NEW c \in Companies,
               SelectForExport(c) \/ ReadEvents(c) \/ ExportAlone(c) \/ MarkExported(c) \/ ExportFails(c)
        PROVE  WalkType'
    BY <1>0, <1>7 DEF SelectForExport, ReadEvents, ExportAlone, MarkExported, ExportFails, WalkType
  <1>8. CASE Crash
    <2>1. /\ pos' = pos /\ pull' = [c \in Companies |-> "idle"]
          /\ pending' = [c \in Companies |-> NoCall]
      BY <1>8 DEF Crash
    <2> QED BY <1>a, <2>1 DEF WalkType
  <1>9. CASE UNCHANGED vars
    BY <1>0, <1>9 DEF vars, calls, WalkType
  <1> QED BY <1>1, <1>2, <1>3, <1>4, <1>5, <1>6, <1>7, <1>8, <1>9 DEF Next

LEMMA StoredFacts ==
    ASSUME NEW r
    PROVE  /\ Stored(r) \subseteq Events
           /\ IsFiniteSet(Stored(r))
           /\ Cardinality(Stored(r)) \in 0 .. Cardinality(Events)
  <1>1. Stored(r) \subseteq Events
    BY DEF Stored
  <1>2. IsFiniteSet(Events)
    BY EventAssumption
  <1> QED BY <1>1, <1>2, FS_Subset, FS_CardinalityType

LEMMA SelectedType ==
    ASSUME TypeOK, doc.id # 0, NEW stage \in {"selected", "read"}, NEW alone \in BOOLEAN
    PROVE  /\ Selected(stage, alone) \in Export
           /\ CurrentMark \in Mark
  <1>1. doc.id \in DocIds /\ doc.raw \in Version
    BY DEF TypeOK, DocRow
  <1>2. CurrentMark \in Mark
    BY <1>1, StoredFacts DEF CurrentMark, Mark
  <1>3. [raw |-> doc.raw, completas |-> {}, resumos |-> {}, bare |-> {}, alone |-> alone]
          \in Archive
    BY <1>1 DEF Archive
  <1> QED BY <1>1, <1>2, <1>3 DEF Selected, Export

\* A document that a company sees is there: half of Referential, which the
\* exports need for their types.
SeenIsStored == doc.id # 0 <=> holders # {}

LEMMA ExportTypeStep == TypeOK /\ SeenIsStored /\ [Next]_vars => ExportType'
  <1> SUFFICES ASSUME TypeOK, SeenIsStored, [Next]_vars PROVE ExportType'
    OBVIOUS
  <1>0. ExportType /\ MaxExports \in Nat /\ MaxResets \in Nat
    BY TypeParts, InputAssumption
  <1> DEFINE Marks == {NoMark} \cup Mark
             Exporting == {NoExport} \cup Export
  <1>a. /\ marks \in [Companies -> [DocIds -> Marks]] /\ NoMark \in Marks
        /\ exporting \in [Companies -> Exporting] /\ NoExport \in Exporting
        /\ shipped \in [Companies -> [DocIds -> Archive]]
        /\ exports \in 0 .. MaxExports /\ resets \in 0 .. MaxResets
        /\ \A x \in Exporting : x # NoExport => x \in Export
    BY <1>0 DEF ExportType
  <1>b. NoArchive \in Archive
    BY DEF NoArchive, Archive, NoDoc, Version, Situacoes
  <1>1. ASSUME NEW c \in Companies,
               \/ PullDocument(c) \/ PullEventCheck(c) \/ PullEventKeep(c) \/ PullEventDrop(c)
               \/ EndPull(c) \/ FetchByChave(c) \/ StorePending(c) \/ LosePending(c)
               \/ ResetSyncState(c)
        PROVE  ExportType'
    BY <1>0, <1>1 DEF PullDocument, PullEventCheck, PullEventKeep, PullEventDrop, EndPull,
         FetchByChave, StorePending, LosePending, ResetSyncState, calls, bounds, ExportType
  <1>2. ASSUME NEW c \in Companies, \/ \E x \in Importable[c] : ImportDocument(c, x) \/ ImportEvent(c, x)
                                    \/ \E e \in Events : Manifest(c, e)
        PROVE  ExportType'
    BY <1>0, <1>2 DEF ImportDocument, ImportEvent, Manifest, calls, bounds, ExportType
  <1>3. ASSUME NEW c \in Companies, ResetCompany(c)
        PROVE  ExportType'
    <2>1. /\ marks' = [marks EXCEPT ![c] = [i \in DocIds |-> NoMark]]
          /\ shipped' = [shipped EXCEPT ![c] = [i \in DocIds |-> NoArchive]]
          /\ exporting' = exporting /\ exports' = exports /\ resets' \in 0 .. MaxResets
      BY <1>3, ResetFacts DEF ResetCompany, calls
    <2>2. [i \in DocIds |-> NoMark] \in [DocIds -> Marks]
          /\ [i \in DocIds |-> NoArchive] \in [DocIds -> Archive]
      BY <1>a, <1>b
    <2> HIDE DEF Marks, Exporting
    <2>3. marks' \in [Companies -> [DocIds -> Marks]] /\ shipped' \in [Companies -> [DocIds -> Archive]]
      BY <1>a, <2>1, <2>2
    <2> QED BY <1>a, <2>1, <2>3 DEF ExportType, Marks, Exporting
  <1>4. ASSUME NEW c \in Companies, SelectForExport(c) \/ ExportAlone(c)
        PROVE  ExportType'
    <2>1. doc.id # 0
      BY <1>4 DEF SelectForExport, ExportAlone, SeenIsStored
    <2>2. \E x \in Export : exporting' = [exporting EXCEPT ![c] = x]
      BY <1>4, <2>1, SelectedType DEF SelectForExport, ExportAlone
    <2>3. /\ marks' = marks /\ shipped' = shipped /\ resets' = resets
          /\ exports' = exports + 1 /\ exports < MaxExports
      BY <1>4 DEF SelectForExport, ExportAlone
    <2> QED BY <1>0, <1>a, <2>2, <2>3 DEF ExportType
  <1>5. ASSUME NEW c \in Companies, ReadEvents(c)
        PROVE  ExportType'
    <2> DEFINE x == exporting[c]
               read == EventsRead(c)
               a == [raw |-> x.archive.raw, alone |-> FALSE,
                     completas |-> read \ (Resumos(read) \cup Bare(read)),
                     resumos |-> Resumos(read), bare |-> Bare(read)]
               y == [stage |-> "read", id |-> x.id, mark |-> x.mark, archive |-> a]
    <2>1. x \in Export
      BY <1>5, <1>a DEF ReadEvents
    <2>2. x.archive.raw \in Version /\ x.id \in DocIds /\ x.mark \in Mark
      BY <2>1 DEF Export, Archive
    <2>3. /\ read \subseteq Events /\ Resumos(read) \subseteq Events /\ Bare(read) \subseteq Events
          /\ read \ (Resumos(read) \cup Bare(read)) \subseteq Events
      BY DEF EventsRead, Stored, Resumos, Bare
    <2>4. a \in Archive
      <3> HIDE DEF read
      <3> QED BY <2>2, <2>3 DEF Archive
    <2>5. y \in Export
      <3> HIDE DEF a
      <3> QED BY <2>2, <2>4 DEF Export
    <2>6. /\ exporting' = [exporting EXCEPT ![c] = y]
          /\ marks' = marks /\ shipped' = shipped /\ resets' = resets /\ exports' = exports
      BY <1>5 DEF ReadEvents, bounds
    <2> HIDE DEF y
    <2> QED BY <1>a, <2>5, <2>6 DEF ExportType
  <1>6. ASSUME NEW c \in Companies, MarkExported(c)
        PROVE  ExportType'
    <2> DEFINE x == exporting[c]
    <2>1. x \in Export
      BY <1>6, <1>a DEF MarkExported
    <2>2. x.id \in DocIds /\ x.mark \in Mark /\ x.archive \in Archive
      BY <2>1 DEF Export
    <2>3. /\ marks' = [marks EXCEPT ![c][x.id] = x.mark]
          /\ shipped' = [shipped EXCEPT ![c][x.id] = x.archive]
          /\ exporting' = [exporting EXCEPT ![c] = NoExport]
          /\ resets' = resets /\ exports' = exports
      BY <1>6 DEF MarkExported, MarkOf, bounds
    <2> HIDE DEF x
    <2>4. /\ marks' \in [Companies -> [DocIds -> {NoMark} \cup Mark]]
          /\ shipped' \in [Companies -> [DocIds -> Archive]]
      BY <1>a, <2>2, <2>3
    <2> QED BY <1>a, <2>3, <2>4 DEF ExportType
  <1>7. ASSUME NEW c \in Companies, ExportFails(c)
        PROVE  ExportType'
    BY <1>0, <1>7 DEF ExportFails, bounds, ExportType
  <1>8. CASE Crash
    BY <1>0, <1>8 DEF Crash, bounds, ExportType
  <1>9. CASE UNCHANGED vars
    BY <1>0, <1>9 DEF vars, calls, bounds, ExportType
  <1> QED BY <1>1, <1>2, <1>3, <1>4, <1>5, <1>6, <1>7, <1>8, <1>9 DEF Next

-----------------------------------------------------------------------------
(* The tables agree with each other.                                       *)

Consistent == TypeOK /\ Referential /\ EventsApplied

LEMMA ConsistentInit == Init => Consistent
  <1> SUFFICES ASSUME Init PROVE Consistent
    OBVIOUS
  <1>1. doc.id = 0 /\ holders = {} /\ Stored(rows) = {}
    BY DEF Init, NoDoc, Stored, NoRow
  <1> QED BY <1>1, TypeInit DEF Consistent, Referential, EventsApplied

LEMMA ReferentialStep == TypeOK /\ Referential /\ [Next]_vars => Referential'
  <1> SUFFICES ASSUME TypeOK, Referential, [Next]_vars PROVE Referential'
    OBVIOUS
  <1>1. ASSUME NEW c \in Companies, NEW v \in Version, ApplyDocument(c, v)
        PROVE  Referential'
    <2>1. /\ doc'.id # 0 /\ holders' = holders \cup {c}
          /\ AppliedWith(rows)'
      BY <1>1, DocumentStored
    <2>2. \A e \in Stored(rows') : rows'[e].linked
      BY <2>1 DEF AppliedWith, Stored
    <2> QED BY <2>1, <2>2 DEF Referential
  <1>2. ASSUME NEW x \in EventItem, ApplyEvent(x)
        PROVE  Referential'
    <2>1. /\ TableType' /\ holders' = holders /\ doc'.id = doc.id
          /\ doc.id = 0 => \A e \in Events : rows'[e].linked = rows[e].linked
          /\ doc.id # 0 => AppliedWith(rows)'
      BY <1>2, EventStored
    <2>2. CASE doc.id = 0
      <3>1. \A e \in Events : ~rows[e].linked
        <4> SUFFICES ASSUME NEW e \in Events PROVE ~rows[e].linked
          OBVIOUS
        <4>1. CASE e \in Stored(rows)
          BY <2>2, <4>1 DEF Referential
        <4>2. CASE e \notin Stored(rows)
          <5>1. rows[e] \in EventRow /\ rows[e].xml = "none"
            BY <4>2 DEF Stored, TypeOK
          <5>2. rows[e] = NoRow
            BY <5>1 DEF EventRow
          <5> QED BY <5>2 DEF NoRow
        <4> QED BY <4>1, <4>2
      <3>2. \A e \in Stored(rows') : ~rows'[e].linked
        BY <2>1, <2>2, <3>1 DEF Stored
      <3> QED BY <2>1, <2>2, <3>2 DEF Referential
    <2>3. CASE doc.id # 0
      <3>1. \A e \in Stored(rows') : rows'[e].linked
        BY <2>1, <2>3 DEF AppliedWith, Stored
      <3> QED BY <2>1, <2>3, <3>1 DEF Referential
    <2> QED BY <2>2, <2>3
  <1>3. ASSUME NEW c \in Companies, ResetCompany(c)
        PROVE  Referential'
    <2>1. /\ holders' = holders \ {c}
          /\ Exclusive(c) => doc' = NoDoc /\ \A e \in Stored(rows') : ~rows'[e].linked
          /\ ~Exclusive(c) => doc' = doc
          /\ ~Exclusive(c) /\ doc.id # 0 => rows' = rows
          /\ \A e \in Events :
                rows'[e] # NoRow => rows'[e].xml = rows[e].xml /\ (rows'[e].linked => rows[e].linked)
      BY <1>3, ResetFacts
    <2>2. CASE Exclusive(c)
      BY <2>1, <2>2 DEF Exclusive, Referential, NoDoc
    <2>3. CASE ~Exclusive(c) /\ doc.id # 0
      <3>1. holders' # {}
        BY <2>1, <2>3 DEF Exclusive, Referential
      <3>2. Stored(rows') = Stored(rows)
        BY <2>1, <2>3
      <3> QED BY <2>1, <2>3, <3>1, <3>2 DEF Referential
    <2>4. CASE ~Exclusive(c) /\ doc.id = 0
      <3>1. holders' = {}
        BY <2>1, <2>4 DEF Referential
      <3>2. ASSUME NEW e \in Stored(rows')
            PROVE  ~rows'[e].linked
        <4>1. e \in Events /\ rows'[e] # NoRow
          BY <3>2 DEF Stored, NoRow
        <4>2. e \in Stored(rows) /\ (rows'[e].linked => rows[e].linked)
          BY <2>1, <4>1 DEF Stored
        <4> QED BY <2>4, <4>2 DEF Referential
      <3> QED BY <2>1, <2>4, <3>1, <3>2 DEF Referential
    <2> QED BY <2>2, <2>3, <2>4
  <1>4. CASE UNCHANGED tables
    BY <1>4 DEF tables, Referential, Stored
  <1> QED BY <1>1, <1>2, <1>3, <1>4, TableSteps

LEMMA EventsAppliedStep == TypeOK /\ Referential /\ EventsApplied /\ [Next]_vars => EventsApplied'
  <1> SUFFICES ASSUME TypeOK, Referential, EventsApplied, [Next]_vars PROVE EventsApplied'
    OBVIOUS
  <1>1. ASSUME NEW c \in Companies, NEW v \in Version, ApplyDocument(c, v)
        PROVE  EventsApplied'
    <2>1. AppliedWith(rows)'
      BY <1>1, DocumentStored
    <2> QED BY <2>1 DEF AppliedWith, EventsApplied
  <1>2. ASSUME NEW x \in EventItem, ApplyEvent(x)
        PROVE  EventsApplied'
    <2>1. doc'.id = doc.id /\ (doc.id # 0 => AppliedWith(rows)')
      BY <1>2, EventStored
    <2> QED BY <2>1 DEF AppliedWith, EventsApplied
  <1>3. ASSUME NEW c \in Companies, ResetCompany(c)
        PROVE  EventsApplied'
    <2>1. /\ holders' = holders \ {c} /\ holders \subseteq Companies
          /\ Exclusive(c) => doc' = NoDoc
          /\ ~Exclusive(c) => doc' = doc
          /\ ~Exclusive(c) /\ doc.id # 0 => rows' = rows
          /\ \A b \in Companies \ {c} : manif'[b] = manif[b]
      BY <1>3, ResetFacts DEF TypeOK
    <2>2. CASE doc'.id = 0
      BY <2>2 DEF EventsApplied
    <2>3. CASE doc'.id # 0
      <3>1. doc' = doc /\ rows' = rows
        BY <2>1, <2>3 DEF NoDoc
      <3>2. \A b \in holders' : manif'[b] = ManifestacaoFromEvents(rows', b)
        BY <2>1, <2>3, <3>1 DEF EventsApplied
      <3>3. doc'.situacao = SituacaoFromEvents(doc'.situacao, rows')
        BY <2>3, <3>1 DEF EventsApplied
      <3> QED BY <3>2, <3>3 DEF EventsApplied
    <2> QED BY <2>2, <2>3
  <1>4. CASE UNCHANGED tables
    BY <1>4 DEF tables, EventsApplied, ManifestacaoFromEvents, Own, Stored, SituacaoFromEvents
  <1> QED BY <1>1, <1>2, <1>3, <1>4, TableSteps

LEMMA ConsistentStep == Consistent /\ [Next]_vars => Consistent'
  <1> SUFFICES ASSUME Consistent, [Next]_vars PROVE Consistent'
    OBVIOUS
  <1>1. SeenIsStored
    BY DEF Consistent, Referential, SeenIsStored
  <1>2. TypeOK'
    BY <1>1, TableTypeStep, WalkTypeStep, ExportTypeStep, TypePartsNext DEF Consistent
  <1> QED BY <1>2, ReferentialStep, EventsAppliedStep DEF Consistent

LEMMA AlwaysConsistent == Spec => []Consistent
  BY ConsistentInit, ConsistentStep, PTL DEF Spec

\* Type correctness: every variable stays within its type.
THEOREM TypeCorrect == Spec => []TypeOK
  <1>1. Consistent => TypeOK
    BY DEF Consistent
  <1> QED BY <1>1, AlwaysConsistent, PTL

\* The document is stored while a company sees it and no longer, and no row
\* of an event links to a document that is gone (store/dfe.go:212).
THEOREM DocumentsReferenced == Spec => []Referential
  <1>1. Consistent => Referential
    BY DEF Consistent
  <1> QED BY <1>1, AlwaysConsistent, PTL

\* Situation and manifestacoes are what the stored events say, in whatever
\* order everything came in (store/nfe.go:395).
THEOREM SituationFollowsEvents == Spec => []EventsApplied
  <1>1. Consistent => EventsApplied
    BY DEF Consistent
  <1> QED BY <1>1, AlwaysConsistent, PTL

-----------------------------------------------------------------------------
(* Nothing a cursor passed is forgotten.                                   *)

\* The item i of c's queue is in the tables, or need not be.
Known(c, i) ==
    LET x == Queue[c][i]
    IN  IF x.kind = "document"
        THEN /\ c \in holders
             /\ x.version.full => doc.raw.full
             /\ SeverityOf(doc.situacao) >= SeverityOf(x.version.situacao)
        ELSE Keepable(c, i) =>
             /\ rows[x.event].xml # "none"
             /\ x.full => rows[x.event].xml = "completa"

\* A pull decided to drop an event only if nothing it walked before could
\* have made it keep it.
DropDecided ==
    \A c \in Companies : pull[c] = "drop" /\ pos[c] < Len(Queue[c]) =>
        NextItem(c).kind = "event" /\ ~Keepable(c, pos[c] + 1)

LEMMA WalkedIsKnown == WalkedMeansKnown <=> \A c \in Companies : \A i \in 1 .. pos[c] : Known(c, i)
    BY DEF WalkedMeansKnown, Known

LEMMA QueueItem ==
    ASSUME NEW c \in Companies, NEW i \in 1 .. Len(Queue[c])
    PROVE  /\ Queue[c][i] \in DocumentItem \cup EventItem
           /\ Queue[c][i].kind # "document" => Queue[c][i] \in EventItem
           /\ Queue[c][i].kind = "document" => Queue[c][i].version.situacao \in Situacoes
  <1>1. Queue[c] \in Seq(DocumentItem \cup EventItem)
    BY InputAssumption
  <1>2. Queue[c][i] \in DocumentItem \cup EventItem
    BY <1>1
  <1> QED BY <1>2, ItemKinds DEF DocumentItem, EventItem, Version

\* What is known stays known through every step but c's own reset.
LEMMA KnownKept ==
    ASSUME Consistent, [Next]_vars, NEW c \in Companies, ~ResetCompany(c),
           NEW n \in 0 .. Len(Queue[c]), \A i \in 1 .. n : Known(c, i)
    PROVE  \A i \in 1 .. n : Known(c, i)'
  <1> SUFFICES ASSUME NEW i \in 1 .. n PROVE Known(c, i)'
    OBVIOUS
  <1> DEFINE x == Queue[c][i]
  <1>1. Len(Queue[c]) \in Nat
    BY InputAssumption
  <1>2. /\ x \in DocumentItem \cup EventItem
        /\ x.kind # "document" => x.event \in Events
        /\ x.kind = "document" => x.version.situacao \in Situacoes
    BY <1>1, QueueItem, ItemKinds
  <1>3. /\ TypeOK /\ Referential /\ doc.situacao \in Situacoes
        /\ rows \in [Events -> EventRow]
    BY DEF Consistent, TypeOK, DocRow
  <1>4. ASSUME Kept, TableType', holders \subseteq holders'
        PROVE  Known(c, i)'
    <2>1. CASE x.kind = "document"
      <3>1. /\ c \in holders /\ doc.id # 0
            /\ x.version.full => doc.raw.full
            /\ SeverityOf(doc.situacao) >= SeverityOf(x.version.situacao)
        BY <1>3, <2>1 DEF Known, Referential
      <3>2. doc'.situacao \in Situacoes
        BY <1>4 DEF TableType, DocRow
      <3>3. /\ x.version.full => doc'.raw.full
            /\ SeverityOf(doc'.situacao) >= SeverityOf(doc.situacao)
        BY <1>4, <3>1 DEF Kept
      <3>4. SeverityOf(doc'.situacao) >= SeverityOf(x.version.situacao)
        BY <1>2, <1>3, <2>1, <3>1, <3>2, <3>3, SeverityFacts
      <3> QED BY <1>4, <2>1, <3>1, <3>3, <3>4 DEF Known
    <2>2. CASE x.kind # "document"
      <3>1. Keepable(c, i) => /\ x.event \in Stored(rows)
                              /\ x.full => rows[x.event].xml = "completa"
        BY <1>2, <2>2 DEF Known, Stored
      <3>2. Keepable(c, i) => /\ x.event \in Stored(rows')
                              /\ x.full => rows'[x.event].xml = "completa"
        BY <1>2, <1>4, <2>2, <3>1 DEF Kept
      <3> QED BY <2>2, <3>2 DEF Known, Stored, Keepable
    <2> QED BY <2>1, <2>2
  <1>5. ASSUME NEW b \in Companies, ResetCompany(b)
        PROVE  Known(c, i)'
    <2>1. b # c
      BY <1>5
    <2>2. /\ holders' = holders \ {b}
          /\ ~Exclusive(b) => doc' = doc
          /\ ~Exclusive(b) /\ doc.id # 0 => rows' = rows
          /\ \A e \in Events : AuthorOf[e] = c => rows'[e].xml = rows[e].xml
      BY <1>3, <1>5, <2>1, ResetFacts
    <2>3. CASE c \in holders
      <3>1. doc' = doc /\ rows' = rows /\ c \in holders'
        BY <1>3, <2>1, <2>2, <2>3 DEF Exclusive, Referential
      <3> QED BY <2>3, <3>1 DEF Known, Keepable
    <2>4. CASE c \notin holders
      <3>1. \A j \in 1 .. n : Queue[c][j].kind # "document"
        BY <2>4 DEF Known
      <3>2. Keepable(c, i) => AuthorOf[x.event] = c
        BY <3>1 DEF Keepable
      <3>3. x.kind # "document" /\ x.event \in Events
        BY <1>2, <3>1
      <3>4. AuthorOf[x.event] = c => rows'[x.event].xml = rows[x.event].xml
        BY <2>2, <3>3
      <3> QED BY <3>2, <3>3, <3>4 DEF Known, Keepable
    <2> QED BY <2>3, <2>4
  <1>6. CASE UNCHANGED tables
    BY <1>6 DEF tables, Known, Keepable
  <1> QED BY <1>3, <1>4, <1>5, <1>6, TableSteps, DocumentStored, EventStored

\* What a step does to the walk of company c.
LEMMA WalkSteps ==
    ASSUME TypeOK, [Next]_vars, NEW c \in Companies
    PROVE  \/ PullDocument(c) \/ PullEventCheck(c) \/ PullEventKeep(c) \/ PullEventDrop(c)
           \/ pos'[c] = 0 /\ pull'[c] = "idle"
           \/ pos'[c] = pos[c] /\ pull'[c] \in {pull[c], "idle"} /\ ~ResetCompany(c)
  <1>0. pos \in [Companies -> Nat] /\ pull \in [Companies -> {"idle", "keep", "drop"}]
    BY DEF TypeOK
  <1>1. CASE ResetCompany(c)
    BY <1>0, <1>1 DEF ResetCompany, calls
  <1>2. ASSUME ~ResetCompany(c)
        PROVE  \/ PullDocument(c) \/ PullEventCheck(c) \/ PullEventKeep(c) \/ PullEventDrop(c)
               \/ pos'[c] = 0 /\ pull'[c] = "idle"
               \/ pos'[c] = pos[c] /\ pull'[c] \in {pull[c], "idle"}
    <2>1. ASSUME NEW b \in Companies,
                 PullDocument(b) \/ PullEventKeep(b) \/ PullEventDrop(b)
          PROVE  b = c \/ (pos'[c] = pos[c] /\ pull'[c] = pull[c])
      BY <1>0, <2>1 DEF PullDocument, PullEventKeep, PullEventDrop, Checkpoint
    <2>2. ASSUME NEW b \in Companies, PullEventCheck(b)
          PROVE  b = c \/ (pos'[c] = pos[c] /\ pull'[c] = pull[c])
      BY <1>0, <2>2 DEF PullEventCheck
    <2>3. ASSUME NEW b \in Companies, EndPull(b)
          PROVE  pos'[c] = pos[c] /\ pull'[c] \in {pull[c], "idle"}
      BY <1>0, <2>3 DEF EndPull
    <2>4. ASSUME NEW b \in Companies, ResetCompany(b) \/ ResetSyncState(b)
          PROVE  \/ pos'[c] = 0 /\ pull'[c] = "idle"
                 \/ pos'[c] = pos[c] /\ pull'[c] = pull[c]
      BY <1>0, <2>4 DEF ResetCompany, ResetSyncState, calls
    <2>5. ASSUME NEW b \in Companies,
                 \/ FetchByChave(b)
                 \/ \E x \in Importable[b] : ImportDocument(b, x) \/ ImportEvent(b, x)
                 \/ \E e \in Events : Manifest(b, e)
                 \/ StorePending(b) \/ LosePending(b)
          PROVE  pos'[c] = pos[c] /\ pull'[c] = pull[c]
      BY <2>5 DEF FetchByChave, ImportDocument, ImportEvent, Manifest, StorePending, LosePending, calls
    <2>6. ASSUME NEW b \in Companies,
                 SelectForExport(b) \/ ReadEvents(b) \/ ExportAlone(b) \/ MarkExported(b) \/ ExportFails(b)
          PROVE  pos'[c] = pos[c] /\ pull'[c] = pull[c]
      BY <2>6 DEF SelectForExport, ReadEvents, ExportAlone, MarkExported, ExportFails
    <2>7. CASE Crash
      BY <2>7 DEF Crash
    <2>8. CASE UNCHANGED vars
      BY <2>8 DEF vars, calls
    <2> QED BY <2>1, <2>2, <2>3, <2>4, <2>5, <2>6, <2>7, <2>8 DEF Next
  <1> QED BY <1>1, <1>2

Walked == WalkedMeansKnown /\ DropDecided

LEMMA WalkedInit == Init => Walked
    BY DEF Init, Walked, WalkedMeansKnown, DropDecided

LEMMA WalkedStep == Consistent /\ Walked /\ [Next]_vars => Walked'
  <1> SUFFICES ASSUME Consistent, Walked, [Next]_vars
               PROVE  Walked'
    OBVIOUS
  <1> DEFINE Good(c) ==
        /\ \A i \in 1 .. pos'[c] : Known(c, i)'
        /\ pull'[c] = "drop" /\ pos'[c] < Len(Queue[c]) =>
             Queue[c][pos'[c] + 1].kind = "event" /\ ~Keepable(c, pos'[c] + 1)
  <1>0. /\ TypeOK /\ pos \in [Companies -> Nat] /\ pull \in [Companies -> {"idle", "keep", "drop"}]
        /\ \A c \in Companies : pos[c] <= Len(Queue[c]) /\ Len(Queue[c]) \in Nat
    BY InputAssumption DEF Consistent, TypeOK
  <1>1. ASSUME NEW c \in Companies
        PROVE  Good(c)
    <2>1. \A i \in 1 .. pos[c] : Known(c, i)
      BY WalkedIsKnown DEF Walked
    <2>2. ~ResetCompany(c) => \A i \in 1 .. pos[c] : Known(c, i)'
      <3>1. pos[c] \in 0 .. Len(Queue[c])
        BY <1>0
      <3> QED BY <2>1, <3>1, KnownKept
    <2>3. pull[c] = "drop" /\ pos[c] < Len(Queue[c]) =>
            Queue[c][pos[c] + 1].kind = "event" /\ ~Keepable(c, pos[c] + 1)
      BY DEF Walked, DropDecided, NextItem
    <2>4. CASE pos'[c] = 0 /\ pull'[c] = "idle"
      BY <2>4
    <2>5. CASE pos'[c] = pos[c] /\ pull'[c] \in {pull[c], "idle"} /\ ~ResetCompany(c)
      BY <2>2, <2>3, <2>5
    <2>6. CASE PullEventCheck(c)
      <3>1. ~ResetCompany(c) /\ pos' = pos
        BY <1>0, <2>6 DEF PullEventCheck, ResetCompany, bounds, TypeOK
      <3>2. /\ pull'[c] = "drop" => AuthorOf[NextItem(c).event] # c /\ c \notin holders
            /\ NextItem(c).kind = "event"
        BY <1>0, <2>6 DEF PullEventCheck, At
      <3>3. c \notin holders => \A j \in 1 .. pos[c] : Queue[c][j].kind # "document"
        BY <2>1 DEF Known
      <3>4. (pos[c] + 1) - 1 = pos[c]
        BY <1>0
      <3>5. pull'[c] = "drop" => ~Keepable(c, pos[c] + 1)
        BY <3>2, <3>3, <3>4 DEF Keepable, NextItem
      <3> QED BY <2>2, <3>1, <3>2, <3>5 DEF NextItem
    <2>7. CASE PullDocument(c) \/ PullEventKeep(c) \/ PullEventDrop(c)
      <3>1. /\ ~ResetCompany(c) /\ pos[c] < Len(Queue[c])
            /\ pos'[c] = pos[c] + 1 /\ pull'[c] = "idle"
        BY <1>0, <2>7 DEF PullDocument, PullEventKeep, PullEventDrop, Checkpoint, At,
             ResetCompany, bounds, TypeOK
      <3>2. PICK n \in Nat : n = pos[c] + 1
        BY <1>0
      <3>3. ASSUME PullDocument(c) PROVE Known(c, n)'
        <4>1. /\ ApplyDocument(c, NextItem(c).version) /\ NextItem(c).kind = "document"
          BY <3>3 DEF PullDocument, At
        <4>2. NextItem(c).version \in Version
          BY <1>0, <3>1, <4>1, ItemType, ItemKinds
        <4>3. /\ holders' = holders \cup {c}
              /\ NextItem(c).version.full => doc'.raw.full
              /\ SeverityOf(doc'.situacao) >= SeverityOf(NextItem(c).version.situacao)
          BY <1>0, <4>1, <4>2, DocumentStored
        <4> QED BY <3>2, <4>1, <4>3 DEF Known, NextItem
      <3>4. ASSUME PullEventKeep(c) PROVE Known(c, n)'
        <4>1. ApplyEvent(NextItem(c)) /\ NextItem(c).kind = "event"
          BY <3>4 DEF PullEventKeep, At
        <4>2. NextItem(c) \in EventItem
          BY <1>0, <3>1, <4>1, ItemType, ItemKinds
        <4>3. /\ NextItem(c).event \in Stored(rows')
              /\ NextItem(c).full => rows'[NextItem(c).event].xml = "completa"
          BY <1>0, <4>1, <4>2, EventStored
        <4> QED BY <3>2, <4>1, <4>3 DEF Known, NextItem, Stored
      <3>5. ASSUME PullEventDrop(c) PROVE Known(c, n)'
        <4>1. NextItem(c).kind = "event" /\ ~Keepable(c, n)
          BY <2>3, <3>1, <3>2, <3>5 DEF PullEventDrop, At, NextItem
        <4> QED BY <3>2, <4>1 DEF Known, NextItem, Keepable
      <3>6. Known(c, n)'
        BY <2>7, <3>3, <3>4, <3>5
      <3>7. \A i \in 1 .. pos'[c] : i \in 1 .. pos[c] \/ i = n
        BY <1>0, <3>1, <3>2
      <3> QED BY <2>2, <3>1, <3>6, <3>7
    <2> QED BY <1>0, <2>4, <2>5, <2>6, <2>7, WalkSteps
  <1>2. WalkedMeansKnown'
    BY <1>1 DEF WalkedMeansKnown, Known, Keepable
  <1>3. DropDecided'
    BY <1>1 DEF DropDecided, NextItem, Keepable
  <1> QED BY <1>2, <1>3 DEF Walked

LEMMA AlwaysWalked == Spec => [](Consistent /\ Walked)
  <1>1. Init => Consistent /\ Walked
    BY ConsistentInit, WalkedInit
  <1>2. Consistent /\ Walked /\ [Next]_vars => (Consistent /\ Walked)'
    BY ConsistentStep, WalkedStep
  <1> QED BY <1>1, <1>2, PTL DEF Spec

\* What a company's cursor passed stays in the tables until that company is
\* reset, whatever the other companies do (store/dfe.go:186, nfe/merge.go:16).
THEOREM NothingForgotten == Spec => []WalkedMeansKnown
  <1>1. Walked => WalkedMeansKnown
    BY DEF Walked
  <1> QED BY <1>1, AlwaysWalked, PTL

-----------------------------------------------------------------------------
(* The refinement.                                                         *)

LEMMA SharedInit == Init => SharedDoc!Init
    BY DEF Init, NoDoc, SharedDoc!Init

LEMMA SharedStep == Consistent /\ [Next]_vars => [SharedDoc!Next]_(SharedDoc!docVars)
  <1> SUFFICES ASSUME Consistent, [Next]_vars
               PROVE  SharedDoc!Next \/ UNCHANGED SharedDoc!docVars
    OBVIOUS
  <1> DEFINE whole == doc.id # 0 /\ doc.raw.full
             severity == IF doc.id = 0 THEN 0 ELSE SeverityOf(doc.situacao)
  <1>0. /\ TypeOK /\ Referential /\ holders \subseteq Companies
        /\ doc.situacao \in Situacoes /\ doc.raw.full \in BOOLEAN
    BY DEF Consistent, TypeOK, DocRow, Version
  <1>1. ASSUME Kept, TableType', doc'.id # 0,
               NEW c \in Companies, holders' = holders \cup {c}
        PROVE  SharedDoc!Next
    <2>1. doc'.situacao \in Situacoes
      BY <1>1 DEF TableType, DocRow, Version
    <2>2. (doc.id # 0 /\ doc.raw.full) => doc'.raw.full
      BY <1>1 DEF Kept
    <2>3. severity' \in 0 .. 3 /\ severity' >= severity
      <3>1. severity' = SeverityOf(doc'.situacao)
        BY <1>1
      <3> QED BY <1>0, <1>1, <2>1, <3>1, SeverityFacts DEF Kept
    <2>4. whole' \in BOOLEAN
      OBVIOUS
    <2>5. whole => whole'
      BY <1>1, <2>2
    <2>6. SharedDoc!Learn(c)
      BY <1>1, <2>3, <2>4, <2>5, Zenon DEF SharedDoc!Learn
    <2> QED BY <2>6 DEF SharedDoc!Next
  <1>2. ASSUME NEW c \in Companies, NEW v \in Version, ApplyDocument(c, v)
        PROVE  SharedDoc!Next
    <2>1. Kept /\ TableType' /\ doc'.id # 0 /\ holders' = holders \cup {c}
      BY <1>0, <1>2, DocumentStored
    <2> QED BY <1>1, <2>1
  <1>3. ASSUME NEW x \in EventItem, ApplyEvent(x)
        PROVE  SharedDoc!Next \/ UNCHANGED SharedDoc!docVars
    <2>1. /\ Kept /\ TableType' /\ holders' = holders /\ doc'.id = doc.id
          /\ doc.id = 0 => doc' = doc
      BY <1>0, <1>3, EventStored
    <2>2. CASE doc.id = 0
      BY <2>1, <2>2 DEF SharedDoc!docVars
    <2>3. CASE doc.id # 0
      <3>1. PICK c \in holders : TRUE
        BY <1>0, <2>3 DEF Referential
      <3>2. holders' = holders \cup {c} /\ c \in Companies
        BY <1>0, <2>1, <3>1
      <3> QED BY <1>1, <2>1, <2>3, <3>2
    <2> QED BY <2>2, <2>3
  <1>4. ASSUME NEW c \in Companies, ResetCompany(c)
        PROVE  SharedDoc!Next \/ UNCHANGED SharedDoc!docVars
    <2>1. /\ holders' = holders \ {c}
          /\ Exclusive(c) => doc' = NoDoc
          /\ ~Exclusive(c) => doc' = doc
      BY <1>0, <1>4, ResetFacts
    <2>2. CASE c \in holders /\ Exclusive(c)
      <3>1. holders' = {} /\ doc'.id = 0
        BY <2>1, <2>2 DEF Exclusive, NoDoc
      <3>2. SharedDoc!Leave(c)
        BY <2>1, <2>2, <3>1 DEF SharedDoc!Leave
      <3> QED BY <3>2 DEF SharedDoc!Next
    <2>3. CASE c \in holders /\ ~Exclusive(c)
      <3>1. holders' # {} /\ doc' = doc
        BY <2>1, <2>3 DEF Exclusive
      <3>2. SharedDoc!Leave(c)
        BY <2>1, <2>3, <3>1 DEF SharedDoc!Leave
      <3> QED BY <3>2 DEF SharedDoc!Next
    <2>4. CASE c \notin holders
      <3>1. holders' = holders /\ doc' = doc
        BY <2>1, <2>4 DEF Exclusive
      <3> QED BY <3>1 DEF SharedDoc!docVars
    <2> QED BY <2>2, <2>3, <2>4
  <1>5. CASE UNCHANGED tables
    BY <1>5 DEF tables, SharedDoc!docVars
  <1> QED BY <1>0, <1>2, <1>3, <1>4, <1>5, TableSteps

\* NFeDocs implements SharedDocument: what is known of a document only grows
\* while a company sees it (nfe/merge.go:5, store/dfe.go:186).
THEOREM ImplementsShared == Spec => SharedSpec
  <1>1. Init => SharedDoc!Init
    BY SharedInit
  <1>2. Consistent /\ [Next]_vars => [SharedDoc!Next]_(SharedDoc!docVars)
    BY SharedStep
  <1> QED BY <1>1, <1>2, AlwaysConsistent, PTL DEF Spec, SharedSpec, SharedDoc!Spec

-----------------------------------------------------------------------------
(* The export marks.  A document that is stored anew gets an id that no    *)
(* mark and no export knows (Used); while it keeps its id its events only  *)
(* grow, so a mark that counts as many events as there are counts these.   *)

Used(i) == i <= resets + 1 /\ (doc.id = 0 => i <= resets)

\* The mark m of the archive a, against the events S that are stored.
Fits(m, a, S) ==
    /\ m.events <= Cardinality(S)
    /\ ~a.alone /\ m.events = Cardinality(S) => S \subseteq a.completas \cup a.resumos \cup a.bare

MarksFit ==
    \A c \in Companies : \A i \in DocIds : marks[c][i] # NoMark =>
        /\ Used(i)
        /\ shipped[c][i].raw = marks[c][i].raw
        /\ i = doc.id => Fits(marks[c][i], shipped[c][i], Stored(rows))

ExportsFit ==
    \A c \in Companies : exporting[c] # NoExport =>
        /\ Used(exporting[c].id)
        /\ exporting[c].archive.raw = exporting[c].mark.raw
        /\ exporting[c].id = doc.id =>
             IF exporting[c].stage = "read"
             THEN Fits(exporting[c].mark, exporting[c].archive, Stored(rows))
             ELSE exporting[c].mark.events <= Cardinality(Stored(rows))

Exported == doc.id <= resets + 1 /\ MarksFit /\ ExportsFit

LEMMA FitsGrow ==
    ASSUME NEW m \in Mark, NEW a, NEW S, NEW T, IsFiniteSet(T), S \subseteq T
    PROVE  /\ m.events <= Cardinality(S) => m.events <= Cardinality(T)
           /\ Fits(m, a, S) => Fits(m, a, T)
  <1>1. /\ IsFiniteSet(S) /\ Cardinality(S) <= Cardinality(T)
        /\ Cardinality(S) = Cardinality(T) => S = T
    BY FS_Subset
  <1>2. Cardinality(S) \in Nat /\ Cardinality(T) \in Nat
    BY <1>1, FS_CardinalityType
  <1>3. m.events \in Nat
    <2>1. Cardinality(Events) \in Nat
      BY EventAssumption, FS_CardinalityType
    <2> QED BY <2>1 DEF Mark
  <1> QED BY <1>1, <1>2, <1>3 DEF Fits

\* What a step does to an id in use: it stays in use, and is that of the
\* document only if it was before.
LEMMA IdSteps ==
    ASSUME Consistent, [Next]_vars, doc.id <= resets + 1
    PROVE  /\ doc'.id <= resets' + 1
           /\ \A i \in DocIds : Used(i) =>
                /\ i <= resets' + 1 /\ (doc'.id = 0 => i <= resets')
                /\ i = doc'.id => i = doc.id /\ Stored(rows) \subseteq Stored(rows')
  <1>0. /\ TypeOK /\ resets \in Nat /\ doc.id \in Nat
        /\ \A i \in DocIds : i \in Nat /\ i # 0
    BY InputAssumption DEF Consistent, TypeOK, DocRow, DocIds
  <1>1. ASSUME NEW c \in Companies, NEW v \in Version, ApplyDocument(c, v), UNCHANGED resets
        PROVE  /\ doc'.id # 0 /\ doc'.id = (IF doc.id = 0 THEN resets + 1 ELSE doc.id)
               /\ resets' = resets /\ Stored(rows') = Stored(rows)
    BY <1>0, <1>1, DocumentStored
  <1>2. ASSUME NEW x \in EventItem, ApplyEvent(x), UNCHANGED resets
        PROVE  doc'.id = doc.id /\ resets' = resets /\ Stored(rows) \subseteq Stored(rows')
    BY <1>0, <1>2, EventStored
  <1>3. ASSUME NEW c \in Companies, ResetCompany(c)
        PROVE  /\ resets' = resets + 1
               /\ \/ doc'.id = 0
                  \/ doc' = doc /\ rows' = rows /\ doc.id # 0
    BY <1>0, <1>3, ResetFacts DEF NoDoc
  <1>4. ASSUME UNCHANGED tables, UNCHANGED resets
        PROVE  doc' = doc /\ resets' = resets /\ rows' = rows
    BY <1>4 DEF tables
  <1>5. \/ /\ doc'.id # 0 /\ doc'.id = (IF doc.id = 0 THEN resets + 1 ELSE doc.id)
           /\ resets' = resets /\ Stored(rows') = Stored(rows)
        \/ doc'.id = doc.id /\ resets' = resets /\ Stored(rows) \subseteq Stored(rows')
        \/ /\ resets' = resets + 1
           /\ \/ doc'.id = 0
              \/ doc' = doc /\ rows' = rows /\ doc.id # 0
    BY <1>0, <1>1, <1>2, <1>3, <1>4, TableSteps
  <1> QED BY <1>0, <1>5 DEF Used

LEMMA ExportedInit == Init => Exported
  <1> SUFFICES ASSUME Init PROVE Exported
    OBVIOUS
  <1>1. doc.id = 0 /\ resets = 0
    BY DEF Init, NoDoc
  <1> QED BY <1>1 DEF Init, Exported, MarksFit, ExportsFit

LEMMA MarksFitStep == Consistent /\ Exported /\ [Next]_vars => MarksFit'
  <1> SUFFICES ASSUME Consistent, Exported, [Next]_vars, NEW c \in Companies, NEW i \in DocIds,
                      marks'[c][i] # NoMark
               PROVE  /\ i <= resets' + 1 /\ (doc'.id = 0 => i <= resets')
                      /\ shipped'[c][i].raw = marks'[c][i].raw
                      /\ i = doc'.id => Fits(marks'[c][i], shipped'[c][i], Stored(rows'))
    BY DEF MarksFit, Used
  <1>0. /\ TypeOK /\ ExportType /\ doc.id <= resets + 1
        /\ marks[c] \in [DocIds -> {NoMark} \cup Mark]
        /\ marks \in [Companies -> [DocIds -> {NoMark} \cup Mark]]
        /\ shipped \in [Companies -> [DocIds -> Archive]]
    BY TypeParts DEF Consistent, Exported, ExportType
  <1>1. CASE marks'[c][i] = marks[c][i] /\ shipped'[c][i] = shipped[c][i]
    <2>1. /\ Used(i)
          /\ shipped[c][i].raw = marks[c][i].raw
          /\ i = doc.id => Fits(marks[c][i], shipped[c][i], Stored(rows))
          /\ marks[c][i] \in Mark
      BY <1>0, <1>1 DEF Exported, MarksFit
    <2>2. /\ i <= resets' + 1 /\ (doc'.id = 0 => i <= resets')
          /\ i = doc'.id => i = doc.id /\ Stored(rows) \subseteq Stored(rows')
      BY <1>0, <2>1, IdSteps
    <2> QED BY <1>1, <2>1, <2>2, FitsGrow, StoredFacts
  <1>2. CASE MarkExported(c) /\ i = exporting[c].id
    <2>1. exporting[c] \in Export
      BY <1>0, <1>2 DEF MarkExported, ExportType
    <2>2. /\ Used(i)
          /\ exporting[c].archive.raw = exporting[c].mark.raw
          /\ i = doc.id => Fits(exporting[c].mark, exporting[c].archive, Stored(rows))
      BY <1>2 DEF MarkExported, Exported, ExportsFit
    <2>3. marks'[c][i] = exporting[c].mark /\ shipped'[c][i] = exporting[c].archive
      BY <1>0, <1>2 DEF MarkExported, MarkOf
    <2>4. doc' = doc /\ rows' = rows /\ resets' = resets
      BY <1>2 DEF MarkExported, tables, bounds
    <2> QED BY <2>2, <2>3, <2>4 DEF Used
  <1>3. \/ marks'[c][i] = marks[c][i] /\ shipped'[c][i] = shipped[c][i]
        \/ MarkExported(c) /\ i = exporting[c].id
    <2>1. ASSUME NEW b \in Companies, MarkExported(b), ~(b = c /\ i = exporting[b].id)
          PROVE  marks'[c][i] = marks[c][i] /\ shipped'[c][i] = shipped[c][i]
      BY <1>0, <2>1 DEF MarkExported
    <2>2. ASSUME NEW b \in Companies, ResetCompany(b)
          PROVE  marks'[c][i] = marks[c][i] /\ shipped'[c][i] = shipped[c][i]
      <3>1. /\ marks' = [marks EXCEPT ![b] = [j \in DocIds |-> NoMark]]
            /\ shipped' = [shipped EXCEPT ![b] = [j \in DocIds |-> NoArchive]]
        BY <2>2 DEF ResetCompany
      <3>2. b # c
        BY <1>0, <3>1
      <3> QED BY <1>0, <3>1, <3>2
    <2>3. ASSUME NEW b \in Companies,
                 \/ PullDocument(b) \/ PullEventCheck(b) \/ PullEventKeep(b) \/ PullEventDrop(b)
                 \/ EndPull(b) \/ FetchByChave(b) \/ StorePending(b) \/ LosePending(b)
                 \/ ResetSyncState(b) \/ SelectForExport(b) \/ ReadEvents(b) \/ ExportAlone(b)
                 \/ ExportFails(b)
          PROVE  marks' = marks /\ shipped' = shipped
      BY <2>3 DEF PullDocument, PullEventCheck, PullEventKeep, PullEventDrop, EndPull,
         FetchByChave, StorePending, LosePending, ResetSyncState, SelectForExport, ReadEvents,
         ExportAlone, ExportFails
    <2>4. ASSUME NEW b \in Companies, \/ \E x \in Importable[b] : ImportDocument(b, x) \/ ImportEvent(b, x)
                                      \/ \E e \in Events : Manifest(b, e)
          PROVE  marks' = marks /\ shipped' = shipped
      BY <2>4 DEF ImportDocument, ImportEvent, Manifest
    <2>5. CASE Crash \/ UNCHANGED vars
      BY <2>5 DEF Crash, vars
    <2> QED BY <2>1, <2>2, <2>3, <2>4, <2>5 DEF Next
  <1> QED BY <1>1, <1>2, <1>3

LEMMA ExportsFitStep == Consistent /\ Exported /\ [Next]_vars => ExportsFit'
  <1> DEFINE Good(x) ==
        /\ x.id <= resets' + 1 /\ (doc'.id = 0 => x.id <= resets')
        /\ x.archive.raw = x.mark.raw
        /\ x.id = doc'.id => IF x.stage = "read"
                             THEN Fits(x.mark, x.archive, Stored(rows'))
                             ELSE x.mark.events <= Cardinality(Stored(rows'))
  <1> SUFFICES ASSUME Consistent, Exported, [Next]_vars, NEW c \in Companies,
                      exporting'[c] # NoExport
               PROVE  Good(exporting'[c])
    BY DEF ExportsFit, Used
  <1>0. /\ TypeOK /\ ExportType /\ doc.id <= resets + 1 /\ Referential
        /\ exporting \in [Companies -> {NoExport} \cup Export]
    BY TypeParts DEF Consistent, Exported, ExportType
  <1> DEFINE x == exporting[c]
  <1>1. CASE exporting'[c] = exporting[c]
    <2>1. /\ Used(x.id)
          /\ x.archive.raw = x.mark.raw
          /\ x.id = doc.id => IF x.stage = "read"
                              THEN Fits(x.mark, x.archive, Stored(rows))
                              ELSE x.mark.events <= Cardinality(Stored(rows))
      BY <1>1 DEF Exported, ExportsFit
    <2>2. x.id \in DocIds /\ x.mark \in Mark
      BY <1>0, <1>1 DEF Export
    <2>3. /\ x.id <= resets' + 1 /\ (doc'.id = 0 => x.id <= resets')
          /\ x.id = doc'.id => x.id = doc.id /\ Stored(rows) \subseteq Stored(rows')
      BY <1>0, <2>1, <2>2, IdSteps
    <2> QED BY <1>1, <2>1, <2>2, <2>3, FitsGrow, StoredFacts
  <1>2. CASE SelectForExport(c) \/ ExportAlone(c)
    <2>1. doc' = doc /\ rows' = rows /\ resets' = resets /\ doc.id # 0
      BY <1>0, <1>2 DEF SelectForExport, ExportAlone, tables, Referential
    <2>2. \/ exporting'[c] = Selected("selected", FALSE)
          \/ exporting'[c] = Selected("read", TRUE)
      BY <1>0, <1>2 DEF SelectForExport, ExportAlone
    <2>3. CurrentMark.events = Cardinality(Stored(rows)) /\ CurrentMark.raw = doc.raw
      BY DEF CurrentMark
    <2>4. Cardinality(Stored(rows)) \in Nat
      BY StoredFacts, FS_CardinalityType
    <2>5. \A s \in {"selected", "read"}, alone \in BOOLEAN :
            /\ Selected(s, alone).id = doc.id
            /\ Selected(s, alone).stage = s
            /\ Selected(s, alone).mark = CurrentMark
            /\ Selected(s, alone).archive.raw = doc.raw
            /\ Selected(s, alone).archive.alone = alone
      BY DEF Selected
    <2>6. CASE exporting'[c] = Selected("selected", FALSE)
      <3>1. /\ exporting'[c].id = doc.id /\ exporting'[c].mark = CurrentMark
            /\ exporting'[c].archive.raw = doc.raw /\ exporting'[c].stage = "selected"
        BY <2>5, <2>6
      <3>2. exporting'[c].mark.events <= Cardinality(Stored(rows'))
        BY <2>1, <2>3, <2>4, <3>1
      <3> QED BY <1>0, <2>1, <2>3, <3>1, <3>2
    <2>7. CASE exporting'[c] = Selected("read", TRUE)
      <3>1. /\ exporting'[c].id = doc.id /\ exporting'[c].mark = CurrentMark
            /\ exporting'[c].archive.raw = doc.raw /\ exporting'[c].archive.alone = TRUE
        BY <2>5, <2>7
      <3>2. Fits(exporting'[c].mark, exporting'[c].archive, Stored(rows'))
        BY <2>1, <2>3, <2>4, <3>1 DEF Fits
      <3>3. exporting'[c].stage = "read"
        BY <2>5, <2>7
      <3> QED BY <1>0, <2>1, <2>3, <3>1, <3>2, <3>3
    <2> QED BY <2>2, <2>6, <2>7
  <1>3. CASE ReadEvents(c)
    <2>1. x \in Export /\ x.stage = "selected" /\ x # NoExport
      BY <1>0, <1>3 DEF ReadEvents
    <2>2. x.id \in DocIds /\ x.mark \in Mark
      BY <2>1 DEF Export
    <2>3. doc' = doc /\ rows' = rows /\ resets' = resets
      BY <1>3 DEF ReadEvents, tables, bounds
    <2>4. /\ Used(x.id)
          /\ x.archive.raw = x.mark.raw
          /\ x.id = doc.id => x.mark.events <= Cardinality(Stored(rows))
      BY <2>1 DEF Exported, ExportsFit
    <2> DEFINE read == EventsRead(c)
               a == exporting'[c].archive
    <2>5. exporting'[c] =
            [stage |-> "read", id |-> x.id, mark |-> x.mark,
             archive |-> [raw |-> x.archive.raw, alone |-> FALSE,
                          completas |-> read \ (Resumos(read) \cup Bare(read)),
                          resumos |-> Resumos(read), bare |-> Bare(read)]]
      BY <1>0, <1>3 DEF ReadEvents
    <2>6. /\ exporting'[c].stage = "read" /\ exporting'[c].id = x.id
          /\ exporting'[c].mark = x.mark /\ a.raw = x.archive.raw
          /\ a.completas = read \ (Resumos(read) \cup Bare(read))
          /\ a.resumos = Resumos(read) /\ a.bare = Bare(read)
      BY <2>5
    <2>7. x.mark.events = Cardinality(Stored(rows)) =>
            Stored(rows) \subseteq a.completas \cup a.resumos \cup a.bare
      <3> SUFFICES ASSUME x.mark.events = Cardinality(Stored(rows)), NEW e \in Stored(rows)
                   PROVE  e \in read
        BY <2>6
      <3>1. Cardinality(Stored(rows)) \in Nat /\ Cardinality(Stored(rows)) # 0
        BY StoredFacts, FS_CardinalityType, FS_EmptySet
      <3>2. x.mark.events > 0
        BY <3>1
      <3> QED BY <3>2 DEF EventsRead
    <2>8. x.id = doc.id => Fits(exporting'[c].mark, exporting'[c].archive, Stored(rows'))
      BY <2>3, <2>4, <2>6, <2>7 DEF Fits
    <2> QED BY <2>3, <2>4, <2>6, <2>8 DEF Used
  <1>4. \/ exporting'[c] = exporting[c]
        \/ SelectForExport(c) \/ ExportAlone(c) \/ ReadEvents(c)
    <2>1. ASSUME NEW b \in Companies,
                 SelectForExport(b) \/ ExportAlone(b) \/ ReadEvents(b)
          PROVE  b = c \/ exporting'[c] = exporting[c]
      BY <1>0, <2>1 DEF SelectForExport, ExportAlone, ReadEvents
    <2>2. ASSUME NEW b \in Companies, MarkExported(b) \/ ExportFails(b)
          PROVE  exporting'[c] = exporting[c]
      BY <1>0, <2>2 DEF MarkExported, ExportFails
    <2>3. ASSUME NEW b \in Companies,
                 \/ PullDocument(b) \/ PullEventCheck(b) \/ PullEventKeep(b) \/ PullEventDrop(b)
                 \/ EndPull(b) \/ FetchByChave(b) \/ StorePending(b) \/ LosePending(b)
                 \/ ResetCompany(b) \/ ResetSyncState(b)
          PROVE  exporting' = exporting
      BY <2>3 DEF PullDocument, PullEventCheck, PullEventKeep, PullEventDrop, EndPull,
         FetchByChave, StorePending, LosePending, ResetCompany, ResetSyncState, calls
    <2>4. ASSUME NEW b \in Companies, \/ \E y \in Importable[b] : ImportDocument(b, y) \/ ImportEvent(b, y)
                                      \/ \E e \in Events : Manifest(b, e)
          PROVE  exporting' = exporting
      BY <2>4 DEF ImportDocument, ImportEvent, Manifest, calls
    <2>5. CASE Crash
      BY <2>5 DEF Crash
    <2>6. CASE UNCHANGED vars
      BY <2>6 DEF vars, calls
    <2> QED BY <2>1, <2>2, <2>3, <2>4, <2>5, <2>6 DEF Next
  <1> QED BY <1>1, <1>2, <1>3, <1>4

LEMMA ExportedMeansComplete == Consistent /\ Exported => ExportComplete
  <1> SUFFICES ASSUME Consistent, Exported, NEW c \in Companies, c \in holders, ~Pending(c)
               PROVE  /\ shipped[c][doc.id].raw = doc.raw
                      /\ shipped[c][doc.id].alone \/
                           Stored(rows) \subseteq shipped[c][doc.id].completas
                                                  \cup shipped[c][doc.id].resumos
                                                  \cup shipped[c][doc.id].bare
    BY DEF ExportComplete, Consistent, TypeOK
  <1>1. doc.id \in DocIds
    BY DEF Consistent, TypeOK, Referential, DocRow
  <1>2. marks[c][doc.id] = CurrentMark
    BY DEF Pending
  <1>3. CurrentMark # NoMark
    <2>1. CurrentMark.events \in Nat
      BY StoredFacts, FS_CardinalityType DEF CurrentMark
    <2>2. NoMark.events = -1
      BY DEF NoMark
    <2> QED BY <2>1, <2>2
  <1>4. /\ shipped[c][doc.id].raw = CurrentMark.raw
        /\ Fits(CurrentMark, shipped[c][doc.id], Stored(rows))
    BY <1>1, <1>2, <1>3 DEF Exported, MarksFit
  <1>5. CurrentMark.raw = doc.raw /\ CurrentMark.events = Cardinality(Stored(rows))
    BY DEF CurrentMark
  <1>6. shipped[c][doc.id].alone \in BOOLEAN
    BY <1>1 DEF Consistent, TypeOK, Archive
  <1> QED BY <1>4, <1>5, <1>6 DEF Fits

\* What an incremental export leaves out is in the archive of the last one,
\* and every event that is stored was read for that archive: it is there, or
\* was left out as a resumo or for lack of its XML (store/dfe.go:83,
\* store/nfe.go:294, report/nfe_zip.go:29).
THEOREM ExportsMissNothing == Spec => []ExportComplete
  <1>1. Init => Consistent /\ Exported
    BY ConsistentInit, ExportedInit
  <1>2. Consistent /\ Exported /\ [Next]_vars => (Consistent /\ Exported)'
    <2>1. Consistent /\ Exported /\ [Next]_vars => doc'.id <= resets' + 1
      BY IdSteps DEF Exported
    <2> QED BY <2>1, ConsistentStep, MarksFitStep, ExportsFitStep DEF Exported
  <1>3. Consistent /\ Exported => ExportComplete
    BY ExportedMeansComplete
  <1> QED BY <1>1, <1>2, <1>3, PTL DEF Spec

-----------------------------------------------------------------------------
(* The events a pull discards.  The finding is that the answer of          *)
(* PullEventCheck may be out of date when it is acted on.  What makes it   *)
(* so is a document imported between the two: the reservation of the       *)
(* source keeps out everything else that could show it to the company.     *)

NoDocumentFiles == \A c \in Companies : \A x \in Importable[c] : x.kind # "document"

DropUnseen == \A c \in Companies : pull[c] = "drop" => c \notin holders

\* A company that is to discard an event does not come to see its document.
LEMMA DropUnseenStep ==
    ASSUME NoDocumentFiles, TypeOK, DropUnseen, [Next]_vars
    PROVE  DropUnseen'
  <1> SUFFICES ASSUME NEW c \in Companies, pull'[c] = "drop"
               PROVE  c \notin holders'
    BY DEF DropUnseen
  <1>0. /\ pull \in [Companies -> {"idle", "keep", "drop"}]
        /\ pull[c] = "drop" => c \notin holders
    BY DEF TypeOK, DropUnseen
  <1>1. ASSUME NEW d, NEW r, NEW h, RefreshChave(d, r, h)
        PROVE  holders' = h
    BY <1>1 DEF RefreshChave
  <1>2. ASSUME NEW b \in Companies, PullDocument(b) \/ FetchByChave(b)
        PROVE  c \notin holders'
    <2>1. PICK v : ApplyDocument(b, v)
      BY <1>2 DEF PullDocument, FetchByChave
    <2>2. holders' = holders \cup {b}
      BY <2>1, <1>1 DEF ApplyDocument
    <2>3. b # c /\ pull'[c] = pull[c]
      BY <1>0, <1>2 DEF PullDocument, FetchByChave, Checkpoint, At, calls
    <2> QED BY <1>0, <2>2, <2>3
  <1>3. ASSUME NEW b \in Companies, PullEventKeep(b) \/ StorePending(b)
        PROVE  c \notin holders'
    <2>1. PICK x : ApplyEvent(x)
      BY <1>3 DEF PullEventKeep, StorePending
    <2>2. holders' = holders
      BY <2>1, <1>1 DEF ApplyEvent
    <2>3. pull[c] = "drop"
      BY <1>0, <1>3 DEF PullEventKeep, StorePending, Checkpoint
    <2> QED BY <1>0, <2>2, <2>3
  <1>4. ASSUME NEW b \in Companies, PullEventCheck(b)
        PROVE  c \notin holders'
    <2>1. CASE b = c
      BY <1>0, <1>4, <2>1 DEF PullEventCheck, tables
    <2>2. CASE b # c
      BY <1>0, <1>4, <2>2 DEF PullEventCheck, tables
    <2> QED BY <2>1, <2>2
  <1>5. ASSUME NEW b \in Companies, PullEventDrop(b) \/ EndPull(b)
        PROVE  c \notin holders'
    BY <1>0, <1>5 DEF PullEventDrop, EndPull, Checkpoint, tables
  <1>6. ASSUME NEW b \in Companies, ResetCompany(b)
        PROVE  c \notin holders'
    BY <1>0, <1>6 DEF ResetCompany, calls
  <1>7. ASSUME NEW b \in Companies,
               \/ \E x \in Importable[b] : ImportDocument(b, x) \/ ImportEvent(b, x)
               \/ \E e \in Events : Manifest(b, e)
        PROVE  c \notin holders'
    <2>1. ~\E x \in Importable[b] : ImportDocument(b, x)
      BY DEF NoDocumentFiles, ImportDocument
    <2> QED BY <1>0, <1>7, <2>1 DEF ImportEvent, Manifest, tables
  <1>8. ASSUME NEW b \in Companies,
               \/ LosePending(b) \/ ResetSyncState(b) \/ SelectForExport(b) \/ ReadEvents(b)
               \/ ExportAlone(b) \/ MarkExported(b) \/ ExportFails(b)
        PROVE  UNCHANGED <<holders, pull>>
    BY <1>8 DEF LosePending, ResetSyncState, SelectForExport, ReadEvents, ExportAlone,
       MarkExported, ExportFails, tables, calls
  <1>9. CASE Crash
    BY <1>9 DEF Crash
  <1>10. CASE UNCHANGED vars
    BY <1>0, <1>10 DEF vars, tables, calls
  <1> QED BY <1>0, <1>2, <1>3, <1>4, <1>5, <1>6, <1>7, <1>8, <1>9, <1>10 DEF Next

\* Where nobody imports documents, whatever else runs, an event is discarded
\* only if the company does not see its document (sync/source_dfe.go:73).
THEOREM DropsAreHonest ==
    ASSUME NoDocumentFiles
    PROVE  Spec => DroppedOnlyIfUnseen
  <1>1. Init => TypeOK /\ DropUnseen
    BY ConsistentInit DEF Init, Consistent, DropUnseen
  <1>2. Consistent /\ DropUnseen /\ [Next]_vars => Consistent' /\ DropUnseen'
    BY ConsistentStep, DropUnseenStep DEF Consistent
  <1>3. DropUnseen =>
          [\A c \in Companies : pull[c] = "drop" /\ pos'[c] > pos[c] => c \notin holders]_vars
    BY DEF DropUnseen
  <1>4. Init => Consistent
    BY ConsistentInit
  <1> QED BY <1>1, <1>2, <1>3, <1>4, PTL DEF Spec, DroppedOnlyIfUnseen
=============================================================================
