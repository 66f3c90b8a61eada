----------------------------- MODULE Participation -----------------------------
(* The role of a registered company in a document, and what the company    *)
(* reads of it: its row in the list, the pending manifestações and their    *)
(* deadlines (nfe/participation.go, cte/participation.go,                   *)
(* nfse/participation.go, store/nfe.go, app/nfe.go).                        *)
(*                                                                          *)
(* One document of SEFAZ or of the ADN, and the companies that store it.    *)
(* They share its row; each store writes the role of the company that       *)
(* stores, as the shared row says after the merge, and of no other.  A      *)
(* resumo names the emitente only.  The clock moves between any two steps,  *)
(* because the list derives the deadlines when it is read.                  *)
EXTENDS Integers, Sequences

CONSTANTS
    Viewers,        \* the CNPJs of the registered companies
    RootOf,         \* the root of each CNPJ; NoRoot for a CPF
    Notas,          \* the documents a run may start with
    DayLength,      \* instants in a day
    CienciaWarningDays,
    ConclusiveDeadlineDays,
    AuthorizedAt,   \* the instant of the authorization
    LastInstant,    \* bound on the clock
    MaxWipes        \* bound on resets

CNPJs == DOMAIN RootOf
NoRoot == "cpf"

NotaKinds == {"nfe", "cte", "nfse"}
Fields == {"destinatario", "emitente", "transportador", "autorizado", "remetente",
           "expedidor", "recebedor", "prestador", "tomador", "intermediario"}
\* Each party is the set of the CNPJs it names.  A CT-e names its tomador by
\* a pointer, or in named.
Nota == [kind : NotaKinds, tipo : {"cte", "gtve", "cte_os"}, pointer : 0 .. 4,
         named : SUBSET CNPJs, parties : [Fields -> SUBSET CNPJs]]

ASSUME ParticipationAssumption ==
    /\ Viewers \subseteq CNPJs
    /\ Notas \subseteq Nota
    /\ DayLength \in Nat \ {0} /\ AuthorizedAt \in Nat /\ LastInstant \in Nat
    /\ CienciaWarningDays \in Nat /\ ConclusiveDeadlineDays \in Nat /\ MaxWipes \in Nat
    /\ CienciaWarningDays <= ConclusiveDeadlineDays

VARIABLES
    nota,       \* what the document says
    held,       \* its row: completeness "none" when there is none
    noted,      \* its rows of nfe_events, all registered
    relation,   \* the row of each company
    seenAs,     \* history: what the row of the document was when each company stored it
    clock,
    wipes       \* resets so far

partVars == <<nota, held, noted, relation, seenAs, clock, wipes>>

NoHeld == [completeness |-> "none", situacao |-> "autorizada"]
NoRelation == [role |-> "absent", reason |-> "absent", papeis |-> {},
               manifestacao |-> "nenhuma", viewed |-> FALSE]

\* The emitente cancels; a company manifests.
Noted == [type : {"cancelamento", "ciencia", "conclusiva"}, author : CNPJs]

-----------------------------------------------------------------------------
(* The parties a stored document names, and the classification.             *)

\* The tomador of a GTV-e and of the other kinds, by the digit of toma.
Pointed == [gtve |-> <<"remetente", "destinatario">>,
            cte |-> <<"remetente", "expedidor", "recebedor", "destinatario">>]

\* A pointer to a party the document lacks leaves the tomador empty.
ResolveTomador ==
    IF nota.tipo = "cte_os" \/ nota.pointer = 4 THEN nota.named
    ELSE IF nota.pointer + 1 \in DOMAIN Pointed[nota.tipo]
         THEN nota.parties[Pointed[nota.tipo][nota.pointer + 1]]
         ELSE {}

\* What a resNFe says of the parties.
NamedByResumo == [f \in Fields |-> IF f = "emitente" THEN nota.parties[f] ELSE {}]

\* What a procNFe says of them, and an NFS-e.
NamedByCompleta == nota.parties

NamedByNFe(completeness) ==
    IF completeness = "resumo" THEN NamedByResumo ELSE NamedByCompleta
NamedByCTe == [f \in Fields |-> IF f = "tomador" THEN ResolveTomador ELSE nota.parties[f]]

NFePriority == <<"destinatario", "emitente", "transportador", "autorizado">>
CTePriority == <<"tomador", "destinatario", "remetente", "expedidor", "recebedor",
                 "emitente", "autorizado">>
\* In the row: prestada, tomada and intermediario.
NFSePriority == <<"prestador", "tomador", "intermediario">>

SameRoot(c, p) == RootOf[c] # NoRoot /\ RootOf[p] = RootOf[c]

RoleRow(role, reason, papeis) == [role |-> role, reason |-> reason, papeis |-> papeis]

IsParty(c, priority, named) == \E i \in DOMAIN priority : c \in named[priority[i]]

\* The i-th party is the first that is the company.
FirstMatch(c, priority, named, i) ==
    /\ i \in DOMAIN priority /\ c \in named[priority[i]]
    /\ \A j \in 1 .. i - 1 : c \notin named[priority[j]]
RoleOf(c, priority, named) ==
    priority[CHOOSE i \in DOMAIN priority : FirstMatch(c, priority, named, i)]

Unmatched(c, priority, named) ==
    RoleRow("none",
            IF \E i \in DOMAIN priority : \E p \in named[priority[i]] : SameRoot(c, p)
            THEN "same_root_only" ELSE "unknown",
            {})

ClassifyNFe(c, completeness) ==
    IF IsParty(c, NFePriority, NamedByNFe(completeness))
    THEN RoleRow(RoleOf(c, NFePriority, NamedByNFe(completeness)), "exact", {})
    ELSE IF completeness = "resumo"
         THEN RoleRow("destinatario", "resumo_destinatario", {})
         ELSE Unmatched(c, NFePriority, NamedByNFe(completeness))

\* Every role the company has is kept, the first as its own.
ClassifyCTe(c) ==
    IF IsParty(c, CTePriority, NamedByCTe)
    THEN RoleRow(RoleOf(c, CTePriority, NamedByCTe), "exact",
                 {f \in Fields : c \in NamedByCTe[f] /\ \E i \in DOMAIN CTePriority : CTePriority[i] = f})
    ELSE Unmatched(c, CTePriority, NamedByCTe)

ClassifyNFSe(c) ==
    IF IsParty(c, NFSePriority, NamedByCompleta)
    THEN RoleRow(RoleOf(c, NFSePriority, NamedByCompleta), "exact", {})
    ELSE Unmatched(c, NFSePriority, NamedByCompleta)

ClassifyParticipation(c, completeness) ==
    CASE nota.kind = "nfe" -> ClassifyNFe(c, completeness)
      [] nota.kind = "cte" -> ClassifyCTe(c)
      [] nota.kind = "nfse" -> ClassifyNFSe(c)

-----------------------------------------------------------------------------
(* The transactions that write.                                             *)

Sees(c) == relation[c].role # "absent"

\* The conclusive manifestação of the company decides, else its ciência.
ManifestacaoOf(events, c) ==
    IF [type |-> "conclusiva", author |-> c] \in events THEN "conclusiva"
    ELSE IF [type |-> "ciencia", author |-> c] \in events THEN "ciencia" ELSE "nenhuma"

Cancelled(events) == \E e \in events : e.type = "cancelamento"

\* refreshChave: nothing without a document; else the situation, and the
\* manifestação of every company that sees it.
RefreshNota(h, events, rows) ==
    IF h.completeness = "none"
    THEN held' = h /\ relation' = rows
    ELSE /\ held' = [completeness |-> h.completeness,
                     situacao |-> IF Cancelled(events) THEN "cancelada" ELSE h.situacao]
         /\ relation' = [c \in Viewers |->
                IF rows[c].role = "absent" THEN rows[c]
                ELSE [role |-> rows[c].role, reason |-> rows[c].reason, papeis |-> rows[c].papeis,
                      manifestacao |-> ManifestacaoOf(events, c), viewed |-> rows[c].viewed]]

Worse(s, t) == IF s = "cancelada" THEN s ELSE t

\* A resumo never replaces a completa.
Merged(completeness, situacao) ==
    [completeness |-> IF held.completeness = "completa" THEN "completa" ELSE completeness,
     situacao |-> Worse(held.situacao, situacao)]

\* Mutant of ClassifiedBy: the role is read from the document that came.
ClassifiedByIncoming(completeness) == completeness

\* What the role is read from: the document that is kept.
ClassifiedBy(completeness) == Merged(completeness, "autorizada").completeness

\* The row of the company takes the new role; what it viewed stays.
UpsertRelation(c, r) ==
    [relation EXCEPT ![c] = [role |-> r.role, reason |-> r.reason, papeis |-> r.papeis,
                             manifestacao |-> relation[c].manifestacao,
                             viewed |-> relation[c].viewed]]

ApplyDocument(c, completeness, situacao) ==
    /\ RefreshNota(Merged(completeness, situacao), noted,
               UpsertRelation(c, ClassifyParticipation(c, ClassifiedBy(completeness))))
    /\ seenAs' = [seenAs EXCEPT ![c] = Merged(completeness, situacao).completeness]
    /\ UNCHANGED <<nota, noted, clock, wipes>>

\* External: the distribution hands a resumo to the destinatário alone, and
\* the rest to a company of the same root as a party.
Distributed(c, completeness) ==
    IF completeness = "resumo"
    THEN nota.kind = "nfe" /\ c \in nota.parties["destinatario"]
    ELSE ClassifyParticipation(c, "completa").reason # "unknown"

\* The pull, or the fetch by chave.
PullDocument(c, completeness, situacao) ==
    Distributed(c, completeness) /\ ApplyDocument(c, completeness, situacao)

\* A file is refused when it says the company has no part; any resNFe is
\* taken for one of the company's.
ImportDocument(c, completeness, situacao) ==
    /\ nota.kind # "nfse" /\ (completeness = "resumo" => nota.kind = "nfe")
    /\ ClassifyParticipation(c, completeness).role # "none"
    /\ ApplyDocument(c, completeness, situacao)

\* External: SEFAZ takes a cancelamento from the emitente and a manifestação
\* from the destinatário.  A company stores the event of another only for a
\* document it sees.
StoreNoted(c, e) ==
    /\ nota.kind = "nfe" /\ e \notin noted
    /\ e.author \in nota.parties[IF e.type = "cancelamento" THEN "emitente" ELSE "destinatario"]
    /\ e.author = c \/ Sees(c)
    /\ noted' = noted \cup {e}
    /\ RefreshNota(held, noted', relation)
    /\ UNCHANGED <<nota, seenAs, clock, wipes>>

ViewNota(c) ==
    /\ Sees(c) /\ ~relation[c].viewed
    /\ relation' = [relation EXCEPT ![c] =
            [role |-> relation[c].role, reason |-> relation[c].reason,
             papeis |-> relation[c].papeis, manifestacao |-> relation[c].manifestacao,
             viewed |-> TRUE]]
    /\ UNCHANGED <<nota, held, noted, seenAs, clock, wipes>>

\* The document goes with its last company, and its events with it, but for
\* those of another registered company; an event of its own without document
\* goes too.
ResetCompany(c) ==
    /\ nota.kind = "nfe" /\ wipes < MaxWipes
    /\ LET last == Sees(c) /\ \A d \in Viewers \ {c} : ~Sees(d)
       IN  /\ held' = IF last THEN NoHeld ELSE held
           /\ noted' = IF last THEN {e \in noted : e.author \in Viewers \ {c}}
                       ELSE IF held.completeness = "none" THEN {e \in noted : e.author # c}
                       ELSE noted
    /\ relation' = [relation EXCEPT ![c] = NoRelation]
    /\ seenAs' = [seenAs EXCEPT ![c] = "none"]
    /\ wipes' = wipes + 1
    /\ UNCHANGED <<nota, clock>>

Tick ==
    /\ clock < LastInstant
    /\ clock' = clock + 1
    /\ UNCHANGED <<nota, held, noted, relation, seenAs, wipes>>

PartInit ==
    /\ nota \in Notas
    /\ held = NoHeld /\ noted = {}
    /\ relation = [c \in Viewers |-> NoRelation]
    /\ seenAs = [c \in Viewers |-> "none"]
    /\ clock = AuthorizedAt /\ wipes = 0

PartNext ==
    \/ \E c \in Viewers :
          \/ \E completeness \in {"resumo", "completa"}, situacao \in {"autorizada", "cancelada"} :
                \/ PullDocument(c, completeness, situacao)
                \/ ImportDocument(c, completeness, situacao)
          \/ \E e \in Noted : StoreNoted(c, e)
          \/ ViewNota(c) \/ ResetCompany(c)
    \/ Tick

PartSpec == PartInit /\ [][PartNext]_partVars

-----------------------------------------------------------------------------
(* What the list and the status derive from the row, and when.              *)

\* The condition of the query, over the columns.
Pending(c) ==
    /\ relation[c].role = "destinatario"
    /\ held.situacao = "autorizada"
    /\ relation[c].manifestacao \in {"nenhuma", "ciencia"}

\* Why the company may not manifest; "" when it may.
ManifestacaoRefused(c) ==
    IF relation[c].role # "destinatario" THEN "not the destinatario"
    ELSE IF held.situacao # "autorizada" THEN held.situacao ELSE ""
CienciaRefused(c) ==
    IF ManifestacaoRefused(c) # "" THEN ManifestacaoRefused(c)
    ELSE IF relation[c].manifestacao # "nenhuma" THEN relation[c].manifestacao ELSE ""
ConclusivaRefused(c) ==
    IF ManifestacaoRefused(c) # "" THEN ManifestacaoRefused(c)
    ELSE IF relation[c].manifestacao = "conclusiva" THEN "conclusiva" ELSE ""

CienciaDue == AuthorizedAt + CienciaWarningDays * DayLength
ConclusiveDue == AuthorizedAt + ConclusiveDeadlineDays * DayLength

\* Whole days of the calendar, where the deadlines are instants.
DaysLeft(due) == (due \div DayLength) - (clock \div DayLength)

TacitlyConfirmed(c) ==
    /\ relation[c].role = "destinatario" /\ held.situacao = "autorizada"
    /\ relation[c].manifestacao # "conclusiva"
    /\ clock > ConclusiveDue

\* The row of the pending list.
PendingKind(c) == IF relation[c].manifestacao = "nenhuma" THEN "sem_ciencia" ELSE "sem_conclusiva"
CienciaOverdue(c) == Pending(c) /\ PendingKind(c) = "sem_ciencia" /\ clock >= CienciaDue

-----------------------------------------------------------------------------
PartTypeOK ==
    /\ nota \in Notas
    /\ held \in [completeness : {"none", "resumo", "completa"}, situacao : {"autorizada", "cancelada"}]
    /\ noted \subseteq Noted
    /\ relation \in [Viewers -> [role : Fields \cup {"none", "absent"},
                                 reason : {"exact", "resumo_destinatario", "same_root_only",
                                           "unknown", "absent"},
                                 papeis : SUBSET Fields,
                                 manifestacao : {"nenhuma", "ciencia", "conclusiva"},
                                 viewed : BOOLEAN]]
    /\ seenAs \in [Viewers -> {"none", "resumo", "completa"}]
    /\ clock \in Nat /\ wipes \in 0 .. MaxWipes

Priority == CASE nota.kind = "nfe" -> NFePriority
              [] nota.kind = "cte" -> CTePriority
              [] nota.kind = "nfse" -> NFSePriority
\* Who the parties really are.
TrueParties == IF nota.kind = "cte" THEN NamedByCTe ELSE nota.parties

\* A company whose row was written from the whole document has the first of
\* its roles in it, and none only if it is no party.
TrueRole(c) ==
    Sees(c) /\ seenAs[c] = "completa" =>
        IF relation[c].role = "none" THEN ~IsParty(c, Priority, TrueParties)
        ELSE \E i \in DOMAIN Priority :
                relation[c].role = Priority[i] /\ FirstMatch(c, Priority, TrueParties, i)

\* The company is the destinatário of an NF-e it has and owes a conclusive
\* manifestação of it, as far as the events stored tell.
Due(c) ==
    /\ Sees(c) /\ nota.kind = "nfe"
    /\ c \in nota.parties["destinatario"]
    /\ held.situacao = "autorizada" /\ ~Cancelled(noted)
    /\ [type |-> "conclusiva", author |-> c] \notin noted

\* The list of pending manifestações misses no NF-e a company owes one of, but
\* for a resumo of a nota it issued to itself, and holds no other once the
\* company stored the whole NF-e, in whatever order its resumo, its XML, its
\* events and the copies of the other parties were stored.  A resumo names no
\* destinatário: of who stored nothing else the list may hold notas it owes
\* nothing of, and an imported one need not be of a nota that names it at all.
\* The list agrees with what blocks a manifestação and with the deadlines, the
\* tacit confirmation at an instant and the days left on a calendar.
PendingIsDue ==
    \A c \in Viewers :
        /\ TrueRole(c)
        /\ nota.kind = "nfe" /\ Pending(c) /\ seenAs[c] = "completa" => Due(c)
        /\ Due(c) /\ (seenAs[c] = "completa" \/ c \notin nota.parties["emitente"]) => Pending(c)
        /\ Pending(c) <=> ConclusivaRefused(c) = ""
        /\ (Pending(c) /\ PendingKind(c) = "sem_ciencia") <=> CienciaRefused(c) = ""
        /\ TacitlyConfirmed(c) => Pending(c) /\ DaysLeft(ConclusiveDue) <= 0
        /\ Pending(c) /\ DaysLeft(ConclusiveDue) < 0 => TacitlyConfirmed(c)
        /\ CienciaOverdue(c) => DaysLeft(CienciaDue) <= 0
=============================================================================
