---------------------------- MODULE Manifestacao ----------------------------
(***************************************************************************)
(* The manifestacoes do destinatario of a company: planned by what the     *)
(* database says, sent to SEFAZ in lotes, recorded by what it answers      *)
(* (app/nfe_manifest.go, sefaz/evento.go, store/nfe.go).                   *)
(*                                                                         *)
(* A job plans, asks for the password of the certificate and sends its     *)
(* lotes in order.  No reservation keeps two jobs, or a job and a pull,    *)
(* apart.  The answer of a lote may be lost after SEFAZ registered it, and *)
(* the lote is then sent once more.  SEFAZ is external: it registers an    *)
(* event of a type once for each chave (then 573), takes no ciencia after  *)
(* a conclusive event (655) and may refuse an event for reasons of its own.*)
(* The state of manifestacao is read here off the company's events, as     *)
(* NFeDocs shows the stored one to be; the audit rows of nfe_manifestacoes *)
(* are written and never read, and left out.                               *)
(***************************************************************************)
EXTENDS Integers, Sequences, FiniteSets

CONSTANTS
    NFeCount,       \* the NF-e the company is the destinatario of: 1 .. NFeCount
    ConclusiveTypes,\* confirmacao, desconhecimento, nao_realizada
    MaxPerLote,     \* MaxEventosPorLote
    Retries,        \* eventTransportRetries
    Jobs,           \* manifestacoes that may be under way at once
    Elsewhere,      \* what the company may register outside nanci
    MaxPlans,       \* bound on plans
    MaxForgets      \* bound on resets

NFe == 1 .. NFeCount
Tipos == {"ciencia"} \cup ConclusiveTypes
Evento == [chave : NFe, tipo : Tipos]

ASSUME ManifestacaoAssumption ==
    /\ NFeCount \in Nat /\ MaxPlans \in Nat /\ MaxForgets \in Nat
    /\ MaxPerLote \in Nat \ {0}
    /\ Retries \in Nat
    /\ "ciencia" \notin ConclusiveTypes
    /\ Elsewhere \subseteq Evento

VARIABLES
    registered,     \* the events SEFAZ registered
    known,          \* those of them in nfe_events
    jobs,           \* what each job is doing
    ours,           \* history: the events nanci had registered
    blind,          \* history: chaves a conclusive type was planned for
                    \* without all the facts
    plans,          \* plans so far
    forgets         \* resets so far

manifVars == <<registered, known, jobs, ours, blind, plans, forgets>>

NoJob == [stage |-> "idle"]
CStats == {135, 573, 655, 596}
\* The lotes not yet recorded, and of the first of them how often it was sent
\* and the cStat of each event.
Job == [stage : {"password", "sending", "answered"}, lotes : Seq(SUBSET Evento),
        tries : 0 .. Retries + 1, answer : [Evento -> CStats]]
NoAnswer == [e \in Evento |-> 596]

ManifTypeOK ==
    /\ registered \subseteq Evento
    /\ known \subseteq Evento
    /\ jobs \in [Jobs -> {NoJob} \cup Job]
    /\ \A j \in Jobs : jobs[j] # NoJob => jobs[j].lotes # <<>>
    /\ ours \subseteq registered
    /\ blind \subseteq NFe
    /\ plans \in 0 .. MaxPlans
    /\ forgets \in 0 .. MaxForgets

ManifInit ==
    /\ registered = {}
    /\ known = {}
    /\ jobs = [j \in Jobs |-> NoJob]
    /\ ours = {}
    /\ blind = {}
    /\ plans = 0
    /\ forgets = 0

-----------------------------------------------------------------------------
(* The plan: what the database says, before the password is asked for.     *)

HasConclusive(evs, c) == \E t \in ConclusiveTypes : [chave |-> c, tipo |-> t] \in evs

CienciaBlocked(c) == \E t \in Tipos : [chave |-> c, tipo |-> t] \in known

\* Mutant of ConclusiveBlocked: only the same type is refused.
SameTypeBlocked(c, t) == [chave |-> c, tipo |-> t] \in known

\* One conclusive manifestacao for each NF-e, whatever its type.
ConclusiveBlocked(c, t) == HasConclusive(known, c)

\* How many of the chaves S come before c.
Before(S, c) == Cardinality({d \in S : d < c})

\* The ciencias of the chaves S, in lotes of at most MaxPerLote.
Chunk(S) ==
    [n \in 1 .. (Cardinality(S) + MaxPerLote - 1) \div MaxPerLote |->
        {[chave |-> c, tipo |-> "ciencia"] : c \in {d \in S : Before(S, d) \div MaxPerLote = n - 1}}]

Start(j, lotes) ==
    /\ jobs[j] = NoJob
    /\ plans < MaxPlans
    /\ plans' = plans + 1
    /\ jobs' = [jobs EXCEPT ![j] =
          [stage |-> "password", lotes |-> lotes, tries |-> 0, answer |-> NoAnswer]]
    /\ UNCHANGED <<registered, known, ours, forgets>>

\* Mutant of PlanCiencia: a plan with nothing left in it is sent.
PlanAnyCiencia(j) ==
    \E asked \in SUBSET NFe :
        Start(j, Chunk({c \in asked : ~CienciaBlocked(c)})) /\ UNCHANGED blind

\* The chaves asked for that may not receive it are left out of the plan.
PlanCiencia(j) ==
    \E asked \in SUBSET NFe :
        LET eligible == {c \in asked : ~CienciaBlocked(c)}
        IN  eligible # {} /\ Start(j, Chunk(eligible)) /\ UNCHANGED blind

\* Some conclusive event of c is at SEFAZ and not here, or about to be sent.
Unaware(j, c) ==
    \/ HasConclusive(registered \ known, c)
    \/ \E k \in Jobs \ {j} : jobs[k] # NoJob /\ HasConclusive(jobs[k].lotes[1], c)

PlanManifestacao(j, c, t) ==
    /\ ~ConclusiveBlocked(c, t)
    /\ Start(j, <<{[chave |-> c, tipo |-> t]}>>)
    /\ blind' = IF Unaware(j, c) THEN blind \cup {c} ELSE blind

-----------------------------------------------------------------------------
(* Sending.                                                                *)

Unlock(j) ==
    /\ jobs[j].stage = "password"
    /\ jobs' = [jobs EXCEPT ![j].stage = "sending"]
    /\ UNCHANGED <<registered, known, ours, blind, plans, forgets>>

\* What SEFAZ answers to event e, if it is free to refuse those of `refused'.
CStat(e, refused) ==
    IF e \in registered THEN 573
    ELSE IF e.tipo = "ciencia" /\ HasConclusive(registered, e.chave) THEN 655
    ELSE IF e \in refused THEN 596
    ELSE 135

\* The answer of each event of the lote, matched by chave and type.
AnswerOf(lote, refused) == [e \in Evento |-> IF e \in lote THEN CStat(e, refused) ELSE 596]

Transmit(j) ==
    /\ jobs[j].stage = "sending"
    /\ \E refused \in SUBSET jobs[j].lotes[1] :
          LET lote == jobs[j].lotes[1]
              new == {e \in lote : CStat(e, refused) = 135}
          IN  /\ registered' = registered \cup new
              /\ ours' = ours \cup new
              /\ jobs' = [jobs EXCEPT ![j] =
                    [stage |-> "answered", lotes |-> @.lotes, tries |-> @.tries + 1,
                     answer |-> AnswerOf(lote, refused)]]
    /\ UNCHANGED <<known, blind, plans, forgets>>

\* No HTTP response arrived: the request or its answer was lost, and the same
\* signed events are sent again.
SendAgain(j) ==
    /\ jobs[j] # NoJob
    /\ \/ jobs[j].stage = "sending" /\ jobs[j].tries < Retries
       \/ jobs[j].stage = "answered" /\ jobs[j].tries <= Retries
    /\ jobs' = [jobs EXCEPT ![j] =
          [stage |-> "sending", lotes |-> @.lotes, answer |-> NoAnswer,
           tries |-> IF @.stage = "sending" THEN @.tries + 1 ELSE @.tries]]
    /\ UNCHANGED <<registered, known, ours, blind, plans, forgets>>

\* Mutant of IsAlreadyDone: a ciencia after a conclusive event counts.
DoneOrTooLate(c) == c \in {573, 655}

IsRegistered(c) == c = 135

IsAlreadyDone(c) == c = 573

\* Which answers store an event.
Stores(c) == IsRegistered(c) \/ IsAlreadyDone(c)

\* The answer of a lote in one transaction; the next lote follows.
RecordManifestacoes(j) ==
    /\ jobs[j].stage = "answered"
    /\ known' = known \cup {e \in jobs[j].lotes[1] : Stores(jobs[j].answer[e])}
    /\ jobs' = [jobs EXCEPT ![j] =
          IF Len(@.lotes) = 1 THEN NoJob
          ELSE [stage |-> "sending", lotes |-> Tail(@.lotes), tries |-> 0, answer |-> NoAnswer]]
    /\ UNCHANGED <<registered, ours, blind, plans, forgets>>

\* The password is cancelled, no answer came after all tries, SEFAZ refused the
\* lote, its answer could not be recorded, or the process died: the lotes that
\* are left are not sent.
Abandon(j) ==
    /\ jobs[j] # NoJob
    /\ jobs' = [jobs EXCEPT ![j] = NoJob]
    /\ UNCHANGED <<registered, known, ours, blind, plans, forgets>>

-----------------------------------------------------------------------------
(* The rest of the world.                                                  *)

\* The distribution brings the company one of its own events.
Distribute ==
    /\ \E e \in registered \ known : known' = known \cup {e}
    /\ UNCHANGED <<registered, jobs, ours, blind, plans, forgets>>

\* The company manifests itself on another program.
RegisterElsewhere(e) ==
    /\ e \notin registered
    /\ e.tipo = "ciencia" => ~HasConclusive(registered, e.chave)
    /\ registered' = registered \cup {e}
    /\ UNCHANGED <<known, jobs, ours, blind, plans, forgets>>

\* A reset, and the walk that brings the documents back before their events.
Forget ==
    /\ forgets < MaxForgets
    /\ forgets' = forgets + 1
    /\ known' = {}
    /\ UNCHANGED <<registered, jobs, ours, blind, plans>>

ManifNext ==
    \/ \E j \in Jobs :
        \/ PlanCiencia(j)
        \/ \E c \in NFe, t \in ConclusiveTypes : PlanManifestacao(j, c, t)
        \/ Unlock(j) \/ Transmit(j) \/ SendAgain(j)
        \/ RecordManifestacoes(j) \/ Abandon(j)
    \/ Distribute
    \/ \E e \in Elsewhere : RegisterElsewhere(e)
    \/ Forget

ManifSpec == ManifInit /\ [][ManifNext]_manifVars

-----------------------------------------------------------------------------
(* Properties.                                                             *)

\* A conclusive type planned with all the facts stays the only one nanci has
\* registered for its chave, however the lotes of the jobs are repeated, refused
\* or interleaved.  Two are registered only if one of them was planned while a
\* conclusive event was at SEFAZ and not in the database (its answer was lost
\* and the call abandoned, a reset forgot it, or another program sent it), or
\* while another job had one to send (nfe/manifestacao.go:230,
\* sefaz/evento.go:34).
OneConclusive ==
    \A c \in NFe, t, u \in ConclusiveTypes :
        [chave |-> c, tipo |-> t] \in ours /\ [chave |-> c, tipo |-> u] \in ours
        => t = u \/ c \in blind

\* The comment of ConclusiveBlockReason: "nanci sends at most one conclusive
\* manifestação per NF-e, whatever its type" (nfe/manifestacao.go:230,
\* docs/NFE_SEFAZ.md:182).
AtMostOneConclusive ==
    \A c \in NFe, t, u \in ConclusiveTypes :
        [chave |-> c, tipo |-> t] \in ours /\ [chave |-> c, tipo |-> u] \in ours => t = u

\* What the database says was manifested is registered at SEFAZ: a refusal,
\* the 655 of a ciencia that came too late included, never marks a chave
\* (sefaz/evento.go:67, app/nfe_manifest.go:529).
ManifestacaoIsRegistered == known \subseteq registered
=============================================================================
