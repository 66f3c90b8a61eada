------------------------- MODULE ManifestacaoProofs -------------------------
(***************************************************************************)
(* Theorems about Manifestacao and Participation, and about HTTPClient,    *)
(* which sends the lotes.                                                  *)
(*                                                                         *)
(* That the database only holds what SEFAZ registered needs what an        *)
(* answered lote says (AnsweredTruly).  That one chave gets one conclusive *)
(* event needs what a job under way is about to do: a job sends ciencias   *)
(* or one conclusive event (OneKind), and of a chave that was not planned  *)
(* blindly no two jobs have one, and none another than the one that nanci  *)
(* had registered (Singular).                                              *)
(*                                                                         *)
(* That the list of pending manifestações is what a company owes needs     *)
(* what its row was written from: the role is true of the whole document,  *)
(* or is what a resumo lets one say (ViewerSound), and a cancelamento that *)
(* came before the document still shows in its row (CancelShown).          *)
(*                                                                         *)
(* SendsJustified is not inductive: that a distribution is sent once, and  *)
(* a lote twice at most, follows from what the call has left to spend.     *)
(* Until it tells something, each request it sent cost it a retry or a     *)
(* resend (Spent), and none of them was answered in a way that ends the    *)
(* call (Unfinished).                                                      *)
(***************************************************************************)
EXTENDS Manifestacao, Participation, HTTPClient, FiniteSetTheorems, TLAPS

JobType ==
    /\ jobs \in [Jobs -> {NoJob} \cup Job]
    /\ \A j \in Jobs : jobs[j] # NoJob => jobs[j].lotes # <<>>

TablesType ==
    /\ registered \subseteq Evento
    /\ known \subseteq Evento
    /\ ours \subseteq registered
    /\ blind \subseteq NFe
    /\ plans \in 0 .. MaxPlans
    /\ forgets \in 0 .. MaxForgets

\* A lote that is not answered may still be sent.
TriesLeft == \A j \in Jobs : jobs[j] # NoJob /\ jobs[j].stage # "answered" => jobs[j].tries <= Retries

\* An answer that stores an event comes from a SEFAZ that registered it.
AnsweredTruly ==
    \A j \in Jobs : jobs[j] # NoJob /\ jobs[j].stage = "answered" =>
        \A e \in jobs[j].lotes[1] : Stores(jobs[j].answer[e]) => e \in registered

OnlyCiencia(lotes) == \A n \in 1 .. Len(lotes) : \A e \in lotes[n] : e.tipo = "ciencia"

Single(c, t) == <<{[chave |-> c, tipo |-> t]}>>

\* Job j is about the conclusive type t of the chave c.
Chosen(j, c, t) == jobs[j] # NoJob /\ jobs[j].lotes = Single(c, t)

OneKind ==
    \A j \in Jobs : jobs[j] # NoJob =>
        \/ OnlyCiencia(jobs[j].lotes)
        \/ \E c \in NFe, t \in ConclusiveTypes : jobs[j].lotes = Single(c, t)

ChosenOnce ==
    \A c \in NFe \ blind, j, k \in Jobs, t, u \in ConclusiveTypes :
        Chosen(j, c, t) /\ Chosen(k, c, u) => j = k

ChosenAsOurs ==
    \A c \in NFe \ blind, j \in Jobs, t, u \in ConclusiveTypes :
        Chosen(j, c, t) /\ [chave |-> c, tipo |-> u] \in ours => t = u

Singular == OneKind /\ ChosenOnce /\ ChosenAsOurs /\ OneConclusive

ManifInv ==
    /\ JobType /\ TablesType /\ TriesLeft /\ AnsweredTruly
    /\ ManifestacaoIsRegistered /\ Singular

LEMMA TypeFromManifInv == ManifInv => ManifTypeOK
    BY DEF ManifInv, JobType, TablesType, ManifTypeOK

-----------------------------------------------------------------------------
(* Jobs.                                                                   *)

\* The update of one job, whatever it becomes.
Becomes(j, x) == jobs' = [jobs EXCEPT ![j] = x]

LEMMA JobUpdated ==
    ASSUME JobType, NEW j \in Jobs, NEW x \in {NoJob} \cup Job, Becomes(j, x),
           x # NoJob => x.lotes # <<>>
    PROVE  /\ JobType'
           /\ jobs'[j] = x
           /\ \A k \in Jobs : k # j => jobs'[k] = jobs[k]
    BY DEF JobType, Becomes

LEMMA JobFields ==
    ASSUME NEW x \in Job
    PROVE  /\ x.stage \in {"password", "sending", "answered"}
           /\ x.lotes \in Seq(SUBSET Evento) /\ x.tries \in 0 .. Retries + 1
           /\ x.answer \in [Evento -> CStats]
           /\ x # NoJob
    BY DEF Job, NoJob

LEMMA JobMade ==
    ASSUME NEW stage \in {"password", "sending", "answered"},
           NEW lotes \in Seq(SUBSET Evento), NEW tries \in 0 .. Retries + 1,
           NEW answer \in [Evento -> CStats]
    PROVE  [stage |-> stage, lotes |-> lotes, tries |-> tries, answer |-> answer] \in Job
    BY DEF Job

LEMMA NoAnswerType == NoAnswer \in [Evento -> CStats]
    BY DEF NoAnswer, CStats

LEMMA FirstLote ==
    ASSUME JobType, NEW j \in Jobs, jobs[j] # NoJob
    PROVE  /\ jobs[j] \in Job
           /\ jobs[j].lotes \in Seq(SUBSET Evento)
           /\ Len(jobs[j].lotes) \in Nat \ {0}
           /\ jobs[j].lotes[1] \subseteq Evento
  <1>1. jobs[j] \in Job /\ jobs[j].lotes # <<>>
    BY DEF JobType
  <1>2. jobs[j].lotes \in Seq(SUBSET Evento)
    BY <1>1, JobFields
  <1>3. Len(jobs[j].lotes) \in Nat \ {0}
    BY <1>1, <1>2
  <1>4. jobs[j].lotes[1] \in SUBSET Evento
    BY <1>2, <1>3
  <1> QED BY <1>1, <1>2, <1>3, <1>4

LEMMA TailOfMany ==
    ASSUME NEW S, NEW s \in Seq(S), Len(s) \in Nat \ {0}, Len(s) # 1
    PROVE  /\ Len(s) > 1 /\ Tail(s) \in Seq(S)
           /\ Tail(s) # <<>>
  <1>1. Len(s) > 1
    <2>1. ASSUME NEW n \in Nat \ {0}, n # 1 PROVE n > 1
      BY <2>1
    <2> QED BY <2>1, Zenon
  <1>2. s # <<>>
    BY <1>1
  <1>3. Tail(s) \in Seq(S)
    BY <1>2
  <1>4. Len(Tail(s)) = Len(s) - 1
    BY <1>2
  <1>5. Tail(s) # <<>>
    <2>1. Len(Tail(s)) # 0
      BY <1>1, <1>4
    <2>2. Len(<<>>) = 0
      OBVIOUS
    <2> QED BY <2>1, <2>2, Zenon
  <1> QED BY <1>1, <1>3, <1>5

LEMMA SingleLote ==
    ASSUME NEW c \in NFe, NEW t \in ConclusiveTypes
    PROVE  /\ Single(c, t) \in Seq(SUBSET Evento) /\ Single(c, t) # <<>>
           /\ Len(Single(c, t)) = 1
           /\ Single(c, t)[1] = {[chave |-> c, tipo |-> t]}
           /\ ~OnlyCiencia(Single(c, t))
           /\ \A d \in NFe, u \in ConclusiveTypes : Single(c, t) = Single(d, u) => c = d /\ t = u
  <1>1. [chave |-> c, tipo |-> t] \in Evento
    BY DEF Evento, Tipos
  <1>2. /\ Single(c, t) \in Seq(SUBSET Evento) /\ Single(c, t) # <<>>
        /\ Len(Single(c, t)) = 1
        /\ Single(c, t)[1] = {[chave |-> c, tipo |-> t]}
    BY <1>1 DEF Single
  <1>3. ~OnlyCiencia(Single(c, t))
    <2>1. 1 \in 1 .. Len(Single(c, t)) /\ [chave |-> c, tipo |-> t] \in Single(c, t)[1]
      BY <1>2
    <2>2. [chave |-> c, tipo |-> t].tipo # "ciencia"
      BY ManifestacaoAssumption
    <2> QED BY <2>1, <2>2, Zenon DEF OnlyCiencia
  <1>4. ASSUME NEW d \in NFe, NEW u \in ConclusiveTypes, Single(c, t) = Single(d, u)
        PROVE  c = d /\ t = u
    <2>1. Single(d, u)[1] = {[chave |-> d, tipo |-> u]}
      BY DEF Single
    <2>2. [chave |-> c, tipo |-> t] = [chave |-> d, tipo |-> u]
      BY <1>2, <1>4, <2>1
    <2> QED BY <2>2
  <1> QED BY <1>2, <1>3, <1>4

LEMMA AtLeastOne ==
    ASSUME NEW a \in Nat \ {0}, NEW b \in Nat \ {0}
    PROVE  (a + b - 1) \div b \in Nat \ {0}
  <1> DEFINE q == (a + b - 1) \div b
             r == (a + b - 1) % b
  <1>1. /\ q \in Int /\ r \in 0 .. b - 1
        /\ a + b - 1 = b * q + r
    OBVIOUS
  <1>2. b * q >= a /\ b * q > 0
    BY <1>1
  <1> HIDE DEF q, r
  <1>3. q > 0
    <2>1. q <= 0 => b * q <= 0
      BY <1>1
    <2> QED BY <1>1, <1>2, <2>1
  <1> QED BY <1>1, <1>3 DEF q

LEMMA ChunkLotes ==
    ASSUME NEW S \in SUBSET NFe, S # {}
    PROVE  /\ Chunk(S) \in Seq(SUBSET Evento)
           /\ Chunk(S) # <<>>
           /\ OnlyCiencia(Chunk(S))
  <1> DEFINE len == (Cardinality(S) + MaxPerLote - 1) \div MaxPerLote
             lote(n) == {[chave |-> c, tipo |-> "ciencia"] :
                            c \in {d \in S : Before(S, d) \div MaxPerLote = n - 1}}
  <1>1. IsFiniteSet(S)
    <2>1. IsFiniteSet(1 .. NFeCount)
      BY ManifestacaoAssumption, FS_Interval
    <2> QED BY <2>1, FS_Subset, Zenon DEF NFe
  <1>2. Cardinality(S) \in Nat \ {0}
    BY <1>1, FS_CardinalityType, FS_EmptySet
  <1>3. len \in Nat \ {0}
    BY <1>2, AtLeastOne, ManifestacaoAssumption
  <1>4. \A n : lote(n) \in SUBSET Evento
    BY DEF Evento, Tipos
  <1>5. \A n : \A e \in lote(n) : e.tipo = "ciencia"
    OBVIOUS
  <1>6. Chunk(S) = [n \in 1 .. len |-> lote(n)]
    BY DEF Chunk
  <1> HIDE DEF len, lote
  <1>7. Chunk(S) \in Seq(SUBSET Evento) /\ Len(Chunk(S)) = len
    BY <1>3, <1>4, <1>6
  <1>8. Chunk(S) # <<>>
    BY <1>3, <1>7
  <1>9. OnlyCiencia(Chunk(S))
    BY <1>3, <1>5, <1>6, <1>7 DEF OnlyCiencia
  <1> QED BY <1>7, <1>8, <1>9

-----------------------------------------------------------------------------
(* What the steps do to the jobs.                                          *)

\* Nothing of the jobs and of what nanci did changes, and SEFAZ forgets nothing.
WorldStep ==
    /\ UNCHANGED <<jobs, ours, blind, plans>>
    /\ registered \subseteq registered' /\ registered' \subseteq Evento
    /\ known' \subseteq registered'
    /\ forgets' \in 0 .. MaxForgets

LEMMA WorldKeeps ==
    ASSUME ManifInv, WorldStep
    PROVE  ManifInv'
  <1> USE DEF ManifInv, WorldStep
  <1>1. JobType' /\ TriesLeft' /\ Singular'
    BY DEF JobType, TriesLeft, Singular, OneKind, ChosenOnce, ChosenAsOurs, OneConclusive, Chosen
  <1>2. TablesType' /\ ManifestacaoIsRegistered'
    BY DEF TablesType, ManifestacaoIsRegistered
  <1>3. AnsweredTruly'
    BY DEF AnsweredTruly
  <1> QED BY <1>1, <1>2, <1>3

\* Job j drops its lotes, keeps them, or goes on with the next; SEFAZ
\* registered nothing.
Advanced(j, x) ==
    /\ Becomes(j, x)
    /\ x \in {NoJob} \cup Job
    /\ x # NoJob =>
          /\ x.lotes # <<>>
          /\ x.stage # "answered" /\ x.tries <= Retries
          /\ jobs[j] # NoJob
          /\ x.lotes = jobs[j].lotes \/ (Len(jobs[j].lotes) > 1 /\ x.lotes = Tail(jobs[j].lotes))
    /\ known' \subseteq registered
    /\ UNCHANGED <<registered, ours, blind, plans, forgets>>

LEMMA AdvanceKeeps ==
    ASSUME ManifInv, NEW j \in Jobs, NEW x, Advanced(j, x)
    PROVE  ManifInv'
  <1>1. /\ JobType' /\ jobs'[j] = x
        /\ \A k \in Jobs : k # j => jobs'[k] = jobs[k]
    BY JobUpdated DEF ManifInv, Advanced
  <1>2. TablesType' /\ ManifestacaoIsRegistered'
    BY DEF ManifInv, Advanced, TablesType, ManifestacaoIsRegistered
  <1>3. TriesLeft'
    BY <1>1 DEF ManifInv, Advanced, TriesLeft
  <1>4. AnsweredTruly'
    BY <1>1 DEF ManifInv, Advanced, AnsweredTruly
  <1>5. ASSUME x # NoJob
        PROVE  \/ x.lotes = jobs[j].lotes
               \/ OnlyCiencia(x.lotes) /\ OnlyCiencia(jobs[j].lotes)
    <2>1. jobs[j] # NoJob /\ jobs[j].lotes \in Seq(SUBSET Evento)
      BY <1>5, FirstLote DEF ManifInv, Advanced
    <2>2. CASE Len(jobs[j].lotes) > 1 /\ x.lotes = Tail(jobs[j].lotes)
      <3>1. OnlyCiencia(jobs[j].lotes)
        <4>1. ASSUME NEW c \in NFe, NEW t \in ConclusiveTypes, jobs[j].lotes = Single(c, t)
              PROVE  FALSE
          <5>1. Len(Single(c, t)) = 1
            BY SingleLote, Zenon
          <5> QED BY <2>2, <4>1, <5>1
        <4> QED BY <2>1, <4>1, Zenon DEF ManifInv, Singular, OneKind
      <3>2. \A n \in 1 .. Len(x.lotes) : n + 1 \in 1 .. Len(jobs[j].lotes)
                                         /\ x.lotes[n] = jobs[j].lotes[n + 1]
        BY <2>1, <2>2
      <3> QED BY <3>1, <3>2 DEF OnlyCiencia
    <2> QED BY <1>5, <2>2 DEF Advanced
  <1>6. OneKind'
    <2>1. ASSUME NEW k \in Jobs, jobs'[k] # NoJob
          PROVE  \/ OnlyCiencia(jobs'[k].lotes)
                 \/ \E c \in NFe, t \in ConclusiveTypes : jobs'[k].lotes = Single(c, t)
      <3>1. CASE k = j
        BY <1>1, <1>5, <2>1, <3>1 DEF ManifInv, Singular, OneKind, Advanced
      <3>2. CASE k # j
        BY <1>1, <2>1, <3>2 DEF ManifInv, Singular, OneKind
      <3> QED BY <3>1, <3>2
    <2> QED BY <2>1 DEF OneKind, OnlyCiencia, Single
  <1>7. ASSUME NEW k \in Jobs, NEW c \in NFe, NEW t \in ConclusiveTypes, Chosen(k, c, t)'
        PROVE  Chosen(k, c, t)
    <2>1. CASE k = j
      <3>1. x # NoJob /\ x.lotes = Single(c, t)
        BY <1>1, <1>7, <2>1 DEF Chosen, Single
      <3>2. ~OnlyCiencia(Single(c, t))
        BY SingleLote, Zenon
      <3>3. jobs[j] # NoJob
        BY <3>1 DEF Advanced
      <3>4. x.lotes = jobs[j].lotes
        BY <1>5, <3>1, <3>2
      <3> QED BY <2>1, <3>1, <3>3, <3>4 DEF Chosen
    <2>2. CASE k # j
      BY <1>1, <1>7, <2>2 DEF Chosen, Single
    <2> QED BY <2>1, <2>2
  <1>8. ChosenOnce' /\ ChosenAsOurs' /\ OneConclusive'
    BY <1>7 DEF ManifInv, Singular, Advanced, ChosenOnce, ChosenAsOurs, OneConclusive
  <1> QED BY <1>1, <1>2, <1>3, <1>4, <1>6, <1>8 DEF ManifInv, Singular

\* A new job with the lotes.
Planned(j, lotes) ==
    /\ jobs[j] = NoJob
    /\ Becomes(j, [stage |-> "password", lotes |-> lotes, tries |-> 0, answer |-> NoAnswer])
    /\ lotes \in Seq(SUBSET Evento) /\ lotes # <<>>
    /\ plans' \in 0 .. MaxPlans
    /\ UNCHANGED <<registered, known, ours, forgets>>
    /\ blind \subseteq blind' /\ blind' \subseteq NFe

LEMMA PlannedKeeps ==
    ASSUME ManifInv, NEW j \in Jobs, NEW lotes, Planned(j, lotes)
    PROVE  /\ JobType' /\ TablesType' /\ TriesLeft' /\ AnsweredTruly' /\ ManifestacaoIsRegistered'
           /\ OneConclusive'
           /\ \A k \in Jobs : k # j => jobs'[k] = jobs[k]
           /\ jobs'[j] # NoJob /\ jobs'[j].lotes = lotes
  <1> DEFINE x == [stage |-> "password", lotes |-> lotes, tries |-> 0, answer |-> NoAnswer]
  <1>1. x \in Job
    <2>1. 0 \in 0 .. Retries + 1
      BY ManifestacaoAssumption
    <2>2. lotes \in Seq(SUBSET Evento)
      BY DEF Planned
    <2>3. "password" \in {"password", "sending", "answered"}
      OBVIOUS
    <2> QED BY <2>1, <2>2, <2>3, JobMade, NoAnswerType, Zenon
  <1>2. x # NoJob /\ x.stage = "password" /\ x.lotes = lotes /\ x.tries = 0
    BY <1>1, JobFields
  <1>3. Becomes(j, x)
    BY DEF Planned
  <1> HIDE DEF x
  <1>4. /\ JobType' /\ jobs'[j] = x
        /\ \A k \in Jobs : k # j => jobs'[k] = jobs[k]
    BY <1>1, <1>2, <1>3, JobUpdated DEF ManifInv, Planned
  <1>5. TablesType' /\ ManifestacaoIsRegistered'
    BY DEF ManifInv, Planned, TablesType, ManifestacaoIsRegistered
  <1>6. TriesLeft'
    BY <1>2, <1>4, ManifestacaoAssumption DEF ManifInv, TriesLeft
  <1>7. AnsweredTruly'
    BY <1>2, <1>4 DEF ManifInv, Planned, AnsweredTruly
  <1>8. OneConclusive'
    BY DEF ManifInv, Singular, Planned, OneConclusive
  <1> QED BY <1>2, <1>4, <1>5, <1>6, <1>7, <1>8

LEMMA CienciaKeeps ==
    ASSUME ManifInv, NEW j \in Jobs, NEW lotes, Planned(j, lotes), OnlyCiencia(lotes),
           UNCHANGED blind
    PROVE  ManifInv'
  <1>1. /\ JobType' /\ TablesType' /\ TriesLeft' /\ AnsweredTruly' /\ ManifestacaoIsRegistered'
        /\ OneConclusive'
        /\ \A k \in Jobs : k # j => jobs'[k] = jobs[k]
        /\ jobs'[j] # NoJob /\ jobs'[j].lotes = lotes
    BY PlannedKeeps
  <1>2. OneKind'
    <2>1. ASSUME NEW k \in Jobs, jobs'[k] # NoJob
          PROVE  \/ OnlyCiencia(jobs'[k].lotes)
                 \/ \E c \in NFe, t \in ConclusiveTypes : jobs'[k].lotes = Single(c, t)
      <3>1. CASE k = j
        BY <1>1, <3>1
      <3>2. CASE k # j
        BY <1>1, <2>1, <3>2 DEF ManifInv, Singular, OneKind
      <3> QED BY <3>1, <3>2
    <2> QED BY <2>1 DEF OneKind, OnlyCiencia, Single
  <1>3. ASSUME NEW k \in Jobs, NEW c \in NFe, NEW t \in ConclusiveTypes, Chosen(k, c, t)'
        PROVE  Chosen(k, c, t)
    <2>1. jobs'[k].lotes = Single(c, t) /\ jobs'[k] # NoJob
      BY <1>3 DEF Chosen, Single
    <2>2. k # j
      BY <1>1, <2>1, SingleLote
    <2> QED BY <1>1, <2>1, <2>2 DEF Chosen
  <1>4. ChosenOnce' /\ ChosenAsOurs'
    BY <1>3 DEF ManifInv, Singular, Planned, ChosenOnce, ChosenAsOurs
  <1> QED BY <1>1, <1>2, <1>4 DEF ManifInv, Singular

\* A plan that was not blind knows that no conclusive event of c is at SEFAZ
\* and that no other job is about one.
LEMMA AwareOf ==
    ASSUME ManifInv, NEW j \in Jobs, NEW c \in NFe, NEW t \in ConclusiveTypes,
           ~ConclusiveBlocked(c, t), ~Unaware(j, c)
    PROVE  \A u \in ConclusiveTypes :
              /\ [chave |-> c, tipo |-> u] \notin ours
              /\ \A k \in Jobs \ {j} : ~Chosen(k, c, u)
  <1> SUFFICES ASSUME NEW u \in ConclusiveTypes
               PROVE  /\ [chave |-> c, tipo |-> u] \notin ours
                      /\ \A k \in Jobs \ {j} : ~Chosen(k, c, u)
    OBVIOUS
  <1>1. [chave |-> c, tipo |-> u] \notin ours
    <2>1. [chave |-> c, tipo |-> u] \notin known
      BY DEF ConclusiveBlocked, HasConclusive
    <2>2. [chave |-> c, tipo |-> u] \notin registered \ known
      BY DEF Unaware, HasConclusive
    <2> QED BY <2>1, <2>2 DEF ManifInv, TablesType
  <1>2. ASSUME NEW k \in Jobs \ {j}, Chosen(k, c, u)
        PROVE  FALSE
    <2>1. [chave |-> c, tipo |-> u] \in jobs[k].lotes[1]
      BY <1>2, SingleLote DEF Chosen
    <2> QED BY <1>2, <2>1 DEF Chosen, Unaware, HasConclusive
  <1> QED BY <1>1, <1>2

LEMMA ManifestacaoKeeps ==
    ASSUME ManifInv, NEW j \in Jobs, NEW c \in NFe, NEW t \in ConclusiveTypes,
           PlanManifestacao(j, c, t)
    PROVE  ManifInv'
  <1>1. Planned(j, Single(c, t))
    <2>1. Single(c, t) \in Seq(SUBSET Evento) /\ Single(c, t) # <<>>
      BY SingleLote, Zenon
    <2>2. Start(j, Single(c, t))
      BY DEF PlanManifestacao, Single
    <2>3. blind \subseteq blind' /\ blind' \subseteq NFe
      BY DEF PlanManifestacao, ManifInv, TablesType
    <2>4. plans' \in 0 .. MaxPlans
      BY <2>2, ManifestacaoAssumption DEF Start, ManifInv, TablesType
    <2> QED BY <2>1, <2>2, <2>3, <2>4 DEF Start, Planned, Becomes
  <1>2. /\ JobType' /\ TablesType' /\ TriesLeft' /\ AnsweredTruly' /\ ManifestacaoIsRegistered'
        /\ OneConclusive'
        /\ \A k \in Jobs : k # j => jobs'[k] = jobs[k]
        /\ jobs'[j] # NoJob /\ jobs'[j].lotes = Single(c, t)
    BY <1>1, PlannedKeeps
  <1>3. OneKind'
    <2>1. ASSUME NEW k \in Jobs, jobs'[k] # NoJob
          PROVE  \/ OnlyCiencia(jobs'[k].lotes)
                 \/ \E d \in NFe, u \in ConclusiveTypes : jobs'[k].lotes = Single(d, u)
      <3>1. CASE k = j
        BY <1>2, <3>1
      <3>2. CASE k # j
        BY <1>2, <2>1, <3>2 DEF ManifInv, Singular, OneKind
      <3> QED BY <3>1, <3>2
    <2> QED BY <2>1 DEF OneKind, OnlyCiencia, Single
  <1>4. ASSUME NEW k \in Jobs, NEW d \in NFe, NEW u \in ConclusiveTypes, Chosen(k, d, u)'
        PROVE  IF k = j THEN d = c /\ u = t ELSE Chosen(k, d, u)
    <2>1. jobs'[k].lotes = Single(d, u) /\ jobs'[k] # NoJob
      BY <1>4 DEF Chosen, Single
    <2>2. CASE k = j
      BY <1>2, <2>1, <2>2, SingleLote
    <2>3. CASE k # j
      BY <1>2, <2>1, <2>3 DEF Chosen
    <2> QED BY <2>2, <2>3
  <1>5. c \notin blind' => \A u \in ConclusiveTypes :
                              /\ [chave |-> c, tipo |-> u] \notin ours
                              /\ \A k \in Jobs \ {j} : ~Chosen(k, c, u)
    <2>1. c \notin blind' => ~Unaware(j, c)
      BY DEF PlanManifestacao
    <2> QED BY <2>1, AwareOf DEF PlanManifestacao
  <1>6. blind \subseteq blind' /\ ours' = ours
    BY <1>1 DEF Planned
  <1>7. ChosenOnce'
    <2>1. ASSUME NEW d \in NFe \ blind', NEW k \in Jobs, NEW l \in Jobs,
                 NEW u \in ConclusiveTypes, NEW v \in ConclusiveTypes,
                 Chosen(k, d, u)', Chosen(l, d, v)'
          PROVE  k = l
      <3>1. CASE k # j /\ l # j
        BY <1>4, <1>6, <2>1, <3>1 DEF ManifInv, Singular, ChosenOnce
      <3>2. CASE k = j /\ l # j
        <4>1. d = c /\ Chosen(l, d, v)
          BY <1>4, <2>1, <3>2
        <4> QED BY <1>5, <2>1, <3>2, <4>1
      <3>3. CASE k # j /\ l = j
        <4>1. d = c /\ Chosen(k, d, u)
          BY <1>4, <2>1, <3>3
        <4> QED BY <1>5, <2>1, <3>3, <4>1
      <3> QED BY <3>1, <3>2, <3>3
    <2> QED BY <2>1 DEF ChosenOnce
  <1>8. ChosenAsOurs'
    BY <1>4, <1>5, <1>6 DEF ManifInv, Singular, ChosenAsOurs
  <1> QED BY <1>2, <1>3, <1>7, <1>8 DEF ManifInv, Singular

LEMMA PlanCienciaKeeps ==
    ASSUME ManifInv, NEW j \in Jobs, PlanCiencia(j)
    PROVE  ManifInv'
  <1>1. PICK wanted \in SUBSET NFe :
            LET eligible == {c \in wanted : ~CienciaBlocked(c)}
            IN  eligible # {} /\ Start(j, Chunk(eligible)) /\ UNCHANGED blind
    BY DEF PlanCiencia
  <1> DEFINE S == {c \in wanted : ~CienciaBlocked(c)}
  <1>2. S \in SUBSET NFe /\ S # {} /\ Start(j, Chunk(S)) /\ UNCHANGED blind
    BY <1>1
  <1> HIDE DEF S
  <1>3. /\ Chunk(S) \in Seq(SUBSET Evento)
        /\ Chunk(S) # <<>>
        /\ OnlyCiencia(Chunk(S))
    BY <1>2, ChunkLotes
  <1>4. Planned(j, Chunk(S))
    BY <1>2, <1>3, ManifestacaoAssumption DEF Start, Planned, Becomes, ManifInv, TablesType
  <1> QED BY <1>2, <1>3, <1>4, CienciaKeeps

-----------------------------------------------------------------------------
(* The other steps of a job.                                               *)

LEMMA UnlockKeeps ==
    ASSUME ManifInv, NEW j \in Jobs, Unlock(j)
    PROVE  ManifInv'
  <1> DEFINE x == [jobs[j] EXCEPT !.stage = "sending"]
  <1>1. jobs[j].stage = "password" /\ jobs[j] # NoJob
    BY DEF Unlock, NoJob
  <1>2. jobs[j] \in Job /\ jobs[j].lotes # <<>> /\ jobs[j].tries <= Retries
    BY <1>1 DEF ManifInv, JobType, TriesLeft
  <1>3. x \in Job /\ x.stage = "sending" /\ x.lotes = jobs[j].lotes /\ x.tries = jobs[j].tries
    BY <1>2 DEF Job
  <1>4. Becomes(j, x) /\ UNCHANGED <<registered, known, ours, blind, plans, forgets>>
    BY DEF Unlock, Becomes
  <1> HIDE DEF x
  <1>5. Advanced(j, x)
    BY <1>1, <1>2, <1>3, <1>4 DEF Advanced, ManifInv, ManifestacaoIsRegistered
  <1> QED BY <1>5, AdvanceKeeps

LEMMA AbandonLoteKeeps ==
    ASSUME ManifInv, NEW j \in Jobs, Abandon(j)
    PROVE  ManifInv'
  <1>1. Advanced(j, NoJob)
    BY DEF Abandon, Advanced, Becomes, ManifInv, ManifestacaoIsRegistered
  <1> QED BY <1>1, AdvanceKeeps

LEMMA SendAgainKeeps ==
    ASSUME ManifInv, NEW j \in Jobs, SendAgain(j)
    PROVE  ManifInv'
  <1> DEFINE tries == IF jobs[j].stage = "sending" THEN jobs[j].tries + 1 ELSE jobs[j].tries
             x == [stage |-> "sending", lotes |-> jobs[j].lotes, answer |-> NoAnswer,
                   tries |-> tries]
  <1>1. jobs[j] # NoJob /\ jobs[j] \in Job /\ jobs[j].lotes # <<>>
    BY DEF SendAgain, ManifInv, JobType
  <1>2. jobs[j].lotes \in Seq(SUBSET Evento) /\ jobs[j].tries \in 0 .. Retries + 1
    BY <1>1, JobFields
  <1>3. tries \in 0 .. Retries + 1 /\ tries <= Retries
    BY <1>2, ManifestacaoAssumption DEF SendAgain
  <1>4. Becomes(j, x) /\ UNCHANGED <<registered, known, ours, blind, plans, forgets>>
    BY DEF SendAgain, Becomes, JobType, ManifInv
  <1> HIDE DEF tries
  <1>5. x = [stage |-> "sending", lotes |-> jobs[j].lotes, tries |-> tries, answer |-> NoAnswer]
    OBVIOUS
  <1>6. x \in Job
    BY <1>2, <1>3, <1>5, JobMade, NoAnswerType
  <1>7. x.stage = "sending" /\ x.lotes = jobs[j].lotes /\ x.tries = tries
    OBVIOUS
  <1> HIDE DEF x
  <1>8. Advanced(j, x)
    BY <1>1, <1>3, <1>4, <1>6, <1>7 DEF Advanced, ManifInv, ManifestacaoIsRegistered
  <1> QED BY <1>8, AdvanceKeeps

LEMMA RecordKeeps ==
    ASSUME ManifInv, NEW j \in Jobs, RecordManifestacoes(j)
    PROVE  ManifInv'
  <1> DEFINE y == [stage |-> "sending", lotes |-> Tail(jobs[j].lotes), tries |-> 0,
                   answer |-> NoAnswer]
             x == IF Len(jobs[j].lotes) = 1 THEN NoJob ELSE y
  <1>1. jobs[j].stage = "answered" /\ jobs[j] # NoJob
    BY DEF RecordManifestacoes, NoJob
  <1>2. /\ jobs[j].lotes \in Seq(SUBSET Evento)
        /\ Len(jobs[j].lotes) \in Nat \ {0}
    BY <1>1, FirstLote DEF ManifInv
  <1>3. known' \subseteq registered
    BY <1>1 DEF RecordManifestacoes, ManifInv, AnsweredTruly, ManifestacaoIsRegistered
  <1>4. Becomes(j, x) /\ UNCHANGED <<registered, ours, blind, plans, forgets>>
    BY DEF RecordManifestacoes, Becomes, JobType, ManifInv
  <1>5. CASE Len(jobs[j].lotes) = 1
    <2>1. Advanced(j, NoJob)
      BY <1>3, <1>4, <1>5 DEF Advanced
    <2> QED BY <2>1, AdvanceKeeps
  <1>6. CASE Len(jobs[j].lotes) # 1
    <2>1. /\ Len(jobs[j].lotes) > 1 /\ Tail(jobs[j].lotes) \in Seq(SUBSET Evento)
          /\ Tail(jobs[j].lotes) # <<>>
      BY <1>2, <1>6, TailOfMany, Zenon
    <2>2. y \in Job
      <3>1. 0 \in 0 .. Retries + 1
        BY ManifestacaoAssumption
      <3>2. "sending" \in {"password", "sending", "answered"}
        OBVIOUS
      <3> QED BY <2>1, <3>1, <3>2, JobMade, NoAnswerType, Zenon
    <2>3. Becomes(j, y)
      BY <1>4, <1>6
    <2>4. y.stage = "sending" /\ y.lotes = Tail(jobs[j].lotes) /\ y.tries = 0
      OBVIOUS
    <2> HIDE DEF y, x
    <2>5. Advanced(j, y)
      BY <1>1, <1>3, <1>4, <2>1, <2>2, <2>3, <2>4, ManifestacaoAssumption DEF Advanced
    <2> QED BY <2>5, AdvanceKeeps
  <1> QED BY <1>5, <1>6

-----------------------------------------------------------------------------
(* SEFAZ takes a lote.                                                     *)

Taken(lote, refused) == {e \in lote : CStat(e, refused) = 135}

LEMMA AnswerFacts ==
    ASSUME NEW lote \in SUBSET Evento, NEW refused
    PROVE  /\ AnswerOf(lote, refused) \in [Evento -> CStats]
           /\ \A e \in lote : Stores(AnswerOf(lote, refused)[e]) =>
                 e \in registered \cup Taken(lote, refused)
           /\ Taken(lote, refused) \subseteq lote
    BY DEF AnswerOf, CStat, CStats, Stores, IsRegistered, IsAlreadyDone, Taken

LEMMA TransmitKeeps ==
    ASSUME ManifInv, NEW j \in Jobs, Transmit(j)
    PROVE  ManifInv'
  <1> DEFINE lote == jobs[j].lotes[1]
  <1>1. jobs[j].stage = "sending" /\ jobs[j] # NoJob
    BY DEF Transmit, NoJob
  <1>2. /\ jobs[j] \in Job
        /\ jobs[j].lotes \in Seq(SUBSET Evento)
        /\ Len(jobs[j].lotes) \in Nat \ {0}
        /\ lote \in SUBSET Evento
    BY <1>1, FirstLote DEF ManifInv
  <1>3. jobs[j].tries \in 0 .. Retries + 1 /\ jobs[j].tries <= Retries
    BY <1>1, <1>2, JobFields DEF ManifInv, TriesLeft
  <1>4. PICK refused \in SUBSET lote :
            /\ registered' = registered \cup Taken(lote, refused)
            /\ ours' = ours \cup Taken(lote, refused)
            /\ Becomes(j, [stage |-> "answered", lotes |-> jobs[j].lotes,
                           tries |-> jobs[j].tries + 1, answer |-> AnswerOf(lote, refused)])
    BY DEF Transmit, Taken, Becomes, JobType, ManifInv
  <1>5. UNCHANGED <<known, blind, plans, forgets>>
    BY DEF Transmit
  <1> DEFINE answer == AnswerOf(lote, refused)
             x == [stage |-> "answered", lotes |-> jobs[j].lotes,
                   tries |-> jobs[j].tries + 1, answer |-> answer]
             new == Taken(lote, refused)
  <1>6. /\ answer \in [Evento -> CStats]
        /\ \A e \in lote : Stores(answer[e]) => e \in registered \cup new
        /\ new \subseteq lote
    BY <1>2, AnswerFacts, Zenon
  <1>7. jobs[j].tries + 1 \in 0 .. Retries + 1
    BY <1>3, ManifestacaoAssumption
  <1> HIDE DEF answer, new
  <1>8. x \in Job
    BY <1>2, <1>6, <1>7, JobMade
  <1>9. x.stage = "answered" /\ x.lotes = jobs[j].lotes /\ x.answer = answer /\ x # NoJob
    BY <1>8, JobFields
  <1>10. Becomes(j, x)
    BY <1>4 DEF answer
  <1> HIDE DEF x
  <1>11. /\ JobType' /\ jobs'[j] = x
         /\ \A k \in Jobs : k # j => jobs'[k] = jobs[k]
    <2>1. x.lotes # <<>>
      BY <1>1, <1>9 DEF ManifInv, JobType
    <2> QED BY <1>8, <1>10, <2>1, JobUpdated DEF ManifInv
  <1>12. registered' = registered \cup new /\ ours' = ours \cup new
    BY <1>4 DEF new
  <1>13. TablesType' /\ ManifestacaoIsRegistered'
    BY <1>2, <1>5, <1>6, <1>12 DEF ManifInv, TablesType, ManifestacaoIsRegistered
  <1>14. TriesLeft'
    BY <1>9, <1>11 DEF ManifInv, TriesLeft
  <1>15. AnsweredTruly'
    BY <1>6, <1>9, <1>11, <1>12 DEF ManifInv, AnsweredTruly
  <1>16. \A k \in Jobs : /\ jobs'[k].lotes = jobs[k].lotes
                         /\ jobs'[k] # NoJob <=> jobs[k] # NoJob
    BY <1>1, <1>9, <1>11
  <1>17. OneKind' /\ ChosenOnce'
    BY <1>5, <1>16 DEF ManifInv, Singular, OneKind, ChosenOnce, Chosen, OnlyCiencia, Single
  <1>18. ASSUME NEW c \in NFe, NEW t \in ConclusiveTypes, [chave |-> c, tipo |-> t] \in new
         PROVE  Chosen(j, c, t)
    <2>1. [chave |-> c, tipo |-> t] \in lote
      BY <1>6, <1>18
    <2>2. ~OnlyCiencia(jobs[j].lotes)
      BY <1>2, <2>1, ManifestacaoAssumption DEF OnlyCiencia
    <2>3. PICK d \in NFe, u \in ConclusiveTypes : jobs[j].lotes = Single(d, u)
      BY <1>1, <2>2 DEF ManifInv, Singular, OneKind
    <2>4. [chave |-> c, tipo |-> t] = [chave |-> d, tipo |-> u]
      BY <2>1, <2>3, SingleLote
    <2>5. c = d /\ t = u
      BY <2>4
    <2> QED BY <1>1, <2>3, <2>5 DEF Chosen
  <1>19. ASSUME NEW k \in Jobs, NEW c \in NFe, NEW t \in ConclusiveTypes, Chosen(k, c, t)'
         PROVE  Chosen(k, c, t)
    BY <1>16, <1>19 DEF Chosen, Single
  <1>20. ChosenAsOurs'
    <2>1. ASSUME NEW c \in NFe \ blind, NEW k \in Jobs, NEW t \in ConclusiveTypes,
                 NEW u \in ConclusiveTypes, Chosen(k, c, t), [chave |-> c, tipo |-> u] \in ours'
          PROVE  t = u
      <3>1. CASE [chave |-> c, tipo |-> u] \in ours
        BY <2>1, <3>1 DEF ManifInv, Singular, ChosenAsOurs
      <3>2. CASE [chave |-> c, tipo |-> u] \in new
        <4>1. Chosen(j, c, u) /\ k = j
          BY <1>18, <2>1, <3>2 DEF ManifInv, Singular, ChosenOnce
        <4> QED BY <2>1, <4>1, SingleLote DEF Chosen
      <3> QED BY <1>12, <2>1, <3>1, <3>2
    <2> QED BY <1>5, <1>19, <2>1 DEF ChosenAsOurs
  <1>21. OneConclusive'
    <2>1. ASSUME NEW c \in NFe \ blind, NEW t \in ConclusiveTypes, NEW u \in ConclusiveTypes,
                 [chave |-> c, tipo |-> t] \in ours', [chave |-> c, tipo |-> u] \in new
          PROVE  t = u
      <3>1. Chosen(j, c, u)
        BY <1>18, <2>1
      <3>2. CASE [chave |-> c, tipo |-> t] \in ours
        BY <2>1, <3>1, <3>2 DEF ManifInv, Singular, ChosenAsOurs
      <3>3. CASE [chave |-> c, tipo |-> t] \in new
        <4>1. Chosen(j, c, t)
          BY <1>18, <2>1, <3>3
        <4>2. Single(c, t) = Single(c, u)
          BY <3>1, <4>1 DEF Chosen
        <4> QED BY <4>2, SingleLote, Zenon
      <3> QED BY <1>12, <2>1, <3>2, <3>3
    <2> QED BY <1>5, <1>12, <2>1 DEF ManifInv, Singular, OneConclusive
  <1> QED BY <1>11, <1>13, <1>14, <1>15, <1>17, <1>20, <1>21 DEF ManifInv, Singular

-----------------------------------------------------------------------------

LEMMA WorldSteps ==
    ASSUME ManifInv, Distribute \/ (\E e \in Elsewhere : RegisterElsewhere(e)) \/ Forget
    PROVE  ManifInv'
  <1>1. CASE Distribute
    <2>1. WorldStep
      BY <1>1 DEF Distribute, WorldStep, ManifInv, TablesType, ManifestacaoIsRegistered
    <2> QED BY <2>1, WorldKeeps
  <1>2. ASSUME NEW e \in Elsewhere, RegisterElsewhere(e)
        PROVE  ManifInv'
    <2>1. WorldStep
      BY <1>2, ManifestacaoAssumption
         DEF RegisterElsewhere, WorldStep, ManifInv, TablesType, ManifestacaoIsRegistered
    <2> QED BY <2>1, WorldKeeps
  <1>3. CASE Forget
    <2>1. WorldStep
      BY <1>3, ManifestacaoAssumption DEF Forget, WorldStep, ManifInv, TablesType
    <2> QED BY <2>1, WorldKeeps
  <1> QED BY <1>1, <1>2, <1>3

LEMMA ManifStepKeeps ==
    ASSUME ManifInv, [ManifNext]_manifVars
    PROVE  ManifInv'
  <1>1. CASE UNCHANGED manifVars
    BY <1>1 DEF manifVars, ManifInv, JobType, TablesType, TriesLeft, AnsweredTruly,
                ManifestacaoIsRegistered, Singular, OneKind, ChosenOnce, ChosenAsOurs,
                OneConclusive, Chosen
  <1>2. ASSUME NEW j \in Jobs,
               \/ PlanCiencia(j)
               \/ \E c \in NFe, t \in ConclusiveTypes : PlanManifestacao(j, c, t)
               \/ Unlock(j) \/ Transmit(j) \/ SendAgain(j)
               \/ RecordManifestacoes(j) \/ Abandon(j)
        PROVE  ManifInv'
    BY <1>2, PlanCienciaKeeps, ManifestacaoKeeps, UnlockKeeps, TransmitKeeps, SendAgainKeeps,
       RecordKeeps, AbandonLoteKeeps
  <1> QED BY <1>1, <1>2, WorldSteps DEF ManifNext

LEMMA ManifInitHolds == ManifInit => ManifInv
  <1> SUFFICES ASSUME ManifInit PROVE ManifInv
    OBVIOUS
  <1>1. JobType /\ TriesLeft /\ AnsweredTruly
    BY DEF ManifInit, JobType, TriesLeft, AnsweredTruly
  <1>2. TablesType /\ ManifestacaoIsRegistered
    BY ManifestacaoAssumption DEF ManifInit, TablesType, ManifestacaoIsRegistered
  <1>3. Singular
    BY DEF ManifInit, Singular, OneKind, ChosenOnce, ChosenAsOurs, OneConclusive, Chosen
  <1> QED BY <1>1, <1>2, <1>3 DEF ManifInv

\* Every table, job and answer keeps its type, for any number of jobs, notes
\* and events in a lote.
THEOREM ManifTypes == ManifSpec => []ManifTypeOK
  <1> QED BY TypeFromManifInv, ManifInitHolds, ManifStepKeeps, PTL DEF ManifSpec

\* What the database says was manifested is registered at SEFAZ, whatever
\* SEFAZ refuses, loses or answers late and however many jobs run.
THEOREM KnownIsRegistered == ManifSpec => []ManifestacaoIsRegistered
  <1>1. ManifInv => ManifestacaoIsRegistered
    BY DEF ManifInv
  <1> QED BY <1>1, ManifInitHolds, ManifStepKeeps, PTL DEF ManifSpec

\* nanci registers two conclusive manifestacoes for a chave only if one of them
\* was planned without knowing of another, in any number of jobs, lotes,
\* repeated sends and resets.
THEOREM ConclusiveOnce == ManifSpec => []OneConclusive
  <1>1. ManifInv => OneConclusive
    BY DEF ManifInv, Singular
  <1> QED BY <1>1, ManifInitHolds, ManifStepKeeps, PTL DEF ManifSpec

-----------------------------------------------------------------------------
(* Participation: the roles.                                               *)

LEMMA LeastIndex ==
    ASSUME NEW S \in SUBSET (1 .. 7), S # {}
    PROVE  \E i \in S : \A j \in 1 .. i - 1 : j \notin S
  <1>1. S \subseteq {1, 2, 3, 4, 5, 6, 7}
    OBVIOUS
  <1>2. CASE 1 \in S
    BY <1>2
  <1>3. CASE 2 \in S /\ 1 \notin S
    BY <1>3
  <1>4. CASE 3 \in S /\ 2 \notin S /\ 1 \notin S
    BY <1>4
  <1>5. CASE 4 \in S /\ 3 \notin S /\ 2 \notin S /\ 1 \notin S
    BY <1>5
  <1>6. CASE 5 \in S /\ 4 \notin S /\ 3 \notin S /\ 2 \notin S /\ 1 \notin S
    BY <1>6
  <1>7. CASE 6 \in S /\ 5 \notin S /\ 4 \notin S /\ 3 \notin S /\ 2 \notin S /\ 1 \notin S
    BY <1>7
  <1>8. CASE 7 \in S /\ 6 \notin S /\ 5 \notin S /\ 4 \notin S /\ 3 \notin S /\ 2 \notin S /\ 1 \notin S
    BY <1>8
  <1> QED BY <1>1, <1>2, <1>3, <1>4, <1>5, <1>6, <1>7, <1>8

Priorities == {NFePriority, CTePriority, NFSePriority}

LEMMA PriorityFits ==
    ASSUME NEW priority \in Priorities
    PROVE  /\ DOMAIN priority \subseteq 1 .. 7
           /\ \A i \in DOMAIN priority : priority[i] \in Fields
  <1>1. CASE priority = NFePriority
    BY <1>1 DEF NFePriority, Fields
  <1>2. CASE priority = CTePriority
    BY <1>2 DEF CTePriority, Fields
  <1>3. CASE priority = NFSePriority
    BY <1>3 DEF NFSePriority, Fields
  <1> QED BY <1>1, <1>2, <1>3 DEF Priorities

\* A party has a first role.
LEMMA FirstRole ==
    ASSUME NEW c, NEW priority \in Priorities, NEW named,
           IsParty(c, priority, named)
    PROVE  /\ \E i \in DOMAIN priority :
                 RoleOf(c, priority, named) = priority[i] /\ FirstMatch(c, priority, named, i)
           /\ RoleOf(c, priority, named) \in Fields
  <1> DEFINE S == {i \in DOMAIN priority : c \in named[priority[i]]}
  <1>1. S \in SUBSET (1 .. 7) /\ S # {}
    BY PriorityFits DEF IsParty
  <1>2. PICK i \in S : \A j \in 1 .. i - 1 : j \notin S
    <2> HIDE DEF S
    <2> QED BY <1>1, LeastIndex
  <1>3. \A j \in 1 .. i - 1 : j \in DOMAIN priority
    BY <1>2 DEF Priorities, NFePriority, CTePriority, NFSePriority
  <1>4. FirstMatch(c, priority, named, i)
    BY <1>2, <1>3 DEF FirstMatch
  <1>5. PICK k \in DOMAIN priority :
           /\ k = CHOOSE n \in DOMAIN priority : FirstMatch(c, priority, named, n)
           /\ FirstMatch(c, priority, named, k)
    BY <1>2, <1>4
  <1>6. RoleOf(c, priority, named) = priority[k]
    BY <1>5 DEF RoleOf
  <1> QED BY <1>5, <1>6, PriorityFits

Reasons == {"exact", "resumo_destinatario", "same_root_only", "unknown", "absent"}
RoleRows == [role : Fields \cup {"none"}, reason : Reasons, papeis : SUBSET Fields]

\* The role is the first of those the whole document gives.
RoleIsTrue(c, role) ==
    IF role = "none" THEN ~IsParty(c, Priority, TrueParties)
    ELSE \E i \in DOMAIN Priority :
            role = Priority[i] /\ FirstMatch(c, Priority, TrueParties, i)

LEMMA NoneIsNoField == "none" \notin Fields /\ "absent" \notin Fields
    BY DEF Fields

LEMMA UnmatchedRow ==
    ASSUME NEW c, NEW priority, NEW named
    PROVE  /\ Unmatched(c, priority, named) \in RoleRows
           /\ Unmatched(c, priority, named).role = "none"
    BY DEF Unmatched, RoleRow, RoleRows, Reasons

\* The row of a match, and of no match.
LEMMA ExactRow ==
    ASSUME NEW role \in Fields, NEW papeis \in SUBSET Fields
    PROVE  /\ RoleRow(role, "exact", papeis) \in RoleRows
           /\ RoleRow(role, "exact", papeis).role = role
    BY DEF RoleRow, RoleRows, Reasons

LEMMA WholeDocument ==
    ASSUME nota \in Nota, NEW c
    PROVE  /\ ClassifyParticipation(c, "completa") \in RoleRows
           /\ RoleIsTrue(c, ClassifyParticipation(c, "completa").role)
  <1>1. CASE nota.kind = "nfe"
    <2>1. Priority = NFePriority /\ TrueParties = nota.parties
      BY <1>1 DEF Priority, TrueParties
    <2>2. NamedByNFe("completa") = nota.parties
      BY DEF NamedByNFe, NamedByCompleta
    <2>3. ClassifyParticipation(c, "completa") =
            IF IsParty(c, NFePriority, nota.parties)
            THEN RoleRow(RoleOf(c, NFePriority, nota.parties), "exact", {})
            ELSE Unmatched(c, NFePriority, nota.parties)
      BY <1>1, <2>2 DEF ClassifyParticipation, ClassifyNFe
    <2>4. CASE IsParty(c, NFePriority, nota.parties)
      BY <2>1, <2>3, <2>4, FirstRole, ExactRow, NoneIsNoField DEF RoleIsTrue, Priorities
    <2>5. CASE ~IsParty(c, NFePriority, nota.parties)
      BY <2>1, <2>3, <2>5, UnmatchedRow DEF RoleIsTrue
    <2> QED BY <2>4, <2>5
  <1>2. CASE nota.kind = "cte"
    <2>1. Priority = CTePriority /\ TrueParties = NamedByCTe
      BY <1>2 DEF Priority, TrueParties
    <2>2. ClassifyParticipation(c, "completa") = ClassifyCTe(c)
      BY <1>2 DEF ClassifyParticipation
    <2>3. CASE IsParty(c, CTePriority, NamedByCTe)
      <3>1. PICK papeis \in SUBSET Fields :
               ClassifyCTe(c) = RoleRow(RoleOf(c, CTePriority, NamedByCTe), "exact", papeis)
        BY <2>3 DEF ClassifyCTe
      <3> QED BY <2>1, <2>2, <2>3, <3>1, FirstRole, ExactRow, NoneIsNoField
              DEF RoleIsTrue, Priorities
    <2>4. CASE ~IsParty(c, CTePriority, NamedByCTe)
      BY <2>1, <2>2, <2>4, UnmatchedRow DEF RoleIsTrue, ClassifyCTe
    <2> QED BY <2>3, <2>4
  <1>3. CASE nota.kind = "nfse"
    <2>1. Priority = NFSePriority /\ TrueParties = nota.parties
      BY <1>3 DEF Priority, TrueParties
    <2>2. ClassifyParticipation(c, "completa") =
            IF IsParty(c, NFSePriority, nota.parties)
            THEN RoleRow(RoleOf(c, NFSePriority, nota.parties), "exact", {})
            ELSE Unmatched(c, NFSePriority, nota.parties)
      BY <1>3 DEF ClassifyParticipation, ClassifyNFSe, NamedByCompleta
    <2>3. CASE IsParty(c, NFSePriority, nota.parties)
      BY <2>1, <2>2, <2>3, FirstRole, ExactRow, NoneIsNoField DEF RoleIsTrue, Priorities
    <2>4. CASE ~IsParty(c, NFSePriority, nota.parties)
      BY <2>1, <2>2, <2>4, UnmatchedRow DEF RoleIsTrue
    <2> QED BY <2>3, <2>4
  <1> QED BY <1>1, <1>2, <1>3 DEF Nota, NotaKinds

\* A resumo makes every company but its emitente the destinatario.
LEMMA FromResumo ==
    ASSUME nota \in Nota, NEW c, nota.kind = "nfe"
    PROVE  /\ ClassifyParticipation(c, "resumo") \in RoleRows
           /\ ClassifyParticipation(c, "resumo").role = "destinatario"
                 <=> c \notin nota.parties["emitente"]
  <1>1. NamedByNFe("resumo") = NamedByResumo
    BY DEF NamedByNFe
  <1>2. ClassifyParticipation(c, "resumo") =
            IF IsParty(c, NFePriority, NamedByResumo)
            THEN RoleRow(RoleOf(c, NFePriority, NamedByResumo), "exact", {})
            ELSE RoleRow("destinatario", "resumo_destinatario", {})
    BY <1>1 DEF ClassifyParticipation, ClassifyNFe
  <1>3. /\ NamedByResumo["emitente"] = nota.parties["emitente"]
        /\ \A f \in Fields : f # "emitente" => NamedByResumo[f] = {}
    BY DEF NamedByResumo, Fields
  <1>4. CASE IsParty(c, NFePriority, NamedByResumo)
    <2>1. PICK i \in DOMAIN NFePriority :
             /\ RoleOf(c, NFePriority, NamedByResumo) = NFePriority[i]
             /\ FirstMatch(c, NFePriority, NamedByResumo, i)
      BY <1>4, FirstRole DEF Priorities
    <2>2. NFePriority[i] \in Fields /\ c \in NamedByResumo[NFePriority[i]]
      BY <2>1, PriorityFits DEF FirstMatch, Priorities
    <2>3. NFePriority[i] = "emitente" /\ c \in nota.parties["emitente"]
      BY <1>3, <2>2
    <2> QED BY <1>2, <1>4, <2>1, <2>3, ExactRow DEF Fields
  <1>5. CASE ~IsParty(c, NFePriority, NamedByResumo)
    <2>1. c \notin nota.parties["emitente"]
      BY <1>3, <1>5 DEF IsParty, NFePriority
    <2>2. ClassifyParticipation(c, "resumo") = RoleRow("destinatario", "resumo_destinatario", {})
      BY <1>2, <1>5
    <2> QED BY <2>1, <2>2 DEF RoleRow, RoleRows, Reasons, Fields
  <1> QED BY <1>4, <1>5

-----------------------------------------------------------------------------
(* Participation: the rows.                                                *)

HeldRows == [completeness : {"none", "resumo", "completa"},
             situacao : {"autorizada", "cancelada"}]
RelationRow == [role : Fields \cup {"none", "absent"}, reason : Reasons,
                papeis : SUBSET Fields,
                manifestacao : {"nenhuma", "ciencia", "conclusiva"}, viewed : BOOLEAN]

\* A company that reads the document has its row, its manifestação and the
\* role of what it stored.
ViewerSound(c) ==
    /\ Sees(c) <=> seenAs[c] # "none"
    /\ Sees(c) => held.completeness # "none"
    /\ Sees(c) => relation[c].manifestacao = ManifestacaoOf(noted, c)
    /\ seenAs[c] = "completa" => RoleIsTrue(c, relation[c].role)
    /\ seenAs[c] = "resumo" =>
          nota.kind = "nfe" /\ (relation[c].role = "destinatario" <=> c \notin nota.parties["emitente"])

\* A cancelamento that came before or after the document shows in its row.
CancelShown == held.completeness # "none" /\ Cancelled(noted) => held.situacao = "cancelada"

PartInv == PartTypeOK /\ CancelShown /\ \A c \in Viewers : ViewerSound(c)

LEMMA PartTypeParts ==
    PartTypeOK <=>
        /\ nota \in Notas /\ held \in HeldRows /\ noted \subseteq Noted
        /\ relation \in [Viewers -> RelationRow]
        /\ seenAs \in [Viewers -> {"none", "resumo", "completa"}]
        /\ clock \in Nat /\ wipes \in 0 .. MaxWipes
    BY DEF PartTypeOK, HeldRows, RelationRow, Reasons

LEMMA ManifestacaoFits ==
    ASSUME NEW events, NEW c
    PROVE  ManifestacaoOf(events, c) \in {"nenhuma", "ciencia", "conclusiva"}
    BY DEF ManifestacaoOf

\* refreshChave of a document that is there.
LEMMA Refreshed ==
    ASSUME NEW h \in HeldRows, h.completeness # "none", NEW events,
           NEW rows \in [Viewers -> RelationRow], RefreshNota(h, events, rows)
    PROVE  /\ held' \in HeldRows /\ held'.completeness = h.completeness
           /\ Cancelled(events) => held'.situacao = "cancelada"
           /\ relation' \in [Viewers -> RelationRow]
           /\ \A c \in Viewers :
                 /\ relation'[c].role = rows[c].role
                 /\ rows[c].role # "absent" =>
                       relation'[c].manifestacao = ManifestacaoOf(events, c)
  <1>1. held' \in HeldRows /\ held'.completeness = h.completeness
    BY DEF RefreshNota, HeldRows
  <1>2. Cancelled(events) => held'.situacao = "cancelada"
    BY DEF RefreshNota
  <1>3. ASSUME NEW c \in Viewers
        PROVE  LET r == rows[c] IN
               IF r.role = "absent" THEN relation'[c] = r
               ELSE relation'[c] = [role |-> r.role, reason |-> r.reason, papeis |-> r.papeis,
                                    manifestacao |-> ManifestacaoOf(events, c),
                                    viewed |-> r.viewed]
    BY DEF RefreshNota
  <1>4. ASSUME NEW c \in Viewers
        PROVE  /\ relation'[c] \in RelationRow
               /\ relation'[c].role = rows[c].role
               /\ rows[c].role # "absent" =>
                     relation'[c].manifestacao = ManifestacaoOf(events, c)
    <2>1. PICK r \in RelationRow : r = rows[c]
      OBVIOUS
    <2>2. PICK m \in {"nenhuma", "ciencia", "conclusiva"} : m = ManifestacaoOf(events, c)
      BY ManifestacaoFits
    <2>3. CASE r.role = "absent"
      BY <1>3, <2>1, <2>3
    <2>4. CASE r.role # "absent"
      <3>1. relation'[c] = [role |-> r.role, reason |-> r.reason, papeis |-> r.papeis,
                            manifestacao |-> m, viewed |-> r.viewed]
        BY <1>3, <2>1, <2>2, <2>4
      <3>2. relation'[c] \in RelationRow /\ relation'[c].role = r.role
            /\ relation'[c].manifestacao = m
        BY <3>1 DEF RelationRow
      <3> QED BY <2>1, <2>2, <3>2
    <2> QED BY <2>3, <2>4
  <1>5. relation' = [c \in Viewers |-> relation'[c]]
    BY DEF RefreshNota
  <1> QED BY <1>1, <1>2, <1>4, <1>5

\* The roles of a document do not change.
LEMMA RoleStays ==
    ASSUME nota' = nota, nota \in Nota, NEW c
    PROVE  RoleIsTrue(c, relation[c].role)' <=> RoleIsTrue(c, relation'[c].role)
  <1>1. NamedByCTe' = NamedByCTe
    BY DEF NamedByCTe, ResolveTomador
  <1>2. TrueParties' = TrueParties
    BY <1>1 DEF TrueParties
  <1>3. Priority' = Priority
    <2>1. CASE nota.kind = "nfe"
      BY <2>1 DEF Priority
    <2>2. CASE nota.kind = "cte"
      BY <2>2 DEF Priority
    <2>3. CASE nota.kind = "nfse"
      BY <2>3 DEF Priority
    <2> QED BY <2>1, <2>2, <2>3 DEF Nota, NotaKinds
  <1> QED BY <1>2, <1>3 DEF RoleIsTrue, IsParty, FirstMatch

\* The document that the company stored, as the table says it after the merge.
LEMMA ApplyKeeps ==
    ASSUME PartInv, NEW c \in Viewers, NEW completeness \in {"resumo", "completa"},
           NEW situacao \in {"autorizada", "cancelada"},
           completeness = "resumo" => nota.kind = "nfe",
           ApplyDocument(c, completeness, situacao)
    PROVE  PartInv'
  <1> DEFINE whole == Merged(completeness, situacao).completeness
             row == ClassifyParticipation(c, ClassifiedBy(completeness))
  <1>1. /\ nota \in Nota /\ held \in HeldRows /\ relation \in [Viewers -> RelationRow]
        /\ seenAs \in [Viewers -> {"none", "resumo", "completa"}]
    BY PartTypeParts, ParticipationAssumption DEF PartInv
  <1>2. /\ Merged(completeness, situacao) \in HeldRows
        /\ whole \in {"resumo", "completa"}
        /\ whole = "resumo" => nota.kind = "nfe"
        /\ row = ClassifyParticipation(c, whole)
    BY <1>1 DEF Merged, Worse, HeldRows, ClassifiedBy
  <1>3. /\ row \in RoleRows
        /\ whole = "completa" => RoleIsTrue(c, row.role)
        /\ whole = "resumo" => (row.role = "destinatario" <=> c \notin nota.parties["emitente"])
    BY <1>1, <1>2, WholeDocument, FromResumo
  <1> DEFINE rows == UpsertRelation(c, row)
  <1>4. /\ rows \in [Viewers -> RelationRow]
        /\ rows[c].role = row.role /\ row.role # "absent"
        /\ \A d \in Viewers \ {c} : rows[d] = relation[d]
    <2>1. PICK r \in RoleRows : r = row
      BY <1>3
    <2>2. PICK old \in RelationRow : old = relation[c]
      BY <1>1
    <2>3. rows = [relation EXCEPT ![c] = [role |-> r.role, reason |-> r.reason,
                     papeis |-> r.papeis, manifestacao |-> old.manifestacao,
                     viewed |-> old.viewed]]
      BY <2>1, <2>2 DEF UpsertRelation
    <2>4. PICK new :
             new = [role |-> r.role, reason |-> r.reason, papeis |-> r.papeis,
                    manifestacao |-> old.manifestacao, viewed |-> old.viewed]
      OBVIOUS
    <2>6. new \in RelationRow /\ new.role = r.role
      BY <2>4 DEF RoleRows, RelationRow
    <2>5. r.role # "absent"
      BY NoneIsNoField DEF RoleRows
    <2> HIDE DEF rows, row
    <2> QED BY <1>1, <2>1, <2>3, <2>4, <2>5, <2>6
  <1>5. /\ RefreshNota(Merged(completeness, situacao), noted, rows)
        /\ seenAs' = [seenAs EXCEPT ![c] = whole]
        /\ UNCHANGED <<nota, noted, clock, wipes>>
    BY DEF ApplyDocument
  <1> HIDE DEF rows, row, whole
  <1>6. /\ held' \in HeldRows /\ held'.completeness # "none"
        /\ Cancelled(noted) => held'.situacao = "cancelada"
        /\ relation' \in [Viewers -> RelationRow]
        /\ \A d \in Viewers :
              /\ relation'[d].role = rows[d].role
              /\ rows[d].role # "absent" => relation'[d].manifestacao = ManifestacaoOf(noted, d)
    <2>1. Merged(completeness, situacao).completeness # "none"
      BY <1>2 DEF whole
    <2> QED BY <1>2, <1>4, <1>5, <2>1, Refreshed
  <1>7. PartTypeOK'
    <2>1. seenAs' \in [Viewers -> {"none", "resumo", "completa"}]
      BY <1>1, <1>2, <1>5
    <2> QED BY <1>5, <1>6, <2>1, PartTypeParts DEF PartInv, PartTypeOK, HeldRows, RelationRow, Reasons
  <1>8. CancelShown'
    BY <1>5, <1>6 DEF CancelShown, Cancelled
  <1>9. ASSUME NEW d \in Viewers PROVE ViewerSound(d)'
    <2>1. CASE d = c
      <3>1. seenAs'[d] = whole /\ relation'[d].role = row.role
        BY <1>1, <1>4, <1>5, <1>6, <2>1
      <3>2. relation'[d].manifestacao = ManifestacaoOf(noted, d)
        BY <1>4, <1>6, <2>1
      <3>3. whole = "completa" => RoleIsTrue(d, relation'[d].role)
        BY <1>3, <2>1, <3>1
      <3>4. whole = "completa" => RoleIsTrue(d, relation[d].role)'
        BY <1>1, <1>5, <3>3, RoleStays
      <3> QED BY <1>2, <1>3, <1>4, <1>5, <1>6, <2>1, <3>1, <3>2, <3>4 DEF ViewerSound, Sees
    <2>2. CASE d # c
      <3>1. seenAs'[d] = seenAs[d] /\ relation'[d].role = relation[d].role
        BY <1>1, <1>4, <1>5, <1>6, <2>2
      <3>2. ViewerSound(d)
        BY DEF PartInv
      <3>3. Sees(d) => relation'[d].manifestacao = ManifestacaoOf(noted, d)
        BY <1>4, <1>6, <2>2 DEF Sees
      <3>4. RoleIsTrue(d, relation[d].role)' <=> RoleIsTrue(d, relation[d].role)
        BY <1>1, <1>5, <3>1, RoleStays
      <3> QED BY <1>5, <1>6, <3>1, <3>2, <3>3, <3>4 DEF ViewerSound, Sees
    <2> QED BY <2>1, <2>2
  <1> QED BY <1>7, <1>8, <1>9 DEF PartInv

\* An event, before the document or after it.
LEMMA StoreNotedKeeps ==
    ASSUME PartInv, NEW c \in Viewers, NEW e \in Noted, StoreNoted(c, e)
    PROVE  PartInv'
  <1>1. /\ nota \in Nota /\ held \in HeldRows /\ relation \in [Viewers -> RelationRow]
        /\ \A d \in Viewers : ViewerSound(d)
    BY PartTypeParts, ParticipationAssumption DEF PartInv
  <1>2. PICK events : events = noted \cup {e}
    OBVIOUS
  <1>3. /\ noted' = events /\ events \subseteq Noted
        /\ RefreshNota(held, events, relation)
        /\ UNCHANGED <<nota, seenAs, clock, wipes>>
    BY <1>2 DEF StoreNoted, PartInv, PartTypeOK
  <1>4. CASE held.completeness = "none"
    <2>1. held' = held /\ relation' = relation
      BY <1>3, <1>4 DEF RefreshNota
    <2>2. PartTypeOK'
      BY <1>3, <2>1 DEF PartInv, PartTypeOK
    <2>3. CancelShown'
      BY <1>4, <2>1 DEF CancelShown
    <2>4. ASSUME NEW d \in Viewers PROVE ViewerSound(d)'
      <3>1. ~Sees(d) /\ seenAs[d] = "none"
        BY <1>1, <1>4 DEF ViewerSound
      <3> QED BY <1>3, <2>1, <3>1 DEF ViewerSound, Sees
    <2> QED BY <2>2, <2>3, <2>4 DEF PartInv
  <1>5. CASE held.completeness # "none"
    <2>1. /\ held' \in HeldRows /\ held'.completeness = held.completeness
          /\ Cancelled(events) => held'.situacao = "cancelada"
          /\ relation' \in [Viewers -> RelationRow]
          /\ \A d \in Viewers :
                /\ relation'[d].role = relation[d].role
                /\ relation[d].role # "absent" =>
                      relation'[d].manifestacao = ManifestacaoOf(events, d)
      BY <1>1, <1>3, <1>5, Refreshed
    <2>2. PartTypeOK'
      BY <1>3, <2>1 DEF PartInv, PartTypeOK, HeldRows, RelationRow, Reasons
    <2>3. CancelShown'
      BY <1>3, <2>1 DEF CancelShown, Cancelled
    <2>4. ASSUME NEW d \in Viewers PROVE ViewerSound(d)'
      <3>1. RoleIsTrue(d, relation[d].role)' <=> RoleIsTrue(d, relation[d].role)
        BY <1>1, <1>3, <2>1, RoleStays
      <3> QED BY <1>1, <1>3, <1>5, <2>1, <3>1 DEF ViewerSound, Sees
    <2> QED BY <2>2, <2>3, <2>4 DEF PartInv
  <1> QED BY <1>4, <1>5

LEMMA ViewNotaKeeps ==
    ASSUME PartInv, NEW c \in Viewers, ViewNota(c)
    PROVE  PartInv'
  <1>1. /\ nota \in Nota /\ relation \in [Viewers -> RelationRow]
        /\ \A d \in Viewers : ViewerSound(d)
    BY PartTypeParts, ParticipationAssumption DEF PartInv
  <1>2. PICK old \in RelationRow : old = relation[c]
    BY <1>1
  <1>3. PICK new : new = [role |-> old.role, reason |-> old.reason, papeis |-> old.papeis,
                          manifestacao |-> old.manifestacao, viewed |-> TRUE]
    OBVIOUS
  <1>4. new \in RelationRow /\ new.role = old.role /\ new.manifestacao = old.manifestacao
    BY <1>3 DEF RelationRow
  <1>5. relation' = [relation EXCEPT ![c] = new] /\ UNCHANGED <<nota, held, noted, seenAs, clock, wipes>>
    BY <1>2, <1>3 DEF ViewNota
  <1>6. /\ relation' \in [Viewers -> RelationRow]
        /\ \A d \in Viewers : /\ relation'[d].role = relation[d].role
                              /\ relation'[d].manifestacao = relation[d].manifestacao
    BY <1>1, <1>2, <1>4, <1>5
  <1>7. PartTypeOK'
    BY <1>5, <1>6 DEF PartInv, PartTypeOK, RelationRow, Reasons
  <1>8. CancelShown'
    BY <1>5 DEF PartInv, CancelShown, Cancelled
  <1>9. ASSUME NEW d \in Viewers PROVE ViewerSound(d)'
    <2>1. RoleIsTrue(d, relation[d].role)' <=> RoleIsTrue(d, relation[d].role)
      BY <1>1, <1>5, <1>6, RoleStays
    <2> QED BY <1>1, <1>5, <1>6, <2>1 DEF ViewerSound, Sees
  <1> QED BY <1>7, <1>8, <1>9 DEF PartInv

\* A reset takes the document with its last reader, and no event of a
\* document that somebody reads.
LEMMA ResetCompanyKeeps ==
    ASSUME PartInv, NEW c \in Viewers, ResetCompany(c)
    PROVE  PartInv'
  <1>1. /\ nota \in Nota /\ held \in HeldRows /\ relation \in [Viewers -> RelationRow]
        /\ seenAs \in [Viewers -> {"none", "resumo", "completa"}]
        /\ \A d \in Viewers : ViewerSound(d)
    BY PartTypeParts, ParticipationAssumption DEF PartInv
  <1>2. PICK last \in BOOLEAN : last = (Sees(c) /\ \A d \in Viewers \ {c} : ~Sees(d))
    OBVIOUS
  <1>3. /\ held' = IF last THEN NoHeld ELSE held
        /\ noted' = IF last THEN {e \in noted : e.author \in Viewers \ {c}}
                    ELSE IF held.completeness = "none" THEN {e \in noted : e.author # c}
                    ELSE noted
        /\ relation' = [relation EXCEPT ![c] = NoRelation]
        /\ seenAs' = [seenAs EXCEPT ![c] = "none"]
        /\ wipes < MaxWipes /\ wipes' = wipes + 1
        /\ UNCHANGED <<nota, clock>>
    BY <1>2 DEF ResetCompany
  <1>4. NoHeld \in HeldRows /\ NoRelation \in RelationRow
    BY DEF NoHeld, NoRelation, HeldRows, RelationRow, Reasons
  <1>5. PartTypeOK'
    <2>1. held' \in HeldRows /\ noted' \subseteq Noted /\ relation' \in [Viewers -> RelationRow]
      BY <1>1, <1>3, <1>4 DEF PartInv, PartTypeOK
    <2>2. seenAs' \in [Viewers -> {"none", "resumo", "completa"}] /\ wipes' \in 0 .. MaxWipes
      BY <1>1, <1>3, ParticipationAssumption DEF PartInv, PartTypeOK
    <2> QED BY <1>3, <2>1, <2>2 DEF PartInv, PartTypeOK, HeldRows, RelationRow, Reasons
  <1>6. CancelShown'
    <2>1. CASE last
      BY <1>3, <2>1 DEF CancelShown, NoHeld
    <2>2. CASE ~last
      BY <1>3, <2>2 DEF PartInv, CancelShown, Cancelled
    <2> QED BY <2>1, <2>2
  <1>7. ASSUME NEW d \in Viewers PROVE ViewerSound(d)'
    <2>1. CASE d = c
      BY <1>1, <1>3, <2>1 DEF ViewerSound, Sees, NoRelation
    <2>2. CASE d # c
      <3>1. relation'[d] = relation[d] /\ seenAs'[d] = seenAs[d]
        BY <1>1, <1>3, <2>2
      <3>2. RoleIsTrue(d, relation[d].role)' <=> RoleIsTrue(d, relation[d].role)
        BY <1>1, <1>3, <3>1, RoleStays
      <3>3. Sees(d) => held' = held /\ noted' = noted
        BY <1>1, <1>2, <1>3, <2>2 DEF ViewerSound
      <3> QED BY <1>1, <1>3, <3>1, <3>2, <3>3 DEF ViewerSound, Sees
    <2> QED BY <2>1, <2>2
  <1> QED BY <1>5, <1>6, <1>7 DEF PartInv

LEMMA ClockKeeps ==
    ASSUME PartInv, UNCHANGED <<nota, held, noted, relation, seenAs, wipes>>, clock' \in Nat
    PROVE  PartInv'
  <1>1. PartTypeOK' /\ CancelShown'
    BY DEF PartInv, PartTypeOK, CancelShown, Cancelled
  <1>2. ASSUME NEW d \in Viewers PROVE ViewerSound(d)'
    <2>1. nota \in Nota /\ ViewerSound(d)
      BY ParticipationAssumption DEF PartInv, PartTypeOK
    <2>2. RoleIsTrue(d, relation[d].role)' <=> RoleIsTrue(d, relation[d].role)
      BY <2>1, RoleStays
    <2> QED BY <2>1, <2>2 DEF ViewerSound, Sees
  <1> QED BY <1>1, <1>2 DEF PartInv

LEMMA PartStepKeeps ==
    ASSUME PartInv, [PartNext]_partVars
    PROVE  PartInv'
  <1>1. ASSUME NEW c \in Viewers, NEW completeness \in {"resumo", "completa"},
               NEW situacao \in {"autorizada", "cancelada"},
               \/ PullDocument(c, completeness, situacao)
               \/ ImportDocument(c, completeness, situacao)
        PROVE  PartInv'
    <2>1. /\ completeness = "resumo" => nota.kind = "nfe"
          /\ ApplyDocument(c, completeness, situacao)
      BY <1>1 DEF PullDocument, ImportDocument, Distributed
    <2> QED BY <2>1, ApplyKeeps
  <1>2. CASE Tick \/ UNCHANGED partVars
    <2>1. clock' \in Nat /\ UNCHANGED <<nota, held, noted, relation, seenAs, wipes>>
      BY <1>2 DEF Tick, partVars, PartInv, PartTypeOK
    <2> QED BY <2>1, ClockKeeps
  <1>3. ASSUME NEW c \in Viewers,
               (\E e \in Noted : StoreNoted(c, e)) \/ ViewNota(c) \/ ResetCompany(c)
        PROVE  PartInv'
    BY <1>3, StoreNotedKeeps, ViewNotaKeeps, ResetCompanyKeeps
  <1> QED BY <1>1, <1>2, <1>3 DEF PartNext

LEMMA PartInitHolds == PartInit => PartInv
  <1> SUFFICES ASSUME PartInit PROVE PartInv
    OBVIOUS
  <1>1. PartTypeOK
    BY ParticipationAssumption
       DEF PartInit, PartTypeOK, NoHeld, NoRelation, Noted
  <1>2. CancelShown /\ \A c \in Viewers : ViewerSound(c)
    BY DEF PartInit, CancelShown, ViewerSound, Sees, NoHeld, NoRelation
  <1> QED BY <1>1, <1>2 DEF PartInv

\* The document, its row, its events and the row of each company keep their
\* type, for any companies, parties and resets.
THEOREM PartTypes == PartSpec => []PartTypeOK
  <1>1. PartInv => PartTypeOK
    BY DEF PartInv
  <1> QED BY <1>1, PartInitHolds, PartStepKeeps, PTL DEF PartSpec

-----------------------------------------------------------------------------
(* Participation: the list of pending manifestações.                       *)

LEMMA Quotient ==
    ASSUME NEW a \in Nat, NEW d \in Nat \ {0}
    PROVE  a \div d \in Nat /\ d * (a \div d) <= a /\ a < d * (a \div d) + d
    OBVIOUS

LEMMA NextMultiple ==
    ASSUME NEW d \in Nat \ {0}, NEW p \in Nat, NEW q \in Nat, p < q
    PROVE  d * p + d <= d * q
  <1>1. PICK k \in Nat : q = p + 1 + k
    BY q - p - 1 \in Nat
  <1>2. d * q = d * p + d + d * k
    BY <1>1
  <1>3. d * k >= 0
    OBVIOUS
  <1> QED BY <1>2, <1>3

\* A later instant is on no earlier day.
LEMMA DaysAreOrdered ==
    ASSUME NEW a \in Nat, NEW b \in Nat, NEW d \in Nat \ {0}, a <= b
    PROVE  (a \div d) <= (b \div d)
  <1>1. PICK p \in Nat : p = a \div d /\ d * p <= a
    BY Quotient
  <1>2. PICK q \in Nat : q = b \div d /\ b < d * q + d
    BY Quotient
  <1>3. CASE q < p
    BY <1>1, <1>2, <1>3, NextMultiple
  <1> QED BY <1>1, <1>2, <1>3

LEMMA DeadlinesAreInstants == CienciaDue \in Nat /\ ConclusiveDue \in Nat
  <1>1. \A m, n \in Nat : m * n \in Nat
    OBVIOUS
  <1> QED BY <1>1, ParticipationAssumption DEF CienciaDue, ConclusiveDue

\* The days left of a deadline that has passed, and of one that has not.
LEMMA DaysLeftOfDeadline ==
    ASSUME NEW due \in Nat, clock \in Nat
    PROVE  /\ clock >= due => DaysLeft(due) <= 0
           /\ DaysLeft(due) < 0 => clock > due
  <1>1. due \div DayLength \in Nat /\ clock \div DayLength \in Nat
    BY Quotient, ParticipationAssumption
  <1>2. CASE clock >= due
    <2>1. due \div DayLength <= clock \div DayLength
      BY <1>2, DaysAreOrdered, ParticipationAssumption
    <2> QED BY <1>1, <1>2, <2>1 DEF DaysLeft
  <1>3. CASE clock <= due
    <2>1. clock \div DayLength <= due \div DayLength
      BY <1>3, DaysAreOrdered, ParticipationAssumption
    <2> QED BY <1>1, <1>3, <2>1 DEF DaysLeft
  <1> QED BY <1>2, <1>3

\* What a company owes, by the role of what it stored.
LEMMA OwedIsListed ==
    ASSUME PartInv, NEW c \in Viewers, nota.kind = "nfe"
    PROVE  /\ Pending(c) /\ seenAs[c] = "completa" => Due(c)
           /\ Due(c) /\ (seenAs[c] = "completa" \/ c \notin nota.parties["emitente"]) => Pending(c)
  <1>1. /\ ViewerSound(c) /\ CancelShown /\ held \in HeldRows
        /\ relation[c] \in RelationRow /\ seenAs[c] \in {"none", "resumo", "completa"}
    BY PartTypeParts DEF PartInv
  <1>2. Priority = NFePriority /\ TrueParties = nota.parties
    BY DEF Priority, TrueParties
  <1>3. seenAs[c] = "completa" =>
            (relation[c].role = "destinatario" <=> c \in nota.parties["destinatario"])
    <2> SUFFICES ASSUME seenAs[c] = "completa"
                 PROVE  relation[c].role = "destinatario" <=> c \in nota.parties["destinatario"]
      OBVIOUS
    <2>1. RoleIsTrue(c, relation[c].role)
      BY <1>1 DEF ViewerSound
    <2>2. CASE relation[c].role = "none"
      BY <1>2, <2>1, <2>2 DEF RoleIsTrue, IsParty, NFePriority
    <2>3. CASE relation[c].role # "none"
      BY <1>2, <2>1, <2>3 DEF RoleIsTrue, FirstMatch, NFePriority
    <2> QED BY <2>2, <2>3
  <1>4. CASE ~Sees(c)
    BY <1>4 DEF Pending, Due, Sees
  <1>5. CASE Sees(c)
    <2>1. relation[c].role = "destinatario" <=>
             IF seenAs[c] = "completa" THEN c \in nota.parties["destinatario"]
             ELSE c \notin nota.parties["emitente"]
      BY <1>1, <1>3, <1>5 DEF ViewerSound
    <2>2. held.situacao = "autorizada" => ~Cancelled(noted)
      BY <1>1, <1>5 DEF ViewerSound, CancelShown
    <2>3. relation[c].manifestacao \in {"nenhuma", "ciencia"}
             <=> [type |-> "conclusiva", author |-> c] \notin noted
      BY <1>1, <1>5 DEF ViewerSound, ManifestacaoOf
    <2> QED BY <1>5, <2>1, <2>2, <2>3 DEF Pending, Due
  <1> QED BY <1>4, <1>5

LEMMA ListIsDue == PartInv => PendingIsDue
  <1> SUFFICES ASSUME PartInv, NEW c \in Viewers
               PROVE  /\ TrueRole(c)
                      /\ nota.kind = "nfe" /\ Pending(c) /\ seenAs[c] = "completa" => Due(c)
                      /\ Due(c) /\ (seenAs[c] = "completa" \/ c \notin nota.parties["emitente"])
                            => Pending(c)
                      /\ Pending(c) <=> ConclusivaRefused(c) = ""
                      /\ (Pending(c) /\ PendingKind(c) = "sem_ciencia") <=> CienciaRefused(c) = ""
                      /\ TacitlyConfirmed(c) => Pending(c) /\ DaysLeft(ConclusiveDue) <= 0
                      /\ Pending(c) /\ DaysLeft(ConclusiveDue) < 0 => TacitlyConfirmed(c)
                      /\ CienciaOverdue(c) => DaysLeft(CienciaDue) <= 0
    BY DEF PendingIsDue
  <1>1. /\ ViewerSound(c) /\ held \in HeldRows /\ relation[c] \in RelationRow /\ clock \in Nat
    BY PartTypeParts DEF PartInv
  <1>2. TrueRole(c)
    BY <1>1 DEF TrueRole, ViewerSound, RoleIsTrue
  <1>3. Pending(c) <=> ConclusivaRefused(c) = ""
    BY <1>1 DEF Pending, ConclusivaRefused, ManifestacaoRefused, HeldRows, RelationRow
  <1>4. (Pending(c) /\ PendingKind(c) = "sem_ciencia") <=> CienciaRefused(c) = ""
    BY <1>1 DEF Pending, PendingKind, CienciaRefused, ManifestacaoRefused, HeldRows, RelationRow
  <1>5. /\ clock >= ConclusiveDue => DaysLeft(ConclusiveDue) <= 0
        /\ DaysLeft(ConclusiveDue) < 0 => clock > ConclusiveDue
        /\ clock >= CienciaDue => DaysLeft(CienciaDue) <= 0
    BY <1>1, DeadlinesAreInstants, DaysLeftOfDeadline
  <1>6. TacitlyConfirmed(c) => Pending(c) /\ clock >= ConclusiveDue
    BY <1>1, DeadlinesAreInstants DEF TacitlyConfirmed, Pending, RelationRow
  <1>7. Pending(c) /\ clock > ConclusiveDue => TacitlyConfirmed(c)
    BY DEF TacitlyConfirmed, Pending
  <1>8. Due(c) => nota.kind = "nfe"
    BY DEF Due
  <1> QED BY <1>2, <1>3, <1>4, <1>5, <1>6, <1>7, <1>8, OwedIsListed DEF CienciaOverdue

\* The list of pending manifestações misses no NF-e of which the company owes
\* one, but for a resumo of a nota it issued to itself, and holds no other once
\* the company stored the whole NF-e, whatever the order of its resumo, its XML,
\* its events and the copies of the other parties; the list agrees with what
\* blocks a manifestação and with the deadlines, for any parties, companies,
\* length of a day and deadlines.  Of a company that stored only a resumo it
\* says no more than that: a resumo names no destinatário.
THEOREM PendingAreDue == PartSpec => []PendingIsDue
  <1> QED BY ListIsDue, PartInitHolds, PartStepKeeps, PTL DEF PartSpec

-----------------------------------------------------------------------------
(* The calls of the client.                                                *)


Last == requests[Len(requests)]

\* An answer after which nothing is sent.
CallFinishes(service, r) ==
    IF service = "adn" THEN r.status \in {"ok", "notFound", "refused"} ELSE WasAnswered(r)

Spent ==
    /\ call.retries <= RetriesOf(call.service)
    /\ call.resends <= ResendsOf(call.service)
    /\ call.stage # "told" =>
          Len(requests) + call.retries + call.resends
             = RetriesOf(call.service) + ResendsOf(call.service)
    /\ call.stage = "waiting" => call.service = "adn"
    /\ Len(requests) <= RetriesOf(call.service) + ResendsOf(call.service) + 1

Unfinished ==
    /\ call.stage # "told" => \A i \in 1 .. Len(requests) : ~CallFinishes(call.service, requests[i])
    /\ \A i \in 1 .. Len(requests) - 1 : ~CallFinishes(call.service, requests[i])

ToldTruly ==
    /\ call.outcome = "empty" => Last = [status |-> "notFound", body |-> "empty"]
    /\ call.outcome = "unanswered" /\ call.service # "adn" =>
          \A i \in 1 .. Len(requests) : ~WasAnswered(requests[i])
    /\ MTLSAccepted(call.outcome) => Len(requests) > 0 /\ WasAnswered(Last)

CallInv == HTTPTypeOK /\ Spent /\ Unfinished /\ ToldTruly

-----------------------------------------------------------------------------
(* What a step does.                                                       *)

NewCall == \E service \in Services : Ask(service)

\* Nothing was sent.
Quiet ==
    /\ call.stage # "told"
    /\ UNCHANGED <<requests, asked>>
    /\ ctxEnded' \in BOOLEAN
    /\ \/ UNCHANGED call
       \/ /\ call.stage = "attempt" /\ call' = [call EXCEPT !.stage = "sent"]
       \/ /\ call.stage = "waiting" /\ call' = [call EXCEPT !.stage = "attempt"]
       \/ Tell("canceled")

\* The request r was sent.
Sending(r) ==
    /\ call.stage = "sent"
    /\ requests' = Append(requests, r)
    /\ UNCHANGED <<ctxEnded, asked>>

Lost(r) == r \in Request /\ ~WasAnswered(r) /\ (Tell("canceled") \/ Unanswered)

Told(r) ==
    /\ r \in Request /\ WasAnswered(r)
    /\ \/ r.status \in Expected(call.service) /\ Tell(Read(r))
       \/ r.status \in Retryable \ Expected(call.service) /\ MayRetry("status")
       \/ r.status \notin Retryable \cup Expected(call.service) /\ Tell("status")

LEMMA CallStepKinds ==
    ASSUME HTTPTypeOK, HTTPNext
    PROVE  NewCall \/ Quiet \/ \E r : Sending(r) /\ (Lost(r) \/ Told(r))
  <1>1. CASE EndContext
    BY <1>1 DEF EndContext, Quiet
  <1>2. CASE Attempt
    BY <1>2 DEF Attempt, Quiet, HTTPTypeOK
  <1>3. CASE WaitForRetry
    BY <1>3 DEF WaitForRetry, Quiet, HTTPTypeOK
  <1>4. ASSUME NEW fate \in Fates, NoResponse(fate)
        PROVE  \E r : Sending(r) /\ Lost(r)
    <2> DEFINE r == [status |-> fate, body |-> "none"]
    <2>1. r \in Request /\ ~WasAnswered(r)
      BY DEF Request, WasAnswered, Fates, Statuses
    <2>2. Sending(r) /\ (Tell("canceled") \/ Unanswered)
      BY <1>4 DEF NoResponse, Sending
    <2> QED BY <2>1, <2>2 DEF Lost
  <1>5. ASSUME NEW status \in Statuses, NEW body \in Bodies,
               Answered([status |-> status, body |-> body])
        PROVE  \E r : Sending(r) /\ Told(r)
    <2> DEFINE r == [status |-> status, body |-> body]
    <2>1. r \in Request /\ WasAnswered(r)
      BY DEF Request, WasAnswered
    <2>2. Sending(r)
      BY <1>5 DEF Answered, Sending
    <2> HIDE DEF r
    <2>3. Answered(r)
      BY <1>5 DEF r
    <2>4. \/ r.status \in Expected(call.service) /\ Tell(Read(r))
          \/ r.status \in Retryable \ Expected(call.service) /\ MayRetry("status")
          \/ r.status \notin Retryable \cup Expected(call.service) /\ Tell("status")
      BY <2>3, Zenon DEF Answered
    <2> QED BY <2>1, <2>2, <2>4, Zenon DEF Told
  <1>6. \A status : BodiesOf(status) \subseteq Bodies
    BY DEF BodiesOf, Bodies
  <1> QED BY <1>1, <1>2, <1>3, <1>4, <1>5, <1>6, Zenon DEF HTTPNext, NewCall

\* What is told of an answer is one of the outcomes, and never that none came.
LEMMA ReadOutcome ==
    ASSUME NEW r \in Request, r.status \in Expected(call.service)
    PROVE  /\ Read(r) \in Outcomes \ {"none", "unanswered"}
           /\ Read(r) = "empty" => r.status = "notFound" /\ r.body = "empty"
    BY DEF Read, Outcomes, NotFound, Fault, Decoded, Request, Bodies, Statuses, Fates

LEMMA RequestAppended ==
    ASSUME NEW s \in Seq(Request), NEW r \in Request
    PROVE  /\ Append(s, r) \in Seq(Request)
           /\ Len(s) \in Nat /\ Len(Append(s, r)) = Len(s) + 1
           /\ Append(s, r)[Len(s) + 1] = r
           /\ \A i \in 1 .. Len(s) : Append(s, r)[i] = s[i]
    OBVIOUS

LEMMA RequestFields ==
    ASSUME NEW r \in Request, r.status = "notFound", r.body = "empty"
    PROVE  r = [status |-> "notFound", body |-> "empty"]
    BY DEF Request

-----------------------------------------------------------------------------
(* The calls.                                                              *)

LEMMA AskKeeps ==
    ASSUME CallInv, NewCall
    PROVE  CallInv'
  <1> PICK service \in Services : Ask(service)
    BY DEF NewCall
  <1>1. /\ call'.service = service /\ call'.stage = "attempt" /\ call'.outcome = "none"
        /\ call'.retries = RetriesOf(service) /\ call'.resends = ResendsOf(service)
        /\ requests' = <<>> /\ ctxEnded' = FALSE /\ asked' = asked + 1 /\ asked < MaxAsked
    BY DEF Ask
  <1>2. call' \in HTTPCall
    BY DEF Ask, HTTPCall, Services, RetriesOf, ResendsOf, Outcomes
  <1>3. requests' \in Seq(Request) /\ Len(requests') = 0
    BY <1>1
  <1>4. HTTPTypeOK'
    <2>1. asked' \in 0 .. MaxAsked
      BY <1>1, AskedAssumption DEF CallInv, HTTPTypeOK
    <2>2. ctxEnded' \in BOOLEAN /\ call'.outcome = "none" /\ call'.stage # "told"
      BY <1>1
    <2> QED BY <1>2, <1>3, <2>1, <2>2 DEF HTTPTypeOK
  <1>5. Spent'
    BY <1>1, <1>3 DEF Spent, RetriesOf, ResendsOf
  <1>6. Unfinished' /\ ToldTruly'
    BY <1>1, <1>3 DEF Unfinished, ToldTruly, MTLSAccepted
  <1> QED BY <1>4, <1>5, <1>6 DEF CallInv

LEMMA QuietCallKeeps ==
    ASSUME CallInv, Quiet
    PROVE  CallInv'
  <1> USE DEF Quiet
  <1>1. /\ call'.service = call.service /\ call'.retries = call.retries
        /\ call'.resends = call.resends
        /\ call'.outcome \in {"none", "canceled"}
        /\ call'.outcome = "none" <=> call'.stage # "told"
        /\ call'.stage = "waiting" => call.stage = "waiting"
        /\ call' \in HTTPCall
        /\ call.stage # "told"
    BY DEF CallInv, HTTPTypeOK, HTTPCall, Tell, Outcomes
  <1>2. HTTPTypeOK'
    BY <1>1 DEF CallInv, HTTPTypeOK
  <1>3. Spent'
    BY <1>1 DEF CallInv, Spent
  <1>4. Unfinished'
    BY <1>1 DEF CallInv, Unfinished
  <1>5. ToldTruly'
    BY <1>1 DEF ToldTruly, MTLSAccepted
  <1> QED BY <1>2, <1>3, <1>4, <1>5 DEF CallInv

\* The parts of CallInv that are about the requests alone.
LEMMA SendingKeeps ==
    ASSUME CallInv, NEW r \in Request, Sending(r), call'.service = call.service
    PROVE  /\ requests' \in Seq(Request)
           /\ Len(requests) \in Nat /\ Len(requests') = Len(requests) + 1
           /\ Last' = r
           /\ \A i \in 1 .. Len(requests') - 1 : ~CallFinishes(call'.service, requests'[i])
           /\ ~CallFinishes(call.service, r) =>
                 \A i \in 1 .. Len(requests') : ~CallFinishes(call'.service, requests'[i])
           /\ Len(requests) + call.retries + call.resends
                 = RetriesOf(call.service) + ResendsOf(call.service)
           /\ call.retries \in 0 .. 3 /\ call.resends \in 0 .. 1 /\ call.service \in Services
  <1>1. /\ requests \in Seq(Request) /\ requests' = Append(requests, r)
        /\ call.stage = "sent" /\ call \in HTTPCall
    BY DEF CallInv, HTTPTypeOK, Sending
  <1>2. /\ requests' \in Seq(Request)
        /\ Len(requests) \in Nat /\ Len(requests') = Len(requests) + 1
        /\ requests'[Len(requests) + 1] = r
        /\ \A i \in 1 .. Len(requests) : requests'[i] = requests[i]
    BY <1>1, RequestAppended
  <1>3. \A i \in 1 .. Len(requests) : ~CallFinishes(call.service, requests[i])
    BY <1>1 DEF CallInv, Unfinished
  <1>4. Last' = r
    BY <1>2 DEF Last
  <1>5. \A i \in 1 .. Len(requests') - 1 : ~CallFinishes(call'.service, requests'[i])
    BY <1>2, <1>3
  <1>6. ASSUME ~CallFinishes(call.service, r), NEW i \in 1 .. Len(requests')
        PROVE  ~CallFinishes(call'.service, requests'[i])
    <2>1. CASE i \in 1 .. Len(requests)
      BY <2>1, <1>2, <1>3
    <2>2. CASE i = Len(requests) + 1
      BY <2>2, <1>2, <1>6
    <2> QED BY <1>2, <2>1, <2>2
  <1>7. /\ Len(requests) + call.retries + call.resends
              = RetriesOf(call.service) + ResendsOf(call.service)
        /\ call.retries \in 0 .. 3 /\ call.resends \in 0 .. 1 /\ call.service \in Services
    BY <1>1 DEF CallInv, Spent, HTTPCall
  <1> QED BY <1>2, <1>4, <1>5, <1>6, <1>7

LEMMA TellKeeps ==
    ASSUME CallInv, NEW r \in Request, Sending(r),
           NEW outcome \in Outcomes \ {"none"}, Tell(outcome),
           outcome = "empty" => r.status = "notFound" /\ r.body = "empty",
           outcome = "unanswered" => ~WasAnswered(r),
           MTLSAccepted(outcome) => WasAnswered(r)
    PROVE  CallInv'
  <1>1. /\ call'.service = call.service /\ call'.stage = "told"
        /\ call'.retries = call.retries /\ call'.resends = call.resends
        /\ call'.outcome = outcome
    BY DEF Tell
  <1>2. call' \in HTTPCall
    BY DEF CallInv, HTTPTypeOK, HTTPCall, Tell
  <1>3. /\ requests' \in Seq(Request)
        /\ Len(requests) \in Nat /\ Len(requests') = Len(requests) + 1
        /\ Last' = r
        /\ \A i \in 1 .. Len(requests') - 1 : ~CallFinishes(call'.service, requests'[i])
        /\ ~CallFinishes(call.service, r) =>
              \A i \in 1 .. Len(requests') : ~CallFinishes(call'.service, requests'[i])
        /\ Len(requests) + call.retries + call.resends
              = RetriesOf(call.service) + ResendsOf(call.service)
        /\ call.retries \in 0 .. 3 /\ call.resends \in 0 .. 1 /\ call.service \in Services
    BY <1>1, SendingKeeps, Zenon
  <1>4. HTTPTypeOK'
    BY <1>1, <1>2, <1>3 DEF CallInv, HTTPTypeOK, Sending
  <1>5. Spent'
    BY <1>1, <1>3 DEF CallInv, Spent, RetriesOf, ResendsOf
  <1>6. Unfinished'
    BY <1>1, <1>3 DEF Unfinished
  <1>7. ToldTruly'
    <2>1. outcome = "empty" => Last' = [status |-> "notFound", body |-> "empty"]
      BY <1>3, RequestFields
    <2>2. ASSUME outcome = "unanswered", call.service # "adn"
          PROVE  \A i \in 1 .. Len(requests') : ~WasAnswered(requests'[i])
      BY <2>2, <1>1, <1>3 DEF CallFinishes
    <2>3. MTLSAccepted(outcome) => Len(requests') > 0 /\ WasAnswered(Last')
      BY <1>3
    <2>4. MTLSAccepted(outcome) => WasAnswered(Last)'
      BY <2>3 DEF WasAnswered
    <2>5. ASSUME outcome = "unanswered", call.service # "adn"
          PROVE  (\A i \in 1 .. Len(requests) : ~WasAnswered(requests[i]))'
      BY <2>2, <2>5 DEF WasAnswered
    <2> QED BY <1>1, <2>1, <2>3, <2>4, <2>5, Zenon DEF ToldTruly, MTLSAccepted
  <1> QED BY <1>4, <1>5, <1>6, <1>7 DEF CallInv

\* The call goes on: it spends a retry or a resend.
GoesOn ==
    /\ call'.service = call.service /\ call'.outcome = "none"
    /\ call' \in HTTPCall
    /\ \/ /\ call'.stage = "waiting" /\ call.retries > 0
          /\ call'.retries = call.retries - 1 /\ call'.resends = call.resends
       \/ /\ call'.stage = "attempt" /\ call.retries = 0 /\ call.resends > 0
          /\ call'.retries = RetriesOf(call.service) /\ call'.resends = call.resends - 1

LEMMA GoesOnKeeps ==
    ASSUME CallInv, NEW r \in Request, Sending(r), ~CallFinishes(call.service, r), GoesOn
    PROVE  CallInv'
  <1>1. /\ requests' \in Seq(Request)
        /\ Len(requests) \in Nat /\ Len(requests') = Len(requests) + 1
        /\ \A i \in 1 .. Len(requests') - 1 : ~CallFinishes(call'.service, requests'[i])
        /\ \A i \in 1 .. Len(requests') : ~CallFinishes(call'.service, requests'[i])
        /\ Len(requests) + call.retries + call.resends
              = RetriesOf(call.service) + ResendsOf(call.service)
        /\ call.retries \in 0 .. 3 /\ call.resends \in 0 .. 1 /\ call.service \in Services
    BY SendingKeeps, Zenon DEF GoesOn
  <1>2. HTTPTypeOK'
    BY <1>1 DEF CallInv, HTTPTypeOK, Sending, GoesOn
  <1>3. call.retries <= RetriesOf(call.service) /\ call.resends <= ResendsOf(call.service)
    BY DEF CallInv, Spent
  <1>4. Spent'
    BY <1>1, <1>3 DEF Spent, GoesOn, RetriesOf, ResendsOf, Services
  <1>5. Unfinished'
    BY <1>1 DEF Unfinished
  <1>6. ToldTruly'
    BY DEF ToldTruly, MTLSAccepted, GoesOn
  <1> QED BY <1>2, <1>4, <1>5, <1>6 DEF CallInv

LEMMA RetryKinds ==
    ASSUME CallInv, NEW outcome, MayRetry(outcome)
    PROVE  GoesOn \/ Tell(outcome)
  <1>1. CASE call.retries > 0
    BY <1>1 DEF CallInv, HTTPTypeOK, HTTPCall, MayRetry, GoesOn, Outcomes
  <1>2. CASE ~(call.retries > 0)
    BY <1>2 DEF MayRetry
  <1> QED BY <1>1, <1>2

LEMMA LostKeeps ==
    ASSUME CallInv, NEW r, Sending(r), Lost(r)
    PROVE  CallInv'
  <1>1. r \in Request /\ ~WasAnswered(r)
    BY DEF Lost
  <1>2. ~CallFinishes(call.service, r)
    BY <1>1 DEF CallFinishes, WasAnswered, Statuses
  <1>3. CASE Tell("canceled")
    BY <1>1, <1>3, TellKeeps DEF MTLSAccepted, Outcomes
  <1>4. CASE Tell("unanswered")
    BY <1>1, <1>4, TellKeeps DEF MTLSAccepted, Outcomes
  <1>5. CASE GoesOn
    BY <1>1, <1>2, <1>5, GoesOnKeeps
  <1>6. ASSUME call.retries = 0, call.resends > 0, Unanswered
        PROVE  GoesOn
    BY <1>6 DEF Unanswered, GoesOn, CallInv, HTTPTypeOK, HTTPCall, RetriesOf, Outcomes
  <1>7. ASSUME ~(call.retries = 0 /\ call.resends > 0), Unanswered
        PROVE  MayRetry("unanswered")
    BY <1>7 DEF Unanswered
  <1> QED BY <1>3, <1>4, <1>5, <1>6, <1>7, RetryKinds DEF Lost

LEMMA ToldKeeps ==
    ASSUME CallInv, NEW r, Sending(r), Told(r)
    PROVE  CallInv'
  <1>1. r \in Request /\ WasAnswered(r)
    BY DEF Told
  <1>2. CASE r.status \in Expected(call.service) /\ Tell(Read(r))
    BY <1>1, <1>2, ReadOutcome, TellKeeps
  <1>3. ASSUME Tell("status") PROVE CallInv'
    BY <1>1, <1>3, TellKeeps DEF Outcomes
  <1>4. ASSUME r.status \in Retryable \ Expected(call.service), MayRetry("status")
        PROVE  CallInv'
    <2>1. CASE call.service = "adn"
      <3>1. ~CallFinishes(call.service, r)
        BY <1>4, <2>1 DEF CallFinishes, Retryable
      <3> QED BY <1>1, <1>3, <1>4, <3>1, RetryKinds, GoesOnKeeps
    <2>2. CASE call.service # "adn"
      <3>1. call.retries <= 0 /\ call.retries \in 0 .. 3
        BY <2>2 DEF CallInv, Spent, RetriesOf, HTTPTypeOK, HTTPCall
      <3> QED BY <1>3, <1>4, <3>1 DEF MayRetry
    <2> QED BY <2>1, <2>2
  <1> QED BY <1>2, <1>3, <1>4 DEF Told

LEMMA CallStepKeeps ==
    ASSUME CallInv, [HTTPNext]_httpVars
    PROVE  CallInv'
  <1>1. CASE UNCHANGED httpVars
    BY <1>1 DEF httpVars, CallInv, HTTPTypeOK, Spent, Unfinished, ToldTruly, Last
  <1>2. ASSUME NEW r, Sending(r), Lost(r) \/ Told(r)
        PROVE  CallInv'
    BY <1>2, LostKeeps, ToldKeeps
  <1>3. ASSUME HTTPNext PROVE CallInv'
    <2>1. HTTPTypeOK
      BY DEF CallInv
    <2> QED BY <1>2, <1>3, <2>1, CallStepKinds, AskKeeps, QuietCallKeeps
  <1> QED BY <1>1, <1>3

LEMMA CallInitHolds == HTTPInit => CallInv
  <1> SUFFICES ASSUME HTTPInit PROVE CallInv
    OBVIOUS
  <1>1. HTTPTypeOK
    BY AskedAssumption DEF HTTPInit, HTTPTypeOK, HTTPCall, Services, Outcomes
  <1>2. Spent
    BY DEF HTTPInit, Spent, RetriesOf, ResendsOf
  <1>3. Unfinished /\ ToldTruly
    BY DEF HTTPInit, Unfinished, ToldTruly, MTLSAccepted
  <1> QED BY <1>1, <1>2, <1>3 DEF CallInv

LEMMA JustifiedFromCallInv == CallInv => SendsJustified
  <1> SUFFICES ASSUME CallInv PROVE SendsJustified
    OBVIOUS
  <1> DEFINE n == Len(requests)
  <1>1. n \in Nat /\ call.service \in Services
    BY DEF CallInv, HTTPTypeOK, HTTPCall
  <1>2. n <= (CASE call.service = "adn" -> 4
                [] call.service = "dist" -> 1
                [] call.service = "evento" -> 2)
    BY <1>1 DEF CallInv, Spent, RetriesOf, ResendsOf, Services
  <1>3. \A i \in 1 .. n - 1 :
            IF call.service = "adn"
            THEN requests[i].status \notin {"ok", "notFound", "refused"}
            ELSE ~WasAnswered(requests[i])
    BY DEF CallInv, Unfinished, CallFinishes
  <1>4. call.outcome = "unanswered" /\ call.service # "adn" =>
            \A i \in 1 .. n : ~WasAnswered(requests[i])
    BY DEF CallInv, ToldTruly
  <1>5. MTLSAccepted(call.outcome) => \E i \in 1 .. n : WasAnswered(requests[i])
    <2>1. n > 0 => n \in 1 .. n
      BY <1>1
    <2> QED BY <2>1 DEF CallInv, ToldTruly, Last
  <1>6. call.outcome = "empty" => requests[n] = [status |-> "notFound", body |-> "empty"]
    BY DEF CallInv, ToldTruly, Last
  <1> QED BY <1>2, <1>3, <1>4, <1>5, <1>6 DEF SendsJustified

\* Every variable of the client keeps its type, however many calls are made
\* and however their requests fare.
THEOREM CallTypes == HTTPSpec => []HTTPTypeOK
  <1>1. CallInv => HTTPTypeOK
    BY DEF CallInv
  <1> QED BY <1>1, CallInitHolds, CallStepKeeps, PTL DEF HTTPSpec

\* However many calls are made and whatever the servers answer, lose or cut, a
\* distribution of the SEFAZ is sent once and a lote of events twice at most and
\* never after an answer, nothing is sent after an answer that ends the call,
\* and the call tells no more than the servers did.
THEOREM SendsAreJustified == HTTPSpec => []SendsJustified
  <1> QED BY JustifiedFromCallInv, CallInitHolds, CallStepKeeps, PTL DEF HTTPSpec
=============================================================================
