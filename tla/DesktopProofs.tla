---------------------------- MODULE DesktopProofs ----------------------------
(***************************************************************************)
(* Proofs about CloseGuard and Desktop, for any finite set of calls, any   *)
(* methods they may be of and any certificates.                            *)
(*                                                                         *)
(* InstallAlone is inductive but for the call that ends: its count must be *)
(* there to be taken back, which is what the cardinalities say.            *)
(* RecordedBeforeClose needs DueRuns: who is due still runs and is counted,*)
(* so that a count of zero means nobody is.  EditsKept needs RowsFresh:    *)
(* while no edit overlapped a load, every copy of the row is the user's.   *)
(***************************************************************************)
EXTENDS Desktop, FiniteSetTheorems, TLAPS

-----------------------------------------------------------------------------
(* The methods                                                             *)

LEMMA KindFields ==
    ASSUME NEW m \in Kinds
    PROVE  m.tracked \in BOOLEAN /\ m.pull \in BOOLEAN /\ m.own \in BOOLEAN /\ (m.pull => m.tracked)
<1>1. \A p, q, o, l \in BOOLEAN :
        LET k == Running(p, q, o, l) IN k.tracked = TRUE /\ k.pull = p /\ k.own = o
  BY DEF Running
<1>2. Brief.tracked = FALSE /\ Brief.pull = FALSE /\ Brief.own = FALSE
  BY DEF Brief, Reset, Running
<1>3. CASE m = Brief
  BY <1>2, <1>3
<1>4. CASE m # Brief
  BY <1>1, <1>4 DEF Kinds, Sync, Import, Fetch, Ask, Export, Send, Reset
<1> QED BY <1>3, <1>4

LEMMA AreaKinds ==
    ASSUME NEW area \in Areas, NEW name \in DOMAIN area
    PROVE  area[name] \in Kinds
<1>1. CASE area = NFeSyncMethods
  BY <1>1 DEF NFeSyncMethods, Kinds
<1>2. CASE area = NFeEventMethods
  BY <1>2 DEF NFeEventMethods, Kinds
<1>3. CASE area = NFeExportMethods
  BY <1>3 DEF NFeExportMethods, Kinds
<1>4. CASE area = CTeSyncMethods
  BY <1>4 DEF CTeSyncMethods, Kinds
<1>5. CASE area = CTeExportMethods
  BY <1>5 DEF CTeExportMethods, Kinds
<1>6. CASE area = NFSeSyncMethods
  BY <1>6 DEF NFSeSyncMethods, Kinds
<1>7. CASE area = NFSeExportMethods
  BY <1>7 DEF NFSeExportMethods, Kinds
<1>8. CASE area = CompanyMethods
  BY <1>8 DEF CompanyMethods, Kinds
<1> QED BY <1>1, <1>2, <1>3, <1>4, <1>5, <1>6, <1>7, <1>8 DEF Areas

LEMMA MethodKinds ==
    ASSUME NEW name \in Methods
    PROVE  MethodOf(name) \in Kinds
<1>1. \E area \in Areas : name \in DOMAIN area
  BY DEF Methods
<1>2. /\ (CHOOSE area \in Areas : name \in DOMAIN area) \in Areas
      /\ name \in DOMAIN (CHOOSE area \in Areas : name \in DOMAIN area)
  BY <1>1
<1> QED BY <1>2, AreaKinds DEF MethodOf

-----------------------------------------------------------------------------
(* The guard                                                               *)

\* Who is due was in flight when the wait began and has not recorded yet.
DueRuns ==
    /\ due \subseteq {c \in Tracked : stage[c] \in {"begun", "core"}}
    /\ app \in {"closing", "closed"} /\ ~expired => due = {}

GuardInv == GuardTypeOK /\ InstallAlone /\ DueRuns

LEMMA GuardFinite == IsFiniteSet(Tracked) /\ IsFiniteSet(InPull) /\ Tracked \subseteq Calls /\ InPull \subseteq Tracked
<1>1. Tracked \subseteq Calls /\ InPull \subseteq Tracked
  BY DEF Tracked, InPull
<1> QED BY <1>1, FS_Subset, BoundAssumption

\* Nothing counted, nothing running.
LEMMA NoneCounted ==
    ASSUME InstallAlone
    PROVE  (ops = 0 => Tracked = {}) /\ (pulls = 0 => InPull = {})
  BY GuardFinite, FS_EmptySet DEF InstallAlone

LEMMA BeginStep ==
    ASSUME GuardInv, NEW c \in Calls, NEW name \in Bound[c], Begin(c, name)
    PROVE  GuardInv'
<1> DEFINE m == MethodOf(name)
<1>0. /\ GuardTypeOK /\ InstallAlone /\ DueRuns
      /\ m \in Kinds
  BY MethodKinds, BoundAssumption DEF GuardInv
<1>1. /\ stage[c] = "idle"
      /\ IF m.tracked THEN Start(m) ELSE UNCHANGED <<ops, pulls>>
      /\ stage' = [stage EXCEPT ![c] = IF m.cancelable THEN "begun" ELSE "core"]
      /\ method' = [method EXCEPT ![c] = m]
      /\ UNCHANGED <<canceled, cancels, installing, allow, leaving, due>>
  BY DEF Begin
<1> HIDE DEF m
<1>2. /\ m.tracked \in BOOLEAN /\ m.pull \in BOOLEAN /\ (m.pull => m.tracked)
  BY <1>0, KindFields
<1>3. /\ stage' \in [Calls -> Stages] /\ method' \in [Calls -> Kinds]
      /\ \A d \in Calls : d # c => stage'[d] = stage[d] /\ method'[d] = method[d]
      /\ stage'[c] # "idle" /\ method'[c] = m
  BY <1>0, <1>1 DEF GuardTypeOK, Stages
<1>4. GuardTypeOK'
  BY <1>0, <1>1, <1>2, <1>3 DEF GuardTypeOK, Start, leaving
<1>5. c \notin Tracked /\ c \notin InPull
  BY <1>1 DEF Tracked, InPull
<1>6. Tracked' = (IF m.tracked THEN Tracked \cup {c} ELSE Tracked)
  BY <1>1, <1>2, <1>3 DEF Tracked
<1>7. InPull' = (IF m.pull THEN InPull \cup {c} ELSE InPull)
  BY <1>1, <1>2, <1>3, <1>6 DEF InPull, Tracked
<1>8. /\ Cardinality(Tracked \cup {c}) = Cardinality(Tracked) + 1
      /\ Cardinality(InPull \cup {c}) = Cardinality(InPull) + 1
  BY <1>5, GuardFinite, FS_AddElement
<1>9. InstallAlone'
  <2>1. CASE m.tracked
    <3>1. ~installing /\ ops' = ops + 1 /\ pulls' = pulls + (IF m.pull THEN 1 ELSE 0)
      BY <1>1, <2>1 DEF Start
    <3>2. Cardinality(Tracked') = ops + 1
      BY <1>0, <1>6, <1>8, <2>1 DEF InstallAlone
    <3>3. Cardinality(InPull') = pulls + (IF m.pull THEN 1 ELSE 0)
      BY <1>0, <1>7, <1>8 DEF InstallAlone, GuardTypeOK
    <3> QED BY <1>1, <3>1, <3>2, <3>3 DEF InstallAlone
  <2>2. CASE ~m.tracked
    BY <1>0, <1>1, <1>2, <1>6, <1>7, <2>2 DEF InstallAlone
  <2> QED BY <2>1, <2>2
<1>10. DueRuns'
  <2>1. ASSUME NEW d \in due
        PROVE  d \in Tracked' /\ stage'[d] \in {"begun", "core"}
    <3>1. d \in Tracked /\ stage[d] \in {"begun", "core"}
      BY <1>0 DEF DueRuns
    <3>2. d # c /\ d \in Calls
      BY <1>5, <3>1, GuardFinite
    <3> QED BY <1>3, <1>6, <3>1, <3>2
  <2> QED BY <1>0, <1>1, <2>1 DEF DueRuns, leaving
<1> QED BY <1>4, <1>9, <1>10 DEF GuardInv

LEMMA EndStep ==
    ASSUME GuardInv, NEW c \in Calls, End(c)
    PROVE  GuardInv'
<1>0. /\ GuardTypeOK /\ InstallAlone /\ DueRuns
      /\ method[c] \in Kinds
  BY DEF GuardInv, GuardTypeOK
<1>1. /\ stage[c] = "ended"
      /\ stage' = [stage EXCEPT ![c] = "idle"]
      /\ method' = [method EXCEPT ![c] = Brief]
      /\ canceled' = [canceled EXCEPT ![c] = FALSE]
      /\ cancels' = cancels \ {c}
      /\ IF method[c].tracked THEN Done(method[c]) ELSE UNCHANGED <<ops, pulls>>
      /\ UNCHANGED <<installing, allow, leaving, due>>
  BY DEF End
<1>2. /\ method[c].tracked \in BOOLEAN /\ method[c].pull \in BOOLEAN
      /\ (method[c].pull => method[c].tracked)
  BY <1>0, KindFields
<1>3. /\ stage' \in [Calls -> Stages] /\ method' \in [Calls -> Kinds]
      /\ \A d \in Calls : d # c => stage'[d] = stage[d] /\ method'[d] = method[d]
      /\ stage'[c] = "idle"
  <2>1. Brief \in Kinds
    BY DEF Kinds
  <2> QED BY <1>0, <1>1, <2>1 DEF GuardTypeOK, Stages
<1>4. Tracked' = (IF method[c].tracked THEN Tracked \ {c} ELSE Tracked)
  BY <1>1, <1>2, <1>3 DEF Tracked
<1>5. InPull' = (IF method[c].pull THEN InPull \ {c} ELSE InPull)
  BY <1>1, <1>2, <1>3 DEF InPull, Tracked
<1>6. /\ method[c].tracked => c \in Tracked
      /\ method[c].pull => c \in InPull
  BY <1>1, <1>2 DEF Tracked, InPull
<1>7. /\ Cardinality(Tracked \ {c}) = IF c \in Tracked THEN Cardinality(Tracked) - 1 ELSE Cardinality(Tracked)
      /\ Cardinality(InPull \ {c}) = IF c \in InPull THEN Cardinality(InPull) - 1 ELSE Cardinality(InPull)
  BY GuardFinite, FS_RemoveElement
<1>8. ops' = Cardinality(Tracked') /\ pulls' = Cardinality(InPull')
  <2>1. CASE method[c].tracked
    <3>1. ops' = ops - 1 /\ pulls' = pulls - (IF method[c].pull THEN 1 ELSE 0)
      BY <1>1, <2>1 DEF Done
    <3>2. Cardinality(Tracked') = ops - 1
      BY <1>0, <1>4, <1>6, <1>7, <2>1 DEF InstallAlone
    <3>3. Cardinality(InPull') = pulls - (IF method[c].pull THEN 1 ELSE 0)
      BY <1>0, <1>5, <1>6, <1>7 DEF InstallAlone, GuardTypeOK
    <3> QED BY <3>1, <3>2, <3>3
  <2>2. CASE ~method[c].tracked
    BY <1>0, <1>1, <1>2, <1>4, <1>5, <2>2 DEF InstallAlone
  <2> QED BY <2>1, <2>2
<1>9. InstallAlone'
  BY <1>0, <1>1, <1>4, <1>8 DEF InstallAlone
<1>10. GuardTypeOK'
  <2>1. IsFiniteSet(Tracked') /\ IsFiniteSet(InPull')
    <3>1. Tracked' \subseteq Tracked /\ InPull' \subseteq InPull
      BY <1>4, <1>5
    <3> QED BY <3>1, GuardFinite, FS_Subset
  <2>2. ops' \in Nat /\ pulls' \in Nat
    BY <1>8, <2>1, FS_CardinalityType
  <2> QED BY <1>0, <1>1, <1>3, <2>2 DEF GuardTypeOK, leaving
<1>11. DueRuns'
  <2>1. ASSUME NEW d \in due
        PROVE  d \in Tracked' /\ stage'[d] \in {"begun", "core"}
    <3>1. d \in Tracked /\ stage[d] \in {"begun", "core"}
      BY <1>0 DEF DueRuns
    <3>2. d # c /\ d \in Calls
      BY <1>1, <3>1, GuardFinite
    <3> QED BY <1>3, <1>4, <3>1, <3>2
  <2> QED BY <1>0, <1>1, <2>1 DEF DueRuns, leaving
<1> QED BY <1>9, <1>10, <1>11 DEF GuardInv

\* The steps of a call between its start and its end, and the cancels.
LEMMA InsideStep ==
    ASSUME GuardInv,
           \/ \E c \in Calls : Cancelable(c) \/ CoreEnds(c) \/ CancelCall(c) \/ CancelByShutdown(c)
           \/ \E k \in Keys : CancelSync(k)
    PROVE  GuardInv' /\ UNCHANGED <<window, allow>>
<1>0. GuardTypeOK /\ InstallAlone /\ DueRuns
  BY DEF GuardInv
<1>1. ASSUME NEW c \in Calls, NEW s \in {"core", "ended"}, stage[c] # "idle", s = "ended" => stage[c] = "core",
             stage' = [stage EXCEPT ![c] = s], method' = method, due' \subseteq due,
             s = "ended" => c \notin due',
             UNCHANGED <<ops, pulls, installing, app, expired, update, window, allow, canceled>>,
             cancels' \subseteq Calls
      PROVE  GuardInv' /\ UNCHANGED <<window, allow>>
  <2>1. stage' \in [Calls -> Stages] /\ stage'[c] = s /\ \A d \in Calls : d # c => stage'[d] = stage[d]
    BY <1>0, <1>1 DEF GuardTypeOK, Stages
  <2>2. Tracked' = Tracked /\ InPull' = InPull
    BY <1>1, <2>1 DEF Tracked, InPull
  <2>3. GuardTypeOK'
    BY <1>0, <1>1, <2>1 DEF GuardTypeOK
  <2>4. InstallAlone'
    BY <1>0, <1>1, <2>2 DEF InstallAlone
  <2>5. ASSUME NEW d \in due'
        PROVE  d \in Tracked' /\ stage'[d] \in {"begun", "core"}
    <3>1. d \in Tracked /\ stage[d] \in {"begun", "core"} /\ d \in Calls
      BY <1>0, <1>1, <2>5, GuardFinite DEF DueRuns
    <3> QED BY <1>1, <2>1, <2>2, <2>5, <3>1
  <2>6. DueRuns'
    BY <1>0, <1>1, <2>5 DEF DueRuns
  <2> QED BY <1>1, <2>3, <2>4, <2>6 DEF GuardInv
<1>2. ASSUME NEW c \in Calls, Cancelable(c)
      PROVE  GuardInv' /\ UNCHANGED <<window, allow>>
  BY <1>0, <1>1, <1>2 DEF Cancelable, leaving, GuardTypeOK
<1>3. ASSUME NEW c \in Calls, CoreEnds(c)
      PROVE  GuardInv' /\ UNCHANGED <<window, allow>>
  BY <1>0, <1>1, <1>3 DEF CoreEnds, guard, leaving, GuardTypeOK
<1>4. ASSUME UNCHANGED <<stage, method, guard, leaving, due>>, canceled' \in [Calls -> BOOLEAN]
      PROVE  GuardInv' /\ UNCHANGED <<window, allow>>
  <2>1. Tracked' = Tracked /\ InPull' = InPull
    BY <1>4 DEF Tracked, InPull
  <2> QED BY <1>0, <1>4, <2>1 DEF GuardInv, GuardTypeOK, InstallAlone, DueRuns, guard, leaving
<1>5. ASSUME NEW c \in Calls, CancelCall(c) \/ CancelByShutdown(c)
      PROVE  GuardInv' /\ UNCHANGED <<window, allow>>
  BY <1>0, <1>4, <1>5 DEF CancelCall, CancelByShutdown, GuardTypeOK
<1>6. ASSUME NEW k \in Keys, CancelSync(k)
      PROVE  GuardInv' /\ UNCHANGED <<window, allow>>
  <2>1. canceled' \in [Calls -> BOOLEAN]
    BY <1>0, <1>6 DEF CancelSync, GuardTypeOK
  <2> QED BY <1>4, <1>6, <2>1 DEF CancelSync
<1> QED BY <1>2, <1>3, <1>5, <1>6

\* The update, the window and the shutdown.
LEMMA LeavingStep ==
    ASSUME GuardInv, LeavingNext
    PROVE  GuardInv' /\ (window # "leaving" /\ window' = "leaving" /\ InPull # {} => allow')
<1>0. GuardTypeOK /\ InstallAlone /\ DueRuns
  BY DEF GuardInv
<1>1. UNCHANGED <<stage, method, canceled, ops, pulls, cancels>>
  BY DEF LeavingNext, BeginInstall, EndInstall, Restart, CloseWindow, Stay, ConfirmQuit,
         ServiceShutdown, WaitIdle, WaitExpires, Cleanup, calls, guard
<1>2. Tracked' = Tracked /\ InPull' = InPull
  BY <1>1 DEF Tracked, InPull
<1>3. CASE BeginInstall \/ EndInstall
  <2>1. BeginInstall => Tracked = {}
    BY <1>0, NoneCounted DEF BeginInstall, Idle
  <2>2. InstallAlone'
    BY <1>0, <1>1, <1>2, <1>3, <2>1 DEF InstallAlone, EndInstall
  <2> QED BY <1>0, <1>1, <1>2, <1>3, <2>2 DEF GuardInv, GuardTypeOK, DueRuns, BeginInstall, EndInstall
<1>4. CASE Restart \/ CloseWindow \/ Stay \/ ConfirmQuit
  <2>1. MayLeave /\ InPull # {} => allow
    BY <1>0, NoneCounted DEF MayLeave
  <2>2. UNCHANGED <<installing, app, expired, due>>
    BY <1>4 DEF Restart, CloseWindow, Stay, ConfirmQuit, guard
  <2>3. window # "leaving" /\ window' = "leaving" /\ InPull # {} => allow'
    BY <1>4, <2>1 DEF Restart, CloseWindow, Stay, ConfirmQuit, guard
  <2>4. GuardTypeOK'
    BY <1>0, <1>1, <1>4, <2>2 DEF GuardTypeOK, Restart, CloseWindow, Stay, ConfirmQuit, guard
  <2> QED BY <1>0, <1>1, <1>2, <2>2, <2>3, <2>4 DEF GuardInv, InstallAlone, DueRuns
<1>5. CASE ServiceShutdown
  <2>1. /\ due' = {c \in Tracked : stage[c] \in {"begun", "core"}} /\ app' = "waiting"
        /\ UNCHANGED <<installing, allow, update, window, expired>>
    BY <1>5 DEF ServiceShutdown, guard
  <2>2. due' \subseteq Calls
    BY <2>1, GuardFinite
  <2> QED BY <1>0, <1>1, <1>2, <2>1, <2>2 DEF GuardInv, GuardTypeOK, InstallAlone, DueRuns
<1>6. CASE WaitIdle
  <2>1. Tracked = {} /\ UNCHANGED <<installing, allow, update, window, expired, due>> /\ app' = "closing"
    BY <1>0, <1>6, NoneCounted DEF WaitIdle, NoneRuns, guard
  <2>2. due = {}
    BY <1>0, <2>1 DEF DueRuns
  <2> QED BY <1>0, <1>1, <1>2, <2>1, <2>2 DEF GuardInv, GuardTypeOK, InstallAlone, DueRuns
<1>7. CASE WaitExpires \/ Cleanup
  <2>1. /\ UNCHANGED <<installing, allow, update, window, due>>
        /\ \/ app' = "closing" /\ expired'
           \/ app = "closing" /\ app' = "closed" /\ expired' = expired
        /\ expired' \in BOOLEAN
    BY <1>0, <1>7 DEF WaitExpires, Cleanup, guard, GuardTypeOK
  <2>2. GuardTypeOK'
    BY <1>0, <1>1, <2>1 DEF GuardTypeOK
  <2>3. InstallAlone'
    BY <1>0, <1>1, <1>2, <2>1 DEF InstallAlone
  <2>4. DueRuns'
    BY <1>0, <1>1, <1>2, <2>1 DEF DueRuns
  <2> QED BY <2>1, <2>2, <2>3, <2>4 DEF GuardInv
<1> QED BY <1>3, <1>4, <1>5, <1>6, <1>7 DEF LeavingNext

LEMMA GuardInitHolds == GuardInit => GuardInv
<1> SUFFICES ASSUME GuardInit PROVE GuardInv
  OBVIOUS
<1>1. Tracked = {} /\ InPull = {}
  BY DEF GuardInit, Tracked, InPull
<1>2. Brief \in Kinds
  BY DEF Kinds
<1>3. GuardTypeOK
  BY <1>2 DEF GuardInit, GuardTypeOK, Stages
<1> QED BY <1>1, <1>3, FS_EmptySet DEF GuardInit, GuardInv, InstallAlone, DueRuns

LEMMA GuardStep ==
    ASSUME GuardInv, [GuardNext]_guardVars
    PROVE  GuardInv' /\ (window # "leaving" /\ window' = "leaving" /\ InPull # {} => allow')
<1>1. CASE UNCHANGED guardVars
  <2>1. Tracked' = Tracked /\ InPull' = InPull
    BY <1>1 DEF Tracked, InPull, guardVars, calls
  <2> QED BY <1>1, <2>1 DEF GuardInv, GuardTypeOK, InstallAlone, DueRuns, guardVars, calls, guard, leaving
<1>2. ASSUME NEW c \in Calls, NEW name \in Bound[c], Begin(c, name)
      PROVE  GuardInv' /\ window' = window
  BY <1>2, BeginStep DEF Begin, leaving
<1>3. ASSUME NEW c \in Calls, End(c)
      PROVE  GuardInv' /\ window' = window
  BY <1>3, EndStep DEF End, leaving
<1> QED BY <1>1, <1>2, <1>3, InsideStep, LeavingStep DEF GuardNext

\* Every step of the desktop is one of the guard, or leaves it alone.
LEMMA GuardOfNext ==
    ASSUME [Next]_vars
    PROVE  [GuardNext]_guardVars
<1>1. CASE Shutdown
  BY <1>1 DEF Shutdown, GuardNext, LeavingNext
<1>2. CASE UNCHANGED vars
  BY <1>2 DEF vars
<1>3. CASE User
  BY <1>3 DEF User, GuardNext, LeavingNext, Answer, ReadForEdit, UpdateCredentialData,
         UpdateCredentialPath
<1>4. CASE Host
  BY <1>4 DEF Host, GuardNext, LeavingNext, Deliver
<1>5. ASSUME NEW c \in Calls, OwnStep(c)
      PROVE  [GuardNext]_guardVars
  <2>1. CASE Cancelable(c) \/ End(c) \/ Return(c)
    BY <2>1 DEF GuardNext, Return
  <2>2. CASE ReadCredential(c) \/ KeyringOpens(c) \/ AskPassword(c) \/ LoadFails(c) \/ Inspect(c)
    BY <2>2 DEF ReadCredential, KeyringOpens, AskPassword, LoadFails, Inspect
  <2>3. CASE \E r \in DOMAIN asker : TakePassword(c, r) \/ LeavePrompt(c, r)
    BY <2>3 DEF TakePassword, LeavePrompt
  <2> QED BY <1>5, <2>1, <2>2, <2>3 DEF OwnStep
<1> QED BY <1>1, <1>2, <1>3, <1>4, <1>5 DEF Next

\* The counts are the operations in flight and an update that installs runs
\* alone (closeGuard.start, beginInstall), whatever the calls are of.
THEOREM UpdateRunsAlone == Spec => []InstallAlone
<1>1. Init => GuardInv
  BY GuardInitHolds DEF Init
<1>2. GuardInv /\ [Next]_vars => GuardInv'
  BY GuardOfNext, GuardStep
<1>3. GuardInv => InstallAlone
  BY DEF GuardInv
<1> QED BY <1>1, <1>2, <1>3, PTL DEF Spec

\* Unless shutdownWait passed, the database closes with every operation that
\* ran at shutdown recorded (ServiceShutdown, waitIdle).
THEOREM ShutdownRecords == Spec => []RecordedBeforeClose
<1>1. Init => GuardInv
  BY GuardInitHolds DEF Init
<1>2. GuardInv /\ [Next]_vars => GuardInv'
  BY GuardOfNext, GuardStep
<1>3. GuardInv => RecordedBeforeClose
  BY DEF GuardInv, DueRuns, RecordedBeforeClose
<1> QED BY <1>1, <1>2, <1>3, PTL DEF Spec

\* The window leaves an operation of the user in flight only once the user
\* confirmed it (beforeClose, ConfirmQuit).
THEOREM LeavesConfirmed == Spec => QuitConfirmed
<1>1. Init => GuardInv
  BY GuardInitHolds DEF Init
<1>2. GuardInv /\ [Next]_vars => GuardInv'
  BY GuardOfNext, GuardStep
<1>3. GuardInv /\ [Next]_vars =>
        [window # "leaving" /\ window' = "leaving" /\ InPull # {} => allow']_guardVars
  BY GuardOfNext, GuardStep
<1> QED BY <1>1, <1>2, <1>3, PTL DEF Spec, QuitConfirmed

-----------------------------------------------------------------------------
(* The certificate                                                         *)

\* The requests are numbered in the order the prompts were asked.
AskedOK == asker \in Seq(Calls)

\* Who holds a row read one, and who opened a file opened the row's.
RowsRead ==
    \A c \in Calls :
        /\ Holds(c) => read[c] \in Row
        /\ load[c] = "loaded" => loaded[c] = read[c].path

LoadInv == TypeOK /\ AskedOK /\ RowsRead

\* What the steps of the guard leave alone.
LEMMA LoadSame ==
    ASSUME LoadInv, UNCHANGED desktopVars, GuardTypeOK'
    PROVE  LoadInv'
  BY DEF LoadInv, TypeOK, AskedOK, RowsRead, Holds, desktopVars, prompt, credential, loading

LEMMA RowFields ==
    ASSUME NEW r \in Row
    PROVE  /\ r.path \in Paths /\ r.owner \in {NoPath} \cup {RootOf[p] : p \in Paths}
           /\ \A p \in Paths : [r EXCEPT !.path = p] \in Row /\ [r EXCEPT !.path = p].path = p
  BY DEF Row

LoadStages == {"none", "password", "asking", "loaded", "ready", "failed"}

\* Call c goes to stage s of its load, with this row and this file.
Moves(c, s, row, file) ==
    /\ load' = [load EXCEPT ![c] = s] /\ s \in LoadStages
    /\ read' = [read EXCEPT ![c] = row] /\ row \in Row \cup {NoRow}
    /\ loaded' = [loaded EXCEPT ![c] = file] /\ file \in Paths \cup {NoPath}
    /\ s \in {"password", "asking", "loaded"} => row \in Row
    /\ s = "loaded" => file = row.path

LoadKept ==
    /\ load' \in [Calls -> LoadStages]
    /\ read' \in [Calls -> Row \cup {NoRow}]
    /\ loaded' \in [Calls -> Paths \cup {NoPath}]
    /\ RowsRead'

LEMMA LoadStep ==
    ASSUME LoadInv, NEW c \in Calls, NEW s, NEW row, NEW file, Moves(c, s, row, file)
    PROVE  LoadKept
<1>1. /\ load \in [Calls -> LoadStages]
      /\ read \in [Calls -> Row \cup {NoRow}]
      /\ loaded \in [Calls -> Paths \cup {NoPath}]
      /\ RowsRead
  BY DEF LoadInv, TypeOK, LoadStages
<1>2. /\ load' \in [Calls -> LoadStages]
      /\ read' \in [Calls -> Row \cup {NoRow}]
      /\ loaded' \in [Calls -> Paths \cup {NoPath}]
  BY <1>1 DEF Moves
<1>3. ASSUME NEW d \in Calls
      PROVE  /\ Holds(d)' => read'[d] \in Row
             /\ load'[d] = "loaded" => loaded'[d] = read'[d].path
  <2>1. CASE d = c
    BY <1>1, <2>1 DEF Moves, Holds
  <2>2. CASE d # c
    BY <1>1, <2>2 DEF Moves, Holds, RowsRead
  <2> QED BY <2>1, <2>2
<1> QED BY <1>2, <1>3 DEF RowsRead, LoadKept

\* The path of a row a call holds.
LEMMA HeldRow ==
    ASSUME LoadInv, NEW c \in Calls, Holds(c)
    PROVE  read[c] \in Row /\ read[c].path \in Paths
  BY RowFields DEF LoadInv, RowsRead

\* What the steps of call c do to the prompts.
LEMMA ForgetPrompt ==
    ASSUME LoadInv, NEW r \in DOMAIN asker, Forget(r), UNCHANGED <<asker, dialogs>>
    PROVE  /\ AskedOK' /\ Len(asker') \in 0 .. MaxAsked
           /\ \A q \in DOMAIN asker' : asker'[q] \in Calls
           /\ chans' \subseteq DOMAIN asker' /\ dialogs' \subseteq DOMAIN asker'
           /\ mailbox' \in [Requests -> Answers \cup {NoPath}]
           /\ sending' \subseteq (DOMAIN asker') \X Answers
  BY DEF LoadInv, TypeOK, AskedOK, Forget

LEMMA OwnType ==
    ASSUME LoadInv, NEW c \in Calls,
           \/ Return(c) \/ ReadCredential(c) \/ KeyringOpens(c) \/ AskPassword(c) \/ LoadFails(c)
           \/ Inspect(c) \/ \E r \in DOMAIN asker : TakePassword(c, r) \/ LeavePrompt(c, r),
           GuardTypeOK'
    PROVE  LoadInv'
<1>0. /\ TypeOK /\ AskedOK /\ RowsRead
      /\ load \in [Calls -> LoadStages]
      /\ read \in [Calls -> Row \cup {NoRow}]
      /\ loaded \in [Calls -> Paths \cup {NoPath}]
      /\ cred \in Row
  BY DEF LoadInv, TypeOK, LoadStages
<1>1. ASSUME LoadKept, UNCHANGED <<prompt, credential, keyring>>
      PROVE  LoadInv'
  BY <1>0, <1>1 DEF LoadKept, LoadStages, LoadInv, TypeOK, AskedOK, prompt, credential
<1>2. CASE Return(c)
  <2>1. Moves(c, "none", NoRow, NoPath)
    BY <1>2 DEF Return, Moves, LoadStages
  <2>2. LoadKept
    BY <2>1, LoadStep, Zenon
  <2> QED BY <1>1, <1>2, <2>2 DEF Return
<1>3. CASE ReadCredential(c)
  <2>1. loaded' = [loaded EXCEPT ![c] = loaded[c]] /\ loaded[c] \in Paths \cup {NoPath}
    BY <1>0, <1>3 DEF ReadCredential
  <2>2. Moves(c, "password", cred, loaded[c])
    BY <1>0, <1>3, <2>1 DEF ReadCredential, Moves, LoadStages
  <2>3. LoadKept
    BY <2>2, LoadStep, Zenon
  <2> QED BY <1>1, <1>3, <2>3 DEF ReadCredential
<1>4. read' = read => read' = [read EXCEPT ![c] = read[c]] /\ read[c] \in Row \cup {NoRow}
  BY <1>0
<1>5. loaded' = loaded => loaded' = [loaded EXCEPT ![c] = loaded[c]] /\ loaded[c] \in Paths \cup {NoPath}
  BY <1>0
<1>6. ASSUME Load(c), read' = read, Holds(c)
      PROVE  LoadKept
  <2>1. read[c] \in Row /\ read[c].path \in Paths
    BY <1>6, HeldRow
  <2>2. Moves(c, "loaded", read[c], read[c].path)
    BY <1>4, <1>6, <2>1 DEF Load, Moves, LoadStages
  <2> QED BY <2>2, LoadStep, Zenon
<1>7. ASSUME Fail(c), read' = read
      PROVE  LoadKept
  <2>1. Moves(c, "failed", read[c], loaded[c])
    BY <1>4, <1>5, <1>7 DEF Fail, Moves, LoadStages
  <2> QED BY <2>1, LoadStep, Zenon
<1>8. CASE KeyringOpens(c)
  <2>1. LoadKept
    BY <1>6, <1>8 DEF KeyringOpens, Holds
  <2> QED BY <1>1, <1>8, <2>1 DEF KeyringOpens
<1>9. CASE LoadFails(c)
  <2>1. LoadKept
    BY <1>7, <1>9 DEF LoadFails
  <2> QED BY <1>1, <1>9, <2>1 DEF LoadFails
<1>10. CASE AskPassword(c)
  <2>1. /\ load[c] = "password" /\ Len(asker) + 1 + edits \in Requests
        /\ asker' = Append(asker, c) /\ chans' = chans \cup {Len(asker) + 1}
        /\ dialogs' \subseteq dialogs \cup {Len(asker) + 1}
        /\ load' = [load EXCEPT ![c] = "asking"]
        /\ UNCHANGED <<credential, mailbox, sending, read, loaded, keyring>>
    BY <1>10 DEF AskPassword
  <2>2. Holds(c)
    BY <2>1 DEF Holds
  <2>3. read[c] \in Row
    BY <2>2, HeldRow
  <2>40. Moves(c, "asking", read[c], loaded[c])
    BY <1>4, <1>5, <2>1, <2>3 DEF Moves, LoadStages
  <2>4. LoadKept
    BY <2>40, LoadStep, Zenon
  <2>5. /\ asker' \in Seq(Calls) /\ Len(asker') = Len(asker) + 1
        /\ DOMAIN asker = 1 .. Len(asker) /\ DOMAIN asker' = 1 .. Len(asker')
        /\ Len(asker) \in Nat
    BY <1>0, <2>1 DEF AskedOK
  <2>6. Len(asker') \in 0 .. MaxAsked
    BY <1>0, <2>1, <2>5, PromptAssumption DEF TypeOK, Requests
  <2>7. DOMAIN asker \subseteq DOMAIN asker' /\ Len(asker) + 1 \in DOMAIN asker'
    BY <2>5
  <2>8. \A q \in DOMAIN asker' : asker'[q] \in Calls
    BY <2>5
  <2>9. sending' \subseteq (DOMAIN asker') \X Answers
    BY <1>0, <2>1, <2>7 DEF TypeOK
  <2> QED BY <1>0, <2>1, <2>4, <2>5, <2>6, <2>7, <2>8, <2>9
          DEF LoadKept, LoadStages, LoadInv, TypeOK, AskedOK, credential
<1>11. ASSUME NEW r \in DOMAIN asker, Forget(r), UNCHANGED <<credential, asker, dialogs>>,
              LoadKept, keyring' \in Paths \cup {NoPath}
       PROVE  LoadInv'
  BY <1>0, <1>11, ForgetPrompt DEF LoadKept, LoadStages, LoadInv, TypeOK, credential
<1>12. ASSUME NEW r \in DOMAIN asker, TakePassword(c, r)
       PROVE  LoadInv'
  <2>1. /\ Forget(r) /\ UNCHANGED <<credential, asker, dialogs, read>>
        /\ mailbox[r] \in Paths /\ load[c] = "asking"
        /\ (Load(c) /\ keyring' \in {keyring, mailbox[r]}) \/ (Fail(c) /\ keyring' = keyring)
    BY <1>12 DEF TakePassword, Waits
  <2>2. LoadKept
    BY <1>6, <1>7, <2>1 DEF Holds
  <2>3. keyring' \in Paths \cup {NoPath}
    BY <1>0, <2>1 DEF TypeOK
  <2> QED BY <1>11, <2>1, <2>2, <2>3
<1>13. ASSUME NEW r \in DOMAIN asker, LeavePrompt(c, r)
       PROVE  LoadInv'
  <2>1. LoadKept
    BY <1>7, <1>13 DEF LeavePrompt
  <2>2. keyring' \in Paths \cup {NoPath}
    BY <1>0, <1>13 DEF TypeOK, LeavePrompt
  <2> QED BY <1>11, <1>13, <2>1, <2>2 DEF LeavePrompt
<1>14. CASE Inspect(c)
  <2>1. /\ load[c] = "loaded" /\ cred' = [path |-> read[c].path, owner |-> Owner(c)]
        /\ load' = [load EXCEPT ![c] = IF Owner(c) = Root THEN "ready" ELSE "failed"]
        /\ UNCHANGED <<prompt, edit, edits, wanted, overlapped, read, loaded, keyring>>
    BY <1>14 DEF Inspect
  <2>2. read[c].path \in Paths /\ loaded[c] \in Paths
    BY <1>0, <2>1, HeldRow DEF Holds, RowsRead
  <2>3. cred' \in Row
    BY <2>1, <2>2 DEF Row, Owner
  <2>40. PICK s \in {"ready", "failed"} : load' = [load EXCEPT ![c] = s]
    BY <2>1
  <2>41. Moves(c, s, read[c], loaded[c])
    BY <1>4, <1>5, <2>1, <2>40 DEF Moves, LoadStages
  <2>4. LoadKept
    BY <2>41, LoadStep, Zenon
  <2> QED BY <1>0, <2>1, <2>3, <2>4 DEF LoadKept, LoadStages, LoadInv, TypeOK, AskedOK, prompt
<1> QED BY <1>2, <1>3, <1>8, <1>9, <1>10, <1>12, <1>13, <1>14

LEMMA UserType ==
    ASSUME LoadInv,
           \/ \E r \in dialogs, a \in Answers : Answer(r, a)
           \/ \E x \in sending : Deliver(x[1], x[2])
           \/ ReadForEdit \/ UpdateCredentialData \/ \E p \in Paths : UpdateCredentialPath(p),
           GuardTypeOK'
    PROVE  LoadInv'
<1>0. TypeOK /\ AskedOK /\ RowsRead
  BY DEF LoadInv
<1>01. loading' = loading => RowsRead'
  BY <1>0 DEF RowsRead, Holds, loading
<1>1. ASSUME NEW r \in dialogs, NEW a \in Answers, Answer(r, a)
      PROVE  LoadInv'
  <2>1. sending' \subseteq (DOMAIN asker') \X Answers
    BY <1>0, <1>1 DEF TypeOK, Answer
  <2> QED BY <1>0, <1>01, <1>1, <2>1 DEF LoadInv, TypeOK, AskedOK, Answer, credential, loading
<1>2. ASSUME NEW x \in sending, Deliver(x[1], x[2])
      PROVE  LoadInv'
  <2>1. x[1] \in DOMAIN asker /\ x[2] \in Answers
    BY <1>0, <1>2 DEF TypeOK
  <2>2. mailbox' \in [Requests -> Answers \cup {NoPath}]
    BY <1>0, <1>2, <2>1 DEF TypeOK, Deliver
  <2>3. sending' \subseteq (DOMAIN asker') \X Answers
    BY <1>0, <1>2 DEF TypeOK, Deliver
  <2> QED BY <1>0, <1>01, <1>2, <2>2, <2>3 DEF LoadInv, TypeOK, AskedOK, Deliver, credential, loading
<1>3. CASE ReadForEdit
  <2>1. edits' \in 0 .. MaxAsked
    BY <1>0, <1>3, PromptAssumption DEF TypeOK, ReadForEdit
  <2> QED BY <1>0, <1>01, <1>3, <2>1 DEF LoadInv, TypeOK, AskedOK, ReadForEdit, prompt, loading
<1>4. CASE UpdateCredentialData
  <2>1. cred' \in Row /\ edit' \in Row \cup {NoRow}
    BY <1>0, <1>4 DEF TypeOK, UpdateCredentialData
  <2> QED BY <1>0, <1>01, <1>4, <2>1 DEF LoadInv, TypeOK, AskedOK, UpdateCredentialData, prompt, loading
<1>5. ASSUME NEW p \in Paths, UpdateCredentialPath(p)
      PROVE  LoadInv'
  <2>1. edit \in Row
    BY <1>0, <1>5 DEF TypeOK, UpdateCredentialPath
  <2>2. cred' \in Row /\ wanted' \in Paths /\ overlapped' \in BOOLEAN /\ edit' = NoRow
    BY <1>5, <2>1, RowFields DEF UpdateCredentialPath
  <2> QED BY <1>0, <1>01, <1>5, <2>2 DEF LoadInv, TypeOK, AskedOK, UpdateCredentialPath, prompt, loading
<1> QED BY <1>1, <1>2, <1>3, <1>4, <1>5

LEMMA LoadInvStep ==
    ASSUME GuardInv, LoadInv, [Next]_vars
    PROVE  GuardInv' /\ LoadInv'
<1>1. GuardInv' /\ GuardTypeOK'
  BY GuardOfNext, GuardStep DEF GuardInv
<1>2. CASE UNCHANGED desktopVars
  BY <1>1, <1>2, LoadSame
<1>3. CASE ~(UNCHANGED desktopVars)
  BY <1>1, <1>3, OwnType, UserType DEF Next, OwnStep, User, Host, Shutdown, vars
<1> QED BY <1>1, <1>2, <1>3

LEMMA LoadInvInit == Init => GuardInv /\ LoadInv
<1> SUFFICES ASSUME Init PROVE GuardInv /\ LoadInv
  OBVIOUS
<1>1. GuardInv
  BY GuardInitHolds DEF Init
<1>2. cred \in Row
  BY PathAssumption DEF Init, Row
<1>3. /\ asker = << >> /\ asker \in Seq(Calls) /\ Len(asker) = 0
      /\ 0 \in 0 .. MaxAsked
  BY PromptAssumption DEF Init
<1>4. DOMAIN asker = {}
  BY <1>3
<1>5. TypeOK
  BY <1>1, <1>2, <1>3, <1>4, PathAssumption DEF Init, TypeOK, GuardInv
<1>6. RowsRead
  BY DEF Init, RowsRead, Holds
<1> QED BY <1>1, <1>3, <1>5, <1>6 DEF LoadInv, AskedOK

\* Every variable keeps its type in every behaviour.
THEOREM DesktopTypes == Spec => []TypeOK
<1>1. Init => GuardInv /\ LoadInv
  BY LoadInvInit
<1>2. GuardInv /\ LoadInv /\ [Next]_vars => GuardInv' /\ LoadInv'
  BY LoadInvStep
<1>3. LoadInv => TypeOK
  BY DEF LoadInv
<1> QED BY <1>1, <1>2, <1>3, PTL DEF Spec

-----------------------------------------------------------------------------
(* The edits                                                               *)

\* While no edit was written over a row somebody holds, every copy of the row,
\* in the table, in an edit and in a load, names the file the user set.
RowsFresh ==
    ~overlapped =>
        /\ cred.path = wanted
        /\ edit # NoRow => edit.path = wanted
        /\ \A c \in Calls : Holds(c) => read[c].path = wanted

LEMMA OwnFresh ==
    ASSUME LoadInv, RowsFresh, NEW c \in Calls,
           \/ Return(c) \/ ReadCredential(c) \/ KeyringOpens(c) \/ AskPassword(c) \/ LoadFails(c)
           \/ Inspect(c) \/ \E r \in DOMAIN asker : TakePassword(c, r) \/ LeavePrompt(c, r)
    PROVE  RowsFresh'
<1>0. /\ load \in [Calls -> {"none", "password", "asking", "loaded", "ready", "failed"}]
      /\ read \in [Calls -> Row \cup {NoRow}]
  BY DEF LoadInv, TypeOK
<1>1. UNCHANGED <<edit, wanted, overlapped>>
  BY DEF Return, ReadCredential, KeyringOpens, AskPassword, LoadFails, Inspect, TakePassword,
         LeavePrompt, credential
<1>2. CASE overlapped
  BY <1>1, <1>2 DEF RowsFresh
<1>3. CASE ~overlapped
  <2>1. /\ cred.path = wanted /\ (edit # NoRow => edit.path = wanted)
        /\ \A d \in Calls : Holds(d) => read[d].path = wanted
    BY <1>3 DEF RowsFresh
  <2>2. ASSUME NEW d \in Calls, d # c
        PROVE  load'[d] = load[d] /\ read'[d] = read[d]
    BY <1>0, <2>2 DEF Return, ReadCredential, KeyringOpens, AskPassword, LoadFails, Inspect,
           TakePassword, LeavePrompt, Load, Fail
  <2>3. /\ Holds(c)' => \/ cred' = cred /\ read'[c] = cred
                        \/ cred' = cred /\ Holds(c) /\ read'[c] = read[c]
        /\ cred'.path = cred.path \/ (Holds(c) /\ cred'.path = read[c].path)
    <3>1. CASE Return(c)
      BY <1>0, <3>1 DEF Return, credential, Holds
    <3>2. CASE ReadCredential(c)
      BY <1>0, <3>2 DEF ReadCredential, credential
    <3>3. CASE Inspect(c)
      BY <1>0, <3>3 DEF Inspect, Holds
    <3>4. CASE KeyringOpens(c) \/ AskPassword(c) \/ LoadFails(c)
      BY <1>0, <3>4 DEF KeyringOpens, AskPassword, LoadFails, Load, Fail, credential, Holds
    <3>5. CASE \E r \in DOMAIN asker : TakePassword(c, r) \/ LeavePrompt(c, r)
      BY <1>0, <3>5 DEF TakePassword, LeavePrompt, Waits, Load, Fail, credential, Holds
    <3> QED BY <3>1, <3>2, <3>3, <3>4, <3>5
  <2>4. cred'.path = wanted
    BY <2>1, <2>3
  <2>5. ASSUME NEW d \in Calls, Holds(d)'
        PROVE  read'[d].path = wanted
    <3>1. CASE d = c
      BY <2>1, <2>3, <2>5, <3>1
    <3>2. CASE d # c
      BY <2>1, <2>2, <2>5, <3>2 DEF Holds
    <3> QED BY <3>1, <3>2
  <2> QED BY <1>1, <2>1, <2>4, <2>5 DEF RowsFresh
<1> QED BY <1>2, <1>3

LEMMA UserFresh ==
    ASSUME LoadInv, RowsFresh,
           \/ \E r \in dialogs, a \in Answers : Answer(r, a)
           \/ \E x \in sending : Deliver(x[1], x[2])
           \/ ReadForEdit \/ UpdateCredentialData \/ \E p \in Paths : UpdateCredentialPath(p)
    PROVE  RowsFresh'
<1>0. load' = load /\ read' = read /\ edit \in Row \cup {NoRow}
  BY DEF LoadInv, TypeOK, Answer, Deliver, ReadForEdit, UpdateCredentialData, UpdateCredentialPath, loading
<1>1. CASE (\E r \in dialogs, a \in Answers : Answer(r, a)) \/ (\E x \in sending : Deliver(x[1], x[2]))
  <2>1. UNCHANGED <<cred, edit, wanted, overlapped>>
    BY <1>1 DEF Answer, Deliver, credential
  <2> QED BY <1>0, <2>1 DEF RowsFresh, Holds
<1>2. CASE ReadForEdit
  BY <1>0, <1>2 DEF ReadForEdit, RowsFresh, Holds
<1>3. CASE UpdateCredentialData
  BY <1>0, <1>3 DEF UpdateCredentialData, RowsFresh, Holds
<1>4. ASSUME NEW p \in Paths, UpdateCredentialPath(p)
      PROVE  RowsFresh'
  <2>1. /\ edit # NoRow /\ edit' = NoRow /\ wanted' = p
        /\ cred' = [edit EXCEPT !.path = p]
        /\ overlapped' = (\E c \in Calls : Holds(c))
    BY <1>4 DEF UpdateCredentialPath
  <2>2. cred'.path = p
    BY <1>0, <2>1, RowFields
  <2>3. ~overlapped' => \A c \in Calls : ~Holds(c)'
    BY <1>0, <2>1 DEF Holds
  <2> QED BY <2>1, <2>2, <2>3 DEF RowsFresh
<1> QED BY <1>1, <1>2, <1>3, <1>4

LEMMA FreshStep ==
    ASSUME LoadInv, RowsFresh, [Next]_vars
    PROVE  RowsFresh'
<1>1. CASE UNCHANGED desktopVars
  BY <1>1 DEF RowsFresh, Holds, desktopVars, credential, loading
<1>2. CASE ~(UNCHANGED desktopVars)
  BY <1>2, OwnFresh, UserFresh DEF Next, OwnStep, User, Host, Shutdown, vars
<1> QED BY <1>1, <1>2

\* The path the user set is the one stored, unless a load that had read the row
\* before was still to write it back (credential/store.go, UpdateCredential).
THEOREM EditsAreKept == Spec => []EditsKept
<1>1. Init => GuardInv /\ LoadInv /\ RowsFresh
  BY LoadInvInit DEF Init, RowsFresh, Holds
<1>2. GuardInv /\ LoadInv /\ RowsFresh /\ [Next]_vars => GuardInv' /\ LoadInv' /\ RowsFresh'
  BY LoadInvStep, FreshStep
<1>3. RowsFresh => EditsKept
  BY DEF RowsFresh, EditsKept
<1> QED BY <1>1, <1>2, <1>3, PTL DEF Spec
=============================================================================
