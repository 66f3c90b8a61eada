------------------------------ MODULE Desktop ------------------------------
(***************************************************************************)
(* The operations of the desktop (CloseGuard) and the certificate they     *)
(* load: the credential's row, the password in the keyring, the prompt the *)
(* frontend shows and the edits the user makes meanwhile                   *)
(* (sync/certificate.go, app/keyring.go, desktop/app_runtime.go,           *)
(* credential/manager.go, credential/store.go).                            *)
(*                                                                         *)
(* Every call here consults for one company with one credential.  A path   *)
(* stands for the PKCS#12 file it names, and for the password of the file. *)
(***************************************************************************)
EXTENDS CloseGuard, Sequences

CONSTANTS
    Paths,      \* the certificate files
    RootOf,     \* [Paths -> CNPJ roots], the owner of each certificate
    Root,       \* the root of the company
    FirstPath,  \* the file the credential was registered with
    MaxAsked    \* bound on password prompts and edits of the credential

ASSUME PathAssumption == FirstPath \in Paths /\ DOMAIN RootOf = Paths
ASSUME PromptAssumption == MaxAsked \in Nat

VARIABLES
    cred,       \* the credentials row: its path and the root last inspected
    load,       \* where LoadForCompany of each call is
    read,       \* the row it read
    loaded,     \* the file it opened
    asker,      \* the call that made each request, by request id
    chans,      \* passwordChans: the requests waited for
    mailbox,    \* what each channel holds
    dialogs,    \* the requests the frontend shows
    sending,    \* answers that found their channel and are about to be sent
    keyring,    \* the password the OS keeps for the credential
    edit,       \* the row an edit read
    edits,      \* edits so far
    wanted,     \* history: the path of the last edit of the path
    overlapped  \* history: an edit was written while a row read before it was held

prompt == <<asker, chans, mailbox, dialogs, sending>>
credential == <<cred, edit, edits, wanted, overlapped>>
loading == <<load, read, loaded>>
desktopVars == <<prompt, credential, loading, keyring>>
vars == <<guardVars, desktopVars>>

NoPath == "none"
Canceling == "cancel"
Answers == Paths \cup {Canceling}
Requests == 1 .. MaxAsked
NoRow == [path |-> NoPath, owner |-> NoPath]
Row == [path : Paths, owner : {NoPath} \cup {RootOf[p] : p \in Paths}]

TypeOK ==
    /\ GuardTypeOK
    /\ cred \in Row
    /\ load \in [Calls -> {"none", "password", "asking", "loaded", "ready", "failed"}]
    /\ read \in [Calls -> Row \cup {NoRow}]
    /\ loaded \in [Calls -> Paths \cup {NoPath}]
    /\ Len(asker) \in 0 .. MaxAsked
    /\ \A r \in DOMAIN asker : asker[r] \in Calls
    /\ chans \subseteq DOMAIN asker
    /\ mailbox \in [Requests -> Answers \cup {NoPath}]
    /\ dialogs \subseteq DOMAIN asker
    /\ sending \subseteq (DOMAIN asker) \X Answers
    /\ keyring \in Paths \cup {NoPath}
    /\ edit \in Row \cup {NoRow}
    /\ edits \in 0 .. MaxAsked
    /\ wanted \in Paths
    /\ overlapped \in BOOLEAN

\* The credential may have been used in an earlier session.
Init ==
    /\ GuardInit
    /\ cred \in [path : {FirstPath}, owner : {NoPath, RootOf[FirstPath]}]
    /\ load = [c \in Calls |-> "none"]
    /\ read = [c \in Calls |-> NoRow]
    /\ loaded = [c \in Calls |-> NoPath]
    /\ asker = << >>
    /\ chans = {}
    /\ mailbox = [r \in Requests |-> NoPath]
    /\ dialogs = {}
    /\ sending = {}
    /\ keyring = IF cred.owner = NoPath THEN NoPath ELSE FirstPath
    /\ edit = NoRow
    /\ edits = 0
    /\ wanted = FirstPath
    /\ overlapped = FALSE

-----------------------------------------------------------------------------
(* LoadForCompany.                                                         *)

ReadCredential(c) ==
    /\ stage[c] = "core" /\ method[c].loads /\ app # "closed"
    /\ load[c] = "none"
    /\ load' = [load EXCEPT ![c] = "password"]
    /\ read' = [read EXCEPT ![c] = cred]
    /\ UNCHANGED <<guardVars, prompt, credential, loaded, keyring>>

\* Password a opens the file the row names.
Opens(c, a) == a = read[c].path

\* The call has the password, and the file it opened with it.
Load(c) ==
    /\ load' = [load EXCEPT ![c] = "loaded"]
    /\ loaded' = [loaded EXCEPT ![c] = read[c].path]

Fail(c) ==
    /\ load' = [load EXCEPT ![c] = "failed"]
    /\ UNCHANGED loaded

KeyringOpens(c) ==
    /\ app # "closed"
    /\ load[c] = "password" /\ Opens(c, keyring)
    /\ Load(c)
    /\ UNCHANGED <<guardVars, prompt, credential, read, keyring>>

\* GetCertPassword of the frontend; the event is dropped once the app's
\* context ended.
AskPassword(c) ==
    LET r == Len(asker) + 1
    IN  /\ app # "closed"
        /\ load[c] = "password" /\ ~Opens(c, keyring)
        /\ r + edits \in Requests
        /\ asker' = Append(asker, c)
        /\ chans' = chans \cup {r}
        /\ dialogs' = IF app = "running" THEN dialogs \cup {r} ELSE dialogs
        /\ load' = [load EXCEPT ![c] = "asking"]
        /\ UNCHANGED <<guardVars, credential, mailbox, sending, read, loaded, keyring>>

\* Call c waits on the channel of request r.
Waits(c, r) == load[c] = "asking" /\ r \in chans /\ asker[r] = c /\ app # "closed"

\* The deferred delete of GetCertPassword: nobody reads the channel any more.
Forget(r) ==
    /\ chans' = chans \ {r}
    /\ mailbox' = [mailbox EXCEPT ![r] = NoPath]
    /\ sending' = {x \in sending : x[1] # r}

\* The select takes a password: verified, it may be saved in the keyring.
TakePassword(c, r) ==
    /\ Waits(c, r) /\ mailbox[r] \in Paths
    /\ Forget(r)
    /\ IF Opens(c, mailbox[r])
       THEN Load(c) /\ keyring' \in {keyring, mailbox[r]}
       ELSE Fail(c) /\ UNCHANGED keyring
    /\ UNCHANGED <<guardVars, credential, asker, dialogs, read>>

\* Mutant of LeavePrompt: the prompt waits for an answer alone.
LeaveAnswered(c, r) ==
    /\ Waits(c, r)
    /\ mailbox[r] = Canceling
    /\ Forget(r)
    /\ Fail(c)
    /\ UNCHANGED <<guardVars, credential, asker, dialogs, read, keyring>>

\* The select takes the nil of CancelPassword, or sees the context ended.
LeavePrompt(c, r) ==
    /\ Waits(c, r)
    /\ mailbox[r] = Canceling \/ canceled[c]
    /\ Forget(r)
    /\ Fail(c)
    /\ UNCHANGED <<guardVars, credential, asker, dialogs, read, keyring>>

\* The file is missing, or the context or the database fails a step.
LoadFails(c) ==
    /\ load[c] \in {"password", "loaded"} /\ app # "closed"
    /\ Fail(c)
    /\ UNCHANGED <<guardVars, prompt, credential, read, keyring>>

\* The root of the certificate just inspected.
Owner(c) == RootOf[loaded[c]]

\* The inspection is stored with the row read before the password, and the
\* certificate must belong to the root of the company.
Inspect(c) ==
    /\ load[c] = "loaded" /\ app # "closed"
    /\ cred' = [path |-> read[c].path, owner |-> Owner(c)]
    /\ load' = [load EXCEPT ![c] = IF Owner(c) = Root THEN "ready" ELSE "failed"]
    /\ UNCHANGED <<guardVars, prompt, edit, edits, wanted, overlapped, read, loaded, keyring>>

-----------------------------------------------------------------------------
(* The frontend.                                                           *)

\* SubmitPassword or CancelPassword looks the channel up.
Answer(r, a) ==
    /\ r \in dialogs /\ app = "running"
    /\ dialogs' = dialogs \ {r}
    /\ sending' = IF r \in chans THEN sending \cup {<<r, a>>} ELSE sending
    /\ UNCHANGED <<guardVars, credential, loading, keyring, asker, chans, mailbox>>

\* And sends, without waiting: a channel holds one answer.
Deliver(r, a) ==
    /\ <<r, a>> \in sending
    /\ sending' = sending \ {<<r, a>>}
    /\ mailbox' = IF mailbox[r] = NoPath
                  THEN [mailbox EXCEPT ![r] = a] ELSE mailbox
    /\ UNCHANGED <<guardVars, credential, loading, keyring, asker, chans, dialogs>>

\* UpdateCredentialPath and UpdateCredentialData read the row.
ReadForEdit ==
    /\ edit = NoRow /\ Len(asker) + edits < MaxAsked /\ app = "running"
    /\ edit' = cred
    /\ edits' = edits + 1
    /\ UNCHANGED <<guardVars, prompt, loading, keyring, cred, wanted, overlapped>>

\* A call holds a row it will write back.
Holds(c) == load[c] \in {"password", "asking", "loaded"}

\* UpdateCredentialPath writes the row it read with the new path.
UpdateCredentialPath(p) ==
    /\ edit # NoRow /\ app # "closed"
    /\ cred' = [edit EXCEPT !.path = p]
    /\ wanted' = p
    /\ overlapped' = (\E c \in Calls : Holds(c))
    /\ edit' = NoRow
    /\ UNCHANGED <<guardVars, prompt, loading, keyring, edits>>

\* UpdateCredentialData writes it with a new label, which is left out.
UpdateCredentialData ==
    /\ edit # NoRow /\ app # "closed"
    /\ cred' = edit
    /\ edit' = NoRow
    /\ UNCHANGED <<guardVars, prompt, loading, keyring, edits, wanted, overlapped>>

-----------------------------------------------------------------------------

\* Mutant of Return: the inspection is stored when the call returns.
ReturnAndStore(c) ==
    /\ load[c] \in {"none", "ready", "failed"}
    /\ CoreEnds(c)
    /\ load' = [load EXCEPT ![c] = "none"]
    /\ read' = [read EXCEPT ![c] = NoRow]
    /\ loaded' = [loaded EXCEPT ![c] = NoPath]
    /\ cred' = IF load[c] = "ready" THEN [read[c] EXCEPT !.owner = Owner(c)] ELSE cred
    /\ UNCHANGED <<prompt, keyring, edit, edits, wanted, overlapped>>

\* A method that loads a certificate returns before, or once it did.
Return(c) ==
    /\ load[c] \in {"none", "ready", "failed"}
    /\ CoreEnds(c)
    /\ load' = [load EXCEPT ![c] = "none"]
    /\ read' = [read EXCEPT ![c] = NoRow]
    /\ loaded' = [loaded EXCEPT ![c] = NoPath]
    /\ UNCHANGED <<prompt, credential, keyring>>

\* What call c does by itself.
OwnStep(c) ==
    \/ (Cancelable(c) \/ End(c)) /\ UNCHANGED desktopVars
    \/ Return(c)
    \/ ReadCredential(c) \/ KeyringOpens(c) \/ AskPassword(c) \/ LoadFails(c) \/ Inspect(c)
    \/ \E r \in DOMAIN asker : TakePassword(c, r) \/ LeavePrompt(c, r)

User ==
    \/ \E c \in Calls :
          /\ CancelCall(c) \/ \E name \in Bound[c] : Begin(c, name)
          /\ UNCHANGED desktopVars
    \/ (\E k \in Keys : CancelSync(k)) /\ UNCHANGED desktopVars
    \/ (CloseWindow \/ Stay \/ ConfirmQuit \/ BeginInstall) /\ UNCHANGED desktopVars
    \/ \E r \in dialogs, a \in Answers : Answer(r, a)
    \/ ReadForEdit \/ UpdateCredentialData \/ \E p \in Paths : UpdateCredentialPath(p)

\* What Wails and the updater do.
Host ==
    \/ (EndInstall \/ Restart) /\ UNCHANGED desktopVars
    \/ (\E c \in Calls : CancelByShutdown(c)) /\ UNCHANGED desktopVars
    \/ \E x \in sending : Deliver(x[1], x[2])

Shutdown == (ServiceShutdown \/ WaitIdle \/ WaitExpires \/ Cleanup) /\ UNCHANGED desktopVars

Next == (\E c \in Calls : OwnStep(c)) \/ User \/ Host \/ Shutdown

\* A call goes on by itself unless it waits for the user, and Wails goes
\* through with a shutdown.  The user owes nothing, nor does a download.
Fairness ==
    /\ \A c \in Calls : WF_vars(OwnStep(c))
    /\ WF_vars(Shutdown)

Spec == Init /\ [][Next]_vars /\ Fairness

-----------------------------------------------------------------------------

\* The path the user set is the one stored, unless a load that had read the row
\* before was still to write it back (UpdateCredential writes every column).
EditsKept == cred.path = wanted \/ overlapped

\* A call whose context ended returns, with a prompt open or not, unless the
\* process ends before.
CancelEnds == \A c \in Calls :
    (stage[c] = "core" /\ canceled[c]) ~> (stage[c] = "idle" \/ app = "closed")

\* Once the window left, the database is closed, whatever the operations do.
ShutdownEnds == (window = "leaving") ~> (app = "closed")
=============================================================================
