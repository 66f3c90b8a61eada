----------------------------- MODULE Companies -----------------------------
(***************************************************************************)
(* A registered company and the edit of its record (company/manager.go,    *)
(* company/store.go): the environment may change at any time, the date its *)
(* NFS-e history starts at only while no environment of it has an NFS-e    *)
(* cursor.                                                                 *)
(*                                                                         *)
(* The edit checks in one statement and writes in another.  One edit is    *)
(* under way at a time, in the desktop or in the CLI.  Of the sync, this   *)
(* module has the rows of sync_state; NFSePull moves them.                 *)
(***************************************************************************)
EXTENDS Integers

CONSTANTS
    Envs,           \* the environments of the SEFAZ and of the ADN
    Starts,         \* dates the history of a company may start at, 0 for `all'
    Registrations,  \* the companies a user may register: env and start
    EditInputs,     \* what an edit may ask for: env and start
    MaxEdits        \* bound on edits

CompanyRow == [env : Envs, start : Starts]

ASSUME CompaniesAssumption ==
    /\ Registrations \subseteq CompanyRow
    /\ EditInputs \subseteq CompanyRow
    /\ Starts \subseteq Nat
    /\ "none" \notin Envs
    /\ MaxEdits \in Nat

VARIABLES
    company,        \* the companies row: its environment and start
    cursor,         \* the sync_state rows: last_checked_nsu by environment
    editing,        \* an edit between its check and its write
    edits,          \* edits so far
    overlapped      \* history: the start changed by an edit that overlapped a pull

companyVars == <<company, cursor, editing, edits, overlapped>>

NoCompany == [env |-> "none", start |-> 0]
NoCursor == -1
NoEdit == [start |-> -1]
CompaniesTypeOK ==
    /\ company \in {NoCompany} \cup CompanyRow
    /\ cursor \in [Envs -> Nat \cup {NoCursor}]
    /\ editing \in {NoEdit} \cup [env : Envs, start : Starts, raced : BOOLEAN]
    /\ edits \in 0 .. MaxEdits
    /\ overlapped \in BOOLEAN

CompaniesInit ==
    /\ company = NoCompany
    /\ cursor = [e \in Envs |-> NoCursor]
    /\ editing = NoEdit
    /\ edits = 0
    /\ overlapped = FALSE

\* The CNPJ is unique: a second registration fails.
AddCompany ==
    /\ company = NoCompany
    /\ company' \in Registrations
    /\ UNCHANGED <<cursor, editing, edits, overlapped>>

\* Mutant of HasSyncState: only the current environment is looked at.
HasStateHere == company.env \in Envs /\ cursor[company.env] # NoCursor

HasSyncState == \E e \in Envs : cursor[e] # NoCursor

\* UpdateCompany up to its check.  An empty policy keeps the stored one.
\* busy: a pull is under way.
CheckEdit(input, busy) ==
    /\ company # NoCompany
    /\ editing = NoEdit
    /\ edits < MaxEdits
    /\ edits' = edits + 1
    /\ \E start \in {input.start, company.start} :
          /\ start # company.start => ~HasSyncState
          /\ editing' = [env |-> input.env, start |-> start, raced |-> busy]
    /\ UNCHANGED <<company, cursor, overlapped>>

\* The write replaces every editable field.
WriteEdit ==
    /\ editing # NoEdit
    /\ company' = [env |-> editing.env, start |-> editing.start]
    /\ overlapped' = (overlapped \/ (editing.raced /\ editing.start # company.start))
    /\ editing' = NoEdit
    /\ UNCHANGED <<cursor, edits>>

\* The write fails, or the process dies.
AbandonEdit ==
    /\ editing # NoEdit
    /\ editing' = NoEdit
    /\ UNCHANGED <<company, cursor, edits, overlapped>>

\* A pull that starts overlaps the edit under way.
MarkRaced ==
    editing' = IF editing = NoEdit THEN NoEdit
               ELSE [env |-> editing.env, start |-> editing.start, raced |-> TRUE]
=============================================================================
