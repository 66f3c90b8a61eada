--------------------------- MODULE SharedDocument ---------------------------
(***************************************************************************)
(* What a database shared by several companies promises of one fiscal      *)
(* document.  holders are the companies that see it.  While one of them    *)
(* does, what is known of the document only grows: a complete XML is never *)
(* given up for a summary, and its situation only gets more severe.  A     *)
(* company that leaves takes the document with it only if it was the last. *)
(***************************************************************************)
EXTENDS Naturals

CONSTANTS Members, Severities      \* Severities \subseteq Nat, 0 for `unknown'

VARIABLES
    holders,    \* the companies that see the document
    whole,      \* the complete XML is there
    severity    \* of its situation, 0 without a document

docVars == <<holders, whole, severity>>

Init == holders = {} /\ whole = FALSE /\ severity = 0

\* Company c, which sees the document from now on, brings a version of it, or
\* an event worsens its situation.
Learn(c) ==
    /\ holders' = holders \cup {c}
    /\ whole' \in BOOLEAN
    /\ whole => whole'
    /\ severity' \in Severities
    /\ severity' >= severity

\* One company leaves; the last one takes the document with it.
Leave(c) ==
    /\ c \in holders
    /\ holders' = holders \ {c}
    /\ IF holders' = {}
       THEN whole' = FALSE /\ severity' = 0
       ELSE UNCHANGED <<whole, severity>>

Next == \E c \in Members : Learn(c) \/ Leave(c)

Spec == Init /\ [][Next]_docVars
=============================================================================
