------------------------------ MODULE NSUFeed ------------------------------
(***************************************************************************)
(* What a distribution cursor promises.                                    *)
(*                                                                         *)
(* A tax authority numbers the documents of a company (NSU) and hands them *)
(* out in order.  The reader keeps one number, pos, and the NSUs it dealt  *)
(* with.  Whatever happens to the process that reads, every document at or *)
(* below pos was dealt with, or the authority itself moved pos over it     *)
(* (answer 656).                                                           *)
(***************************************************************************)
EXTENDS Naturals

CONSTANT Present    \* the NSUs that carry something; the others are gaps

VARIABLES pos, handled, lost

feedVars == <<pos, handled, lost>>

Between(low, high) == {n \in Present : low < n /\ n <= high}

Init == pos = 0 /\ handled = {} /\ lost = {}

\* The next document is dealt with and the cursor moves to it, in one step.
Take(n) ==
    /\ Between(pos, n) = {n}
    /\ pos' = n
    /\ handled' = handled \cup {n}
    /\ UNCHANGED lost

\* The cursor moves over numbers that carry nothing.
Pass ==
    /\ pos' \in Nat
    /\ pos' > pos
    /\ Between(pos, pos') = {}
    /\ UNCHANGED <<handled, lost>>

\* The authority moves the cursor without handing out what lies between.
Jump ==
    /\ pos' \in Nat
    /\ pos' > pos
    /\ lost' = lost \cup (Between(pos, pos') \ handled)
    /\ UNCHANGED handled

\* A walk from the start deals with the first document again.
Rewind(n) ==
    /\ n <= pos
    /\ Between(0, n) = {n}
    /\ pos' = n
    /\ handled' = handled \cup {n}
    /\ UNCHANGED lost

\* The reader is reset, with or without what it had stored.
Restart ==
    /\ pos' = 0
    /\ handled' \in {handled, {}}
    /\ lost' = {}

Next ==
    \/ \E n \in Present : Take(n) \/ Rewind(n)
    \/ Pass
    \/ Jump
    \/ Restart

Spec == Init /\ [][Next]_feedVars

\* Nothing at or below the cursor is missing.
Complete == Between(0, pos) \subseteq handled \cup lost
=============================================================================
