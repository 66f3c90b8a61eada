----------------------------- MODULE HTTPClient -----------------------------
(***************************************************************************)
(* One call of the ADN or of the SEFAZ, and the requests it sends          *)
(* (foundation/httpclient, adn/client.go, sefaz/soap.go).  A server may    *)
(* serve a request whose answer never arrives, answer with any status and  *)
(* any body, or stop in the middle of one; the caller's context may end at *)
(* any time.  How long the client waits before a retry is left out.        *)
(***************************************************************************)
EXTENDS Naturals, Sequences

CONSTANT MaxAsked   \* bound on calls

ASSUME AskedAssumption == MaxAsked \in Nat

VARIABLES
    call,       \* the call being made
    requests,   \* history: how each of its requests fared
    ctxEnded,   \* the caller's context ended
    asked       \* calls so far

httpVars == <<call, requests, ctxEnded, asked>>

\* The distribution of the ADN, the one of the SEFAZ, and a lote of events.
Services == {"adn", "dist", "evento"}

\* 404, 500 and the other statuses worth a retry (408, 425, 429, 5xx) stand apart.
Statuses == {"ok", "notFound", "serverError", "retryable", "refused"}

\* What a body holds: what was asked, the ADN's empty queue, a refusal of the
\* SEFAZ, a SOAP fault, none of these; or it is cut or too large.
Bodies == {"good", "empty", "refusal", "fault", "other", "cut"}

Fates == {"lost", "served"}
Request == [status : Fates \cup Statuses, body : Bodies \cup {"none"}]
Outcomes == {"none", "good", "empty", "refusal", "fault", "undecoded", "unread",
             "status", "unanswered", "canceled"}

\* Mutant of RetriesOf: the default of the ADN for every service.
RetriesByDefault(service) == 3

\* How many times Do retries.
RetriesOf(service) == IF service = "adn" THEN 3 ELSE 0

\* How many times post sends again what got no answer.
ResendsOf(service) == IF service = "evento" THEN 1 ELSE 0

HTTPCall == [service : Services, stage : {"attempt", "sent", "waiting", "told"},
         retries : 0 .. 3, resends : 0 .. 1, outcome : Outcomes]

HTTPTypeOK ==
    /\ call \in HTTPCall
    /\ (call.outcome = "none") <=> (call.stage # "told")
    /\ requests \in Seq(Request)
    /\ ctxEnded \in BOOLEAN
    /\ asked \in 0 .. MaxAsked

\* Nobody asked yet: as after a call that told something.
HTTPInit ==
    /\ call = [service |-> "adn", stage |-> "told", retries |-> 0, resends |-> 0,
               outcome |-> "canceled"]
    /\ requests = <<>>
    /\ ctxEnded = TRUE
    /\ asked = 0

Ask(service) ==
    /\ call.stage = "told" /\ asked < MaxAsked
    /\ call' = [service |-> service, stage |-> "attempt", retries |-> RetriesOf(service),
                resends |-> ResendsOf(service), outcome |-> "none"]
    /\ requests' = <<>>
    /\ ctxEnded' = FALSE
    /\ asked' = asked + 1

Tell(outcome) ==
    call' = [service |-> call.service, stage |-> "told", retries |-> call.retries,
             resends |-> call.resends, outcome |-> outcome]

\* The context of the call ends: a cancel, a shutdown, a deadline.
EndContext ==
    /\ call.stage # "told" /\ ~ctxEnded
    /\ ctxEnded' = TRUE
    /\ UNCHANGED <<call, requests, asked>>

\* An attempt sends the request, unless the context ended.
Attempt ==
    /\ call.stage = "attempt"
    /\ IF ctxEnded THEN Tell("canceled") ELSE call' = [call EXCEPT !.stage = "sent"]
    /\ UNCHANGED <<requests, ctxEnded, asked>>

\* Do waits and tries again while its retries last.
MayRetry(outcome) ==
    IF call.retries > 0
    THEN call' = [service |-> call.service, stage |-> "waiting", retries |-> call.retries - 1,
                  resends |-> call.resends, outcome |-> "none"]
    ELSE Tell(outcome)

\* And post starts Do again when nothing was answered.
Unanswered ==
    IF call.retries = 0 /\ call.resends > 0
    THEN call' = [service |-> call.service, stage |-> "attempt",
                  retries |-> RetriesOf(call.service), resends |-> call.resends - 1,
                  outcome |-> "none"]
    ELSE MayRetry("unanswered")

\* No response: the connection failed, or the time of the attempt passed.
NoResponse(fate) ==
    /\ call.stage = "sent"
    /\ requests' = Append(requests, [status |-> fate, body |-> "none"])
    /\ IF ctxEnded THEN Tell("canceled") ELSE Unanswered
    /\ UNCHANGED <<ctxEnded, asked>>

\* The statuses whose body the caller reads itself: the empty queue of the ADN
\* is a 404, a SOAP fault a 500.
Expected(service) ==
    IF service = "adn" THEN {"ok", "notFound"} ELSE {"ok", "serverError"}

\* Not every 404 of the ADN is its empty queue.
NotFound(body) == IF body = "empty" THEN "empty" ELSE "status"

Fault(body) == IF body = "fault" THEN "fault" ELSE "status"

\* Any JSON decodes as an answer of the ADN.
Decoded(service, body) ==
    CASE body = "good" -> "good"
      [] body = "empty" /\ service = "adn" -> "good"
      [] body = "refusal" /\ service # "adn" -> "refusal"
      [] OTHER -> "undecoded"

Read(a) ==
    CASE a.body = "cut" -> "unread"
      [] a.body # "cut" /\ a.status = "notFound" -> NotFound(a.body)
      [] a.body # "cut" /\ a.status = "serverError" -> Fault(a.body)
      [] OTHER -> Decoded(call.service, a.body)

\* What is told apart of the body of an answer: nothing when nobody reads it.
BodiesOf(status) == IF status \in Expected(call.service) THEN Bodies ELSE {"other"}

Retryable == {"serverError", "retryable"}

Answered(a) ==
    /\ call.stage = "sent"
    /\ requests' = Append(requests, a)
    /\ CASE a.status \in Expected(call.service) -> Tell(Read(a))
         [] a.status \in Retryable \ Expected(call.service) -> MayRetry("status")
         [] OTHER -> Tell("status")
    /\ UNCHANGED <<ctxEnded, asked>>

\* waitForRetry: both ends of the wait may be ready at once.
WaitForRetry ==
    /\ call.stage = "waiting"
    /\ \/ call' = [call EXCEPT !.stage = "attempt"]
       \/ ctxEnded /\ Tell("canceled")
    /\ UNCHANGED <<requests, ctxEnded, asked>>

HTTPNext ==
    \/ \E service \in Services : Ask(service)
    \/ EndContext \/ Attempt \/ WaitForRetry
    \/ \E fate \in Fates : NoResponse(fate)
    \/ \E status \in Statuses : \E body \in BodiesOf(status) :
          Answered([status |-> status, body |-> body])

HTTPSpec == HTTPInit /\ [][HTTPNext]_httpVars

-----------------------------------------------------------------------------

\* What the test of the connection makes of a call of the ADN: whether the
\* server took the certificate.
MTLSAccepted(outcome) == outcome \in {"good", "empty", "status"}

WasAnswered(r) == r.status \in Statuses

\* A request is sent again only where that is safe, whatever the servers
\* answer, lose or cut, and a call tells no more than the servers did: a
\* distribution of the SEFAZ, which counts against its limit, is sent once
\* (sefaz/soap.go:110), a lote of events twice at most and never after an
\* answer (soap.go:147), what the ADN answered or refused never again; a queue
\* is empty only if the ADN last said so, a lote unanswered only if no copy of
\* it was, and a certificate accepted only if something was answered.
SendsJustified ==
    LET n == Len(requests)
        earlier == {requests[i] : i \in 1 .. n - 1}
        all == {requests[i] : i \in 1 .. n}
    IN  /\ n <= (CASE call.service = "adn" -> 4
                   [] call.service = "dist" -> 1
                   [] call.service = "evento" -> 2)
        /\ \A r \in earlier :
              IF call.service = "adn"
              THEN r.status \notin {"ok", "notFound", "refused"}
              ELSE ~WasAnswered(r)
        /\ call.outcome = "empty" => requests[n] = [status |-> "notFound", body |-> "empty"]
        /\ call.outcome = "unanswered" /\ call.service # "adn" => \A r \in all : ~WasAnswered(r)
        /\ MTLSAccepted(call.outcome) => \E r \in all : WasAnswered(r)
=============================================================================
