----------------------------- MODULE MCNFeDocs -----------------------------
(***************************************************************************)
(* An NF-e to the company "dest", carried by the company "carrier"; its    *)
(* issuer is not registered here.  dest's queue brings the resumo, its own *)
(* confirmacao, the completa and the cancelamento.  carrier's queue, which *)
(* the document left after 90 days, brings the cancelamento only; carrier  *)
(* may import the completa, and a copy of the cancelamento that the SEFAZ  *)
(* rejected.  dest may send its confirmacao.                               *)
(***************************************************************************)
EXTENDS NFeDocs

Document(full) ==
    [kind |-> "document", version |-> [full |-> full, situacao |-> "autorizada"]]
Event(e, full, registered) ==
    [kind |-> "event", event |-> e, full |-> full, registered |-> registered, blob |-> TRUE]

MCEvents == {"cancel", "confirm"}
MCTypeOf == [cancel |-> "cancelamento", confirm |-> "confirmacao"]
MCAuthorOf == [cancel |-> "issuer", confirm |-> "dest"]
MCRegisteredAt == [cancel |-> 2, confirm |-> 1]

MCQueue == [c \in {"dest", "carrier"} |->
    IF c = "dest"
    THEN <<Document(FALSE), Event("confirm", FALSE, TRUE), Document(TRUE),
           Event("cancel", FALSE, TRUE)>>
    ELSE <<Event("cancel", TRUE, TRUE)>>]
MCImportable == [c \in {"dest", "carrier"} |->
    IF c = "dest" THEN {} ELSE {Document(TRUE), Event("cancel", TRUE, FALSE)}]
=============================================================================
