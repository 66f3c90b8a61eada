------------------------------- MODULE MCParts ------------------------------
(* The instances of the stores of CT-e and NFS-e, of the manifestações, of  *)
(* the roles and deadlines, of the document page, of the HTTP client and of *)
(* the log files.  They share no variable, so that one run checks them: the *)
(* initial state chooses one, and only that one moves.                      *)
EXTENDS CTeDocs, NFSePull, NFSeExport, Manifestacao, Participation, DocumentPage,
        HTTPClient, LogFiles

VARIABLE part

storeVars == <<cteVars, nfseVars, nfseExportVars>>
viewVars == <<manifVars, partVars, pageVars>>
ioVars == <<httpVars, logVars>>

\* One of the initial states of the page and of the nota, while another part
\* moves.
PageAtRest ==
    /\ session = CHOOSE s \in Sessions : TRUE
    /\ competence = CHOOSE m \in Competences : TRUE
    /\ stored = None
NotaAtRest == nota = CHOOSE n \in Notas : TRUE

Init ==
    /\ part \in {"cte", "nfse", "export", "manifestacao", "participation", "page", "http", "log"}
    /\ CTeInit /\ NFSeInit /\ NFSeExportInit /\ ManifInit /\ PartInit /\ PageInit
    /\ HTTPInit /\ LogInit
    /\ part = "page" \/ PageAtRest
    /\ part = "participation" \/ NotaAtRest

Next ==
    /\ UNCHANGED part
    /\ \/ part = "cte" /\ CTeNext /\ UNCHANGED <<nfseVars, nfseExportVars, viewVars, ioVars>>
       \/ part = "nfse" /\ NFSeNext /\ UNCHANGED <<cteVars, nfseExportVars, viewVars, ioVars>>
       \/ part = "export" /\ NFSeExportNext /\ UNCHANGED <<cteVars, nfseVars, viewVars, ioVars>>
       \/ part = "manifestacao" /\ ManifNext /\ UNCHANGED <<storeVars, partVars, pageVars, ioVars>>
       \/ part = "participation" /\ PartNext /\ UNCHANGED <<storeVars, manifVars, pageVars, ioVars>>
       \/ part = "page" /\ PageNext /\ UNCHANGED <<storeVars, manifVars, partVars, ioVars>>
       \/ part = "http" /\ HTTPNext /\ UNCHANGED <<storeVars, viewVars, logVars>>
       \/ part = "log" /\ LogNext /\ UNCHANGED <<storeVars, viewVars, httpVars>>

Spec == Init /\ [][Next]_<<part, storeVars, viewVars, ioVars>>

\* Every table, cursor, file and call of the part that moves keeps its type; a
\* mark never counts more events than the CT-e has, and a pull never writes to
\* a run that has no row.
TypeOK ==
    /\ part = "cte" => CTeTypeOK
    /\ part = "nfse" => NFSeTypeOK
    /\ part = "export" => NFSeExportTypeOK
    /\ part = "manifestacao" => ManifTypeOK
    /\ part = "participation" => PartTypeOK
    /\ part = "page" => PageTypeOK
    /\ part = "http" => HTTPTypeOK
    /\ part = "log" => LogTypeOK

-----------------------------------------------------------------------------
(* The tomador receives the CT-e whole; the party in autXML receives it    *)
(* masked, and an event of the tomador before it.  The tomador may import  *)
(* the document and a copy of the cancelamento that the SEFAZ rejected.    *)

CTeDoc(masked) ==
    [kind |-> "document", version |-> [masked |-> masked, situacao |-> "autorizada"]]
CTeEv(e, copy) == [kind |-> "event", event |-> e, copy |-> copy]

MCCTeAuthorOf == [cancelamento |-> "emitente", desacordo |-> "tomador"]
MCCTeQueue ==
    [tomador |-> <<CTeDoc(FALSE), CTeEv("cancelamento", "registered")>>,
     autxml |-> <<CTeEv("desacordo", "registered"), CTeDoc(TRUE),
                  CTeEv("cancelamento", "registered")>>]
MCCTeImportable ==
    [tomador |-> {CTeEv("cancelamento", "rejected"), CTeDoc(FALSE)}, autxml |-> {}]

-----------------------------------------------------------------------------
(* Production has an NFS-e and its cancelamento, the test environment is   *)
(* empty.  The NFS-e is older than the later of the starts a company may  *)
(* have; an edit may change the environment, the start or both.            *)

MCNFSeFeed ==
    [prod |-> <<[kind |-> "document", chave |-> "nota", date |-> 1],
                [kind |-> "event", chave |-> "nota", type |-> "cancelamento"]>>,
     test |-> <<>>]
MCRegistrations == {[env |-> "prod", start |-> 2], [env |-> "prod", start |-> 0]}
MCEditInputs == {[env |-> "test", start |-> 2], [env |-> "test", start |-> 0]}

\* Its bytes differ from one walk of the prestador to the next.
MCHanded == [prestador |-> <<"a", "b">>, tomador |-> <<"a">>]

-----------------------------------------------------------------------------
(* The company may confirm the operation of its first NF-e on another      *)
(* program.                                                                *)

MCElsewhere == {[chave |-> 1, tipo |-> "confirmacao"]}

-----------------------------------------------------------------------------
(* A matriz and its filial: each is a party of some notas and none of       *)
(* others, the matriz invoices itself once, and a CT-e points to its tomador *)
(* or names it.                                                             *)

MCRootOf == [matriz |-> "1", filial |-> "1", outra |-> "2", pessoa |-> NoRoot]
NotaOf(kind, tipo, pointer, named, who) ==
    [kind |-> kind, tipo |-> tipo, pointer |-> pointer, named |-> named,
     parties |-> [f \in Fields |-> IF f \in DOMAIN who THEN who[f] ELSE {}]]
NFeOf(who) == NotaOf("nfe", "cte", 0, {}, who)
MCNotas ==
    {NFeOf([destinatario |-> {"matriz"}, emitente |-> {"outra"}]),
     NFeOf([destinatario |-> {"pessoa"}, emitente |-> {"outra"}, transportador |-> {"filial"},
            autorizado |-> {"matriz", "filial"}]),
     NFeOf([destinatario |-> {"matriz"}, emitente |-> {"matriz"}]),
     NotaOf("cte", "cte", 3, {}, [remetente |-> {"outra"}, destinatario |-> {"filial"},
                                  emitente |-> {"outra"}, autorizado |-> {"matriz"}]),
     NotaOf("cte", "gtve", 1, {}, [remetente |-> {"filial"}, destinatario |-> {"matriz"}]),
     NotaOf("cte", "cte_os", 0, {"matriz"}, [emitente |-> {"filial"}]),
     NotaOf("nfse", "cte", 0, {}, [prestador |-> {"outra"}, tomador |-> {"filial"}])}

-----------------------------------------------------------------------------
(* A user who does everything at once takes the page past what can be      *)
(* explored, so that each session does a few things, with the calls and    *)
(* the loads these need to meet.                                           *)

Session(page, uses, loadsAtOnce, busy) ==
    [source |-> page, uses |-> uses, loads |-> loadsAtOnce, busy |-> busy]
MCSessions ==
    {Session("nfse", {"companies", "list", "months"}, 1, 2),
     Session("nfse", {"sync", "companies"}, 1, 2),
     Session("cte", {"months"}, 2, 0),
     Session("cte", {"sync"}, 0, 2),
     Session("nfe", {"sync"}, 0, 1),
     Session("nfe", {"events"}, 0, 2),
     Session("nfe", {"events"}, 1, 1),
     Session("nfe", {"months"}, 1, 0)}
=============================================================================
