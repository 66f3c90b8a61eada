----------------------------- MODULE MCDesktop -----------------------------
(* Two calls of one company, two certificates of which one is not of its   *)
(* root, two prompts and an edit of the credential.                        *)
EXTENDS Desktop

CONSTANTS c1, c2

MCCalls == {c1, c2}
MCKeys == {"nfe"}
MCKeyOf == [c \in MCCalls |-> "nfe"]
MCBound ==
    [c \in MCCalls |->
        IF c = c1 THEN {"PullNFe"}
        ELSE {"ExportNFeXML"}]
MCPaths == {"matriz", "outra"}
MCRootOf == [p \in MCPaths |-> IF p = "matriz" THEN "A" ELSE "B"]
=============================================================================
