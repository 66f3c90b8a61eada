---------------------------- MODULE MCPartsProofs ---------------------------
(***************************************************************************)
(* What the runs of MCParts check of each part is proved of its own        *)
(* specification, in the modules this one extends.  Here: the composition  *)
(* lets each part do what its specification does and nothing else.  In a   *)
(* step of another part its variables do not change, whichever part the    *)
(* initial state chose.                                                    *)
(***************************************************************************)
EXTENDS MCParts, StoreProofs, ManifestacaoProofs, DocumentPageProofs, TLAPS

\* Every part of the composition behaves as its specification says.
THEOREM PartsAsSpecified ==
    Spec => /\ CTeSpec /\ NFSeSpec /\ NFSeExportSpec
            /\ ManifSpec /\ PartSpec /\ PageSpec
            /\ HTTPSpec /\ LogSpec
  <1>1. Init => /\ CTeInit /\ NFSeInit /\ NFSeExportInit
                /\ ManifInit /\ PartInit /\ PageInit
                /\ HTTPInit /\ LogInit
    BY DEF Init
  <1>2. [Next]_<<part, storeVars, viewVars, ioVars>> =>
            /\ [CTeNext]_cteVars /\ [NFSeNext]_nfseVars /\ [NFSeExportNext]_nfseExportVars
            /\ [ManifNext]_manifVars /\ [PartNext]_partVars /\ [PageNext]_pageVars
            /\ [HTTPNext]_httpVars /\ [LogNext]_logVars
    BY DEF Next, storeVars, viewVars, ioVars
  <1> QED
    BY <1>1, <1>2, PTL DEF Spec, CTeSpec, NFSeSpec, NFSeExportSpec, ManifSpec, PartSpec, PageSpec,
                           HTTPSpec, LogSpec

\* Every table, cursor, file, call and dialog of every part keeps its type, for
\* every value of the constants of the parts.
THEOREM PartsTypes == Spec => []TypeOK
  <1>1. /\ CTeTypeOK /\ NFSeTypeOK /\ NFSeExportTypeOK /\ ManifTypeOK
        /\ PartTypeOK /\ PageTypeOK /\ HTTPTypeOK /\ LogTypeOK
        => TypeOK
    BY DEF TypeOK
  <1> QED
    BY <1>1, PartsAsSpecified, CTeTypeCorrect, PullTypes, ExportTypes, ManifTypes, PartTypes,
       PageTypes, CallTypes, LogTypes, PTL

\* And all the properties the runs check of the parts hold of their composition.
COROLLARY PartsHold ==
    Spec => /\ [](CTeExportComplete /\ StatusFollowsEvents /\ PolicyKept /\ RunsInterrupted)
            /\ [](NFSeExportComplete /\ OneConclusive /\ ManifestacaoIsRegistered)
            /\ [](ShownOfHeader /\ MarkersHonest /\ SendsJustified /\ PendingIsDue /\ LogsInOrder)
            /\ CTeSharedSpec
  BY PartsAsSpecified, CTeExportsMissNothing, StatusIsOfEvents, PolicyIsKept, RunsAreInterrupted,
     ExportsComplete, ConclusiveOnce, KnownIsRegistered, PageShowsHeader, PageMarkersHonest,
     SendsAreJustified, PendingAreDue, LogsAreInOrder, CTeImplementsShared, PTL
=============================================================================
