\* The system may stop when it has used up its plans.
SPECIFICATION ManifSpec
CHECK_DEADLOCK FALSE
CONSTANTS
    NFeCount = 1
    ConclusiveTypes = {"confirmacao", "desconhecimento"}
    MaxPerLote = 1
    Retries = 1
    Jobs = {1}
    Elsewhere = {}
    MaxPlans = 2
    MaxForgets = 0
INVARIANTS
    AtMostOneConclusive
