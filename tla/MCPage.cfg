SPECIFICATION PageSpec
CONSTANTS
    Companies = {"A", "B"}
    FirstCompany = "A"
    Competences = {"jan", "fev"}
    Notes = {"nota"}
    Sessions <- MCSessions
INVARIANTS
    ResetAsConfirmed
