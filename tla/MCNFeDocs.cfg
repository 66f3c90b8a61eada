SPECIFICATION Spec
CONSTANTS
    Companies = {"dest", "carrier"}
    Events <- MCEvents
    TypeOf <- MCTypeOf
    AuthorOf <- MCAuthorOf
    RegisteredAt <- MCRegisteredAt
    Queue <- MCQueue
    Importable <- MCImportable
    MaxExports = 1
    MaxResets = 1
INVARIANTS
    TypeOK
    Referential
    EventsApplied
    WalkedMeansKnown
    ExportComplete
PROPERTIES
    SharedSpec
