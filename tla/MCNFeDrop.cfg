SPECIFICATION Spec
CONSTANTS
    Companies = {"dest", "carrier"}
    Events <- MCEvents
    TypeOf <- MCTypeOf
    AuthorOf <- MCAuthorOf
    RegisteredAt <- MCRegisteredAt
    Queue <- MCQueue
    Importable <- MCImportable
    MaxExports = 0
    MaxResets = 0
PROPERTIES
    DroppedOnlyIfUnseen
