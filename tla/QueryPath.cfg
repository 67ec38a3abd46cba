SPECIFICATION Spec
CONSTANTS
    MAX_VISIBLE_ROWS = 2
    MaxNumber = 4
    MAX_RESULT_BYTES = 23
    Names = {"a", "a__2"}
    Statements <- MCStatements
    Harmless <- MCHarmless
    Pages <- MCPages
    Catalogs <- MCCatalogs
    Tables <- MCTables
    MaxChunk = 5
INVARIANTS
    ShownAreTheQuerys
    ReadIsBounded
    StaysValid
    PageIsKeyOrdered
    ChunkingIrrelevant
    PacketIntact
    OneReadIsRun
    HarmlessRuns
