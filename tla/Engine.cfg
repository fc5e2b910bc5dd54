SPECIFICATION EngineSpec
CONSTANTS
    Tools <- MCTools
    Arguments <- MCArguments
    Outputs <- MCOutputs
    Files <- MCFiles
    KB = 4
    Docs <- MCDocs
    Source = "doc.md"
    MaxLines = 7
    MaxContext = 2
    Documents <- MCDocuments
    Chunk <- MCChunk
    ConvChunk <- MCConvChunk
    Matching <- MCMatching
    Wanted = {0, 1}
    MaxIndexes = 2
    Url <- MCUrl
    Seeds <- MCSeeds
    Site <- MCSite
    Html <- MCHtml
    NoText <- MCBlank
    MaxPages = 4
    MaxDepth = 2
    Downloads <- MCDownloads
    Lower <- MCLower
    Subdomains <- MCSubdomains
    Stores <- MCStores
    Netrcs <- MCNetrcs
    Requests <- MCRequests
    Statuses = {200, 204, 302}
    MaxRequests = 3
INVARIANTS
    TypeOK ConstraintsHold AuthorDecides DryRunPredicts
    ChunksAreSections GrepIsWindow
      AnswersFromOneIndex
    CrawlTypeOK NoPageTwice WalkIsReach PagesLimited
    ArchiveIsKept AuthIsOfHost
PROPERTIES CutIsTight Returns
CHECK_DEADLOCK FALSE
