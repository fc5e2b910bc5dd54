SPECIFICATION CrawlSpec
CONSTANTS
    Url <- MCUrl
    Seeds <- MCSeeds
    Site <- MCSite
    Html <- MCHtml
    NoText <- MCBlank
    MaxPages = 4
    MaxDepth = 2
INVARIANT EachPageSaved
CHECK_DEADLOCK FALSE
