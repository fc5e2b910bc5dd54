SPECIFICATION FairSpec
CONSTANTS
    Chunk <- Doc
    Term <- Word
    Body <- MCBody
    Title <- MCTitle
    Tag <- MCTag
    BodyLen <- MCBodyLen
    BodyScore <- MCBodyScore
    Merger = {m1, m2}
    Searcher = {s1, s2}
    NoOne = NoOne
    Batch <- MCBatch
    Query <- MCQuery
    MaxResults <- MCMaxResults
    MaxChunks = 2
INVARIANTS TypeOK MergedIsRebuilt ScoresInRange
PROPERTIES Linearizable CallsReturn
