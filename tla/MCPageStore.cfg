\* Two workers, two pages with a body in common, written in three calls, and two
\* crashes or write errors.
CONSTANTS
    page1 = page1
    page2 = page2
    text = text
    pdf = pdf
    Workers = {w1, w2}
    Pages = {page1, page2}
    Files = {text, pdf}
    Html = {text}
    Served <- TwoPages
    Chunks = 3
    MaxInterrupts = 2
    Null = Null
SPECIFICATION FairSpec
\* When all pages are completed there is nothing left to do.
CHECK_DEADLOCK FALSE
INVARIANTS
    IInv
    CompletedFilesWhole
PROPERTIES
    FilesSettleForGood
    SharedFilesSettle
