SPECIFICATION Spec
CONSTANTS
    Blank = Blank
    Missing = Missing
    Torn = Torn
    Whole = Whole
    Opening = Opening
    Closing = Closing
    wa = wa
    wb = wb
    wc = wc
    open = open
    shut = shut
    Empty = Empty
    MaxLines = 6
    Lines <- MCLines
    LineTexts <- MCLineTexts
    LineTasks <- MCLineTasks
    PlainLines <- MCBlockLines
    BlockTexts <- MCBlockTexts
    BlockTasks <- MCBlockTasks
    Words <- MCWords
    ReplaceTexts <- MCReplaceTexts
    ReplaceTasks <- MCReplaceTasks
    Contents <- MCContents
    TemplateTasks <- MCTemplateTasks
    Order <- MCOrder
    CopyTasks <- MCCopyTasks
    CommandTasks <- MCCommandTasks
INVARIANTS
    WholeFiles
    SafeEdits
    KeepsOtherLines
PROPERTIES
    KeepsContract
    Idempotent
    Respects
