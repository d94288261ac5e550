SPECIFICATION FairSpec
CONSTANTS
    Alphabet <- SomeSymbols
    Sendable <- SomeStream
    ContentLength = 3
    BufferSize = 13
    MaxChunk = 2
    Heads <- SomeHeads
    Documents <- SomeDocuments
    MaxReceived = 10
    MaxMappings = 2
    ReaderSymbols <- SomeReaderSymbols
    SmallBuffer = 8
    MaxPiece = 2
    Letters <- SomeLetters
    NameBuffer = 5
    MaxSent = 6
    Nothing = Nothing
INVARIANTS
    
    TypesOK
    AnswersAreRight
    AnswerIsVerdict
    FirstLineIsRun
PROPERTIES
    ProcessReadReturns

\* The server of 8-6 answers one request and ends; a CGI connection ends with its program.
CHECK_DEADLOCK FALSE
