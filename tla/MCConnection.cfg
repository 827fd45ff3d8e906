CONSTANTS
    NumberOf <- MCNumberOf
    Decimal <- MCDecimal
    MaxPort = 65535
    Width <- MCWidth
    MappedPrefix <- MCMappedPrefix
    None = None
    Cases <- MCCases
    ForgedLines <- MCForgedLines
    AnonymousTargets <- MCAnonymousTargets
    MAX_REQUEST_HEAD = 4
    MAX_HEADERS = 3
    CHUNK = 2
    HANDSHAKE_BUFFER = 3
SPECIFICATION ConnSpec
INVARIANTS
    HeadBounded TargetsHaveOneReading DialsWhatWasAuthorized AnsweredAsDocumented
    TokenAnswersArrive ReportedIsNearest ForgedEntriesChangeNothing
PROPERTIES
    ReplayIsExact EveryRequestIsAnswered ClientGoneEndsRequest
CHECK_DEADLOCK FALSE
