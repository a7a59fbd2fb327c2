SPECIFICATION Spec
CONSTANTS
    Base = 3
    MaxDigits = 2
    MaxId = 7
    Names <- MCNames
    AnyRel = "any"
    Forever = Forever
    PrincipalIds = {0, 1}
    TicksPerSecond = 2
    Impossible = "impossible"
    RelParent = "parent"
    RelUnspecified = "..."
    Texts <- MCTexts
    Tuples <- MCTuples
    Batches <- MCBatches
    Questions <- MCQuestions
    ForeignBatches <- MCForeignBatches
    MaxCommits <- MCMaxCommits
    MaxAdrift <- MCMaxAdrift
    WatchNs = "doc"
    MaxQueue = 2
INVARIANTS
    TypeOK
    ParsesBack
    ReadYourWrites
    ReadsExact
    WholeWrites
    NoLostUpdate
    GrantsNameSomeone
    WatermarkTrue
PROPERTIES
    ImplementsChangelog
    CatchesUp
