SPECIFICATION FairSpec
CONSTANTS
    Calls = {c1, c2, c3}
    CheckKeys = {k1}
    ListKeys = {k2}
    Answers = {yes, no}
    Scribbled = Scribbled
    None = None
    MaxChanges = 1
INVARIANTS
    TypeOK
    OneRpcAtATime
    AnswersAgree
    OneMissPerAnswer
    FailuresNotCached
PROPERTIES
    ImplementsOnce
    EveryCallEnds
