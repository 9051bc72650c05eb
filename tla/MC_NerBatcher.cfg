\* Three calls, a queue for one, batches of two, two workers.
CONSTANTS
    Calls = {c1, c2, c3}
    Workers = {w1, w2}
    NoAnswer = NoAnswer
    MaxBatch = 2
    QueueSize = 1
SPECIFICATION FairSpec
INVARIANT AnswerIsOwn
INVARIANT ItemInOnePlace
PROPERTY DetectReturns
PROPERTY CloseEnds
