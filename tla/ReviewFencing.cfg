SPECIFICATION PipelineSpec
CONSTANTS
    Jobs = {1}
    LLMJobs = {}
    UnsupportedJobs = {}
    Owners = {w1, w2}
    Hooks = {h1}
    Documents = {d1, d2, d3}
    Title <- MixedTitles
    BatchLimit = 1
    Punctuality = {TRUE, FALSE}
    MaxFaults = 2
    MaxAttempts = 3
    NoOwner = NoOwner
    NoHook = NoHook
    NoDocument = NoDocument
    NoJob = NoJob
    d1 = d1
    d2 = d2
    d3 = d3
SYMMETRY Symmetry
INVARIANTS
    PipelineTypeOK
    EpochsNameOneProcess
    PublishedDocumentExists
    EveryOpenReviewIsListed
    OneDocumentPerReflection
PROPERTIES
    StaleWorkerIsPowerless
