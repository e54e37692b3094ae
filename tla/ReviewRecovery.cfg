SPECIFICATION FairSpec
CONSTANTS
    Jobs = {1, 2}
    LLMJobs = {2}
    UnsupportedJobs = {2}
    Owners = {w1}
    Hooks = {h1}
    Documents = {d1}
    Title <- OneTitle
    BatchLimit = 1
    Punctuality = {FALSE}
    MaxFaults = 1
    MaxAttempts = 3
    NoOwner = NoOwner
    NoHook = NoHook
    NoDocument = NoDocument
    NoJob = NoJob
    d1 = d1
    d2 = d2
    d3 = d3
PROPERTIES
    ReviewSettles
    ClassificationAdvances
