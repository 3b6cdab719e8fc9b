\* Two callers, two domains and room for one: eviction, a full map of fresh
\* entries and every race of two callers over one domain happen.
CONSTANTS
    Callers = {t1, t2}
    Domains = {d1, d2}
    MaxEntries = 1
    MaxAddrs = 2
SPECIFICATION Spec
INVARIANTS CacheBounded
PROPERTIES AnswerSurvivesFailure ConnectReturns FailureForgotten
