\* One analysis, a worker that may hang, three lives of the API process.
SPECIFICATION FairSpec
CONSTANTS
    Analyses = {a1}
    NoAnalysis = NoAnalysis
    MaxStarts = 3
INVARIANTS
    TypeOK
    ResultMatches
PROPERTIES
    CompletedSurvives
    OnlyOrphansReopen
    AnalysisEnds
\* After the last start the process may go down for good.
CHECK_DEADLOCK FALSE
