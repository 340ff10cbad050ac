SPECIFICATION AllSpec
CONSTANTS
    Unset = Unset
    Missing = Missing
    Calls <- MCAllCalls
    Others <- MCOthers
    TypeOf <- MCTypeOf
    Globs <- MCGlobs
    MaxOthers = 1
    Now = 10
    Hour = 3
    DefaultRows = 2
    MaxRows = 4
    MaxDocs = 3
    MaxRules = 3
INVARIANTS RoutedByType SubstitutedOnce ShowsWhatRuns LogsAccounted SqlBounded FailuresContained SamplesKept WindowForward DetailOfOneRule ListComplete
PROPERTIES PatchKeepsRest
CHECK_DEADLOCK FALSE
