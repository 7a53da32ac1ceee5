CONSTANTS
    Candidates <- MCCandidates
    Pages <- MCPages
    FirstPages <- MCFirstPages
    OldEntries = {"tom", "club"}
    Table <- MCTable
    HitDays = 2
    MissDays = 1
    GeoDays = 1
    SaveEvery = 1
    Limits = {0, 1}
    MaxDay = 3
    MaxChanges = 1
    MaxFaults = 1
    MaxRuns = 2
    Seeds <- MCSeeds
    Sources <- MCSources
    MaxMonths = 2
    FirstEntries <- MCEntries
    NewEntries <- MCNewEntries
    FileName <- MCFileName
    PageSize = 1
    MaxUdcRuns = 3
    MaxFailures = 1
    MaxKills = 2
    TableIds = {a}
    FormIds = {f}
    AppIds = {r}
    VendorIds = {v}
    English = {s, t}
    NotLanguage = {}
    WidgetTexts = {t}
    MaxEdits = 2
    MaxCatRuns = 3
    MaxSteps = 4
SPECIFICATION MCSpec
INVARIANTS RecentNamesOnly NoNameSkipped CuratedSurvives MirrorIsTrue FlagsAreHonest
PROPERTIES FileReadsBack ReviewedWorkSurvives
