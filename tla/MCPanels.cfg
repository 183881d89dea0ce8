SPECIFICATION PanelsSpec
CONSTANTS
    here = here
    there = there
    Sources = {here, there}
    Local = here
    dataSourceEnabled = TRUE
    Absent = Absent
    Names = {a, b}
    Protected = {b}
    MaxLoads = 3
    MaxDeletions = 2
    MaxMishaps = 1
    Settings = {s1, s2}
    Unset = Unset
    MaxFetches = 2
    MaxSaves = 2
    MaxAuditFailures = 1
    MaxChanges = 1
    t1 = t1
    t2 = t2
    Types = {t1, t2}
    NoType = NoType
    TypesOf <- SharableTypes
    CanShare = {t2}
    Levels = {"read", "write"}
    Recipients = {u}
    MaxListings = 3
    MaxShareEdits = 2
    MaxShareTroubles = 1
VIEW PanelView
SYMMETRY SettingSymmetry
CONSTRAINT WhilePatient
INVARIANTS
    DeletesWhatWasSelected DoneMeansGone
    SharesTheRow UpdatesTheDifference
PROPERTIES
    SavesOnlyItsOwn
CHECK_DEADLOCK FALSE
