SPECIFICATION Spec
CONSTANTS
    Keys = {1, 2, 3, 4, 5, 6, 7, 8, 9}
    Hash <- Hashes
    plan_names <- Plans
    kU64 = 2
    Records <- UpsertedRecords
    Files <- RosterFiles
    Bytes = {1}
    Metered = {1, 9}
    Resets = {1}
    Setups <- TableSetups
    kMaxReportedErrors = 2
INVARIANTS TableIsSound MembershipIsTheList
PROPERTIES ImplementsMap
CHECK_DEADLOCK FALSE
