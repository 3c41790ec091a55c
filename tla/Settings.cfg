\* Two admins, or tabs, one report, three saves, a retention of one day or none.
SPECIFICATION FairSpec
CONSTANTS
    Admins = {a1, a2}
    OrgKeys = {"slack_webhook"}
    Reports = {r1}
    Days = {0, 1}
    MaxAge = 2
    MaxRows = 2
    MaxSaves = 3
INVARIANTS
    LostOnlyByOverlapOrReset
    TabsSaveInOrder
    OldTokensOnlyByOverlap
PROPERTY OldReportsGo
