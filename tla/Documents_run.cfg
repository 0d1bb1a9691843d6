CONSTANTS
    Calls = {k1, k2, k3}
    MaxCrashes = 1
    MaxSheetName = 4
    Specs <- MCSpecs
    Drafts <- MCDrafts
SYMMETRY Perms
SPECIFICATION DocSpec
CHECK_DEADLOCK FALSE
INVARIANTS OkFileIsGood LastOkStands TranslationFaithful
