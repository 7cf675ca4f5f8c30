CONSTANT
    Files <- UserFiles
SPECIFICATION Spec
INVARIANTS
    TypeOK
    SettingsSurvive
    NextStartAgrees
PROPERTIES
    SettledIsDurable
