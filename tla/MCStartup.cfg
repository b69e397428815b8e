SPECIFICATION Spec
CONSTANTS
    Upgrades <- UpgradeScripts
    Downgrades <- DowngradeScripts
    Declared <- DeclaredTables
INVARIANTS
    TypeOK
    StartsSound
    ServesDeclaredSchema
    CleanIsExact
    OldSchemaSurvives
    TargetsExist
PROPERTY FailsForACause
