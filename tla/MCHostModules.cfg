SPECIFICATION Spec
CONSTANTS
    Blank = Blank
    Missing = Missing
    Torn = Torn
    Directory = Directory
    Theirs = Theirs
    wa = wa
    wb = wb
    jx = jx
    jy = jy
    wheel = wheel
    docker = docker
    Texts <- MCTexts
    FetchTasks <- MCFetchTasks
    ManageTasks <- MCManageTasks
    Files <- MCFiles
    ArchiveTasks <- MCArchiveTasks
    Groups <- MCGroups
    UserTasks <- MCUserTasks
    Alike <- MCAlike
    UnitTasks <- MCUnitTasks
    GitTasks <- MCGitTasks
    Names <- MCNames
    Jobs <- MCJobs
    Tables <- MCTables
    CronTasks <- MCCronTasks
    Packages <- MCPackages
    Needs <- MCNeeds
    Weight <- MCWeight
    AptTasks <- MCAptTasks
INVARIANTS
    TypeOK
PROPERTIES
    KeepsContract
    Idempotent
    Recovers
    UsesWhatItChecked
    KeepsWhatIsOthers
    KeepsTables
