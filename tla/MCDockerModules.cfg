SPECIFICATION Spec
CONSTANTS
    Blank = Blank
    Missing = Missing
    Broken = Broken
    Omitted = Omitted
    Chosen = Chosen
    Empty = Empty
    bridge = bridge
    overlay = overlay
    local = local
    nfs = nfs
    env = env
    memory = memory
    x = x
    subnet = subnet
    label = label
    na = na
    nb = nb
    Default = 0
    MaxVersion = 2
    Options <- MCOptions
    Elements <- MCElements
    Values <- MCValues
    Labels <- MCLabels
    Mutable <- MCMutable
    Links <- MCLinks
    Versions <- MCVersions
    ImageValue <- MCImageValue
    Machines <- MCMachines
    ContainerTasks <- MCContainerTasks
    ImageTasks <- MCImageTasks
    Attached <- MCNames
    NetworkOptions <- MCNetworkOptions
    Pools <- MCPools
    NetworkTasks <- MCNetworkTasks
    Drivers <- MCDrivers
    VolumeTasks <- MCVolumeTasks
    Names <- MCNames
    ToolTasks <- MCToolTasks
    ArchiveTasks <- MCArchiveTasks
    ClusterTasks <- MCClusterTasks
    Texts <- MCNames
    DataTasks <- MCDataTasks
    NodeLabels <- MCNames
    NodeTasks <- MCNodeTasks
    Fields <- MCFields
    Kind <- MCKind
    Settings <- MCSettings
    Groups <- MCGroups
    Variables <- MCVariables
    Words <- MCWords
    Targets <- MCTargets
    Published <- MCPublished
    ServicesFound <- MCFound
    SharedFields <- MCShared
    ServiceTasks <- MCServiceTasks
PROPERTIES
    KeepsContract
    Predicts
    Idempotent
    Recovers
    StandsInterference
    LosesNothing
