\* Commands, model setup, tool authority, files, plugins and the instance, one at a time.
SPECIFICATION HostSpec
CONSTANTS
    ApiKey = {K1, K2}
    AsyncKey = {K1}
    Body = {B1, B2}
    Request = {R1, R2, R3}
    MaxRestarts = 1
    SetupReq = {q1, q2, q3}
    Config = {C1}
    MaxFlights = 2
    MaxActive = 2
    VerificationReuse = TRUE
    MaxSaves = 2
    MaxSetupDeaths = 1
    TaskRun = {t1, t2}
    RootRun = {t1}
    NoTaskRun = NoTaskRun
    CalledTool = {"write_file", "read_file"}
    Toggled = {"file_write"}
    Asked = {}
    Layer = {"global"}
    MaxPolicySaves = 2
    MaxTargetChanges = 1
    LegacyBound <- Unbound
    WriteCall = {w1, w2}
    PatchCall = {w2}
    OtherEdit = {e1}
    NoCall = NoCall
    MaxFileSaves = 2
    MaxVersion = 2
    PluginRun = {p1, p2}
    MaxPluginRestarts = 2
    MaxInstances = 2
    Stopper = {s1}
    Object = {o1}
    MaxKills = 2
INVARIANTS
    HostTypeOK
    CommandsExact
    SetupSound
    ToolsSound
    PluginSound
    InstancesSound
PROPERTIES
    DrainedBeforeStop
CHECK_DEADLOCK FALSE
