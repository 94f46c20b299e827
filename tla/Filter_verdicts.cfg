\* Who is blocked, over two commands, restores or restarts, one tick and the wiring of each engine.
SPECIFICATION Spec
CONSTANTS
    Client = {"c1", "c2"}
    Domain = {"site", "sub"}
    List = {"l1", "cat"}
    Sched = {"on", "off"}
    Profile = {1, 2}
    Default = 1
    None = None
    Above <- MCAbove
    Holds <- MCHolds
    Managed = {"cat"}
    Rewritable = {"sub"}
    Window <- MCWindow
    AllowInside = {"off"}
    Start <- MCStart
    MaxTime = 1
    MaxChange = 2
INVARIANTS
    TypeOK
    PauseOnlyLifts
    PauseSparesOthers
    EngineFollowsConfig
    RebuildWindowHarmless
    TesterAgrees
PROPERTIES
    ProfileChangeStaysInside
    SchedulesFailClosed
CHECK_DEADLOCK FALSE
