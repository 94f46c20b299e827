\* The pause of one profile, where the default profile uses the same list.
SPECIFICATION Spec
CONSTANTS
    Client = {"c1", "c2"}
    Domain = {"site", "sub"}
    List = {"l1", "cat"}
    Sched = {"on", "off"}
    Profile = {1, 2}
    Default = 1
    None = None
    Above <- MCAbove
    Holds <- MCHolds
    Managed = {"cat"}
    Rewritable = {"sub"}
    Window <- MCWindow
    AllowInside = {"off"}
    Start <- MCStart
    MaxTime = 1
    MaxChange = 2
INVARIANTS
    ProfilePauseSuspends
CHECK_DEADLOCK FALSE
