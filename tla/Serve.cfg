\* Two peers and the wake-up connection against limits of one.
CONSTANTS
    Conns = {c1, c2}
    Wake = wake
    Sides = {"server", "client"}
    MaxConnections = 1
    MaxHandshakes = 1
    Bases = {0, 5}
SPECIFICATION Spec
INVARIANTS GaugesMatch OvershootBounded LateAdmission SessionIdsDistinct DrainIsHonest
PROPERTY ShutdownExits
CHECK_DEADLOCK FALSE
