\* Two clients trace a mesh of three nodes that changes under the walks.
CONSTANTS
    Nodes = {"a", "b", "z"}
    Ifaces = {"a", "b", "z"}
    Targets = {"pz"}
    Clients = {"c1", "c2"}
    Requests <- TheRequests
    Meshes <- TheMeshes
    Relinks <- TheRelinks
    Reroutes <- TheReroutes
    Loopback <- Loopbacks
    Grade <- Grades
    HOP_CAP = 2
    HOP_TIMEOUT = 1
    CACHE_TTL = 1
    CACHE_MAX = 1
    MaxUpsets = 2
    None = "none"
SPECIFICATION Spec
INVARIANTS TypeOK TrueMap PathShown BoundedWalk BoundedAge
PROPERTY Answered
