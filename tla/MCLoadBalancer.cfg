\* Two handlers at a time, failures, deployments, an operator and the cloud's controller.
CONSTANTS
    Nil = Nil
    t1 = t1
    t2 = t2
    m1 = m1
    Targets = {t1, t2}
    DefaultTarget = t1
    DefaultPort = 80
    MaxPort = 99
    Width = 256
    Policies = {"Local", "Cluster"}
    Selectors = {"v1", "v2"}
    Marks = {m1}
    NodePorts = {n1, n2, n3, n4}
    Requests <- SomeRequests
    WebServices <- SomeWebServices
    Handlers = {p1, p2}
    MaxRequests = 3
    MaxFaults = 1
    MaxEvents = 1
SPECIFICATION Spec
SYMMETRY Alike
INVARIANTS
    TypeOK
    Exposed
    Settled
PROPERTIES
    Atomic
CHECK_DEADLOCK FALSE
