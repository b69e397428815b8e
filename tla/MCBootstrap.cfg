SPECIFICATION Spec
CONSTANTS
    Requests = {h1, h2}
    Calls <- BootstrapCalls
    Seed = {}
    None = None
INVARIANT OneTimeBootstrap
CHECK_DEADLOCK FALSE
