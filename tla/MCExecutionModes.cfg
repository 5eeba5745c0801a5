\* Two gas modes, the three send modes, a private endpoint.
SPECIFICATION ModesSpec
CONSTANTS
    GasModes = {"standard", "fast"}
    SendModes = {"public", "private", "protected_rpc"}
    PrivateModes = {"private", "protected_rpc"}
    NoMode = "none"
    HasPrivate = TRUE
    MaxChanges = 2
INVARIANTS
    ModesRestored
    PrivateEndpointUsed
