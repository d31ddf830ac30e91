CONSTANTS
    Cmd = Cmd
    Sig = Sig
    Tmr = Tmr
    Sources = {Cmd, Sig, Tmr}
    CmdSource = Cmd
    Priority <- MCPriority
    Requests = {"ok", "bad"}
    MaxConns = 4
    MaxEvents = 3
    MaxKills = 2

SPECIFICATION Spec

CHECK_DEADLOCK FALSE

INVARIANTS
    RecoveryMatchesCrash

PROPERTIES
    ConnectionsServed
