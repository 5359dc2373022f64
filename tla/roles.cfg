SPECIFICATION FairSpec
CONSTANTS
    Call = {c1, c2}
    Work = {"create", "attach", "detach", "remove", "send", "prove", "sign", "finalize"}
    Memory = {m}
    Custom = {a}
    MaxTrouble = 1
    None = None
INVARIANTS FinalizedOnce SignersExact NothingHeld
PROPERTY RolesEnd
