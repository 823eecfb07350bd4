SPECIFICATION Spec
CONSTANTS
    u1 = u1  u2 = u2  b1 = b1  b2 = b2  c1 = c1
    Ids = {u1, u2}
    Signers = {u1}
    Browsers = {b1, b2}
    Codes = {c1}
    KeysMax = 1
    MaxStep = 2
    MaxSets = 3
SYMMETRY Symmetric
CHECK_DEADLOCK FALSE
INVARIANT TypeOK
PROPERTIES KeepsAnAdmin KeepsAFactor StepOnce SessionsAreEarned
