CONSTANTS
    a = a  b = b  c = c  d = d
    v1 = v1  v2 = v2  v3 = v3
    Signature = {a, b, c, d}
    Val = {v1, v2, v3}
    Sigs <- SharedSigs
    Syncs <- OneSync
    Echoes = {a, c}
    Invalid = {d}
SPECIFICATION Spec
INVARIANTS TypeOK ChannelsHaveRoom CheckedOnce HandledIsChecked
PROPERTY ValIsHandled
CHECK_DEADLOCK FALSE
