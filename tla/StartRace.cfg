SPECIFICATION Spec
CONSTANTS
    Shells = {sh1, sh2}
    Pids = {p1, p2}
    Addresses = {a1}
    NULL = NULL
    TORN = TORN
INVARIANT MarkerIsOwn
