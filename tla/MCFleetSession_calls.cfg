SPECIFICATION FairSpec
CONSTANTS
    a = a
    b = b
    c = c
    h1 = h1
    h2 = h2
    k1 = k1
    k2 = k2
    None = None
    Caller = {a, b, c}
    Host = {h1, h2}
    Config = {k1, k2}
PROPERTIES
    AtomicSpec
    EditsAreServed
