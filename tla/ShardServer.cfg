SPECIFICATION Spec
CONSTANTS
    small = small
    large = large
    Handlers = {h1, h2, h3}
    Shards = {s1, s2, s3}
    Payloads = {small, large}
    Size <- SizeOf
    Quota = 4
    MaxRestarts = 1
SYMMETRY Symmetric
INVARIANTS
    TypeOK
    OvershootBounded
    AckedIsServed
