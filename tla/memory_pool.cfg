SPECIFICATION Spec
CONSTANTS
    User = {u1, u2}
    num_blocks_ = 3
    RequestedSize = 1
    LinkSize = 2
INVARIANTS
    FreeListExact
    CountExact
PROPERTY
    AllocatorSpec
