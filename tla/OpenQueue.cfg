CONSTANTS
    plain = plain  head = head  gone = gone
    packed = packed  broken = broken  bundle = bundle
    Sessions = {s1, s2}
    First = s1
    Files = {plain, head, gone, packed, broken, bundle}
    Missing = {gone}
    Compressed = {packed, broken, bundle}
    Damaged = {broken}
    Bundles = {bundle}
    Siblings <- MCSiblings
    Batches <- MCBatches
    NoFile = NoFile
    MaxAsks = 3
    ForwardInDialog = FALSE
SPECIFICATION FairQueueSpec
INVARIANTS
    OpenRequestsKept
    OneActorPerTable
PROPERTIES
    AppendKeepsRows
    EveryLoadSettles
CHECK_DEADLOCK FALSE
