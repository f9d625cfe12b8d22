SPECIFICATION Spec
CONSTANTS
    MinSize = 3
    MaxUnits = 6
    Statuses <- SomeStatuses
    None = None
INVARIANT BodyIntact
INVARIANT HeadDescribesBody
INVARIANT StatusDelivered
INVARIANT CompressedExactlyWhenPromised
INVARIANT FlushDelivers
