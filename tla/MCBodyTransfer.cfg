SPECIFICATION Spec
CONSTANTS
    Content <- MCContent
    Window = 2
    Room = 5
INVARIANT Fits
INVARIANT DescriptorValid
PROPERTY DescriptorClosed
PROPERTY DeliversBody
CHECK_DEADLOCK FALSE
