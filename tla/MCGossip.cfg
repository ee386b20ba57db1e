\* The protocol ends.
CONSTANTS
    root = root
    a = a
    b = b
    c = c
    d = d
    Node = {root, a, b, c, d}
    Root = root
    Parent <- InnerNode
SPECIFICATION Spec
INVARIANTS TypeOK HonestCount
PROPERTIES ConfirmsAll Concludes
CHECK_DEADLOCK FALSE
