SPECIFICATION Spec
CONSTANTS
    g1 = g1
    g2 = g2
    self = self
    other = other
    Names <- MCNames
    Nodes <- MCNodes
    Self <- self
INVARIANT ListsNodeGroups
