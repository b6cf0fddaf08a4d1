SPECIFICATION Spec
CONSTANTS
    Nodes = {n1, n2, n3}
    NoNode = NoNode
    Sessions = {s1, s2, s3}
    Indices = {1}
    Ports = {1, 2}
SYMMETRY Symmetry
INVARIANTS SessionsSound
PROPERTY StreamsWellFormed
