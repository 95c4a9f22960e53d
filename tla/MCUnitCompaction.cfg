CONSTANT Compactions <- MCCompactions
SPECIFICATION Spec
INVARIANTS
    MapFaithful
    SameLayout
    ParsesInOrder
    Serves
    SameByteOrder
    CompactMemcached
