SPECIFICATION Spec
CONSTANT Changes = {c1, c2, c3}
SYMMETRY ChangeSymmetry
INVARIANTS TypeOK OpenWorks
PROPERTIES DurableSpec
