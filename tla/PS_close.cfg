SPECIFICATION Spec
CONSTANT Changes = {c1, c2}
INVARIANT CloseKeepsAcked
