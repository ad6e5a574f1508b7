SPECIFICATION Spec
CONSTANT MaxBlocks = 2
INVARIANT ByteExactResume
