SPECIFICATION Spec
CONSTANT n = 2
INVARIANT OneMergeAFour
