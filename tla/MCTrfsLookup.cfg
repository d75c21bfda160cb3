CONSTANTS
    Names = {"a", "b", "c", "d"}
    Inodes = {"i1", "i2"}
    Negative = Negative
    LowerOf <- MCLowerOf
    Crossing = {"c"}
    MaxOverput = 1
    MaxLowerRef = 5

SPECIFICATION Spec
CONSTRAINT RefBound

INVARIANT TypeOK
INVARIANT LowerPathBalanced
INVARIANT UpperInodeRefs

\* An NFS decode of an uncached inode oopses the kernel, and then nothing runs.
CHECK_DEADLOCK FALSE
