\* The vector that a reset takes, for every fuse.
SPECIFICATION Spec
INVARIANT ResetInFlash
\* Nothing follows an input.
CHECK_DEADLOCK FALSE
