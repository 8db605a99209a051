\* Host and nested identity tables at 8 entries per table (512 pages).
CONSTANTS
    N = 8
    NptModes = {FALSE, TRUE}
SPECIFICATION Spec
\* build_identity_internal returns: the final state has no successor.
CHECK_DEADLOCK FALSE
INVARIANTS
    TypeOK
    IdentityExceptNullPage
