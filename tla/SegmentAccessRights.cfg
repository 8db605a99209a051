\* Every descriptor LAR accepts, both values of its undefined bits, and 0.
SPECIFICATION Spec
\* One write per input: the final state has no successor.
CHECK_DEADLOCK FALSE
INVARIANTS
    AccessRightsEncoding
