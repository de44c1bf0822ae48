CONSTANTS
    Hierarchies <- MCSmall
    Damaged <- MCDamaged
    Bytes <- MCBytes

SPECIFICATION Spec
CHECK_DEADLOCK FALSE

INVARIANTS
    RoundTrip
