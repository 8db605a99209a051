\* Distinct 8-bit APIC IDs: init registers every processor and returns.
CONSTANTS
    ProcessorCount = 5
    ApicIds <- MCXApicIds
SPECIFICATION Spec
CHECK_DEADLOCK FALSE
INVARIANTS
    TypeOK
    RegistryIdentifiesEveryProcessor
PROPERTIES
    InitCompletes
