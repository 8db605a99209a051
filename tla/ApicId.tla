-------------------------------- MODULE ApicId --------------------------------
(***************************************************************************)
(* The APIC-ID registry of apic_id.rs, filled by apic_id::init through     *)
(* the Windows run_on_all_processors (ops.rs), which pins the calling      *)
(* thread to each active processor in index order and runs the callback   *)
(* there, one processor after the other.                                  *)
(*                                                                         *)
(* A processor is an index of KeQueryActiveProcessorCountEx; its APIC ID  *)
(* is its full local APIC ID (x2APIC IDs are 32-bit).  apic_id::get reads *)
(* CPUID.01H:EBX[31:24], the low 8 bits of it.                            *)
(***************************************************************************)
EXTENDS Integers, FiniteSets, Functions, TLC

CONSTANTS
    ProcessorCount,   \* KeQueryActiveProcessorCountEx(ALL_PROCESSOR_GROUPS)
    ApicIds           \* the local APIC IDs the platform may assign

Processors == 0 .. ProcessorCount - 1

ASSUME ProcessorCount \in Nat /\ ApicIds \subseteq Nat

VARIABLES
    ApicIdOf,         \* processor index -> its local APIC ID (fixed)
    apicIdMap,        \* APIC_ID_MAP: 8-bit APIC ID -> processor id
    processorCount,   \* PROCESSOR_COUNT
    index,            \* loop index of run_on_all_processors
    pc                \* "Running", "Done" or "Panic"

vars == <<ApicIdOf, apicIdMap, processorCount, index, pc>>

\* Mutant: the APIC ID taken from EBX >> 25, one bit off.
get_shift25(p) == (ApicIdOf[p] \div 2) % 128

\* apic_id::get on processor p: (cpuid(1).ebx >> 24) as u8.
get(p) == ApicIdOf[p] % 256

\* Mutant: the counter is read but not incremented.
fetch_add_dropped(count) == count

\* Mutant: the counter incremented twice.
fetch_add_twice(count) == count + 2

\* PROCESSOR_COUNT.fetch_add(1): the counter after the call (the call
\* returns the value before it).
fetch_add(count) == count + 1

\* apic_id::processor_id_from: the processor id registered for an APIC ID
\* (None, modelled as -1, when there is none).
processor_id_from(apic_id) ==
    IF apic_id \in DOMAIN apicIdMap THEN apicIdMap[apic_id] ELSE -1

\* init() asserts PROCESSOR_COUNT == 0 before the fan-out; the map is empty.
\* Local APIC IDs are unique in the system; any such assignment.
Init ==
    /\ ApicIdOf \in {f \in [Processors -> ApicIds] : IsInjective(f)}
    /\ apicIdMap = <<>>
    /\ processorCount = 0
    /\ index = 0
    /\ pc = "Running"

\* One iteration of the loop of run_on_all_processors: pin to processor
\* "index", run the callback, unpin.  The callback inserts get() with the
\* value PROCESSOR_COUNT.fetch_add(1) returns, overwriting an entry of the
\* same APIC ID, then asserts that there was none: a repeated ID panics
\* after the map and the counter have been updated.
Callback ==
    LET collides == get(index) \in DOMAIN apicIdMap
    IN  /\ pc = "Running"
        /\ index < ProcessorCount
        /\ apicIdMap' = (get(index) :> processorCount) @@ apicIdMap
        /\ processorCount' = fetch_add(processorCount)
        /\ pc' = IF collides THEN "Panic" ELSE pc
        /\ index' = IF collides THEN index ELSE index + 1
        /\ UNCHANGED ApicIdOf

\* The loop ends after the last processor index; init returns.
Finish ==
    /\ pc = "Running"
    /\ index = ProcessorCount
    /\ pc' = "Done"
    /\ UNCHANGED <<ApicIdOf, apicIdMap, processorCount, index>>

Next == Callback \/ Finish

Spec == Init /\ [][Next]_vars /\ WF_vars(Next)

-----------------------------------------------------------------------------
TypeOK ==
    /\ pc \in {"Running", "Done", "Panic"}
    /\ index \in 0 .. ProcessorCount
    /\ processorCount \in 0 .. ProcessorCount
    /\ DOMAIN apicIdMap \subseteq 0 .. 255
    /\ \A a \in DOMAIN apicIdMap : apicIdMap[a] \in Processors

\* Once init has returned, every processor finds itself in the registry:
\* processor_id_from(get()) on processor p is p's own dense index, distinct
\* for distinct processors, so per-CPU state looked up by it is never shared.
RegistryIdentifiesEveryProcessor ==
    pc = "Done" =>
        /\ processorCount = ProcessorCount
        /\ \A p \in Processors : processor_id_from(get(p)) = p

\* init() returns on every machine: the fan-out visits each active
\* processor once and no insert assertion fails.
InitCompletes == <>(pc = "Done")

=============================================================================
