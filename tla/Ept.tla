--------------------------------- MODULE Ept ---------------------------------
(***************************************************************************)
(* The shared EPT of the hypervisor: Epts::build_identity (epts.rs), run   *)
(* once by the SHARED_GUEST_DATA initializer (guest.rs) on a zeroed Epts,  *)
(* and the processor's EPT walk that later translates guest-physical       *)
(* addresses through it.                                                   *)
(*                                                                         *)
(* The geometry is scaled: a table has N entries instead of 512, and an    *)
(* address is a 4 KiB page number, so a "large page" is N pages, a PD      *)
(* covers N^2 pages and the PDPT N^3.  build_identity is modelled step by  *)
(* step, one action per loop iteration, in the order the code fills the    *)
(* entries; `pa` is the code's running physical address in pages.          *)
(*                                                                         *)
(* The MTRR reader (mtrr.rs) is not in the sources: Mtrr::find is modelled *)
(* from spec section 4.1 over a memory-type layout chosen per platform.    *)
(***************************************************************************)
EXTENDS Integers, FiniteSets, Functions

CONSTANTS
    N,               \* entries per paging structure (512 in the code)
    MemoryTypes,     \* memory types the MTRRs can declare
    Layouts          \* MTRR layouts: page number -> memory type

ASSUME N \in Nat \ {0, 1}

LargePages == N                 \* LARGE_PAGE_SIZE / BASE_PAGE_SIZE
MappedPages == N * N * N        \* what one PML4 entry covers (512 GiB)
Idx == 0 .. N - 1                 \* the entries of a Table ([Entry; 512])
Pages == 0 .. MappedPages - 1
NoType == "None"

VARIABLES
    mtrr,            \* the MTRR layout of this platform (fixed)
    pml4,            \* PML4[0] points to the PDPT
    pdpt,            \* PDPT entry i -> the PD it points to, or -1
    pd,              \* PD i, entry j -> [kind, pfn, mt]
    pt,              \* the PT, entry k -> [kind, pfn, mt]
    pa, i, j, k,     \* build_identity's locals: address and loop indices
    pc               \* "Start", "Pdpt", "Pd", "Pt", "Done", "Panic"

vars == <<mtrr, pml4, pdpt, pd, pt, pa, i, j, k, pc>>

EmptyEntry == [kind |-> "None", pfn |-> 0, mt |-> NoType]

-----------------------------------------------------------------------------
(* Mtrr::find (spec 4.1): the memory type of a range lying within a single  *)
(* MTRR-declared interval, None when the range crosses a boundary.  Pages  *)
(* beyond the layout take no part in the lookup.                           *)
find(lo, hi) ==
    LET types == Range(Restrict(mtrr, (lo .. hi - 1) \cap DOMAIN mtrr))
    IN  IF Cardinality(types) = 1 THEN CHOOSE t \in types : TRUE ELSE NoType

\* Mutant: the range handed to find for a large page runs one page long.
LargeRangeEnd_overlap(addr) == addr + LargePages + 1

\* pa..pa + LARGE_PAGE_SIZE, the range find resolves for a 2 MiB leaf.
LargeRangeEnd(addr) == addr + LargePages

\* pa += LARGE_PAGE_SIZE after a 2 MiB leaf.
NextLarge(addr) == addr + LargePages

\* A 2 MiB leaf PDE: RWX, memory type, large, pfn = pa >> 12.
LargePde(addr, t) == [kind |-> "Large", pfn |-> addr, mt |-> t]

\* Mutant: the PTE's memory type is left at write-back.
Pte_writeBack(addr, t) == [kind |-> "Page", pfn |-> addr, mt |-> "WB"]

\* Mutant: the PTE is given the large bit, as the PD entries are.
Pte_large(addr, t) == [kind |-> "Large", pfn |-> addr, mt |-> t]

\* A 4 KiB leaf PTE: RWX, memory type, pfn = pa >> 12.
Pte(addr, t) == [kind |-> "Page", pfn |-> addr, mt |-> t]

-----------------------------------------------------------------------------
\* SHARED_GUEST_DATA's initializer: zeroed_box::<Epts>() (every entry 0, not
\* present) on a platform with any of the MTRR layouts.
Init ==
    /\ mtrr \in Layouts
    /\ pml4 = FALSE
    /\ pdpt = [x \in Idx |-> -1]
    /\ pd = [x \in Idx |-> [y \in Idx |-> EmptyEntry]]
    /\ pt = [x \in Idx |-> EmptyEntry]
    /\ pa = 0 /\ i = 0 /\ j = 0 /\ k = 0
    /\ pc = "Start"

\* build_identity: Mtrr::new, pa = 0, PML4[0] RWX pointing to the PDPT.
BuildPml4 ==
    /\ pc = "Start"
    /\ pml4' = TRUE
    /\ pa' = 0 /\ i' = 0
    /\ pc' = "Pdpt"
    /\ UNCHANGED <<mtrr, pdpt, pd, pt, j, k>>

\* PDPT loop body: entry i RWX pointing to pd[i], then the PD loop.
PdptEntry ==
    /\ pc = "Pdpt" /\ i < N
    /\ pdpt' = [pdpt EXCEPT ![i] = i]
    /\ j' = 0
    /\ pc' = "Pd"
    /\ UNCHANGED <<mtrr, pml4, pd, pt, pa, i, k>>

\* The PDPT loop ends: build_identity returns.
PdptDone ==
    /\ pc = "Pdpt" /\ i = N
    /\ pc' = "Done"
    /\ UNCHANGED <<mtrr, pml4, pdpt, pd, pt, pa, i, j, k>>

\* PD loop body with pa == 0: the entry points to the PT, then the PT loop.
PdEntryTable ==
    /\ pc = "Pd" /\ j < N /\ pa = 0
    /\ pd' = [pd EXCEPT ![i][j] = [kind |-> "Table", pfn |-> 0, mt |-> NoType]]
    /\ k' = 0
    /\ pc' = "Pt"
    /\ UNCHANGED <<mtrr, pml4, pdpt, pt, pa, i, j>>

\* PD loop body with pa != 0: a large leaf with the memory type find gives
\* for [pa, pa + 2 MiB); panic when find fails.
PdEntryLarge ==
    LET t == find(pa, LargeRangeEnd(pa))
    IN  /\ pc = "Pd" /\ j < N /\ pa # 0
        /\ IF t = NoType
              THEN pc' = "Panic" /\ UNCHANGED <<pd, pa, j>>
              ELSE /\ pd' = [pd EXCEPT ![i][j] = LargePde(pa, t)]
                   /\ pa' = NextLarge(pa)
                   /\ j' = j + 1
                   /\ pc' = pc
        /\ UNCHANGED <<mtrr, pml4, pdpt, pt, i, k>>

\* The PD loop ends: next PDPT entry.
PdDone ==
    /\ pc = "Pd" /\ j = N
    /\ i' = i + 1
    /\ pc' = "Pdpt"
    /\ UNCHANGED <<mtrr, pml4, pdpt, pd, pt, pa, j, k>>

\* PT loop body: a 4 KiB leaf with the memory type of [pa, pa + 4 KiB);
\* panic when find fails.
PtEntry ==
    LET t == find(pa, pa + 1)
    IN  /\ pc = "Pt" /\ k < N
        /\ IF t = NoType
              THEN pc' = "Panic" /\ UNCHANGED <<pt, pa, k>>
              ELSE /\ pt' = [pt EXCEPT ![k] = Pte(pa, t)]
                   /\ pa' = pa + 1
                   /\ k' = k + 1
                   /\ pc' = pc
        /\ UNCHANGED <<mtrr, pml4, pdpt, pd, i, j>>

\* The PT loop ends: back to the PD loop, next entry.
PtDone ==
    /\ pc = "Pt" /\ k = N
    /\ j' = j + 1
    /\ pc' = "Pd"
    /\ UNCHANGED <<mtrr, pml4, pdpt, pd, pt, pa, i, k>>

Next ==
    \/ BuildPml4 \/ PdptEntry \/ PdptDone
    \/ PdEntryTable \/ PdEntryLarge \/ PdDone
    \/ PtEntry \/ PtDone

\* build_identity is straight-line code on one thread.
Spec == Init /\ [][Next]_vars /\ WF_vars(Next)

-----------------------------------------------------------------------------
(* The processor's EPT walk (SDM 29.3.2) for guest page p: the host page   *)
(* and memory type; an EPT violation and an EPT misconfiguration (a large *)
(* leaf whose frame is not 2 MiB aligned) have no host page.               *)
Fault == [pa |-> -1, mt |-> "EptViolation"]
Misconfig == [pa |-> -1, mt |-> "EptMisconfig"]

Translate(p) ==
    LET ix == (p \div (N * N)) % N
        jx == (p \div N) % N
        kx == p % N
        e  == pd[pdpt[ix]][jx]
    IN  CASE ~pml4 \/ pdpt[ix] = -1 -> Fault
          [] e.kind = "Large" /\ e.pfn % LargePages # 0 -> Misconfig
          [] e.kind = "Large" -> [pa |-> e.pfn + kx, mt |-> e.mt]
          [] e.kind = "Table" /\ pt[kx].kind = "Page" -> [pa |-> pt[kx].pfn, mt |-> pt[kx].mt]
          [] OTHER -> Fault

TypeOK ==
    /\ pc \in {"Start", "Pdpt", "Pd", "Pt", "Done", "Panic"}
    /\ pml4 \in BOOLEAN
    /\ pdpt \in [Idx -> Idx \cup {-1}]
    /\ pa \in 0 .. MappedPages
    /\ i \in 0 .. N /\ j \in 0 .. N /\ k \in 0 .. N
    /\ \A x, y \in Idx : pd[x][y].kind \in {"None", "Table", "Large"}
    /\ \A x \in Idx : pt[x].kind \in {"None", "Page"}

\* Once build_identity has returned, the EPT maps every guest page of the
\* first 512 GiB to the same host page with exactly the memory type the
\* MTRRs declare for it (spec section 8, first invariant): the PT covers
\* the first 2 MiB page by page, the large leaves the rest.
IdentityWithMtrrTypes ==
    pc = "Done" => \A p \in Pages : Translate(p) = [pa |-> p, mt |-> mtrr[p]]

\* On platforms whose MTRR boundaries above 2 MiB are 2 MiB aligned (the
\* convention spec 4.2 relies on), build_identity returns without panic.
BuildCompletes == <>(pc = "Done")

=============================================================================
