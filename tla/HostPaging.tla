------------------------------ MODULE HostPaging ------------------------------
(***************************************************************************)
(* The host's identity page tables: build_identity_internal                *)
(* (paging_structures.rs) filling a zeroed PagingStructuresRaw, and the    *)
(* 4-level walk (SDM 4.5) that later translates host linear addresses     *)
(* through them.  `npt` is the function's parameter: FALSE for the host   *)
(* tables (PagingStructuresRaw::build_identity); TRUE builds nested       *)
(* tables with the user bit set and no 4 KiB PT.                          *)
(*                                                                         *)
(* The geometry is scaled as in Ept: N entries per table, addresses are    *)
(* 4 KiB page numbers and a large page is N pages.                        *)
(***************************************************************************)
EXTENDS Integers

CONSTANTS
    N,           \* entries per paging structure (512 in the code)
    NptModes     \* values of the npt argument

ASSUME N \in Nat \ {0, 1} /\ NptModes \subseteq BOOLEAN

LargePages == N
MappedPages == N * N * N
Idx == 0 .. N - 1                 \* the entries of a Table ([Entry; 512])
Pages == 0 .. MappedPages - 1

VARIABLES
    npt,             \* the npt argument (user = npt)
    pml4,            \* PML4[0]
    pdpt,            \* PDPT entry i
    pd,              \* PD i, entry j
    pt,              \* the PT, entry k
    pa, i, j, k,     \* the function's locals: address and loop indices
    pc               \* "Start", "Pdpt", "Pd", "Pt", "Done"

vars == <<npt, pml4, pdpt, pd, pt, pa, i, j, k, pc>>

\* Entry: present 0, writable 1, user 2, large 7, pfn 51:12; a zeroed entry.
Entries == [present : BOOLEAN, writable : BOOLEAN, user : BOOLEAN,
            large : BOOLEAN, pfn : 0 .. MappedPages - 1]
ZeroEntry == [present |-> FALSE, writable |-> FALSE, user |-> FALSE,
              large |-> FALSE, pfn |-> 0]

\* present, writable, user = npt, and the frame; the large bit untouched.
Pointer(e, frame) ==
    [e EXCEPT !.present = TRUE, !.writable = TRUE, !.user = npt, !.pfn = frame]

\* Mutant: pa is advanced before the frame is written.
LargePde_advanced(e, addr) ==
    [Pointer(e, addr + LargePages) EXCEPT !.large = TRUE]

\* The else-branch PDE: a 2 MiB leaf at pa.
LargePde(e, addr) == [Pointer(e, addr) EXCEPT !.large = TRUE]

\* Mutant: the last PTE instead of the first is made non-present.
NullCleared_last(table) == [table EXCEPT ![N - 1].present = FALSE]

\* ps.pt.entries[0].set_present(false): the null page.
NullCleared(table) == [table EXCEPT ![0].present = FALSE]

-----------------------------------------------------------------------------
\* PagingStructures::new: zeroed_box::<PagingStructuresRaw>().
Init ==
    /\ npt \in NptModes
    /\ pml4 = ZeroEntry
    /\ pdpt = [x \in Idx |-> ZeroEntry]
    /\ pd = [x \in Idx |-> [y \in Idx |-> ZeroEntry]]
    /\ pt = [x \in Idx |-> ZeroEntry]
    /\ pa = 0 /\ i = 0 /\ j = 0 /\ k = 0
    /\ pc = "Start"

\* PML4[0] points to the PDPT (frame 0 of the model's table numbering).
BuildPml4 ==
    /\ pc = "Start"
    /\ pml4' = Pointer(pml4, 0)
    /\ pa' = 0 /\ i' = 0
    /\ pc' = "Pdpt"
    /\ UNCHANGED <<npt, pdpt, pd, pt, j, k>>

\* PDPT loop body: entry i points to pd[i], then the PD loop.
PdptEntry ==
    /\ pc = "Pdpt" /\ i < N
    /\ pdpt' = [pdpt EXCEPT ![i] = Pointer(@, i)]
    /\ j' = 0
    /\ pc' = "Pd"
    /\ UNCHANGED <<npt, pml4, pd, pt, pa, i, k>>

PdptDone ==
    /\ pc = "Pdpt" /\ i = N
    /\ pc' = "Done"
    /\ UNCHANGED <<npt, pml4, pdpt, pd, pt, pa, i, j, k>>

\* pa == 0 && !npt: the PDE points to the PT, then the PT loop.
PdEntryTable ==
    /\ pc = "Pd" /\ j < N /\ pa = 0 /\ ~npt
    /\ pd' = [pd EXCEPT ![i][j] = Pointer(@, 0)]
    /\ k' = 0
    /\ pc' = "Pt"
    /\ UNCHANGED <<npt, pml4, pdpt, pt, pa, i, j>>

\* Otherwise: a 2 MiB leaf, pa += LARGE_PAGE_SIZE.
PdEntryLarge ==
    /\ pc = "Pd" /\ j < N /\ ~(pa = 0 /\ ~npt)
    /\ pd' = [pd EXCEPT ![i][j] = LargePde(@, pa)]
    /\ pa' = pa + LargePages
    /\ j' = j + 1
    /\ UNCHANGED <<npt, pml4, pdpt, pt, i, k, pc>>

PdDone ==
    /\ pc = "Pd" /\ j = N
    /\ i' = i + 1
    /\ pc' = "Pdpt"
    /\ UNCHANGED <<npt, pml4, pdpt, pd, pt, pa, j, k>>

\* PT loop body: a 4 KiB page at pa, pa += BASE_PAGE_SIZE.
PtEntry ==
    /\ pc = "Pt" /\ k < N
    /\ pt' = [pt EXCEPT ![k] = Pointer(@, pa)]
    /\ pa' = pa + 1
    /\ k' = k + 1
    /\ UNCHANGED <<npt, pml4, pdpt, pd, i, j, pc>>

\* After the PT loop the null page is made non-present; next PDE.
PtDone ==
    /\ pc = "Pt" /\ k = N
    /\ pt' = NullCleared(pt)
    /\ j' = j + 1
    /\ pc' = "Pd"
    /\ UNCHANGED <<npt, pml4, pdpt, pd, pa, i, k>>

Next ==
    \/ BuildPml4 \/ PdptEntry \/ PdptDone
    \/ PdEntryTable \/ PdEntryLarge \/ PdDone
    \/ PtEntry \/ PtDone

Spec == Init /\ [][Next]_vars

-----------------------------------------------------------------------------
(* The 4-level walk (SDM 4.5) for page p: the frame and the access it      *)
(* grants, or a page fault (frame -1) when an entry on the path is not    *)
(* present.  Writable and user are the AND over the path (SDM 4.6).       *)
PageFault == [frame |-> -1, writable |-> FALSE, user |-> FALSE]

Translate(p) ==
    LET ix == (p \div (N * N)) % N
        jx == (p \div N) % N
        kx == p % N
        e2 == pdpt[ix]
        e3 == pd[ix][jx]
        leaf == IF e3.large THEN e3 ELSE pt[kx]
        path == {pml4, e2, e3, leaf}
    IN  IF \E e \in path : ~e.present
           THEN PageFault
           ELSE [frame |-> IF e3.large THEN e3.pfn + kx ELSE leaf.pfn,
                 writable |-> \A e \in path : e.writable,
                 user |-> \A e \in path : e.user]

TypeOK ==
    /\ npt \in BOOLEAN
    /\ pc \in {"Start", "Pdpt", "Pd", "Pt", "Done"}
    /\ pml4 \in Entries /\ pdpt \in [Idx -> Entries]
    /\ pd \in [Idx -> [Idx -> Entries]] /\ pt \in [Idx -> Entries]
    /\ pa \in 0 .. MappedPages /\ i \in 0 .. N /\ j \in 0 .. N /\ k \in 0 .. N

\* Once build_identity_internal has returned, every page of the first
\* 512 GiB is identity-mapped writable, user-accessible exactly when npt,
\* except the null page of the host tables, which faults (the comment at
\* paging_structures.rs:97, "to detect null pointer access").
IdentityExceptNullPage ==
    pc = "Done" =>
        \A p \in Pages :
            Translate(p) = IF p = 0 /\ ~npt
                              THEN PageFault
                              ELSE [frame |-> p, writable |-> TRUE, user |-> npt]

=============================================================================
