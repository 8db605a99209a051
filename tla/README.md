# TLA+ models of barevisor (Intel VT-x path)

barevisor is a minimal hypervisor. It is loaded as a Windows driver and
virtualises every logical processor it runs on: the OS keeps running as the
guest, and every VM exit is handled on the same processor. This directory
holds the TLA+ modules that model the repository's Rust sources
(`src/src/hvcore/src/hypervisor/...`, `src/src/windows/win_hv/src/ops.rs`), the TLC
configurations that check them, and `PROJECT.json`, which records the
components, runs, mutants, source map, findings and hazards.

## 1. The system

| Part | Source | State | Operations |
|---|---|---|---|
| VMX enabler | `intel/vmx.rs` | CR0, CR4, IA32_FEATURE_CONTROL, the VMXON region and its revision identifier | `Vmx::default` (`Vmxon::default`), `Vmx::enable`, `update_feature_control_msr`, `vmxon` |
| Per-CPU guest (VMCS) | `intel/guest.rs` | the VMCS region (revision identifier, fields) and its launch state, the processor's current-VMCS pointer, the register snapshot `registers` | `Vmcs::new`, `new` (VMCLEAR), `activate` (VMPTRLD), the `vmptrld`/`vmwrite`/`vmx_succeed` wrappers, `initialize` (`initialize_control/guest/host`, `adjust_vmx_control`), `run`, `handle_init_signal`, `handle_sipi_signal` |
| CR and control adjustment | `intel/guest.rs` | the VMX capability MSRs and fixed-bit MSRs (read only) | `get_adjusted_cr0/cr4`, `get_adjusted_guest_cr0/cr4`, `adjust_vmx_control` |
| Shared guest data | `intel/guest.rs` 634-647 | the MSR bitmap and the EPT, built lazily once | `SHARED_GUEST_DATA` |
| EPT | `intel/epts.rs` | PML4, PDPT, 512 PDs and one PT | `build_identity`, `eptp` |
| Host paging | `paging_structures.rs` | the host's identity page tables | `build_identity_internal` |
| APIC-ID registry | `apic_id.rs` | `APIC_ID_MAP`, `PROCESSOR_COUNT` | `init`, `get`, `processor_id_from` |
| Platform operations | `windows/win_hv/src/ops.rs` | thread affinity | `run_on_all_processors`, `pa` |

The driver loop `host.rs`, the assembly stub `run_guest.S` (it picks VMLAUNCH
or VMRESUME), the MTRR reader and register capture are not in the sources.
They are described in `spec.md`. The one part the models need, the RIP
advance after an emulated instruction, is marked `spec_modelled` in the map.

How the parts interact: at load time, `run_on_all_processors` pins one thread
to each processor in turn. It fills the APIC-ID registry this way, and it also
virtualises each processor in turn. On each processor the code runs
`Vmx::enable`, `VmxGuest::new`, `activate` and `initialize` with the captured
registers, and then the loop `run()` → emulate → `run()`. `run()` writes the
snapshot's RIP/RSP/RFLAGS into the VMCS and enters the guest. After the VM
exit it reads them back and dispatches on the exit reason. INIT and SIPI are
handled inside `run()`. CPUID, RDMSR, WRMSR and XSETBV come back to the
driver with `next_rip`. Any other exit is a panic. Every VMCS references the
EPT and MSR bitmap of `SHARED_GUEST_DATA`.

The behaviour that is hard to get right or to test:
- the guest state passes through the VMCS and a software snapshot, and each
  round trip must keep them consistent;
- the INIT/SIPI reset must leave the guest in the architectural reset state,
  and the VMCS must still pass the VM-entry checks. This couples the entry
  controls, the unrestricted-guest setting, guest CR0/CR4 and EFER;
- whether the code works depends on the processor: capability MSRs (TRUE or
  legacy), fixed CR bits, the firmware's feature-control lock, and the APIC
  ID width.

## 2. Modules

| Module | Models | Key correspondence |
|---|---|---|
| `VmxBits` | the bit arithmetic of `guest.rs` | A register or control field is the set of its 1-bits, so `&`, `\|`, `&!` become `\cap`, `\cup`, `\`. `adjust_vmx_control`, `CapMsr`, `get_adjusted_*` and `HostSelector` are operators. |
| `VmxProcessor` | the processor (Intel SDM), no repository code | VMXON preconditions (23.7), the region revision check of VMXON and VMPTRLD (25.11.5), which VMCS fields exist (25.4.2), the launch-state check of VMLAUNCH/VMRESUME, the EPTP and host-state checks and their ZF/CF outcome (27.2, 31.2, 31 VMLAUNCH/VMRESUME), guest-state checks (27.3), EFER on entry/exit (28.3.2.1, 28.5.1), the exits a guest can cause, guest paging modes. |
| `VmxCpu` | one processor's lifecycle (`vmx.rs`, `guest.rs`) | See below. |
| `MCVmxCpu` | processor descriptions and value sets for TLC | `Platform(trueCtls, unrestrictedGuest, featureControl, eferCtls)`; `eferCtls` says whether the load/save IA32_EFER controls, and so the guest IA32_EFER field, exist |
| `ApicId` | `apic_id.rs` and the `run_on_all_processors` loop | `apicIdMap` = `APIC_ID_MAP`, `processorCount` = `PROCESSOR_COUNT`, `index` = the loop index. |
| `MCApicId` | sets of APIC IDs for TLC | |
| `GuestMachine` | what the hypervisor promises the guest (SDM), no repository code | `g` is the guest's architectural state (RIP, RSP, RFLAGS, CS, activity, CR0.PE/PG, CR0.CD/NW); `phase` says who runs. `Reset` keeps CD and NW, as INIT does. The actions are `Capture`, `Resume`, `Execute`, `Reset` (INIT), `Startup` (SIPI) and `Halt`. |
| `Ept` | `epts.rs` `build_identity`, run by the `SHARED_GUEST_DATA` initializer, and the processor's EPT walk | `pml4`, `pdpt`, `pd`, `pt` are the tables; `pa`, `i`, `j`, `k` are the function's address and loop indices. There is one action per loop iteration. `find` is `Mtrr::find` from spec 4.1. |
| `MCEpt` | MTRR layouts for TLC | `Layout(a, b, c, d)`: uncachable on two page ranges, write-back elsewhere |
| `HostPaging` | `paging_structures.rs` `build_identity_internal` and the 4-level walk | Same loop structure as `Ept`. Entries are records of the present, writable, user and large bits and the pfn. `PtDone` includes the null-page clear. |
| `SegmentAccessRights` | `access_rights` and `VmxSegmentAccessRights` (`guest.rs`) | `desc` is the live descriptor, and `undef` the bits LAR leaves undefined. `WriteAccessRights` is the `vmwrite` of `initialize_guest`. |

`VmxCpu` variables:
- `pc` is where the per-CPU code is;
- `vmcs` is a record of the VMCS fields the properties need;
- `registers` is `VmxGuest::registers`;
- `launch` is the VMCS launch state, and `current` whether the processor has a current VMCS;
- `cr0`, `cr4`, `featureControl` and `efer` are the MSRs and registers involved;
- `fault` is a ghost variable naming the cause of a panic.

`VmxCpu` implements `GuestMachine`: `GM == INSTANCE GuestMachine WITH g <- GuestView, phase <- Phase`. The mapping `GuestView` reads the guest's state where the code holds it at each point:
- in the guest, the VMCS guest area;
- right after a VM exit, what the SDM says the exit leaves (`AfterExit`): the instruction completed with IP wrapped in real mode, the INIT state, or the SIPI start state;
- after `run()` returned, the snapshot `registers`, with RIP at `next_rip` after an instruction exit;
- before the next entry, the snapshot.

Every step of the per-CPU code must therefore leave this view unchanged, or be a panic (`Halt`). A panic can strike half-way through a handler, so `Halt` does not constrain the guest state it leaves; nothing follows it. The guest's own steps map to `Execute`, `Reset` and `Startup`.

`VmxCpu` actions, each one a whole handler:
- `Enable` = `Vmx::default` (the VMXON region with the revision identifier, `Vmxon_default`) and `Vmx::enable`, VMXON through the `vmxon` wrapper;
- `NewGuest` = `VmxGuest::new` with `Vmcs::new` (`Vmcs_new`: revision identifier written) and VMCLEAR;
- `Activate` = the `vmptrld` wrapper, which panics on a region of another revision;
- `Initialize` = `initialize`, including all three `initialize_*` functions, the five `adjust_vmx_control` assertions and the `vmwrite` wrapper's failure without a current VMCS, in the code's order; the EPTP is the packed `EptPointer` value of `Epts::eptp`;
- `EnterGuest` = `run()` up to the VM entry: `run_vmx_guest` executes VMRESUME on a launched VMCS and VMLAUNCH otherwise (`run_vmx_guest_instruction`, spec_modelled); the RFLAGS it returns, passed through `vmx_succeed`, decide VMfailValid/VMfailInvalid, entry failure or guest execution;
- `HandleExit` = `run()` after the exit: the snapshot refresh and the dispatch, with the INIT and SIPI handlers as `InitVmcs` and `SipiVmcs`; the INIT handler's `vmwrite` of the guest IA32_EFER field panics on a processor without that field;
- `DriverResume` = the driver loop (spec_modelled).

The environment has two actions:
- `GuestRuns`: the guest may move forward from real to protected to long mode and set CR0.CD/NW to one of `GuestCacheModes` (the CR0 guest/host mask is never written, so MOV to CR0 does not exit), then causes an exit its controls allow; in real mode an instruction exit needs the instruction to lie within the 0FFFFh code-segment limit, since one that crosses it raises #GP instead (`WithinCsLimit`);
- `SignalWhileWaiting`: INIT or SIPI arrives at a processor in wait-for-SIPI.

`run()` has a single suspension point, the VM entry. Splitting it there
means the model sees every order of guest activity and handler steps that the
processor can produce.

Data abstraction:
- Register values are drawn from small sets.
- Segment bases are kept in 16-byte units, so 0xFFFF0000 fits TLC's integers.
- Only the bits some property tells apart are in the bit universes.
- The default1 reserved controls of the legacy MSRs are represented by the two
  CR3-exiting bits, the only ones the dispatcher would notice.

## 3. Runs

| Run | Expect | Checks | Shows |
|---|---|---|---|
| `cpu_supported` | pass | TypeOK, VmEntrySucceeds, EveryExitHandled, VmxonSucceeds, VmxInstructionsSucceed, GuestResumesArchitecturally | On supported processors nothing panics: every VMXON, VMPTRLD, VMWRITE and VM entry succeeds, including the VMRESUMEs that follow INIT and SIPI exits on the launched VMCS. `VmxCpu` refines `GuestMachine` through first launch, instruction exits, INIT and SIPI. Deadlock is checked: the dispatch loop never stops. |
| `cpu_all_platforms` | pass | VmEntrySucceeds, GuestResumesArchitecturally | On every processor description the code panics before it could program a VMCS the processor rejects. This includes the processors without the guest IA32_EFER field, where the INIT handler's write panics. It refines `GuestMachine`, with a panic as the only departure. `CHECK_DEADLOCK FALSE`: a panic halts the CPU. |
| `cpu_real_mode_wrap` | violation | GuestResumesArchitecturally | After INIT and SIPI, a CPUID at IP 0FFFEh, the last instruction of the code segment, is resumed at 10000h instead of 0000h: `next_rip` does not wrap in real mode. |
| `cpu_init_cache_control` | violation | GuestResumesArchitecturally | A guest that disabled caching (CR0.CD) and then receives INIT comes out of the INIT handler with caching enabled; INIT leaves CD and NW unchanged. |
| `cpu_legacy_caps` | violation | EveryExitHandled | Legacy capability MSRs force CR3 exiting; the resulting exit is unhandled. |
| `cpu_init_efer` | violation | InitResetsEfer | After INIT and SIPI the guest starts with the host's EFER.LME = 1. |
| `cpu_locked_feature_control` | violation | VmxonSucceeds | A locked feature-control MSR without VMX outside SMX is not detected, so VMXON faults. |
| `apic_xapic` | pass | TypeOK, RegistryIdentifiesEveryProcessor, InitCompletes | For every assignment of distinct 8-bit IDs to 5 processors, init completes and every processor finds its own index. |
| `apic_x2apic` | violation | InitCompletes | x2APIC IDs ≥ 256 collide in 8 bits and the insert assertion panics. |
| `ept_aligned` | pass | TypeOK, IdentityWithMtrrTypes, BuildCompletes | For every layout with large-page-aligned boundaries above the first large page, the build completes. Every guest page of the covered range then translates to itself with its MTRR type. `CHECK_DEADLOCK FALSE`: the function returns. |
| `host_paging` | pass | TypeOK, IdentityExceptNullPage | For both values of `npt`, the tables are the identity over the covered range, writable, and user-accessible exactly when `npt`. The null page faults in the host tables only. |
| `segment_access_rights` | pass | AccessRightsEncoding | For all 2,560 descriptors LAR accepts in 64-bit mode, both undefined-bit values and the null input, the field is the VMX encoding of the descriptor (unusable for 0). |

The six violations are recorded as findings in `PROJECT.json`. Every property
of a passing run has a mutant: a plausible bug in a mapped definition that the
run detects. The mutants are:
- an off-by-one `next_rip`;
- `next_rip` from the stale snapshot;
- the INIT handler keeping IA-32e mode;
- the legacy MSRs read regardless of bit 55;
- CR4 fixed-0 bits not ORed in;
- the allowed-1 mask dropped;
- unrestricted guest ignored in the INIT CR0;
- the counter not incremented or incremented twice;
- the APIC ID shifted by 25;
- an EPT PTE given the large bit, or left write-back;
- the large-page MTRR range one page long;
- a host PDE written after `pa` advanced;
- the wrong PTE made non-present;
- the access-rights mask left at 0xFFFF;
- the VMCS region's revision identifier not written;
- the EPTP walk length declared at bits 4:2;
- `run_vmx_guest` executing VMLAUNCH on every entry (the second entry fails).

Bounds, and why they are enough:
- In `cpu_supported`, three guest RIPs (0, 16, 48) and the shortest and
  longest instruction lengths (1 and 15 bytes) let a stale `registers.rip`
  give a different `next_rip` from the fresh one. The other VmxCpu runs keep
  two RIPs and lengths 2 and 3.
- RSP and RFLAGS take the INIT values (0 and 2) and one other value each, so
  a stale snapshot after INIT or SIPI is caught.
- The SIPI vectors 0, 8 and 255 (8 and 154 in the other runs) include both
  ends of the vector range and give distinct CS values.
- Two host CR0 values (with and without NE) exercise `get_adjusted_cr0`.
- The platforms cover every combination of:
  - TRUE or legacy capability MSRs;
  - unrestricted guest or not;
  - the three feature-control states;
  - with or without the load/save IA32_EFER controls.
  All of them use one revision identifier (4): the regions hold either it or
  the zero of a fresh allocation.
- The loop is unbounded in length, but its state is finite: every entry/exit
  cycle returns to a state already seen.
- For the EPT, 4 entries per table give 64 pages: a 4-page PT and 15 large
  pages. The layouts put uncachable ranges anywhere in the first large page
  (a different type per 4 KiB page) and at every aligned range above it, 1331
  layouts in all.
- For the host tables, 8 entries per table give 512 pages, enough to reach
  more than 100 distinct states through the deterministic build.
- The real-mode run puts the exit at IP 0FFFEh with instructions of 2 and 3
  bytes: the 2-byte CPUID ends exactly at 10000h, the only way an exiting
  instruction reaches the wrap, and the 3-byte one crosses the limit and
  faults.
- The VmxCpu pass runs let the guest run with caching enabled only (CD = NW
  = 0), as the OS does; `cpu_init_cache_control` adds the guest that
  disables it.
- For the APIC registry, five processors over seven IDs give 2520 ID layouts.
  Three processors over {0, 1, 256, 257} contain both colliding and
  non-colliding layouts.

Fairness:
- `ApicId` and `Ept` assume weak fairness of their next-state relations. `init`
  and `build_identity` are straight-line loops in one thread (spec: "no
  cooperative yielding"), so they keep running. `InitCompletes` and
  `BuildCompletes` depend on this.
- `VmxCpu` states no fairness and no liveness property. Its own steps after
  an exit are checked for deadlock instead (`cpu_supported`), and the guest
  and the signals it receives are the environment, which the code cannot make
  progress. That an AP started by SIPI becomes active is part of the
  refinement: `Startup` of `GuestMachine` is the only way out of
  wait-for-SIPI.

## 4. Not modelled, and why

- The VMCS debug dump (`guest.rs` 901-1129) is formatting only.
- `pa()` is address translation, with no state of its own.
- Segment limits and access rights, GDTR/IDTR, the SYSENTER MSRs, debug
  registers and general-purpose registers are abstracted. No property tells
  them apart. `access_rights` is checked on its own in `SegmentAccessRights`.
  `lar` (not in the sources) is modelled from the SDM. It is given only
  selectors LAR accepts and the literal 0. A null live selector, for which
  LAR fails, is left out because the wrapper's result in that case is not in
  the sources.
- The CPUID/MSR/XSETBV emulation lives in `host.rs`, which is not in the
  sources.
- EPT violations, triple faults and VMCALL are left out of the exits a guest
  can cause. The EPT covers the first 512 GiB, as spec section 3 says
  (`build_identity` fills PML4 entry 0 only); whether a platform has
  guest-physical addresses above it is the machine's, not the code's, so it
  is a hazard without a property.
- The composition of the per-CPU model with the fan-out. The fan-out that
  virtualises the processors, the register capture and the check that lets
  the callback return once the captured context resumes as the guest are in
  `host.rs`, which is not in the sources. What the sources do show leaves
  nothing for a composition to find: `run_on_all_processors` is one thread
  visiting the processors in turn (`ApicId` models it), the processors share
  only `SHARED_GUEST_DATA` and `APIC_ID_MAP`, both written before any reader
  needs them and read-only afterwards (spec section 5), and each processor's
  VMCS, VMXON region and snapshot are its own. Each processor is therefore
  `VmxCpu`, independently.
- The host page-table override writes HOST_CR3 with the virtual address of
  the tables (`guest.rs` 322). The models do not tell virtual from physical
  addresses, and whether the override is set is decided in `host.rs`; it is
  listed as a hazard.
- `SHARED_GUEST_DATA`'s once-only construction: the processors are
  virtualised one after another, so the `Lazy` has one caller at a time. As
  given, its initializer calls `build_identify`, which does not exist; `Ept`
  models the intended `build_identity`. The zeroed MSR bitmap has no
  behaviour of its own.
- `Mtrr` (mtrr.rs) is not in the sources; `find` is modelled from spec 4.1.
- Processors brought online after `run_on_all_processors` has read the
  processor count (`ops.rs` 23). The spec fixes the set of processors for
  the life of the driver (section 5), and the use of the registry by a
  processor that is not in it is in `host.rs`. `ApicId` takes the count as a
  constant; the hazard is listed.

## 5. Where the project could go next

Everything of the repository's sources that changes state is an action of a
module, except what section 4 lists. What remains needs code that is not in
the sources:
1. The MTRR reader and the driver loop (`mtrr.rs`, `host.rs`): `find` and
   `DriverResume` would then be mapped to code, the fan-out that virtualises
   the processors could be composed with `VmxCpu`, and the host CR3 override
   and processor hot-add hazards could be given properties.
2. A liveness property for the INIT/SIPI sequence needs a model of the OS's
   MP start-up protocol (INIT, then SIPIs); the code itself makes no promise
   about when the OS sends them.
