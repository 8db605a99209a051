-------------------------------- MODULE VmxCpu --------------------------------
(***************************************************************************)
(* One logical processor virtualised by the hypervisor: VMX enablement     *)
(* (vmx.rs), the VMCS lifecycle and programming and the VM-exit dispatch   *)
(* loop (guest.rs), with the driver loop around Guest::run (host.rs, not   *)
(* in the repository sources: modelled from spec sections 4.5 and 6).      *)
(*                                                                         *)
(* The processor is the environment: VMXON, VM entry and VM exits follow   *)
(* the SDM rules of VmxProcessor, and the guest, while it runs, moves      *)
(* through paging modes and causes the VM exits its controls allow.        *)
(*                                                                         *)
(* The per-CPU sequence (host.rs): Vmx::enable, VmxGuest::new, activate,   *)
(* initialize, then "loop { run(); handle the returned reason }".  run()   *)
(* is split at its one suspension point, the VM entry in run_vmx_guest:    *)
(* EnterGuest is the code before it, HandleExit the code after the exit.   *)
(***************************************************************************)
EXTENDS Naturals, FiniteSets, VmxProcessor

CONSTANTS
    Platforms,        \* processor descriptions the CPU may be (see VmxProcessor)
    HostCr0s,         \* CR0 values the OS can run the driver with
    HostSegments,     \* live selectors [es, cs, ss, ds, fs, gs, tr] of the host
    ExitRips,         \* guest RIPs at which the guest can cause a VM exit
    InstructionLens,  \* VMEXIT_INSTRUCTION_LEN values
    Rsps,             \* guest RSP values at a VM exit
    Rflags,           \* guest RFLAGS values at a VM exit
    SipiVectors,      \* vectors VV a startup IPI can carry
    GuestCacheModes   \* CR0.CD/NW settings the guest may switch to

ASSUME HostSegments \in [{"es", "cs", "ss", "ds", "fs", "gs", "tr"} -> Nat]
ASSUME ExitRips \subseteq Nat /\ InstructionLens \subseteq Nat \ {0}
ASSUME SipiVectors \subseteq 0..255 /\ GuestCacheModes \subseteq CacheModes

VARIABLES
    hw,               \* the processor this CPU is (fixed)
    pc,               \* where the per-CPU code is
    fault,            \* why the CPU panicked ("None" while it has not)
    cr0, cr4,         \* the host's live CR0 and CR4
    featureControl,   \* the IA32_FEATURE_CONTROL MSR
    efer,             \* the IA32_EFER MSR, shared by host and guest
    launch,           \* launch state of the VMCS: "None", "Clear", "Launched"
    current,          \* whether the processor has a current VMCS (VMPTRLD)
    vmcs,             \* the fields of the VMCS region
    registers,        \* VmxGuest::registers, the snapshot (RIP, RSP, RFLAGS)
    result            \* the VmExitReason run() returned to the driver

vars == <<hw, pc, fault, cr0, cr4, featureControl, efer, launch, current,
          vmcs, registers, result>>

-----------------------------------------------------------------------------
(* Constants of guest.rs.                                                  *)

VMX_EXIT_REASONS  == {"Init", "Sipi", "Cpuid", "Rdmsr", "Wrmsr", "Xsetbv"}
InstructionExits  == {"Cpuid", "Rdmsr", "Wrmsr", "Xsetbv"}
RFLAGS_A1         == 2             \* RFlags::FLAGS_A1
GuestActivity     == {"Active", "WaitForSipi"}

\* Segment bases are kept in 16-byte units (base >> 4): 0xFFFF0000 is
\* 268431360 and VV << 12 is VV * 256, within TLC's integers.

\* A zeroed VmcsRaw (zeroed_box): revision identifier 0, and after VMCLEAR
\* every field reads 0 (activity state 0 is Active).
ZeroVmcs ==
    [revisionId |-> 0, pin |-> {}, proc |-> {}, proc2 |-> {}, exitCtl |-> {}, entryCtl |-> {},
     eptp |-> 0,
     hostCr0 |-> {}, hostCr4 |-> {}, hostSelectors |-> [s \in DOMAIN HostSegments |-> 0],
     guestCr0 |-> {}, guestCr4 |-> {}, guestEferField |-> {},
     guestRip |-> 0, guestRsp |-> 0, guestRflags |-> 0,
     csSelector |-> 0, csBase |-> 0, activity |-> "Active",
     exitReason |-> "None", exitQualification |-> 0, instructionLen |-> 0]

RipValues == ExitRips \cup {r + l : r \in ExitRips, l \in InstructionLens} \cup {0, 65520}
ExitReasons == VMX_EXIT_REASONS \cup {"CrAccess", "Hlt", "ExternalInterrupt", "EntryFailure", "None"}
Faults == {"None", "VmxonFault", "VmxInstructionFail", "AssertControl", "VmFailValid",
           "VmFailInvalid", "InvalidGuestState", "UnhandledExit"}

-----------------------------------------------------------------------------
(* Helpers of the code.                                                    *)

\* Vmx::update_feature_control_msr: set lock and VMXON-outside-SMX when the
\* lock bit is clear; a locked MSR is left alone.
update_feature_control_msr(fc) ==
    IF "Lock" \notin fc THEN fc \cup {"Lock", "VmxOutsideSmx"} ELSE fc

\* rdmsr(IA32_VMX_BASIC) as u32: bits 31:0, the revision identifier (bit
\* 31 reads 0, SDM A.1).
VmxBasicRevision == hw.vmcsRevision

\* Vmxon::default, run when Vmx::default creates vmxon_region: a zeroed
\* VmxonRaw with the revision identifier written.
Vmxon_default == [revisionId |-> VmxBasicRevision]

\* The vmxon wrapper: VMXON on the region's physical address, unwrapped (a
\* #GP or VMfailInvalid panics).
vmxon(region, newCr0, newCr4, newFc) ==
    VmxonAllowed(hw, newCr0, newCr4, newFc) /\ RegionRevisionOk(hw, region)

\* Mutant: the revision identifier is not written into the zeroed region.
Vmcs_new_unwritten == ZeroVmcs

\* Vmcs::new: a zeroed VmcsRaw with the revision identifier written (then
\* VMCLEAR, which makes its launch state clear).
Vmcs_new == [ZeroVmcs EXCEPT !.revisionId = VmxBasicRevision]

\* The vmptrld wrapper: VMPTRLD fails on a region of another revision and
\* the wrapper unwraps.
vmptrld(v) == RegionRevisionOk(hw, v)

\* The vmwrite wrapper succeeds with a current VMCS and a field the
\* processor supports; it panics otherwise.
vmwrite(field) == current /\ VmcsFieldSupported(hw, field)

\* vmx_succeed: ZF is VMfailValid, else CF is VMfailInvalid.
vmx_succeed(flags) ==
    CASE "ZF" \in flags -> "VmFailValid"
      [] "CF" \in flags -> "VmFailInvalid"
      [] OTHER         -> "Ok"

\* Mutant: the stub always executes VMLAUNCH.
run_vmx_guest_instruction_alwaysLaunch(launchState) == "VMLAUNCH"

\* run_vmx_guest (run_guest.S): VMRESUME when the current VMCS has been
\* launched, VMLAUNCH otherwise.
run_vmx_guest_instruction(launchState) ==
    IF launchState = "Launched" THEN "VMRESUME" ELSE "VMLAUNCH"

\* The five adjust_vmx_control calls of initialize_control, by VMCS field.
InitialControls ==
    [exitCtl  |-> adjust_vmx_control(hw, "VmExit", {"HostAddressSpaceSize"}),
     entryCtl |-> adjust_vmx_control(hw, "VmEntry", {"Ia32eModeGuest"}),
     pin      |-> adjust_vmx_control(hw, "PinBased", {}),
     proc     |-> adjust_vmx_control(hw, "ProcessorBased",
                                     {"UseMsrBitmaps", "SecondaryControls"}),
     proc2    |-> adjust_vmx_control(hw, "ProcessorBased2", Proc2Bits)]

\* The physical page of the shared Epts' PML4 (platform pa >> 12); any.
EptPml4Page == 1

\* Mutant: page_levels_minus_one declared at bits 4:2 instead of 5:3.
EptPointer_levelsAt2(memoryType, levelsMinusOne, pfn) ==
    memoryType + 4 * levelsMinusOne + 4096 * pfn

\* The EptPointer bitfield: memory_type 2:0, page_levels_minus_one 5:3,
\* enable_access_dirty 6 and enable_sss 7 (left 0), pfn 51:12.
EptPointer(memoryType, levelsMinusOne, pfn) ==
    memoryType + 8 * levelsMinusOne + 4096 * pfn

\* Epts::eptp: the PML4's frame, write-back (6) paging-structure memory
\* type, page-walk length 4 (3 = 4 - 1).
eptp == EptPointer(6, 3, EptPml4Page)

\* initialize_control, initialize_guest and initialize_host, given the
\* adjusted control values c and the captured registers r.
InitializedVmcs(c, r) ==
    [vmcs EXCEPT
        !.exitCtl = c.exitCtl.value, !.entryCtl = c.entryCtl.value,
        !.pin = c.pin.value, !.proc = c.proc.value, !.proc2 = c.proc2.value,
        !.eptp = eptp,
        !.guestCr0 = cr0, !.guestCr4 = cr4,
        !.csSelector = HostSegments.cs,
        !.guestRip = r.rip, !.guestRsp = r.rsp, !.guestRflags = r.rflags,
        !.hostCr0 = cr0, !.hostCr4 = cr4,
        !.hostSelectors = [s \in DOMAIN HostSegments |-> HostSelector(HostSegments[s])]]

\* Mutant: IA-32e mode guest is left set by the INIT handler.
InitVmcsKeepsIa32e(v) ==
    [v EXCEPT
        !.guestRflags = RFLAGS_A1, !.guestRip = 65520,
        !.guestCr0 = get_adjusted_guest_cr0(hw, {"ET"}, v.proc2),
        !.guestCr4 = get_adjusted_guest_cr4(hw, {}),
        !.csSelector = 61440, !.csBase = 268431360,
        !.guestRsp = 0, !.guestEferField = {},
        !.activity = "WaitForSipi"]

\* The INIT state handle_init_signal writes into the VMCS.
InitVmcs(v) ==
    [v EXCEPT
        !.guestRflags = RFLAGS_A1, !.guestRip = 65520,
        !.guestCr0 = get_adjusted_guest_cr0(hw, {"ET"}, v.proc2),
        !.guestCr4 = get_adjusted_guest_cr4(hw, {}),
        !.csSelector = 61440, !.csBase = 268431360,
        !.guestRsp = 0, !.guestEferField = {},
        !.entryCtl = v.entryCtl \ {"Ia32eModeGuest"},
        !.activity = "WaitForSipi"]

\* handle_sipi_signal: CS = VV << 8 : base VV << 12, RIP 0, Active.
SipiVmcs(v) ==
    [v EXCEPT
        !.csSelector = v.exitQualification * 256,
        !.csBase = v.exitQualification * 256,
        !.guestRip = 0, !.activity = "Active"]

\* Mutants: next_rip one byte too far, and from the snapshot's RIP before
\* it was refreshed from the VMCS.
InstructionInfoOffByOne(reason, rip) ==
    [kind |-> reason, nextRip |-> rip + vmcs.instructionLen + 1]
InstructionInfoStale(reason, rip) ==
    [kind |-> reason, nextRip |-> registers.rip + vmcs.instructionLen]

\* The InstructionInfo run() returns for an instruction exit.
InstructionInfo(reason, rip) == [kind |-> reason, nextRip |-> rip + vmcs.instructionLen]

-----------------------------------------------------------------------------
Init ==
    /\ hw \in Platforms
    /\ pc = "Start"
    /\ fault = "None"
    /\ cr0 \in HostCr0s
    /\ cr4 = {"PAE"}
    /\ featureControl = hw.featureControl
    /\ efer = {"LME", "LMA"}
    /\ launch = "None"
    /\ current = FALSE
    /\ vmcs = ZeroVmcs
    /\ registers = [rip |-> 0, rsp |-> 0, rflags |-> 0]
    /\ result = [kind |-> "None"]

\* Vmx::default (its vmxon_region) and Vmx::enable: CR0 and CR4 adjusted,
\* IA32_FEATURE_CONTROL updated, VMXON on the region (a #GP or VMfail of
\* VMXON is fatal).  VMXON leaves no current VMCS.
Enable ==
    LET newCr0 == get_adjusted_cr0(hw, cr0)
        newCr4 == get_adjusted_cr4(hw, cr4)
        newFc  == update_feature_control_msr(featureControl)
    IN  /\ pc = "Start"
        /\ cr0' = newCr0
        /\ cr4' = newCr4
        /\ featureControl' = newFc
        /\ IF vmxon(Vmxon_default, newCr0, newCr4, newFc)
              THEN pc' = "VmxOn" /\ fault' = fault
              ELSE pc' = "Panic" /\ fault' = "VmxonFault"
        /\ UNCHANGED <<hw, efer, launch, current, vmcs, registers, result>>

\* VmxGuest::new: Vmcs::new allocates a zeroed region, writes the revision
\* identifier and executes VMCLEAR (on a region that is not the VMXON
\* region, which cannot fail).
NewGuest ==
    /\ pc = "VmxOn"
    /\ pc' = "VmcsClear"
    /\ launch' = "Clear"
    /\ vmcs' = Vmcs_new
    /\ UNCHANGED <<hw, fault, cr0, cr4, featureControl, efer, current, registers, result>>

\* VmxGuest::activate: VMPTRLD makes the VMCS active and current.
Activate ==
    /\ pc = "VmcsClear"
    /\ IF vmptrld(vmcs)
          THEN pc' = "VmcsCurrent" /\ current' = TRUE /\ fault' = fault
          ELSE pc' = "Panic" /\ fault' = "VmxInstructionFail" /\ UNCHANGED current
    /\ UNCHANGED <<hw, cr0, cr4, featureControl, efer, launch, vmcs,
                   registers, result>>

\* VmxGuest::initialize with the registers captured on this CPU: the
\* snapshot is stored, then control, guest and host fields are programmed.
\* The first adjust_vmx_control (VM-exit controls) precedes the first
\* vmwrite; an assertion failure or a failed vmwrite panics.
Initialize ==
    /\ pc = "VmcsCurrent"
    /\ \E rip \in ExitRips, rsp \in Rsps, rflags \in Rflags :
        LET r == [rip |-> rip, rsp |-> rsp, rflags |-> rflags]
            c == InitialControls
        IN  CASE ~c.exitCtl.ok ->
                    pc' = "Panic" /\ fault' = "AssertControl" /\ UNCHANGED <<registers, vmcs>>
              [] ~vmwrite("VmExitControls") ->
                    pc' = "Panic" /\ fault' = "VmxInstructionFail" /\ UNCHANGED <<registers, vmcs>>
              [] \E f \in DOMAIN c : ~c[f].ok ->
                    pc' = "Panic" /\ fault' = "AssertControl" /\ UNCHANGED <<registers, vmcs>>
              [] OTHER ->
                    /\ registers' = r
                    /\ vmcs' = InitializedVmcs(c, r)
                    /\ pc' = "Ready"
                    /\ fault' = fault
    /\ UNCHANGED <<hw, cr0, cr4, featureControl, efer, launch, current, result>>

\* run(), up to the VM entry: RIP, RSP and RFLAGS written from the snapshot,
\* then run_vmx_guest executes VMLAUNCH (VMCS clear) or VMRESUME.  An error
\* of vmx_succeed on the RFLAGS it returns makes run() panic; a guest-state
\* failure is reported as a VM exit that run() reads below.
EnterGuest ==
    LET v == [vmcs EXCEPT !.guestRip = registers.rip, !.guestRsp = registers.rsp,
                          !.guestRflags = registers.rflags]
        outcome == vmx_succeed(VmEntryFlags(hw, v, current,
                                            run_vmx_guest_instruction(launch), launch))
    IN  /\ pc = "Ready"
        /\ CASE ~vmwrite("GuestRip") ->
                    /\ pc' = "Panic" /\ fault' = "VmxInstructionFail"
                    /\ UNCHANGED <<vmcs, launch, efer>>
             [] outcome # "Ok" ->
                    /\ vmcs' = v /\ pc' = "Panic" /\ fault' = outcome
                    /\ UNCHANGED <<launch, efer>>
             [] ~GuestStateOk(hw, v) ->
                    /\ vmcs' = [v EXCEPT !.exitReason = "EntryFailure"]
                    /\ pc' = "Exited" /\ fault' = fault
                    /\ UNCHANGED <<launch, efer>>
             [] OTHER ->
                    /\ vmcs' = v /\ pc' = "InGuest" /\ fault' = fault
                    /\ launch' = "Launched"
                    /\ efer' = EferOnEntry(v, efer)
        /\ UNCHANGED <<hw, cr0, cr4, featureControl, current, registers, result>>

\* The processor saves "IA-32e mode guest" and sets the host EFER on exit.
ExitSaves(v, reason) ==
    [v EXCEPT !.exitReason = reason,
              !.entryCtl = IF GuestMode(v) = "Long"
                              THEN @ \cup {"Ia32eModeGuest"}
                              ELSE @ \ {"Ia32eModeGuest"}]

\* The guest runs: it may switch to a later paging mode and set or clear
\* CR0.CD/NW (the CR0 guest/host mask is never written, so MOV to CR0
\* causes no exit), then causes a VM
\* exit it can cause in its current state; an instruction exit only for an
\* instruction that lies within the code segment.
GuestRuns ==
    /\ pc = "InGuest"
    /\ vmcs.activity = "Active"
    /\ \E mode \in {m \in DOMAIN ModeRank : ModeRank[m] >= ModeRank[GuestMode(vmcs)]},
          rip \in ExitRips, rsp \in Rsps, rflags \in Rflags,
          len \in InstructionLens, cache \in GuestCacheModes :
        LET crs == InMode(vmcs, mode)
            ran == [vmcs EXCEPT !.guestCr0 = (crs.cr0 \ {"CD", "NW"}) \cup cache,
                                !.guestCr4 = crs.cr4,
                                !.guestRip = rip, !.guestRsp = rsp,
                                !.guestRflags = rflags, !.instructionLen = len]
        IN  \E reason \in PossibleExits(vmcs) :
               /\ reason \in InstructionExits => WithinCsLimit(ran, rip, len)
               /\ vmcs' = ExitSaves(ran, reason)
    /\ efer' = EferOnExit
    /\ pc' = "Exited"
    /\ UNCHANGED <<hw, fault, cr0, cr4, featureControl, launch, current, registers, result>>

\* A processor in wait-for-SIPI executes nothing; an INIT or a SIPI with
\* vector VV causes a VM exit.
SignalWhileWaiting ==
    /\ pc = "InGuest"
    /\ vmcs.activity = "WaitForSipi"
    /\ \/ vmcs' = ExitSaves(vmcs, "Init")
       \/ \E vv \in SipiVectors :
             vmcs' = ExitSaves([vmcs EXCEPT !.exitQualification = vv], "Sipi")
    /\ efer' = EferOnExit
    /\ pc' = "Exited"
    /\ UNCHANGED <<hw, fault, cr0, cr4, featureControl, launch, current, registers, result>>

\* run(), after the VM exit: the snapshot's RIP, RSP and RFLAGS are read back
\* from the VMCS, then the exit reason is dispatched.
HandleExit ==
    LET r == [registers EXCEPT !.rip = vmcs.guestRip, !.rsp = vmcs.guestRsp,
                               !.rflags = vmcs.guestRflags]
        reason == vmcs.exitReason
    IN  /\ pc = "Exited"
        /\ \/ /\ reason = "Init"
              /\ registers' = [r EXCEPT !.rflags = RFLAGS_A1, !.rip = 65520, !.rsp = 0]
              /\ IF vmwrite("GuestIa32Efer")
                    THEN /\ vmcs' = InitVmcs(vmcs)
                         /\ result' = [kind |-> "InitSignal"]
                         /\ pc' = "Returned" /\ fault' = fault
                    ELSE /\ pc' = "Panic" /\ fault' = "VmxInstructionFail"
                         /\ UNCHANGED <<vmcs, result>>
           \/ /\ reason = "Sipi"
              /\ vmcs' = SipiVmcs(vmcs)
              /\ registers' = [r EXCEPT !.rip = 0]
              /\ result' = [kind |-> "StartupIpi"]
              /\ pc' = "Returned" /\ fault' = fault
           \/ /\ reason \in InstructionExits
              /\ registers' = r
              /\ result' = InstructionInfo(reason, r.rip)
              /\ pc' = "Returned" /\ fault' = fault
              /\ UNCHANGED vmcs
           \/ /\ reason \notin VMX_EXIT_REASONS
              /\ pc' = "Panic"
              /\ fault' = IF reason = "EntryFailure" THEN "InvalidGuestState" ELSE "UnhandledExit"
              /\ registers' = r
              /\ UNCHANGED <<vmcs, result>>
        /\ UNCHANGED <<hw, cr0, cr4, featureControl, efer, launch, current>>

\* The driver loop (host.rs): an instruction exit is emulated against the
\* snapshot and RIP advanced to next_rip; INIT and SIPI need nothing more.
\* Then run() is called again.
DriverResume ==
    /\ pc = "Returned"
    /\ \/ /\ result.kind \in InstructionExits
          /\ registers' = [registers EXCEPT !.rip = result.nextRip]
       \/ /\ result.kind \in {"InitSignal", "StartupIpi"}
          /\ UNCHANGED registers
    /\ pc' = "Ready"
    /\ UNCHANGED <<hw, fault, cr0, cr4, featureControl, efer, launch, current, vmcs, result>>

Next ==
    \/ Enable
    \/ NewGuest
    \/ Activate
    \/ Initialize
    \/ EnterGuest
    \/ GuestRuns
    \/ SignalWhileWaiting
    \/ HandleExit
    \/ DriverResume

Spec == Init /\ [][Next]_vars

-----------------------------------------------------------------------------
(* Properties.                                                             *)

TypeOK ==
    /\ pc \in {"Start", "VmxOn", "VmcsClear", "VmcsCurrent", "Ready", "InGuest",
               "Exited", "Returned", "Panic"}
    /\ fault \in Faults
    /\ cr0 \subseteq Cr0Bits /\ cr4 \subseteq Cr4Bits
    /\ featureControl \subseteq FeatureControlBits
    /\ efer \subseteq EferBits
    /\ launch \in {"None", "Clear", "Launched"}
    /\ current \in BOOLEAN
    /\ vmcs.guestRip \in RipValues /\ vmcs.activity \in GuestActivity
    /\ vmcs.exitReason \in ExitReasons
    /\ registers \in [rip : RipValues, rsp : Rsps \cup {0}, rflags : Rflags \cup {0, RFLAGS_A1}]
    /\ result \in [kind : {"None", "InitSignal", "StartupIpi"}]
                  \cup [kind : InstructionExits, nextRip : RipValues]

\* No VM entry of the dispatch loop fails: the controls adjust_vmx_control
\* produced, the host state of initialize_host and the guest state left by
\* initialize_guest, the INIT and SIPI handlers and the guest itself always
\* pass the processor's VM-entry checks (VMfailValid and the entry-failure
\* exit both end in a panic in run()).
VmEntrySucceeds == fault \notin {"VmFailValid", "VmFailInvalid", "InvalidGuestState"}

-----------------------------------------------------------------------------
(* Refinement of GuestMachine: the guest's architectural state as the     *)
(* implementation holds it at each point of the per-CPU code.  In the     *)
(* guest it is the VMCS guest area.  Right after a VM exit it is what the *)
(* SDM says the exit leaves: the instruction completed (CPUID, RDMSR,     *)
(* WRMSR, XSETBV), the INIT state, or the SIPI start state.  Once run()   *)
(* has returned, RIP, RSP and RFLAGS are those of the snapshot, with RIP  *)
(* the next_rip the driver will resume at after an instruction exit.      *)

InVmcs(v) ==
    [rip |-> v.guestRip, rsp |-> v.guestRsp, rflags |-> v.guestRflags,
     csSelector |-> v.csSelector, csBase |-> v.csBase, activity |-> v.activity,
     pePg |-> v.guestCr0 \cap {"PE", "PG"}, cache |-> v.guestCr0 \cap {"CD", "NW"}]

InSnapshot(v, r) == [InVmcs(v) EXCEPT !.rip = r.rip, !.rsp = r.rsp, !.rflags = r.rflags]

AfterExit(v) ==
    CASE v.exitReason \in InstructionExits ->
             [InVmcs(v) EXCEPT !.rip = NextIp(v, v.guestRip, v.instructionLen)]
      [] v.exitReason = "Init" -> ArchInitState(InVmcs(v))
      [] v.exitReason = "Sipi" -> ArchSipiState(InVmcs(v), v.exitQualification)
      [] OTHER -> InVmcs(v)

GuestView ==
    CASE pc = "InGuest" -> InVmcs(vmcs)
      [] pc = "Exited" -> AfterExit(vmcs)
      [] pc = "Returned" /\ result.kind \in InstructionExits ->
             [InSnapshot(vmcs, registers) EXCEPT !.rip = result.nextRip]
      [] OTHER -> InSnapshot(vmcs, registers)

Phase ==
    CASE pc \in {"Start", "VmxOn", "VmcsClear", "VmcsCurrent"} -> "Boot"
      [] pc = "InGuest" -> "Guest"
      [] pc = "Panic" -> "Halted"
      [] OTHER -> "Vmm"

GM == INSTANCE GuestMachine WITH g <- GuestView, phase <- Phase

\* The hypervisor is invisible: every step of the per-CPU code leaves the
\* guest's architectural state as the last guest step or signal left it,
\* across the VMCS-to-snapshot refresh after an exit, the next_rip
\* computation, the INIT and SIPI handlers and the snapshot-to-VMCS write
\* before the next entry (run()); only a panic may stop the guest.
GuestResumesArchitecturally == GM!Spec

\* The dispatcher handles every VM exit the programmed controls let the
\* guest cause (run() panics on any other reason).
EveryExitHandled == fault # "UnhandledExit"

\* VMXON in Vmx::enable is only executed when it cannot fault: CR0/CR4 and
\* IA32_FEATURE_CONTROL are brought into the state VMXON requires, and a
\* feature-control MSR that forbids VMX is detected before (spec 4.3 step 2
\* makes that case a diagnosed fatal error rather than a #GP of VMXON).
VmxonSucceeds == fault # "VmxonFault"

\* Every VMPTRLD, VMREAD and VMWRITE the per-CPU code executes succeeds
\* (their wrappers unwrap and panic): Vmcs::new gives the VMCS region the
\* processor's revision identifier before activate loads it, a VMCS is
\* current before initialize and run() access fields, and every field they
\* write, the INIT handler's guest IA32_EFER included, exists.
VmxInstructionsSucceed == fault # "VmxInstructionFail"

\* handle_init_signal puts the guest in the INIT state of SDM Table 9-1,
\* whose IA32_EFER is 0: when the processor starts at the SIPI vector,
\* EFER.LME is clear.
InitResetsEfer == pc = "InGuest" /\ vmcs.exitReason = "Sipi" => "LME" \notin efer

=============================================================================
