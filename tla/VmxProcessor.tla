----------------------------- MODULE VmxProcessor -----------------------------
(***************************************************************************)
(* The processor the hypervisor runs on, as far as the Intel SDM fixes     *)
(* what it does with the values the code gives it.  Nothing here models    *)
(* code of the repository: these are the hardware's rules, which the       *)
(* VmxCpu actions consult when they execute VMXON, VMLAUNCH/VMRESUME or    *)
(* take a VM exit.                                                         *)
(*                                                                         *)
(* A processor description "hw" is a record:                               *)
(*   trueCtls     IA32_VMX_BASIC bit 55 (TRUE capability MSRs exist)       *)
(*   caps         capability MSR name -> [allowed0, allowed1] bit sets     *)
(*   cr0Fixed0/1, cr4Fixed0/1   the IA32_VMX_CR{0,4}_FIXED{0,1} MSRs       *)
(*   featureControl  IA32_FEATURE_CONTROL as left by the firmware          *)
(*   vmcsRevision the VMCS revision identifier, IA32_VMX_BASIC bits 30:0   *)
(***************************************************************************)
EXTENDS VmxBits

CapMsrs == {"IA32_VMX_PINBASED_CTLS", "IA32_VMX_TRUE_PINBASED_CTLS",
            "IA32_VMX_PROCBASED_CTLS", "IA32_VMX_TRUE_PROCBASED_CTLS",
            "IA32_VMX_PROCBASED_CTLS2",
            "IA32_VMX_EXIT_CTLS", "IA32_VMX_TRUE_EXIT_CTLS",
            "IA32_VMX_ENTRY_CTLS", "IA32_VMX_TRUE_ENTRY_CTLS"}

FeatureControlBits == {"Lock", "VmxOutsideSmx"}
EferBits == {"LME", "LMA"}

\* SDM A.3: when bit 55 of IA32_VMX_BASIC is 1 the TRUE MSRs give the
\* settings VM entry accepts; the secondary controls have one MSR only.
GoverningCap(hw, field) ==
    LET name == CASE field = "proc2" -> "IA32_VMX_PROCBASED_CTLS2"
                  [] hw.trueCtls ->
                       [pin |-> "IA32_VMX_TRUE_PINBASED_CTLS",
                        proc |-> "IA32_VMX_TRUE_PROCBASED_CTLS",
                        exitCtl |-> "IA32_VMX_TRUE_EXIT_CTLS",
                        entryCtl |-> "IA32_VMX_TRUE_ENTRY_CTLS"][field]
                  [] OTHER ->
                       [pin |-> "IA32_VMX_PINBASED_CTLS",
                        proc |-> "IA32_VMX_PROCBASED_CTLS",
                        exitCtl |-> "IA32_VMX_EXIT_CTLS",
                        entryCtl |-> "IA32_VMX_ENTRY_CTLS"][field]
    IN  hw.caps[name]

ControlFields == {"pin", "proc", "proc2", "exitCtl", "entryCtl"}

WithinCap(cap, value) == cap.allowed0 \subseteq value /\ value \subseteq cap.allowed1

CrFixedOk(value, fixed0, fixed1) == fixed0 \subseteq value /\ value \subseteq fixed1

\* SDM 24.7: VMXON raises #GP unless CR0/CR4 honour the fixed bits (this
\* includes CR4.VMXE) and IA32_FEATURE_CONTROL is locked with VMX outside
\* SMX enabled.
VmxonAllowed(hw, cr0, cr4, featureControl) ==
    /\ CrFixedOk(cr0, hw.cr0Fixed0, hw.cr0Fixed1)
    /\ CrFixedOk(cr4, hw.cr4Fixed0, hw.cr4Fixed1)
    /\ FeatureControlBits \subseteq featureControl

\* SDM 25.11.5 and 31.3 (VMXON, VMPTRLD): a VMXON region or VMCS region
\* whose first 32 bits differ from the processor's revision identifier
\* makes the instruction fail (VMfailInvalid, resp. VMfail).
RegionRevisionOk(hw, region) == region.revisionId = hw.vmcsRevision

\* SDM 25.4.2: the guest IA32_EFER field exists only on processors that
\* support the 1-setting of "load IA32_EFER" (VM entry) or of "save
\* IA32_EFER" (VM exit); VMWRITE to a field that does not exist fails
\* with VMfailValid (error 12).  The other fields the code writes exist on
\* every processor with EPT and unrestricted guest.
VmcsFieldSupported(hw, field) ==
    field = "GuestIa32Efer" =>
        \/ "LoadIa32Efer" \in GoverningCap(hw, "entryCtl").allowed1
        \/ "SaveIa32Efer" \in GoverningCap(hw, "exitCtl").allowed1

\* SDM 27.2.1.1: the EPTP (a 64-bit value) names a memory type the
\* processor supports for the paging structures (UC 0 or WB 6), a walk
\* length of 4 in bits 5:3, accessed/dirty flags (bit 6) off as the
\* processors here do not report them, and bits 11:7 zero.
EptpOk(eptp) ==
    /\ eptp % 8 \in {0, 6}
    /\ (eptp \div 8) % 8 = 3
    /\ (eptp \div 64) % 64 = 0

\* SDM 27.2.1 to 27.2.3: checks on the VMX controls and host-state fields
\* (host selectors have RPL and TI 0, and CS and TR are not null).
\* A violation makes VMLAUNCH/VMRESUME fail with VMfailValid.
ControlsAndHostOk(hw, v) ==
    /\ \A f \in ControlFields : WithinCap(GoverningCap(hw, f), v[f])
    /\ "UnrestrictedGuest" \in v.proc2 => "EnableEpt" \in v.proc2
    /\ "EnableEpt" \in v.proc2 => EptpOk(v.eptp)
    /\ CrFixedOk(v.hostCr0, hw.cr0Fixed0, hw.cr0Fixed1)
    /\ CrFixedOk(v.hostCr4, hw.cr4Fixed0, hw.cr4Fixed1)
    /\ \A s \in DOMAIN v.hostSelectors : v.hostSelectors[s] % 8 = 0
    /\ v.hostSelectors.cs # 0 /\ v.hostSelectors.tr # 0
    /\ "HostAddressSpaceSize" \in v.exitCtl

\* SDM 31.2: the RFLAGS VMLAUNCH/VMRESUME leaves when it does not enter the
\* guest: CF (VMfailInvalid) without a current VMCS, ZF (VMfailValid) when
\* the instruction does not fit the VMCS launch state (VMLAUNCH needs a
\* clear VMCS, VMRESUME a launched one) or a control or host-state check
\* fails.  A guest-state failure is reported as a VM exit instead and
\* leaves both clear.
VmEntryFlags(hw, v, current, instruction, launchState) ==
    CASE ~current                 -> {"CF"}
      [] instruction = "VMLAUNCH" /\ launchState # "Clear" -> {"ZF"}
      [] instruction = "VMRESUME" /\ launchState # "Launched" -> {"ZF"}
      [] ~ControlsAndHostOk(hw, v) -> {"ZF"}
      [] OTHER                    -> {}

\* SDM 27.3.1: checks on the guest-state area.  A violation is a VM-entry
\* failure that the processor reports as a VM exit (basic reason 33).
GuestStateOk(hw, v) ==
    LET ug     == "UnrestrictedGuest" \in v.proc2 /\ "SecondaryControls" \in v.proc
        exempt == IF ug THEN {"PE", "PG"} ELSE {}
        ia32e  == "Ia32eModeGuest" \in v.entryCtl
    IN  /\ hw.cr0Fixed0 \ exempt \subseteq v.guestCr0
        /\ v.guestCr0 \subseteq hw.cr0Fixed1
        /\ "PG" \in v.guestCr0 => "PE" \in v.guestCr0
        /\ CrFixedOk(v.guestCr4, hw.cr4Fixed0, hw.cr4Fixed1)
        /\ ia32e => "PG" \in v.guestCr0 /\ "PAE" \in v.guestCr4

\* SDM 28.3.2.1: IA32_EFER on VM entry.  Without "load IA32_EFER" only LMA
\* (and LME when guest CR0.PG is 1) take the "IA-32e mode guest" value;
\* the other bits are what the MSR held, i.e. the host's.
EferOnEntry(v, efer) ==
    LET ia32e == "Ia32eModeGuest" \in v.entryCtl
        lma   == IF ia32e THEN {"LMA"} ELSE {}
        lme   == IF "PG" \in v.guestCr0
                    THEN IF ia32e THEN {"LME"} ELSE {}
                    ELSE efer \cap {"LME"}
    IN  IF "LoadIa32Efer" \in v.entryCtl THEN v.guestEferField ELSE lma \cup lme

\* SDM 28.5.1: "host address-space size" 1 sets LMA and LME on VM exit.
EferOnExit == {"LME", "LMA"}

\* The VM exits a running guest can cause under the controls of the VMCS:
\* the unconditional ones of an operating system booting and running its
\* processors, plus those the controls turn on.  Triple faults, VMCALL and
\* EPT violations are left out: a guest that causes them is broken anyway.
ControlExit == [HltExiting |-> "Hlt", Cr3LoadExiting |-> "CrAccess",
                Cr3StoreExiting |-> "CrAccess",
                ExternalInterruptExiting |-> "ExternalInterrupt"]

PossibleExits(v) ==
    IF v.activity = "WaitForSipi"
       THEN {"Init", "Sipi"}
       ELSE {"Init", "Cpuid", "Rdmsr", "Wrmsr", "Xsetbv"}
            \cup {ControlExit[b] : b \in (v.pin \cup v.proc) \cap DOMAIN ControlExit}

\* Paging modes a running guest moves through on its own (no VM exit is
\* involved with the controls used): real, protected, then IA-32e.
GuestMode(v) ==
    CASE "PG" \in v.guestCr0 -> "Long"
      [] "PE" \in v.guestCr0 -> "Protected"
      [] OTHER              -> "Real"

ModeRank == [Real |-> 0, Protected |-> 1, Long |-> 2]

\* The guest-visible state is a record of RIP, RSP, RFLAGS, CS selector
\* and base (16-byte units), activity state, CR0.PE/PG and CR0.CD/NW.
\* Valid CD/NW settings (CD = 0 with NW = 1 is a #GP on MOV to CR0).
CacheModes == {{}, {"CD"}, {"CD", "NW"}}

\* SDM Table 9-1 and 10.4.7.3: the state after INIT of a processor in
\* state s, waiting for a SIPI; CR0.CD and NW are left unchanged (note 2).
ArchInitState(s) ==
    [rip |-> 65520, rsp |-> 0, rflags |-> 2, csSelector |-> 61440,
     csBase |-> 268431360, activity |-> "WaitForSipi", pePg |-> {},
     cache |-> s.cache]

\* SDM 10.4.7.3 / 26.6.2: a SIPI with vector VV starts the processor at
\* VV00:0000 (CS base VV000h) in real mode.
ArchSipiState(s, vv) ==
    [s EXCEPT !.rip = 0, !.csSelector = vv * 256, !.csBase = vv * 256,
              !.activity = "Active"]

\* The instruction pointer after an instruction of "len" bytes at "ip"
\* (SDM 3.6): a real-mode code segment has 16-bit operand size, so IP
\* wraps at 64 KiB.
NextIp(v, ip, len) ==
    IF GuestMode(v) = "Real" THEN (ip + len) % 65536 ELSE ip + len

\* SDM 20.1 / Table 9-1: the real-mode code segment INIT and SIPI leave has
\* limit 0FFFFh, and an instruction with a byte beyond it raises #GP rather
\* than executing, so it causes no instruction VM exit.
WithinCsLimit(v, ip, len) == GuestMode(v) = "Real" => ip + len <= 65536

\* Guest CR0/CR4 after the guest switched to "mode" (only forward).
InMode(v, mode) ==
    CASE mode = "Real"      -> [cr0 |-> v.guestCr0 \ {"PE", "PG"}, cr4 |-> v.guestCr4]
      [] mode = "Protected" -> [cr0 |-> (v.guestCr0 \ {"PG"}) \cup {"PE"}, cr4 |-> v.guestCr4]
      [] OTHER              -> [cr0 |-> v.guestCr0 \cup {"PE", "PG"}, cr4 |-> v.guestCr4 \cup {"PAE"}]

=============================================================================
