------------------------------- MODULE VmxBits -------------------------------
(***************************************************************************)
(* The bit arithmetic of guest.rs and vmx.rs.  A control register or a    *)
(* VMCS control field is modelled as the set of its bits that are 1, named *)
(* after the SDM, so the code's x & y, x | y and x & !y are \cap, \cup and *)
(* \.  Only the bits some property tells apart are in the universes; the   *)
(* reserved default1 bits of the capability MSRs are represented by the    *)
(* two CR3-exiting controls, the only ones the dispatcher would notice.    *)
(* "hw" is a processor description (see VmxProcessor): its capability     *)
(* MSRs and its VMX-fixed CR0/CR4 bits, i.e. what the code reads by rdmsr. *)
(***************************************************************************)
EXTENDS Naturals, FiniteSets

Cr0Bits   == {"PE", "ET", "NE", "NW", "CD", "PG"}
Cr4Bits   == {"PAE", "VMXE"}
PinBits   == {"ExternalInterruptExiting"}
ProcBits  == {"HltExiting", "Cr3LoadExiting", "Cr3StoreExiting",
              "UseMsrBitmaps", "SecondaryControls"}
Proc2Bits == {"EnableEpt", "UnrestrictedGuest", "EnableRdtscp",
              "EnableInvpcid", "EnableXsavesXrstors"}
ExitBits  == {"HostAddressSpaceSize", "SaveIa32Efer"}
EntryBits == {"Ia32eModeGuest", "LoadIa32Efer"}

\* The VmxControl enum.  ProcessorBased3 is never requested by the code.
VmxControl == {"PinBased", "ProcessorBased", "ProcessorBased2", "VmExit", "VmEntry"}

\* get_adjusted_cr0: (cr0 & fixed1) | fixed0 with the IA32_VMX_CR0_FIXED MSRs.
get_adjusted_cr0(hw, cr0) == (cr0 \cap hw.cr0Fixed1) \cup hw.cr0Fixed0

\* Mutant: the fixed-0 bits (CR4.VMXE) are not ORed in.
get_adjusted_cr4_unfixed(hw, cr4) == cr4 \cap hw.cr4Fixed1

\* get_adjusted_cr4: (cr4 & fixed1) | fixed0 with the IA32_VMX_CR4_FIXED MSRs.
get_adjusted_cr4(hw, cr4) == (cr4 \cap hw.cr4Fixed1) \cup hw.cr4Fixed0

\* Mutant: unrestricted guest is not taken into account.
get_adjusted_guest_cr0_fixed(hw, cr0, secondary) == (cr0 \cap hw.cr0Fixed1) \cup hw.cr0Fixed0

\* get_adjusted_guest_cr0: the fixed bits applied, then PE and PG taken from
\* the requested value when the current VMCS enables unrestricted guest
\* (the vmread of SECONDARY_PROCBASED_EXEC_CONTROLS is the argument).
get_adjusted_guest_cr0(hw, cr0, secondary) ==
    LET new_cr0 == get_adjusted_cr0(hw, cr0)
        pe_pg   == {"PE", "PG"}
    IN  IF "UnrestrictedGuest" \in secondary
           THEN (new_cr0 \ pe_pg) \cup (cr0 \cap pe_pg)
           ELSE new_cr0

\* get_adjusted_guest_cr4 only applies the fixed bits.
get_adjusted_guest_cr4(hw, cr4) == get_adjusted_cr4(hw, cr4)

\* Mutant: IA32_VMX_BASIC bit 55 is ignored, the legacy MSRs are read.
CapMsrLegacy(control, true_cap_msr_supported) ==
    IF control = "ProcessorBased2" THEN "IA32_VMX_PROCBASED_CTLS2"
    ELSE [PinBased |-> "IA32_VMX_PINBASED_CTLS",
          ProcessorBased |-> "IA32_VMX_PROCBASED_CTLS",
          VmExit |-> "IA32_VMX_EXIT_CTLS",
          VmEntry |-> "IA32_VMX_ENTRY_CTLS"][control]

\* The capability MSR adjust_vmx_control consults for a control: the TRUE_*
\* variant when IA32_VMX_BASIC bit 55 is set, and PROCBASED_CTLS2 always.
CapMsr(control, true_cap_msr_supported) ==
    CASE control = "ProcessorBased2" -> "IA32_VMX_PROCBASED_CTLS2"
      [] true_cap_msr_supported ->
            [PinBased |-> "IA32_VMX_TRUE_PINBASED_CTLS",
             ProcessorBased |-> "IA32_VMX_TRUE_PROCBASED_CTLS",
             VmExit |-> "IA32_VMX_TRUE_EXIT_CTLS",
             VmEntry |-> "IA32_VMX_TRUE_ENTRY_CTLS"][control]
      [] OTHER ->
            [PinBased |-> "IA32_VMX_PINBASED_CTLS",
             ProcessorBased |-> "IA32_VMX_PROCBASED_CTLS",
             VmExit |-> "IA32_VMX_EXIT_CTLS",
             VmEntry |-> "IA32_VMX_ENTRY_CTLS"][control]

\* Mutant: the allowed-1 mask is not applied.
adjust_vmx_control_unmasked(hw, control, requested_value) ==
    LET cap == hw.caps[CapMsr(control, hw.trueCtls)]
    IN  [value |-> requested_value \cup cap.allowed0, ok |-> TRUE]

\* adjust_vmx_control: effective = (requested | allowed0) & allowed1, and the
\* assert that no requested bit was dropped.  "ok" is FALSE when the assert
\* fires (the code panics).
adjust_vmx_control(hw, control, requested_value) ==
    LET cap       == hw.caps[CapMsr(control, hw.trueCtls)]
        effective == (requested_value \cup cap.allowed0) \cap cap.allowed1
    IN  [value |-> effective, ok |-> requested_value \subseteq effective]

\* A host selector with the RPL and TI bits cleared: sel & !0b111.
HostSelector(sel) == sel - (sel % 8)

=============================================================================
