------------------------------- MODULE MCVmxCpu -------------------------------
(***************************************************************************)
(* Instances of VmxCpu for TLC: processor descriptions and small sets of   *)
(* guest register values.                                                  *)
(***************************************************************************)
EXTENDS VmxCpu

\* Capability MSRs of a processor with the TRUE MSRs (bit 55 set): the TRUE
\* MSRs allow the default1 CR3-exiting controls to be 0, the legacy ones do
\* not.  "ug" says whether unrestricted guest can be enabled, "eferCtls"
\* whether the load/save IA32_EFER controls (and so the guest IA32_EFER
\* field) exist.
CapsOf(ug, eferCtls) ==
    LET entry == IF eferCtls THEN EntryBits ELSE EntryBits \ {"LoadIa32Efer"}
        exit  == IF eferCtls THEN ExitBits ELSE ExitBits \ {"SaveIa32Efer"}
    IN
    [IA32_VMX_PINBASED_CTLS       |-> [allowed0 |-> {}, allowed1 |-> PinBits],
     IA32_VMX_TRUE_PINBASED_CTLS  |-> [allowed0 |-> {}, allowed1 |-> PinBits],
     IA32_VMX_PROCBASED_CTLS      |-> [allowed0 |-> {"Cr3LoadExiting", "Cr3StoreExiting"},
                                       allowed1 |-> ProcBits],
     IA32_VMX_TRUE_PROCBASED_CTLS |-> [allowed0 |-> {}, allowed1 |-> ProcBits],
     IA32_VMX_PROCBASED_CTLS2     |-> [allowed0 |-> {},
                                       allowed1 |-> IF ug THEN Proc2Bits
                                                    ELSE Proc2Bits \ {"UnrestrictedGuest"}],
     IA32_VMX_EXIT_CTLS           |-> [allowed0 |-> {}, allowed1 |-> exit],
     IA32_VMX_TRUE_EXIT_CTLS      |-> [allowed0 |-> {}, allowed1 |-> exit],
     IA32_VMX_ENTRY_CTLS          |-> [allowed0 |-> {}, allowed1 |-> entry],
     IA32_VMX_TRUE_ENTRY_CTLS     |-> [allowed0 |-> {}, allowed1 |-> entry]]

\* Revision identifier 4 stands for the processor's (any nonzero value).
Platform(trueCtls, ug, fc, eferCtls) ==
    [trueCtls |-> trueCtls, caps |-> CapsOf(ug, eferCtls),
     cr0Fixed0 |-> {"PE", "NE", "PG"}, cr0Fixed1 |-> Cr0Bits,
     cr4Fixed0 |-> {"VMXE"}, cr4Fixed1 |-> Cr4Bits,
     featureControl |-> fc, vmcsRevision |-> 4]

\* Processors the hypervisor supports: TRUE MSRs, unrestricted guest, and
\* firmware that either leaves IA32_FEATURE_CONTROL unlocked or locks it
\* with VMX outside SMX enabled.
MCSupportedPlatforms ==
    {Platform(TRUE, TRUE, fc, TRUE) : fc \in {{}, {"Lock", "VmxOutsideSmx"}}}

\* Every combination, the unsupported ones included.
MCAllPlatforms ==
    {Platform(t, ug, fc, e) : t \in BOOLEAN, ug \in BOOLEAN, e \in BOOLEAN,
                              fc \in {{}, {"Lock"}, {"Lock", "VmxOutsideSmx"}}}

\* Legacy capability MSRs only (bit 55 clear).
MCLegacyPlatforms == {Platform(FALSE, TRUE, {}, TRUE)}

\* Firmware locked IA32_FEATURE_CONTROL with VMX outside SMX disabled.
MCLockedPlatforms == {Platform(TRUE, TRUE, {"Lock"}, TRUE)}

\* The OS runs with caching enabled; a guest may also disable caching.
MCCachingEnabled == {{}}
MCCacheControl == CacheModes

\* CR0 with and without NE set by the OS.
MCHostCr0s == {{"PE", "ET", "NE", "PG"}, {"PE", "ET", "PG"}}

\* Windows x64 selectors: kernel CS/SS 0x10/0x18, user data 0x2B with RPL 3,
\* FS 0x53, TR 0x40.
MCHostSegments == [es |-> 43, cs |-> 16, ss |-> 24, ds |-> 43, fs |-> 83, gs |-> 43, tr |-> 64]

=============================================================================
