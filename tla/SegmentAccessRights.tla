-------------------------- MODULE SegmentAccessRights --------------------------
(***************************************************************************)
(* The guest segment access rights written by initialize_guest            *)
(* (guest.rs): the native access rights LAR returns for a live selector   *)
(* are re-encoded by VmxGuest::access_rights into the VMCS format, whose  *)
(* layout is VmxSegmentAccessRights.  The LDTR field is written as        *)
(* access_rights(0).                                                      *)
(*                                                                         *)
(* The check runs over every descriptor LAR accepts in 64-bit mode, with  *)
(* both values of the bits LAR leaves undefined, and the null input.      *)
(***************************************************************************)
EXTENDS Integers, Bitwise

\* Descriptor fields (SDM 3.4.5); s = 0 is a system descriptor.
Descriptors ==
    [type : 0 .. 15, s : {1}, dpl : 0 .. 3, p : 0 .. 1,
     avl : 0 .. 1, l : 0 .. 1, db : 0 .. 1, g : 0 .. 1]
    \cup
    \* LDT, available and busy 64-bit TSS, 64-bit call gate: the system
    \* types LAR accepts in IA-32e mode.
    [type : {2, 9, 11, 12}, s : {0}, dpl : 0 .. 3, p : 0 .. 1,
     avl : 0 .. 1, l : 0 .. 1, db : 0 .. 1, g : 0 .. 1]

\* The null input (the LDTR's literal 0): a reserved system type LAR rejects.
Null == [type |-> 0, s |-> 0, dpl |-> 0, p |-> 0, avl |-> 0, l |-> 0, db |-> 0, g |-> 0]

\* LAR (SDM vol. 2A): the descriptor's second doubleword masked by
\* 00FxFF00H; the limit bits 19:16 ("x") are undefined.
Lar(d, undef) ==
    256 * (d.type + 16 * d.s + 32 * d.dpl + 128 * d.p)
    + 65536 * undef
    + 1048576 * (d.avl + 2 * d.l + 4 * d.db + 8 * d.g)

VMX_SEGMENT_ACCESS_RIGHTS_UNUSABLE_FLAG == 65536

\* VmxSegmentAccessRights: type 3:0, S 4, DPL 6:5, P 7, AVL 12, L 13,
\* D/B 14, G 15, unusable 16, bits 11:8 and 31:17 reserved zero.
VmxSegmentAccessRights(d) ==
    d.type + 16 * d.s + 32 * d.dpl + 128 * d.p
    + 4096 * d.avl + 8192 * d.l + 16384 * d.db + 32768 * d.g

\* Mutant: the reserved nibble is not masked off (mask 0xFFFF).
access_rights_unmasked(ar) ==
    IF ar = 0 THEN VMX_SEGMENT_ACCESS_RIGHTS_UNUSABLE_FLAG
    ELSE shiftR(ar, 8) & 65535

\* VmxGuest::access_rights: unusable for 0, else (ar >> 8) & 0b1111_0000_1111_1111.
access_rights(ar) ==
    IF ar = 0 THEN VMX_SEGMENT_ACCESS_RIGHTS_UNUSABLE_FLAG
    ELSE shiftR(ar, 8) & 61695

-----------------------------------------------------------------------------
VARIABLES
    desc,     \* the live segment's descriptor, or Null (the LDTR's literal 0)
    undef,    \* the value LAR leaves in bits 19:16
    field     \* the VMCS access-rights field, -1 before the write

vars == <<desc, undef, field>>

Native == IF desc = Null THEN 0 ELSE Lar(desc, undef)

Init ==
    /\ desc \in Descriptors \cup {Null}
    /\ undef \in {0, 15}
    /\ field = -1

\* vmwrite(*_ACCESS_RIGHTS, Self::access_rights(lar(seg))).
WriteAccessRights ==
    /\ field = -1
    /\ field' = access_rights(Native)
    /\ UNCHANGED <<desc, undef>>

Spec == Init /\ [][WriteAccessRights]_vars

\* The access-rights field initialize_guest writes is the VMX encoding of
\* the live descriptor's attributes whatever LAR leaves in its undefined
\* bits, and "unusable" exactly for the null input (spec section 8:
\* encode(0) is unusable; otherwise bit 16 and the bits outside
\* 0b1111_0000_1111_1111 are zero).
AccessRightsEncoding ==
    field # -1 =>
        field = IF desc = Null THEN VMX_SEGMENT_ACCESS_RIGHTS_UNUSABLE_FLAG
                ELSE VmxSegmentAccessRights(desc)

=============================================================================
