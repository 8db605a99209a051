----------------------------- MODULE GuestMachine -----------------------------
(***************************************************************************)
(* What the hypervisor promises the OS it virtualises: a processor that   *)
(* behaves as the architecture says (Intel SDM), with the hypervisor       *)
(* invisible.  The guest's architectural state `g` changes only by the    *)
(* guest executing, by an INIT, and by a startup IPI; everything the      *)
(* hypervisor does between two guest steps leaves it as it is.  The       *)
(* hypervisor may stop the machine for good (a panic); before it virtualises *)
(* the processor it takes over whatever state the OS had.                 *)
(*                                                                         *)
(* `phase` says who runs: "Boot" (the OS, before virtualisation), "Guest" *)
(* (the guest), "Vmm" (the hypervisor, between an exit and the next      *)
(* entry), "Halted".  The INIT and SIPI states are VmxProcessor's.      *)
(***************************************************************************)
EXTENDS VmxProcessor

CONSTANT SipiVectors     \* vectors a startup IPI can carry

VARIABLES g, phase

Modes == SUBSET {"PE", "PG"}

GuestStates ==
    [rip : Nat, rsp : Nat, rflags : Nat, csSelector : Nat, csBase : Nat,
     activity : {"Active", "WaitForSipi"}, pePg : Modes,
     cache : CacheModes]

\* Real -> protected -> paged: paging needs protection.
ModeForward(from, to) == from \subseteq to /\ ("PG" \in to => "PE" \in to)

Init ==
    /\ phase = "Boot"
    /\ g \in GuestStates

\* Virtualisation starts from whatever state the OS was in.
Capture ==
    /\ phase = "Boot"
    /\ phase' = "Vmm"
    /\ g' \in GuestStates

\* The guest is (re)started in the state it was left in.
Resume ==
    /\ phase = "Vmm"
    /\ phase' = "Guest"
    /\ UNCHANGED g

\* The guest executes instructions, then the hypervisor gets control: RIP,
\* RSP, RFLAGS and the mode move on; the code segment does not change.
Execute ==
    /\ phase = "Guest" /\ g.activity = "Active"
    /\ phase' = "Vmm"
    /\ g' \in GuestStates
    /\ g'.activity = "Active"
    /\ g'.csSelector = g.csSelector /\ g'.csBase = g.csBase
    /\ ModeForward(g.pePg, g'.pePg)

\* An INIT, in any activity state, resets the processor; the cache-control
\* bits survive it.
Reset ==
    /\ phase = "Guest"
    /\ phase' = "Vmm"
    /\ g' = ArchInitState(g)

\* A startup IPI starts a processor waiting for one.
Startup ==
    /\ phase = "Guest" /\ g.activity = "WaitForSipi"
    /\ phase' = "Vmm"
    /\ \E vv \in SipiVectors : g' = ArchSipiState(g, vv)

\* The hypervisor stops the machine.  A panic may strike half-way through
\* a handler, so what it leaves of the guest state is not constrained; the
\* halted machine takes no further step.
Halt ==
    /\ phase # "Halted"
    /\ phase' = "Halted"
    /\ g' \in GuestStates

Next == Capture \/ Resume \/ Execute \/ Reset \/ Startup \/ Halt

Spec == Init /\ [][Next]_<<g, phase>>

=============================================================================
