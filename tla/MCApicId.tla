------------------------------- MODULE MCApicId -------------------------------
EXTENDS ApicId

\* xAPIC systems: IDs fit in 8 bits (0, 1, 2, 4, 6, 128, 255 as on parts with
\* hyper-threading off or sparse packages).
MCXApicIds == {0, 1, 2, 4, 6, 128, 255}

\* x2APIC systems: IDs of a second package start at 256.
MCX2ApicIds == {0, 1, 256, 257}

=============================================================================
