--------------------------------- MODULE MCEpt ---------------------------------
EXTENDS Ept

\* Write-back memory with up to two uncached intervals: [a, b) inside the
\* first large page, at 4 KiB granularity like the fixed-range MTRRs of the
\* legacy area, and [c, d) above it.
Layout(a, b, c, d) ==
    [p \in Pages |-> IF p \in (a .. b - 1) \cup (c .. d - 1) THEN "UC" ELSE "WB"]

LargeBoundaries == {m * LargePages : m \in 1 .. N * N}

\* Layouts whose boundaries above the first large page are large-page
\* aligned (the platform convention build_identity assumes).
MCAlignedLayouts ==
    {Layout(a, b, c, d) : a \in 0 .. LargePages, b \in 0 .. LargePages,
                          c \in LargeBoundaries, d \in LargeBoundaries}

=============================================================================
