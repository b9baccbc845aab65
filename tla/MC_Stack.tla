------------------------------ MODULE MC_Stack ------------------------------
EXTENDS Stack

\* Word addresses around a byte boundary, and one above 64K words that
\* only the device with 3-byte return PCs has.
MC_Targets == {16, 255, 65791}

=============================================================================
