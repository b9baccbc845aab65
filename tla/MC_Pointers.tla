----------------------------- MODULE MC_Pointers -----------------------------
EXTENDS Pointers

\* Pointer values at the ends of the 64K page and at the start of SRAM.
MC_PtrInputs == {0, 8192, 65535}

\* The blocks Device::Device connects, in its order. The I/O addresses of
\* CPU and CLK are those their constructors pass to Block; the sizes, the
\* other addresses and the oscillator-failure vector are the XMEGA A
\* peripheral map (the block headers declaring them are not in src/).
MC_Blocks ==
  << [name |-> "CPU",   io |-> 48,  size |-> 16, iv |-> 0, ivn |-> 0],
     [name |-> "CLK",   io |-> 64,  size |-> 8,  iv |-> 0, ivn |-> 0],
     [name |-> "OSC",   io |-> 80,  size |-> 8,  iv |-> 1, ivn |-> 1],
     [name |-> "PMIC",  io |-> 160, size |-> 16, iv |-> 0, ivn |-> 0],
     [name |-> "GPIOR", io |-> 0,   size |-> 16, iv |-> 0, ivn |-> 0] >>

=============================================================================
