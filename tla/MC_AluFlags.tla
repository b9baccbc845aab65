----------------------------- MODULE MC_AluFlags -----------------------------
(* Instantiates AluFlags: Rd takes every byte; Rr and K take the values at *)
(* the nibble and sign boundaries (and K 0, 1, 15, 63 for ADIW/SBIW); the *)
(* high byte of the pair takes the values around bit 15's carries.        *)
EXTENDS AluFlags

MC_DOperands  == 0..255
MC_ROperands  == {0, 1, 15, 127, 128, 255}
MC_HiOperands == {0, 127, 128, 255}

\* After a skip: LDI r16,0; CALL with its k bit 16 set; STS r31; and the
\* 16-bit IJMP and LD r0,X+ that share their first bits.
MC_NextWords == {57344, 37903, 37872, 37897, 36877}

\* The extreme branch displacements.
MC_BranchDisps == {-64, 63}

\* JMP with k21..k16 clear, with only k16 set, and with all of them set.
MC_JmpWords == {37900, 37901, 38397}

\* RJMP by 0, the largest forward, the largest backward and -1 words.
MC_RjmpFields == {0, 2047, 2048, 4095}

\* A flash image whose words all differ: word w holds w mod 2^16, so a read
\* from the wrong word or of the wrong byte of a word gets another value.
MC_FlashWord(w) == w % 65536
==============================================================================
