------------------------------ MODULE MC_EventHeap ------------------------------
(* Instantiates EventHeap with up to five addresses: the CPU event and up *)
(* to four block events, so that the heap has three levels and make_heap, *)
(* pop_heap and push_heap move elements across them.                      *)
EXTENDS EventHeap

CONSTANTS a1, a2, a3, a4, a5

MC_Handles4 == {a1, a2, a3, a4}
MC_Handles5 == {a1, a2, a3, a4, a5}
MC_Symmetry4 == Permutations(MC_Handles4)
MC_Symmetry5 == Permutations(MC_Handles5)
================================================================================
