--------------------------- MODULE MCNativeMemory ---------------------------
(***************************************************************************)
(* NativeMemory for TLC: objects are interchangeable, and so are the       *)
(* addresses malloc returns.                                               *)
(***************************************************************************)
EXTENDS NativeMemory, TLC

Symmetry == Permutations(Objs) \cup Permutations(Addrs)
=============================================================================
