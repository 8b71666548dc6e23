---------------------------- MODULE MCCallSequence ----------------------------
(***************************************************************************)
(* Instances of CallSequence: a GP pool of three registers, disjoint from  *)
(* two argument registers, so that short programs spill, pass arguments on *)
(* the stack and run out of registers; and the real SIMD pool, which       *)
(* contains the argument registers.                                        *)
(***************************************************************************)
EXTENDS CallSequence

Modulus == 97

\* Hashes that tell operands and arguments apart, whatever their order.
MCOp(a, b) == (3 * a + 5 * b + 1) % Modulus
MCCallee(received) == FoldLeft(LAMBDA h, a : (7 * h + a + 2) % Modulus, 1, received)
MCValue == 0..Modulus

\* rbx is allocated first and is the callee's to save, as r12 is.
GpInitialRegs == <<"r10", "r12", "rbx">>
GpArgRegs     == <<"rdi", "rsi">>
GpCallerSaved == <<"r10", "r12">>

\* xmm1 is allocated first, then xmm2 to xmm7, then xmm0, then xmm8 to xmm15.
SimdInitialRegs ==
  <<"xmm15", "xmm14", "xmm13", "xmm12", "xmm11", "xmm10", "xmm9", "xmm8",
    "xmm0", "xmm7", "xmm6", "xmm5", "xmm4", "xmm3", "xmm2", "xmm1">>
SimdArgRegs ==
  <<"xmm0", "xmm1", "xmm2", "xmm3", "xmm4", "xmm5", "xmm6", "xmm7">>
================================================================================
