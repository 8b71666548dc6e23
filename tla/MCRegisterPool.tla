---------------------------- MODULE MCRegisterPool ----------------------------
(* Small instances of RegisterPool: three registers, so that three operands    *)
(* are in registers and the others spilled.                                    *)
EXTENDS RegisterPool

MCInitialRegs == <<"r11", "r10", "rbx">>
================================================================================
