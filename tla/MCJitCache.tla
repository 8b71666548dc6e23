------------------------------ MODULE MCJitCache ------------------------------
(***************************************************************************)
(* Programs of three functions: 1 calls 2, which is defined after it, and  *)
(* main, the last, calls both; the other text of each function changes     *)
(* what it calls and makes it call itself.                                 *)
(***************************************************************************)
EXTENDS JitCache

MCText == {"a", "b"}

\* The other text of 1 has other parameters.
MCSignature == << [a |-> "int64", b |-> "float64"], [a |-> "int64", b |-> "int64"],
                  [a |-> "int64", b |-> "int64"] >>

\* No function is called by one it calls, itself aside.
AcyclicCalls == << [a |-> <<2>>, b |-> <<2, 1>>],
                   [a |-> <<>>, b |-> <<2>>],
                   [a |-> <<1, 2>>, b |-> <<2>>] >>

\* The second text of 2 calls 1 back.
MutualCalls == [AcyclicCalls EXCEPT ![2] = [a |-> <<>>, b |-> <<1>>]]
================================================================================
