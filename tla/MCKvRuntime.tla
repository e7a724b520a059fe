---------------------------- MODULE MCKvRuntime ----------------------------
(* KvRuntime on a small instance: blocks, requests and executions are      *)
(* interchangeable.                                                        *)
EXTENDS KvRuntime, TLC

Symmetry == Permutations(Block) \cup Permutations(Request)
              \cup Permutations(Execution)
=============================================================================
