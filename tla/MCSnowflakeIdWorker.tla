-------------------------- MODULE MCSnowflakeIdWorker --------------------------
(* The id generator with two threads, two ids in a millisecond, and the node *)
(* (0, 0) that MessageSendAsync builds it with, among two nodes.             *)
EXTENDS SnowflakeIdWorker, TLC

Symmetry == Permutations(Threads)

================================================================================
