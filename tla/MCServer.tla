------------------------------ MODULE MCServer ------------------------------
(* TCPServer on small sets of connections, descriptors and threads.        *)
EXTENDS ServerContract, TLC

Symmetry == Permutations(Conn) \cup Permutations(FD)
ThreadSymmetry == Symmetry \cup Permutations(Thread)
=============================================================================
