------------------------------ MODULE RemoteMC -------------------------------
(* The threads of the runs of Remote, and what is symmetric in them.        *)
EXTENDS Remote, TLC

CONSTANTS w1, m1, l1, l2, p1, p2, p3

AllThreads == Web \cup Menus \cup Loops
Sym == Permutations(Plays) \cup Permutations(Loops)
=============================================================================
