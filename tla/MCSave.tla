------------------------------- MODULE MCSave -------------------------------
(* Three savers and two names, so that the third finds both of them taken    *)
(* after two have crashed, and two moves, so that a file may be created and  *)
(* removed, or removed and created, between any two system calls.            *)
EXTENDS Save, TLC

AnySaver == Permutations(Savers)

=============================================================================
