---------------------------- MODULE MCStudentDB ----------------------------
(* Instances of StudentDB for TLC, with model values for processes and inodes. *)
EXTENDS StudentDB, TLC

CONSTANTS p1, p2, i1, i2, i3, i4

AllArgs == -1..(MaxId + 1)     \* one id out of range on either side, and 0
AllGpas == {-1, 0, 500, 501}   \* both bounds of the range, and one past each

InodeSymmetry == Permutations(Inodes)

(* What is left in an inode that nobody can reach has no effect: it is empty
   when it is used again. *)
NodeView == [i \in Inodes |-> IF i \in Unused THEN <<>> ELSE node[i]]
View == <<dir, ddir, synced, NodeView, pc, cmdVars, fileVars, outVars>>
=============================================================================
