------------------------ MODULE MCStudentDBDurable ------------------------
(* An instance of StudentDBDurable for TLC: no step reads the answers. *)
EXTENDS StudentDBDurable, TLC

CONSTANTS p1, i1, i2, i3, i4

InodeSymmetry == Permutations(Inodes)
Kept(f) == [i \in Inodes |-> IF i \in Unused THEN <<>> ELSE f[i]]
View == <<dir, ddir, Kept(synced), Kept(node), pc, cmdVars, fileVars, safe>>
=============================================================================
