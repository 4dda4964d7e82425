---------------------------- MODULE MCTaskArchive ----------------------------
(* Three tasks: the line of the second is as long as can be read when it is  *)
(* first run, and too long once it was resumed.                              *)
EXTENDS TaskArchive

MCInitialSize == [i \in 0 .. MaxId - 1 |-> IF i = 1 THEN 2 ELSE 1]

=============================================================================
