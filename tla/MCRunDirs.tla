----------------------------- MODULE MCRunDirs ------------------------------
(* Three launchers in a run root that holds runs 001 and (unpadded) 2, and a *)
(* file called "003".                                                        *)
EXTENDS RunDirs

CONSTANTS p1, p2, p3

MCLaunchers == {p1, p2, p3}
MCOldCounted == {1, 2}
MCOldTaken == {1, 3}

=============================================================================
