--------------------------- MODULE MCFileSession ---------------------------
(* Small instances of FileSession: two machines and the instance lists a    *)
(* request may name.                                                        *)
EXTENDS FileSession, TLC

CONSTANTS i1, i2

TargetsBoth == {{i1, i2}}
TargetsFirst == {{i1}}
\* The machines are alike where a request names both.
Machines == Permutations({i1, i2})

=============================================================================
