----------------------------- MODULE MCFileLock -----------------------------
(* TLC instances of FileLock: two paths, of the same length or not.           *)
EXTENDS FileLock, TLC

CONSTANTS c1, c2, pathA, pathB, fileA, fileB

MCPaths == {pathA, pathB}

MCLockFileOf == (pathA :> fileA) @@ (pathB :> fileB)
DistinctLengths == (pathA :> 9) @@ (pathB :> 10)
EqualLengths == (pathA :> 9) @@ (pathB :> 9)

MCRequests == {<<pathB>>, <<pathA, pathB>>, <<pathB, pathA>>}

Symmetry == Permutations({c1, c2})

=============================================================================
