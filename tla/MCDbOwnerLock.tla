---------------------------- MODULE MCDbOwnerLock ----------------------------
(* Three acquirers, two of them in the same process, and four inodes: the   *)
(* path's, two orphans, and one to re-create the sidecar with.             *)
EXTENDS DbOwnerLock, TLC

CONSTANTS a1, a2, a3, p1, p2, i1, i2, i3, i4

MCAcq == {a1, a2, a3}
MCProcOf == a1 :> p1 @@ a2 :> p1 @@ a3 :> p2
MCInode == {i1, i2, i3, i4}
MCSymmetry == {f @@ g : f \in Permutations(MCInode), g \in Permutations({a1, a2})}
=============================================================================
