---------------------------- MODULE PoolVolumes -----------------------------
(***************************************************************************)
(* A pool whose volumes are independent of each other, as the dir, btrfs   *)
(* and LVM drivers see theirs: a function from the volumes that exist      *)
(* (directories, subvolumes or logical volumes) to their data.             *)
(***************************************************************************)
EXTENDS Naturals, Sequences, FiniteSets, Functions, SequencesExt, StorageOutcome

CONSTANTS Container, SnapName

(* getContainerMountPoint, getSnapshotMountPoint, getImageMountPoint. *)
Ctn(c)     == <<"containers", c>>
Snp(c, s)  == <<"snapshots", c, s>>
Img(i)     == <<"images", i>>

Put(p, x, v)   == [y \in DOMAIN p \cup {x} |-> IF y = x THEN v ELSE p[y]]
Drop(p, X)     == Restrict(p, DOMAIN p \ X)
Move(p, x, y)  == IF x \in DOMAIN p THEN Put(Drop(p, {x}), y, p[x]) ELSE p

(* The volumes below snapshots/<c>. *)
SnapDir(p, c) == {x \in DOMAIN p : x[1] \in {"snapshots", "snapshots.ro"} /\ x[2] = c}
MoveSnapDir(p, old, new) ==
  FoldSet(LAMBDA x, q : Move(q, x, <<x[1], new, x[3]>>), p, SnapDir(p, old))

SourceData(p, src) == IF Len(src) = 1 THEN p[Ctn(src[1])] ELSE p[Snp(src[1], src[2])]

(* The first n snapshots of the source, copied to the target. *)
CopySnaps(p, t, src, snaps, n) ==
  FoldLeft(LAMBDA q, s : Put(q, Snp(t, s), p[Snp(src[1], s)]), p, SubSeq(snaps, 1, n))

Volumes(p) == {c \in Container : Ctn(c) \in DOMAIN p}
EmptyPool == [x \in {} |-> "empty"]
Write(p, c, v) == [p EXCEPT ![Ctn(c)] = v]
=============================================================================
