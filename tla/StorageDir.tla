----------------------------- MODULE StorageDir -----------------------------
(***************************************************************************)
(* The directory driver (apollo/storage_dir.go): a container and each of   *)
(* its snapshots is a directory, copied with rsync.  A directory that an   *)
(* error left half written counts as written.                              *)
(***************************************************************************)
EXTENDS PoolVolumes

CONSTANTS Image

(* The directory is made before its path and the undo is registered after  *)
(* both; the undo of an empty container removes the path and then only an  *)
(* empty directory.                                                        *)
Created(p, c, v) == {Failed(p), Unseen(Put(p, Ctn(c), v)), Done(Put(p, Ctn(c), v))}

ContainerCreate(p, c) == Created(p, c, "empty")

(* The undo is ContainerDelete, which may fail. *)
ContainerCreateFromImage(p, c, i) == Created(p, c, i) \cup {Cut(Put(p, Ctn(c), i))}

(* A deletion that goes wrong behind the directory keeps the row. *)
ContainerDelete(p, c) ==
  LET q == Drop(p, {Ctn(c)} \cup SnapDir(p, c)) IN
  {Failed(p), Done(q), Left(q, "rowleft")}

(* What was copied before an error stays; the caller deletes the target. *)
ContainerCopy(p, t, src, snaps) ==
  LET q == Put(p, Ctn(t), SourceData(p, src)) IN
  {Failed(p), Unseen(q), Done(CopySnaps(q, t, src, snaps, Len(snaps)))}
    \cup {Cut(CopySnaps(q, t, src, snaps, n)) : n \in 0..Len(snaps)}

(* Nothing is undone when moving the snapshots fails. *)
ContainerRename(p, old, new, snaps) ==
  LET q == Move(p, Ctn(old), Ctn(new)) IN
  {Failed(p), Done(MoveSnapDir(q, old, new)), Left(q, "renamed")}

(* rsync into the live tree: an error leaves a mixture behind. *)
ContainerRestore(p, c, s) ==
  IF Snp(c, s) \notin DOMAIN p THEN {Failed(p)}
  ELSE {Failed(p), Done(Put(p, Ctn(c), p[Snp(c, s)])), Left(Put(p, Ctn(c), "torn"), "torn")}

(* A failed rsync calls ContainerDelete with the snapshot's name, which     *)
(* removes <container>/<snapshot> below the container's own directory as    *)
(* well: for a snapshot called rootfs, the root file system.                *)
ContainerSnapshotCreate(p, c, s) ==
  LET q == Put(p, Snp(c, s), p[Ctn(c)]) IN
  {Failed(p), Cut(q), Done(q), Left(Put(q, Ctn(c), "torn"), "torn")}

ContainerSnapshotDelete(p, c, s) ==
  LET q == Drop(p, {Snp(c, s)}) IN {Failed(p), Done(q), Left(q, "rowleft")}

ContainerSnapshotRename(p, c, s, n) == {Failed(p), Done(Move(p, Snp(c, s), Snp(c, n)))}

ContainerSnapshotStart(p, c, s) == {Done(p)}
ContainerSnapshotStop(p, c, s)  == {Done(p)}

ImageDelete(p, i) == {Done(p)}

VolumeSnaps(p, c) == {s \in SnapName : Snp(c, s) \in DOMAIN p}
SnapData(p, c, s) == p[Snp(c, s)]
=============================================================================
