----------------------------- MODULE StorageLvm -----------------------------
(***************************************************************************)
(* The LVM driver (apollo/storage_lvm.go, storage_lvm_utils.go), with a    *)
(* thin pool or without one.  A container, a snapshot and, in a thin pool, *)
(* an image is a logical volume; a thin volume is copied by snapshotting   *)
(* it, any other one with rsync.  lvremove fails on a missing volume, and  *)
(* so does every later attempt to delete what had it.                      *)
(***************************************************************************)
EXTENDS PoolVolumes

CONSTANTS Image

(* The volume goes before its mount point, which may not be removable. *)
removeLV(p, x) ==
  IF x \notin DOMAIN p THEN {Left(p, "rowleft")}
  ELSE {Failed(p), Done(Drop(p, {x})), Left(Drop(p, {x}), "rowleft")}

ContainerDelete(p, c) == removeLV(p, Ctn(c))

(* lvmCreateLv leaves a volume it could not format; later errors undo it. *)
ContainerCreate(p, c) ==
  LET q == Put(p, Ctn(c), "empty") IN {Failed(p), Unseen(q), Done(q)}

(* The same for the volume of an image, which later creations clone. *)
ImageCreate(p, i) == {Failed(p), Half(Put(p, Img(i), "torn")), Done(Put(p, Img(i), i))}

(* Without a thin pool there is no volume for an image. *)
ImageDelete(p, i) == IF Img(i) \notin DOMAIN p THEN {Done(p)} ELSE removeLV(p, Img(i))

(* createSnapshotLV leaves a volume it could not activate. *)
containerCreateFromImageThinLv(p, c, i) ==
  UNION {LET q == Put(r.p, Ctn(c), r.p[Img(i)]) IN
         IF ~r.ok THEN {r} ELSE {Failed(r.p), Unseen(q), Done(q)}
         : r \in IF Img(i) \in DOMAIN p THEN {Done(p)} ELSE ImageCreate(p, i)}

(* An image that cannot be unpacked leaves the volume to the caller's Delete. *)
containerCreateFromImageLv(p, c, i) ==
  {r \in ContainerCreate(p, c) : ~r.ok}
    \cup {Cut(Put(p, Ctn(c), "empty")), Done(Put(p, Ctn(c), i))}

ContainerCreateFromImage(p, c, i, thin) ==
  IF thin THEN containerCreateFromImageThinLv(p, c, i) ELSE containerCreateFromImageLv(p, c, i)

(* The path is made first, so that the caller's Delete goes to the driver    *)
(* whatever failed: it cannot remove a container or a snapshot whose volume  *)
(* was not copied yet.                                                      *)
ContainerCopy(p, t, src, snaps) ==
  LET q == Put(p, Ctn(t), SourceData(p, src)) IN
  {Failed(p), Cut(p), Done(CopySnaps(q, t, src, snaps, Len(snaps)))}
    \cup {Cut(CopySnaps(q, t, src, snaps, n)) : n \in 0..Len(snaps)}

(* The snapshots are renamed one after the other; an error undoes the      *)
(* rename of the container alone.                                          *)
ContainerRename(p, old, new, snaps) ==
  LET first(n) == FoldLeft(LAMBDA q, s : Move(q, Snp(old, s), Snp(new, s)), p, SubSeq(snaps, 1, n)) IN
  {Failed(p), Done(Move(first(Len(snaps)), Ctn(old), Ctn(new)))}
    \cup {Left(first(n), "renamed") : n \in 1..Len(snaps)}

(* A thin volume is removed and snapshotted anew: an error in between loses *)
(* it.  Otherwise rsync, which an error leaves half done.                   *)
ContainerRestore(p, c, s, thin) ==
  IF Snp(c, s) \notin DOMAIN p THEN {Failed(p)}
  ELSE {Failed(p), Done(Put(p, Ctn(c), p[Snp(c, s)])),
        Left(IF thin THEN Drop(p, {Ctn(c)}) ELSE Put(p, Ctn(c), "torn"), "torn")}

(* Cut before lvcreate, or after it when the volume is not activated. *)
ContainerSnapshotCreate(p, c, s) ==
  LET q == Put(p, Snp(c, s), p[Ctn(c)]) IN {Failed(p), Cut(q), Done(q)}

ContainerSnapshotDelete(p, c, s) == removeLV(p, Snp(c, s))

ContainerSnapshotRename(p, c, s, n) == {Failed(p), Done(Move(p, Snp(c, s), Snp(c, n)))}

(* The volume is made writable and mounted, or unmounted and read-only again. *)
ContainerSnapshotStart(p, c, s) == {Failed(p), Done(p)}
ContainerSnapshotStop(p, c, s)  == {Failed(p), Done(p)}

VolumeSnaps(p, c) == {s \in SnapName : Snp(c, s) \in DOMAIN p}
SnapData(p, c, s) == p[Snp(c, s)]
=============================================================================
