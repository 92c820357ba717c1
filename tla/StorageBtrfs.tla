---------------------------- MODULE StorageBtrfs ----------------------------
(***************************************************************************)
(* The btrfs driver (apollo/storage_btrfs.go): containers, snapshots and   *)
(* images are subvolumes.  A restore keeps the container aside as          *)
(* <name>.back; a started snapshot is moved to <name>.ro and a writable    *)
(* copy of it takes its place.                                             *)
(***************************************************************************)
EXTENDS PoolVolumes

CONSTANTS Image

Back(c)   == <<"containers.back", c>>
Ro(c, s)  == <<"snapshots.ro", c, s>>

(* A subvolume is made first and its path after it; an error behind both    *)
(* leaves it to the caller's Delete.                                        *)
Created(p, c, v) ==
  LET q == Put(p, Ctn(c), v) IN {Failed(p), Unseen(q), Cut(q), Done(q)}

ContainerCreate(p, c) == Created(p, c, "empty")

(* Unpacked into a temporary subvolume, which a read-only snapshot replaces. *)
ImageCreate(p, i) == {Failed(p), Done(Put(p, Img(i), i))}

ImageDelete(p, i) ==
  IF Img(i) \notin DOMAIN p THEN {Done(p)} ELSE {Failed(p), Done(Drop(p, {Img(i)}))}

ContainerCreateFromImage(p, c, i) ==
  UNION {IF ~r.ok THEN {r} ELSE Created(r.p, c, r.p[Img(i)])
         : r \in IF Img(i) \in DOMAIN p THEN {Done(p)} ELSE ImageCreate(p, i)}

(* btrfs refuses to delete a subvolume that is not there: what lost its own *)
(* to a deletion that failed behind it cannot be deleted any more.          *)
Removed(p, x, X) ==
  IF x \notin DOMAIN p THEN {Left(p, "rowleft")}
  ELSE {Failed(p), Done(Drop(p, X))}

ContainerDelete(p, c) ==
  Removed(p, Ctn(c), {Ctn(c)} \cup SnapDir(p, c))
    \cup {Left(Drop(p, {Ctn(c)}), "rowleft")}

ContainerCopy(p, t, src, snaps) ==
  LET q == Put(p, Ctn(t), SourceData(p, src)) IN
  {Failed(p), Unseen(q), Done(CopySnaps(q, t, src, snaps, Len(snaps)))}
    \cup {Cut(CopySnaps(q, t, src, snaps, n)) : n \in 0..Len(snaps)}

ContainerRename(p, old, new, snaps) ==
  LET q == Move(p, Ctn(old), Ctn(new)) IN
  {Failed(p), Done(MoveSnapDir(q, old, new)), Left(q, "renamed")}

(* Faulty form: the snapshot is moved into place and not copied. *)
ContainerRestoreMoves(p, c, s) ==
  IF Snp(c, s) \notin DOMAIN p THEN {Failed(p)}
  ELSE {Failed(p), Done(Move(p, Snp(c, s), Ctn(c)))}

(* The container moves to .back first, which fails when an earlier restore  *)
(* left one.  The undo cannot move it back over a subvolume that was        *)
(* already created: then the error leaves the restored data and the .back.  *)
ContainerRestore(p, c, s) ==
  IF Snp(c, s) \notin DOMAIN p \/ Back(c) \in DOMAIN p THEN {Failed(p)}
  ELSE {Failed(p), Done(Put(p, Ctn(c), p[Snp(c, s)])),
        Left(Put(Move(p, Ctn(c), Back(c)), Ctn(c), p[Snp(c, s)]), "torn")}

ContainerSnapshotCreate(p, c, s) == {Failed(p), Done(Put(p, Snp(c, s), p[Ctn(c)]))}

(* Only the subvolume of the snapshot's own name is deleted. *)
ContainerSnapshotDelete(p, c, s) == Removed(p, Snp(c, s), {Snp(c, s)})

ContainerSnapshotRename(p, c, s, n) == {Failed(p), Done(Move(p, Snp(c, s), Snp(c, n)))}

(* A copy that cannot be made leaves the snapshot under its other name. *)
ContainerSnapshotStart(p, c, s) ==
  IF Ro(c, s) \in DOMAIN p THEN {Done(p)}
  ELSE IF Snp(c, s) \notin DOMAIN p THEN {Failed(p)}
  ELSE {Failed(p), Done(Put(p, Ro(c, s), p[Snp(c, s)])),
        Left(Move(p, Snp(c, s), Ro(c, s)), "torn")}

ContainerSnapshotStop(p, c, s) ==
  IF Ro(c, s) \notin DOMAIN p THEN {Done(p)}
  ELSE {Left(p, "unstopped"), Done(Move(p, Ro(c, s), Snp(c, s))), Left(Drop(p, {Snp(c, s)}), "torn")}

VolumeSnaps(p, c) == {s \in SnapName : {Snp(c, s), Ro(c, s)} \cap DOMAIN p # {}}
SnapData(p, c, s) == IF Ro(c, s) \in DOMAIN p THEN p[Ro(c, s)] ELSE p[Snp(c, s)]
=============================================================================
