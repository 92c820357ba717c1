------------------------------ MODULE Storage -------------------------------
(***************************************************************************)
(* Containers, their snapshots and their images on one storage pool: the   *)
(* daemon's operations (apollo/container.go, container_mercury.go), each   *)
(* of which changes the database's rows and calls the pool's driver, and   *)
(* undoes what it did when the driver fails.  The driver is the pool's     *)
(* own; every state of a behaviour has the same one.                       *)
(*                                                                         *)
(* The database does not fail; any command of the driver may, the first one*)
(* or a later one.  Some failures neither the driver nor its caller puts   *)
(* right: the step says so in marks, about the container or the image it   *)
(* leaves wrong.  Operations are whole: one at a time on the pool, except  *)
(* that a snapshot may stay started across others (publishing, copying out *)
(* of it).                                                                 *)
(***************************************************************************)
EXTENDS Naturals, Sequences, FiniteSets, Functions, SequencesExt, StorageOutcome

CONSTANTS Container, SnapName, Image, Data,
          Drivers,     \* the drivers to explore
          Overlap,     \* TRUE: other operations run while a snapshot is started
          MaxSize,     \* bound on the volumes, datasets and snapshots of the pool
          MaxUuid      \* bound on the datasets and snapshots ZFS has parked

ASSUME StorageAssumption ==
  /\ Drivers \subseteq {"dir", "btrfs", "lvm", "lvmthin", "zfs"}
  /\ Overlap \in BOOLEAN
  /\ MaxSize \in Nat /\ MaxUuid \in Nat

VARIABLES
  driver,     \* the pool's driver
  pool,       \* what is on the pool, as the driver sees it
  rows,       \* containers in the database
  snapRows,   \* container -> its snapshots in the database, oldest first
  started,    \* snapshots some operation has started
  marks       \* container or image -> what went wrong with it for good

vars == <<driver, pool, rows, snapRows, started, marks>>

Marks ==
  {"unseen",      \* a volume without a row: the path was not there yet when a creation failed
   "rowleft",     \* a row without its volume: a deletion was cut behind the volume, or has none to delete
   "orphan",      \* snapshot rows of a container that is gone
   "renamed",     \* volumes under the new name, rows under the old one
   "torn",        \* data that is neither the old nor the new
   "kept",        \* what a failed creation left, because deleting it failed too
   "unstopped",   \* a started snapshot that nobody will stop any more
   "half"}        \* an image's volume without the image

Zfs   == INSTANCE StorageZfs
Dir   == INSTANCE StorageDir
Btrfs == INSTANCE StorageBtrfs
Lvm   == INSTANCE StorageLvm

Thin == driver = "lvmthin"
IsLvm == driver \in {"lvm", "lvmthin"}

-----------------------------------------------------------------------------
(* storageForName: the pool's driver answers the calls. *)
ContainerCreate(p, c) ==
  CASE driver = "zfs" -> Zfs!ContainerCreate(p, c)
    [] driver = "dir" -> Dir!ContainerCreate(p, c)
    [] driver = "btrfs" -> Btrfs!ContainerCreate(p, c)
    [] IsLvm -> Lvm!ContainerCreate(p, c)
ContainerCreateFromImage(p, c, i) ==
  CASE driver = "zfs" -> Zfs!ContainerCreateFromImage(p, c, i)
    [] driver = "dir" -> Dir!ContainerCreateFromImage(p, c, i)
    [] driver = "btrfs" -> Btrfs!ContainerCreateFromImage(p, c, i)
    [] IsLvm -> Lvm!ContainerCreateFromImage(p, c, i, Thin)
ContainerDelete(p, c) ==
  CASE driver = "zfs" -> Zfs!ContainerDelete(p, c)
    [] driver = "dir" -> Dir!ContainerDelete(p, c)
    [] driver = "btrfs" -> Btrfs!ContainerDelete(p, c)
    [] IsLvm -> Lvm!ContainerDelete(p, c)
ContainerCopy(p, t, src, snaps) ==
  CASE driver = "zfs" -> Zfs!ContainerCopy(p, t, src, snaps)
    [] driver = "dir" -> Dir!ContainerCopy(p, t, src, snaps)
    [] driver = "btrfs" -> Btrfs!ContainerCopy(p, t, src, snaps)
    [] IsLvm -> Lvm!ContainerCopy(p, t, src, snaps)
ContainerRename(p, c, n, snaps) ==
  CASE driver = "zfs" -> Zfs!ContainerRename(p, c, n, snaps)
    [] driver = "dir" -> Dir!ContainerRename(p, c, n, snaps)
    [] driver = "btrfs" -> Btrfs!ContainerRename(p, c, n, snaps)
    [] IsLvm -> Lvm!ContainerRename(p, c, n, snaps)
ContainerRestore(p, c, s) ==
  CASE driver = "zfs" -> Zfs!ContainerRestore(p, c, s)
    [] driver = "dir" -> Dir!ContainerRestore(p, c, s)
    [] driver = "btrfs" -> Btrfs!ContainerRestore(p, c, s)
    [] IsLvm -> Lvm!ContainerRestore(p, c, s, Thin)
ContainerSnapshotCreate(p, c, s) ==
  CASE driver = "zfs" -> Zfs!ContainerSnapshotCreate(p, c, s)
    [] driver = "dir" -> Dir!ContainerSnapshotCreate(p, c, s)
    [] driver = "btrfs" -> Btrfs!ContainerSnapshotCreate(p, c, s)
    [] IsLvm -> Lvm!ContainerSnapshotCreate(p, c, s)
ContainerSnapshotDelete(p, c, s) ==
  CASE driver = "zfs" -> Zfs!ContainerSnapshotDelete(p, c, s)
    [] driver = "dir" -> Dir!ContainerSnapshotDelete(p, c, s)
    [] driver = "btrfs" -> Btrfs!ContainerSnapshotDelete(p, c, s)
    [] IsLvm -> Lvm!ContainerSnapshotDelete(p, c, s)
ContainerSnapshotRename(p, c, s, n) ==
  CASE driver = "zfs" -> Zfs!ContainerSnapshotRename(p, c, s, n)
    [] driver = "dir" -> Dir!ContainerSnapshotRename(p, c, s, n)
    [] driver = "btrfs" -> Btrfs!ContainerSnapshotRename(p, c, s, n)
    [] IsLvm -> Lvm!ContainerSnapshotRename(p, c, s, n)
ContainerSnapshotStart(p, c, s) ==
  CASE driver = "zfs" -> Zfs!ContainerSnapshotStart(p, c, s)
    [] driver = "dir" -> Dir!ContainerSnapshotStart(p, c, s)
    [] driver = "btrfs" -> Btrfs!ContainerSnapshotStart(p, c, s)
    [] IsLvm -> Lvm!ContainerSnapshotStart(p, c, s)
ContainerSnapshotStop(p, c, s) ==
  CASE driver = "zfs" -> Zfs!ContainerSnapshotStop(p, c, s)
    [] driver = "dir" -> Dir!ContainerSnapshotStop(p, c, s)
    [] driver = "btrfs" -> Btrfs!ContainerSnapshotStop(p, c, s)
    [] IsLvm -> Lvm!ContainerSnapshotStop(p, c, s)
ImageDelete(p, i) ==
  CASE driver = "zfs" -> Zfs!ImageDelete(p, i)
    [] driver = "dir" -> Dir!ImageDelete(p, i)
    [] driver = "btrfs" -> Btrfs!ImageDelete(p, i)
    [] IsLvm -> Lvm!ImageDelete(p, i)

Volumes(p) == IF driver = "zfs" THEN Zfs!Volumes(p) ELSE Dir!Volumes(p)
VolumeSnaps(p, c) ==
  CASE driver = "zfs" -> Zfs!VolumeSnaps(p, c)
    [] driver = "btrfs" -> Btrfs!VolumeSnaps(p, c)
    [] OTHER -> Dir!VolumeSnaps(p, c)
View(p) ==
  IF driver = "zfs" THEN Zfs!View(p)
  ELSE [c \in Volumes(p) |->
          [data |-> p[Dir!Ctn(c)],
           snaps |-> [s \in VolumeSnaps(p, c) |->
                        IF driver = "btrfs" THEN Btrfs!SnapData(p, c, s) ELSE Dir!SnapData(p, c, s)]]]

Within(p) ==
  IF driver = "zfs" THEN Zfs!Size(p) <= MaxSize /\ Zfs!Uuids(p) \subseteq 1..MaxUuid
                    ELSE Cardinality(DOMAIN p) <= MaxSize

-----------------------------------------------------------------------------
TypeOK ==
  /\ driver \in Drivers
  /\ rows \subseteq Container
  /\ snapRows \in [Container -> Seq(SnapName)]
  /\ \A c \in Container : IsInjective(snapRows[c])
  /\ started \subseteq Container \X SnapName
  /\ driver # "zfs" => DOMAIN pool \subseteq
       {<<k, c>> : k \in {"containers", "containers.back"}, c \in Container}
         \cup {<<k, c, s>> : k \in {"snapshots", "snapshots.ro"}, c \in Container, s \in SnapName}
         \cup {<<"images", i>> : i \in Image}
  /\ marks \in [Container \cup Image -> SUBSET Marks]

Init ==
  /\ driver \in Drivers
  /\ pool = [d \in {} |-> "empty"]
  /\ rows = {}
  /\ snapRows = [c \in Container |-> <<>>]
  /\ started = {}
  /\ marks = [x \in Container \cup Image |-> {}]

(* c is in the database, its volume on the pool, and, without Overlap,     *)
(* nobody has started a snapshot of it.                                    *)
Free(c) == Overlap \/ \A s \in SnapName : <<c, s>> \notin started
There(c) == c \in rows /\ c \in Volumes(pool) /\ Free(c)

MarksOf(r) == {r.mark} \ {"none"}
Mark(X, M) == marks' = [x \in DOMAIN marks |-> IF x \in X THEN marks[x] \cup M ELSE marks[x]]

(* containerDeleteSnapshots: an error is logged and the row stays. *)
containerDeleteSnapshots(p, c, snaps) ==
  FoldLeft(LAMBDA S, s :
             UNION {{[p |-> r.p, left |-> IF r.ok THEN x.left ELSE Append(x.left, s),
                      marks |-> x.marks \cup MarksOf(r)]
                       : r \in ContainerSnapshotDelete(x.p, c, s)} : x \in S},
           {[p |-> p, left |-> <<>>, marks |-> {}]}, snaps)

(* containerMERCURY.Delete of a container: its snapshots, then its volume   *)
(* when there is a path to it, then its row, whatever snapshot rows stayed; *)
(* an error of the driver keeps the row.                                   *)
Delete(p, c, snaps, path) ==
  UNION {{[ok |-> r.ok, p |-> r.p, left |-> x.left,
           marks |-> x.marks \cup MarksOf(r)
                       \cup (IF r.ok /\ x.left # <<>> THEN {"orphan"} ELSE {})]
            : r \in IF path THEN ContainerDelete(x.p, c) ELSE {Done(x.p)}}
         : x \in containerDeleteSnapshots(p, c, snaps)}

(* Faulty form: an error of the driver only removes the row. *)
CreatedKeepsVolume(c, snaps, r) ==
  /\ pool' = r.p
  /\ rows' = IF r.ok THEN rows \cup {c} ELSE rows
  /\ snapRows' = [snapRows EXCEPT ![c] = IF r.ok THEN snaps ELSE <<>>]
  /\ Mark({c}, MarksOf(r))

(* A creation of container c with snapshot rows snaps ends with outcome r:  *)
(* an error deletes what was created, as far as that works.                 *)
Created(c, snaps, r) ==
  IF r.ok
    THEN /\ pool' = r.p
         /\ rows' = rows \cup {c}
         /\ snapRows' = [snapRows EXCEPT ![c] = snaps]
         /\ UNCHANGED marks
    ELSE \E d \in Delete(r.p, c, snaps, r.path) :
           /\ pool' = d.p
           /\ rows' = IF d.ok THEN rows ELSE rows \cup {c}
           /\ snapRows' = [snapRows EXCEPT ![c] = d.left]
           /\ Mark({c}, d.marks \cup MarksOf(r) \cup (IF d.ok THEN {} ELSE {"kept"}))

(* containerConfigureInternal, after the driver, may fail too. *)
Configured(R) == R \cup {Cut(r.p) : r \in {x \in R : x.ok}}

containerCreateAsEmpty(c) ==
  /\ c \notin rows
  /\ \E r \in ContainerCreate(pool, c) : Created(c, <<>>, r)
  /\ UNCHANGED <<driver, started>>

containerCreateFromImage(c, i) ==
  /\ c \notin rows
  /\ \E r \in Configured(ContainerCreateFromImage(pool, c, i)) :
       IF r.mark = "half" THEN pool' = r.p /\ Mark({i}, {"half"}) /\ UNCHANGED <<rows, snapRows>>
                          ELSE Created(c, <<>>, r)
  /\ UNCHANGED <<driver, started>>

(* A container is copied with its snapshots unless only the container is    *)
(* asked for; a copy of a snapshot never has any.                           *)
containerCreateAsCopy(t, src, containerOnly) ==
  /\ t \notin rows
  /\ There(src[1])
  /\ Len(src) = 2 => src[2] \in ToSet(snapRows[src[1]])
  /\ LET snaps == IF Len(src) = 2 \/ containerOnly THEN <<>> ELSE snapRows[src[1]] IN
     \E r \in Configured(ContainerCopy(pool, t, src, snaps)) : Created(t, snaps, r)
  /\ UNCHANGED <<driver, started>>

(* containerMERCURY.Delete through the API. *)
DeleteContainer(c) ==
  /\ c \in rows
  /\ Free(c)
  /\ \E d \in Delete(pool, c, snapRows[c], TRUE) :
       /\ pool' = d.p
       /\ rows' = IF d.ok THEN rows \ {c} ELSE rows
       /\ snapRows' = [snapRows EXCEPT ![c] = d.left]
       /\ Mark({c}, d.marks)
  /\ UNCHANGED <<driver, started>>

(* containerMERCURY.Rename: the volume, then the rows. *)
Rename(c, n) ==
  /\ There(c)
  /\ n \notin rows
  /\ \E r \in ContainerRename(pool, c, n, snapRows[c]) :
       /\ pool' = r.p
       /\ IF r.ok THEN /\ rows' = (rows \ {c}) \cup {n}
                       /\ snapRows' = [snapRows EXCEPT ![n] = snapRows[c], ![c] = <<>>]
                  ELSE UNCHANGED <<rows, snapRows>>
       /\ Mark({c, n}, MarksOf(r))
  /\ UNCHANGED <<driver, started>>

-----------------------------------------------------------------------------
(* containerCreateAsSnapshot: an error of the driver, or of the backup file *)
(* written after it, deletes the snapshot again, which keeps the row when   *)
(* that fails too.                                                         *)
containerCreateAsSnapshot(c, s) ==
  /\ There(c)
  /\ s \notin ToSet(snapRows[c])
  /\ \E r \in Configured(ContainerSnapshotCreate(pool, c, s)) :
       IF r.ok
         THEN /\ pool' = r.p
              /\ snapRows' = [snapRows EXCEPT ![c] = Append(@, s)]
              /\ UNCHANGED marks
         ELSE \E d \in ContainerSnapshotDelete(r.p, c, s) :
              /\ pool' = d.p
              /\ snapRows' = [snapRows EXCEPT ![c] = IF d.ok THEN @ ELSE Append(@, s)]
              /\ Mark({c}, MarksOf(r) \cup MarksOf(d)
                             \cup (IF d.ok \/ s \in VolumeSnaps(d.p, c) THEN {} ELSE {"rowleft"}))
  /\ UNCHANGED <<driver, rows, started>>

DeleteSnapshot(c, s) ==
  /\ There(c)
  /\ s \in ToSet(snapRows[c])
  /\ \E r \in ContainerSnapshotDelete(pool, c, s) :
       /\ pool' = r.p
       /\ snapRows' = [snapRows EXCEPT ![c] = IF r.ok THEN SelectSeq(@, LAMBDA x : x # s) ELSE @]
       /\ Mark({c}, MarksOf(r))
  /\ UNCHANGED <<driver, rows, started>>

RenameSnapshot(c, s, n) ==
  /\ There(c)
  /\ s \in ToSet(snapRows[c]) /\ n \notin ToSet(snapRows[c])
  /\ \E r \in ContainerSnapshotRename(pool, c, s, n) :
       /\ pool' = r.p
       /\ snapRows' = [snapRows EXCEPT ![c] =
            IF r.ok THEN [k \in DOMAIN @ |-> IF @[k] = s THEN n ELSE @[k]] ELSE @]
       /\ Mark({c}, MarksOf(r))
  /\ UNCHANGED <<driver, rows, started>>

(* The snapshots of c newer than s, newest first. *)
Newer(c, s) ==
  LET at == CHOOSE k \in DOMAIN snapRows[c] : snapRows[c][k] = s
  IN Reverse(SubSeq(snapRows[c], at + 1, Len(snapRows[c])))

(* The pool after the snapshots of c in snaps were deleted. *)
WithoutSnaps(p, c, snaps) ==
  FoldLeft(LAMBDA q, s : (CHOOSE r \in ContainerSnapshotDelete(q, c, s) : r.ok).p, p, snaps)

(* containerMERCURY.Restore.  Only ZFS looks at newer snapshots: it refuses, *)
(* or, with zfs.remove_snapshots, deletes them for good before it tries the  *)
(* rollback.  The deletion may stop half way.                                *)
Restore(c, s, removeSnapshots) ==
  /\ There(c)
  /\ s \in ToSet(snapRows[c])
  /\ driver = "zfs" => Zfs!ContainerCanRestore(Newer(c, s), removeSnapshots)
  /\ LET newer == IF driver = "zfs" THEN Newer(c, s) ELSE <<>> IN
     \E n \in 0..Len(newer) :
       LET gone == SubSeq(newer, 1, n)
           p    == WithoutSnaps(pool, c, gone)
       IN /\ IF n < Len(newer) THEN pool' = p /\ UNCHANGED marks
             ELSE \E r \in ContainerRestore(p, c, s) : pool' = r.p /\ Mark({c}, MarksOf(r))
          /\ snapRows' = [snapRows EXCEPT ![c] = SelectSeq(@, LAMBDA y : y \notin ToSet(gone))]
  /\ UNCHANGED <<driver, rows, started>>

(* An operation that reads a snapshot (publish, copy, migration) starts it  *)
(* and stops it when it is done.  The callers ignore an error of the stop.  *)
StartSnapshot(c, s) ==
  /\ There(c)
  /\ s \in ToSet(snapRows[c])
  /\ <<c, s>> \notin started
  /\ \E r \in ContainerSnapshotStart(pool, c, s) :
       /\ pool' = r.p
       /\ started' = IF r.ok THEN started \cup {<<c, s>>} ELSE started
       /\ Mark({c}, MarksOf(r))
  /\ UNCHANGED <<driver, rows, snapRows>>

StopSnapshot(c, s) ==
  /\ <<c, s>> \in started
  /\ \E r \in ContainerSnapshotStop(pool, c, s) : pool' = r.p /\ Mark({c}, MarksOf(r))
  /\ started' = started \ {<<c, s>>}
  /\ UNCHANGED <<driver, rows, snapRows>>

(* The image is deleted from the daemon: every pool drops its volume. *)
DeleteImage(i) ==
  /\ \E r \in ImageDelete(pool, i) : pool' = r.p
  /\ UNCHANGED <<driver, rows, snapRows, started, marks>>

(* The container's processes change its root file system. *)
Write(c, v) ==
  /\ There(c)
  /\ pool' = IF driver = "zfs" THEN Zfs!Write(pool, c, v) ELSE Dir!Write(pool, c, v)
  /\ UNCHANGED <<driver, rows, snapRows, started, marks>>

Step ==
  \/ \E c \in Container :
       \/ containerCreateAsEmpty(c)
       \/ DeleteContainer(c)
       \/ \E i \in Image : containerCreateFromImage(c, i)
       \/ \E src \in Container : containerCreateAsCopy(c, <<src>>, TRUE)
       \/ \E src \in {x \in Container : snapRows[x] # <<>>} : containerCreateAsCopy(c, <<src>>, FALSE)
       \/ \E src \in Container, s \in SnapName : containerCreateAsCopy(c, <<src, s>>, TRUE)
       \/ \E n \in Container : Rename(c, n)
       \/ \E v \in Data : Write(c, v)
  \/ \E c \in Container, s \in SnapName :
       \/ containerCreateAsSnapshot(c, s)
       \/ DeleteSnapshot(c, s)
       \/ \E n \in SnapName : RenameSnapshot(c, s, n)
       \/ \E rm \in BOOLEAN : Restore(c, s, rm)
       \/ StartSnapshot(c, s)
       \/ StopSnapshot(c, s)
  \/ \E i \in Image : DeleteImage(i)

Next == Step /\ Within(pool')

Spec == Init /\ [][Next]_vars

-----------------------------------------------------------------------------
(* Nothing on the pool is out of the database's reach, whatever failed on   *)
(* the way: a volume or a snapshot has a row, and the other way round        *)
(* except after a failed creation that could not be deleted, unless the step *)
(* that left it otherwise has marked the container.                         *)
VolumesHaveRows ==
  \A c \in Container : marks[c] \subseteq {"kept", "unstopped"} =>
    /\ c \in Volumes(pool) => c \in rows
    /\ VolumeSnaps(pool, c) \subseteq ToSet(snapRows[c])
    /\ "kept" \notin marks[c] =>
         /\ c \in rows => c \in Volumes(pool)
         /\ ToSet(snapRows[c]) \subseteq VolumeSnaps(pool, c)

(* zfsPoolVolumeCleanup: a dataset stays parked under deleted/ only while   *)
(* something was cloned from it, or while it carries the temporary snapshot *)
(* of a copy that failed; a deletion cut before the cleanup is exempt.      *)
ParkedIsNeeded ==
  driver = "zfs" /\ (\A c \in Container : "rowleft" \notin marks[c]) =>
    \A d \in DOMAIN pool :
      d[1] \in {"deleted/containers", "deleted/images"} =>
        \/ \E e \in DOMAIN pool : pool[e].origin # Zfs!NoOrigin /\ pool[e].origin[1] = d
        \/ \E l \in Zfs!Labels(pool, d) : l[1] = "copy-send"

(* What later creations take for an image is one: its volume holds it, and  *)
(* in ZFS its dataset exists once, live or parked, and has the "readonly"   *)
(* snapshot that ContainerCreateFromImage clones.                          *)
ImageUsable ==
  \A i \in Image : "half" \notin marks[i] =>
    IF driver = "zfs"
      THEN LET there == DOMAIN pool \cap {Zfs!Img(i), Zfs!ParkedImg(i)} IN
           /\ Cardinality(there) <= 1
           /\ \A d \in there : Zfs!ReadOnly \in Zfs!Labels(pool, d)
      ELSE Dir!Img(i) \in DOMAIN pool => pool[Dir!Img(i)] = i

(* Every driver keeps the promises of VolumeStore. *)
Lost == {c \in Container : marks[c] \cap {"torn", "renamed", "kept"} # {}}
Store == INSTANCE VolumeStore WITH vols <- View(pool), lost <- Lost
ImplementsVolumeStore == Store!Spec

-----------------------------------------------------------------------------
(* For TLC: containers and snapshot names are alike. *)

Sym == Permutations(Container) \cup Permutations(SnapName)

(* A state a step has marked is checked and not continued. *)
Followed == \A x \in DOMAIN marks : marks[x] = {}
=============================================================================
