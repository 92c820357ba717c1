----------------------------- MODULE StorageZfs -----------------------------
(***************************************************************************)
(* The ZFS driver (apollo/storage_zfs.go).  A pool is a function from the  *)
(* datasets that exist to what each holds: its data, the snapshot it was   *)
(* cloned from and its own snapshots, oldest first.  ZFS refuses to        *)
(* destroy a snapshot that has clones, so the driver parks what it cannot  *)
(* destroy yet under deleted/ and removes it when the last clone goes.     *)
(*                                                                         *)
(* An operation is an operator from a pool to the set of its outcomes: one *)
(* where every command works, one where the first command fails, and the   *)
(* ones where a later command fails.                                       *)
(***************************************************************************)
EXTENDS Naturals, Sequences, FiniteSets, Functions, StorageOutcome

CONSTANTS Container, SnapName, Image

Ctn(c)      == <<"containers", c>>
Img(i)      == <<"images", i>>
Parked(u)   == <<"deleted/containers", u>>
ParkedImg(i) == <<"deleted/images", i>>
Started(c, s) == <<"snapshots", c, s>>

SnapOf(s)   == <<"snapshot", s>>
CopyOf(u)   == <<"copy", u>>
SendOf(u)   == <<"copy-send", u>>
ReadOnly    == <<"readonly", 0>>

NoOrigin == <<>>

Labels(p, d) == {p[d].snaps[k].label : k \in DOMAIN p[d].snaps}
SnapData(p, d, l) ==
  p[d].snaps[CHOOSE k \in DOMAIN p[d].snaps : p[d].snaps[k].label = l].data

(* The datasets cloned from snapshot l of dataset d. *)
Clones(p, d, l) == {e \in DOMAIN p : p[e].origin = <<d, l>>}

zfsPoolVolumeSnapshotRemovable(p, d, l) == Clones(p, d, l) = {}

(* uuid.NewRandom: a number no dataset and no snapshot of the pool carries. *)
Uuids(p) == {d[2] : d \in {e \in DOMAIN p : e[1] = "deleted/containers"}}
              \cup UNION {{l[2] : l \in {m \in Labels(p, d) : m[1] \in {"copy", "copy-send"}}}
                            : d \in DOMAIN p}
NewUuid(p) == CHOOSE u \in 1..(Cardinality(Uuids(p)) + 1) : u \notin Uuids(p)

zfsPoolVolumeCreate(p, d, v) ==
  [e \in DOMAIN p \cup {d} |->
     IF e = d THEN [data |-> v, origin |-> NoOrigin, snaps |-> <<>>] ELSE p[e]]

zfsPoolVolumeClone(p, src, l, dest) ==
  [e \in DOMAIN p \cup {dest} |->
     IF e = dest THEN [data |-> SnapData(p, src, l), origin |-> <<src, l>>, snaps |-> <<>>]
                 ELSE p[e]]

zfsPoolVolumeDestroy(p, d) == Restrict(p, DOMAIN p \ {d})

zfsPoolVolumeSnapshotCreate(p, d, l) ==
  [p EXCEPT ![d].snaps = Append(@, [label |-> l, data |-> p[d].data])]

zfsPoolVolumeSnapshotDestroy(p, d, l) ==
  [p EXCEPT ![d].snaps = SelectSeq(@, LAMBDA x : x.label # l)]

(* zfs rename: the clones of a renamed dataset keep their origin. *)
zfsPoolVolumeRename(p, old, new) ==
  [e \in (DOMAIN p \ {old}) \cup {new} |->
     LET r == p[IF e = new THEN old ELSE e] IN
     IF r.origin # NoOrigin /\ r.origin[1] = old
       THEN [r EXCEPT !.origin = <<new, r.origin[2]>>] ELSE r]

zfsPoolVolumeSnapshotRename(p, d, l, m) ==
  [e \in DOMAIN p |->
     LET r == [p[e] EXCEPT !.origin = IF @ = <<d, l>> THEN <<d, m>> ELSE @] IN
     IF e # d THEN r
     ELSE [r EXCEPT !.snaps = [k \in DOMAIN r.snaps |->
             IF r.snaps[k].label = l THEN [r.snaps[k] EXCEPT !.label = m] ELSE r.snaps[k]]]]

-----------------------------------------------------------------------------
(* Faulty form: a parked dataset stays when its last snapshot goes. *)
CleanupCallKeepsParent(st) ==
  LET d == st.path[1]
      l == st.path[2]
  IN IF Len(st.path) = 2 /\ zfsPoolVolumeSnapshotRemovable(st.p, d, l)
       THEN [ok |-> TRUE, p |-> zfsPoolVolumeSnapshotDestroy(st.p, d, l), path |-> <<>>]
       ELSE [st EXCEPT !.path = <<>>]

(* One call of zfsPoolVolumeCleanup.  path is a snapshot <<dataset, label>>, *)
(* a dataset <<dataset>>, or <<>> when there is nothing left to do.  A       *)
(* snapshot of a live container is destroyed without asking for clones, so   *)
(* that destroy fails when another clone is left.                            *)
CleanupCall(st) ==
  LET p == st.p
      d == st.path[1]
      l == st.path[2]
  IN IF st.path = <<>> THEN st
     ELSE IF d[1] \in {"deleted/containers", "deleted/images"}
       THEN IF Len(st.path) = 1
              THEN [ok |-> TRUE, p |-> zfsPoolVolumeDestroy(p, d), path |-> p[d].origin]
            ELSE IF ~zfsPoolVolumeSnapshotRemovable(p, d, l)
              THEN [st EXCEPT !.path = <<>>]
            ELSE LET q == zfsPoolVolumeSnapshotDestroy(p, d, l) IN
                 [ok |-> TRUE, p |-> q, path |-> IF q[d].snaps = <<>> THEN <<d>> ELSE <<>>]
     ELSE IF d[1] = "containers" /\ l[1] \in {"copy", "copy-send"}
       THEN IF zfsPoolVolumeSnapshotRemovable(p, d, l)
              THEN [ok |-> TRUE, p |-> zfsPoolVolumeSnapshotDestroy(p, d, l), path |-> <<>>]
              ELSE [ok |-> FALSE, p |-> p, path |-> <<>>]
     ELSE [st EXCEPT !.path = <<>>]

zfsPoolVolumeCleanup(p, path) ==
  LET call[k \in 0..(2 * Cardinality(DOMAIN p))] ==
        IF k = 0 THEN [ok |-> TRUE, p |-> p, path |-> path] ELSE CleanupCall(call[k - 1])
      last == call[2 * Cardinality(DOMAIN p)]
  IN [ok |-> last.ok, p |-> last.p]

(* The datasets under snapshots/<c> are destroyed whatever became of the rest. *)
WithoutStarted(p, c) ==
  Restrict(p, {d \in DOMAIN p : ~(d[1] = "snapshots" /\ d[2] = c)})

(* An error behind the destroying or the renaming keeps the row; tried      *)
(* again, the deletion finds no dataset and cleans up nothing.              *)
ContainerDelete(p, c) ==
  LET d == Ctn(c) IN
  IF d \notin DOMAIN p THEN {Failed(p), Done(WithoutStarted(p, c))}
  ELSE {Failed(p)} \cup
    IF \A l \in Labels(p, d) : zfsPoolVolumeSnapshotRemovable(p, d, l)
      THEN LET q == zfsPoolVolumeDestroy(p, d)
               r == zfsPoolVolumeCleanup(q, p[d].origin) IN
           {Left(q, "rowleft"), Left(r.p, "rowleft")}
             \cup (IF r.ok THEN {Done(WithoutStarted(r.p, c))} ELSE {})
      ELSE LET q == zfsPoolVolumeRename(p, d, Parked(NewUuid(p))) IN
           {Left(q, "rowleft"), Done(WithoutStarted(q, c))}

(* The outcomes of an operation whose late failure is answered by the      *)
(* driver's own ContainerDelete, which may fail too.                       *)
OrDeleted(p, q, c) ==
  {Failed(p), Done(q), Unseen(q), Cut(q)} \cup {Failed(r.p) : r \in {d \in ContainerDelete(q, c) : d.ok}}

ContainerCreate(p, c) == OrDeleted(p, zfsPoolVolumeCreate(p, Ctn(c), "empty"), c)

(* ImageDelete asks for the clones of images/<i>@readonly and stops when    *)
(* there is no such snapshot.                                              *)
ImageDelete(p, i) ==
  LET d == Img(i) IN
  IF d \notin DOMAIN p THEN {Done(p)}
  ELSE IF ReadOnly \notin Labels(p, d) THEN {Failed(p)}
  ELSE {Failed(p),
        Done(IF zfsPoolVolumeSnapshotRemovable(p, d, ReadOnly)
               THEN zfsPoolVolumeDestroy(p, d)
               ELSE zfsPoolVolumeRename(p, d, ParkedImg(i)))}

(* Faulty form: a parked image is unpacked anew. *)
ImageCreateAnew(p, i) ==
  LET q == zfsPoolVolumeCreate(p, Img(i), i) IN
  {Failed(p), Done(zfsPoolVolumeSnapshotCreate(q, Img(i), ReadOnly))}

(* A parked image is renamed back; otherwise a dataset is created, the     *)
(* image unpacked into it and its "readonly" snapshot taken; an error in   *)
(* between calls ImageDelete, which stops for want of that snapshot.       *)
ImageCreate(p, i) ==
  IF ParkedImg(i) \in DOMAIN p
    THEN {Failed(p), Done(zfsPoolVolumeRename(p, ParkedImg(i), Img(i)))}
    ELSE LET q == zfsPoolVolumeCreate(p, Img(i), i) IN
         {Failed(p), Half(q), Done(zfsPoolVolumeSnapshotCreate(q, Img(i), ReadOnly))}

ContainerCreateFromImage(p, c, i) ==
  UNION {IF ~r.ok THEN {r}
         ELSE IF ReadOnly \notin Labels(r.p, Img(i)) THEN {Failed(r.p)}
         ELSE OrDeleted(r.p, zfsPoolVolumeClone(r.p, Img(i), ReadOnly, Ctn(c)), c)
         : r \in IF Img(i) \in DOMAIN p THEN {Done(p)} ELSE ImageCreate(p, i)}

-----------------------------------------------------------------------------
(* A copy made by cloning: a container is snapshotted first, a snapshot is *)
(* cloned as it is.  Both steps are undone on an error, except a clone of  *)
(* which the making itself failed.                                         *)
copyWithoutSnapshotsSparse(p, t, src) ==
  LET d == Ctn(src[1])
      l == IF Len(src) = 1 THEN CopyOf(NewUuid(p)) ELSE SnapOf(src[2])
      q == IF Len(src) = 1 THEN zfsPoolVolumeSnapshotCreate(p, d, l) ELSE p
      z == zfsPoolVolumeClone(q, d, l, Ctn(t))
  IN {Failed(p), Unseen(z), Done(z)}

(* A copy made with send and receive, when zfs.clone_copy is off.  The     *)
(* temporary snapshot is gone at the end on both sides; what was received   *)
(* stays when a command after it fails.                                    *)
copyWithoutSnapshotFull(p, t, src) ==
  LET v == IF Len(src) = 1 THEN p[Ctn(src[1])].data
                           ELSE SnapData(p, Ctn(src[1]), SnapOf(src[2]))
      q == zfsPoolVolumeCreate(p, Ctn(t), v)
  IN {Failed(p), Unseen(q), Done(q)}

(* A copy with the source's snapshots, sent one after the other; the       *)
(* temporary "copy-send" snapshot of the source stays when sending it fails. *)
copyWithSnapshots(p, t, src, snaps) ==
  LET d == Ctn(src[1])
      sent(n) == [zfsPoolVolumeCreate(p, Ctn(t),
                    IF n < Len(snaps) THEN SnapData(p, d, SnapOf(snaps[n])) ELSE p[d].data) EXCEPT
                    ![Ctn(t)].snaps = [k \in 1..n |->
                       [label |-> SnapOf(snaps[k]), data |-> SnapData(p, d, SnapOf(snaps[k]))]]]
      q == sent(Len(snaps))
  IN {Failed(p), Done(q), Cut(zfsPoolVolumeSnapshotCreate(q, d, SendOf(NewUuid(p))))}
       \cup {Cut(sent(n)) : n \in 1..Len(snaps)}

ContainerCopy(p, t, src, snaps) ==
  IF snaps = <<>>
    THEN copyWithoutSnapshotsSparse(p, t, src) \cup copyWithoutSnapshotFull(p, t, src)
    ELSE copyWithSnapshots(p, t, src, snaps)

(* The deferred undo renames the old name to itself, which does nothing. *)
ContainerRename(p, old, new, snaps) ==
  LET q == zfsPoolVolumeRename(p, Ctn(old), Ctn(new)) IN
  {Failed(p), Done(q), Left(q, "renamed")}

-----------------------------------------------------------------------------
ContainerSnapshotDelete(p, c, s) ==
  LET d == Ctn(c) IN
  IF d \notin DOMAIN p \/ SnapOf(s) \notin Labels(p, d) THEN {Failed(p), Done(p)}
  ELSE LET q == IF zfsPoolVolumeSnapshotRemovable(p, d, SnapOf(s))
                  THEN zfsPoolVolumeSnapshotDestroy(p, d, SnapOf(s))
                  ELSE zfsPoolVolumeSnapshotRename(p, d, SnapOf(s), CopyOf(NewUuid(p)))
       IN {Failed(p), Done(q), Left(q, "rowleft")}

(* The undo is ContainerSnapshotDelete, which may fail. *)
ContainerSnapshotCreate(p, c, s) ==
  LET q == zfsPoolVolumeSnapshotCreate(p, Ctn(c), SnapOf(s)) IN
  {Failed(p), Cut(q), Done(q)} \cup {Failed(r.p) : r \in {d \in ContainerSnapshotDelete(q, c, s) : d.ok}}

(* The deferred undo finds both names equal and renames nothing. *)
ContainerSnapshotRename(p, c, s, n) ==
  LET q == zfsPoolVolumeSnapshotRename(p, Ctn(c), SnapOf(s), SnapOf(n)) IN
  {Failed(p), Done(q), Left(q, "renamed")}

(* Only the latest snapshot, unless zfs.remove_snapshots is set. *)
ContainerCanRestore(newer, removeSnapshots) == newer = <<>> \/ removeSnapshots

(* zfs rollback, which takes back only to the newest snapshot of a dataset: *)
(* a snapshot that a copy left behind makes it fail.                        *)
ContainerRestore(p, c, s) ==
  LET d == Ctn(c) IN
  {Failed(p),
   IF p[d].snaps # <<>> /\ p[d].snaps[Len(p[d].snaps)].label = SnapOf(s)
     THEN Done([p EXCEPT ![d].data = SnapData(p, d, SnapOf(s))])
     ELSE Failed(p)}

ContainerSnapshotStart(p, c, s) ==
  IF Started(c, s) \in DOMAIN p THEN {Failed(p)}
  ELSE {Failed(p), Done(zfsPoolVolumeClone(p, Ctn(c), SnapOf(s), Started(c, s)))}

ContainerSnapshotStop(p, c, s) ==
  IF Started(c, s) \notin DOMAIN p THEN {Failed(p)}
  ELSE {Left(p, "unstopped"), Done(zfsPoolVolumeDestroy(p, Started(c, s)))}

-----------------------------------------------------------------------------
(* What the daemon sees of the pool. *)
Volumes(p) == {c \in Container : Ctn(c) \in DOMAIN p}
VolumeSnaps(p, c) == {s \in SnapName : c \in Volumes(p) /\ SnapOf(s) \in Labels(p, Ctn(c))}
View(p) ==
  [c \in Volumes(p) |->
     [data |-> p[Ctn(c)].data,
      snaps |-> [s \in VolumeSnaps(p, c) |-> SnapData(p, Ctn(c), SnapOf(s))]]]

(* Datasets and snapshots. *)
Size(p) == Cardinality(DOMAIN p) + Cardinality(UNION {{d} \X Labels(p, d) : d \in DOMAIN p})

Write(p, c, v) == [p EXCEPT ![Ctn(c)].data = v]
EmptyPool == [d \in {} |-> [data |-> "empty", origin |-> NoOrigin, snaps |-> <<>>]]
=============================================================================
