--------------------------- MODULE StorageUpgrade ---------------------------
(***************************************************************************)
(* The storage_api patch (apollo/patches.go): containers, snapshots and    *)
(* images that older versions kept under containers/, snapshots/ and       *)
(* images/ move to a storage pool.  The daemon may die between any two     *)
(* steps; the patch then runs from its start over what is left.            *)
(*                                                                         *)
(* Each object has an old place and a new one.  A place holds nothing, the *)
(* object ("full"), a part of it, or, at the old place, the symbolic link  *)
(* to the new one.                                                         *)
(***************************************************************************)
EXTENDS Naturals, Sequences, FiniteSets, Functions

CONSTANTS
  Ctns,        \* sequence of the containers, in the order of the database
  Snapped,     \* the containers with a snapshot
  Imgs,        \* sequence of the images
  Types,       \* storage backends to upgrade from
  DirBacked    \* containers of an LVM host that are plain directories

Ct(c) == <<"container", c>>
Sn(c) == <<"snapshot", c>>
Im(i) == <<"image", i>>
CtSet   == {Ct(c) : c \in Range(Ctns)}
SnSet   == {Sn(c) : c \in Snapped}
Objects == CtSet \cup SnSet \cup {Im(i) : i \in Range(Imgs)}

VARIABLES
  type,      \* what the host really uses
  have,      \* the objects there are: all, or none on a host never used
  keys,      \* storage.lvm_vg_name or storage.zfs_pool_name is still set
  poolRow,   \* the pool's name in the database, "none" before
  volRows,   \* the objects with a storage volume in the database
  old, new,  \* what is at the two places of each object
  torn,      \* objects of which a copy or a removal was once cut short
  as,        \* the backend this run of the patch takes the host for
  at,        \* the task it is at
  doing,     \* "task", "copy" or "drop": where in the task
  failed     \* containers this run has given up on (failedUpgradeEntities)

upgradeVars == <<type, have, keys, poolRow, volRows, old, new, torn, as, at, doing, failed>>

PoolName(t) == IF t \in {"lvm", "zfs"} THEN "named" ELSE "default"

(* patchStorageApi guesses the backend from the deprecated keys and the     *)
(* file system below the daemon's directory.                                *)
Guess == IF keys THEN type ELSE IF type = "btrfs" THEN "btrfs" ELSE "dir"

-----------------------------------------------------------------------------
(* What a run does to each container and then to each snapshot it has; when *)
(* it is done with the containers, to each snapshot; and then to each image. *)
upgradeFromStorageTypeDir ==
  [ctn |-> <<"row", "move", "link">>, snap |-> <<"move", "link">>,
   late |-> <<"row">>, img |-> <<"row">>]
upgradeFromStorageTypeBtrfs ==
  [ctn |-> <<"row", "move", "link">>, snap |-> <<"row", "move", "link">>,
   late |-> <<>>, img |-> <<"row", "move">>]
upgradeFromStorageTypeLvm ==
  [ctn |-> <<"row", "move", "link">>, snap |-> <<"row", "move", "clear", "link">>,
   late |-> <<>>, img |-> <<"row", "move", "check">>]
upgradeFromStorageTypeZfs ==
  [ctn |-> <<"row", "clear", "link", "move">>, snap |-> <<"row", "move", "clear">>,
   late |-> <<>>, img |-> <<"row", "clear", "move">>]

Turns == [dir |-> upgradeFromStorageTypeDir, btrfs |-> upgradeFromStorageTypeBtrfs,
          lvm |-> upgradeFromStorageTypeLvm, zfs |-> upgradeFromStorageTypeZfs]

(* A task has its place in the patch: the pass, the container or image of   *)
(* that pass, and its turn there.                                           *)
Turn(p, k, j, t, x) == [pass |-> p, nth |-> k, turn |-> j, task |-> t, of |-> x]

Once(pass, t) == Turn(pass, 0, 0, t, <<"none", "none">>)
Idle  == Once(0, "idle")
Pool  == Once(1, "pool")
Profiles == Once(5, "profiles")
Unset == Once(6, "unset")
End   == Once(8, "end")

HasSnap == {k \in DOMAIN Ctns : Ctns[k] \in Snapped}

TasksOf(ts) ==
  {Pool, Profiles, Unset, Once(7, "setup")}
    \cup {Turn(2, k, j, ts.ctn[j], Ct(Ctns[k])) : k \in DOMAIN Ctns, j \in DOMAIN ts.ctn}
    \cup {Turn(2, k, Len(ts.ctn) + j, ts.snap[j], Sn(Ctns[k])) : k \in HasSnap, j \in DOMAIN ts.snap}
    \cup {Turn(3, k, j, ts.late[j], Sn(Ctns[k])) : k \in HasSnap, j \in DOMAIN ts.late}
    \cup {Turn(4, k, j, ts.img[j], Im(Imgs[k])) : k \in DOMAIN Imgs, j \in DOMAIN ts.img}
TasksAs == [b \in DOMAIN Turns |-> TasksOf(Turns[b])]

\* Without containers, snapshots and images nothing is done.
Tasks == IF have = {} THEN {} ELSE TasksAs[as]

Precedes(t, u) ==
  \/ t.pass < u.pass
  \/ t.pass = u.pass /\ t.nth < u.nth
  \/ t.pass = u.pass /\ t.nth = u.nth /\ t.turn < u.turn

Left == {t \in Tasks \cup {End} : Precedes(at, t)}

Running == at # Idle
Finished == at = End
Task == at.task
Obj  == at.of
Doing(t) == Running /\ ~Finished /\ doing = "task" /\ Task = t

\* The next task is the first of S.
GoOn(S) ==
  /\ \E t \in S : (\A u \in S : ~Precedes(u, t)) /\ at' = t
  /\ doing' = "task"

TaskDone == GoOn(Left)
Step(d)  == at' = at /\ doing' = d

(* An error ends the run and with it the daemon; so does its death. *)
Leave == at' = Idle /\ doing' = "task"

-----------------------------------------------------------------------------
UpgradeInit ==
  /\ type \in Types
  /\ have \in {{}, Objects}
  /\ keys = (type \in {"lvm", "zfs"})
  /\ poolRow = "none" /\ volRows = {}
  /\ old = [x \in Objects |-> IF x \in have THEN "full" ELSE "none"]
  /\ new = [x \in Objects |-> "none"]
  /\ torn = {}
  /\ as = type /\ at = Idle /\ doing = "task" /\ failed = {}

BeginUpgrade ==
  /\ ~Running
  /\ as' = Guess /\ at' = (IF have = {} THEN End ELSE Pool) /\ doing' = "task" /\ failed' = {}
  /\ UNCHANGED <<type, have, keys, poolRow, volRows, old, new, torn>>

(* Faulty form: a pool that is there already is an error. *)
MakePoolFresh ==
  /\ Doing("pool")
  /\ poolRow = "none"
  /\ poolRow' = PoolName(as)
  /\ TaskDone
  /\ UNCHANGED <<type, have, keys, volRows, old, new, torn, as, failed>>

(* With pools in the database the one of this name must be among them. *)
MakePool ==
  /\ Doing("pool")
  /\ poolRow \in {"none", PoolName(as)}
  /\ poolRow' = PoolName(as)
  /\ TaskDone
  /\ UNCHANGED <<type, have, keys, volRows, old, new, torn, as, failed>>

PoolMissing ==
  /\ Doing("pool")
  /\ poolRow \notin {"none", PoolName(as)}
  /\ Leave
  /\ UNCHANGED <<type, have, keys, poolRow, volRows, old, new, torn, as, failed>>

AddRow ==
  /\ Doing("row")
  /\ volRows' = volRows \cup {Obj}
  /\ TaskDone
  /\ UNCHANGED <<type, have, keys, poolRow, old, new, torn, as, failed>>

(* Faulty form: moved again although it is at the new place. *)
NotMovedAnyway(x) == TRUE

NotMoved(x) == old[x] # "none" /\ new[x] = "none"

\* A plain directory on an LVM host.
Plain(x) == x[1] # "image" /\ x[2] \in DirBacked

(* Faulty form: anything whose old place is empty is left alone. *)
SkipObject ==
  /\ Doing("move")
  /\ as = "dir" /\ old[Obj] = "none"
  /\ GoOn({t \in Left : ~(t.of = Obj /\ t.task = "link")})
  /\ UNCHANGED <<type, have, keys, poolRow, volRows, old, new, torn, as, failed>>

(* The dir driver leaves a container whose snapshots/<container> is gone   *)
(* alone: one that died between the move and the link gets no link.         *)
SkipSnapshot ==
  /\ Doing("move")
  /\ as = "dir" /\ Obj[1] = "snapshot" /\ old[Obj] = "none"
  /\ GoOn({t \in Left : ~(t.of = Obj /\ t.task = "link")})
  /\ UNCHANGED <<type, have, keys, poolRow, volRows, old, new, torn, as, failed>>

(* Most things move in one step: a rename of a directory or of a logical    *)
(* volume.  On ZFS a dataset gets its new mount point, whatever was there.  *)
MoveObject ==
  /\ Doing("move")
  /\ ~(as = "lvm" /\ Plain(Obj) /\ NotMoved(Obj))
  /\ ~(as = "dir" /\ Obj[1] = "snapshot" /\ old[Obj] = "none")
  /\ IF as = "zfs" THEN new' = [new EXCEPT ![Obj] = "full"] /\ UNCHANGED old
     ELSE IF NotMoved(Obj)
       THEN /\ new' = [new EXCEPT ![Obj] = old[Obj]]
            /\ old' = [old EXCEPT ![Obj] = "none"]
       ELSE UNCHANGED <<old, new>>
  /\ TaskDone
  /\ UNCHANGED <<type, have, keys, poolRow, volRows, torn, as, failed>>

(* A rename that fails makes the dir and btrfs drivers copy; a plain        *)
(* directory on an LVM host is copied to a new volume; btrfs snapshots are  *)
(* snapshotted again, which is whole at once, before the old one goes.      *)
CopyObject ==
  /\ Doing("move")
  /\ NotMoved(Obj)
  /\ \/ as \in {"dir", "btrfs"} /\ Obj[1] # "image"
     \/ as = "lvm" /\ Plain(Obj)
  /\ \/ new' = [new EXCEPT ![Obj] = "part"] /\ Step("copy")
     \/ as = "btrfs" /\ Obj[1] = "snapshot" /\ new' = [new EXCEPT ![Obj] = "full"] /\ Step("drop")
  /\ UNCHANGED <<type, have, keys, poolRow, volRows, old, torn, as, failed>>

CopyDone ==
  /\ Running /\ doing = "copy"
  /\ new' = [new EXCEPT ![Obj] = "full"]
  /\ Step("drop")
  /\ UNCHANGED <<type, have, keys, poolRow, volRows, old, torn, as, failed>>

(* rsync fails: the LVM driver's ContainerDelete takes the volume away. *)
CopyFails ==
  /\ Running /\ doing = "copy"
  /\ new' = [new EXCEPT ![Obj] = IF as = "lvm" THEN "none" ELSE @]
  /\ torn' = IF as = "lvm" THEN torn ELSE torn \cup {Obj}
  /\ Leave
  /\ UNCHANGED <<type, have, keys, poolRow, volRows, old, as, failed>>

(* A container's dataset that cannot be unmounted or moved is passed over    *)
(* with its snapshots; the run fails when the others are done.              *)
PassOver ==
  /\ as = "zfs" /\ (Doing("clear") \/ Doing("link") \/ Doing("move"))
  /\ Obj[1] = "container"
  /\ GoOn({t \in Left : t.of \notin {Obj, Sn(Obj[2])}})
  /\ failed' = failed \cup {Obj}
  /\ UNCHANGED <<type, have, keys, poolRow, volRows, old, new, torn, as>>

UpgradeFailed ==
  /\ Doing("profiles") /\ failed # {}
  /\ Leave
  /\ UNCHANGED <<type, have, keys, poolRow, volRows, old, new, torn, as, failed>>

DropOld ==
  /\ Running /\ doing = "drop"
  /\ old' = [old EXCEPT ![Obj] = "none"]
  /\ TaskDone
  /\ UNCHANGED <<type, have, keys, poolRow, volRows, new, torn, as, failed>>

(* createContainerMountpoint, createSnapshotMountpoint and the like: a link *)
(* is made where nothing is.                                                *)
LinkOld ==
  /\ Doing("link")
  /\ old' = [old EXCEPT ![Obj] = IF @ = "none" THEN "link" ELSE @]
  /\ TaskDone
  /\ UNCHANGED <<type, have, keys, poolRow, volRows, new, torn, as, failed>>

(* LVM removes what is left of snapshots/<container>, as ZFS does.  There    *)
(* it is, as for containers and images, only the mount point of a dataset.  *)
ClearOld ==
  /\ Doing("clear")
  /\ old' = [old EXCEPT ![Obj] = "none"]
  /\ TaskDone
  /\ UNCHANGED <<type, have, keys, poolRow, volRows, new, torn, as, failed>>

(* An image without a logical volume is no volume of the pool. *)
CheckImage ==
  /\ Doing("check")
  /\ volRows' = IF new[Obj] = "none" THEN volRows \ {Obj} ELSE volRows
  /\ TaskDone
  /\ UNCHANGED <<type, have, keys, poolRow, old, new, torn, as, failed>>

(* updatePoolPropertyForAllObjects only adds what is missing. *)
UpdateProfiles ==
  /\ Doing("profiles") /\ failed = {}
  /\ TaskDone
  /\ UNCHANGED <<type, have, keys, poolRow, volRows, old, new, torn, as, failed>>

UnsetKeys ==
  /\ Doing("unset")
  /\ keys' = FALSE
  /\ TaskDone
  /\ UNCHANGED <<type, have, poolRow, volRows, old, new, torn, as, failed>>

SetupStorageDriver ==
  /\ Doing("setup")
  /\ TaskDone
  /\ UNCHANGED <<type, have, keys, poolRow, volRows, old, new, torn, as, failed>>

UpgradeStep ==
  \/ MakePool \/ AddRow \/ MoveObject \/ SkipSnapshot \/ CopyObject \/ CopyDone
  \/ DropOld \/ LinkOld \/ ClearOld \/ CheckImage \/ UpdateProfiles
  \/ UnsetKeys \/ SetupStorageDriver

UpgradeDone == Leave /\ UNCHANGED <<type, have, keys, poolRow, volRows, old, new, torn, as, failed>>

(* The daemon dies, or a step fails and ends it.  A removal may stop half   *)
(* way.                                                                     *)
UpgradeCut ==
  /\ Running
  /\ Leave
  /\ torn' = IF doing \in {"copy", "drop"} THEN torn \cup {Obj} ELSE torn
  /\ old' \in IF doing = "drop" THEN {old, [old EXCEPT ![Obj] = "part"]} ELSE {old}
  /\ UNCHANGED <<type, have, keys, poolRow, volRows, new, as, failed>>

-----------------------------------------------------------------------------
UpgradeTypeOK ==
  /\ type \in Types /\ have \in {{}, Objects} /\ as \in {"dir", "btrfs", "lvm", "zfs"} /\ keys \in BOOLEAN
  /\ poolRow \in {"none", "default", "named"}
  /\ volRows \subseteq Objects /\ torn \subseteq Objects
  /\ old \in [Objects -> {"none", "full", "part", "link"}]
  /\ new \in [Objects -> {"none", "full", "part"}]
  /\ at \in Tasks \cup {Idle, End} /\ doing \in {"task", "copy", "drop"}
  /\ failed \subseteq CtSet
=============================================================================
