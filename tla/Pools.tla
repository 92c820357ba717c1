------------------------------- MODULE Pools --------------------------------
(***************************************************************************)
(* One storage pool and one custom volume of it, under requests that       *)
(* create, rename and delete them while commands fail: the rows in the     *)
(* database against what is on the disk.  No lock orders the requests; a   *)
(* row is what one request sees of another.                                *)
(***************************************************************************)
EXTENDS Naturals, FiniteSets

CONSTANTS
  PoolDrivers,     \* of "dir", "btrfs", "zfs", "lvm"
  PoolReqs,        \* the requests that may be under way together
  MaxPoolFaults,   \* bound on the commands and transactions that fail
  MaxReboots

ASSUME PoolsAssumption ==
  /\ PoolDrivers \subseteq {"dir", "btrfs", "zfs", "lvm"} /\ PoolDrivers # {}
  /\ IsFiniteSet(PoolReqs) /\ MaxPoolFaults \in Nat /\ MaxReboots \in Nat

VARIABLES
  driver,
  poolRow,       \* NoPool, or the names and the kind of source it records
  poolDisk,      \* of "file" (the backing file or directory) and "layout"
  poolNames,     \* LVM: the names on the disk
  reachable,     \* the backing file is attached and the pool can be used
  volRow, volDisk,
  preq,          \* what each request is at, and what it has loaded
  poolMarks, poolFaults, reboots

poolVars == <<driver, poolRow, poolDisk, poolNames, reachable, volRow, volDisk,
              preq, poolMarks, poolFaults, reboots>>

NoPool == [vg |-> 0, thin |-> 0, loop |-> FALSE]
NewPool == [vg |-> 1, thin |-> 1, loop |-> TRUE]
Idle == [at |-> "idle", saw |-> NoPool, wants |-> NoPool]

PoolThere == poolRow # NoPool
Full == IF driver = "dir" THEN {"file"} ELSE {"file", "layout"}
NamesOf(row) == [vg |-> row.vg, thin |-> row.thin]

PoolFault == poolFaults < MaxPoolFaults /\ poolFaults' = poolFaults + 1
PoolMark(S) == poolMarks' = poolMarks \cup S

PoolsInit ==
  /\ driver \in PoolDrivers
  /\ poolRow = NoPool /\ poolDisk = {} /\ poolNames = NamesOf(NoPool) /\ reachable = FALSE
  /\ volRow = FALSE /\ volDisk = FALSE
  /\ preq = [r \in PoolReqs |-> Idle]
  /\ poolMarks = {} /\ poolFaults = 0 /\ reboots = 0

-----------------------------------------------------------------------------
At(r, where) == preq[r].at = where
Goto(r, where) == preq' = [preq EXCEPT ![r].at = where]
Ends(r) == preq' = [preq EXCEPT ![r] = Idle]

Making == {"mkpool", "mkrow"}
Removing == {"rmpool", "rmrow"}
Updating == {"thin", "vg", "update"}
OnVolume == {"mkvol", "rmvol", "rmvolrow"}

\* Nothing keeps a request from what another is making or removing.
Meets(r, where) ==
  PoolMark(IF \E q \in PoolReqs \ {r} : preq[q].at \in where THEN {"raced"} ELSE {})

(* The creation of a pool: its row, then the disk, then its row again if    *)
(* the driver changed the configuration, which it does for a backing file.  *)
storagePoolDBCreate(r) ==
  /\ At(r, "idle") /\ ~PoolThere
  /\ poolRow' = [NewPool EXCEPT !.loop = FALSE] /\ Goto(r, "mkpool")
  /\ Meets(r, Removing \cup Updating \cup OnVolume)
  /\ UNCHANGED <<driver, poolDisk, poolNames, reachable, volRow, volDisk, poolFaults, reboots>>

\* The row goes, and the rows of its volumes with it.
dbStoragePoolDelete(row) == poolRow' = NoPool /\ volRow' = FALSE

\* What each driver leaves on the disk when its creation fails.
dirLeaves == {{}}
btrfsLeaves == {{}, {"file"}, {"file", "layout"}}
zfsLeaves == {{}, {"file"}, {"file", "layout"}}
lvmLeaves == {{}, {"file"}, {"layout"}}

Leaves == CASE driver = "dir" -> dirLeaves
            [] driver = "btrfs" -> btrfsLeaves
            [] driver = "zfs" -> zfsLeaves
            [] driver = "lvm" -> lvmLeaves

\* A pool or a volume group of that name is refused; btrfs formats again.
Refused == driver \in {"zfs", "lvm"} /\ "layout" \in poolDisk

StoragePoolCreate(r) ==
  /\ At(r, "mkpool")
  /\ \/ /\ ~Refused
        /\ poolDisk' = Full /\ poolNames' = NamesOf(NewPool) /\ reachable' = TRUE
        /\ Goto(r, "mkrow") /\ UNCHANGED <<poolRow, volRow, volDisk, poolMarks, poolFaults>>
     \/ \* the row is deleted, whatever has become of it
        /\ \/ Refused /\ UNCHANGED <<poolDisk, poolMarks, poolFaults>>
           \/ /\ ~Refused /\ PoolFault /\ poolDisk' \in Leaves
              /\ PoolMark(IF poolDisk' = {} THEN {} ELSE {"leftover"})
        /\ dbStoragePoolDelete(poolRow) /\ Ends(r)
        /\ UNCHANGED <<poolNames, reachable, volDisk>>
  /\ UNCHANGED <<driver, reboots>>

\* The source the driver has chosen is written; or else all is undone.
storagePoolCreateInternal(r) ==
  /\ At(r, "mkrow")
  /\ \/ /\ poolRow' = IF PoolThere THEN NewPool ELSE NoPool
        /\ UNCHANGED <<poolDisk, reachable, volRow, volDisk, poolMarks, poolFaults>>
     \/ /\ PoolFault /\ dbStoragePoolDelete(poolRow)
        /\ poolDisk' = {} /\ reachable' = FALSE /\ volDisk' = FALSE
        /\ UNCHANGED poolMarks
  /\ Ends(r)
  /\ UNCHANGED <<driver, poolNames, reboots>>

\* What may be gone when a command of the driver's deletion fails.
Remains == CASE driver = "dir" -> {{"file"}}
             [] driver = "btrfs" -> {{"file"}}
             [] driver = "zfs" -> {{"file", "layout"}, {"file"}}
             [] driver = "lvm" -> {{"file", "layout"}, {"file"}, {}}

\* A step of the undoing fails as well, which nobody looks at: the row stays,
\* or the disk keeps what the driver's deletion leaves when it fails.
CreateUndoFails(r) ==
  /\ \/ /\ At(r, "mkpool") /\ PoolFault
        /\ poolDisk' \in {poolDisk} \cup (IF Refused THEN {} ELSE Leaves)
        /\ UNCHANGED <<poolRow, reachable, volRow, volDisk>>
     \/ /\ At(r, "mkrow") /\ poolFaults + 1 < MaxPoolFaults /\ poolFaults' = poolFaults + 2
        /\ poolDisk' \in {{}} \cup {S \cap poolDisk : S \in Remains}
        /\ reachable' = (reachable /\ poolDisk' = Full) /\ volDisk' = (volDisk /\ poolDisk' = Full)
        /\ dbStoragePoolDelete(poolRow) \/ UNCHANGED <<poolRow, volRow>>
  /\ Ends(r) /\ PoolMark({"halfdone"})
  /\ UNCHANGED <<driver, poolNames, reboots>>

(* The deletion: a check that it has no volumes and is in no profile, the   *)
(* disk, the row.                                                           *)
storagePoolDelete(r) ==
  /\ At(r, "idle") /\ PoolThere /\ ~volRow
  /\ Goto(r, "rmpool")
  /\ Meets(r, Making \cup Updating \cup OnVolume)
  /\ UNCHANGED <<driver, poolRow, poolDisk, poolNames, reachable, volRow, volDisk, poolFaults, reboots>>

\* A second deletion does not find what the first has removed; but for dir.
Deletable == driver = "dir" \/ (poolDisk = Full /\ reachable)

\* A renamed pool of LVM no longer knows of its backing file.
KeepsFile == driver = "lvm" /\ ~poolRow.loop

StoragePoolDelete(r) ==
  /\ At(r, "rmpool")
  /\ \/ /\ Deletable /\ PoolThere
        /\ poolDisk' = IF KeepsFile THEN {"file"} ELSE {}
        /\ reachable' = FALSE /\ volDisk' = FALSE
        /\ Goto(r, "rmrow") /\ PoolMark(IF KeepsFile THEN {"sourcelost"} ELSE {})
        /\ UNCHANGED poolFaults
     \/ /\ Deletable /\ PoolThere /\ PoolFault
        /\ poolDisk' \in {S \cap poolDisk : S \in Remains} /\ reachable' = (reachable /\ poolDisk' = Full)
        /\ volDisk' = (volDisk /\ poolDisk' = Full)
        /\ Ends(r) /\ PoolMark(IF poolDisk' = Full THEN {} ELSE {"halfdone"})
     \/ /\ ~(Deletable /\ PoolThere) /\ Ends(r)
        /\ UNCHANGED <<poolDisk, reachable, volDisk, poolMarks, poolFaults>>
  /\ UNCHANGED <<driver, poolRow, poolNames, volRow, reboots>>

DeletePoolRow(r) ==
  /\ At(r, "rmrow")
  /\ \/ dbStoragePoolDelete(poolRow) /\ UNCHANGED <<poolMarks, poolFaults>>
     \/ PoolFault /\ PoolMark({"halfdone"}) /\ UNCHANGED <<poolRow, volRow>>
  /\ Ends(r)
  /\ UNCHANGED <<driver, poolDisk, poolNames, reachable, volDisk, reboots>>

-----------------------------------------------------------------------------
(* The update: only LVM changes the disk, by renaming the thin pool and the *)
(* volume group; a changed volume group also replaces the source.           *)
Changeable == IF driver = "lvm" THEN {"thin", "vg"} ELSE {}

storagePoolUpdate(r, keys) ==
  /\ At(r, "idle") /\ PoolThere /\ keys # {}
  /\ preq' = [preq EXCEPT ![r] =
       [at |-> IF "thin" \in keys THEN "thin" ELSE "vg", saw |-> poolRow,
        wants |-> [vg   |-> IF "vg" \in keys THEN 3 - poolRow.vg ELSE poolRow.vg,
                   thin |-> IF "thin" \in keys THEN 3 - poolRow.thin ELSE poolRow.thin,
                   loop |-> poolRow.loop /\ "vg" \notin keys]]]
  /\ Meets(r, Making \cup Removing)
  /\ UNCHANGED <<driver, poolRow, poolDisk, poolNames, reachable, volRow, volDisk, poolFaults, reboots>>

\* The commands address what they rename by the names that were loaded.
Found(r) == "layout" \in poolDisk /\ reachable /\ poolNames.vg = preq[r].saw.vg

RenameThinpool(r) ==
  /\ At(r, "thin")
  /\ \/ /\ Found(r) /\ poolNames.thin = preq[r].saw.thin
        /\ poolNames' = [poolNames EXCEPT !.thin = preq[r].wants.thin]
        /\ Goto(r, IF preq[r].wants.vg = preq[r].saw.vg THEN "update" ELSE "vg")
        /\ UNCHANGED poolFaults
     \/ /\ IF Found(r) /\ poolNames.thin = preq[r].saw.thin THEN PoolFault ELSE UNCHANGED poolFaults
        /\ Ends(r) /\ UNCHANGED poolNames
  /\ UNCHANGED <<driver, poolRow, poolDisk, reachable, volRow, volDisk, poolMarks, reboots>>

\* Faulty form: the thin pool keeps its new name when the volume group fails.
KeepThinpool(r) == UNCHANGED <<poolNames, poolMarks>>

\* The deferred function renames the thin pool back if that was renamed and
\* still has the name it was given.
RevertThinpool(r) ==
  LET asked == preq[r].wants.thin # preq[r].saw.thin
      works == Found(r) /\ poolNames.thin = preq[r].wants.thin
  IN /\ poolNames' = IF asked /\ works THEN [poolNames EXCEPT !.thin = preq[r].saw.thin] ELSE poolNames
     /\ PoolMark(IF asked /\ ~works THEN {"renamed"} ELSE {})

RenameVolumeGroup(r) ==
  /\ At(r, "vg")
  /\ \/ /\ Found(r)
        /\ poolNames' = [poolNames EXCEPT !.vg = preq[r].wants.vg]
        /\ Goto(r, "update") /\ UNCHANGED <<poolFaults, poolMarks>>
     \/ /\ IF Found(r) THEN PoolFault ELSE UNCHANGED poolFaults
        /\ RevertThinpool(r) /\ Ends(r)
  /\ UNCHANGED <<driver, poolRow, poolDisk, reachable, volRow, volDisk, reboots>>

\* The whole configuration is written as it was loaded and asked for: over
\* another request's, or not at all, with the new names on the disk.
dbStoragePoolUpdate(r) ==
  /\ At(r, "update")
  /\ \/ /\ poolRow' = IF PoolThere THEN preq[r].wants ELSE NoPool
        /\ PoolMark((IF poolRow # preq[r].saw THEN {"stale"} ELSE {})
                    \cup (IF preq[r].saw.loop /\ ~preq[r].wants.loop THEN {"sourcelost"} ELSE {}))
        /\ UNCHANGED poolFaults
     \/ PoolFault /\ PoolMark({"renamed"}) /\ UNCHANGED poolRow
  /\ Ends(r)
  /\ UNCHANGED <<driver, poolDisk, poolNames, reachable, volRow, volDisk, reboots>>

-----------------------------------------------------------------------------
(* The volume: its row, then the disk, and back if that fails.              *)
storagePoolVolumeDBCreate(r) ==
  /\ At(r, "idle") /\ PoolThere /\ ~volRow
  /\ volRow' = TRUE
  /\ preq' = [preq EXCEPT ![r] = [at |-> "mkvol", saw |-> poolRow, wants |-> NoPool]]
  /\ Meets(r, Making \cup Removing \cup {"rmvol", "rmvolrow"})
  /\ UNCHANGED <<driver, poolRow, poolDisk, poolNames, reachable, volDisk, poolFaults, reboots>>

\* A directory is made with its parents; the other drivers need their pool,
\* by the names they have loaded.
Makeable(r) == driver = "dir" \/ (poolDisk = Full /\ reachable /\ poolNames = NamesOf(preq[r].saw))

\* Faulty form: the row stays when the volume could not be made.
VolumeCreateKeeps(r) == UNCHANGED volRow

VolumeCreateUndo(r) == volRow' = FALSE

StoragePoolVolumeCreate(r) ==
  /\ At(r, "mkvol")
  /\ \/ Makeable(r) /\ ~volDisk /\ volDisk' = TRUE /\ UNCHANGED <<volRow, poolFaults>>
     \/ /\ IF Makeable(r) /\ ~volDisk THEN PoolFault ELSE UNCHANGED poolFaults
        /\ VolumeCreateUndo(r) /\ UNCHANGED volDisk
  /\ Ends(r)
  /\ UNCHANGED <<driver, poolRow, poolDisk, poolNames, reachable, poolMarks, reboots>>

\* storagePoolVolumeInit fails, after which nothing is undone, or the undoing.
VolumeRowStays(r) ==
  /\ At(r, "mkvol") /\ PoolFault /\ Ends(r) /\ PoolMark({"rowleft"})
  /\ UNCHANGED <<driver, poolRow, poolDisk, poolNames, reachable, volRow, volDisk, reboots>>

\* A volume in no use is deleted on the disk, then its row.
storagePoolVolumeTypeDelete(r) ==
  /\ At(r, "idle") /\ volRow /\ PoolThere
  /\ preq' = [preq EXCEPT ![r] = [at |-> "rmvol", saw |-> poolRow, wants |-> NoPool]]
  /\ Meets(r, Making \cup Removing \cup OnVolume)
  /\ UNCHANGED <<driver, poolRow, poolDisk, poolNames, reachable, volRow, volDisk, poolFaults, reboots>>

StoragePoolVolumeDelete(r) ==
  /\ At(r, "rmvol")
  /\ \/ /\ IF driver = "dir" THEN TRUE ELSE Makeable(r) /\ volDisk
        /\ volDisk' = FALSE /\ Goto(r, "rmvolrow") /\ UNCHANGED poolFaults
     \/ /\ IF driver = "dir" \/ (Makeable(r) /\ volDisk) THEN PoolFault ELSE UNCHANGED poolFaults
        /\ Ends(r) /\ UNCHANGED volDisk
  /\ UNCHANGED <<driver, poolRow, poolDisk, poolNames, reachable, volRow, poolMarks, reboots>>

dbStoragePoolVolumeDelete(r) ==
  /\ At(r, "rmvolrow")
  /\ \/ volRow' = FALSE /\ UNCHANGED <<poolMarks, poolFaults>>
     \/ PoolFault /\ PoolMark({"halfdone"}) /\ UNCHANGED volRow
  /\ Ends(r)
  /\ UNCHANGED <<driver, poolRow, poolDisk, poolNames, reachable, volDisk, reboots>>

-----------------------------------------------------------------------------
\* The host starts again: StoragePoolMount attaches the backing file that the
\* row names; without one the pool is taken to be there.
HostRestarts ==
  /\ reboots < MaxReboots /\ reboots' = reboots + 1
  /\ \A r \in PoolReqs : At(r, "idle")
  /\ reachable' = (reachable /\ (driver = "lvm" => poolRow.loop))
  /\ UNCHANGED <<driver, poolRow, poolDisk, poolNames, volRow, volDisk, preq, poolMarks, poolFaults>>

PoolsNext ==
  \/ \E r \in PoolReqs :
       \/ storagePoolDBCreate(r) \/ StoragePoolCreate(r) \/ storagePoolCreateInternal(r) \/ CreateUndoFails(r)
       \/ storagePoolDelete(r) \/ StoragePoolDelete(r) \/ DeletePoolRow(r)
       \/ \E keys \in SUBSET Changeable : storagePoolUpdate(r, keys)
       \/ RenameThinpool(r) \/ RenameVolumeGroup(r) \/ dbStoragePoolUpdate(r)
       \/ storagePoolVolumeDBCreate(r) \/ StoragePoolVolumeCreate(r) \/ VolumeRowStays(r)
       \/ storagePoolVolumeTypeDelete(r) \/ StoragePoolVolumeDelete(r)
       \/ dbStoragePoolVolumeDelete(r)
  \/ HostRestarts

PoolsSpec == PoolsInit /\ [][PoolsNext]_poolVars

-----------------------------------------------------------------------------
\* Once no request is under way, the rows and the disk tell the same: a pool
\* with a row is there, whole, under the names its row has and usable also
\* after a restart, one without has left nothing, and so with the volume;
\* unless the creation of the pool failed and left something ("leftover"), a
\* deletion or the undoing of a creation stopped half way ("halfdone", and
\* "rowleft" for a volume), a rename was not recorded ("renamed") or recorded
\* from a stale copy ("stale"), a request ran into the creation or deletion of
\* what it works on ("raced"), or a renamed pool has lost its backing file
\* ("sourcelost").
PoolsWhole ==
  (\A r \in PoolReqs : At(r, "idle")) =>
    /\ poolMarks \cap {"raced", "leftover", "halfdone", "sourcelost"} = {} =>
         poolDisk = (IF PoolThere THEN Full ELSE {})
    /\ PoolThere /\ poolMarks \cap {"raced", "halfdone", "renamed", "stale"} = {} =>
         poolNames = NamesOf(poolRow)
    /\ PoolThere /\ poolMarks \cap {"raced", "halfdone", "sourcelost"} = {} => reachable
    /\ poolMarks \cap {"raced", "halfdone", "rowleft"} = {} => (volRow <=> volDisk)
=============================================================================
