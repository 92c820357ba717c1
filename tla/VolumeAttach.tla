---------------------------- MODULE VolumeAttach ----------------------------
(***************************************************************************)
(* A custom volume given to containers: storagePoolVolumeAttachInit shifts *)
(* its files to the id map of the container that attaches it, the drivers  *)
(* mount it under a lock that only orders the mounts, and createDiskDevice *)
(* binds it into the container.                                            *)
(***************************************************************************)
EXTENDS Integers, FiniteSets

CONSTANTS
  VolDrivers,       \* of "dir", "lvm"; btrfs is as dir and zfs as lvm here,
                    \* but that zfs lets the volume's row be changed: "zfs"
  Users,            \* the containers
  IdMaps,           \* the id maps they may have, 0 for none
  Free,             \* for a lock nobody has
  MaxVolFaults,
  MaxVolEdits

ASSUME AttachAssumption ==
  /\ VolDrivers \subseteq {"dir", "lvm", "zfs"} /\ VolDrivers # {}
  /\ IdMaps \subseteq Nat /\ Free \notin Users /\ MaxVolFaults \in Nat /\ MaxVolEdits \in Nat

VARIABLES
  vdriver, idmap,
  vlast,            \* volatile.idmap.last of the volume's row
  vfiles,           \* the map its files have, Mixed if not all have the same
  vmounted,         \* it is mounted on the host
  mountLock,        \* who has the lock of its mount
  devRow,           \* containers whose devices, in the database, name it
  live,             \* containers that run
  sees,             \* what a container has at the device's path
  apc, asaw, aours, \* of the request that attaches it to a container
  edit,             \* a request that updates the volume's row
  volMarks, volFaults, volEdits

attVars == <<vdriver, idmap, vlast, vfiles, vmounted, mountLock, devRow, live, sees,
             apc, asaw, aours, edit, volMarks, volFaults, volEdits>>
attReq == <<apc, asaw, aours>>
attWorld == <<vdriver, idmap, devRow, live, sees, edit, volEdits>>

VolFault == volFaults < MaxVolFaults /\ volFaults' = volFaults + 1
VolMark(S) == volMarks' = volMarks \cup S
NoEdit == [at |-> "idle", saw |-> 0]

Mixed == -1
Mounts == vdriver # "dir"

AttachInit ==
  /\ vdriver \in VolDrivers /\ idmap \in [Users -> IdMaps]
  /\ vlast = 0 /\ vfiles = 0 /\ vmounted = TRUE /\ mountLock = Free
  /\ devRow = {} /\ live = {} /\ sees = [c \in Users |-> "nothing"]
  /\ apc = [c \in Users |-> "idle"] /\ asaw = [c \in Users |-> 0]
  /\ aours = [c \in Users |-> FALSE] /\ edit = NoEdit
  /\ volMarks = {} /\ volFaults = 0 /\ volEdits = 0

-----------------------------------------------------------------------------
\* The volume is attached when a container starts that has it among its
\* devices, or when the device is added to a container that runs, which the
\* database learns of when it is done.
Begin(c) ==
  /\ apc[c] = "idle" /\ (c \in live <=> c \notin devRow)
  /\ apc' = [apc EXCEPT ![c] = "load"]
  /\ UNCHANGED <<attWorld, asaw, aours, vlast, vfiles, vmounted, mountLock, volMarks, volFaults>>

\* The containers and profiles that name the volume in the database.
storagePoolVolumeUsedByGet == devRow

Attaching(d) == apc[d] \notin {"idle", "load"}

\* The map the volume had last is compared with the container's; a volume
\* that others use is not shifted.  "I'm not sure if we want some locking
\* here": of two requests at a time, one may miss what the other shifts.
AttachLoad(c) ==
  /\ apc[c] = "load"
  /\ asaw' = [asaw EXCEPT ![c] = vlast]
  /\ apc' = [apc EXCEPT ![c] =
       CASE vlast = idmap[c] -> "record"
         [] vlast # idmap[c] /\ storagePoolVolumeUsedByGet \subseteq {c} -> "mount"
         [] OTHER -> "idle"]
  /\ VolMark(IF \E d \in Users \ {c} : Attaching(d) /\ (vlast # idmap[c] \/ asaw[d] # idmap[d])
             THEN {"together"} ELSE {})
  /\ UNCHANGED <<attWorld, aours, vlast, vfiles, vmounted, mountLock, volFaults>>

\* StoragePoolVolumeMount, once to shift the files and once to bind them.
Phase(c) == IF apc[c] \in {"mount", "mounting", "waits"} THEN "shift" ELSE "bind"

MountBegins(c) ==
  /\ apc[c] \in {"mount", "mount2"}
  /\ IF ~Mounts
     THEN apc' = [apc EXCEPT ![c] = Phase(c)] /\ UNCHANGED <<mountLock, aours>>
     ELSE IF mountLock # Free
     THEN apc' = [apc EXCEPT ![c] = IF Phase(c) = "shift" THEN "waits" ELSE "waits2"]
          /\ aours' = [aours EXCEPT ![c] = FALSE] /\ UNCHANGED mountLock
     ELSE apc' = [apc EXCEPT ![c] = IF Phase(c) = "shift" THEN "mounting" ELSE "mounting2"]
          /\ mountLock' = c /\ UNCHANGED aours
  /\ UNCHANGED <<attWorld, asaw, vlast, vfiles, vmounted, volMarks, volFaults>>

Mount(c) ==
  /\ apc[c] \in {"mounting", "mounting2"}
  /\ mountLock' = Free
  /\ \/ /\ vmounted' = TRUE
        /\ apc' = [apc EXCEPT ![c] = Phase(c)]
        /\ aours' = [aours EXCEPT ![c] = Phase(c) = "shift" /\ ~vmounted]
        /\ UNCHANGED volFaults
     \/ /\ ~vmounted /\ VolFault
        /\ apc' = [apc EXCEPT ![c] = "idle"]
        /\ UNCHANGED <<vmounted, aours>>
  /\ UNCHANGED <<attWorld, asaw, vlast, vfiles, volMarks>>

\* Who finds the lock taken waits for it and believes the mount was made.
MountWaited(c) ==
  /\ apc[c] \in {"waits", "waits2"} /\ mountLock = Free
  /\ apc' = [apc EXCEPT ![c] = Phase(c)]
  /\ VolMark(IF vmounted THEN {} ELSE {"doubted"})
  /\ UNCHANGED <<attWorld, asaw, aours, vlast, vfiles, vmounted, mountLock, volFaults>>

\* Faulty form: the files keep the map they had before.
ShiftOver(from, to) == IF vfiles = 0 THEN to ELSE Mixed

\* Taken back from the map loaded before and given the container's; files
\* that had another than that one are left with neither.
Shifted(from, to) == IF vfiles = from THEN to ELSE Mixed

AttachShift(c) ==
  /\ apc[c] = "shift"
  /\ \/ /\ vfiles' = IF Mounts /\ ~vmounted THEN vfiles ELSE Shifted(asaw[c], idmap[c])
        /\ apc' = [apc EXCEPT ![c] = "record"]
        /\ UNCHANGED <<volMarks, volFaults>>
     \/ \* some of the files are shifted; what is recorded stays
        /\ VolFault /\ vfiles' = Mixed /\ VolMark({"cut"})
        /\ apc' = [apc EXCEPT ![c] = IF aours[c] THEN "umountfail" ELSE "idle"]
  /\ UNCHANGED <<attWorld, asaw, aours, vlast, vmounted, mountLock>>

\* Faulty form: the map is not recorded.
RecordNothing(c) == UNCHANGED vlast

Record(c) == vlast' = idmap[c]

AttachRecord(c) ==
  /\ apc[c] = "record"
  /\ \/ /\ Record(c) /\ UNCHANGED <<volMarks, volFaults>>
        /\ apc' = [apc EXCEPT ![c] = IF aours[c] THEN "umount" ELSE "mount2"]
     \/ /\ VolFault /\ UNCHANGED vlast
        /\ VolMark(IF vlast = idmap[c] THEN {} ELSE {"cut"})
        /\ apc' = [apc EXCEPT ![c] = IF aours[c] THEN "umountfail" ELSE "idle"]
  /\ UNCHANGED <<attWorld, asaw, aours, vfiles, vmounted, mountLock>>

\* The mount made for the shift is undone before the one that is kept.
AttachUmount(c) ==
  /\ apc[c] \in {"umount", "umountfail"}
  /\ vmounted' = FALSE
  /\ aours' = [aours EXCEPT ![c] = FALSE]
  /\ apc' = [apc EXCEPT ![c] = IF apc[c] = "umount" THEN "mount2" ELSE "idle"]
  /\ UNCHANGED <<attWorld, asaw, vlast, vfiles, mountLock, volMarks, volFaults>>

\* createDiskDevice binds what is at the mount point now; then the container
\* starts, or the device is written to the database.
createDiskDevice(c) ==
  /\ apc[c] = "bind"
  /\ apc' = [apc EXCEPT ![c] = "idle"]
  /\ sees' = [sees EXCEPT ![c] = IF vmounted THEN "volume" ELSE "empty"]
  /\ live' = live \cup {c} /\ devRow' = devRow \cup {c}
  /\ UNCHANGED <<vdriver, idmap, edit, volEdits, asaw, aours, vlast, vfiles, vmounted, mountLock, volMarks, volFaults>>

-----------------------------------------------------------------------------
\* The device is taken from a container, live if that runs.
removeDiskDevice(c) ==
  /\ apc[c] = "idle" /\ c \in devRow
  /\ devRow' = devRow \ {c} /\ sees' = [sees EXCEPT ![c] = "nothing"]
  /\ UNCHANGED <<vdriver, idmap, live, edit, volEdits, attReq, vlast, vfiles, vmounted, mountLock, volMarks, volFaults>>

\* The device is added to a container that does not run, or the container
\* starts without it; nothing is attached.
AddDevice(c) ==
  /\ apc[c] = "idle" /\ c \notin devRow /\ c \notin live
  /\ devRow' = devRow \cup {c}
  /\ UNCHANGED <<vdriver, idmap, live, sees, edit, volEdits, attReq, vlast, vfiles, vmounted, mountLock, volMarks, volFaults>>

StartWithout(c) ==
  /\ apc[c] = "idle" /\ c \notin devRow /\ c \notin live
  /\ live' = live \cup {c}
  /\ UNCHANGED <<vdriver, idmap, devRow, sees, edit, volEdits, attReq, vlast, vfiles, vmounted, mountLock, volMarks, volFaults>>

\* A container that stops unmounts its devices; the volume stays mounted.
removeDiskDevices(c) ==
  /\ apc[c] = "idle" /\ c \in live
  /\ live' = live \ {c} /\ sees' = [sees EXCEPT ![c] = "nothing"]
  /\ UNCHANGED <<vdriver, idmap, devRow, edit, volEdits, attReq, vlast, vfiles, vmounted, mountLock, volMarks, volFaults>>

\* A host that starts again has nothing mounted.
VolumeHostRestarts ==
  /\ Mounts /\ vmounted /\ live = {} /\ \A c \in Users : apc[c] = "idle"
  /\ vmounted' = FALSE
  /\ UNCHANGED <<attWorld, attReq, vlast, vfiles, mountLock, volMarks, volFaults>>

\* storagePoolVolumeUpdate writes the whole configuration it was given, which
\* repeats what it had read; only zfs lets the recorded map be left out.
EditBegins ==
  /\ edit = NoEdit /\ volEdits < MaxVolEdits /\ volEdits' = volEdits + 1
  /\ \E saw \in {vlast} \cup (IF vdriver = "zfs" THEN {0} ELSE {}) :
       edit' = [at |-> "write", saw |-> saw]
  /\ UNCHANGED <<vdriver, idmap, devRow, live, sees, attReq, vlast, vfiles, vmounted, mountLock, volMarks, volFaults>>

EditWrites ==
  /\ edit.at = "write"
  /\ vlast' = edit.saw /\ edit' = NoEdit
  /\ VolMark(IF vlast = edit.saw THEN {} ELSE {"stale"})
  /\ UNCHANGED <<vdriver, idmap, devRow, live, sees, volEdits, attReq, vfiles, vmounted, mountLock, volFaults>>

AttachNext ==
  \/ \E c \in Users :
       \/ Begin(c) \/ AttachLoad(c) \/ MountBegins(c) \/ Mount(c) \/ MountWaited(c)
       \/ AttachShift(c) \/ AttachRecord(c) \/ AttachUmount(c) \/ createDiskDevice(c)
       \/ removeDiskDevice(c) \/ AddDevice(c) \/ StartWithout(c) \/ removeDiskDevices(c)
  \/ VolumeHostRestarts \/ EditBegins \/ EditWrites

AttachSpec == AttachInit /\ [][AttachNext]_attVars

-----------------------------------------------------------------------------
\* A container that runs with the volume attached has the volume there, not
\* the empty mount point, with its files under the container's own id map,
\* whoever else attaches, detaches, starts and stops; unless two requests
\* attached it together, a waiter took a failed mount for made, a shift
\* stopped half way or was not recorded, or the row was written from a copy.
AttachedUsable ==
  \A c \in Users :
    c \in live /\ sees[c] # "nothing" /\ volMarks = {} => sees[c] = "volume" /\ vfiles = idmap[c]
=============================================================================
