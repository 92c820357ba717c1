------------------------------ MODULE Upgrade -------------------------------
(***************************************************************************)
(* The daemon's way up with its largest patch: DaemonStart with the        *)
(* storage_api patch of StorageUpgrade in the place of one of the patches. *)
(***************************************************************************)
EXTENDS DaemonStart, StorageUpgrade

CONSTANT StorageApi   \* the index of the storage_api patch

ASSUME UpgradeAssumption ==
  /\ StorageApi \in Patches
  /\ Types \subseteq {"dir", "btrfs", "lvm", "zfs"}
  /\ Ctns \in Seq(Range(Ctns)) /\ IsInjective(Ctns)
  /\ Imgs \in Seq(Range(Imgs)) /\ IsInjective(Imgs)
  /\ Snapped \subseteq Range(Ctns) /\ DirBacked \subseteq Range(Ctns)

vars == <<startVars, upgradeVars>>

\* A new database has nothing to move, and neither has a patched one here.
Init ==
  /\ StartInit
  /\ UpgradeInit
  /\ schema = 0 \/ StorageApi \in applied => have = {}

Starts ==
  \/ Boot \/ CreateSchema \/ MarkPatch \/ CreateProfile
  \/ Backup \/ RunUpdate \/ UpdateStuck \/ RecordUpdate
  \/ LegacyPatch \/ UpdatesDone
  \/ \E p \in Patches \ {StorageApi} : RunPatch(p)
  \/ \E p \in Patches : RecordPatch(p)
  \/ Serve \/ Ready
  \/ \E r \in Readiers : ReadyReturns(r)

patchStorageApi ==
  \/ step = "patch" /\ NextPatch(StorageApi) /\ BeginUpgrade /\ UNCHANGED startVars
  \/ UpgradeStep /\ UNCHANGED startVars
  \/ (PoolMissing \/ UpgradeFailed) /\ Exit
  \/ Finished /\ Running /\ RunPatch(StorageApi) /\ UpgradeDone

\* The storage commands and the daemon fail at most MaxFaults times.
Fails ==
  \/ Die /\ (IF Running THEN UpgradeCut ELSE UNCHANGED upgradeVars)
  \/ CopyFails /\ Die
  \/ /\ PassOver /\ faults < MaxFaults /\ faults' = faults + 1
     /\ UNCHANGED <<dbVars, bak, step, backedUp, setupMode, readyVars>>

Next ==
  \/ Starts /\ UNCHANGED upgradeVars
  \/ patchStorageApi
  \/ Fails
  \/ \E r \in Readiers : ReadyCall(r) /\ UNCHANGED upgradeVars

Spec == Init /\ [][Next]_vars

\* The daemon is started again whenever it is down, and runs.
FairSpec == Spec /\ WF_vars((Starts /\ UNCHANGED upgradeVars) \/ patchStorageApi)

-----------------------------------------------------------------------------
TypeOK == StartTypeOK /\ UpgradeTypeOK

\* Patches run only on a database with the whole of the newest schema, each
\* once all before it are recorded (patchesApplyAll), and requests are served
\* only once all are.  On an installation that has anything what is recorded
\* has run to its end; a new database is marked with patches that have not
\* (createDb), and those whose mark failed run.  Deaths between an update and
\* its record, or a patch and its record, and the starts that follow do not
\* change that.
UpToDate ==
  /\ step \in {"patch", "patched", "serving"} => schema = Latest /\ ~half
  /\ \A p \in patched : 1..(p - 1) \subseteq applied
  /\ step = "serving" => applied = Patches
  /\ have # {} => applied \subseteq patched

\* The copy of a snapshot that an LVM host keeps in a plain directory was cut.
\* The next run takes the new volume for the whole (patches.go:1150) and
\* removes the directory (patches.go:1242).
CutSnapshot(x) ==
  type = "lvm" /\ Plain(x) /\ x[1] = "snapshot" /\ new[x] = "part"

NoneGone ==
  type # "zfs" => \A x \in have : "full" \in {old[x], new[x]} \/ CutSnapshot(x)
Arrived ==
  have # {} =>
    /\ poolRow # "none" /\ ~keys
    /\ \A x \in have \ torn :
         /\ x \in volRows
         /\ type # "dir" \/ x[1] # "image" => new[x] = "full" /\ old[x] # "full"
         /\ x[1] = "container" => old[x] = "link"

\* However often the upgrade is cut and starts again, no container, snapshot
\* or image is lost: the whole of it is at its old place or at its new one
\* (ZFS moves mount points only, never data), but for the snapshots that
\* CutSnapshot names.  And what the recorded upgrade leaves behind: everything
\* but what was cut in a copy has its volume in the pool and its row, and
\* containers are found where they were before.
NothingLost == NoneGone /\ (StorageApi \in applied => Arrived)

\* When deaths and failures end the daemon comes up and is ready, or waits for
\* its setup.  Two deaths are final: that of an update that cannot be run again
\* before it is recorded, and one after the deprecated storage keys were
\* dropped but before the patch is recorded, when the next run takes the host
\* for another kind.
ComesUp ==
  \/ <>[](step = "serving" /\ (readyClosed \/ setupMode))
  \/ <>[](half /\ schema + 1 \notin Redoable)
  \/ <>[](StorageApi \notin applied /\ poolRow = "named" /\ ~keys)
=============================================================================
