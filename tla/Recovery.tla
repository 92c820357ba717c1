------------------------------ MODULE Recovery ------------------------------
(***************************************************************************)
(* backup.yaml and "apollo import": what the daemon writes beside a        *)
(* container's files so that its rows can be made again from them, and how *)
(* internalImport makes them when some or all rows are lost.  The rows of a *)
(* container hold its configuration, here a number (0 for no row); so do   *)
(* those of a snapshot.                                                    *)
(***************************************************************************)
EXTENDS Naturals, FiniteSets

CONSTANTS
  Cts,             \* names of containers
  Snaps,           \* names of snapshots
  Cfgs,            \* configurations
  MaxLosses, MaxRecFaults

\* Snapshots have names (containerSnapshotsPost makes one up).
ASSUME RecoveryAssumption == 0 \notin Cfgs /\ "" \notin Snaps /\ MaxLosses \in Nat /\ MaxRecFaults \in Nat

VARIABLES
  poolRow, ctRow, snapRow,   \* rows of the pool, the containers, their snapshots
  volRow,          \* <<c, s>>, or <<c, "">> for the container, with a volume row
  data,            \* <<c, s>> and <<c, "">> with files in the pool
  yaml,            \* container -> its backup.yaml
  thin,            \* containers whose backup.yaml an import wrote before the snapshots had rows
  link,            \* containers whose directory under containers/ leads to them
  mounts,          \* the driver leaves the files of a stopped container mounted
  runs,            \* the containers that run
  truth,           \* <<c, s>> and <<c, "">> -> configuration in the last row it had
  kept,            \* data that no request has removed
  rec,             \* the import
  good,            \* the containers imported since the rows were lost, with a backup.yaml as it should be
  losses, recFaults, recMarks

recVars == <<poolRow, ctRow, snapRow, volRow, data, yaml, thin, link, mounts, runs, truth, kept, rec, good, losses, recFaults, recMarks>>

NoYaml == [name |-> "", cfg |-> 0, snaps |-> [s \in Snaps |-> 0]]
NoRec == [at |-> "idle", c |-> "", force |-> FALSE, file |-> NoYaml, left |-> {}]
Parts == {""} \cup Snaps
NoSnaps == [s \in Snaps |-> 0]

RecoveryInit ==
  /\ poolRow = TRUE /\ ctRow = [c \in Cts |-> 0] /\ snapRow = [c \in Cts |-> NoSnaps] /\ volRow = {}
  /\ data = {} /\ yaml = [c \in Cts |-> NoYaml] /\ thin = {} /\ link = {} /\ mounts \in BOOLEAN /\ runs = {}
  /\ truth = [p \in Cts \X Parts |-> 0] /\ kept = {} /\ rec = NoRec /\ good = {}
  /\ losses = 0 /\ recFaults = 0 /\ recMarks = {}

RecFault == recFaults < MaxRecFaults /\ recFaults' = recFaults + 1
RecMark(S) == recMarks' = recMarks \cup S

\* The container is whole: nothing of it has been lost.
Whole(c) ==
  /\ rec = NoRec /\ poolRow /\ ctRow[c] # 0 /\ <<c, "">> \in volRow \cap data
  /\ \A s \in Snaps : (snapRow[c][s] # 0) = (<<c, s>> \in data) /\ (<<c, s>> \in data) = (<<c, s>> \in volRow)

Mounted(c) == mounts \/ c \in runs

\* Faulty form: the file is written without the snapshots.
BackupWithoutSnaps(c, cfg, snaps) == [name |-> c, cfg |-> cfg, snaps |-> NoSnaps]

\* writeBackupFile: the rows as they are, if the container's directory leads to
\* its files and they are mounted.
BackupFile(c, cfg, snaps) == [name |-> c, cfg |-> cfg, snaps |-> snaps]

writeBackupFile(c, cfg, snaps) ==
  IF Mounted(c) /\ c \in link
  THEN yaml' = [yaml EXCEPT ![c] = BackupFile(c, cfg, snaps)] /\ thin' = thin \ {c} /\ UNCHANGED recMarks
  ELSE RecMark({"unwritten"}) /\ UNCHANGED <<yaml, thin>>

-----------------------------------------------------------------------------
(* The requests that change rows. *)

\* At the end of a creation the files are mounted.
CreateContainer(c, g) ==
  /\ rec = NoRec /\ poolRow /\ losses = 0
  /\ ctRow[c] = 0 /\ data \cap ({c} \X Parts) = {} /\ volRow \cap ({c} \X Parts) = {}
  /\ ctRow' = [ctRow EXCEPT ![c] = g] /\ volRow' = volRow \cup {<<c, "">>}
  /\ data' = data \cup {<<c, "">>} /\ kept' = kept \cup {<<c, "">>} /\ link' = link \cup {c}
  /\ yaml' = [yaml EXCEPT ![c] = BackupFile(c, g, NoSnaps)] /\ thin' = thin \ {c}
  /\ truth' = [truth EXCEPT ![<<c, "">>] = g]
  /\ UNCHANGED <<poolRow, snapRow, mounts, runs, rec, good, losses, recFaults, recMarks>>

UpdateContainer(c, g) ==
  /\ Whole(c) /\ g # ctRow[c]
  /\ ctRow' = [ctRow EXCEPT ![c] = g] /\ truth' = [truth EXCEPT ![<<c, "">>] = g]
  /\ writeBackupFile(c, g, snapRow[c])
  /\ UNCHANGED <<poolRow, snapRow, volRow, data, link, mounts, runs, kept, rec, good, losses, recFaults>>

\* The snapshot that is mounted for the file is not the container it is of.
\* Without the directory the file fails and the snapshot is deleted again.
SnapshotContainer(c, s) ==
  /\ Whole(c) /\ snapRow[c][s] = 0 /\ c \in link
  /\ snapRow' = [snapRow EXCEPT ![c][s] = ctRow[c]] /\ volRow' = volRow \cup {<<c, s>>}
  /\ data' = data \cup {<<c, s>>} /\ kept' = kept \cup {<<c, s>>}
  /\ truth' = [truth EXCEPT ![<<c, s>>] = ctRow[c]]
  /\ writeBackupFile(c, ctRow[c], snapRow'[c])
  /\ UNCHANGED <<poolRow, ctRow, link, mounts, runs, rec, good, losses, recFaults>>

\* snapshotDelete and snapshotPost leave backup.yaml as it is.
SnapshotDeleted(c, s) ==
  /\ Whole(c) /\ snapRow[c][s] # 0
  /\ snapRow' = [snapRow EXCEPT ![c][s] = 0] /\ volRow' = volRow \ {<<c, s>>}
  /\ data' = data \ {<<c, s>>} /\ kept' = kept \ {<<c, s>>} /\ truth' = [truth EXCEPT ![<<c, s>>] = 0]
  /\ UNCHANGED <<poolRow, ctRow, yaml, thin, link, mounts, runs, rec, good, losses, recFaults, recMarks>>

SnapshotRenamed(c, s, t) ==
  /\ Whole(c) /\ snapRow[c][s] # 0 /\ snapRow[c][t] = 0
  /\ snapRow' = [snapRow EXCEPT ![c][s] = 0, ![c][t] = snapRow[c][s]]
  /\ volRow' = (volRow \ {<<c, s>>}) \cup {<<c, t>>} /\ data' = (data \ {<<c, s>>}) \cup {<<c, t>>}
  /\ kept' = (kept \ {<<c, s>>}) \cup {<<c, t>>}
  /\ truth' = [truth EXCEPT ![<<c, s>>] = 0, ![<<c, t>>] = snapRow[c][s]] /\ RecMark({"snaprename"})
  /\ UNCHANGED <<poolRow, ctRow, yaml, thin, link, mounts, runs, rec, good, losses, recFaults>>

Moved(S, c, d) == {IF p[1] = c THEN <<d, p[2]>> ELSE p : p \in S}

\* Rename keeps the file, which has the old names in it.
RenameContainer(c, d) ==
  /\ Whole(c) /\ c \notin runs /\ ctRow[d] = 0 /\ data \cap ({d} \X Parts) = {} /\ volRow \cap ({d} \X Parts) = {}
  /\ ctRow' = [ctRow EXCEPT ![c] = 0, ![d] = ctRow[c]]
  /\ snapRow' = [snapRow EXCEPT ![c] = NoSnaps, ![d] = snapRow[c]]
  /\ volRow' = Moved(volRow, c, d) /\ data' = Moved(data, c, d) /\ kept' = Moved(kept, c, d) /\ link' = (link \ {c}) \cup {d}
  /\ yaml' = [yaml EXCEPT ![c] = NoYaml, ![d] = yaml[c]]
  /\ thin' = (thin \ {c, d}) \cup {x \in {d} : c \in thin}
  /\ truth' = [p \in Cts \X Parts |-> IF p[1] = d THEN truth[<<c, p[2]>>] ELSE IF p[1] = c THEN 0 ELSE truth[p]]
  /\ RecMark({"renamed"})
  /\ UNCHANGED <<poolRow, mounts, runs, rec, good, losses, recFaults>>

\* startCommon mounts the files and writes the file, or fails.
StartContainer(c) ==
  /\ Whole(c) /\ c \notin runs /\ c \in link /\ runs' = runs \cup {c}
  /\ yaml' = [yaml EXCEPT ![c] = BackupFile(c, ctRow[c], snapRow[c])] /\ thin' = thin \ {c}
  /\ UNCHANGED <<poolRow, ctRow, snapRow, volRow, data, link, mounts, truth, kept, rec, good, losses, recFaults, recMarks>>

StopContainer(c) ==
  /\ c \in runs /\ runs' = runs \ {c}
  /\ UNCHANGED <<poolRow, ctRow, snapRow, volRow, data, yaml, thin, link, mounts, truth, kept, rec, good, losses, recFaults, recMarks>>

\* Rows are lost, of a container alone or with the pool's, and maybe what
\* was under containers/.
LoseRows(c) ==
  /\ rec = NoRec /\ losses < MaxLosses /\ losses' = losses + 1 /\ <<c, "">> \in data
  /\ \E ct \in BOOLEAN, vols \in SUBSET volRow, snaps \in SUBSET Snaps, links \in {link, link \ {c}} :
       /\ vols \subseteq {c} \X Parts
       /\ volRow' = volRow \ vols /\ link' = links
       /\ ctRow' = [ctRow EXCEPT ![c] = IF ct THEN 0 ELSE @]
       /\ snapRow' = [snapRow EXCEPT ![c] = [s \in Snaps |-> IF s \in snaps THEN 0 ELSE @[s]]]
  /\ good' = good \ {c} /\ runs' = runs \ {c}
  /\ UNCHANGED <<poolRow, data, yaml, thin, mounts, truth, kept, rec, recFaults, recMarks>>

\* The whole database is lost, or what it holds of the pool.
LosePool ==
  /\ rec = NoRec /\ losses < MaxLosses /\ losses' = losses + 1
  /\ poolRow' = FALSE /\ volRow' = {} /\ ctRow' = [c \in Cts |-> 0] /\ snapRow' = [c \in Cts |-> NoSnaps]
  /\ good' = {} /\ runs' = {}
  /\ UNCHANGED <<data, yaml, thin, link, mounts, truth, kept, rec, recFaults, recMarks>>

-----------------------------------------------------------------------------
(* internalImport *)

\* The rows that stand in the way without --force: those of the container and
\* of the snapshots of backup.yaml that are on disk.
InTheWay(c) ==
  \/ <<c, "">> \in volRow \/ ctRow[c] # 0
  \/ \E s \in Snaps : yaml[c].snaps[s] # 0 /\ yaml[c].name = c /\ <<c, s>> \in data
                      /\ (snapRow[c][s] # 0 \/ <<c, s>> \in volRow)

\* Without a row of the pool the handler panics over the row it did not find.
ImportPanics(c) ==
  /\ rec = NoRec /\ <<c, "">> \in data /\ yaml[c] # NoYaml /\ ~poolRow /\ RecMark({"panic"})
  /\ UNCHANGED <<poolRow, ctRow, snapRow, volRow, data, yaml, thin, link, mounts, runs, truth, kept, rec, good, losses, recFaults>>

\* The user has mounted the files; backup.yaml is read once.
internalImport(c, force) ==
  /\ rec = NoRec /\ <<c, "">> \in data /\ yaml[c] # NoYaml
  /\ poolRow /\ (InTheWay(c) => force)
  /\ <<c, "">> \in volRow => yaml[c].name = c
  /\ rec' = [at |-> "rows", c |-> c, force |-> force, file |-> yaml[c],
             left |-> {s \in Snaps : <<c, s>> \in data}]
  /\ good' = good \ {c} /\ RecMark(IF c \in thin THEN {"thin"} ELSE {})
  /\ UNCHANGED <<poolRow, ctRow, snapRow, volRow, data, yaml, thin, link, mounts, runs, truth, kept, losses, recFaults>>

RemoveOld ==
  /\ rec.at = "rows"
  /\ \/ /\ volRow' = volRow \ {<<rec.c, "">>} /\ ctRow' = [ctRow EXCEPT ![rec.c] = 0]
        /\ rec' = [rec EXCEPT !.at = "create"] /\ UNCHANGED recFaults
     \/ /\ RecFault /\ volRow' \in {volRow, volRow \ {<<rec.c, "">>}} /\ rec' = NoRec /\ UNCHANGED ctRow
  /\ UNCHANGED <<poolRow, snapRow, data, yaml, thin, link, mounts, runs, truth, kept, good, losses, recMarks>>

\* containerMERCURY.Delete, as containerMERCURYCreate calls it when it fails:
\* the snapshots that have rows go with their files, and the container's files
\* once its volume row is made and the directory leads to them.
Undo(n, made) ==
  /\ data' = data \ (({n} \X {s \in Snaps : snapRow[n][s] # 0 /\ <<n, s>> \in volRow})
                     \cup (IF made /\ n \in link THEN {<<n, "">>} ELSE {}))
  /\ volRow' = volRow \ ({n} \X {s \in Snaps : snapRow[n][s] # 0})
  /\ snapRow' = [snapRow EXCEPT ![n] = NoSnaps]
  /\ RecMark({"undone"})

\* The keys a creation sets in the configuration, the id map and its base, are
\* updates of the container, and each writes backup.yaml: with the snapshots
\* that have rows by then.
ConfigKeySet(n, cfg) ==
  IF n \in link
  THEN /\ yaml' = [yaml EXCEPT ![n] = BackupFile(n, cfg, snapRow[n])]
       /\ thin' = IF \E s \in Snaps : <<n, s>> \in data /\ snapRow[n][s] = 0 THEN thin \cup {n} ELSE thin \ {n}
  ELSE UNCHANGED <<yaml, thin>>

\* containerCreateInternal with the name and the configuration of backup.yaml;
\* it may fail before the container has a row, after it, or once the keys are set.
ImportContainer ==
  /\ rec.at = "create"
  /\ LET n == rec.file.name IN
     \/ /\ ctRow[n] = 0 /\ <<n, "">> \notin volRow
        /\ ctRow' = [ctRow EXCEPT ![n] = rec.file.cfg] /\ volRow' = volRow \cup {<<n, "">>}
        /\ ConfigKeySet(n, rec.file.cfg)
        /\ rec' = [rec EXCEPT !.at = "snapshots"] /\ UNCHANGED <<snapRow, data, recMarks, recFaults>>
     \/ /\ ctRow[n] # 0 /\ rec' = NoRec /\ UNCHANGED <<ctRow, snapRow, volRow, data, yaml, thin, recMarks, recFaults>>
     \/ /\ ctRow[n] = 0 /\ RecFault /\ rec' = NoRec
        /\ \/ \E made \in BOOLEAN : Undo(n, made) /\ UNCHANGED <<yaml, thin>>
           \/ Undo(n, TRUE) /\ ConfigKeySet(n, rec.file.cfg)
           \/ UNCHANGED <<data, volRow, snapRow, yaml, thin, recMarks>>
        /\ UNCHANGED ctRow
     \/ /\ ctRow[n] = 0 /\ <<n, "">> \in volRow /\ rec' = NoRec /\ Undo(n, TRUE) /\ UNCHANGED <<ctRow, yaml, thin, recFaults>>
  /\ UNCHANGED <<poolRow, link, mounts, runs, truth, kept, good, losses>>

\* A snapshot that backup.yaml does not name gets the container's settings.
SnapCfg(c, s) ==
  IF rec.file.name = c /\ rec.file.snaps[s] # 0 THEN rec.file.snaps[s] ELSE rec.file.cfg

ImportSnapshot(s) ==
  /\ rec.at = "snapshots" /\ s \in rec.left
  /\ LET c == rec.c IN
     \/ /\ rec.force \/ (snapRow[c][s] = 0 /\ <<c, s>> \notin volRow)
        /\ snapRow' = [snapRow EXCEPT ![c][s] = SnapCfg(c, s)] /\ volRow' = volRow \cup {<<c, s>>}
        /\ rec' = [rec EXCEPT !.left = @ \ {s}] /\ UNCHANGED <<data, recMarks, recFaults>>
     \/ /\ ~rec.force /\ (snapRow[c][s] # 0 \/ <<c, s>> \in volRow)
        /\ rec' = NoRec /\ UNCHANGED <<snapRow, volRow, data, recMarks, recFaults>>
     \/ /\ RecFault /\ rec' = NoRec
        /\ \/ /\ snapRow' = [snapRow EXCEPT ![c][s] = 0] /\ volRow' = volRow \ {<<c, s>>}
              /\ data' = data \ {<<c, s>>} /\ RecMark({"undone"})
           \/ /\ snapRow' = [snapRow EXCEPT ![c][s] = 0] /\ volRow' \in {volRow, volRow \ {<<c, s>>}}
              /\ UNCHANGED <<data, recMarks>>
  /\ UNCHANGED <<poolRow, ctRow, yaml, thin, link, mounts, runs, truth, kept, good, losses>>

ImportEnds ==
  /\ rec.at = "snapshots" /\ rec.left = {} /\ rec' = NoRec /\ good' = good \cup {rec.c}
  /\ UNCHANGED <<poolRow, ctRow, snapRow, volRow, data, yaml, thin, link, mounts, runs, truth, kept, losses, recFaults, recMarks>>

RecoveryNext ==
  \/ \E c \in Cts :
       \/ \E g \in Cfgs : CreateContainer(c, g) \/ UpdateContainer(c, g)
       \/ \E s \in Snaps : SnapshotContainer(c, s) \/ SnapshotDeleted(c, s) \/ \E t \in Snaps : SnapshotRenamed(c, s, t)
       \/ \E d \in Cts : RenameContainer(c, d)
       \/ StartContainer(c) \/ StopContainer(c) \/ LoseRows(c) \/ ImportPanics(c)
       \/ \E force \in BOOLEAN : internalImport(c, force)
  \/ LosePool \/ RemoveOld \/ ImportContainer \/ ImportEnds
  \/ \E s \in Snaps : ImportSnapshot(s)

RecoverySpec == RecoveryInit /\ [][RecoveryNext]_recVars

-----------------------------------------------------------------------------
\* backup.yaml has what an import needs: whatever rows were lost, after an
\* import that ends well the container and every snapshot there is have rows
\* again, with the configuration they had, and no import loses files.  Except
\* after a rename, which keeps the old names in backup.yaml ("renamed",
\* "snaprename"), after changes made while the files were not mounted or
\* containers/ did not lead to them, which are not written there
\* ("unwritten"), after an import without the row of the pool, which panics
\* ("panic"), after the import of a container from the backup.yaml that an
\* earlier import wrote while a snapshot had no row ("thin"), and after an
\* import whose undoing deleted what it was to recover ("undone").
Recoverable ==
  /\ "undone" \notin recMarks => kept = data
  /\ recMarks = {} =>
       /\ \A c \in Cts : Whole(c) => yaml[c].name = c /\ (yaml[c].cfg = ctRow[c] \/ c \in good)
       /\ \A c \in good : rec = NoRec /\ <<c, "">> \in data =>
            /\ ctRow[c] = truth[<<c, "">>] /\ <<c, "">> \in volRow
            /\ \A s \in Snaps : /\ (<<c, s>> \in data) = (<<c, s>> \in volRow)
                                /\ snapRow[c][s] = truth[<<c, s>>]
=============================================================================
