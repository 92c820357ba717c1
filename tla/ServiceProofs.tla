---------------------------- MODULE ServiceProofs ----------------------------
(***************************************************************************)
(* That images, recovered containers, edited objects and the files of a    *)
(* container stay what the clients were told, for every number of          *)
(* requests, images, snapshots, clients and id maps.  Each part of Service *)
(* has its own inductive invariant, proved here part by part; at the end   *)
(* they are put together, a step of one part being a stutter of every      *)
(* other.                                                                  *)
(***************************************************************************)
EXTENDS Service, TLAPS

-----------------------------------------------------------------------------
-----------------------------------------------------------------------------
(* Containers brought back from backup.yaml (Recovery). *)

YamlFiles == [name : {""} \cup Cts, cfg : {0} \cup Cfgs, snaps : [Snaps -> {0} \cup Cfgs]]
RecStates == [at : {"idle", "rows", "create", "snapshots"}, c : {""} \cup Cts, force : BOOLEAN, file : YamlFiles,
              left : SUBSET Snaps]

RecTypeInv ==
  /\ ctRow \in [Cts -> {0} \cup Cfgs] /\ snapRow \in [Cts -> [Snaps -> {0} \cup Cfgs]]
  /\ truth \in [Cts \X Parts -> {0} \cup Cfgs]
  /\ yaml \in [Cts -> YamlFiles]
  /\ rec \in RecStates
  /\ rec.at # "idle" => rec.c \in Cts
  /\ rec.at = "idle" => rec = NoRec

\* Files of a container have a backup.yaml that names them and their last
\* configuration, unless an import wrote it too early; without files there is
\* no row and no configuration.
RecFilesInv(c) ==
  /\ <<c, "">> \in data => /\ yaml[c].name = c /\ yaml[c].cfg = truth[<<c, "">>] /\ yaml[c].cfg # 0
  /\ \A s \in Snaps : <<c, s>> \in data => /\ <<c, "">> \in data /\ truth[<<c, s>>] # 0
                                           /\ c \notin thin => yaml[c].snaps[s] = truth[<<c, s>>]
  /\ \A p \in Parts : <<c, p>> \notin data => truth[<<c, p>>] = 0 /\ <<c, p>> \notin volRow

\* What rows there are have the last configuration.
RecRowsInv(c) ==
  /\ ctRow[c] \in {0, truth[<<c, "">>]}
  /\ \A s \in Snaps : snapRow[c][s] \in {0, truth[<<c, s>>]}

\* All rows of c are there, but for the snapshots in S.
RecBack(c, S) ==
  /\ <<c, "">> \in data /\ <<c, "">> \in volRow /\ ctRow[c] = truth[<<c, "">>]
  /\ \A s \in Snaps : <<c, s>> \in data => s \in S \/ (<<c, s>> \in volRow /\ snapRow[c][s] = truth[<<c, s>>])

\* Only an import that has begun lacks rows of the snapshots it has left, and
\* the backup.yaml it read has all there was.
RecImportInv ==
  /\ \A c \in good : c \in Cts /\ RecBack(c, {}) /\ (rec.at # "idle" => c # rec.c)
  /\ rec.at # "idle" => /\ <<rec.c, "">> \in data
                        /\ \A s \in rec.left : <<rec.c, s>> \in data
                        /\ rec.file.name = rec.c /\ rec.file.cfg = truth[<<rec.c, "">>] /\ rec.file.cfg # 0
                        /\ \A s \in Snaps : <<rec.c, s>> \in data => rec.file.snaps[s] = truth[<<rec.c, s>>]
  /\ rec.at \in {"rows", "create"} => \A s \in Snaps : <<rec.c, s>> \in data => s \in rec.left
  /\ rec.at = "snapshots" => RecBack(rec.c, rec.left)

\* Once a mark is there the rows may differ from the files.
RecInv ==
  /\ "undone" \notin recMarks => kept = data
  /\ recMarks = {} => RecTypeInv /\ RecImportInv /\ \A c \in Cts : RecFilesInv(c) /\ RecRowsInv(c)

\* Marks stay, and no step but the undoing of an import changes the files and
\* not what is to be kept of them.
LEMMA RecDataKept ==
  ASSUME RecoveryNext PROVE recMarks \subseteq recMarks' /\ ("undone" \notin recMarks' /\ kept = data => kept' = data')
<1>1. ASSUME NEW c \in Cts, NEW g \in Cfgs, CreateContainer(c, g) PROVE recMarks \subseteq recMarks' /\ ("undone" \notin recMarks' /\ kept = data => kept' = data')
  BY <1>1 DEF CreateContainer
<1>2. ASSUME NEW c \in Cts, NEW g \in Cfgs, UpdateContainer(c, g) PROVE recMarks \subseteq recMarks' /\ ("undone" \notin recMarks' /\ kept = data => kept' = data')
  BY <1>2 DEF UpdateContainer, writeBackupFile, RecMark
<1>3. ASSUME NEW c \in Cts, NEW s \in Snaps, SnapshotContainer(c, s) PROVE recMarks \subseteq recMarks' /\ ("undone" \notin recMarks' /\ kept = data => kept' = data')
  BY <1>3 DEF SnapshotContainer, writeBackupFile, RecMark
<1>4. ASSUME NEW c \in Cts, NEW s \in Snaps, SnapshotDeleted(c, s) PROVE recMarks \subseteq recMarks' /\ ("undone" \notin recMarks' /\ kept = data => kept' = data')
  BY <1>4 DEF SnapshotDeleted
<1>5. ASSUME NEW c \in Cts, NEW s \in Snaps, NEW t \in Snaps, SnapshotRenamed(c, s, t) PROVE recMarks \subseteq recMarks' /\ ("undone" \notin recMarks' /\ kept = data => kept' = data')
  BY <1>5 DEF SnapshotRenamed, RecMark
<1>6. ASSUME NEW c \in Cts, NEW d \in Cts, RenameContainer(c, d) PROVE recMarks \subseteq recMarks' /\ ("undone" \notin recMarks' /\ kept = data => kept' = data')
  BY <1>6 DEF RenameContainer, RecMark
<1>7. ASSUME NEW c \in Cts, StartContainer(c) PROVE recMarks \subseteq recMarks' /\ ("undone" \notin recMarks' /\ kept = data => kept' = data')
  BY <1>7 DEF StartContainer
<1>8. ASSUME NEW c \in Cts, StopContainer(c) PROVE recMarks \subseteq recMarks' /\ ("undone" \notin recMarks' /\ kept = data => kept' = data')
  BY <1>8 DEF StopContainer
<1>9. ASSUME NEW c \in Cts, LoseRows(c) PROVE recMarks \subseteq recMarks' /\ ("undone" \notin recMarks' /\ kept = data => kept' = data')
  BY <1>9 DEF LoseRows
<1>10. ASSUME NEW c \in Cts, ImportPanics(c) PROVE recMarks \subseteq recMarks' /\ ("undone" \notin recMarks' /\ kept = data => kept' = data')
  BY <1>10 DEF ImportPanics, RecMark
<1>11. ASSUME NEW c \in Cts, NEW force \in BOOLEAN, internalImport(c, force) PROVE recMarks \subseteq recMarks' /\ ("undone" \notin recMarks' /\ kept = data => kept' = data')
  BY <1>11 DEF internalImport, RecMark
<1>12. ASSUME LosePool PROVE recMarks \subseteq recMarks' /\ ("undone" \notin recMarks' /\ kept = data => kept' = data')
  BY <1>12 DEF LosePool
<1>13. ASSUME RemoveOld PROVE recMarks \subseteq recMarks' /\ ("undone" \notin recMarks' /\ kept = data => kept' = data')
  BY <1>13 DEF RemoveOld
<1>14. ASSUME ImportContainer PROVE recMarks \subseteq recMarks' /\ ("undone" \notin recMarks' /\ kept = data => kept' = data')
  BY <1>14 DEF ImportContainer, Undo, RecMark
<1>15. ASSUME ImportEnds PROVE recMarks \subseteq recMarks' /\ ("undone" \notin recMarks' /\ kept = data => kept' = data')
  BY <1>15 DEF ImportEnds
<1>16. ASSUME NEW s \in Snaps, ImportSnapshot(s) PROVE recMarks \subseteq recMarks' /\ ("undone" \notin recMarks' /\ kept = data => kept' = data')
  BY <1>16 DEF ImportSnapshot, RecMark
<1> QED  BY <1>1, <1>2, <1>3, <1>4, <1>5, <1>6, <1>7, <1>8, <1>9, <1>10, <1>11, <1>12, <1>13, <1>14, <1>15, <1>16 DEF RecoveryNext

\* What the files and rows of one container say depends on these alone.
LEMMA RecSame ==
  ASSUME NEW c \in Cts, RecFilesInv(c), RecRowsInv(c), yaml'[c] = yaml[c], c \in thin => c \in thin', ctRow'[c] = ctRow[c], snapRow'[c] = snapRow[c],
         \A p \in Parts : /\ truth'[<<c, p>>] = truth[<<c, p>>]
                          /\ <<c, p>> \in data' <=> <<c, p>> \in data
                          /\ <<c, p>> \in volRow' => <<c, p>> \in volRow
  PROVE  RecFilesInv(c)' /\ RecRowsInv(c)'
BY DEF RecFilesInv, RecRowsInv, Parts

\* So do the imports that have ended well.
LEMMA RecSameGood ==
  ASSUME RecTypeInv, RecImportInv, good' \subseteq good, rec'.at = "idle" \/ rec'.c \notin good',
         \A c \in good' : /\ ctRow'[c] = ctRow[c] /\ snapRow'[c] = snapRow[c]
                          /\ \A p \in Parts : /\ truth'[<<c, p>>] = truth[<<c, p>>]
                                              /\ <<c, p>> \in data' <=> <<c, p>> \in data
                                              /\ <<c, p>> \in volRow' <=> <<c, p>> \in volRow
  PROVE  \A c \in good' : c \in Cts /\ RecBack(c, {})' /\ (rec'.at # "idle" => c # rec'.c)
<1> TAKE c \in good'
<1>1. c \in good /\ c \in Cts /\ RecBack(c, {})  BY DEF RecImportInv
<1>2. RecBack(c, {})'  BY <1>1 DEF RecBack, Parts
<1> QED  BY <1>1, <1>2

\* What holds while there is no mark.
RecClean == RecTypeInv /\ RecImportInv /\ \A c \in Cts : RecFilesInv(c) /\ RecRowsInv(c)

LEMMA RecAtRest == NoRec \in RecStates /\ NoRec.at = "idle"
BY DEF NoRec, NoYaml, RecStates, YamlFiles

LEMMA RecCleanNext == ASSUME RecClean, RecoveryNext, recMarks = {}, recMarks' = {} PROVE RecClean'
<1> USE RecoveryAssumption
<1>1. ASSUME NEW c \in Cts, NEW g \in Cfgs, CreateContainer(c, g) PROVE RecClean'
  <2>1. /\ rec = NoRec /\ rec' = rec /\ good' = good /\ g # 0
        /\ \A p \in Parts : <<c, p>> \notin data /\ <<c, p>> \notin volRow
        /\ ctRow' = [ctRow EXCEPT ![c] = g] /\ snapRow' = snapRow
        /\ volRow' = volRow \cup {<<c, "">>} /\ data' = data \cup {<<c, "">>}
        /\ yaml' = [yaml EXCEPT ![c] = BackupFile(c, g, NoSnaps)] /\ thin' = thin \ {c}
        /\ truth' = [truth EXCEPT ![<<c, "">>] = g]
    <3>1. \A p \in Parts : <<c, p>> \in {c} \X Parts  OBVIOUS
    <3>2. \A p \in Parts : <<c, p>> \notin data /\ <<c, p>> \notin volRow
      BY <1>1, <3>1 DEF CreateContainer
    <3> QED  BY <1>1, <3>2 DEF CreateContainer
  <2>5. <<c, "">> \notin data  BY <2>1 DEF Parts
  <2>2. RecTypeInv'
    <3>1. BackupFile(c, g, NoSnaps) \in YamlFiles
      BY DEF YamlFiles, BackupFile, NoSnaps
    <3> QED  BY <2>1, <3>1 DEF RecClean, RecTypeInv, Parts
  <2>3. ASSUME NEW x \in Cts PROVE RecFilesInv(x)' /\ RecRowsInv(x)'
    <3>1. RecFilesInv(x) /\ RecRowsInv(x)  BY DEF RecClean
    <3>2. CASE x # c
      <4>1. /\ yaml'[x] = yaml[x] /\ ctRow'[x] = ctRow[x] /\ snapRow'[x] = snapRow[x]
            /\ \A p \in Parts : /\ truth'[<<x, p>>] = truth[<<x, p>>]
                                /\ <<x, p>> \in data' <=> <<x, p>> \in data
                                /\ <<x, p>> \in volRow' => <<x, p>> \in volRow
        BY <2>1, <3>2 DEF RecClean, RecTypeInv
      <4> QED  BY <2>1, <3>1, <3>2, <4>1, RecSame
    <3>3. CASE x = c
      <4>1. yaml'[c].name = c /\ yaml'[c].cfg = g /\ ctRow'[c] = g /\ truth'[<<c, "">>] = g
        BY <2>1 DEF RecClean, RecTypeInv, BackupFile, Parts
      <4>2. \A s \in Snaps : /\ <<c, s>> \notin data' /\ <<c, s>> \notin volRow' /\ truth'[<<c, s>>] = 0 /\ snapRow'[c][s] = 0
        <5> TAKE s \in Snaps
        <5>1. s \in Parts /\ s # ""  BY DEF Parts
        <5>2. truth[<<c, s>>] = 0 /\ snapRow[c][s] = 0  BY <2>1, <3>1, <3>3, <5>1 DEF RecFilesInv, RecRowsInv
        <5>3. truth'[<<c, s>>] = truth[<<c, s>>]  BY <2>1, <5>1 DEF RecClean, RecTypeInv
        <5> QED  BY <2>1, <5>1, <5>2, <5>3
      <4>3. <<c, "">> \in data'  BY <2>1
      <4> QED  BY <2>1, <3>3, <4>1, <4>2, <4>3 DEF RecFilesInv, RecRowsInv, Parts
    <3> QED  BY <3>2, <3>3
  <2>4. RecImportInv'
    <3>1. c \notin good  BY <2>1, <2>5 DEF RecClean, RecImportInv, RecBack
    <3>2. rec.at = "idle" /\ rec'.at = "idle"  BY <2>1 DEF NoRec
    <3>3. \A x \in good' : /\ ctRow'[x] = ctRow[x] /\ snapRow'[x] = snapRow[x]
                           /\ \A p \in Parts : /\ truth'[<<x, p>>] = truth[<<x, p>>]
                                               /\ <<x, p>> \in data' <=> <<x, p>> \in data
                                               /\ <<x, p>> \in volRow' <=> <<x, p>> \in volRow
      BY <2>1, <3>1 DEF RecClean, RecTypeInv, RecImportInv
    <3>4. \A x \in good' : x \in Cts /\ RecBack(x, {})' /\ (rec'.at # "idle" => x # rec'.c)
      BY <2>1, <3>2, <3>3, RecSameGood DEF RecClean
    <3> QED  BY <3>2, <3>4 DEF RecImportInv
  <2> QED  BY <2>2, <2>3, <2>4 DEF RecClean
<1>2. ASSUME NEW c \in Cts, NEW g \in Cfgs, UpdateContainer(c, g) PROVE RecClean'
  <2>1. /\ rec = NoRec /\ rec' = rec /\ good' = good /\ g # 0
        /\ <<c, "">> \in data /\ <<c, "">> \in volRow /\ ctRow' = [ctRow EXCEPT ![c] = g] /\ snapRow' = snapRow
        /\ volRow' = volRow /\ data' = data
        /\ yaml' = [yaml EXCEPT ![c] = BackupFile(c, g, snapRow[c])] /\ thin' = thin \ {c}
        /\ truth' = [truth EXCEPT ![<<c, "">>] = g]
        /\ \A s \in Snaps : <<c, s>> \in data => snapRow[c][s] # 0
    BY <1>2 DEF UpdateContainer, Whole, writeBackupFile, RecMark
  <2>2. RecTypeInv'
    <3>1. BackupFile(c, g, snapRow[c]) \in YamlFiles
      BY DEF YamlFiles, BackupFile, RecClean, RecTypeInv
    <3> QED  BY <2>1, <3>1 DEF RecClean, RecTypeInv, Parts
  <2>3. ASSUME NEW x \in Cts PROVE RecFilesInv(x)' /\ RecRowsInv(x)'
    <3>1. RecFilesInv(x) /\ RecRowsInv(x)  BY DEF RecClean
    <3>2. CASE x # c
      <4>1. /\ yaml'[x] = yaml[x] /\ ctRow'[x] = ctRow[x] /\ snapRow'[x] = snapRow[x]
            /\ \A p \in Parts : /\ truth'[<<x, p>>] = truth[<<x, p>>]
                                /\ <<x, p>> \in data' <=> <<x, p>> \in data
                                /\ <<x, p>> \in volRow' => <<x, p>> \in volRow
        BY <2>1, <3>2 DEF RecClean, RecTypeInv
      <4> QED  BY <2>1, <3>1, <3>2, <4>1, RecSame
    <3>3. CASE x = c
      <4>1. /\ yaml'[c].name = c /\ yaml'[c].cfg = g /\ yaml'[c].snaps = snapRow[c]
            /\ ctRow'[c] = g /\ truth'[<<c, "">>] = g
        BY <2>1 DEF RecClean, RecTypeInv, BackupFile, Parts
      <4>2. \A s \in Snaps : truth'[<<c, s>>] = truth[<<c, s>>]
        BY <2>1 DEF RecClean, RecTypeInv, Parts
      <4>3. RecRowsInv(c)'  BY <2>1, <3>1, <3>3, <4>1, <4>2 DEF RecRowsInv
      <4>4. \A s \in Snaps : <<c, s>> \in data => snapRow[c][s] = truth[<<c, s>>]
        BY <2>1, <3>1, <3>3 DEF RecRowsInv
      <4>5. \A p \in Parts : <<c, p>> \notin data' => truth'[<<c, p>>] = 0 /\ <<c, p>> \notin volRow'
        BY <2>1, <3>1, <3>3, <4>2 DEF RecFilesInv, Parts
      <4>6. ASSUME NEW s \in Snaps, <<c, s>> \in data'
            PROVE  <<c, "">> \in data' /\ truth'[<<c, s>>] # 0 /\ yaml'[c].snaps[s] = truth'[<<c, s>>]
        BY <2>1, <4>1, <4>2, <4>4, <4>6
      <4>7. RecFilesInv(c)'  BY <2>1, <4>1, <4>5, <4>6 DEF RecFilesInv
      <4> QED  BY <3>3, <4>3, <4>7
    <3> QED  BY <3>2, <3>3
  <2>4. RecImportInv'
    <3>2. rec.at = "idle" /\ rec'.at = "idle"  BY <2>1 DEF NoRec
    <3>3. ASSUME NEW x \in good' PROVE x \in Cts /\ RecBack(x, {})'
      <4>1. x \in Cts /\ RecBack(x, {})  BY <2>1 DEF RecClean, RecImportInv
      <4>2. ctRow'[x] = truth'[<<x, "">>] /\ \A s \in Snaps : truth'[<<x, s>>] = truth[<<x, s>>]
        BY <2>1, <4>1 DEF RecClean, RecTypeInv, RecBack, Parts
      <4> QED  BY <2>1, <4>1, <4>2 DEF RecBack
    <3> QED  BY <3>2, <3>3 DEF RecImportInv
  <2> QED  BY <2>2, <2>3, <2>4 DEF RecClean
<1>3. ASSUME NEW c \in Cts, NEW s \in Snaps, SnapshotContainer(c, s) PROVE RecClean'
  <2> PICK g \in {0} \cup Cfgs : g = ctRow[c]  BY DEF RecClean, RecTypeInv
  <2>1. /\ rec = NoRec /\ rec' = rec /\ good' = good /\ g # 0
        /\ <<c, "">> \in data /\ <<c, "">> \in volRow /\ ctRow' = ctRow /\ snapRow' = [snapRow EXCEPT ![c][s] = g]
        /\ snapRow[c][s] = 0
        /\ volRow' = volRow \cup {<<c, s>>} /\ data' = data \cup {<<c, s>>}
        /\ yaml' = [yaml EXCEPT ![c] = BackupFile(c, g, snapRow'[c])] /\ thin' = thin \ {c}
        /\ truth' = [truth EXCEPT ![<<c, s>>] = g]
        /\ \A t \in Snaps : <<c, t>> \in data => snapRow[c][t] # 0
    BY <1>3 DEF SnapshotContainer, Whole, writeBackupFile, RecMark
  <2>6. /\ snapRow' \in [Cts -> [Snaps -> {0} \cup Cfgs]] /\ snapRow'[c] = [snapRow[c] EXCEPT ![s] = g]
        /\ truth' \in [Cts \X Parts -> {0} \cup Cfgs]
    BY <2>1 DEF RecClean, RecTypeInv, Parts
  <2>2. RecTypeInv'
    <3>1. BackupFile(c, g, snapRow'[c]) \in YamlFiles
      BY <2>6 DEF YamlFiles, BackupFile, RecClean, RecTypeInv
    <3> QED  BY <2>1, <2>6, <3>1 DEF RecClean, RecTypeInv
  <2>3. ASSUME NEW x \in Cts PROVE RecFilesInv(x)' /\ RecRowsInv(x)'
    <3>1. RecFilesInv(x) /\ RecRowsInv(x)  BY DEF RecClean
    <3>2. CASE x # c
      <4>1. /\ yaml'[x] = yaml[x] /\ ctRow'[x] = ctRow[x] /\ snapRow'[x] = snapRow[x]
            /\ \A p \in Parts : /\ truth'[<<x, p>>] = truth[<<x, p>>]
                                /\ <<x, p>> \in data' <=> <<x, p>> \in data
                                /\ <<x, p>> \in volRow' => <<x, p>> \in volRow
        BY <2>1, <3>2 DEF RecClean, RecTypeInv
      <4> QED  BY <2>1, <3>1, <3>2, <4>1, RecSame
    <3>3. CASE x = c
      <4>1. /\ yaml'[c].name = c /\ yaml'[c].cfg = g /\ yaml'[c].snaps = snapRow'[c]
            /\ truth'[<<c, "">>] = truth[<<c, "">>] /\ truth'[<<c, s>>] = g /\ snapRow'[c][s] = g
        BY <2>1, <2>6 DEF RecClean, RecTypeInv, BackupFile, Parts
      <4>2. \A t \in Snaps \ {s} : truth'[<<c, t>>] = truth[<<c, t>>] /\ snapRow'[c][t] = snapRow[c][t]
        <5> TAKE t \in Snaps \ {s}
        <5>1. <<c, t>> # <<c, s>> /\ <<c, t>> \in Cts \X Parts  BY DEF Parts
        <5> QED  BY <2>1, <2>6, <5>1 DEF RecClean, RecTypeInv
      <4>3. RecRowsInv(c)'  BY <2>1, <3>1, <3>3, <4>1, <4>2 DEF RecRowsInv
      <4>4. ASSUME NEW p \in Parts, <<c, p>> \notin data' PROVE truth'[<<c, p>>] = 0 /\ <<c, p>> \notin volRow'
        <5>1. p # s /\ p # "" /\ <<c, p>> \notin data  BY <2>1, <4>4
        <5> QED  BY <2>1, <3>1, <3>3, <4>2, <5>1 DEF RecFilesInv, Parts
      <4>5. ASSUME NEW t \in Snaps, <<c, t>> \in data' PROVE truth'[<<c, t>>] # 0 /\ yaml'[c].snaps[t] = truth'[<<c, t>>]
        <5>1. CASE t = s  BY <2>1, <4>1, <5>1
        <5>2. CASE t # s
          <6>1. <<c, t>> \in data /\ snapRow[c][t] # 0  BY <2>1, <4>5, <5>2
          <6>2. snapRow[c][t] = truth[<<c, t>>]  BY <3>1, <3>3, <6>1 DEF RecRowsInv
          <6>3. truth[<<c, t>>] # 0  BY <6>1, <6>2
          <6> QED  BY <4>1, <4>2, <5>2, <6>2, <6>3
        <5> QED  BY <5>1, <5>2
      <4>6. yaml'[c].cfg = truth'[<<c, "">>] /\ yaml'[c].cfg # 0
        BY <2>1, <3>1, <3>3, <4>1 DEF RecFilesInv, RecRowsInv
      <4>7. RecFilesInv(c)'  BY <2>1, <4>1, <4>4, <4>5, <4>6 DEF RecFilesInv
      <4> QED  BY <3>3, <4>3, <4>7
    <3> QED  BY <3>2, <3>3
  <2>4. RecImportInv'
    <3>2. rec.at = "idle" /\ rec'.at = "idle"  BY <2>1 DEF NoRec
    <3>3. ASSUME NEW x \in good' PROVE x \in Cts /\ RecBack(x, {})'
      <4>1. x \in Cts /\ RecBack(x, {})  BY <2>1 DEF RecClean, RecImportInv
      <4>2. truth'[<<x, "">>] = truth[<<x, "">>]
        BY <2>1, <4>1 DEF RecClean, RecTypeInv, Parts
      <4>3. ASSUME NEW t \in Snaps, <<x, t>> \in data' PROVE <<x, t>> \in volRow' /\ snapRow'[x][t] = truth'[<<x, t>>]
        <5>1. CASE x = c /\ t = s
          <6>1. <<c, s>> \in Cts \X Parts  BY DEF Parts
          <6>2. truth'[<<c, s>>] = g /\ snapRow'[c][s] = g  BY <2>1, <2>6, <6>1 DEF RecClean, RecTypeInv
          <6> QED  BY <2>1, <5>1, <6>2
        <5>2. CASE ~(x = c /\ t = s)
          <6>1. <<x, t>> \in data  BY <2>1, <4>3, <5>2
          <6>2. snapRow'[x][t] = snapRow[x][t] /\ truth'[<<x, t>>] = truth[<<x, t>>]
            BY <2>1, <2>6, <4>1, <5>2 DEF RecClean, RecTypeInv, Parts
          <6> QED  BY <2>1, <4>1, <6>1, <6>2 DEF RecBack
        <5> QED  BY <5>1, <5>2
      <4> QED  BY <2>1, <4>1, <4>2, <4>3 DEF RecBack
    <3> QED  BY <3>2, <3>3 DEF RecImportInv
  <2> QED  BY <2>2, <2>3, <2>4 DEF RecClean
<1>4. ASSUME NEW c \in Cts, NEW s \in Snaps, SnapshotDeleted(c, s) PROVE RecClean'
  <2>1. /\ rec = NoRec /\ rec' = rec /\ good' = good /\ ctRow' = ctRow /\ snapRow' = [snapRow EXCEPT ![c][s] = 0]
        /\ volRow' = volRow \ {<<c, s>>} /\ data' = data \ {<<c, s>>} /\ yaml' = yaml /\ thin' = thin
        /\ truth' = [truth EXCEPT ![<<c, s>>] = 0]
    BY <1>4 DEF SnapshotDeleted, Whole
  <2>6. /\ snapRow' \in [Cts -> [Snaps -> {0} \cup Cfgs]] /\ snapRow'[c] = [snapRow[c] EXCEPT ![s] = 0]
        /\ truth' \in [Cts \X Parts -> {0} \cup Cfgs]
    BY <2>1 DEF RecClean, RecTypeInv, Parts
  <2>2. RecTypeInv'  BY <2>1, <2>6 DEF RecClean, RecTypeInv
  <2>5. ASSUME NEW x \in Cts, NEW p \in Parts, <<x, p>> # <<c, s>>
        PROVE  /\ truth'[<<x, p>>] = truth[<<x, p>>]
               /\ <<x, p>> \in data' <=> <<x, p>> \in data
               /\ <<x, p>> \in volRow' <=> <<x, p>> \in volRow
               /\ p \in Snaps => snapRow'[x][p] = snapRow[x][p]
    BY <2>1, <2>5, <2>6 DEF RecClean, RecTypeInv
  <2>7. /\ truth'[<<c, s>>] = 0 /\ <<c, s>> \notin data' /\ <<c, s>> \notin volRow' /\ snapRow'[c][s] = 0
    <3>1. <<c, s>> \in Cts \X Parts  BY DEF Parts
    <3> QED  BY <2>1, <2>6, <3>1 DEF RecClean, RecTypeInv
  <2>3. ASSUME NEW x \in Cts PROVE RecFilesInv(x)' /\ RecRowsInv(x)'
    <3>1. RecFilesInv(x) /\ RecRowsInv(x)  BY DEF RecClean
    <3>2. CASE x # c
      <4>1. \A p \in Parts : <<x, p>> # <<c, s>>  BY <3>2
      <4>2. snapRow'[x] = snapRow[x]  BY <2>1, <3>2 DEF RecClean, RecTypeInv
      <4> QED  BY <2>1, <2>5, <3>1, <4>1, <4>2, RecSame
    <3>3. CASE x = c
      <4>1. \A p \in Parts \ {s} : <<c, p>> # <<c, s>>  OBVIOUS
      <4>2. "" \in Parts \ {s} /\ \A t \in Snaps : t \in Parts  BY DEF Parts
      <4>3. RecRowsInv(c)'  BY <2>1, <2>5, <2>7, <3>1, <3>3, <4>1, <4>2 DEF RecRowsInv
      <4>5. ASSUME NEW t \in Snaps, <<c, t>> \in data'
            PROVE  <<c, "">> \in data' /\ truth'[<<c, t>>] # 0 /\ (c \notin thin' => yaml'[c].snaps[t] = truth'[<<c, t>>])
        <5>1. t # s /\ "" # s  BY <2>7, <4>2, <4>5
        <5> QED  BY <2>1, <2>5, <3>1, <3>3, <4>2, <4>5, <5>1 DEF RecFilesInv
      <4>6. <<c, "">> \in data' => yaml'[c].name = c /\ yaml'[c].cfg = truth'[<<c, "">>] /\ yaml'[c].cfg # 0
        BY <2>1, <2>5, <3>1, <3>3, <4>1, <4>2 DEF RecFilesInv
      <4>7. \A p \in Parts : <<c, p>> \notin data' => truth'[<<c, p>>] = 0 /\ <<c, p>> \notin volRow'
        BY <2>1, <2>5, <2>7, <3>1, <3>3, <4>1 DEF RecFilesInv
      <4>4. RecFilesInv(c)'  BY <4>5, <4>6, <4>7 DEF RecFilesInv
      <4> QED  BY <3>3, <4>3, <4>4
    <3> QED  BY <3>2, <3>3
  <2>4. RecImportInv'
    <3>2. rec.at = "idle" /\ rec'.at = "idle"  BY <2>1 DEF NoRec
    <3>3. ASSUME NEW x \in good' PROVE x \in Cts /\ RecBack(x, {})'
      <4>1. x \in Cts /\ RecBack(x, {})  BY <2>1 DEF RecClean, RecImportInv
      <4>2. "" \in Parts /\ <<x, "">> # <<c, s>> /\ \A t \in Snaps : t \in Parts  BY DEF Parts
      <4>3. ASSUME NEW t \in Snaps, <<x, t>> \in data' PROVE <<x, t>> \in volRow' /\ snapRow'[x][t] = truth'[<<x, t>>]
        <5>1. <<x, t>> # <<c, s>>  BY <2>7, <4>3
        <5> QED  BY <2>5, <4>1, <4>2, <4>3, <5>1 DEF RecBack
      <4> QED  BY <2>1, <2>5, <4>1, <4>2, <4>3 DEF RecBack
    <3> QED  BY <3>2, <3>3 DEF RecImportInv
  <2> QED  BY <2>2, <2>3, <2>4 DEF RecClean
<1>5. ASSUME NEW c \in Cts, NEW s \in Snaps, NEW t \in Snaps, SnapshotRenamed(c, s, t) PROVE RecClean'
  BY <1>5 DEF SnapshotRenamed, RecMark
<1>6. ASSUME NEW c \in Cts, NEW d \in Cts, RenameContainer(c, d) PROVE RecClean'
  BY <1>6 DEF RenameContainer, RecMark
<1>7. ASSUME NEW c \in Cts, StartContainer(c) PROVE RecClean'
  <2>1. /\ rec = NoRec /\ rec' = rec /\ good' = good /\ ctRow' = ctRow /\ snapRow' = snapRow
        /\ volRow' = volRow /\ data' = data /\ truth' = truth
        /\ yaml' = [yaml EXCEPT ![c] = BackupFile(c, ctRow[c], snapRow[c])] /\ thin' = thin \ {c}
        /\ ctRow[c] # 0 /\ \A s \in Snaps : <<c, s>> \in data => snapRow[c][s] # 0
    BY <1>7 DEF StartContainer, Whole
  <2>2. RecTypeInv'
    <3>1. BackupFile(c, ctRow[c], snapRow[c]) \in YamlFiles
      BY DEF YamlFiles, BackupFile, RecClean, RecTypeInv
    <3> QED  BY <2>1, <3>1 DEF RecClean, RecTypeInv
  <2>3. ASSUME NEW x \in Cts PROVE RecFilesInv(x)' /\ RecRowsInv(x)'
    <3>1. RecFilesInv(x) /\ RecRowsInv(x)  BY DEF RecClean
    <3>2. CASE x # c
      <4>1. /\ yaml'[x] = yaml[x] /\ ctRow'[x] = ctRow[x] /\ snapRow'[x] = snapRow[x]
            /\ \A p \in Parts : /\ truth'[<<x, p>>] = truth[<<x, p>>]
                                /\ <<x, p>> \in data' <=> <<x, p>> \in data
                                /\ <<x, p>> \in volRow' => <<x, p>> \in volRow
        BY <2>1, <3>2 DEF RecClean, RecTypeInv
      <4> QED  BY <2>1, <3>1, <3>2, <4>1, RecSame
    <3>3. CASE x = c
      <4>1. yaml'[c].name = c /\ yaml'[c].cfg = ctRow[c] /\ yaml'[c].snaps = snapRow[c]
        BY <2>1 DEF RecClean, RecTypeInv, BackupFile
      <4>2. ctRow[c] = truth[<<c, "">>] /\ \A s \in Snaps : <<c, s>> \in data => snapRow[c][s] = truth[<<c, s>>]
        BY <2>1, <3>1, <3>3 DEF RecRowsInv
      <4>3. RecRowsInv(c)'  BY <2>1, <3>1, <3>3 DEF RecRowsInv
      <4>4. RecFilesInv(c)'  BY <2>1, <3>1, <3>3, <4>1, <4>2 DEF RecFilesInv
      <4> QED  BY <3>3, <4>3, <4>4
    <3> QED  BY <3>2, <3>3
  <2>4. RecImportInv'  BY <2>1 DEF RecClean, RecImportInv, RecBack, NoRec
  <2> QED  BY <2>2, <2>3, <2>4 DEF RecClean
<1>8. ASSUME NEW c \in Cts, StopContainer(c) PROVE RecClean'
  <2>1. UNCHANGED <<ctRow, snapRow, volRow, data, truth, yaml, thin, rec, good>>  BY <1>8 DEF StopContainer
  <2>2. RecTypeInv'  BY <2>1 DEF RecClean, RecTypeInv
  <2>3. \A x \in Cts : RecFilesInv(x)' /\ RecRowsInv(x)'  BY <2>1, RecSame DEF RecClean
  <2>4. RecImportInv'  BY <2>1 DEF RecClean, RecImportInv, RecBack
  <2> QED  BY <2>2, <2>3, <2>4 DEF RecClean
<1>9. ASSUME NEW c \in Cts, LoseRows(c) PROVE RecClean'
  <2> PICK snaps \in SUBSET Snaps :
        /\ rec = NoRec /\ rec' = rec /\ good' = good \ {c} /\ data' = data /\ truth' = truth /\ yaml' = yaml /\ thin' = thin
        /\ snapRow' = [snapRow EXCEPT ![c] = [s \in Snaps |-> IF s \in snaps THEN 0 ELSE @[s]]]
        /\ \E ct \in BOOLEAN : ctRow' = [ctRow EXCEPT ![c] = IF ct THEN 0 ELSE @]
        /\ \E vols : vols \subseteq {c} \X Parts /\ volRow' = volRow \ vols
    BY <1>9 DEF LoseRows
  <2>1. /\ ctRow' \in [Cts -> {0} \cup Cfgs] /\ ctRow'[c] \in {0, ctRow[c]}
        /\ \A x \in Cts \ {c} : ctRow'[x] = ctRow[x]
    <3> PICK ct \in BOOLEAN : ctRow' = [ctRow EXCEPT ![c] = IF ct THEN 0 ELSE @]  OBVIOUS
    <3> QED  BY DEF RecClean, RecTypeInv
  <2>5. /\ snapRow' \in [Cts -> [Snaps -> {0} \cup Cfgs]] /\ \A s \in Snaps : snapRow'[c][s] \in {0, snapRow[c][s]}
        /\ \A x \in Cts \ {c} : snapRow'[x] = snapRow[x]
    <3> PICK f : f = [s \in Snaps |-> IF s \in snaps THEN 0 ELSE snapRow[c][s]]  OBVIOUS
    <3>1. snapRow \in [Cts -> [Snaps -> {0} \cup Cfgs]] /\ snapRow[c] \in [Snaps -> {0} \cup Cfgs]
      BY DEF RecClean, RecTypeInv
    <3>2. f \in [Snaps -> {0} \cup Cfgs] /\ \A s \in Snaps : f[s] \in {0, snapRow[c][s]}
      BY <3>1
    <3>3. snapRow' = [snapRow EXCEPT ![c] = f]  OBVIOUS
    <3>4. snapRow'[c] = f /\ \A x \in Cts \ {c} : snapRow'[x] = snapRow[x]  BY <3>1, <3>3
    <3>5. snapRow' \in [Cts -> [Snaps -> {0} \cup Cfgs]]  BY <3>1, <3>2, <3>3
    <3> QED  BY <3>2, <3>4, <3>5
  <2>6. volRow' \subseteq volRow /\ \A x \in Cts \ {c}, p \in Parts : <<x, p>> \in volRow' <=> <<x, p>> \in volRow
    OBVIOUS
  <2>2. RecTypeInv'  BY <2>1, <2>5 DEF RecClean, RecTypeInv
  <2>3. ASSUME NEW x \in Cts PROVE RecFilesInv(x)' /\ RecRowsInv(x)'
    <3>1. RecFilesInv(x) /\ RecRowsInv(x)  BY DEF RecClean
    <3>2. RecFilesInv(x)'  BY <2>6, <3>1 DEF RecFilesInv
    <3>3. RecRowsInv(x)'
      <4>1. CASE x # c  BY <2>1, <2>5, <3>1, <4>1 DEF RecRowsInv
      <4>2. CASE x = c  BY <2>1, <2>5, <3>1, <4>2 DEF RecRowsInv
      <4> QED  BY <4>1, <4>2
    <3> QED  BY <3>2, <3>3
  <2>4. RecImportInv'
    <3>2. rec.at = "idle" /\ rec'.at = "idle"  BY DEF NoRec
    <3>3. \A x \in good' : x \in Cts \ {c}  BY DEF RecClean, RecImportInv
    <3>4. \A x \in good' : x \in Cts /\ RecBack(x, {})' /\ (rec'.at # "idle" => x # rec'.c)
      BY <2>1, <2>5, <2>6, <3>2, <3>3, RecSameGood DEF RecClean
    <3> QED  BY <3>2, <3>4 DEF RecImportInv
  <2> QED  BY <2>2, <2>3, <2>4 DEF RecClean
<1>10. ASSUME NEW c \in Cts, ImportPanics(c) PROVE RecClean'
  BY <1>10 DEF ImportPanics, RecMark
<1>11. ASSUME NEW c \in Cts, NEW force \in BOOLEAN, internalImport(c, force) PROVE RecClean'
  <2>1. /\ rec = NoRec /\ rec' = [at |-> "rows", c |-> c, force |-> force, file |-> yaml[c], left |-> {s \in Snaps : <<c, s>> \in data}]
        /\ good' = good \ {c} /\ <<c, "">> \in data /\ c \notin thin
        /\ UNCHANGED <<ctRow, snapRow, volRow, data, truth, yaml, thin>>
    BY <1>11 DEF internalImport, RecMark
  <2>2. RecTypeInv'
    <3>1. rec' \in RecStates  BY <2>1 DEF RecClean, RecTypeInv, RecStates
    <3> QED  BY <2>1, <3>1 DEF RecClean, RecTypeInv
  <2>3. \A x \in Cts : RecFilesInv(x)' /\ RecRowsInv(x)'  BY <2>1, RecSame DEF RecClean
  <2>4. RecImportInv'
    <3>1. RecFilesInv(c)  BY DEF RecClean
    <3>2. \A x \in good' : x \in Cts /\ RecBack(x, {})' /\ x # c  BY <2>1 DEF RecClean, RecImportInv, RecBack
    <3> QED  BY <2>1, <3>1, <3>2 DEF RecFilesInv, RecImportInv
  <2> QED  BY <2>2, <2>3, <2>4 DEF RecClean
<1>12. ASSUME LosePool PROVE RecClean'
  <2>1. /\ rec = NoRec /\ rec' = rec /\ good' = {} /\ volRow' = {} /\ ctRow' = [c \in Cts |-> 0]
        /\ snapRow' = [c \in Cts |-> NoSnaps] /\ UNCHANGED <<data, truth, yaml, thin>>
    BY <1>12 DEF LosePool
  <2>2. RecTypeInv'  BY <2>1 DEF RecClean, RecTypeInv, NoSnaps
  <2>3. ASSUME NEW x \in Cts PROVE RecFilesInv(x)' /\ RecRowsInv(x)'
    <3>1. RecFilesInv(x)  BY DEF RecClean
    <3>2. RecFilesInv(x)'  BY <2>1, <3>1 DEF RecFilesInv
    <3>3. RecRowsInv(x)'  BY <2>1 DEF RecRowsInv, NoSnaps
    <3> QED  BY <3>2, <3>3
  <2>4. RecImportInv'  BY <2>1 DEF RecImportInv, NoRec
  <2> QED  BY <2>2, <2>3, <2>4 DEF RecClean
<1>13. ASSUME RemoveOld PROVE RecClean'
  <2> PICK c \in Cts : c = rec.c  BY <1>13 DEF RemoveOld, RecClean, RecTypeInv
  <2>1. /\ rec.at = "rows" /\ ctRow' \in {ctRow, [ctRow EXCEPT ![c] = 0]} /\ volRow' \in {volRow, volRow \ {<<c, "">>}}
        /\ rec' \in {NoRec, [rec EXCEPT !.at = "create"]}
        /\ UNCHANGED <<snapRow, data, yaml, thin, truth, good>>
    BY <1>13 DEF RemoveOld
  <2>5. c \notin good /\ <<c, "">> \in data  BY <2>1 DEF RecClean, RecImportInv
  <2>6. /\ \A x \in Cts \ {c} : ctRow'[x] = ctRow[x] /\ \A p \in Parts : <<x, p>> \in volRow' <=> <<x, p>> \in volRow
        /\ ctRow'[c] \in {0, ctRow[c]} /\ volRow' \subseteq volRow
    BY <2>1 DEF RecClean, RecTypeInv
  <2>7. /\ rec'.at = "idle" \/ (rec'.at = "create" /\ rec'.c = c /\ rec'.file = rec.file /\ rec'.left = rec.left)
        /\ rec' \in RecStates
        /\ rec'.at # "idle" => rec'.c \in Cts
        /\ rec'.at = "idle" => rec' = NoRec
    <3>1. CASE rec' = NoRec  BY <3>1, RecAtRest
    <3>2. CASE rec' = [rec EXCEPT !.at = "create"]
      <4>1. rec \in RecStates
        BY DEF RecClean, RecTypeInv
      <4> QED  BY <3>2, <4>1 DEF RecStates
    <3> QED  BY <2>1, <3>1, <3>2
  <2>2. RecTypeInv'
    <3>1. ctRow' \in [Cts -> {0} \cup Cfgs]  BY <2>1 DEF RecClean, RecTypeInv
    <3> QED  BY <2>1, <2>7, <3>1 DEF RecClean, RecTypeInv
  <2>3. ASSUME NEW x \in Cts PROVE RecFilesInv(x)' /\ RecRowsInv(x)'
    <3>1. RecFilesInv(x) /\ RecRowsInv(x)  BY DEF RecClean
    <3>2. RecFilesInv(x)'  BY <2>1, <2>6, <3>1 DEF RecFilesInv
    <3>3. RecRowsInv(x)'  BY <2>1, <2>6, <3>1 DEF RecRowsInv
    <3> QED  BY <3>2, <3>3
  <2>4. RecImportInv'
    <3>1. rec'.at = "idle" \/ (rec'.at = "create" /\ rec'.c = c /\ rec'.file = rec.file /\ rec'.left = rec.left)
      BY <2>7
    <3>2. \A x \in good' : x \in Cts \ {c}  BY <2>1, <2>5 DEF RecClean, RecImportInv
    <3>3. \A x \in good' : x \in Cts /\ RecBack(x, {})' /\ (rec'.at # "idle" => x # rec'.c)
      BY <2>1, <2>6, <3>1, <3>2, RecSameGood DEF RecClean
    <3> QED  BY <2>1, <2>5, <3>1, <3>3 DEF RecClean, RecImportInv
  <2> QED  BY <2>2, <2>3, <2>4 DEF RecClean
<1>14. ASSUME ImportContainer PROVE RecClean'
  <2> PICK c \in Cts : c = rec.c  BY <1>14 DEF ImportContainer, RecClean, RecTypeInv
  <2>5. /\ rec.at = "create" /\ c \notin good /\ <<c, "">> \in data /\ RecFilesInv(c) /\ RecRowsInv(c)
        /\ rec.file.name = c /\ rec.file.cfg = truth[<<c, "">>] /\ rec.file.cfg # 0 /\ rec.file.cfg \in {0} \cup Cfgs
    BY <1>14 DEF ImportContainer, RecClean, RecTypeInv, RecStates, YamlFiles, RecImportInv
  <2>1. /\ \/ /\ ctRow' = [ctRow EXCEPT ![c] = rec.file.cfg] /\ volRow' = volRow \cup {<<c, "">>}
              /\ rec' = [rec EXCEPT !.at = "snapshots"] /\ ConfigKeySet(c, rec.file.cfg)
           \/ rec' = NoRec /\ UNCHANGED <<ctRow, volRow, yaml, thin>>
        /\ UNCHANGED <<snapRow, data, truth, good>>
    BY <1>14, <2>5 DEF ImportContainer, Undo, RecMark
  <2>6. CASE rec' = NoRec /\ UNCHANGED <<ctRow, volRow, yaml, thin>>
    <3>2. RecTypeInv'  BY <2>1, <2>6, RecAtRest DEF RecClean, RecTypeInv
    <3>3. \A x \in Cts : RecFilesInv(x)' /\ RecRowsInv(x)'  BY <2>1, <2>6, RecSame DEF RecClean
    <3>4. RecImportInv'  BY <2>1, <2>6 DEF RecClean, RecImportInv, RecBack, NoRec
    <3> QED  BY <3>2, <3>3, <3>4 DEF RecClean
  <2>7. CASE /\ ctRow' = [ctRow EXCEPT ![c] = rec.file.cfg] /\ volRow' = volRow \cup {<<c, "">>}
             /\ rec' = [rec EXCEPT !.at = "snapshots"] /\ ConfigKeySet(c, rec.file.cfg)
    <3>1. /\ \A x \in Cts \ {c} : ctRow'[x] = ctRow[x] /\ \A p \in Parts : <<x, p>> \in volRow' <=> <<x, p>> \in volRow
          /\ ctRow'[c] = truth[<<c, "">>] /\ \A s \in Snaps : <<c, s>> \in volRow' <=> <<c, s>> \in volRow
      BY <2>5, <2>7 DEF RecClean, RecTypeInv, RecFilesInv
    <3>5. BackupFile(c, rec.file.cfg, snapRow[c]) \in YamlFiles
      BY <2>5 DEF YamlFiles, BackupFile, RecClean, RecTypeInv
    <3>6. /\ yaml' \in [Cts -> YamlFiles]
          /\ \A x \in Cts \ {c} : yaml'[x] = yaml[x] /\ (x \in thin => x \in thin')
          /\ yaml'[c].name = c /\ yaml'[c].cfg = rec.file.cfg
      <4>1. yaml \in [Cts -> YamlFiles] /\ yaml[c].name = c /\ yaml[c].cfg = rec.file.cfg
        BY <2>5 DEF RecClean, RecTypeInv, RecFilesInv
      <4>2. CASE c \in link
        <5>1. /\ yaml' = [yaml EXCEPT ![c] = BackupFile(c, rec.file.cfg, snapRow[c])]
              /\ thin \ {c} \subseteq thin'
          BY <2>7, <4>2 DEF ConfigKeySet
        <5>2. /\ BackupFile(c, rec.file.cfg, snapRow[c]).name = c
              /\ BackupFile(c, rec.file.cfg, snapRow[c]).cfg = rec.file.cfg
          BY DEF BackupFile
        <5> QED  BY <3>5, <4>1, <5>1, <5>2
      <4>3. CASE c \notin link  BY <2>7, <4>1, <4>3 DEF ConfigKeySet
      <4> QED  BY <4>2, <4>3
    <3>7. \A s \in Snaps : <<c, s>> \in data /\ c \notin thin' => yaml'[c].snaps[s] = truth[<<c, s>>]
      <4>1. CASE c \in link
        <5>3. yaml' = [yaml EXCEPT ![c] = BackupFile(c, rec.file.cfg, snapRow[c])]  BY <2>7, <4>1 DEF ConfigKeySet
        <5>4. yaml \in [Cts -> YamlFiles]  BY DEF RecClean, RecTypeInv
        <5>1. yaml'[c].snaps = snapRow[c]  BY <5>3, <5>4 DEF BackupFile
        <5>2. \A s \in Snaps : <<c, s>> \in data /\ c \notin thin' => snapRow[c][s] # 0
          BY <2>7, <4>1 DEF ConfigKeySet
        <5> QED  BY <2>5, <5>1, <5>2 DEF RecRowsInv
      <4>2. CASE c \notin link  BY <2>5, <2>7, <4>2 DEF ConfigKeySet, RecFilesInv
      <4> QED  BY <4>1, <4>2
    <3>2. RecTypeInv'
      <4>1. rec' \in RecStates  BY <2>7 DEF RecClean, RecTypeInv, RecStates
      <4>2. rec'.c \in Cts /\ rec'.at = "snapshots"  BY <2>7 DEF RecClean, RecTypeInv, RecStates
      <4>3. ctRow' \in [Cts -> {0} \cup Cfgs]  BY <2>5, <2>7 DEF RecClean, RecTypeInv
      <4> QED  BY <2>1, <3>6, <4>1, <4>2, <4>3 DEF RecClean, RecTypeInv
    <3>3. ASSUME NEW x \in Cts PROVE RecFilesInv(x)' /\ RecRowsInv(x)'
      <4>1. RecFilesInv(x) /\ RecRowsInv(x)  BY DEF RecClean
      <4>2. CASE x # c  BY <2>1, <3>1, <3>6, <4>1, <4>2, RecSame
      <4>3. CASE x = c
        <5>1. RecFilesInv(x)'  BY <2>1, <2>5, <3>1, <3>6, <3>7, <4>1, <4>3 DEF RecFilesInv, Parts
        <5>2. RecRowsInv(x)'  BY <2>1, <3>1, <4>1, <4>3 DEF RecRowsInv
        <5> QED  BY <5>1, <5>2
      <4> QED  BY <4>2, <4>3
    <3>4. RecImportInv'
      <4>1. rec'.at = "snapshots" /\ rec'.c = c /\ rec'.left = rec.left /\ rec'.file = rec.file
        BY <2>5, <2>7 DEF RecClean, RecTypeInv, RecStates
      <4>2. \A x \in good' : x \in Cts \ {c}  BY <2>1, <2>5 DEF RecClean, RecImportInv
      <4>3. \A x \in good' : x \in Cts /\ RecBack(x, {})' /\ (rec'.at # "idle" => x # rec'.c)
        BY <2>1, <3>1, <4>1, <4>2, RecSameGood DEF RecClean
      <4>4. RecBack(c, rec.left)'
        <5>1. /\ <<c, "">> \in volRow' /\ rec'.left = rec.left
              /\ \A s \in Snaps : <<c, s>> \in data => s \in rec.left
          BY <2>5, <2>7, <4>1 DEF RecClean, RecImportInv
        <5> QED  BY <2>1, <2>5, <3>1, <5>1 DEF RecBack
      <4>5. \A s \in rec'.left : <<c, s>> \in data'  BY <2>1, <2>5, <4>1 DEF RecClean, RecImportInv
      <4>6. \A s \in Snaps : <<c, s>> \in data' => rec'.file.snaps[s] = truth'[<<c, s>>]
        BY <2>1, <2>5, <4>1 DEF RecClean, RecImportInv
      <4> QED  BY <2>1, <2>5, <4>1, <4>3, <4>4, <4>5, <4>6 DEF RecImportInv
    <3> QED  BY <3>2, <3>3, <3>4 DEF RecClean
  <2> QED  BY <2>1, <2>6, <2>7
<1>15. ASSUME ImportEnds PROVE RecClean'
  <2>1. /\ rec.at = "snapshots" /\ rec.left = {} /\ rec' = NoRec /\ good' = good \cup {rec.c}
        /\ UNCHANGED <<ctRow, snapRow, volRow, data, yaml, thin, truth>>
    BY <1>15 DEF ImportEnds
  <2>2. RecTypeInv'  BY <2>1, RecAtRest DEF RecClean, RecTypeInv
  <2>3. \A x \in Cts : RecFilesInv(x)' /\ RecRowsInv(x)'  BY <2>1, RecSame DEF RecClean
  <2>4. RecImportInv'
    <3>1. rec.c \in Cts /\ RecBack(rec.c, {})  BY <2>1 DEF RecClean, RecTypeInv, RecImportInv
    <3>2. \A x \in good' : x \in Cts /\ RecBack(x, {})  BY <2>1, <3>1 DEF RecClean, RecImportInv
    <3>3. \A x \in good' : RecBack(x, {})'  BY <2>1, <3>2 DEF RecBack
    <3> QED  BY <2>1, <3>2, <3>3 DEF RecImportInv, NoRec
  <2> QED  BY <2>2, <2>3, <2>4 DEF RecClean
<1>16. ASSUME NEW s \in Snaps, ImportSnapshot(s) PROVE RecClean'
  <2> PICK c \in Cts : c = rec.c  BY <1>16 DEF ImportSnapshot, RecClean, RecTypeInv
  <2>5. /\ rec.at = "snapshots" /\ c \notin good /\ <<c, "">> \in data /\ <<c, s>> \in data /\ rec.file.name = c
        /\ rec.file.snaps[s] = truth[<<c, s>>] /\ RecFilesInv(c) /\ RecRowsInv(c) /\ RecBack(c, rec.left)
    BY <1>16 DEF ImportSnapshot, RecClean, RecImportInv, RecFilesInv
  <2>6. SnapCfg(c, s) = truth[<<c, s>>] /\ truth[<<c, s>>] \in {0} \cup Cfgs
    <3>1. truth[<<c, s>>] # 0  BY <2>5 DEF RecFilesInv
    <3>2. <<c, s>> \in Cts \X Parts  BY DEF Parts
    <3>3. truth[<<c, s>>] \in {0} \cup Cfgs  BY <3>2 DEF RecClean, RecTypeInv
    <3> QED  BY <2>5, <3>1, <3>3 DEF SnapCfg
  <2>1. /\ \/ /\ snapRow' = [snapRow EXCEPT ![c][s] = truth[<<c, s>>]] /\ volRow' = volRow \cup {<<c, s>>}
              /\ rec' = [rec EXCEPT !.left = @ \ {s}]
           \/ /\ rec' = NoRec /\ snapRow' \in {snapRow, [snapRow EXCEPT ![c][s] = 0]}
              /\ volRow' \in {volRow, volRow \ {<<c, s>>}}
        /\ UNCHANGED <<ctRow, data, yaml, thin, truth, good>>
    BY <1>16, <2>6 DEF ImportSnapshot, RecMark
  <2>7. /\ snapRow' \in [Cts -> [Snaps -> {0} \cup Cfgs]] /\ snapRow'[c][s] \in {0, snapRow[c][s], truth[<<c, s>>]}
        /\ \A t \in Snaps \ {s} : snapRow'[c][t] = snapRow[c][t]
        /\ \A x \in Cts \ {c} : snapRow'[x] = snapRow[x]
    <3>1. ASSUME NEW g \in {0} \cup Cfgs, snapRow' = [snapRow EXCEPT ![c][s] = g]
          PROVE  /\ snapRow' \in [Cts -> [Snaps -> {0} \cup Cfgs]] /\ snapRow'[c][s] = g
                 /\ \A t \in Snaps \ {s} : snapRow'[c][t] = snapRow[c][t]
                 /\ \A x \in Cts \ {c} : snapRow'[x] = snapRow[x]
      <4>1. snapRow \in [Cts -> [Snaps -> {0} \cup Cfgs]]  BY DEF RecClean, RecTypeInv
      <4> QED  BY <3>1, <4>1
    <3>2. CASE snapRow' = snapRow  BY <3>2 DEF RecClean, RecTypeInv
    <3> QED  BY <2>1, <2>6, <3>1, <3>2
  <2>9. /\ rec'.at = "idle" \/ (rec'.at = "snapshots" /\ rec'.c = c /\ rec'.file = rec.file /\ rec'.left = rec.left \ {s})
        /\ rec' \in RecStates
        /\ rec'.at # "idle" => rec'.c \in Cts
        /\ rec'.at = "idle" => rec' = NoRec
    <3>1. CASE rec' = NoRec  BY <3>1, RecAtRest
    <3>2. CASE rec' = [rec EXCEPT !.left = @ \ {s}]
      <4>1. rec \in RecStates
        BY DEF RecClean, RecTypeInv
      <4> QED  BY <2>5, <3>2, <4>1 DEF RecStates
    <3> QED  BY <2>1, <3>1, <3>2
  <2>8. \A q : q # <<c, s>> => (q \in volRow' <=> q \in volRow)  BY <2>1
  <2>2. RecTypeInv'  BY <2>1, <2>7, <2>9 DEF RecClean, RecTypeInv
  <2>3. ASSUME NEW x \in Cts PROVE RecFilesInv(x)' /\ RecRowsInv(x)'
    <3>1. RecFilesInv(x) /\ RecRowsInv(x)  BY DEF RecClean
    <3>2. RecFilesInv(x)'  BY <2>1, <2>5, <2>8, <3>1 DEF RecFilesInv
    <3>3. RecRowsInv(x)'
      <4>1. CASE x # c  BY <2>1, <2>7, <3>1, <4>1 DEF RecRowsInv
      <4>2. CASE x = c
        <5>1. snapRow'[c][s] \in {0, truth[<<c, s>>]}  BY <2>7, <3>1, <4>2 DEF RecRowsInv
        <5> QED  BY <2>1, <2>7, <3>1, <4>2, <5>1 DEF RecRowsInv
      <4> QED  BY <4>1, <4>2
    <3> QED  BY <3>2, <3>3
  <2>4. RecImportInv'
    <3>1. rec'.at = "idle" \/ (rec'.at = "snapshots" /\ rec'.c = c /\ rec'.file = rec.file /\ rec'.left = rec.left \ {s})
      BY <2>9
    <3>2. \A x \in good' : x \in Cts \ {c}  BY <2>1, <2>5 DEF RecClean, RecImportInv
    <3>3. \A x \in good' : x \in Cts /\ RecBack(x, {})' /\ (rec'.at # "idle" => x # rec'.c)
      BY <2>1, <2>7, <2>8, <3>1, <3>2, RecSameGood DEF RecClean
    <3>4. CASE rec'.at # "idle"
      <4>1. /\ snapRow'[c][s] = truth[<<c, s>>] /\ <<c, s>> \in volRow'
        <5>0. NoRec.at = "idle"  BY DEF NoRec
        <5>1. rec' # NoRec  BY <3>4, <5>0
        <5>2. snapRow' = [snapRow EXCEPT ![c][s] = truth[<<c, s>>]] /\ volRow' = volRow \cup {<<c, s>>}
          BY <2>1, <5>1
        <5>3. snapRow \in [Cts -> [Snaps -> {0} \cup Cfgs]]  BY DEF RecClean, RecTypeInv
        <5> QED  BY <5>2, <5>3
      <4>2. \A t \in Snaps : <<c, t>> \in data' => t \in rec.left \ {s} \/ (<<c, t>> \in volRow' /\ snapRow'[c][t] = truth'[<<c, t>>])
        BY <2>1, <2>5, <2>7, <2>8, <4>1 DEF RecBack
      <4>3. "" # s  BY RecoveryAssumption
      <4>4. RecBack(c, rec.left)'  BY <2>1, <2>5, <2>8, <3>1, <3>4, <4>2, <4>3 DEF RecBack
      <4>5. \A t \in rec'.left : <<c, t>> \in data'  BY <2>1, <2>5, <3>1, <3>4 DEF RecClean, RecImportInv
      <4>6. \A t \in Snaps : <<c, t>> \in data' => rec'.file.snaps[t] = truth'[<<c, t>>]
        BY <2>1, <2>5, <3>1, <3>4 DEF RecClean, RecImportInv
      <4>7. /\ rec'.at = "snapshots" /\ rec'.c = c /\ rec'.left = rec.left \ {s} /\ <<c, "">> \in data'
            /\ rec'.file.name = c /\ rec'.file.cfg = truth'[<<c, "">>] /\ rec'.file.cfg # 0
        BY <2>1, <2>5, <3>1, <3>4 DEF RecClean, RecImportInv
      <4> QED  BY <3>3, <4>4, <4>5, <4>6, <4>7 DEF RecImportInv
    <3> QED  BY <3>3, <3>4 DEF RecImportInv
  <2> QED  BY <2>2, <2>3, <2>4 DEF RecClean
<1> QED
  BY <1>1, <1>2, <1>3, <1>4, <1>5, <1>6, <1>7, <1>8, <1>9, <1>10, <1>11, <1>12, <1>13, <1>14, <1>15, <1>16
  DEF RecoveryNext

LEMMA RecInvNext == ASSUME RecInv, RecoveryNext PROVE RecInv'
BY RecDataKept, RecCleanNext DEF RecInv, RecClean

LEMMA RecInvInit == ASSUME RecoveryInit PROVE RecInv
<1>1. RecTypeInv  BY DEF RecoveryInit, RecTypeInv, RecStates, YamlFiles, NoSnaps, NoYaml, NoRec
<1>2. RecImportInv  BY DEF RecoveryInit, RecImportInv, NoRec
<1>3. \A c \in Cts : RecFilesInv(c) /\ RecRowsInv(c)
  BY DEF RecoveryInit, RecFilesInv, RecRowsInv, NoSnaps, Parts
<1> QED  BY <1>1, <1>2, <1>3 DEF RecInv, RecoveryInit

LEMMA RecInvStutter == ASSUME RecInv, UNCHANGED recVars PROVE RecInv'
<1>1. UNCHANGED <<ctRow, snapRow, volRow, data, yaml, thin, truth, kept, rec, good, recMarks>>  BY DEF recVars
<1>2. ASSUME RecTypeInv, RecImportInv, \A c \in Cts : RecFilesInv(c) /\ RecRowsInv(c)
      PROVE  RecTypeInv' /\ RecImportInv' /\ \A c \in Cts : RecFilesInv(c)' /\ RecRowsInv(c)'
  <2>1. RecTypeInv'  BY <1>1, <1>2 DEF RecTypeInv
  <2>2. RecImportInv'  BY <1>1, <1>2 DEF RecImportInv, RecBack
  <2>3. \A c \in Cts : RecFilesInv(c)' /\ RecRowsInv(c)'  BY <1>1, <1>2, RecSame
  <2> QED  BY <2>1, <2>2, <2>3
<1> QED  BY <1>1, <1>2 DEF RecInv

LEMMA RecoverableByInv == ASSUME RecInv PROVE Recoverable
<1> SUFFICES ASSUME recMarks = {}
             PROVE  /\ \A c \in Cts : Whole(c) => yaml[c].name = c /\ (yaml[c].cfg = ctRow[c] \/ c \in good)
                    /\ \A c \in good : rec = NoRec /\ <<c, "">> \in data =>
                         /\ ctRow[c] = truth[<<c, "">>] /\ <<c, "">> \in volRow
                         /\ \A s \in Snaps : /\ (<<c, s>> \in data) = (<<c, s>> \in volRow)
                                             /\ snapRow[c][s] = truth[<<c, s>>]
  BY DEF RecInv, Recoverable
<1>1. ASSUME NEW c \in Cts, Whole(c) PROVE yaml[c].name = c /\ yaml[c].cfg = ctRow[c]
  BY <1>1 DEF Whole, RecInv, RecFilesInv, RecRowsInv
<1>2. ASSUME NEW c \in good, NEW s \in Snaps
      PROVE  /\ <<c, s>> \in data <=> <<c, s>> \in volRow
             /\ snapRow[c][s] = truth[<<c, s>>]
  <2>1. c \in Cts /\ RecBack(c, {}) /\ RecFilesInv(c) /\ RecRowsInv(c)  BY DEF RecInv, RecImportInv
  <2>2. s \in Parts  BY DEF Parts
  <2> QED  BY <2>1, <2>2 DEF RecBack, RecFilesInv, RecRowsInv
<1>3. \A c \in good : ctRow[c] = truth[<<c, "">>] /\ <<c, "">> \in volRow
  BY DEF RecInv, RecImportInv, RecBack
<1>4. ASSUME NEW c \in good, NEW s \in Snaps PROVE (<<c, s>> \in data) = (<<c, s>> \in volRow)
  <2>1. <<c, s>> \in data <=> <<c, s>> \in volRow  BY <1>2
  <2> QED  BY <2>1
<1> QED  BY <1>1, <1>2, <1>3, <1>4

-----------------------------------------------------------------------------
-----------------------------------------------------------------------------
(* Edits of what the daemon keeps (ConfigEdits). *)

\* An object and what is said of it have the parts of its kind.
PartsOf(e, x) == x = [i \in ItemsOf(e) |-> x[i]]

\* The parts outside S are alike.
AlikeBut(e, S, x, y) == \A i \in Hashed(e) \ S : x[i] = y[i]

EdTypeInv ==
  /\ store = [e \in EditKinds |-> store[e]] /\ \A e \in EditKinds : PartsOf(e, store[e])
  /\ expect = [e \in EditKinds |-> expect[e]] /\ \A e \in EditKinds : PartsOf(e, expect[e])
  /\ PartsOf("server", memory)
  /\ ed = [k \in Editors |-> ed[k]]

\* What a client sends back is what it read, but for the parts it means to
\* change; what the handler is about to write is the row it compared, but for
\* those.
EdRequestInv(r) ==
  /\ DOMAIN r = DOMAIN AtRest
  /\ r.pc \in {"idle", "has", "sent", "refused", "read", "checked", "profile", "spread", "set", "save"}
  /\ r.pc # "idle" => r.e \in EditKinds
  /\ r.pc = "has" => ~r.patch /\ PartsOf(r.e, r.req) /\ r.etag.content = [i \in Hashed(r.e) |-> r.req[i]]
  /\ r.pc \in {"sent", "refused", "read"} =>
       IF r.patch THEN r.etag = NoEtag /\ r.means = DOMAIN r.req
       ELSE /\ PartsOf(r.e, r.req)
            /\ \/ r.etag = NoEtag /\ r.means = ItemsOf(r.e)
               \/ r.etag # NoEtag /\ AlikeBut(r.e, r.means, r.req, r.etag.content)
  /\ r.pc = "read" => r.e = "server"
  /\ r.pc = "checked" /\ r.e # "server" => PartsOf(r.e, r.req) /\ AlikeBut(r.e, r.means, r.req, r.old)
  /\ r.pc \in {"profile", "spread"} =>
       r.e = "profile" /\ (r.ct # NoContent => "container" \in EditKinds /\ PartsOf("container", r.ct))
  /\ r.pc = "spread" => r.ct # NoContent
  /\ r.pc \in {"set", "save"} => r.e = "server" /\ r.keys \subseteq ItemsOf("server")
  /\ r.pc = "save" => r.key \in r.means /\ r.key \in ItemsOf("server")

\* A key of the server's configuration is the same in the database and in
\* memory unless a request is between the two.
EdServerInv ==
  \A i \in ItemsOf("server") :
    \/ memory[i] = store["server"][i] /\ store["server"][i] = expect["server"][i]
    \/ \E k \in Editors : At(k, "save") /\ ed[k].key = i

EdInv ==
  editMarks = {} =>
    /\ EdTypeInv /\ \A k \in Editors : EdRequestInv(ed[k])
    /\ \A e \in EditKinds \ {"server"} : store[e] = expect[e]
    /\ "server" \in EditKinds => EdServerInv

\* What holds while there is no mark.
EdClean ==
  /\ EdTypeInv /\ \A k \in Editors : EdRequestInv(ed[k])
  /\ \A e \in EditKinds \ {"server"} : store[e] = expect[e]
  /\ "server" \in EditKinds => EdServerInv

\* The parts an ETag is made from are parts of the object; a container, a pool
\* and a volume have a description besides.
LEMMA EdHashed ==
  ASSUME NEW e \in EditKinds
  PROVE  /\ Hashed(e) \subseteq ItemsOf(e) /\ "nothing" \notin Hashed(e)
         /\ e \in {"container", "pool", "volume"} => ItemsOf(e) = Hashed(e) \cup {"description"}
         /\ e \notin {"container", "pool", "volume"} => ItemsOf(e) = Hashed(e)
BY EditsAssumption DEF Hashed, ItemsOf

LEMMA EdResting == EdRequestInv(AtRest)
BY DEF AtRest, EdRequestInv

\* A step of one request that writes nothing.
LEMMA EdOnly ==
  ASSUME EdClean, NEW k \in Editors, UNCHANGED <<store, memory, expect>>, ~At(k, "save"),
         ed' = [j \in Editors |-> ed'[j]], \A j \in Editors \ {k} : ed'[j] = ed[j], EdRequestInv(ed'[k])
  PROVE  EdClean'
<1>1. EdTypeInv'  BY DEF EdClean, EdTypeInv, PartsOf
<1>2. ASSUME NEW j \in Editors PROVE EdRequestInv(ed[j])'
  <2>1. EdRequestInv(ed'[j])  BY DEF EdClean
  <2> QED  BY <2>1 DEF EdRequestInv
<1>3. \A e \in EditKinds \ {"server"} : store'[e] = expect'[e]  BY DEF EdClean
<1>4. ASSUME "server" \in EditKinds PROVE EdServerInv'
  <2>1. EdServerInv  BY <1>4 DEF EdClean
  <2> QED  BY <2>1 DEF EdServerInv, At
<1> QED  BY <1>1, <1>2, <1>3, <1>4 DEF EdClean

LEMMA EdSends ==
  ASSUME EdClean, NEW k \in Editors, NEW e, NEW i \in ItemsOf(e), NEW v, Sends(k, e, i, v) PROVE EdClean'
<1> PICK r : r = ed[k]  OBVIOUS
<1>1. /\ r.pc = "has" /\ r.e = e /\ EdRequestInv(r) /\ e \in EditKinds /\ ed = [j \in Editors |-> ed[j]]
  BY DEF Sends, At, EdClean, EdTypeInv, EdRequestInv
<1>2. /\ ed' = [j \in Editors |-> ed'[j]] /\ \A j \in Editors \ {k} : ed'[j] = ed[j]
  BY <1>1 DEF Sends
<1>3. ed'[k] = [r EXCEPT !.pc = "sent", !.req[i] = v, !.means = {i}]  BY <1>1 DEF Sends
<1>4. DOMAIN r = DOMAIN AtRest  BY <1>1 DEF EdRequestInv
<1>5. /\ DOMAIN ed'[k] = DOMAIN AtRest /\ ed'[k].pc = "sent" /\ ed'[k].e = e /\ ed'[k].etag = r.etag
      /\ ed'[k].req = [r.req EXCEPT ![i] = v] /\ ed'[k].means = {i} /\ ed'[k].patch = r.patch
  BY <1>1, <1>3, <1>4 DEF AtRest
<1>6. ~r.patch /\ r.req = [j \in ItemsOf(e) |-> r.req[j]] /\ r.etag.content = [j \in Hashed(e) |-> r.req[j]]
  BY <1>1 DEF EdRequestInv, PartsOf
<1>7. PartsOf(e, ed'[k].req) /\ \A j \in ItemsOf(e) \ {i} : ed'[k].req[j] = r.req[j]
  BY <1>5, <1>6 DEF PartsOf
<1>8. r.etag # NoEtag
  <2>1. DOMAIN r.etag.content = Hashed(e) /\ DOMAIN NoEtag.content = {"nothing"}  BY <1>6 DEF NoEtag, NoContent
  <2> QED  BY <1>1, <2>1, EdHashed
<1>9. AlikeBut(e, {i}, ed'[k].req, r.etag.content)  BY <1>1, <1>6, <1>7, EdHashed DEF AlikeBut
<1>10. EdRequestInv(ed'[k])  BY <1>1, <1>5, <1>6, <1>7, <1>8, <1>9 DEF EdRequestInv
<1>11. ~At(k, "save") /\ UNCHANGED <<store, memory, expect>>  BY DEF Sends, At
<1> QED  BY <1>2, <1>10, <1>11, EdOnly

\* What the user does at the client.
LEMMA EdClientNext == ASSUME EdClean, NEW k \in Editors, ClientNext(k) PROVE EdClean'
<1>0. ed = [j \in Editors |-> ed[j]] /\ EdRequestInv(ed[k])  BY DEF EdClean, EdTypeInv
<1>1. "devices" \in ItemsOf("container") /\ "devices" \in ItemsOf("profile") /\ "profiles" \in ItemsOf("container")
      /\ \A e : e \in {"container", "profile", "network", "pool", "volume"} => "config" \in ItemsOf(e)
  BY DEF ItemsOf
<1>2. ASSUME NEW which \in {"container", "profile"}, NEW v, AddsDevice(k, which, v) \/ ChangesDevice(k, which, v) PROVE EdClean'
  BY <1>1, <1>2, EdSends DEF AddsDevice, ChangesDevice
<1>3. ASSUME deviceUnset(k) \/ deviceRm(k) \/ doNetworkDetach(k) \/ doNetworkDetachProfile(k)
             \/ doStoragePoolVolumeDetach(k) \/ doStoragePoolVolumeDetachProfile(k) PROVE EdClean'
  BY <1>2, <1>3 DEF deviceUnset, deviceRm, doNetworkDetach, doNetworkDetachProfile, doStoragePoolVolumeDetach,
     doStoragePoolVolumeDetachProfile
<1>4. ASSUME doProfileAdd(k) \/ doProfileRemove(k) PROVE EdClean'
  BY <1>1, <1>4, EdSends DEF doProfileAdd, doProfileRemove
<1>5. ASSUME NEW v \in Values,
             \/ doSet(k, v) \/ doProfileAssign(k, v) \/ doProfileSet(k, v) \/ doNetworkSet(k, v)
             \/ doStoragePoolSet(k, v) \/ doStoragePoolVolumeSet(k, v)
      PROVE  EdClean'
  BY <1>1, <1>5, EdSends DEF doSet, doProfileAssign, doProfileSet, doNetworkSet, doStoragePoolSet, doStoragePoolVolumeSet
<1>6. ASSUME NEW v \in Values,
             \/ deviceAdd(k, v) \/ deviceSet(k, v) \/ doNetworkAttach(k, v) \/ doNetworkAttachProfile(k, v)
             \/ doStoragePoolVolumeAttach(k, v) \/ doStoragePoolVolumeAttachProfile(k, v)
      PROVE  EdClean'
  BY <1>2, <1>6 DEF deviceAdd, deviceSet, doNetworkAttach, doNetworkAttachProfile, doStoragePoolVolumeAttach,
     doStoragePoolVolumeAttachProfile
<1>7. ASSUME NEW v \in Values,
             \/ configServerSet(k, v) \/ doContainerConfigEdit(k, v) \/ doDaemonConfigEdit(k, v) \/ doProfileEdit(k, v)
             \/ doNetworkEdit(k, v) \/ doStoragePoolEdit(k, v) \/ doStoragePoolVolumeEdit(k, v)
      PROVE  EdClean'
  BY <1>7, EdSends DEF configServerSet, doContainerConfigEdit, doDaemonConfigEdit, doProfileEdit, doNetworkEdit,
     doStoragePoolEdit, doStoragePoolVolumeEdit
<1>8. ASSUME NEW v \in Values, UpdateCertificate(k, v) PROVE EdClean'
  <2>1. "description" \in ItemsOf("certificate")  BY DEF ItemsOf
  <2> QED  BY <1>8, <2>1, EdSends DEF UpdateCertificate
<1>9. ASSUME ChangesNothing(k) PROVE EdClean'
  <2>1. /\ ed' = [j \in Editors |-> ed'[j]] /\ \A j \in Editors \ {k} : ed'[j] = ed[j]
        /\ ed'[k] = AtRest
    BY <1>0, <1>9 DEF ChangesNothing, EdEnds
  <2>2. ~At(k, "save") /\ UNCHANGED <<store, memory, expect>>  BY <1>9 DEF ChangesNothing, At
  <2> QED  BY <2>1, <2>2, EdOnly, EdResting
<1>10. ASSUME AfterRefusal(k) PROVE EdClean'
  <2>1. ~At(k, "save") /\ UNCHANGED <<store, memory, expect>>  BY <1>10 DEF AfterRefusal, At
  <2>2. CASE EdEnds(k)
    <3>1. /\ ed' = [j \in Editors |-> ed'[j]] /\ \A j \in Editors \ {k} : ed'[j] = ed[j]
          /\ ed'[k] = AtRest
      BY <1>0, <2>2 DEF EdEnds
    <3> QED  BY <2>1, <3>1, EdOnly, EdResting
  <2>3. CASE EdGoes(k, "sent")
    <3>1. /\ ed' = [j \in Editors |-> ed'[j]] /\ \A j \in Editors \ {k} : ed'[j] = ed[j]
          /\ ed'[k] = [ed[k] EXCEPT !.pc = "sent"]
      BY <1>0, <2>3 DEF EdGoes
    <3>2. DOMAIN ed[k] = DOMAIN AtRest /\ ed[k].pc = "refused"  BY <1>0, <1>10 DEF EdRequestInv, AfterRefusal, At
    <3>3. /\ DOMAIN ed'[k] = DOMAIN AtRest /\ ed'[k].pc = "sent" /\ ed'[k].e = ed[k].e /\ ed'[k].etag = ed[k].etag
          /\ ed'[k].req = ed[k].req /\ ed'[k].means = ed[k].means /\ ed'[k].patch = ed[k].patch
      BY <3>1, <3>2 DEF AtRest
    <3>4. EdRequestInv(ed'[k])  BY <1>0, <3>2, <3>3 DEF EdRequestInv
    <3> QED  BY <2>1, <3>1, <3>4, EdOnly
  <2> QED  BY <1>10, <2>2, <2>3 DEF AfterRefusal
<1>11. ASSUME NEW e \in EditKinds, ReadObject(k, e) PROVE EdClean'
  <2>1. ~At(k, "save") /\ UNCHANGED <<store, memory, expect>>  BY <1>11 DEF ReadObject, At
  <2>2. /\ ed' = [j \in Editors |-> ed'[j]] /\ \A j \in Editors \ {k} : ed'[j] = ed[j]
        /\ ed'[k] = [AtRest EXCEPT !.pc = "has", !.e = e, !.etag = EtagGiven(e), !.req = Shown(e)]
    BY <1>0, <1>11 DEF ReadObject
  <2>3. /\ DOMAIN ed'[k] = DOMAIN AtRest /\ ed'[k].pc = "has" /\ ed'[k].e = e /\ ed'[k].etag = EtagGiven(e)
        /\ ed'[k].req = Shown(e) /\ ed'[k].patch = FALSE
    BY <2>2 DEF AtRest
  <2>4. PartsOf(e, Shown(e))  BY DEF Shown, Rendered, EdClean, EdTypeInv, PartsOf
  <2>5. EtagGiven(e).content = [i \in Hashed(e) |-> Shown(e)[i]]  BY DEF EtagGiven, EtagOf
  <2>6. EdRequestInv(ed'[k])  BY <2>3, <2>4, <2>5 DEF EdRequestInv
  <2> QED  BY <2>1, <2>2, <2>6, EdOnly
<1>12. ASSUME NEW e \in EditKinds, NEW v \in Values, EditFromStdin(k, e, v) PROVE EdClean'
  <2>1. ~At(k, "save") /\ UNCHANGED <<store, memory, expect>>  BY <1>12 DEF EditFromStdin, At
  <2>2. /\ ed' = [j \in Editors |-> ed'[j]] /\ \A j \in Editors \ {k} : ed'[j] = ed[j]
        /\ ed'[k] = [AtRest EXCEPT !.pc = "sent", !.e = e, !.req = AllSet(e, v), !.means = ItemsOf(e)]
    BY <1>0, <1>12 DEF EditFromStdin
  <2>3. /\ DOMAIN ed'[k] = DOMAIN AtRest /\ ed'[k].pc = "sent" /\ ed'[k].e = e /\ ed'[k].etag = NoEtag
        /\ ed'[k].req = AllSet(e, v) /\ ed'[k].patch = FALSE /\ ed'[k].means = ItemsOf(e)
    BY <2>2 DEF AtRest
  <2>4. PartsOf(e, AllSet(e, v))  BY DEF AllSet, PartsOf
  <2>6. EdRequestInv(ed'[k])  BY <2>3, <2>4 DEF EdRequestInv
  <2> QED  BY <2>1, <2>2, <2>6, EdOnly
<1>13. ASSUME NEW e \in EditKinds, NEW i \in ItemsOf(e), NEW v \in Values, PatchPart(k, e, i, v) PROVE EdClean'
  <2>1. ~At(k, "save") /\ UNCHANGED <<store, memory, expect>>  BY <1>13 DEF PatchPart, At
  <2>2. /\ ed' = [j \in Editors |-> ed'[j]] /\ \A j \in Editors \ {k} : ed'[j] = ed[j]
        /\ ed'[k] = [AtRest EXCEPT !.pc = "sent", !.e = e, !.req = [j \in {i} |-> v], !.means = {i}, !.patch = TRUE]
    BY <1>0, <1>13 DEF PatchPart
  <2>3. /\ DOMAIN ed'[k] = DOMAIN AtRest /\ ed'[k].pc = "sent" /\ ed'[k].e = e /\ ed'[k].etag = NoEtag
        /\ ed'[k].req = [j \in {i} |-> v] /\ ed'[k].patch = TRUE /\ ed'[k].means = {i}
    BY <2>2 DEF AtRest
  <2>4. DOMAIN [j \in {i} |-> v] = {i}  OBVIOUS
  <2>6. EdRequestInv(ed'[k])  BY <2>3, <2>4 DEF EdRequestInv
  <2> QED  BY <2>1, <2>2, <2>6, EdOnly
<1> QED
  BY <1>3, <1>4, <1>5, <1>6, <1>7, <1>8, <1>9, <1>10, <1>11, <1>12, <1>13 DEF ClientNext

\* What the handlers do without a write.
EdReads(k) ==
  \/ containerPut(k) \/ containerPatch(k) \/ profilePut(k) \/ profilePatch(k) \/ networkPut(k) \/ networkPatch(k)
  \/ storagePoolPut(k) \/ storagePoolPatch(k) \/ storagePoolVolumeTypePut(k) \/ storagePoolVolumeTypePatch(k)
  \/ certificateFingerprintPut(k) \/ certificateFingerprintPatch(k)
  \/ dbConfigValuesGet(k) \/ api10Put(k) \/ api10Patch(k) \/ UpdateFails(k)
  \/ getContainersWithProfile(k) \/ doApi10Update(k) \/ ServerEnds(k)

LEMMA EdHandlerReads == ASSUME EdClean, NEW k \in Editors, EdReads(k) PROVE EdClean'
<1>01. UNCHANGED <<store, memory, expect>>
  BY DEF EdReads, containerPut, containerPatch, profilePut, profilePatch, networkPut, storagePoolPut,
     storagePoolVolumeTypePut, storagePoolVolumeTypePatch, certificateFingerprintPut, certificateFingerprintPatch,
     networkPatch, storagePoolPatch, PatchIgnored, Put, Patch, etagCheck, dbConfigValuesGet, api10Put, api10Patch,
     UpdateFails, getContainersWithProfile, doApi10Update, ServerEnds
<1>02. ~At(k, "save")
  BY DEF EdReads, containerPut, containerPatch, profilePut, profilePatch, networkPut, storagePoolPut,
     storagePoolVolumeTypePut, storagePoolVolumeTypePatch, certificateFingerprintPut, certificateFingerprintPatch,
     networkPatch, storagePoolPatch, PatchIgnored, Put, Patch, Handles, At, dbConfigValuesGet, api10Put, api10Patch,
     UpdateFails, getContainersWithProfile, doApi10Update, ServerEnds
<1> USE <1>01, <1>02
<1>0. ed = [j \in Editors |-> ed[j]] /\ EdRequestInv(ed[k])  BY DEF EdClean, EdTypeInv
<1> PICK r : r = ed[k]  OBVIOUS
<1>1. EdRequestInv(r) /\ DOMAIN r = DOMAIN AtRest  BY <1>0 DEF EdRequestInv
<1>2. ASSUME EdEnds(k) PROVE EdClean'
  <2>1. /\ ed' = [j \in Editors |-> ed'[j]] /\ \A j \in Editors \ {k} : ed'[j] = ed[j]
        /\ ed'[k] = AtRest
    BY <1>0, <1>2 DEF EdEnds
  <2> QED  BY <2>1, EdOnly, EdResting
\* A handler has loaded the row and compares.
<1>3. ASSUME NEW old, NEW req, r.pc \in {"sent", "read"}, etagCheck(k, old, req),
             r.e # "server" => /\ old = store[r.e] /\ r.pc = "sent"
                               /\ req = IF r.patch THEN Filled(r.e, r.req, old) ELSE r.req
      PROVE  EdClean'
  <2>1. /\ ed' = [j \in Editors |-> ed'[j]] /\ \A j \in Editors \ {k} : ed'[j] = ed[j]
    BY <1>0, <1>3 DEF etagCheck
  <2>2. r.e \in EditKinds  BY <1>1, <1>3 DEF EdRequestInv
  <2>3. CASE ed' = [ed EXCEPT ![k].pc = "refused"]
    <3>1. ed'[k] = [r EXCEPT !.pc = "refused"]  BY <1>0, <2>3
    <3>2. /\ DOMAIN ed'[k] = DOMAIN AtRest /\ ed'[k].pc = "refused" /\ ed'[k].e = r.e /\ ed'[k].etag = r.etag
          /\ ed'[k].req = r.req /\ ed'[k].means = r.means /\ ed'[k].patch = r.patch
      BY <1>1, <3>1 DEF AtRest
    <3>3. EdRequestInv(ed'[k])  BY <1>1, <1>3, <3>2 DEF EdRequestInv
    <3> QED  BY <2>1, <3>3, EdOnly
  <2>4. CASE /\ r.etag \in {NoEtag, EtagWanted(r.e)}
             /\ ed' = [ed EXCEPT ![k].pc = "checked", ![k].old = old, ![k].req = req]
    <3>1. ed'[k] = [r EXCEPT !.pc = "checked", !.old = old, !.req = req]  BY <1>0, <2>4
    <3>2. /\ DOMAIN ed'[k] = DOMAIN AtRest /\ ed'[k].pc = "checked" /\ ed'[k].e = r.e /\ ed'[k].old = old
          /\ ed'[k].req = req /\ ed'[k].means = r.means
      BY <1>1, <3>1 DEF AtRest
    <3>3. ASSUME r.e # "server" PROVE PartsOf(r.e, req) /\ AlikeBut(r.e, r.means, req, old)
      <4>1. CASE r.patch
        <5>1. r.means = DOMAIN r.req /\ req = Filled(r.e, r.req, old)  BY <1>1, <1>3, <3>3, <4>1 DEF EdRequestInv
        <5>2. PartsOf(r.e, req)  BY <5>1 DEF Filled, PartsOf
        <5>3. ASSUME NEW i \in Hashed(r.e) \ r.means PROVE req[i] = old[i]
          <6>1. i \in ItemsOf(r.e)  BY <2>2, EdHashed
          <6>2. r.e \in {"container", "pool", "volume"} => i # "description"  BY DEF Hashed
          <6> QED  BY <5>1, <6>1, <6>2 DEF Filled
        <5> QED  BY <5>2, <5>3 DEF AlikeBut
      <4>2. CASE ~r.patch
        <5>1. req = r.req /\ old = store[r.e] /\ PartsOf(r.e, r.req)
          BY <1>1, <1>3, <3>3, <4>2 DEF EdRequestInv
        <5>2. CASE r.means = ItemsOf(r.e)  BY <2>2, <5>1, <5>2, EdHashed DEF AlikeBut
        <5>3. CASE r.etag # NoEtag /\ AlikeBut(r.e, r.means, r.req, r.etag.content)
          <6>1. r.etag = EtagWanted(r.e)  BY <2>4, <5>3
          <6>2. r.etag.content = [i \in Hashed(r.e) |-> store[r.e][i]]
            BY <3>3, <6>1 DEF EtagWanted, EtagOf, Shown
          <6> QED  BY <5>1, <5>3, <6>2 DEF AlikeBut
        <5> QED  BY <1>1, <1>3, <4>2, <5>2, <5>3 DEF EdRequestInv
      <4> QED  BY <4>1, <4>2
    <3>4. EdRequestInv(ed'[k])  BY <2>2, <3>2, <3>3 DEF EdRequestInv
    <3> QED  BY <2>1, <3>4, EdOnly
  <2> QED  BY <1>3, <2>3, <2>4 DEF etagCheck
<1>4. ASSUME NEW e, Put(k, e) \/ Patch(k, e), e # "server" PROVE EdClean'
  BY <1>3, <1>4 DEF Put, Patch, Handles, At
<1>5. ASSUME \/ containerPut(k) \/ containerPatch(k) \/ profilePut(k) \/ profilePatch(k) \/ networkPut(k)
             \/ storagePoolPut(k) \/ storagePoolVolumeTypePut(k) \/ storagePoolVolumeTypePatch(k)
             \/ certificateFingerprintPut(k) \/ certificateFingerprintPatch(k)
      PROVE  EdClean'
  BY <1>4, <1>5 DEF containerPut, containerPatch, profilePut, profilePatch, networkPut, storagePoolPut,
     storagePoolVolumeTypePut, storagePoolVolumeTypePatch, certificateFingerprintPut, certificateFingerprintPatch
<1>6. ASSUME networkPatch(k) \/ storagePoolPatch(k) \/ UpdateFails(k) \/ ServerEnds(k) PROVE EdClean'
  BY <1>2, <1>6 DEF networkPatch, storagePoolPatch, PatchIgnored, UpdateFails, ServerEnds
<1>7. ASSUME dbConfigValuesGet(k) PROVE EdClean'
  <2>1. /\ ed' = [j \in Editors |-> ed'[j]] /\ \A j \in Editors \ {k} : ed'[j] = ed[j]
        /\ ed'[k] = [r EXCEPT !.pc = "read", !.old = store["server"]] /\ r.pc = "sent" /\ r.e = "server"
    BY <1>0, <1>7 DEF dbConfigValuesGet, At
  <2>2. /\ DOMAIN ed'[k] = DOMAIN AtRest /\ ed'[k].pc = "read" /\ ed'[k].e = r.e /\ ed'[k].etag = r.etag
        /\ ed'[k].req = r.req /\ ed'[k].means = r.means /\ ed'[k].patch = r.patch
    BY <1>1, <2>1 DEF AtRest
  <2>3. EdRequestInv(ed'[k])  BY <1>1, <2>1, <2>2 DEF EdRequestInv
  <2> QED  BY <2>1, <2>3, EdOnly
<1>8. ASSUME api10Put(k) \/ api10Patch(k) PROVE EdClean'
  <2>1. r.pc = "read" /\ r.e = "server"  BY <1>1, <1>8 DEF EdRequestInv, api10Put, api10Patch, At
  <2>2. \E old, req : etagCheck(k, old, req)  BY <1>8 DEF api10Put, api10Patch
  <2> QED  BY <1>3, <2>1, <2>2
<1>9. ASSUME getContainersWithProfile(k) PROVE EdClean'
  <2> PICK ct : ct = IF "container" \in EditKinds /\ store["container"]["profiles"] = 1 THEN store["container"] ELSE NoContent
    OBVIOUS
  <2>1. /\ ed' = [j \in Editors |-> ed'[j]] /\ \A j \in Editors \ {k} : ed'[j] = ed[j]
        /\ ed'[k] = [r EXCEPT !.pc = "profile", !.ct = ct] /\ r.pc = "checked" /\ r.e = "profile"
    BY <1>0, <1>9 DEF getContainersWithProfile, At
  <2>2. /\ DOMAIN ed'[k] = DOMAIN AtRest /\ ed'[k].pc = "profile" /\ ed'[k].e = r.e /\ ed'[k].ct = ct
    BY <1>1, <2>1 DEF AtRest
  <2>3. ct # NoContent => "container" \in EditKinds /\ PartsOf("container", ct)  BY DEF EdClean, EdTypeInv
  <2>4. EdRequestInv(ed'[k])  BY <1>1, <2>1, <2>2, <2>3 DEF EdRequestInv
  <2> QED  BY <2>1, <2>4, EdOnly
<1>10. ASSUME doApi10Update(k) PROVE EdClean'
  <2> PICK req : req = [r.req EXCEPT !["password"] = IF @ = Hidden THEN r.old["password"] ELSE @]  OBVIOUS
  <2> PICK keys : keys = {i \in ItemsOf("server") : req[i] # r.old[i]}  OBVIOUS
  <2>3. ed' = [ed EXCEPT ![k].pc = "set", ![k].req = req, ![k].keys = keys]
    BY <1>10 DEF doApi10Update
  <2>1. /\ ed' = [j \in Editors |-> ed'[j]] /\ \A j \in Editors \ {k} : ed'[j] = ed[j]
        /\ ed'[k] = [r EXCEPT !.pc = "set", !.req = req, !.keys = keys] /\ r.pc = "checked" /\ r.e = "server"
    BY <1>0, <1>10, <2>3 DEF doApi10Update, At
  <2>2. /\ DOMAIN ed'[k] = DOMAIN AtRest /\ ed'[k].pc = "set" /\ ed'[k].e = r.e /\ ed'[k].keys = keys
    BY <1>1, <2>1 DEF AtRest
  <2>4. EdRequestInv(ed'[k])  BY <1>1, <2>1, <2>2 DEF EdRequestInv
  <2> QED  BY <2>1, <2>4, EdOnly
<1> QED  BY <1>5, <1>6, <1>7, <1>8, <1>9, <1>10 DEF EdReads

\* A row is written, of an object that is not the server's configuration.
LEMMA EdWrites ==
  ASSUME EdClean, NEW k \in Editors, NEW e \in EditKinds \ {"server"}, NEW row, PartsOf(e, row), ~At(k, "save"),
         store' = [store EXCEPT ![e] = row], UNCHANGED memory,
         \/ expect' = [expect EXCEPT ![e] = row]
         \/ expect' = expect /\ row = store[e],
         ed' = [j \in Editors |-> ed'[j]], \A j \in Editors \ {k} : ed'[j] = ed[j], EdRequestInv(ed'[k])
  PROVE  EdClean'
<1>0. EdTypeInv  BY DEF EdClean
<1>4. store'[e] = row /\ expect'[e] = row /\ \A x \in EditKinds \ {e} : store'[x] = store[x] /\ expect'[x] = expect[x]
  BY <1>0 DEF EdTypeInv, EdClean
<1>1. EdTypeInv'
  <2>1. store' = [x \in EditKinds |-> store'[x]] /\ expect' = [x \in EditKinds |-> expect'[x]]
    BY <1>0 DEF EdTypeInv
  <2>2. \A x \in EditKinds : PartsOf(x, store[x])' /\ PartsOf(x, expect[x])'
    BY <1>0, <1>4 DEF EdTypeInv, PartsOf
  <2>3. PartsOf("server", memory)'  BY <1>0 DEF EdTypeInv, PartsOf
  <2> QED  BY <2>1, <2>2, <2>3 DEF EdTypeInv
<1>2. ASSUME NEW j \in Editors PROVE EdRequestInv(ed[j])'
  <2>1. EdRequestInv(ed'[j])  BY DEF EdClean
  <2> QED  BY <2>1 DEF EdRequestInv
<1>3. \A x \in EditKinds \ {"server"} : store'[x] = expect'[x]  BY <1>4 DEF EdClean
<1>5. ASSUME "server" \in EditKinds PROVE EdServerInv'
  <2>1. EdServerInv  BY <1>5 DEF EdClean
  <2>2. store'["server"] = store["server"] /\ expect'["server"] = expect["server"]  BY <1>4, <1>5
  <2> QED  BY <2>1, <2>2 DEF EdServerInv, At
<1> QED  BY <1>1, <1>2, <1>3, <1>5 DEF EdClean

\* The handlers that write the row as the request has it.
LEMMA EdWritesRow ==
  ASSUME EdClean, editMarks' = {}, NEW k \in Editors, NEW e, e # "server", WritesRow(k, e) PROVE EdClean'
<1> PICK r : r = ed[k]  OBVIOUS
<1>0. ed = [j \in Editors |-> ed[j]] /\ EdRequestInv(r) /\ EdTypeInv  BY DEF EdClean, EdTypeInv
<1>1. /\ r.pc = "checked" /\ r.e = e /\ e \in EditKinds \ {"server"} /\ PartsOf(e, r.req)
      /\ AlikeBut(e, r.means, r.req, r.old)
  BY <1>0 DEF WritesRow, At, EdRequestInv
<1>2. store[e] = expect[e] /\ PartsOf(e, store[e])  BY <1>1 DEF EdClean, EdTypeInv
<1>3. /\ ~DescriptionLost(k) /\ (store[e] # r.old => Raced(e, r.req, r.means) = {})
  BY DEF WritesRow, EdMark
<1>4. ASSUME NEW i \in ItemsOf(e) \ r.means PROVE r.req[i] = store[e][i]
  <2>1. CASE store[e] # r.old  BY <1>3, <1>4, <2>1 DEF Raced
  <2>2. CASE store[e] = r.old /\ i \in Hashed(e)  BY <1>1, <1>4, <2>2 DEF AlikeBut
  <2>3. CASE i \notin Hashed(e)
    <3>1. i = "description" /\ e \in {"container", "pool", "volume"}  BY <1>1, <1>4, <2>3, EdHashed
    <3> QED  BY <1>1, <1>3, <1>4, <3>1 DEF DescriptionLost
  <2> QED  BY <2>1, <2>2, <2>3
<1>5. Met(e, r.req, r.means) = r.req
  <2>1. Met(e, r.req, r.means) = [i \in ItemsOf(e) |-> r.req[i]]  BY <1>2, <1>4 DEF Met
  <2> QED  BY <1>1, <2>1 DEF PartsOf
<1>6. /\ store' = [store EXCEPT ![e] = r.req] /\ expect' = [expect EXCEPT ![e] = r.req] /\ UNCHANGED memory
      /\ ~At(k, "save")
  BY <1>5 DEF WritesRow, At
<1>7. /\ ed' = [j \in Editors |-> ed'[j]] /\ \A j \in Editors \ {k} : ed'[j] = ed[j]
      /\ ed'[k] = AtRest
  BY <1>0 DEF WritesRow, EdEnds
<1> QED  BY <1>1, <1>6, <1>7, EdWrites, EdResting

LEMMA EdProfileCommits ==
  ASSUME EdClean, editMarks' = {}, NEW k \in Editors, ProfileCommits(k) PROVE EdClean'
<1> PICK r : r = ed[k]  OBVIOUS
<1> PICK row : row = ProfileRow(r)  OBVIOUS
<1>0. ed = [j \in Editors |-> ed[j]] /\ EdRequestInv(r) /\ EdTypeInv /\ DOMAIN r = DOMAIN AtRest
  BY DEF EdClean, EdTypeInv, EdRequestInv
<1>1. /\ r.pc = "profile" /\ r.e = "profile" /\ "profile" \in EditKinds \ {"server"} /\ PartsOf("profile", row)
  BY <1>0 DEF ProfileCommits, At, EdRequestInv, ProfileRow, PartsOf
<1>2. store["profile"] = expect["profile"]  BY <1>1 DEF EdClean
<1>3. Raced("profile", row, r.means) = {}  BY DEF ProfileCommits, EdMark
<1>4. \A i \in ItemsOf("profile") \ r.means : row[i] = store["profile"][i]  BY <1>3 DEF Raced
<1>5. Met("profile", row, r.means) = row
  <2>1. Met("profile", row, r.means) = [i \in ItemsOf("profile") |-> row[i]]  BY <1>2, <1>4 DEF Met
  <2> QED  BY <1>1, <2>1 DEF PartsOf
<1>6. /\ store' = [store EXCEPT !["profile"] = row] /\ expect' = [expect EXCEPT !["profile"] = row] /\ UNCHANGED memory
      /\ ~At(k, "save")
  BY <1>5 DEF ProfileCommits, At
<1>7. /\ ed' = [j \in Editors |-> ed'[j]] /\ \A j \in Editors \ {k} : ed'[j] = ed[j]
      /\ ed'[k] = AtRest \/ (ed'[k] = [r EXCEPT !.pc = "spread"] /\ r.ct # NoContent)
  BY <1>0 DEF ProfileCommits, EdEnds, EdGoes
<1>8. ASSUME ed'[k] = [r EXCEPT !.pc = "spread"], r.ct # NoContent PROVE EdRequestInv(ed'[k])
  <2>1. /\ DOMAIN ed'[k] = DOMAIN AtRest /\ ed'[k].pc = "spread" /\ ed'[k].e = r.e /\ ed'[k].ct = r.ct
    BY <1>0, <1>8 DEF AtRest
  <2> QED  BY <1>0, <1>1, <1>8, <2>1 DEF EdRequestInv
<1>9. EdRequestInv(ed'[k])  BY <1>7, <1>8, EdResting
<1> QED  BY <1>1, <1>6, <1>7, <1>9, EdWrites

\* The container gets back what was loaded of it, which is what it has.
LEMMA EdProfileSpreads ==
  ASSUME EdClean, editMarks' = {}, NEW k \in Editors, ProfileSpreads(k) PROVE EdClean'
<1> PICK r : r = ed[k]  OBVIOUS
<1> PICK ct : ct = [r.ct EXCEPT !["description"] = 0]  OBVIOUS
<1>0. ed = [j \in Editors |-> ed[j]] /\ EdRequestInv(r) /\ EdTypeInv  BY DEF EdClean, EdTypeInv
<1>1. /\ r.pc = "spread" /\ "container" \in EditKinds \ {"server"} /\ PartsOf("container", r.ct)
  BY <1>0 DEF ProfileSpreads, At, EdRequestInv
<1>2. PartsOf("container", ct)  BY <1>1 DEF PartsOf
<1>3. /\ ed' = [j \in Editors |-> ed'[j]] /\ \A j \in Editors \ {k} : ed'[j] = ed[j]
      /\ ed'[k] = AtRest /\ ~At(k, "save")
  BY <1>0 DEF ProfileSpreads, EdEnds, At
<1>4. CASE UNCHANGED store
  BY <1>3, <1>4, EdOnly, EdResting DEF ProfileSpreads
<1>5. CASE /\ store' = [store EXCEPT !["container"] = ct]
           /\ ct["description"] = store["container"]["description"]
           /\ \A i \in Hashed("container") : ct[i] = store["container"][i]
  <2>1. \A i \in ItemsOf("container") : ct[i] = store["container"][i]  BY <1>1, <1>5, EdHashed
  <2>2. PartsOf("container", store["container"])  BY <1>0, <1>1 DEF EdTypeInv
  <2>3. ct = store["container"]  BY <1>2, <2>1, <2>2 DEF PartsOf
  <2> QED  BY <1>1, <1>2, <1>3, <1>5, <2>3, EdWrites, EdResting DEF ProfileSpreads
<1>6. \/ UNCHANGED store
      \/ /\ store' = [store EXCEPT !["container"] = ct]
         /\ (IF ct["description"] # store["container"]["description"] THEN {"description"} ELSE {}) = {}
         /\ (IF \E i \in Hashed("container") : ct[i] # store["container"][i] THEN {"raced"} ELSE {}) = {}
  BY DEF ProfileSpreads, EdMark
<1> QED  BY <1>4, <1>5, <1>6

\* One key of the server's configuration is set in memory.
LEMMA EdServerSets ==
  ASSUME EdClean, editMarks' = {}, NEW k \in Editors, NEW i \in {"config", "password"}, ServerSets(k, i) PROVE EdClean'
<1> PICK r : r = ed[k]  OBVIOUS
<1>0. /\ ed = [j \in Editors |-> ed[j]] /\ EdRequestInv(r) /\ EdTypeInv /\ DOMAIN r = DOMAIN AtRest
      /\ i \in ItemsOf("server")
  BY DEF EdClean, EdTypeInv, EdRequestInv, ItemsOf
<1>1. r.pc = "set" /\ r.e = "server" /\ "server" \in EditKinds /\ EdServerInv /\ r.keys \subseteq ItemsOf("server")
  BY <1>0 DEF ServerSets, At, EdRequestInv, EdClean
<1>2. ed' = [j \in Editors |-> ed'[j]] /\ \A j \in Editors \ {k} : ed'[j] = ed[j]
  BY <1>0 DEF ServerSets, EdEnds
<1>3. \A j \in Editors : EdRequestInv(ed'[j])
  <2>1. CASE ed' = [ed EXCEPT ![k].keys = @ \ {i}]
    <3>1. ed'[k] = [r EXCEPT !.keys = r.keys \ {i}]  BY <1>0, <2>1
    <3>2. /\ DOMAIN ed'[k] = DOMAIN AtRest /\ ed'[k].pc = "set" /\ ed'[k].e = r.e /\ ed'[k].keys = r.keys \ {i}
      BY <1>0, <1>1, <3>1 DEF AtRest
    <3>3. EdRequestInv(ed'[k])  BY <1>1, <3>2 DEF EdRequestInv
    <3> QED  BY <1>2, <3>3 DEF EdClean
  <2>2. CASE ed' = [ed EXCEPT ![k].pc = "save", ![k].keys = @ \ {i}, ![k].key = i] /\ i \in r.means
    <3>1. ed'[k] = [r EXCEPT !.pc = "save", !.keys = r.keys \ {i}, !.key = i]  BY <1>0, <2>2
    <3>2. /\ DOMAIN ed'[k] = DOMAIN AtRest /\ ed'[k].pc = "save" /\ ed'[k].e = r.e /\ ed'[k].keys = r.keys \ {i}
          /\ ed'[k].key = i /\ ed'[k].means = r.means
      BY <1>0, <1>1, <3>1 DEF AtRest
    <3>3. EdRequestInv(ed'[k])  BY <1>0, <1>1, <2>2, <3>2 DEF EdRequestInv
    <3> QED  BY <1>2, <3>3 DEF EdClean
  <2>3. CASE EdEnds(k)
    <3>1. ed'[k] = AtRest  BY <1>0, <2>3 DEF EdEnds
    <3> QED  BY <1>2, <3>1, EdResting DEF EdClean
  <2> QED  BY <2>1, <2>2, <2>3 DEF ServerSets, EdMark
<1>4. ASSUME NEW x \in EditKinds \ {"server"} PROVE store'[x] = expect'[x]
  BY <1>0 DEF ServerSets, EdClean, EdTypeInv
<1>5. store' = store  BY DEF ServerSets
<1>6. CASE memory' = memory /\ expect' = expect /\ ed'[k].pc # "save"
  <2>1. EdTypeInv'  BY <1>0, <1>2, <1>5, <1>6 DEF EdTypeInv, PartsOf
  <2>2. EdServerInv'  BY <1>1, <1>2, <1>5, <1>6 DEF EdServerInv, At
  <2> QED  BY <1>3, <1>4, <2>1, <2>2 DEF EdClean, EdRequestInv
<1>7. CASE /\ memory[i] = r.req[i] /\ expect' = [expect EXCEPT !["server"] = Met("server", r.req, r.means \cap {i})]
           /\ memory' = memory /\ ed'[k].pc # "save"
  <2>1. expect'["server"] = [j \in ItemsOf("server") |-> IF j \in r.means \cap {i} THEN r.req[j] ELSE expect["server"][j]]
    BY <1>0, <1>1, <1>7 DEF EdTypeInv, Met
  <2>2. EdTypeInv'
    <3>1. expect' = [e \in EditKinds |-> expect'[e]]  BY <1>0, <1>7 DEF EdTypeInv
    <3>2. \A e \in EditKinds : PartsOf(e, expect[e])'
      <4> TAKE e \in EditKinds
      <4>1. CASE e = "server"  BY <2>1, <4>1 DEF PartsOf
      <4>2. CASE e # "server"
        <5>1. expect'[e] = expect[e]  BY <1>0, <1>7, <4>2 DEF EdTypeInv
        <5> QED  BY <1>0, <5>1 DEF EdTypeInv, PartsOf
      <4> QED  BY <4>1, <4>2
    <3> QED  BY <1>0, <1>2, <1>5, <1>7, <3>1, <3>2 DEF EdTypeInv, PartsOf
  <2>3. EdServerInv'
    <3> SUFFICES ASSUME NEW j \in ItemsOf("server")
                 PROVE  \/ memory'[j] = store'["server"][j] /\ store'["server"][j] = expect'["server"][j]
                        \/ \E q \in Editors : ed'[q].pc = "save" /\ ed'[q].key = j
      BY DEF EdServerInv, At
    <3>1. CASE \E q \in Editors : ed[q].pc = "save" /\ ed[q].key = j  BY <1>1, <1>2, <3>1
    <3>2. CASE memory[j] = store["server"][j] /\ store["server"][j] = expect["server"][j]
      BY <1>5, <1>7, <2>1, <3>2
    <3> QED  BY <1>1, <3>1, <3>2 DEF EdServerInv, At
  <2> QED  BY <1>3, <1>4, <2>2, <2>3 DEF EdClean, EdRequestInv
<1>8. CASE /\ memory' = [memory EXCEPT ![i] = r.req[i]] /\ expect' = expect
           /\ ed'[k].pc = "save" /\ ed'[k].key = i
  <2>1. /\ PartsOf("server", memory)' /\ \A j \in ItemsOf("server") \ {i} : memory'[j] = memory[j]
    BY <1>0, <1>8 DEF EdTypeInv, PartsOf
  <2>2. EdTypeInv'  BY <1>0, <1>2, <1>5, <1>8, <2>1 DEF EdTypeInv, PartsOf
  <2>3. EdServerInv'
    <3> SUFFICES ASSUME NEW j \in ItemsOf("server")
                 PROVE  \/ memory'[j] = store'["server"][j] /\ store'["server"][j] = expect'["server"][j]
                        \/ \E q \in Editors : ed'[q].pc = "save" /\ ed'[q].key = j
      BY DEF EdServerInv, At
    <3>1. CASE \E q \in Editors : ed[q].pc = "save" /\ ed[q].key = j  BY <1>1, <1>2, <3>1
    <3>2. CASE j = i  BY <1>8, <3>2
    <3>3. CASE j # i /\ memory[j] = store["server"][j] /\ store["server"][j] = expect["server"][j]
      BY <1>5, <1>8, <2>1, <3>3
    <3> QED  BY <1>1, <3>1, <3>2, <3>3 DEF EdServerInv, At
  <2> QED  BY <1>3, <1>4, <2>2, <2>3 DEF EdClean, EdRequestInv
<1>9. \/ memory' = memory /\ expect' = expect /\ ed' = [ed EXCEPT ![k] = AtRest]
      \/ /\ memory[i] = r.req[i] /\ expect' = [expect EXCEPT !["server"] = Met("server", r.req, r.means \cap {i})]
         /\ memory' = memory /\ ed' = [ed EXCEPT ![k].keys = @ \ {i}]
      \/ /\ memory' = [memory EXCEPT ![i] = r.req[i]] /\ expect' = expect
         /\ ed' = [ed EXCEPT ![k].pc = "save", ![k].keys = @ \ {i}, ![k].key = i]
  BY DEF ServerSets, Changes, EdEnds
<1>10. CASE ed' = [ed EXCEPT ![k] = AtRest] /\ memory' = memory /\ expect' = expect
  <2>1. ed'[k] = AtRest  BY <1>0, <1>10
  <2> QED  BY <1>6, <1>10, <2>1 DEF AtRest
<1>11. CASE ed' = [ed EXCEPT ![k].keys = @ \ {i}] /\ memory[i] = r.req[i] /\ memory' = memory
            /\ expect' = [expect EXCEPT !["server"] = Met("server", r.req, r.means \cap {i})]
  <2>1. ed'[k] = [r EXCEPT !.keys = r.keys \ {i}]  BY <1>0, <1>11
  <2>2. ed'[k].pc # "save"  BY <1>0, <1>1, <2>1 DEF AtRest
  <2> QED  BY <1>7, <1>11, <2>2
<1>12. CASE ed' = [ed EXCEPT ![k].pc = "save", ![k].keys = @ \ {i}, ![k].key = i]
            /\ memory' = [memory EXCEPT ![i] = r.req[i]] /\ expect' = expect
  <2>1. ed'[k] = [r EXCEPT !.pc = "save", !.keys = r.keys \ {i}, !.key = i]  BY <1>0, <1>12
  <2>2. ed'[k].pc = "save" /\ ed'[k].key = i  BY <1>0, <2>1 DEF AtRest
  <2> QED  BY <1>8, <1>12, <2>2
<1> QED  BY <1>9, <1>10, <1>11, <1>12

\* The key is written to the database.
LEMMA EdValueSet ==
  ASSUME EdClean, editMarks' = {}, NEW k \in Editors, dbConfigValueSet(k) PROVE EdClean'
<1> PICK r : r = ed[k]  OBVIOUS
<1> PICK i : i = r.key  OBVIOUS
<1>0. /\ ed = [j \in Editors |-> ed[j]] /\ EdRequestInv(r) /\ EdTypeInv /\ DOMAIN r = DOMAIN AtRest
  BY DEF EdClean, EdTypeInv, EdRequestInv
<1>1. /\ r.pc = "save" /\ r.e = "server" /\ "server" \in EditKinds /\ EdServerInv /\ r.keys \subseteq ItemsOf("server")
      /\ i \in r.means /\ i \in ItemsOf("server")
  BY <1>0 DEF dbConfigValueSet, At, EdRequestInv, EdClean
<1>2. /\ store' = [store EXCEPT !["server"][i] = r.req[i]]
      /\ expect' = [expect EXCEPT !["server"] = Met("server", r.req, r.means \cap {i})]
      /\ memory[i] = r.req[i] /\ memory' = memory
      /\ ed' = [ed EXCEPT ![k].pc = "set", ![k].key = "none"]
  BY DEF dbConfigValueSet, EdMark
<1>3. /\ ed' = [j \in Editors |-> ed'[j]] /\ \A j \in Editors \ {k} : ed'[j] = ed[j]
      /\ ed'[k] = [r EXCEPT !.pc = "set", !.key = "none"]
  BY <1>0, <1>2
<1>4. \A j \in Editors : EdRequestInv(ed'[j])
  <2>1. /\ DOMAIN ed'[k] = DOMAIN AtRest /\ ed'[k].pc = "set" /\ ed'[k].e = r.e /\ ed'[k].keys = r.keys
    BY <1>0, <1>3 DEF AtRest
  <2>2. EdRequestInv(ed'[k])  BY <1>1, <2>1 DEF EdRequestInv
  <2> QED  BY <1>3, <2>2 DEF EdClean
<1>5. /\ expect'["server"] = [j \in ItemsOf("server") |-> IF j \in r.means \cap {i} THEN r.req[j] ELSE expect["server"][j]]
      /\ \A x \in EditKinds \ {"server"} : expect'[x] = expect[x] /\ store'[x] = store[x]
      /\ expect' = [e \in EditKinds |-> expect'[e]] /\ store' = [e \in EditKinds |-> store'[e]]
  BY <1>0, <1>1, <1>2 DEF EdTypeInv, Met
<1>6. store'["server"] = [store["server"] EXCEPT ![i] = r.req[i]]  BY <1>0, <1>1, <1>2 DEF EdTypeInv
<1>7. /\ PartsOf("server", store'["server"]) /\ store'["server"][i] = r.req[i]
      /\ \A j \in ItemsOf("server") \ {i} : store'["server"][j] = store["server"][j]
  BY <1>0, <1>1, <1>6 DEF EdTypeInv, PartsOf
<1>8. EdTypeInv'
  <2>1. ASSUME NEW e \in EditKinds PROVE PartsOf(e, expect[e])' /\ PartsOf(e, store[e])'
    <3>1. CASE e = "server"  BY <1>5, <1>7, <3>1 DEF PartsOf
    <3>2. CASE e # "server"  BY <1>0, <1>5, <3>2 DEF EdTypeInv, PartsOf
    <3> QED  BY <3>1, <3>2
  <2>2. PartsOf("server", memory)'  BY <1>0, <1>2 DEF EdTypeInv, PartsOf
  <2> QED  BY <1>3, <1>5, <2>1, <2>2 DEF EdTypeInv
<1>9. EdServerInv'
  <2> SUFFICES ASSUME NEW j \in ItemsOf("server")
               PROVE  \/ memory'[j] = store'["server"][j] /\ store'["server"][j] = expect'["server"][j]
                      \/ \E q \in Editors : ed'[q].pc = "save" /\ ed'[q].key = j
    BY DEF EdServerInv, At
  <2>1. CASE j = i
    <3>1. expect'["server"][i] = r.req[i]  BY <1>1, <1>5
    <3>2. memory'[i] = r.req[i] /\ store'["server"][i] = r.req[i]  BY <1>2, <1>7
    <3> QED  BY <2>1, <3>1, <3>2
  <2>2. CASE j # i /\ \E q \in Editors : ed[q].pc = "save" /\ ed[q].key = j
    <3> PICK q \in Editors : ed[q].pc = "save" /\ ed[q].key = j  BY <2>2
    <3>1. q # k  BY <2>2
    <3> QED  BY <1>3, <3>1
  <2>3. CASE j # i /\ memory[j] = store["server"][j] /\ store["server"][j] = expect["server"][j]
    BY <1>2, <1>5, <1>7, <2>3
  <2> QED  BY <1>1, <2>1, <2>2, <2>3 DEF EdServerInv, At
<1> QED  BY <1>4, <1>5, <1>8, <1>9 DEF EdClean, EdRequestInv

\* The daemon starts again when no request is in the middle of the keys.
LEMMA EdDaemonAgain == ASSUME EdClean, editMarks' = {}, DaemonAgain PROVE EdClean'
<1>1. /\ "server" \in EditKinds /\ memory' = store["server"] /\ UNCHANGED <<store, expect>>
      /\ \A k \in Editors : ed[k].pc # "save"
      /\ ed' = [k \in Editors |-> IF At(k, "has") \/ At(k, "refused") THEN ed[k] ELSE AtRest]
  BY DEF DaemonAgain, EdMark
<1>2. EdTypeInv'  BY <1>1 DEF EdClean, EdTypeInv, PartsOf
<1>3. ASSUME NEW k \in Editors PROVE EdRequestInv(ed[k])'
  <2>1. ed'[k] \in {ed[k], AtRest}  BY <1>1
  <2>2. EdRequestInv(ed'[k])  BY <2>1, EdResting DEF EdClean
  <2> QED  BY <2>2 DEF EdRequestInv
<1>4. EdServerInv'  BY <1>1 DEF EdClean, EdServerInv, At
<1> QED  BY <1>1, <1>2, <1>3, <1>4 DEF EdClean

LEMMA EdMarksGrow == ASSUME EditsNext PROVE editMarks \subseteq editMarks'
<1>1. ASSUME DaemonAgain PROVE editMarks \subseteq editMarks'  BY <1>1 DEF DaemonAgain, EdMark
<1>2. ASSUME NEW k \in Editors, ClientNext(k) PROVE editMarks \subseteq editMarks'
  <2>1. ASSUME NEW e, NEW i, NEW v, Sends(k, e, i, v) PROVE editMarks' = editMarks  BY <2>1 DEF Sends
  <2>2. ASSUME NEW e, NEW v, AddsDevice(k, e, v) \/ ChangesDevice(k, e, v) PROVE editMarks' = editMarks
    BY <2>1, <2>2 DEF AddsDevice, ChangesDevice
  <2>3. ASSUME deviceUnset(k) \/ deviceRm(k) \/ doNetworkDetach(k) \/ doNetworkDetachProfile(k)
               \/ doStoragePoolVolumeDetach(k) \/ doStoragePoolVolumeDetachProfile(k) PROVE editMarks' = editMarks
    BY <2>2, <2>3 DEF deviceUnset, deviceRm, doNetworkDetach, doNetworkDetachProfile, doStoragePoolVolumeDetach,
       doStoragePoolVolumeDetachProfile
  <2>4. ASSUME NEW v \in Values,
               \/ deviceAdd(k, v) \/ deviceSet(k, v) \/ doNetworkAttach(k, v) \/ doNetworkAttachProfile(k, v)
               \/ doStoragePoolVolumeAttach(k, v) \/ doStoragePoolVolumeAttachProfile(k, v)
        PROVE  editMarks' = editMarks
    BY <2>2, <2>4 DEF deviceAdd, deviceSet, doNetworkAttach, doNetworkAttachProfile, doStoragePoolVolumeAttach,
       doStoragePoolVolumeAttachProfile
  <2>5. ASSUME NEW v \in Values,
               \/ doProfileAdd(k) \/ doProfileRemove(k) \/ UpdateCertificate(k, v)
               \/ doSet(k, v) \/ doProfileAssign(k, v) \/ doProfileSet(k, v) \/ doNetworkSet(k, v)
               \/ doStoragePoolSet(k, v) \/ doStoragePoolVolumeSet(k, v)
               \/ configServerSet(k, v) \/ doContainerConfigEdit(k, v) \/ doDaemonConfigEdit(k, v) \/ doProfileEdit(k, v)
               \/ doNetworkEdit(k, v) \/ doStoragePoolEdit(k, v) \/ doStoragePoolVolumeEdit(k, v)
        PROVE  editMarks' = editMarks
    BY <2>1, <2>5 DEF doProfileAdd, doProfileRemove, UpdateCertificate, doSet, doProfileAssign, doProfileSet, doNetworkSet,
       doStoragePoolSet, doStoragePoolVolumeSet, configServerSet, doContainerConfigEdit, doDaemonConfigEdit,
       doProfileEdit, doNetworkEdit, doStoragePoolEdit, doStoragePoolVolumeEdit
  <2>6. ASSUME doProfileAdd(k) \/ doProfileRemove(k) PROVE editMarks' = editMarks
    BY <2>1, <2>6 DEF doProfileAdd, doProfileRemove
  <2>7. ASSUME \/ ChangesNothing(k) \/ AfterRefusal(k)
               \/ \E e \in EditKinds :
                    \/ ReadObject(k, e)
                    \/ \E v \in Values : EditFromStdin(k, e, v)
                    \/ \E i \in ItemsOf(e), v \in Values : PatchPart(k, e, i, v)
        PROVE  editMarks' = editMarks
    BY <2>7 DEF ChangesNothing, AfterRefusal, ReadObject, EditFromStdin, PatchPart
  <2> QED  BY <1>2, <2>3, <2>4, <2>5, <2>6, <2>7 DEF ClientNext
<1>3. ASSUME NEW k \in Editors, HandlerNext(k) PROVE editMarks \subseteq editMarks'
  <2>1. ASSUME EdReads(k) PROVE editMarks \subseteq editMarks'
    BY <2>1 DEF EdReads, containerPut, containerPatch, profilePut, profilePatch, networkPut, storagePoolPut,
       storagePoolVolumeTypePut, storagePoolVolumeTypePatch, certificateFingerprintPut, certificateFingerprintPatch,
       networkPatch, storagePoolPatch, PatchIgnored, Put, Patch, etagCheck, dbConfigValuesGet, api10Put, api10Patch,
       UpdateFails, getContainersWithProfile, doApi10Update, ServerEnds, EdMark
  <2>2. ASSUME NEW e, WritesRow(k, e) PROVE editMarks \subseteq editMarks'  BY <2>2 DEF WritesRow, EdMark
  <2>3. ASSUME ProfileCommits(k) \/ ProfileSpreads(k) \/ dbConfigValueSet(k) PROVE editMarks \subseteq editMarks'
    BY <2>3 DEF ProfileCommits, ProfileSpreads, dbConfigValueSet, EdMark
  <2>4. ASSUME NEW i, ServerSets(k, i) PROVE editMarks \subseteq editMarks'  BY <2>4 DEF ServerSets, EdMark
  <2> QED  BY <1>3, <2>1, <2>2, <2>3, <2>4 DEF HandlerNext, EdReads, ContainerUpdate, doNetworkUpdate, storagePoolUpdate,
          storagePoolVolumeUpdate, doCertificateUpdate
<1> QED  BY <1>1, <1>2, <1>3 DEF EditsNext

LEMMA EdInvNext == ASSUME EdInv, EditsNext PROVE EdInv'
<1> SUFFICES ASSUME editMarks' = {} PROVE EdClean'  BY DEF EdInv, EdClean
<1>1. EdClean  BY EdMarksGrow DEF EdInv, EdClean
<1>2. ASSUME NEW k \in Editors, HandlerNext(k) PROVE EdClean'
  <2>1. ASSUME NEW e \in {"container", "network", "pool", "volume", "certificate"}, WritesRow(k, e) PROVE EdClean'
    BY <1>1, <2>1, EdWritesRow
  <2> QED
    BY <1>1, <1>2, <2>1, EdHandlerReads, EdProfileCommits, EdProfileSpreads, EdServerSets, EdValueSet
    DEF HandlerNext, EdReads, ContainerUpdate, doNetworkUpdate, storagePoolUpdate, storagePoolVolumeUpdate, doCertificateUpdate
<1> QED  BY <1>1, <1>2, EdClientNext, EdDaemonAgain DEF EditsNext

LEMMA EdInvInit == ASSUME EditsInit PROVE EdInv
<1>1. EdTypeInv  BY DEF EditsInit, EdTypeInv, PartsOf
<1>2. \A k \in Editors : EdRequestInv(ed[k])  BY EdResting DEF EditsInit
<1>3. "server" \in EditKinds => EdServerInv
  <2>1. "description" \notin ItemsOf("server")  BY DEF ItemsOf
  <2> QED  BY <2>1 DEF EditsInit, EdServerInv
<1> QED  BY <1>1, <1>2, <1>3 DEF EdInv, EditsInit

LEMMA EdInvStutter == ASSUME EdInv, UNCHANGED editVars PROVE EdInv'
<1>1. UNCHANGED <<store, memory, expect, ed, editMarks>>  BY DEF editVars
<1>2. ASSUME EdTypeInv PROVE EdTypeInv'  BY <1>1, <1>2 DEF EdTypeInv, PartsOf
<1>3. ASSUME NEW k \in Editors, EdRequestInv(ed[k]) PROVE EdRequestInv(ed[k])'
  BY <1>1, <1>3 DEF EdRequestInv
<1>4. ASSUME EdServerInv PROVE EdServerInv'  BY <1>1, <1>4 DEF EdServerInv, At
<1> QED  BY <1>1, <1>2, <1>3, <1>4 DEF EdInv

LEMMA EditsByInv == ASSUME EdInv PROVE EditsKept
<1> SUFFICES ASSUME editMarks = {}, \A k \in Editors : ~At(k, "save"), "server" \in EditKinds
             PROVE  store["server"] = expect["server"] /\ memory = store["server"]
  BY DEF EditsKept, EdInv
<1>1. \A i \in ItemsOf("server") : memory[i] = store["server"][i] /\ store["server"][i] = expect["server"][i]
  BY DEF EdInv, EdServerInv
<1>2. PartsOf("server", memory) /\ PartsOf("server", store["server"]) /\ PartsOf("server", expect["server"])
  BY DEF EdInv, EdTypeInv
<1> QED  BY <1>1, <1>2 DEF PartsOf

-----------------------------------------------------------------------------
-----------------------------------------------------------------------------
(* Images (Images). *)

Removes == {"delete", "prune"}
ImgSpoilt == {"crossed", "unmoved", "part"}

ImgTypeInv ==
  /\ imgRow \in [Fps -> [id : Nat, auto : BOOLEAN, cached : BOOLEAN, src : BOOLEAN]]
  /\ aliasOf \in [Names -> Nat] /\ wanted \subseteq Names
  /\ upstream \in Fps /\ nextImg \in Nat \ {0}
  /\ img = [r \in ImgReqs |-> img[r]]
  /\ \A f \in Fps : Row(f).id < nextImg /\ (Row(f).cached => Row(f).id # 0)
  /\ \A f, g \in Fps : Row(f).id # 0 /\ Row(f).id = Row(g).id => f = g

\* What a request is about.  An update that has another image (hash) is about
\* to remove the one it updates; the id a request has seen is nobody else's.
ImgRequestInv(q) ==
  /\ DOMAIN q = DOMAIN NoImg
  /\ q.at \in {"idle", "lock", "move", "moved", "fetch", "alias", "volumes", "pools", "fetched", "switch", "files", "row"}
  /\ q.at = "idle" <=> q.kind = "none"
  /\ q.at \in {"idle", "lock", "move", "moved", "fetch", "alias"} => q.kind \notin Removes \cup {"update"}
  /\ q.at = "volumes" => q.kind \in Removes
  /\ q.at \in {"pools", "fetched", "switch", "files"} => q.kind = "update"
  /\ q.at = "row" => q.kind \in Removes \cup {"update"}
  /\ q.kind \in Removes \cup {"update"} => q.id \in Nat \ {0} /\ q.id < nextImg /\ ~q.part /\ q.fp \in Fps
  /\ q.kind \notin Removes \cup {"update"} => q.id = 0
  /\ q.at \in {"lock", "move", "moved", "fetch", "alias"} => q.fp \in Fps
  /\ q.at = "pools" => q.hash = ""
  /\ q.kind = "update" /\ q.at \in {"switch", "files", "row"} => q.hash \notin {"", q.fp}
  /\ q.at = "switch" => q.new \in Nat \ {0} /\ q.new < nextImg /\ q.new # q.id

ImgIdInv(q) == \A f \in Fps : Row(f).id # 0 /\ Row(f).id = q.id => f = q.fp

\* An update that is about to remove the image it has another one for.
Replacing(q) == q.kind = "update" /\ q.at \in {"fetched", "files", "row"} /\ q.hash \notin {"", q.fp}

\* No alias is left of such an image.
ImgAliasInv ==
  /\ \A n \in wanted : aliasOf[n] # 0
  /\ \A r \in ImgReqs : Replacing(img[r]) => \A n \in Names : aliasOf[n] # img[r].id

\* Files and rows go together but for the requests between the two.
ImgFilesInv ==
  /\ \A f \in Fps : Row(f).id # 0 /\ f \notin imgFile =>
       \E r \in ImgReqs : img[r].id = Row(f).id /\ img[r].at = "row"
  /\ \A v \in imgVol : v[1] \in Fps /\ Row(v[1]).id # 0
  /\ imgFile \subseteq Fps
  /\ \A f \in imgFile : Row(f).id # 0 \/ \E r \in ImgReqs : img[r].fp = f /\ img[r].at = "moved"
  /\ \A r \in ImgReqs : img[r].at = "moved" => img[r].fp \in imgFile
  /\ \A r \in ImgReqs : img[r].at = "row" /\ Row(img[r].fp).id = img[r].id => img[r].fp \notin imgFile

ImgClean ==
  /\ ImgTypeInv /\ ImgAliasInv
  /\ \A r \in ImgReqs : ImgRequestInv(img[r]) /\ ImgIdInv(img[r])

\* Once a deletion has met the making of an image, or a step of an update has
\* failed, nothing more is said of the aliases; after other failures of files
\* and volumes neither.
ImgInv ==
  /\ imgMarks \cap ImgSpoilt = {} => ImgClean
  /\ imgMarks = {} => ImgFilesInv

\* The rows of a step: a row goes, stays or is made with the next id.
ImgRowsStep ==
  /\ nextImg' \in Nat \ {0} /\ nextImg' >= nextImg
  /\ \A f \in Fps : imgRow'[f].id \in {0, imgRow[f].id, nextImg}

LEMMA ImgMarksGrow == ASSUME ImagesNext PROVE imgMarks \subseteq imgMarks'
<1>1. ASSUME NEW r \in ImgReqs, NEW f \in Fps, NEW n \in Names, NEW k \in {"upload", "publish", "import"}, imagesPost(r, k, f, n)
      PROVE  imgMarks \subseteq imgMarks'
  BY <1>1 DEF imagesPost
<1>2. ASSUME NEW r \in ImgReqs, imgPostContInfo(r) \/ ImageInsert(r) \/ imgPostRemoteInfo(r)
      PROVE  imgMarks \subseteq imgMarks'
  BY <1>2 DEF imgPostContInfo, ImageInsert, imgPostRemoteInfo, ImgMark
<1>3. ASSUME NEW r \in ImgReqs, FileMove(r) \/ ApplyAlias(r) \/ RemoveRow(r) \/ RemoveRowFails(r)
      PROVE  imgMarks \subseteq imgMarks'
  BY <1>3 DEF FileMove, ApplyAlias, RemoveRow, RemoveRowFails, ImgMark
<1>4. ASSUME NEW r \in ImgReqs, NEW f \in Fps, imageDelete(r, f) \/ pruneExpiredImages(r, f) \/ autoUpdateImages(r, f)
      PROVE  imgMarks \subseteq imgMarks'
  BY <1>4 DEF imageDelete, pruneExpiredImages, autoUpdateImages
<1>5. ASSUME NEW r \in ImgReqs, NEW f \in Fps, NEW b \in BOOLEAN, imageRefresh(r, f, b)
      PROVE  imgMarks \subseteq imgMarks'
  BY <1>5 DEF imageRefresh, ImgMark
<1>6. ASSUME NEW r \in ImgReqs, NEW p \in ImgPools, doDeleteImageFromPool(r, p)
      PROVE  imgMarks \subseteq imgMarks'
  BY <1>6 DEF doDeleteImageFromPool, ImgMark
<1>7. ASSUME NEW r \in ImgReqs, RemoveFiles(r) \/ UpdatePools(r) \/ UpdateEnds(r)
      PROVE  imgMarks \subseteq imgMarks'
  BY <1>7 DEF RemoveFiles, UpdatePools, UpdateEnds, ImgMark
<1>8. ASSUME NEW r \in ImgReqs, NEW p \in ImgPools \cup {""}, UpdatePool(r, p)
      PROVE  imgMarks \subseteq imgMarks'
  BY <1>8 DEF UpdatePool
<1>9. ASSUME NEW r \in ImgReqs, UpdateSwitch(r)
      PROVE  imgMarks \subseteq imgMarks'
  BY <1>9 DEF UpdateSwitch, ImgMark
<1>10. ASSUME NEW n \in Names, aliasDelete(n) \/ (\E f \in Fps : aliasesPost(n, f) \/ aliasPut(n, f)) \/ \E to \in Names : aliasPost(n, to)
       PROVE  imgMarks \subseteq imgMarks'
  BY <1>10 DEF aliasDelete, aliasesPost, aliasPut, aliasPost, ImgMark
<1>11. ASSUME NEW f \in Fps, Publish(f) \/ \E b \in BOOLEAN : imagePut(f, b)
       PROVE  imgMarks \subseteq imgMarks'
  BY <1>11 DEF Publish, imagePut
<1> QED BY <1>1, <1>2, <1>3, <1>4, <1>5, <1>6, <1>7, <1>8, <1>9, <1>10, <1>11 DEF ImagesNext

\* What is known of a request stays true while the request is not changed.
LEMMA ImgRequestStays ==
  ASSUME NEW q, ImgTypeInv, ImgRequestInv(q), ImgIdInv(q), ImgRowsStep
  PROVE  ImgRequestInv(q)' /\ ImgIdInv(q)'
<1>1. nextImg \in Nat /\ nextImg' \in Nat /\ nextImg' >= nextImg
  BY DEF ImgTypeInv, ImgRowsStep
<1>2. q.id = 0 \/ (q.id \in Nat /\ q.id < nextImg)
  BY DEF ImgRequestInv
<1>3. ImgRequestInv(q)'
  <2>a. /\ q.kind \in Removes \cup {"update"} => q.id \in Nat /\ q.id < nextImg
        /\ q.at = "switch" => q.new \in Nat /\ q.new < nextImg
    BY DEF ImgRequestInv
  <2>1. q.kind \in Removes \cup {"update"} => q.id < nextImg'
    BY <1>1, <2>a
  <2>2. q.at = "switch" => q.new < nextImg'
    BY <1>1, <2>a
  <2> QED BY <2>1, <2>2 DEF ImgRequestInv
<1>4. ImgIdInv(q)'
  <2> SUFFICES ASSUME NEW f \in Fps, imgRow'[f].id # 0, imgRow'[f].id = q.id PROVE f = q.fp
    BY DEF ImgIdInv, Row
  <2>1. imgRow'[f].id # nextImg
    BY <1>1, <1>2
  <2>2. imgRow'[f].id = imgRow[f].id
    BY <2>1 DEF ImgRowsStep
  <2> QED BY <2>2 DEF ImgIdInv, Row
<1> QED BY <1>3, <1>4

ImgRequests == \A r \in ImgReqs : ImgRequestInv(img[r]) /\ ImgIdInv(img[r])

\* A step of one request, or of none.
LEMMA ImgRequestsStep ==
  ASSUME ImgTypeInv, ImgRequests, ImgRowsStep, NEW r, NEW q,
         img' = [img EXCEPT ![r] = q],
         r \in ImgReqs => ImgRequestInv(q)' /\ ImgIdInv(q)'
  PROVE  ImgRequests' /\ img' = [s \in ImgReqs |-> img'[s]]
<1>1. img' = [s \in ImgReqs |-> IF s = r THEN q ELSE img[s]]
  BY DEF ImgTypeInv
<1>2. ASSUME NEW s \in ImgReqs PROVE ImgRequestInv(img[s])' /\ ImgIdInv(img[s])'
  <2>1. PICK p : p = img[s] OBVIOUS
  <2>2. CASE s = r
    <3>1. img'[s] = q BY <1>1, <2>2
    <3> QED BY <2>2, <3>1 DEF ImgRequestInv, ImgIdInv
  <2>3. CASE s # r
    <3>1. img'[s] = p BY <1>1, <2>1, <2>3
    <3>2. ImgRequestInv(p) /\ ImgIdInv(p) BY <2>1 DEF ImgRequests
    <3>3. ImgRequestInv(p)' /\ ImgIdInv(p)' BY <3>2, ImgRequestStays
    <3> QED BY <3>1, <3>3 DEF ImgRequestInv, ImgIdInv
  <2> QED BY <2>2, <2>3
<1> QED BY <1>1, <1>2 DEF ImgRequests

LEMMA ImgRequestsStay ==
  ASSUME ImgTypeInv, ImgRequests, ImgRowsStep, UNCHANGED img
  PROVE  ImgRequests' /\ img' = [s \in ImgReqs |-> img'[s]]
<1>1. ASSUME NEW s \in ImgReqs PROVE ImgRequestInv(img[s])' /\ ImgIdInv(img[s])'
  <2>1. PICK p : p = img[s] OBVIOUS
  <2>2. ImgRequestInv(p) /\ ImgIdInv(p) BY <2>1 DEF ImgRequests
  <2>3. ImgRequestInv(p)' /\ ImgIdInv(p)' BY <2>2, ImgRequestStays
  <2> QED BY <2>1, <2>3 DEF ImgRequestInv, ImgIdInv
<1> QED BY <1>1 DEF ImgRequests, ImgTypeInv

\* The rows when none is written.
LEMMA ImgRowsStay ==
  ASSUME ImgTypeInv, UNCHANGED <<imgRow, nextImg>>
  PROVE  ImgRowsStep
BY DEF ImgTypeInv, ImgRowsStep

\* The rows when one is made, dbImageInsert.
LEMMA ImgRowsInsert ==
  ASSUME ImgTypeInv, NEW f \in Fps, NEW auto \in BOOLEAN, NEW src \in BOOLEAN, Row(f).id = 0,
         dbImageInsert(f, auto, src)
  PROVE  /\ ImgRowsStep
         /\ imgRow' \in [Fps -> [id : Nat, auto : BOOLEAN, cached : BOOLEAN, src : BOOLEAN]]
         /\ nextImg' = nextImg + 1 /\ nextImg' \in Nat \ {0}
         /\ imgRow'[f].id = nextImg /\ \A g \in Fps \ {f} : imgRow'[g] = imgRow[g]
         /\ \A g \in Fps : imgRow'[g].id < nextImg' /\ (imgRow'[g].cached => imgRow'[g].id # 0)
         /\ \A g, h \in Fps : imgRow'[g].id # 0 /\ imgRow'[g].id = imgRow'[h].id => g = h
<1>1. nextImg' = nextImg + 1 /\ nextImg' \in Nat \ {0} /\ nextImg \in Nat \ {0}
  BY DEF ImgTypeInv, dbImageInsert
<1>2. imgRow' = [g \in Fps |-> IF g = f THEN [id |-> nextImg, auto |-> auto, cached |-> FALSE, src |-> src] ELSE imgRow[g]]
  BY DEF ImgTypeInv, dbImageInsert
<1>3. imgRow'[f].id = nextImg /\ \A g \in Fps \ {f} : imgRow'[g] = imgRow[g]
  BY <1>2
<1>4. imgRow' \in [Fps -> [id : Nat, auto : BOOLEAN, cached : BOOLEAN, src : BOOLEAN]]
  BY <1>1, <1>2 DEF ImgTypeInv
<1>5. \A g \in Fps : imgRow[g].id \in Nat /\ imgRow[g].id < nextImg
  BY DEF ImgTypeInv, Row
<1>6. \A g \in Fps : imgRow'[g].id < nextImg' /\ (imgRow'[g].cached => imgRow'[g].id # 0)
  <2>1. imgRow'[f].id < nextImg' /\ imgRow'[f].id # 0 BY <1>1, <1>3
  <2>2. \A g \in Fps \ {f} : imgRow'[g].id < nextImg' /\ (imgRow'[g].cached => imgRow'[g].id # 0)
    BY <1>1, <1>3, <1>5 DEF ImgTypeInv, Row
  <2> QED BY <2>1, <2>2
<1>7. ImgRowsStep
  BY <1>1, <1>3 DEF ImgRowsStep
<1>8. ASSUME NEW g \in Fps, NEW h \in Fps, imgRow'[g].id # 0, imgRow'[g].id = imgRow'[h].id PROVE g = h
  <2>1. CASE g = f /\ h # f
    BY <2>1, <1>3, <1>5, <1>8, <1>1
  <2>2. CASE g # f /\ h = f
    BY <2>2, <1>3, <1>5, <1>8, <1>1
  <2>3. CASE g # f /\ h # f
    BY <2>3, <1>3, <1>8 DEF ImgTypeInv, Row
  <2> QED BY <2>1, <2>2, <2>3
<1> QED BY <1>1, <1>3, <1>4, <1>6, <1>7, <1>8

\* Files and volumes in a step in which no request comes between the two.
LEMMA ImgFilesQuiet ==
  ASSUME ImgFilesInv, imgFile' = imgFile, imgVol' \subseteq imgVol,
         \A f \in Fps : imgRow'[f].id = imgRow[f].id,
         \A r \in ImgReqs : img'[r] = img[r] \/ (img[r].at \notin {"moved", "row"} /\ img'[r].at \notin {"moved", "row"})
  PROVE  ImgFilesInv'
<1>1. ASSUME NEW f \in Fps, imgRow'[f].id # 0, f \notin imgFile'
      PROVE  \E r \in ImgReqs : img'[r].id = imgRow'[f].id /\ img'[r].at = "row"
  <2>1. PICK r \in ImgReqs : img[r].id = imgRow[f].id /\ img[r].at = "row" BY <1>1 DEF ImgFilesInv, Row
  <2>2. img'[r] = img[r] BY <2>1
  <2> QED BY <2>1, <2>2
<1>2. \A v \in imgVol' : v[1] \in Fps /\ imgRow'[v[1]].id # 0
  BY DEF ImgFilesInv, Row
<1>3. ASSUME NEW f \in imgFile' PROVE imgRow'[f].id # 0 \/ \E r \in ImgReqs : img'[r].fp = f /\ img'[r].at = "moved"
  <2>1. f \in Fps /\ f \in imgFile BY DEF ImgFilesInv
  <2>2. CASE imgRow[f].id # 0 BY <2>1, <2>2
  <2>3. CASE \E r \in ImgReqs : img[r].fp = f /\ img[r].at = "moved"
    <3>1. PICK r \in ImgReqs : img[r].fp = f /\ img[r].at = "moved" BY <2>3
    <3>2. img'[r] = img[r] BY <3>1
    <3> QED BY <3>1, <3>2
  <2> QED BY <2>1, <2>2, <2>3 DEF ImgFilesInv, Row
<1>4. ASSUME NEW r \in ImgReqs, img'[r].at = "moved" PROVE img'[r].fp \in imgFile'
  BY <1>4 DEF ImgFilesInv
<1>5. ASSUME NEW r \in ImgReqs, img'[r].at = "row", img'[r].fp \in Fps \/ img'[r].fp \notin Fps, imgRow'[img'[r].fp].id = img'[r].id
      PROVE img'[r].fp \notin imgFile'
  <2>1. img'[r] = img[r] BY <1>5
  <2>2. CASE img[r].fp \in Fps BY <1>5, <2>1, <2>2 DEF ImgFilesInv, Row
  <2>3. CASE img[r].fp \notin Fps BY <2>1, <2>3 DEF ImgFilesInv
  <2> QED BY <2>2, <2>3
<1> QED BY <1>1, <1>2, <1>3, <1>4, <1>5 DEF ImgFilesInv, Row

-----------------------------------------------------------------------------
(* The images step by step. *)

LEMMA ImgRest == ASSUME ImgTypeInv PROVE ImgRequestInv(NoImg) /\ ImgIdInv(NoImg) /\ ~ Replacing(NoImg)
BY DEF NoImg, ImgRequestInv, ImgIdInv, Replacing, Removes

LEMMA ImgParts == ImgClean <=> ImgTypeInv /\ ImgAliasInv /\ ImgRequests
BY DEF ImgClean, ImgRequests

\* A step of one request that writes neither rows nor aliases.
LEMMA ImgOneStep ==
  ASSUME ImgClean, NEW r \in ImgReqs, NEW q, img' = [img EXCEPT ![r] = q],
         UNCHANGED <<imgRow, nextImg, aliasOf, wanted, upstream>>,
         ImgRequestInv(q), ImgIdInv(q), Replacing(q) => Replacing(img[r]) /\ q.id = img[r].id
  PROVE  ImgClean'
<1>1. ImgTypeInv /\ ImgAliasInv /\ ImgRequests BY ImgParts
<1>2. ImgRowsStep BY <1>1, ImgRowsStay
<1>3. ImgRequestInv(q)' /\ ImgIdInv(q)' BY <1>1, <1>2, ImgRequestStays
<1>4. ImgRequests' /\ img' = [s \in ImgReqs |-> img'[s]] BY <1>1, <1>2, <1>3, ImgRequestsStep
<1>5. ImgTypeInv' BY <1>1, <1>4 DEF ImgTypeInv, Row
<1>6. img' = [s \in ImgReqs |-> IF s = r THEN q ELSE img[s]] BY <1>1 DEF ImgTypeInv
<1>7. ASSUME NEW s \in ImgReqs, Replacing(img[s])', NEW n \in Names PROVE aliasOf'[n] # img'[s].id
  <2>1. Replacing(img'[s]) BY <1>7 DEF Replacing
  <2>2. CASE s = r
    <3>1. img'[s] = q BY <1>6, <2>2
    <3>2. Replacing(img[r]) /\ q.id = img[r].id BY <2>1, <3>1
    <3> QED BY <1>1, <3>1, <3>2 DEF ImgAliasInv
  <2>3. CASE s # r
    <3>1. img'[s] = img[s] BY <1>6, <2>3
    <3> QED BY <1>1, <2>1, <3>1 DEF ImgAliasInv
  <2> QED BY <2>2, <2>3
<1>8. ImgAliasInv' BY <1>1, <1>7 DEF ImgAliasInv
<1> QED BY <1>4, <1>5, <1>8 DEF ImgClean, ImgRequests

LEMMA CleanPost ==
  ASSUME ImgClean, NEW r \in ImgReqs, NEW f \in Fps, NEW n \in Names, NEW k \in {"upload", "publish", "import"}, imagesPost(r, k, f, n)
  PROVE  ImgClean'
<1>1. PICK q : q = [NoImg EXCEPT !.kind = k, !.fp = f, !.name = n,
                      !.at = IF k = "upload" THEN "move" ELSE IF k = "publish" THEN "lock" ELSE "fetch"] OBVIOUS
<1>2. img' = [img EXCEPT ![r] = q] BY <1>1 DEF imagesPost
<1>3. ImgRequestInv(q) /\ ImgIdInv(q) /\ ~ Replacing(q)
  BY <1>1 DEF ImgRequestInv, ImgIdInv, Replacing, NoImg, Removes
<1> QED BY <1>2, <1>3, ImgOneStep DEF imagesPost

LEMMA CleanAsked ==
  ASSUME ImgClean, NEW r \in ImgReqs, NEW f \in Fps, NEW b \in BOOLEAN, imgMarks' \cap ImgSpoilt = {},
         imageDelete(r, f) \/ pruneExpiredImages(r, f) \/ autoUpdateImages(r, f) \/ imageRefresh(r, f, b)
  PROVE  ImgClean'
<1>1. Row(f).id \in Nat /\ Row(f).id < nextImg /\ \A g \in Fps : Row(g).id # 0 /\ Row(f).id = Row(g).id => f = g
  BY DEF ImgClean, ImgTypeInv, Row
<1>2. CASE (imageDelete(r, f) \/ pruneExpiredImages(r, f)) /\ Row(f).id # 0
  <2>1. PICK k \in Removes : img' = [img EXCEPT ![r] = [NoImg EXCEPT !.kind = k, !.at = "volumes", !.fp = f, !.id = Row(f).id, !.left = dbImageGetPools(f)]]
    BY <1>2 DEF imageDelete, pruneExpiredImages, Removes
  <2>2. PICK q : q = [NoImg EXCEPT !.kind = k, !.at = "volumes", !.fp = f, !.id = Row(f).id, !.left = dbImageGetPools(f)] OBVIOUS
  <2>3. ImgRequestInv(q) /\ ImgIdInv(q) /\ ~ Replacing(q)
    BY <1>1, <1>2, <2>2 DEF ImgRequestInv, ImgIdInv, Replacing, NoImg, Removes
  <2> QED BY <1>2, <2>1, <2>2, <2>3, ImgOneStep DEF imageDelete, pruneExpiredImages
<1>3. CASE autoUpdateImages(r, f)
  <2>1. PICK q : q = [NoImg EXCEPT !.kind = "update", !.at = "pools", !.fp = f, !.id = Row(f).id] OBVIOUS
  <2>2. img' = [img EXCEPT ![r] = q] /\ Row(f).id # 0
    BY <1>3, <2>1 DEF autoUpdateImages
  <2>3. ImgRequestInv(q) /\ ImgIdInv(q) /\ ~ Replacing(q)
    BY <1>1, <2>1, <2>2 DEF ImgRequestInv, ImgIdInv, Replacing, NoImg, Removes
  <2> QED BY <1>3, <2>2, <2>3, ImgOneStep DEF autoUpdateImages
<1>5. CASE imageRefresh(r, f, b)
  <2>1. PICK q : q = [NoImg EXCEPT !.kind = "update", !.at = "pools", !.fp = f, !.id = Row(f).id, !.part = b] OBVIOUS
  <2>2. img' = [img EXCEPT ![r] = q] /\ Row(f).id # 0 /\ ~b
    BY <1>5, <2>1 DEF imageRefresh, ImgMark, ImgSpoilt
  <2>3. ImgRequestInv(q) /\ ImgIdInv(q) /\ ~ Replacing(q)
    BY <1>1, <2>1, <2>2 DEF ImgRequestInv, ImgIdInv, Replacing, NoImg, Removes
  <2> QED BY <1>5, <2>2, <2>3, ImgOneStep DEF imageRefresh
<1>4. pruneExpiredImages(r, f) => Row(f).id # 0
  BY DEF pruneExpiredImages, ImgClean, ImgTypeInv
<1> QED BY <1>2, <1>3, <1>4, <1>5 DEF imageDelete

\* The steps of a request of which only the place, or what is left, changes.
LEMMA CleanGoes ==
  ASSUME ImgClean, NEW r \in ImgReqs, imgMarks' \cap ImgSpoilt = {},
         imgPostContInfo(r) \/ FileMove(r) \/ RemoveFiles(r) \/ RemoveRowFails(r) \/ UpdatePools(r) \/ UpdateEnds(r)
           \/ \E p \in ImgPools : doDeleteImageFromPool(r, p)
  PROVE  ImgClean'
<1> USE DEF ImgEnds, ImgGoes
<1>1. ImgTypeInv /\ ImgRequestInv(img[r]) /\ ImgIdInv(img[r]) BY DEF ImgClean
<1>2. PICK q : q = img[r] OBVIOUS
<1>3. ImgRequestInv(q) /\ ImgIdInv(q) BY <1>1, <1>2
<1>4. img = [s \in ImgReqs |-> img[s]] BY <1>1 DEF ImgTypeInv
<1>5. UNCHANGED <<imgRow, nextImg, aliasOf, wanted, upstream>>
  BY DEF imgPostContInfo, FileMove, RemoveFiles, RemoveRowFails, UpdatePools, UpdateEnds, doDeleteImageFromPool
<1>6. ASSUME ImgEnds(r) PROVE ImgClean'
  BY <1>1, <1>5, <1>6, ImgRest, ImgOneStep
<1>7. ASSUME NEW at, img' = [img EXCEPT ![r].at = at],
             \/ q.at = "lock" /\ at = "move"
             \/ q.at = "move" /\ at = "moved"
             \/ q.at \in {"volumes", "files"} /\ at = "row"
             \/ q.at = "fetched" /\ at = "files" /\ q.hash \notin {"", q.fp}
      PROVE ImgClean'
  <2>1. PICK p : p = [q EXCEPT !.at = at] OBVIOUS
  <2>2. DOMAIN q = DOMAIN NoImg BY <1>3 DEF ImgRequestInv
  <2>3. /\ DOMAIN p = DOMAIN NoImg /\ p.at = at /\ p.kind = q.kind /\ p.fp = q.fp /\ p.id = q.id
        /\ p.hash = q.hash /\ p.part = q.part /\ p.new = q.new
    BY <2>1, <2>2 DEF NoImg
  <2>4. img' = [img EXCEPT ![r] = p] BY <1>7, <1>2, <2>1
  <2>5. ImgRequestInv(p) BY <1>3, <1>7, <2>3 DEF ImgRequestInv, Removes
  <2>6. ImgIdInv(p) BY <1>3, <2>3 DEF ImgIdInv
  <2>7. Replacing(p) => Replacing(img[r]) /\ p.id = img[r].id
    BY <1>2, <1>3, <1>7, <2>3 DEF Replacing, ImgRequestInv, Removes
  <2> QED BY <1>5, <2>4, <2>5, <2>6, <2>7, ImgOneStep
<1>8. ASSUME NEW left, img' = [img EXCEPT ![r].left = left] PROVE ImgClean'
  <2>1. PICK p : p = [q EXCEPT !.left = left] OBVIOUS
  <2>2. DOMAIN q = DOMAIN NoImg BY <1>3 DEF ImgRequestInv
  <2>3. /\ DOMAIN p = DOMAIN NoImg /\ p.at = q.at /\ p.kind = q.kind /\ p.fp = q.fp /\ p.id = q.id
        /\ p.hash = q.hash /\ p.part = q.part /\ p.new = q.new
    BY <2>1, <2>2 DEF NoImg
  <2>4. img' = [img EXCEPT ![r] = p] BY <1>8, <1>2, <2>1
  <2>5. ImgRequestInv(p) BY <1>3, <2>3 DEF ImgRequestInv
  <2>6. ImgIdInv(p) BY <1>3, <2>3 DEF ImgIdInv
  <2>7. Replacing(p) => Replacing(img[r]) /\ p.id = img[r].id BY <1>2, <2>3 DEF Replacing
  <2> QED BY <1>5, <2>4, <2>5, <2>6, <2>7, ImgOneStep
<1>9. CASE imgPostContInfo(r) BY <1>2, <1>6, <1>7, <1>9 DEF imgPostContInfo
<1>10. CASE FileMove(r) BY <1>2, <1>6, <1>7, <1>10 DEF FileMove
<1>11. CASE RemoveFiles(r) BY <1>2, <1>7, <1>11 DEF RemoveFiles
<1>16. CASE RemoveRowFails(r) BY <1>6, <1>16 DEF RemoveRowFails
<1>12. CASE UpdatePools(r)
  <2>1. CASE ImgEnds(r) BY <2>1, <1>6
  <2>2. CASE ~ ImgEnds(r)
    <3>1. PICK left : img' = [img EXCEPT ![r].at = "fetched", ![r].left = left]
      BY <1>12, <2>2 DEF UpdatePools
    <3>2. PICK p : p = [q EXCEPT !.at = "fetched", !.left = left] OBVIOUS
    <3>3. DOMAIN q = DOMAIN NoImg BY <1>3 DEF ImgRequestInv
    <3>4. /\ DOMAIN p = DOMAIN NoImg /\ p.at = "fetched" /\ p.kind = q.kind /\ p.fp = q.fp /\ p.id = q.id
          /\ p.hash = q.hash /\ p.part = q.part /\ p.new = q.new
      BY <3>2, <3>3 DEF NoImg
    <3>5. img' = [img EXCEPT ![r] = p]
      <4>1. img' = [s \in ImgReqs |-> IF s = r THEN [img[r] EXCEPT !.at = "fetched", !.left = left] ELSE img[s]]
        BY <3>1, <1>4
      <4> QED BY <1>2, <3>2, <4>1, <1>4
    <3>6. q.at = "pools" BY <1>2, <1>12 DEF UpdatePools
    <3>7. ImgRequestInv(p) /\ p.hash = "" BY <1>3, <3>4, <3>6 DEF ImgRequestInv, Removes
    <3>8. ImgIdInv(p) /\ ~ Replacing(p) BY <1>3, <3>4, <3>7 DEF ImgIdInv, Replacing
    <3> QED BY <1>5, <3>5, <3>7, <3>8, ImgOneStep
  <2> QED BY <2>1, <2>2
<1>13. CASE UpdateEnds(r)
  <2>1. CASE ImgEnds(r) BY <2>1, <1>6
  <2>2. CASE ~ ImgEnds(r)
    <3>1. q.at = "fetched" /\ img' = [img EXCEPT ![r].at = "files"]
      BY <1>2, <1>13, <2>2 DEF UpdateEnds
    <3>2. ~q.part BY <1>3, <3>1 DEF ImgRequestInv, Removes
    <3>3. q.hash \notin {"", q.fp} BY <1>2, <1>13, <2>2, <3>2 DEF UpdateEnds
    <3> QED BY <3>1, <3>3, <1>7
  <2> QED BY <2>1, <2>2
<1>14. ASSUME NEW p \in ImgPools, doDeleteImageFromPool(r, p) PROVE ImgClean'
  <2>1. ImgEnds(r) \/ img' = [img EXCEPT ![r].left = @ \ {p}] BY <1>14 DEF doDeleteImageFromPool
  <2>2. ASSUME img' = [img EXCEPT ![r].left = @ \ {p}] PROVE ImgClean'
    <3>1. img' = [img EXCEPT ![r].left = img[r].left \ {p}] BY <2>2
    <3> QED BY <3>1, <1>8
  <2> QED BY <2>1, <2>2, <1>6
<1> QED BY <1>9, <1>10, <1>11, <1>12, <1>13, <1>14, <1>16

\* A step that makes a row, or finds it, and gives the request q.
LEMMA ImgRowStep ==
  ASSUME ImgClean, NEW r \in ImgReqs, NEW q, img' = [img EXCEPT ![r] = q],
         NEW f \in Fps, NEW auto \in BOOLEAN, NEW src \in BOOLEAN,
         \/ Row(f).id # 0 /\ UNCHANGED <<imgRow, nextImg>>
         \/ Row(f).id = 0 /\ dbImageInsert(f, auto, src),
         UNCHANGED <<aliasOf, wanted, upstream>>,
         ImgRequestInv(q)', ImgIdInv(q)', ~ Replacing(q)
  PROVE  ImgClean'
<1>1. ImgTypeInv /\ ImgAliasInv /\ ImgRequests BY ImgParts
<1>2. /\ ImgRowsStep
      /\ imgRow' \in [Fps -> [id : Nat, auto : BOOLEAN, cached : BOOLEAN, src : BOOLEAN]]
      /\ nextImg' \in Nat \ {0}
      /\ \A g \in Fps : imgRow'[g].id < nextImg' /\ (imgRow'[g].cached => imgRow'[g].id # 0)
      /\ \A g, h \in Fps : imgRow'[g].id # 0 /\ imgRow'[g].id = imgRow'[h].id => g = h
  <2>1. CASE Row(f).id # 0 /\ UNCHANGED <<imgRow, nextImg>>
    BY <1>1, <2>1, ImgRowsStay DEF ImgTypeInv, Row
  <2>2. CASE Row(f).id = 0 /\ dbImageInsert(f, auto, src)
    BY <1>1, <2>2, ImgRowsInsert
  <2> QED BY <2>1, <2>2
<1>4. ImgRequests' /\ img' = [s \in ImgReqs |-> img'[s]] BY <1>1, <1>2, ImgRequestsStep
<1>5. ImgTypeInv' BY <1>1, <1>2, <1>4 DEF ImgTypeInv, Row
<1>6. img' = [s \in ImgReqs |-> IF s = r THEN q ELSE img[s]] BY <1>1 DEF ImgTypeInv
<1>7. ASSUME NEW s \in ImgReqs, Replacing(img[s])', NEW n \in Names PROVE aliasOf'[n] # img'[s].id
  <2>1. Replacing(img'[s]) BY <1>7 DEF Replacing
  <2>2. s # r BY <1>6, <2>1
  <2>3. img'[s] = img[s] BY <1>6, <2>2
  <2> QED BY <1>1, <2>1, <2>3 DEF ImgAliasInv
<1>8. ImgAliasInv' BY <1>1, <1>7 DEF ImgAliasInv
<1> QED BY <1>4, <1>5, <1>8 DEF ImgClean, ImgRequests

\* ImageDownload makes the row of the remote alias, or finds it.
LEMMA ImgDownloadRow ==
  ASSUME NEW p, ImageDownload(p)
  PROVE  \/ Row(upstream).id # 0 /\ UNCHANGED <<imgRow, nextImg>>
         \/ Row(upstream).id = 0 /\ dbImageInsert(upstream, TRUE, TRUE)
BY DEF ImageDownload

LEMMA CleanInsert ==
  ASSUME ImgClean, NEW r \in ImgReqs, ImageInsert(r) \/ imgPostRemoteInfo(r)
  PROVE  ImgClean'
<1> USE DEF ImgEnds, ImgGoes
<1>1. ImgTypeInv /\ ImgRequestInv(img[r]) /\ ImgIdInv(img[r]) /\ upstream \in Fps BY DEF ImgClean, ImgTypeInv
<1>2. PICK q : q = img[r] OBVIOUS
<1>3. ImgRequestInv(q) /\ ImgIdInv(q) BY <1>1, <1>2
<1>4. DOMAIN q = DOMAIN NoImg BY <1>3 DEF ImgRequestInv
<1>5. ASSUME ImgEnds(r), UNCHANGED <<imgRow, nextImg, aliasOf, wanted, upstream>> PROVE ImgClean'
  BY <1>1, <1>5, ImgRest, ImgOneStep
<1>6. ASSUME NEW f \in Fps, NEW src \in BOOLEAN, NEW auto \in BOOLEAN, q.at \in {"moved", "fetch"},
             img' = [img EXCEPT ![r] = [q EXCEPT !.at = "alias", !.fp = f]],
             \/ Row(f).id # 0 /\ UNCHANGED <<imgRow, nextImg>>
             \/ Row(f).id = 0 /\ dbImageInsert(f, auto, src),
             UNCHANGED <<aliasOf, wanted, upstream>>
      PROVE  ImgClean'
  <2>1. PICK p : p = [q EXCEPT !.at = "alias", !.fp = f] OBVIOUS
  <2>2. /\ DOMAIN p = DOMAIN NoImg /\ p.at = "alias" /\ p.kind = q.kind /\ p.fp = f /\ p.id = q.id
    BY <2>1, <1>4 DEF NoImg
  <2>3. q.kind \notin Removes \cup {"update"} /\ q.kind # "none" /\ q.id = 0 BY <1>3, <1>6 DEF ImgRequestInv
  <2>4. ImgRequestInv(p)' BY <2>2, <2>3 DEF ImgRequestInv
  <2>5. ImgIdInv(p)' /\ ~ Replacing(p) BY <2>2, <2>3 DEF ImgIdInv, Replacing
  <2>6. img' = [img EXCEPT ![r] = p] BY <1>6, <2>1
  <2> QED BY <1>6, <2>4, <2>5, <2>6, ImgRowStep
<1>7. CASE ImageInsert(r)
  <2>1. q.at = "moved" /\ UNCHANGED <<aliasOf, wanted, upstream>> BY <1>2, <1>7 DEF ImageInsert
  <2>2. CASE ImgEnds(r) /\ UNCHANGED <<imgRow, nextImg>> BY <2>1, <2>2, <1>5
  <2>3. CASE Row(img[r].fp).id = 0 /\ dbImageInsert(img[r].fp, FALSE, FALSE) /\ ImgGoes(r, "alias")
    <3>1. q.fp \in Fps BY <1>3, <2>1 DEF ImgRequestInv
    <3>2. [q EXCEPT !.at = "alias"] = [q EXCEPT !.at = "alias", !.fp = q.fp] BY <1>4 DEF NoImg
    <3>3. img' = [img EXCEPT ![r] = [q EXCEPT !.at = "alias", !.fp = q.fp]] BY <2>3, <1>2, <3>2
    <3>4. Row(q.fp).id = 0 /\ dbImageInsert(q.fp, FALSE, FALSE) BY <2>3, <1>2
    <3> QED BY <2>1, <3>1, <3>3, <3>4, <1>6
  <2> QED BY <2>2, <2>3, <1>7 DEF ImageInsert
<1>8. CASE imgPostRemoteInfo(r)
  <2>1. q.at = "fetch" /\ UNCHANGED <<aliasOf, wanted, upstream>> BY <1>2, <1>8 DEF imgPostRemoteInfo
  <2>2. CASE ImgEnds(r) /\ UNCHANGED <<imgRow, nextImg>> BY <2>1, <2>2, <1>5
  <2>3. CASE ImageDownload("") /\ img' = [img EXCEPT ![r].at = "alias", ![r].fp = upstream]
    <3>1. img' = [img EXCEPT ![r] = [q EXCEPT !.at = "alias", !.fp = upstream]]
      <4>1. img' = [s \in ImgReqs |-> IF s = r THEN [img[r] EXCEPT !.at = "alias", !.fp = upstream] ELSE img[s]]
        BY <2>3, <1>1 DEF ImgTypeInv
      <4> QED BY <4>1, <1>1, <1>2 DEF ImgTypeInv
    <3>2. \/ Row(upstream).id # 0 /\ UNCHANGED <<imgRow, nextImg>>
          \/ Row(upstream).id = 0 /\ dbImageInsert(upstream, TRUE, TRUE)
      BY <2>3, ImgDownloadRow
    <3> QED BY <1>1, <2>1, <3>1, <3>2, <1>6
  <2> QED BY <2>2, <2>3, <1>8 DEF imgPostRemoteInfo
<1> QED BY <1>7, <1>8

LEMMA Lower == ASSUME NEW a \in Nat, NEW b \in Nat, a < b PROVE a # b /\ b # 0 /\ a < b + 1 /\ b < b + 1
OBVIOUS

LEMMA CleanUpdatePool ==
  ASSUME ImgClean, NEW r \in ImgReqs, NEW p \in ImgPools \cup {""}, UpdatePool(r, p)
  PROVE  ImgClean'
<1>1. ImgTypeInv /\ ImgRequestInv(img[r]) /\ ImgIdInv(img[r]) /\ upstream \in Fps BY DEF ImgClean, ImgTypeInv
<1>2. PICK q : q = img[r] OBVIOUS
<1>3. ImgRequestInv(q) /\ ImgIdInv(q) BY <1>1, <1>2
<1>4. DOMAIN q = DOMAIN NoImg BY <1>3 DEF ImgRequestInv
<1>5. q.at = "fetched" /\ q.kind = "update" /\ q.id \in Nat \ {0} /\ q.id < nextImg /\ ~q.part /\ q.fp \in Fps
  BY <1>2, <1>3 DEF UpdatePool, ImgRequestInv, Removes
<1>6. UNCHANGED <<aliasOf, wanted, upstream>> BY DEF UpdatePool
<1>7. CASE UNCHANGED <<imgRow, nextImg>> /\ img' = [img EXCEPT ![r].left = @ \ {p}]
  <2>1. PICK x : x = [q EXCEPT !.left = q.left \ {p}] OBVIOUS
  <2>2. img' = [img EXCEPT ![r] = x] BY <1>2, <1>7, <2>1
  <2>3. /\ DOMAIN x = DOMAIN NoImg /\ x.at = q.at /\ x.kind = q.kind /\ x.fp = q.fp /\ x.id = q.id
        /\ x.hash = q.hash /\ x.part = q.part /\ x.new = q.new
    BY <2>1, <1>4 DEF NoImg
  <2>4. ImgRequestInv(x) BY <1>3, <2>3 DEF ImgRequestInv
  <2>5. ImgIdInv(x) BY <1>3, <2>3 DEF ImgIdInv
  <2>6. Replacing(x) => Replacing(img[r]) /\ x.id = img[r].id BY <1>2, <2>3 DEF Replacing
  <2> QED BY <1>6, <1>7, <2>2, <2>4, <2>5, <2>6, ImgOneStep
<1>8. CASE /\ ImageDownload(p)
           /\ img' = [img EXCEPT ![r].left = @ \ {p}, ![r].name = IF upstream = img[r].fp /\ ~img[r].part THEN "" ELSE p,
                              ![r].new = IF Row(upstream).id # 0 THEN Row(upstream).id ELSE nextImg,
                              ![r].hash = upstream,
                              ![r].at = IF upstream = img[r].fp /\ ~img[r].part THEN "fetched" ELSE "switch"]
  <2>1. PICK x : x = [q EXCEPT !.left = q.left \ {p}, !.name = IF upstream = q.fp /\ ~q.part THEN "" ELSE p,
                              !.new = IF Row(upstream).id # 0 THEN Row(upstream).id ELSE nextImg,
                              !.hash = upstream,
                              !.at = IF upstream = q.fp /\ ~q.part THEN "fetched" ELSE "switch"] OBVIOUS
  <2>2. img' = [img EXCEPT ![r] = x]
    <3>1. img' = [s \in ImgReqs |-> IF s = r THEN
             [img[r] EXCEPT !.left = img[r].left \ {p}, !.name = IF upstream = img[r].fp /\ ~img[r].part THEN "" ELSE p,
                              !.new = IF Row(upstream).id # 0 THEN Row(upstream).id ELSE nextImg,
                              !.hash = upstream,
                              !.at = IF upstream = img[r].fp /\ ~img[r].part THEN "fetched" ELSE "switch"]
             ELSE img[s]]
      BY <1>1, <1>4, <1>2, <1>8 DEF ImgTypeInv, NoImg
    <3>2. img' = [s \in ImgReqs |-> IF s = r THEN x ELSE img[s]]
      BY <3>1, <1>2, <2>1
    <3> QED BY <3>2, <1>1 DEF ImgTypeInv
  <2>3. /\ DOMAIN x = DOMAIN NoImg /\ x.kind = "update" /\ x.fp = q.fp /\ x.id = q.id /\ x.part = q.part
        /\ x.hash = upstream
        /\ x.at = IF upstream = q.fp THEN "fetched" ELSE "switch"
        /\ x.new = IF Row(upstream).id # 0 THEN Row(upstream).id ELSE nextImg
    BY <2>1, <1>4, <1>5 DEF NoImg
  <2>4. \/ Row(upstream).id # 0 /\ UNCHANGED <<imgRow, nextImg>>
        \/ Row(upstream).id = 0 /\ dbImageInsert(upstream, TRUE, TRUE)
    BY <1>8, ImgDownloadRow
  <2>5. ~ Replacing(x) BY <2>3 DEF Replacing
  <2>a. PICK id : id = Row(upstream).id OBVIOUS
  <2>b. id \in Nat /\ id < nextImg /\ nextImg \in Nat \ {0} BY <1>1, <2>a DEF ImgTypeInv, Row
  <2>c. nextImg' = nextImg \/ (id = 0 /\ nextImg' = nextImg + 1) BY <2>4, <2>a DEF dbImageInsert
  <2>d. id # 0 => nextImg' = nextImg BY <2>4, <2>a
  <2>e. id = 0 => nextImg' = nextImg + 1 BY <2>4, <2>a DEF dbImageInsert
  <2>f. x.new = IF id # 0 THEN id ELSE nextImg BY <2>3, <2>a
  <2>7. upstream # q.fp => x.new # q.id
    <3>1. id # 0 /\ id = q.id => upstream = q.fp
      BY <1>1, <1>3, <2>a DEF ImgIdInv
    <3>2. PICK i : i = q.id /\ i \in Nat /\ i < nextImg BY <1>5
    <3>3. CASE id = 0
      <4>1. x.new = nextImg BY <2>f, <3>3
      <4>2. i # nextImg BY <3>2, <2>b, Lower
      <4> QED BY <4>1, <4>2, <3>2
    <3>4. CASE id # 0 BY <2>f, <3>1, <3>4
    <3> QED BY <3>3, <3>4
  <2>8. x.new \in Nat \ {0} /\ x.new < nextImg' /\ q.id < nextImg'
    <3>1. CASE id = 0
      <4>1. x.new = nextImg BY <2>f, <3>1
      <4>2. nextImg' = nextImg + 1 BY <2>e, <3>1
      <4>3. PICK i : i = q.id /\ i \in Nat /\ i < nextImg BY <1>5
      <4>4. nextImg \in Nat \ {0} /\ nextImg < nextImg' /\ i < nextImg' BY <4>2, <4>3, <2>b, Lower
      <4> QED BY <4>1, <4>3, <4>4
    <3>2. CASE id # 0
      <4>1. x.new = id BY <2>f, <3>2
      <4>2. nextImg' = nextImg BY <2>d, <3>2
      <4> QED BY <4>1, <4>2, <2>b, <3>2, <1>5
    <3> QED BY <3>1, <3>2
  <2>9. upstream # "" BY <1>1, ImagesAssumption
  <2>10. ImgRequestInv(x)' BY <1>5, <2>3, <2>7, <2>8, <2>9 DEF ImgRequestInv, Removes
  <2>11. ImgRowsStep
    <3>1. CASE Row(upstream).id # 0 /\ UNCHANGED <<imgRow, nextImg>> BY <3>1, <1>1, ImgRowsStay
    <3>2. CASE Row(upstream).id = 0 /\ dbImageInsert(upstream, TRUE, TRUE) BY <3>2, <1>1, ImgRowsInsert
    <3> QED BY <2>4, <3>1, <3>2
  <2>12. ImgIdInv(q)' BY <1>1, <1>3, <2>11, ImgRequestStays
  <2>13. ImgIdInv(x)' BY <2>12, <2>3 DEF ImgIdInv
  <2> QED BY <1>1, <1>6, <2>2, <2>4, <2>5, <2>10, <2>13, ImgRowStep
<1> QED BY <1>7, <1>8 DEF UpdatePool

\* A step that writes aliases alone.
LEMMA ImgAliasStep ==
  ASSUME ImgClean, UNCHANGED <<imgRow, nextImg, img>>, upstream' \in Fps,
         aliasOf' \in [Names -> Nat], wanted' \subseteq Names, \A n \in wanted' : aliasOf'[n] # 0,
         \A n \in Names : \/ aliasOf'[n] \in {0} \cup {aliasOf[m] : m \in Names}
                          \/ \A s \in ImgReqs : Replacing(img[s]) => aliasOf'[n] # img[s].id
  PROVE  ImgClean'
<1>1. ImgTypeInv /\ ImgAliasInv /\ ImgRequests BY ImgParts
<1>2. ImgRequests' BY <1>1, ImgRowsStay, ImgRequestsStay
<1>3. ImgTypeInv' BY <1>1 DEF ImgTypeInv, Row
<1>4. ASSUME NEW s \in ImgReqs, Replacing(img[s])', NEW n \in Names PROVE aliasOf'[n] # img'[s].id
  <2>1. Replacing(img[s]) /\ img'[s].id = img[s].id BY <1>4 DEF Replacing
  <2>2. img[s].id # 0
    <3>1. ImgRequestInv(img[s]) BY <1>1 DEF ImgRequests
    <3> QED BY <2>1, <3>1 DEF ImgRequestInv, Replacing, Removes
  <2>3. CASE aliasOf'[n] = 0 BY <2>1, <2>2, <2>3
  <2>4. ASSUME NEW m \in Names, aliasOf'[n] = aliasOf[m] PROVE aliasOf'[n] # img'[s].id
    BY <1>1, <2>1, <2>4 DEF ImgAliasInv
  <2> QED BY <2>1, <2>3, <2>4
<1>5. ImgAliasInv' BY <1>4 DEF ImgAliasInv
<1> QED BY <1>2, <1>3, <1>5 DEF ImgClean, ImgRequests

\* The mark of an alias that is made of an image somebody is replacing.
LEMMA ImgDoomed ==
  ASSUME ImgClean, NEW id, Doomed(id) \cap ImgSpoilt = {}, NEW s \in ImgReqs, Replacing(img[s])
  PROVE  id # img[s].id
BY DEF Doomed, ImgSpoilt, Replacing

LEMMA CleanAliases ==
  ASSUME ImgClean, imgMarks' \cap ImgSpoilt = {}, NEW n \in Names,
         aliasDelete(n) \/ (\E f \in Fps : aliasesPost(n, f) \/ aliasPut(n, f)) \/ \E to \in Names : aliasPost(n, to)
  PROVE  ImgClean'
<1>1. ImgTypeInv /\ ImgAliasInv BY ImgParts
<1>2. aliasOf \in [Names -> Nat] /\ wanted \subseteq Names /\ \A m \in wanted : aliasOf[m] # 0
  BY <1>1 DEF ImgTypeInv, ImgAliasInv
<1>3. UNCHANGED <<imgRow, nextImg, img, upstream>> /\ upstream \in Fps
  BY <1>1 DEF aliasDelete, aliasesPost, aliasPut, aliasPost, ImgTypeInv
<1>4. CASE aliasDelete(n)
  BY <1>2, <1>3, <1>4, ImgAliasStep DEF aliasDelete
<1>5. ASSUME NEW f \in Fps, aliasesPost(n, f) \/ aliasPut(n, f) PROVE ImgClean'
  <2>1. PICK id \in Nat \ {0} : id = Row(f).id
    BY <1>1, <1>5 DEF aliasesPost, aliasPut, ImgTypeInv, Row
  <2>2. aliasOf' = [aliasOf EXCEPT ![n] = id] /\ wanted' \in {wanted, wanted \cup {n}}
    BY <1>5, <2>1 DEF aliasesPost, aliasPut
  <2>3. Doomed(id) \cap ImgSpoilt = {}
    BY <1>5, <2>1 DEF aliasesPost, aliasPut, ImgMark
  <2>4. \A s \in ImgReqs : Replacing(img[s]) => id # img[s].id BY <2>3, ImgDoomed
  <2>5. \A m \in Names : aliasOf'[m] \in {aliasOf[m], id} BY <1>2, <2>2
  <2>6. aliasOf' \in [Names -> Nat] /\ wanted' \subseteq Names /\ \A m \in wanted' : aliasOf'[m] # 0
    BY <1>2, <2>1, <2>2
  <2> QED BY <1>3, <2>4, <2>5, <2>6, ImgAliasStep
<1>6. ASSUME NEW to \in Names, aliasPost(n, to) PROVE ImgClean'
  <2>1. aliasOf' = [m \in Names |-> IF m = to THEN aliasOf[n] ELSE IF m = n THEN 0 ELSE aliasOf[m]]
    BY <1>2, <1>6 DEF aliasPost
  <2>2. wanted' = (wanted \ {n}) \cup {to} /\ aliasOf[n] # 0 BY <1>6 DEF aliasPost
  <2>3. aliasOf' \in [Names -> Nat] /\ wanted' \subseteq Names /\ \A m \in wanted' : aliasOf'[m] # 0
    BY <1>2, <2>1, <2>2
  <2>4. \A m \in Names : aliasOf'[m] \in {0} \cup {aliasOf[x] : x \in Names} BY <2>1
  <2> QED BY <1>3, <2>3, <2>4, ImgAliasStep
<1> QED BY <1>4, <1>5, <1>6

LEMMA CleanApply ==
  ASSUME ImgClean, imgMarks' \cap ImgSpoilt = {}, NEW r \in ImgReqs, ApplyAlias(r)
  PROVE  ImgClean'
<1>1. ImgTypeInv /\ ImgAliasInv /\ ImgRequests BY ImgParts
<1>2. aliasOf \in [Names -> Nat] /\ wanted \subseteq Names /\ \A m \in wanted : aliasOf[m] # 0 /\ upstream \in Fps
  BY <1>1 DEF ImgTypeInv, ImgAliasInv
<1>3. UNCHANGED <<imgRow, nextImg, upstream>> /\ img' = [img EXCEPT ![r] = NoImg]
  BY DEF ApplyAlias, ImgEnds
<1>4. CASE UNCHANGED <<aliasOf, wanted>> BY <1>1, <1>3, <1>4, ImgRest, ImgOneStep
<1>5. CASE LET n == img[r].name IN
             /\ n \in Names /\ Row(img[r].fp).id # 0
             /\ aliasOf' = [aliasOf EXCEPT ![n] = Row(img[r].fp).id] /\ wanted' = wanted \cup {n} /\ ImgMark(Doomed(Row(img[r].fp).id))
  <2>1. PICK n \in Names : n = img[r].name BY <1>5
  <2>2. img[r].fp \in Fps
    <3>1. ImgRequestInv(img[r]) BY <1>1 DEF ImgRequests
    <3> QED BY <3>1 DEF ImgRequestInv, ApplyAlias
  <2>3. PICK id \in Nat \ {0} : id = Row(img[r].fp).id BY <1>1, <1>5, <2>2 DEF ImgTypeInv, Row
  <2>4. aliasOf' = [aliasOf EXCEPT ![n] = id] /\ wanted' = wanted \cup {n} BY <1>5, <2>1, <2>3
  <2>5. Doomed(id) \cap ImgSpoilt = {} BY <1>5, <2>3 DEF ImgMark
  <2>6. \A s \in ImgReqs : Replacing(img[s]) => id # img[s].id BY <2>5, ImgDoomed
  <2>7. aliasOf' \in [Names -> Nat] /\ wanted' \subseteq Names /\ \A m \in wanted' : aliasOf'[m] # 0
    BY <1>2, <2>4
  <2>8. ImgRowsStep BY <1>1, <1>3, ImgRowsStay
  <2>9. ImgRequestInv(NoImg)' /\ ImgIdInv(NoImg)' BY <1>1, <2>8, ImgRest, ImgRequestStays
  <2>10. ImgRequests' /\ img' = [s \in ImgReqs |-> img'[s]] BY <1>1, <1>3, <2>8, <2>9, ImgRequestsStep
  <2>11. ImgTypeInv' BY <1>1, <1>3, <2>7, <2>10 DEF ImgTypeInv, Row
  <2>12. ASSUME NEW s \in ImgReqs, Replacing(img[s])', NEW m \in Names PROVE aliasOf'[m] # img'[s].id
    <3>0. img' = [x \in ImgReqs |-> IF x = r THEN NoImg ELSE img[x]] BY <1>1, <1>3 DEF ImgTypeInv
    <3>1. Replacing(img'[s]) BY <2>12 DEF Replacing
    <3>2. s # r BY <1>1, <3>0, <3>1, ImgRest
    <3>3. img'[s] = img[s] BY <3>0, <3>2
    <3>4. aliasOf'[m] \in {aliasOf[m], id} BY <1>2, <2>4
    <3> QED BY <1>1, <2>6, <3>1, <3>3, <3>4 DEF ImgAliasInv
  <2>13. ImgAliasInv' BY <2>7, <2>12 DEF ImgAliasInv
  <2> QED BY <2>10, <2>11, <2>13 DEF ImgClean, ImgRequests
<1> QED BY <1>4, <1>5 DEF ApplyAlias

LEMMA CleanSwitch ==
  ASSUME ImgClean, imgMarks' \cap ImgSpoilt = {}, NEW r \in ImgReqs, UpdateSwitch(r)
  PROVE  ImgClean'
<1>1. ImgTypeInv /\ ImgAliasInv /\ ImgRequests /\ ImgRequestInv(img[r]) /\ ImgIdInv(img[r])
  BY ImgParts DEF ImgRequests
<1>2. aliasOf \in [Names -> Nat] /\ wanted \subseteq Names /\ \A m \in wanted : aliasOf[m] # 0 /\ upstream \in Fps
  BY <1>1 DEF ImgTypeInv, ImgAliasInv
<1>3. PICK q : q = img[r] OBVIOUS
<1>4. ImgRequestInv(q) /\ ImgIdInv(q) BY <1>1, <1>3
<1>5. UNCHANGED <<imgRow, nextImg, upstream, wanted>> BY DEF UpdateSwitch
<1>6. PICK new : new = q.new OBVIOUS
<1>7. new \in Nat \ {0} /\ new # q.id /\ q.at = "switch" /\ q.kind = "update"
  BY <1>3, <1>4, <1>6 DEF ImgRequestInv, UpdateSwitch, Removes
<1>8. aliasOf' = [n \in Names |-> IF aliasOf[n] = q.id THEN new ELSE aliasOf[n]] /\ Doomed(new) \cap ImgSpoilt = {}
  BY <1>3, <1>6 DEF UpdateSwitch, dbImageAliasesMove, ImgMark, ImgSpoilt
<1>9. \A s \in ImgReqs : Replacing(img[s]) => new # img[s].id BY <1>8, ImgDoomed
<1>10. PICK x : x = [q EXCEPT !.at = "fetched", !.name = "", !.new = 0] OBVIOUS
<1>11. /\ DOMAIN x = DOMAIN NoImg /\ x.at = "fetched" /\ x.kind = q.kind /\ x.fp = q.fp /\ x.id = q.id
       /\ x.hash = q.hash /\ x.part = q.part
  <2>1. DOMAIN q = DOMAIN NoImg BY <1>4 DEF ImgRequestInv
  <2> QED BY <1>10, <2>1 DEF NoImg
<1>12. img' = [s \in ImgReqs |-> IF s = r THEN x ELSE img[s]]
  <2>1. img' = [s \in ImgReqs |-> IF s = r THEN [img[r] EXCEPT !.at = "fetched", !.name = "", !.new = 0] ELSE img[s]]
    BY <1>1 DEF UpdateSwitch, ImgTypeInv
  <2> QED BY <2>1, <1>3, <1>10
<1>13. img' = [img EXCEPT ![r] = x] BY <1>1, <1>12 DEF ImgTypeInv
<1>14. ImgRowsStep BY <1>1, <1>5, ImgRowsStay
<1>15. ImgRequestInv(q)' /\ ImgIdInv(q)' BY <1>1, <1>4, <1>14, ImgRequestStays
<1>16. ImgRequestInv(x)' /\ ImgIdInv(x)'
  <2>1. ImgRequestInv(x)' BY <1>7, <1>11, <1>15 DEF ImgRequestInv
  <2>2. ImgIdInv(x)' BY <1>11, <1>15 DEF ImgIdInv
  <2> QED BY <2>1, <2>2
<1>17. ImgRequests' /\ img' = [s \in ImgReqs |-> img'[s]] BY <1>1, <1>13, <1>14, <1>16, ImgRequestsStep
<1>18. aliasOf' \in [Names -> Nat] BY <1>2, <1>7, <1>8
<1>19. ImgTypeInv' BY <1>1, <1>5, <1>17, <1>18 DEF ImgTypeInv, Row
<1>20. \A m \in wanted' : aliasOf'[m] # 0 BY <1>2, <1>5, <1>7, <1>8
<1>21. ASSUME NEW s \in ImgReqs, Replacing(img[s])', NEW m \in Names PROVE aliasOf'[m] # img'[s].id
  <2>1. Replacing(img'[s]) BY <1>21 DEF Replacing
  <2>2. CASE s = r
    <3>1. img'[s].id = q.id BY <1>11, <1>12, <2>2
    <3> QED BY <3>1, <1>7, <1>8
  <2>3. CASE s # r
    <3>1. img'[s] = img[s] BY <1>12, <2>3
    <3>2. aliasOf'[m] \in {aliasOf[m], new} BY <1>8
    <3> QED BY <1>1, <1>9, <2>1, <3>1, <3>2 DEF ImgAliasInv
  <2> QED BY <2>2, <2>3
<1>22. ImgAliasInv' BY <1>20, <1>21 DEF ImgAliasInv
<1> QED BY <1>17, <1>19, <1>22 DEF ImgClean, ImgRequests

\* The id of the row that goes: the one the request had seen.
LEMMA ImgGoneId ==
  ASSUME ImgClean, imgMarks' \cap ImgSpoilt = {}, NEW r \in ImgReqs, RemoveRow(r)
  PROVE  /\ img[r].id \in Nat \ {0} /\ img[r].kind \in Removes \cup {"update"}
         /\ dbImageDelete(img[r].id)
         /\ wanted' = IF img[r].kind \in Removes THEN wanted \ {n \in Names : aliasOf[n] = img[r].id} ELSE wanted
         /\ imgMarks' = {} => \A v \in imgVol : v[1] # img[r].fp
<1>1. ImgRequestInv(img[r]) BY DEF ImgClean
<1>2. img[r].id \in Nat \ {0} /\ img[r].kind \in Removes \cup {"update"}
  BY <1>1 DEF ImgRequestInv, RemoveRow
<1>3. PICK id : id = IF img[r].kind = "prune" THEN Row(img[r].fp).id ELSE img[r].id OBVIOUS
<1>4. id = img[r].id
  BY <1>3 DEF RemoveRow, ImgMark, ImgSpoilt
<1>5. dbImageDelete(id) /\ wanted' = IF img[r].kind \in Removes THEN wanted \ {n \in Names : aliasOf[n] = id} ELSE wanted
  BY <1>2, <1>3, <1>4 DEF RemoveRow, Removes
<1>6. imgMarks' = {} => \A v \in imgVol : v[1] # img[r].fp
  BY DEF RemoveRow, ImgMark
<1> QED BY <1>2, <1>4, <1>5, <1>6

\* The rows when one goes, dbImageDelete.
LEMMA ImgRowsDelete ==
  ASSUME ImgTypeInv, NEW id \in Nat \ {0}, dbImageDelete(id), UNCHANGED nextImg
  PROVE  /\ ImgRowsStep
         /\ imgRow' \in [Fps -> [id : Nat, auto : BOOLEAN, cached : BOOLEAN, src : BOOLEAN]]
         /\ \A f \in Fps : imgRow'[f] = IF imgRow[f].id = id THEN NoImage ELSE imgRow[f]
         /\ \A f \in Fps : imgRow'[f].id < nextImg' /\ (imgRow'[f].cached => imgRow'[f].id # 0)
         /\ \A f, g \in Fps : imgRow'[f].id # 0 /\ imgRow'[f].id = imgRow'[g].id => f = g
         /\ aliasOf' \in [Names -> Nat]
<1>1. \A f \in Fps : imgRow'[f] = IF imgRow[f].id = id THEN NoImage ELSE imgRow[f]
  BY DEF dbImageDelete
<1>2. imgRow' \in [Fps -> [id : Nat, auto : BOOLEAN, cached : BOOLEAN, src : BOOLEAN]]
  BY DEF dbImageDelete, ImgTypeInv, NoImage
<1>3. nextImg' \in Nat \ {0} /\ nextImg' >= nextImg /\ nextImg' > 0 BY DEF ImgTypeInv
<1>4. \A f \in Fps : imgRow'[f].id \in {0, imgRow[f].id} BY <1>1 DEF NoImage
<1>5. \A f \in Fps : imgRow'[f].id < nextImg' /\ (imgRow'[f].cached => imgRow'[f].id # 0)
  BY <1>1, <1>3 DEF ImgTypeInv, Row, NoImage
<1>6. \A f, g \in Fps : imgRow'[f].id # 0 /\ imgRow'[f].id = imgRow'[g].id => f = g
  BY <1>4 DEF ImgTypeInv, Row
<1>7. aliasOf' \in [Names -> Nat] BY DEF dbImageDelete, ImgTypeInv
<1> QED BY <1>1, <1>2, <1>3, <1>4, <1>5, <1>6, <1>7 DEF ImgRowsStep

LEMMA CleanRemoveRow ==
  ASSUME ImgClean, imgMarks' \cap ImgSpoilt = {}, NEW r \in ImgReqs, RemoveRow(r)
  PROVE  ImgClean'
<1>1. ImgTypeInv /\ ImgAliasInv /\ ImgRequests /\ ImgRequestInv(img[r]) BY ImgParts DEF ImgRequests
<1>2. UNCHANGED <<nextImg, upstream>> /\ img' = [img EXCEPT ![r] = NoImg] /\ img[r].at = "row"
  BY DEF RemoveRow, ImgEnds
<1>3. PICK id \in Nat \ {0} : /\ id = img[r].id /\ dbImageDelete(id)
                              /\ wanted' = IF img[r].kind \in Removes THEN wanted \ {n \in Names : aliasOf[n] = id} ELSE wanted
  BY ImgGoneId
<1>4. img[r].kind \in Removes \cup {"update"} BY ImgGoneId
<1>5. /\ ImgRowsStep /\ aliasOf' \in [Names -> Nat]
      /\ imgRow' \in [Fps -> [id : Nat, auto : BOOLEAN, cached : BOOLEAN, src : BOOLEAN]]
      /\ \A f \in Fps : imgRow'[f].id < nextImg' /\ (imgRow'[f].cached => imgRow'[f].id # 0)
      /\ \A f, g \in Fps : imgRow'[f].id # 0 /\ imgRow'[f].id = imgRow'[g].id => f = g
  BY <1>1, <1>2, <1>3, ImgRowsDelete
<1>6. ImgRequestInv(NoImg)' /\ ImgIdInv(NoImg)' BY <1>1, <1>5, ImgRest, ImgRequestStays
<1>7. ImgRequests' /\ img' = [s \in ImgReqs |-> img'[s]] BY <1>1, <1>2, <1>5, <1>6, ImgRequestsStep
<1>8. wanted' \subseteq wanted /\ wanted \subseteq Names BY <1>1, <1>3 DEF ImgTypeInv
<1>9. ImgTypeInv' BY <1>1, <1>2, <1>5, <1>7, <1>8 DEF ImgTypeInv, Row
<1>10. \A n \in Names : aliasOf'[n] = IF aliasOf[n] = id THEN 0 ELSE aliasOf[n] BY <1>3 DEF dbImageDelete
<1>11. ASSUME NEW n \in wanted' PROVE aliasOf'[n] # 0
  <2>1. n \in wanted /\ n \in Names /\ aliasOf[n] # 0 BY <1>1, <1>8, <1>11 DEF ImgAliasInv
  <2>2. CASE img[r].kind \in Removes BY <1>3, <1>10, <1>11, <2>1, <2>2
  <2>3. CASE img[r].kind = "update"
    <3>1. Replacing(img[r]) BY <1>1, <1>2, <2>3 DEF Replacing, ImgRequestInv
    <3> QED BY <1>1, <1>3, <1>10, <2>1, <3>1 DEF ImgAliasInv
  <2> QED BY <1>4, <2>2, <2>3
<1>12. ASSUME NEW s \in ImgReqs, Replacing(img[s])', NEW m \in Names PROVE aliasOf'[m] # img'[s].id
  <2>0. img' = [x \in ImgReqs |-> IF x = r THEN NoImg ELSE img[x]] BY <1>1, <1>2 DEF ImgTypeInv
  <2>1. Replacing(img'[s]) BY <1>12 DEF Replacing
  <2>2. s # r BY <1>1, <2>0, <2>1, ImgRest
  <2>3. img'[s] = img[s] BY <2>0, <2>2
  <2>4. img[s].id # 0
    <3>1. ImgRequestInv(img[s]) BY <1>1 DEF ImgRequests
    <3> QED BY <2>1, <2>3, <3>1 DEF ImgRequestInv, Replacing, Removes
  <2> QED BY <1>1, <1>10, <2>1, <2>3, <2>4 DEF ImgAliasInv
<1>13. ImgAliasInv' BY <1>11, <1>12 DEF ImgAliasInv
<1> QED BY <1>7, <1>9, <1>13 DEF ImgClean, ImgRequests

LEMMA CleanOthers ==
  ASSUME ImgClean, NEW f \in Fps, Publish(f) \/ \E b \in BOOLEAN : imagePut(f, b)
  PROVE  ImgClean'
<1>1. ImgTypeInv /\ ImgAliasInv /\ ImgRequests BY ImgParts
<1>2. CASE Publish(f)
  <2>1. UNCHANGED <<imgRow, nextImg, img, aliasOf, wanted>> /\ upstream' \in Fps BY <1>2 DEF Publish
  <2> QED BY <1>1, <2>1, ImgAliasStep DEF ImgTypeInv, ImgAliasInv
<1>3. ASSUME NEW b \in BOOLEAN, imagePut(f, b) PROVE ImgClean'
  <2>1. UNCHANGED <<nextImg, img, aliasOf, wanted, upstream>> BY <1>3 DEF imagePut
  <2>2. imgRow' \in [Fps -> [id : Nat, auto : BOOLEAN, cached : BOOLEAN, src : BOOLEAN]]
        /\ \A g \in Fps : imgRow'[g].id = imgRow[g].id /\ imgRow'[g].cached = imgRow[g].cached
    BY <1>1, <1>3 DEF imagePut, dbImageUpdate, ImgTypeInv
  <2>3. ImgRowsStep BY <1>1, <2>1, <2>2 DEF ImgRowsStep, ImgTypeInv
  <2>4. ImgRequests' BY <1>1, <2>1, <2>3, ImgRequestsStay
  <2>5. ImgTypeInv' BY <1>1, <2>1, <2>2 DEF ImgTypeInv, Row
  <2>6. ImgAliasInv' BY <1>1, <2>1 DEF ImgAliasInv, Replacing
  <2> QED BY <2>4, <2>5, <2>6 DEF ImgClean, ImgRequests
<1> QED BY <1>2, <1>3

-----------------------------------------------------------------------------
(* The files of the images step by step. *)

LEMMA FilesQuietly ==
  ASSUME ImgClean, ImgFilesInv, NEW r \in ImgReqs,
         \/ \E f \in Fps, n \in Names, k \in {"upload", "publish", "import"} : imagesPost(r, k, f, n)
         \/ imgPostContInfo(r) \/ ApplyAlias(r) \/ UpdatePools(r) \/ UpdateSwitch(r) \/ UpdateEnds(r)
         \/ \E f \in Fps : imageDelete(r, f) \/ pruneExpiredImages(r, f) \/ autoUpdateImages(r, f)
         \/ \E f \in Fps, b \in BOOLEAN : imageRefresh(r, f, b)
         \/ \E p \in ImgPools : doDeleteImageFromPool(r, p)
  PROVE  ImgFilesInv'
<1>1. ImgTypeInv BY ImgParts
<1>2. img = [s \in ImgReqs |-> img[s]] BY <1>1 DEF ImgTypeInv
<1>3. imgFile' = imgFile /\ imgVol' \subseteq imgVol /\ imgRow' = imgRow
  BY DEF imagesPost, imgPostContInfo, ApplyAlias, UpdatePools, UpdateSwitch, UpdateEnds, imageDelete, pruneExpiredImages,
         autoUpdateImages, imageRefresh, doDeleteImageFromPool
<1>4. \A s \in ImgReqs \ {r} : img'[s] = img[s]
  <2>1. ASSUME NEW f \in Fps, NEW n \in Names, NEW k \in {"upload", "publish", "import"}, imagesPost(r, k, f, n)
        PROVE  \A s \in ImgReqs \ {r} : img'[s] = img[s]
    BY <1>2, <2>1 DEF imagesPost
  <2>2. CASE imgPostContInfo(r) \/ ApplyAlias(r) BY <1>2, <2>2 DEF imgPostContInfo, ApplyAlias, ImgEnds, ImgGoes
  <2>3. CASE UpdatePools(r) BY <1>2, <2>3 DEF UpdatePools, ImgEnds
  <2>4. CASE UpdateSwitch(r) BY <1>2, <2>4 DEF UpdateSwitch
  <2>5. CASE UpdateEnds(r) BY <1>2, <2>5 DEF UpdateEnds, ImgEnds, ImgGoes
  <2>6. ASSUME NEW f \in Fps, imageDelete(r, f) \/ pruneExpiredImages(r, f) \/ autoUpdateImages(r, f)
        PROVE  \A s \in ImgReqs \ {r} : img'[s] = img[s]
    BY <1>2, <2>6 DEF imageDelete, pruneExpiredImages, autoUpdateImages
  <2>7. ASSUME NEW f \in Fps, NEW b \in BOOLEAN, imageRefresh(r, f, b)
        PROVE  \A s \in ImgReqs \ {r} : img'[s] = img[s]
    BY <1>2, <2>7 DEF imageRefresh
  <2>8. ASSUME NEW p \in ImgPools, doDeleteImageFromPool(r, p)
        PROVE  \A s \in ImgReqs \ {r} : img'[s] = img[s]
    BY <1>2, <2>8 DEF doDeleteImageFromPool, ImgEnds
  <2> QED BY <2>1, <2>2, <2>3, <2>4, <2>5, <2>6, <2>7, <2>8
<1>5. PICK q : q = img[r] OBVIOUS
<1>6. DOMAIN q = DOMAIN NoImg BY <1>5 DEF ImgClean, ImgRequestInv
<1>7. q.at \notin {"moved", "row"}
  <2>0. NoImg.at = "idle" BY DEF NoImg
  <2>1. CASE img[r] = NoImg BY <1>5, <2>0, <2>1
  <2>2. img[r] = NoImg \/ img[r].at \in {"lock", "alias", "pools", "switch", "fetched", "volumes"}
    BY DEF imagesPost, imgPostContInfo, ApplyAlias, UpdatePools, UpdateSwitch, UpdateEnds, imageDelete, pruneExpiredImages,
           autoUpdateImages, imageRefresh, doDeleteImageFromPool
  <2> QED BY <1>5, <2>1, <2>2
<1>8. img'[r].at \notin {"moved", "row"}
  <2>0. NoImg.at = "idle" BY DEF NoImg
  <2>1. ASSUME NEW f \in Fps, NEW n \in Names, NEW k \in {"upload", "publish", "import"}, imagesPost(r, k, f, n)
        PROVE  img'[r].at \notin {"moved", "row"}
    BY <1>2, <2>1 DEF imagesPost, NoImg
  <2>2. CASE imgPostContInfo(r) \/ ApplyAlias(r)
    BY <1>2, <1>5, <1>6, <2>0, <2>2 DEF imgPostContInfo, ApplyAlias, ImgEnds, ImgGoes, NoImg
  <2>3. CASE UpdatePools(r)
    <3>1. CASE ImgEnds(r) BY <1>2, <2>0, <3>1 DEF ImgEnds
    <3>2. CASE ~ ImgEnds(r)
      <4>1. PICK left : img' = [img EXCEPT ![r].at = "fetched", ![r].left = left] BY <2>3, <3>2 DEF UpdatePools
      <4>2. img'[r] = [q EXCEPT !.at = "fetched", !.left = left] BY <1>2, <1>5, <4>1
      <4> QED BY <1>6, <4>2 DEF NoImg
    <3> QED BY <3>1, <3>2
  <2>4. CASE UpdateSwitch(r)
    <3>1. img'[r] = [q EXCEPT !.at = "fetched", !.name = "", !.new = 0] BY <1>2, <1>5, <2>4 DEF UpdateSwitch
    <3> QED BY <1>6, <3>1 DEF NoImg
  <2>5. CASE UpdateEnds(r)
    <3>1. CASE ImgEnds(r) BY <1>2, <2>0, <3>1 DEF ImgEnds
    <3>2. CASE ImgGoes(r, "files")
      <4>1. img'[r] = [q EXCEPT !.at = "files"] BY <1>2, <1>5, <3>2 DEF ImgGoes
      <4> QED BY <1>6, <4>1 DEF NoImg
    <3> QED BY <2>5, <3>1, <3>2 DEF UpdateEnds
  <2>6. ASSUME NEW f \in Fps, imageDelete(r, f) \/ pruneExpiredImages(r, f) \/ autoUpdateImages(r, f)
        PROVE  img'[r].at \notin {"moved", "row"}
    <3>1. CASE imageDelete(r, f) BY <1>2, <3>1 DEF imageDelete, NoImg
    <3>2. CASE pruneExpiredImages(r, f) BY <1>2, <3>2 DEF pruneExpiredImages, NoImg
    <3>3. CASE autoUpdateImages(r, f) BY <1>2, <3>3 DEF autoUpdateImages, NoImg
    <3> QED BY <2>6, <3>1, <3>2, <3>3
  <2>7. ASSUME NEW f \in Fps, NEW b \in BOOLEAN, imageRefresh(r, f, b)
        PROVE  img'[r].at \notin {"moved", "row"}
    BY <1>2, <2>7 DEF imageRefresh, NoImg
  <2>8. ASSUME NEW p \in ImgPools, doDeleteImageFromPool(r, p)
        PROVE  img'[r].at \notin {"moved", "row"}
    <3>1. CASE ImgEnds(r) BY <1>2, <2>0, <3>1 DEF ImgEnds
    <3>2. CASE ~ ImgEnds(r)
      <4>1. img' = [img EXCEPT ![r].left = img[r].left \ {p}] BY <2>8, <3>2 DEF doDeleteImageFromPool
      <4>2. img'[r] = [q EXCEPT !.left = q.left \ {p}] BY <1>2, <1>5, <4>1
      <4> QED BY <1>6, <1>7, <4>2 DEF NoImg
    <3> QED BY <3>1, <3>2
  <2> QED BY <2>1, <2>2, <2>3, <2>4, <2>5, <2>6, <2>7, <2>8
<1>9. \A s \in ImgReqs : img'[s] = img[s] \/ (img[s].at \notin {"moved", "row"} /\ img'[s].at \notin {"moved", "row"})
  BY <1>4, <1>5, <1>7, <1>8
<1> QED BY <1>3, <1>9, ImgFilesQuiet

LEMMA FilesOthers ==
  ASSUME ImgTypeInv, ImgFilesInv,
         \/ \E f \in Fps : Publish(f) \/ \E b \in BOOLEAN : imagePut(f, b)
         \/ \E n \in Names : aliasDelete(n) \/ (\E f \in Fps : aliasesPost(n, f) \/ aliasPut(n, f)) \/ \E to \in Names : aliasPost(n, to)
  PROVE  ImgFilesInv'
<1>1. UNCHANGED <<imgFile, imgVol, img>>
  BY DEF Publish, imagePut, aliasDelete, aliasesPost, aliasPut, aliasPost
<1>2. \A f \in Fps : imgRow'[f].id = imgRow[f].id
  BY DEF Publish, imagePut, aliasDelete, aliasesPost, aliasPut, aliasPost, dbImageUpdate, ImgTypeInv
<1> QED BY <1>1, <1>2, ImgFilesQuiet

\* The file of an image is put there before its row.
LEMMA FilesMoved ==
  ASSUME ImgClean, ImgFilesInv, NEW r \in ImgReqs, FileMove(r), imgMarks' = {}
  PROVE  ImgFilesInv'
<1>1. img = [s \in ImgReqs |-> img[s]] /\ ImgRequestInv(img[r]) BY DEF ImgClean, ImgTypeInv
<1>2. PICK q : q = img[r] OBVIOUS
<1>3. DOMAIN q = DOMAIN NoImg /\ q.at = "move" /\ q.fp \in Fps BY <1>1, <1>2 DEF ImgRequestInv, FileMove
<1>4. UNCHANGED <<imgRow, imgVol>> BY DEF FileMove
<1>5. CASE imgFile' = imgFile /\ ImgEnds(r)
  <2>1. \A s \in ImgReqs : img'[s] = IF s = r THEN NoImg ELSE img[s] BY <1>1, <1>5 DEF ImgEnds
  <2>2. NoImg.at = "idle" BY DEF NoImg
  <2> QED BY <1>2, <1>3, <1>4, <1>5, <2>1, <2>2, ImgFilesQuiet
<1>6. CASE imgFile' = imgFile \cup {img[r].fp} /\ ImgGoes(r, "moved")
  <2>1. PICK p : p = [q EXCEPT !.at = "moved"] OBVIOUS
  <2>2. p.at = "moved" /\ p.fp = q.fp BY <1>3, <2>1 DEF NoImg
  <2>3. \A s \in ImgReqs : img'[s] = IF s = r THEN p ELSE img[s] BY <1>1, <1>2, <1>6, <2>1 DEF ImgGoes
  <2>4. imgFile' = imgFile \cup {q.fp} BY <1>2, <1>6
  <2>5. \A s \in ImgReqs : ~ (img[s].fp = q.fp /\ img[s].at = "row") BY <1>2 DEF FileMove, ImgMark
  <2>6. ASSUME NEW f \in Fps, imgRow'[f].id # 0, f \notin imgFile'
        PROVE  \E s \in ImgReqs : img'[s].id = imgRow'[f].id /\ img'[s].at = "row"
    <3>1. PICK s \in ImgReqs : img[s].id = imgRow[f].id /\ img[s].at = "row"
      BY <1>4, <2>4, <2>6 DEF ImgFilesInv, Row
    <3>2. img'[s] = img[s] BY <1>2, <1>3, <2>3, <3>1
    <3> QED BY <1>4, <3>1, <3>2
  <2>7. ASSUME NEW f \in imgFile' PROVE imgRow'[f].id # 0 \/ \E s \in ImgReqs : img'[s].fp = f /\ img'[s].at = "moved"
    <3>1. CASE f = q.fp BY <2>2, <2>3, <3>1
    <3>2. CASE f # q.fp
      <4>1. imgRow[f].id # 0 \/ \E s \in ImgReqs : img[s].fp = f /\ img[s].at = "moved"
        BY <2>4, <2>7, <3>2 DEF ImgFilesInv, Row
      <4>2. ASSUME NEW s \in ImgReqs, img[s].fp = f, img[s].at = "moved" PROVE img'[s] = img[s]
        BY <1>2, <1>3, <2>3, <4>2
      <4> QED BY <1>4, <4>1, <4>2
    <3> QED BY <3>1, <3>2
  <2>8. \A s \in ImgReqs : img'[s].at = "moved" => img'[s].fp \in imgFile'
    BY <2>2, <2>3, <2>4 DEF ImgFilesInv
  <2>9. ASSUME NEW s \in ImgReqs, img'[s].at = "row", imgRow'[img'[s].fp].id = img'[s].id PROVE img'[s].fp \notin imgFile'
    <3>1. s # r BY <2>2, <2>3, <2>9
    <3>2. img'[s] = img[s] BY <2>3, <3>1
    <3>3. img[s].fp \notin imgFile BY <1>4, <2>9, <3>2 DEF ImgFilesInv, Row
    <3> QED BY <2>4, <2>5, <2>9, <3>2, <3>3
  <2>10. imgFile' \subseteq Fps BY <1>3, <2>4 DEF ImgFilesInv
  <2>11. \A v \in imgVol' : v[1] \in Fps /\ imgRow'[v[1]].id # 0 BY <1>4 DEF ImgFilesInv, Row
  <2> QED BY <2>6, <2>7, <2>8, <2>9, <2>10, <2>11 DEF ImgFilesInv, Row
<1> QED BY <1>5, <1>6 DEF FileMove

\* A row is made where there is a file, or with it.
LEMMA FilesOfRow ==
  ASSUME ImgClean, ImgFilesInv, NEW r \in ImgReqs, NEW q, NEW f \in Fps, NEW p, NEW auto \in BOOLEAN, NEW src \in BOOLEAN,
         img' = [img EXCEPT ![r] = q], q.at \notin {"moved", "row"},
         img[r].at # "row", img[r].at = "moved" => img[r].fp = f,
         \/ Row(f).id # 0 /\ UNCHANGED <<imgRow, nextImg, imgFile>>
         \/ Row(f).id = 0 /\ dbImageInsert(f, auto, src) /\ imgFile' = imgFile \cup {f},
         imgVol' \subseteq imgVol \cup ({f} \X {p})
  PROVE  ImgFilesInv'
<1>1. ImgTypeInv BY ImgParts
<1>2. \A s \in ImgReqs : img'[s] = IF s = r THEN q ELSE img[s] BY <1>1 DEF ImgTypeInv
<1>3. /\ imgRow'[f].id # 0 /\ \A g \in Fps \ {f} : imgRow'[g].id = imgRow[g].id
      /\ imgRow'[f].id = imgRow[f].id \/ imgRow'[f].id = nextImg
      /\ imgFile' \in {imgFile, imgFile \cup {f}}
      /\ imgRow[f].id = 0 => f \in imgFile' /\ imgRow'[f].id = nextImg
  <2>1. CASE Row(f).id # 0 /\ UNCHANGED <<imgRow, nextImg, imgFile>> BY <2>1 DEF Row
  <2>2. CASE Row(f).id = 0 /\ dbImageInsert(f, auto, src) /\ imgFile' = imgFile \cup {f}
    <3>1. imgRow'[f].id = nextImg /\ \A g \in Fps \ {f} : imgRow'[g] = imgRow[g] BY <1>1, <2>2, ImgRowsInsert
    <3>2. nextImg # 0 BY <1>1 DEF ImgTypeInv
    <3> QED BY <2>2, <3>1, <3>2
  <2> QED BY <2>1, <2>2
<1>4. ASSUME NEW g \in Fps, imgRow'[g].id # 0, g \notin imgFile'
      PROVE  \E s \in ImgReqs : img'[s].id = imgRow'[g].id /\ img'[s].at = "row"
  <2>1. imgRow[g].id # 0 /\ imgRow'[g].id = imgRow[g].id
    <3>1. CASE g = f
      <4>1. imgRow[f].id # 0 BY <1>3, <1>4, <3>1
      <4>2. UNCHANGED imgRow BY <4>1 DEF Row
      <4> QED BY <4>1, <4>2, <3>1
    <3>2. CASE g # f BY <1>3, <1>4, <3>2
    <3> QED BY <3>1, <3>2
  <2>2. g \notin imgFile BY <1>3, <1>4
  <2>3. PICK s \in ImgReqs : img[s].id = imgRow[g].id /\ img[s].at = "row" BY <2>1, <2>2 DEF ImgFilesInv, Row
  <2>4. img'[s] = img[s] BY <1>2, <2>3
  <2> QED BY <2>1, <2>3, <2>4
<1>5. ASSUME NEW v \in imgVol' PROVE v[1] \in Fps /\ imgRow'[v[1]].id # 0
  <2>1. CASE v \in imgVol
    <3>1. v[1] \in Fps /\ imgRow[v[1]].id # 0 BY <2>1 DEF ImgFilesInv, Row
    <3> QED BY <1>3, <3>1
  <2>2. CASE v \notin imgVol
    <3>1. v \in {f} \X {p} BY <1>5, <2>2
    <3>2. v[1] = f BY <3>1
    <3> QED BY <1>3, <3>2
  <2> QED BY <2>1, <2>2
<1>6. imgFile' \subseteq Fps BY <1>3 DEF ImgFilesInv
<1>7. ASSUME NEW g \in imgFile' PROVE imgRow'[g].id # 0 \/ \E s \in ImgReqs : img'[s].fp = g /\ img'[s].at = "moved"
  <2>1. CASE g = f BY <1>3, <2>1
  <2>2. CASE g # f
    <3>1. g \in Fps /\ (imgRow[g].id # 0 \/ \E s \in ImgReqs : img[s].fp = g /\ img[s].at = "moved")
      BY <1>3, <1>6, <1>7, <2>2 DEF ImgFilesInv, Row
    <3>2. ASSUME NEW s \in ImgReqs, img[s].fp = g, img[s].at = "moved" PROVE img'[s] = img[s]
      BY <1>2, <2>2, <3>2
    <3> QED BY <1>3, <2>2, <3>1, <3>2
  <2> QED BY <2>1, <2>2
<1>8. \A s \in ImgReqs : img'[s].at = "moved" => img'[s].fp \in imgFile'
  BY <1>2, <1>3 DEF ImgFilesInv
<1>9. ASSUME NEW s \in ImgReqs, img'[s].at = "row", imgRow'[img'[s].fp].id = img'[s].id PROVE img'[s].fp \notin imgFile'
  <2>1. img'[s] = img[s] BY <1>2, <1>9
  <2>2. ImgRequestInv(img[s]) BY DEF ImgClean
  <2>3. img[s].fp \in Fps /\ img[s].id \in Nat /\ img[s].id < nextImg BY <1>9, <2>1, <2>2 DEF ImgRequestInv
  <2>4. nextImg \in Nat BY <1>1 DEF ImgTypeInv
  <2>5. img[s].id # nextImg
    <3>1. PICK i \in Nat : i = img[s].id /\ i < nextImg BY <2>3
    <3> QED BY <3>1, <2>4, Lower
  <2>6. CASE img[s].fp = f /\ imgRow[f].id = 0 BY <1>3, <1>9, <2>1, <2>5, <2>6
  <2>7. CASE img[s].fp = f /\ imgRow[f].id # 0
    <3>1. UNCHANGED <<imgRow, imgFile>> BY <2>7 DEF Row
    <3> QED BY <1>9, <2>1, <3>1 DEF ImgFilesInv, Row
  <2>8. CASE img[s].fp # f
    <3>1. imgRow[img[s].fp].id = img[s].id BY <1>3, <1>9, <2>1, <2>3, <2>8
    <3>2. img[s].fp \notin imgFile BY <1>9, <2>1, <3>1 DEF ImgFilesInv, Row
    <3> QED BY <1>3, <2>1, <2>8, <3>2
  <2> QED BY <2>6, <2>7, <2>8
<1> QED BY <1>4, <1>5, <1>6, <1>7, <1>8, <1>9 DEF ImgFilesInv, Row

LEMMA FilesInserted ==
  ASSUME ImgClean, ImgFilesInv, NEW r \in ImgReqs, ImageInsert(r), imgMarks' = {}
  PROVE  ImgFilesInv'
<1>1. img = [s \in ImgReqs |-> img[s]] /\ ImgRequestInv(img[r]) BY DEF ImgClean, ImgTypeInv
<1>2. PICK q : q = img[r] OBVIOUS
<1>3. DOMAIN q = DOMAIN NoImg /\ q.at = "moved" /\ q.fp \in Fps /\ UNCHANGED <<imgFile, imgVol>>
  BY <1>1, <1>2 DEF ImgRequestInv, ImageInsert
<1>4. q.fp \in imgFile BY <1>2, <1>3 DEF ImgFilesInv
<1>5. CASE Row(q.fp).id # 0 /\ ImgEnds(r) /\ UNCHANGED <<imgRow, nextImg>>
  <2>1. img' = [img EXCEPT ![r] = NoImg] /\ NoImg.at = "idle" BY <1>5 DEF ImgEnds, NoImg
  <2> QED BY <1>2, <1>3, <1>5, <2>1, FilesOfRow
<1>6. CASE Row(q.fp).id = 0 /\ dbImageInsert(q.fp, FALSE, FALSE) /\ ImgGoes(r, "alias")
  <2>1. PICK x : x = [q EXCEPT !.at = "alias"] OBVIOUS
  <2>2. img' = [img EXCEPT ![r] = x] /\ x.at = "alias" BY <1>2, <1>3, <1>6, <2>1 DEF ImgGoes, NoImg
  <2>3. imgFile' = imgFile \cup {q.fp} BY <1>3, <1>4
  <2> QED BY <1>2, <1>3, <1>6, <2>2, <2>3, FilesOfRow
<1> QED BY <1>2, <1>5, <1>6 DEF ImageInsert, ImgMark

LEMMA FilesFetched ==
  ASSUME ImgClean, ImgFilesInv, NEW r \in ImgReqs, imgPostRemoteInfo(r) \/ \E p \in ImgPools \cup {""} : UpdatePool(r, p)
  PROVE  ImgFilesInv'
<1>1. img = [s \in ImgReqs |-> img[s]] /\ ImgRequestInv(img[r]) /\ upstream \in Fps BY DEF ImgClean, ImgTypeInv
<1>2. PICK q : q = img[r] OBVIOUS
<1>3. DOMAIN q = DOMAIN NoImg BY <1>1, <1>2 DEF ImgRequestInv
<1>4. q.at \notin {"moved", "row"} BY <1>2 DEF imgPostRemoteInfo, UpdatePool
<1>5. ASSUME NEW p, ImageDownload(p), NEW x, x.at \notin {"moved", "row"}, img' = [img EXCEPT ![r] = x] PROVE ImgFilesInv'
  <2>1. \/ Row(upstream).id # 0 /\ UNCHANGED <<imgRow, nextImg, imgFile>>
        \/ Row(upstream).id = 0 /\ dbImageInsert(upstream, TRUE, TRUE) /\ imgFile' = imgFile \cup {upstream}
    BY <1>5 DEF ImageDownload
  <2>2. imgVol' \subseteq imgVol \cup ({upstream} \X {p}) BY <1>5 DEF ImageDownload
  <2> QED BY <1>1, <1>2, <1>4, <1>5, <2>1, <2>2, FilesOfRow
<1>6. ASSUME UNCHANGED <<imgRow, imgFile, imgVol>>, NEW x, x.at \notin {"moved", "row"}, img' = [img EXCEPT ![r] = x] PROVE ImgFilesInv'
  <2>1. \A s \in ImgReqs : img'[s] = IF s = r THEN x ELSE img[s] BY <1>1, <1>6
  <2> QED BY <1>2, <1>4, <1>6, <2>1, ImgFilesQuiet
<1>7. CASE imgPostRemoteInfo(r)
  <2>1. CASE ImageDownload("") /\ img' = [img EXCEPT ![r].at = "alias", ![r].fp = upstream]
    <3>1. PICK x : x = [q EXCEPT !.at = "alias", !.fp = upstream] OBVIOUS
    <3>2. x.at = "alias" BY <1>3, <3>1 DEF NoImg
    <3>3. img' = [s \in ImgReqs |-> IF s = r THEN x ELSE img[s]] BY <1>1, <1>2, <2>1, <3>1
    <3>4. img' = [img EXCEPT ![r] = x] BY <1>1, <3>3
    <3> QED BY <2>1, <3>2, <3>4, <1>5
  <2>2. CASE ImgEnds(r) /\ UNCHANGED <<imgRow, imgFile, imgVol>>
    <3>1. NoImg.at = "idle" BY DEF NoImg
    <3> QED BY <2>2, <3>1, <1>6 DEF ImgEnds
  <2> QED BY <2>1, <2>2, <1>7 DEF imgPostRemoteInfo
<1>8. ASSUME NEW p \in ImgPools \cup {""}, UpdatePool(r, p) PROVE ImgFilesInv'
  <2>0. q.at = "fetched" BY <1>2, <1>8 DEF UpdatePool
  <2>1. CASE UNCHANGED <<imgRow, imgFile, imgVol>> /\ img' = [img EXCEPT ![r].left = @ \ {p}]
    <3>1. PICK x : x = [q EXCEPT !.left = q.left \ {p}] OBVIOUS
    <3>2. x.at = q.at BY <1>3, <3>1 DEF NoImg
    <3>3. img' = [img EXCEPT ![r] = x] BY <1>2, <2>1, <3>1
    <3> QED BY <1>4, <2>1, <3>2, <3>3, <1>6
  <2>2. CASE /\ ImageDownload(p)
             /\ img' = [img EXCEPT ![r].left = @ \ {p}, ![r].name = IF upstream = img[r].fp /\ ~img[r].part THEN "" ELSE p,
                              ![r].new = IF Row(upstream).id # 0 THEN Row(upstream).id ELSE nextImg,
                              ![r].hash = upstream,
                              ![r].at = IF upstream = img[r].fp /\ ~img[r].part THEN "fetched" ELSE "switch"]
    <3>1. PICK x : x = [q EXCEPT !.left = q.left \ {p}, !.name = IF upstream = q.fp /\ ~q.part THEN "" ELSE p,
                                !.new = IF Row(upstream).id # 0 THEN Row(upstream).id ELSE nextImg,
                                !.hash = upstream,
                                !.at = IF upstream = q.fp /\ ~q.part THEN "fetched" ELSE "switch"] OBVIOUS
    <3>2. x.at \in {"fetched", "switch"} BY <1>3, <3>1 DEF NoImg
    <3>3. img' = [s \in ImgReqs |-> IF s = r THEN
             [img[r] EXCEPT !.left = img[r].left \ {p}, !.name = IF upstream = img[r].fp /\ ~img[r].part THEN "" ELSE p,
                              !.new = IF Row(upstream).id # 0 THEN Row(upstream).id ELSE nextImg,
                              !.hash = upstream,
                              !.at = IF upstream = img[r].fp /\ ~img[r].part THEN "fetched" ELSE "switch"]
             ELSE img[s]]
      BY <1>1, <1>3, <1>2, <2>2 DEF NoImg
    <3>4. img' = [s \in ImgReqs |-> IF s = r THEN x ELSE img[s]] BY <3>3, <1>2, <3>1
    <3>5. img' = [img EXCEPT ![r] = x] BY <1>1, <3>4
    <3> QED BY <2>2, <3>2, <3>5, <1>5
  <2> QED BY <1>8, <2>1, <2>2 DEF UpdatePool
<1> QED BY <1>7, <1>8

\* The files go before the row.
LEMMA FilesRemoved ==
  ASSUME ImgClean, ImgFilesInv, NEW r \in ImgReqs, RemoveFiles(r), imgMarks' = {}
  PROVE  ImgFilesInv'
<1>1. img = [s \in ImgReqs |-> img[s]] /\ ImgRequestInv(img[r]) BY DEF ImgClean, ImgTypeInv
<1>2. PICK q : q = img[r] OBVIOUS
<1>3. DOMAIN q = DOMAIN NoImg /\ q.at \in {"volumes", "files"} /\ q.fp \in Fps /\ ~q.part
  BY <1>1, <1>2 DEF ImgRequestInv, RemoveFiles
<1>4. imgFile' = imgFile \ {q.fp} /\ ~ Meets(r, q.fp) /\ UNCHANGED <<imgRow, imgVol>>
  BY <1>2, <1>3 DEF RemoveFiles, ImgMark
<1>5. imgRow[q.fp].id \in {0, q.id} /\ \A s \in ImgReqs \ {r} : ~ (img[s].fp = q.fp /\ img[s].at = "moved")
  BY <1>2, <1>4 DEF Meets, Row
<1>6. PICK x : x = [q EXCEPT !.at = "row"] OBVIOUS
<1>7. x.at = "row" /\ x.fp = q.fp /\ x.id = q.id BY <1>3, <1>6 DEF NoImg
<1>8. \A s \in ImgReqs : img'[s] = IF s = r THEN x ELSE img[s] BY <1>1, <1>2, <1>6 DEF RemoveFiles, ImgGoes
<1>9. ASSUME NEW f \in Fps, imgRow'[f].id # 0, f \notin imgFile'
      PROVE  \E s \in ImgReqs : img'[s].id = imgRow'[f].id /\ img'[s].at = "row"
  <2>1. CASE f = q.fp BY <1>4, <1>5, <1>7, <1>8, <1>9, <2>1
  <2>2. CASE f # q.fp
    <3>1. PICK s \in ImgReqs : img[s].id = imgRow[f].id /\ img[s].at = "row" BY <1>4, <1>9, <2>2 DEF ImgFilesInv, Row
    <3>2. img'[s] = img[s] BY <1>2, <1>3, <1>8, <3>1
    <3> QED BY <1>4, <3>1, <3>2
  <2> QED BY <2>1, <2>2
<1>10. ASSUME NEW f \in imgFile' PROVE imgRow'[f].id # 0 \/ \E s \in ImgReqs : img'[s].fp = f /\ img'[s].at = "moved"
  <2>1. imgRow[f].id # 0 \/ \E s \in ImgReqs : img[s].fp = f /\ img[s].at = "moved" BY <1>4, <1>10 DEF ImgFilesInv, Row
  <2>2. ASSUME NEW s \in ImgReqs, img[s].fp = f, img[s].at = "moved" PROVE img'[s] = img[s] BY <1>2, <1>3, <1>8, <2>2
  <2> QED BY <1>4, <2>1, <2>2
<1>11. ASSUME NEW s \in ImgReqs, img'[s].at = "moved" PROVE img'[s].fp \in imgFile'
  <2>1. s # r /\ img'[s] = img[s] BY <1>7, <1>8, <1>11
  <2> QED BY <1>4, <1>5, <1>11, <2>1 DEF ImgFilesInv
<1>12. ASSUME NEW s \in ImgReqs, img'[s].at = "row", imgRow'[img'[s].fp].id = img'[s].id PROVE img'[s].fp \notin imgFile'
  <2>1. CASE s = r BY <1>4, <1>7, <1>8, <2>1
  <2>2. CASE s # r
    <3>1. img'[s] = img[s] BY <1>8, <2>2
    <3> QED BY <1>4, <1>12, <3>1 DEF ImgFilesInv, Row
  <2> QED BY <2>1, <2>2
<1>13. imgFile' \subseteq Fps /\ \A v \in imgVol' : v[1] \in Fps /\ imgRow'[v[1]].id # 0 BY <1>4 DEF ImgFilesInv, Row
<1> QED BY <1>9, <1>10, <1>11, <1>12, <1>13 DEF ImgFilesInv, Row

LEMMA FilesRowRemoved ==
  ASSUME ImgClean, ImgFilesInv, NEW r \in ImgReqs, RemoveRow(r), imgMarks' = {}
  PROVE  ImgFilesInv'
<1>0. imgMarks' \cap ImgSpoilt = {} OBVIOUS
<1>1. ImgTypeInv /\ ImgRequestInv(img[r]) /\ ImgIdInv(img[r]) BY DEF ImgClean
<1>2. PICK q : q = img[r] OBVIOUS
<1>3. q.at = "row" /\ UNCHANGED <<imgFile, imgVol, nextImg>> /\ img' = [img EXCEPT ![r] = NoImg]
  BY <1>2 DEF RemoveRow, ImgEnds
<1>4. q.id \in Nat \ {0} /\ dbImageDelete(q.id) /\ \A v \in imgVol : v[1] # q.fp
  BY <1>0, <1>2, ImgGoneId
<1>5. \A f \in Fps : imgRow'[f] = IF imgRow[f].id = q.id THEN NoImage ELSE imgRow[f]
  BY <1>1, <1>3, <1>4, ImgRowsDelete
<1>6. \A s \in ImgReqs : img'[s] = IF s = r THEN NoImg ELSE img[s] BY <1>1, <1>3 DEF ImgTypeInv
<1>7. NoImg.at = "idle" /\ NoImage.id = 0 BY DEF NoImg, NoImage
<1>8. \A f \in Fps : imgRow[f].id = q.id => f = q.fp /\ f \notin imgFile
  <2>1. \A f \in Fps : imgRow[f].id = q.id => f = q.fp BY <1>1, <1>2, <1>4 DEF ImgIdInv, Row
  <2>2. imgRow[q.fp].id = q.id => q.fp \notin imgFile BY <1>2, <1>3 DEF ImgFilesInv, Row
  <2> QED BY <2>1, <2>2
<1>9. ASSUME NEW f \in Fps, imgRow'[f].id # 0, f \notin imgFile'
      PROVE  \E s \in ImgReqs : img'[s].id = imgRow'[f].id /\ img'[s].at = "row"
  <2>1. imgRow[f].id # q.id /\ imgRow'[f] = imgRow[f] BY <1>5, <1>7, <1>9
  <2>2. PICK s \in ImgReqs : img[s].id = imgRow[f].id /\ img[s].at = "row" BY <1>3, <1>9, <2>1 DEF ImgFilesInv, Row
  <2>3. img'[s] = img[s] BY <1>2, <1>6, <2>1, <2>2
  <2> QED BY <2>1, <2>2, <2>3
<1>10. ASSUME NEW f \in imgFile' PROVE imgRow'[f].id # 0 \/ \E s \in ImgReqs : img'[s].fp = f /\ img'[s].at = "moved"
  <2>1. f \in Fps /\ (imgRow[f].id # 0 \/ \E s \in ImgReqs : img[s].fp = f /\ img[s].at = "moved")
    BY <1>3, <1>10 DEF ImgFilesInv, Row
  <2>2. imgRow'[f] = imgRow[f] BY <1>3, <1>5, <1>8, <1>10, <2>1
  <2>3. ASSUME NEW s \in ImgReqs, img[s].fp = f, img[s].at = "moved" PROVE img'[s] = img[s] BY <1>2, <1>3, <1>6, <2>3
  <2> QED BY <2>1, <2>2, <2>3
<1>11. \A s \in ImgReqs : img'[s].at = "moved" => img'[s].fp \in imgFile' BY <1>3, <1>6, <1>7 DEF ImgFilesInv
<1>12. ASSUME NEW s \in ImgReqs, img'[s].at = "row", imgRow'[img'[s].fp].id = img'[s].id PROVE img'[s].fp \notin imgFile'
  <2>1. img'[s] = img[s] BY <1>6, <1>7, <1>12
  <2>2. ImgRequestInv(img[s]) BY DEF ImgClean
  <2>3. img[s].fp \in Fps /\ img[s].id # 0 BY <1>12, <2>1, <2>2 DEF ImgRequestInv
  <2>4. imgRow'[img[s].fp] = imgRow[img[s].fp] BY <1>5, <1>7, <1>12, <2>1, <2>3
  <2> QED BY <1>3, <1>12, <2>1, <2>4 DEF ImgFilesInv, Row
<1>13. imgFile' \subseteq Fps BY <1>3 DEF ImgFilesInv
<1>14. ASSUME NEW v \in imgVol' PROVE v[1] \in Fps /\ imgRow'[v[1]].id # 0
  <2>1. v \in imgVol /\ v[1] \in Fps /\ imgRow[v[1]].id # 0 BY <1>3, <1>14 DEF ImgFilesInv, Row
  <2>2. imgRow'[v[1]] = imgRow[v[1]] BY <1>4, <1>5, <1>8, <2>1
  <2> QED BY <2>1, <2>2
<1> QED BY <1>9, <1>10, <1>11, <1>12, <1>13, <1>14 DEF ImgFilesInv, Row

-----------------------------------------------------------------------------
(* The images. *)

LEMMA ImgCleanNext == ASSUME ImgClean, ImagesNext, imgMarks' \cap ImgSpoilt = {} PROVE ImgClean'
<1>1. ASSUME NEW r \in ImgReqs, NEW p \in ImgPools, doDeleteImageFromPool(r, p) PROVE ImgClean'
  BY <1>1, CleanGoes
<1>2. ASSUME NEW r \in ImgReqs, imgPostContInfo(r) \/ FileMove(r) \/ RemoveFiles(r) \/ RemoveRowFails(r) \/ UpdatePools(r) \/ UpdateEnds(r)
      PROVE  ImgClean'
  BY <1>2, CleanGoes
<1>3. ASSUME NEW f \in Fps, Publish(f) \/ \E b \in BOOLEAN : imagePut(f, b) PROVE ImgClean'
  BY <1>3, CleanOthers
<1>4. ASSUME NEW r \in ImgReqs, NEW f \in Fps, imageDelete(r, f) \/ pruneExpiredImages(r, f) \/ autoUpdateImages(r, f) PROVE ImgClean'
  <2>1. TRUE \in BOOLEAN OBVIOUS
  <2> QED BY <1>4, <2>1, CleanAsked
<1>5. ASSUME NEW n \in Names,
             aliasDelete(n) \/ (\E f \in Fps : aliasesPost(n, f) \/ aliasPut(n, f)) \/ \E to \in Names : aliasPost(n, to)
      PROVE  ImgClean'
  BY <1>5, CleanAliases
<1> QED BY <1>1, <1>2, <1>3, <1>4, <1>5, CleanPost, CleanAsked, CleanInsert, CleanApply, CleanRemoveRow, CleanUpdatePool, CleanSwitch
        DEF ImagesNext

LEMMA ImgFilesNext == ASSUME ImgClean, ImgFilesInv, ImagesNext, imgMarks' = {} PROVE ImgFilesInv'
<1>1. ImgTypeInv BY ImgParts
<1>2. ASSUME NEW r \in ImgReqs,
             \/ \E f \in Fps, n \in Names, k \in {"upload", "publish", "import"} : imagesPost(r, k, f, n)
             \/ imgPostContInfo(r) \/ ApplyAlias(r) \/ UpdatePools(r) \/ UpdateSwitch(r) \/ UpdateEnds(r)
             \/ \E f \in Fps : imageDelete(r, f) \/ pruneExpiredImages(r, f) \/ autoUpdateImages(r, f)
             \/ \E f \in Fps, b \in BOOLEAN : imageRefresh(r, f, b)
             \/ \E p \in ImgPools : doDeleteImageFromPool(r, p)
      PROVE  ImgFilesInv'
  BY <1>2, FilesQuietly
<1>3. ASSUME \/ \E f \in Fps : Publish(f) \/ \E b \in BOOLEAN : imagePut(f, b)
             \/ \E n \in Names : aliasDelete(n) \/ (\E f \in Fps : aliasesPost(n, f) \/ aliasPut(n, f)) \/ \E to \in Names : aliasPost(n, to)
      PROVE  ImgFilesInv'
  BY <1>1, <1>3, FilesOthers
<1>4. ASSUME NEW r \in ImgReqs, imgPostRemoteInfo(r) \/ \E p \in ImgPools \cup {""} : UpdatePool(r, p)
      PROVE  ImgFilesInv'
  BY <1>4, FilesFetched
<1>5. ASSUME NEW r \in ImgReqs, RemoveRowFails(r) PROVE ImgFilesInv'
  BY <1>5 DEF RemoveRowFails, ImgMark
<1> QED BY <1>2, <1>3, <1>4, <1>5, FilesMoved, FilesInserted, FilesRemoved, FilesRowRemoved DEF ImagesNext

LEMMA ImgInvNext == ASSUME ImgInv, ImagesNext PROVE ImgInv'
<1>1. imgMarks \subseteq imgMarks' BY ImgMarksGrow
<1>2. ASSUME imgMarks' \cap ImgSpoilt = {} PROVE ImgClean'
  <2>1. imgMarks \cap ImgSpoilt = {} BY <1>1, <1>2
  <2> QED BY <1>2, <2>1, ImgCleanNext DEF ImgInv
<1>3. ASSUME imgMarks' = {} PROVE ImgFilesInv'
  <2>1. imgMarks = {} /\ imgMarks \cap ImgSpoilt = {} BY <1>1, <1>3
  <2> QED BY <1>3, <2>1, ImgFilesNext DEF ImgInv
<1> QED BY <1>2, <1>3 DEF ImgInv

LEMMA ImgInvInit == ASSUME ImagesInit PROVE ImgInv
<1>1. PICK first \in Fps, cached \in BOOLEAN, pools \in SUBSET ImgPools :
        /\ imgRow = [f \in Fps |-> IF f = first THEN [id |-> 1, auto |-> TRUE, cached |-> cached, src |-> TRUE] ELSE NoImage]
        /\ imgFile = {first} /\ imgVol = {first} \X pools
  BY DEF ImagesInit
<1>2. /\ aliasOf = [n \in Names |-> 0] /\ nextImg = 2 /\ wanted = {} /\ upstream \in Fps
      /\ img = [r \in ImgReqs |-> NoImg]
  BY DEF ImagesInit
<1>3. ImgTypeInv
  <2>1. imgRow \in [Fps -> [id : Nat, auto : BOOLEAN, cached : BOOLEAN, src : BOOLEAN]] BY <1>1 DEF NoImage
  <2>2. \A f \in Fps : imgRow[f].id = IF f = first THEN 1 ELSE 0 BY <1>1 DEF NoImage
  <2>3. \A f \in Fps : imgRow[f].cached => imgRow[f].id # 0 BY <1>1 DEF NoImage
  <2>4. \A f \in Fps : imgRow[f].id < nextImg BY <1>2, <2>2
  <2>5. \A f, g \in Fps : imgRow[f].id # 0 /\ imgRow[f].id = imgRow[g].id => f = g BY <2>2
  <2>6. aliasOf \in [Names -> Nat] /\ wanted \subseteq Names /\ nextImg \in Nat \ {0} /\ img = [r \in ImgReqs |-> img[r]] BY <1>2
  <2> QED BY <1>2, <2>1, <2>3, <2>4, <2>5, <2>6 DEF ImgTypeInv, Row
<1>4. \A r \in ImgReqs : img[r] = NoImg BY <1>2
<1>5. ImgClean BY <1>2, <1>3, <1>4, ImgRest DEF ImgClean, ImgAliasInv
<1>6. ImgFilesInv
  <2>1. \A f \in Fps : imgRow[f].id # 0 <=> f = first BY <1>1 DEF NoImage
  <2>2. \A v \in imgVol : v[1] = first BY <1>1
  <2>a. NoImg.at = "idle" BY DEF NoImg
  <2>3. \A r \in ImgReqs : img[r].at = "idle" BY <1>4, <2>a
  <2> QED BY <1>1, <2>1, <2>2, <2>3 DEF ImgFilesInv, Row
<1> QED BY <1>5, <1>6 DEF ImgInv

LEMMA ImgInvStutter == ASSUME ImgInv, UNCHANGED imgVars PROVE ImgInv'
<1>1. UNCHANGED <<imgRow, imgFile, imgVol, aliasOf, upstream, nextImg, img, wanted, imgMarks>> BY DEF imgVars
<1>2. ImgTypeInv = ImgTypeInv' BY <1>1 DEF ImgTypeInv, Row
<1>3. ImgAliasInv = ImgAliasInv' BY <1>1 DEF ImgAliasInv, Replacing
<1>4. (\A r \in ImgReqs : ImgRequestInv(img[r]) /\ ImgIdInv(img[r])) => \A r \in ImgReqs : ImgRequestInv(img[r])' /\ ImgIdInv(img[r])'
  BY <1>1 DEF ImgRequestInv, ImgIdInv, Row
<1>5. ImgClean => ImgClean' BY <1>2, <1>3, <1>4 DEF ImgClean
<1>6. ImgFilesInv => ImgFilesInv' BY <1>1 DEF ImgFilesInv, Row
<1> QED BY <1>1, <1>5, <1>6 DEF ImgInv

LEMMA ImagesByInv == ASSUME ImgInv PROVE ImagesWhole
<1>1. ASSUME imgMarks \cap {"crossed", "unmoved", "part"} = {} PROVE \A n \in wanted : aliasOf[n] # 0
  BY <1>1 DEF ImgInv, ImgSpoilt, ImgClean, ImgAliasInv
<1>2. ASSUME imgMarks = {} PROVE ImgFilesInv
  BY <1>2 DEF ImgInv
<1> QED BY <1>1, <1>2 DEF ImagesWhole, ImgFilesInv

-----------------------------------------------------------------------------
-----------------------------------------------------------------------------
(* The files of a container (Files). *)

Host(u, m) == IF u \in Ids THEN 10 * m + u ELSE u

\* The tree of the container on the disk, under the map m.
On(w, m) == [p \in Paths |-> [type |-> w[p].type, owner |-> Host(w[p].owner, m), data |-> w[p].data]]

\* What a request has to say of owners once it has shifted them.
FHostInv(q) ==
  q.kind \in {"mkdir", "push"} =>
    /\ {"uid", "host", "root", "seen"} \subseteq DOMAIN q
    /\ q.seen \in Nat /\ q.host = ShiftIntoNs(q.uid, q.seen) /\ q.root = ShiftIntoNs(0, q.seen)
    /\ q.uid \in {Keep, 1}
    /\ q.kind = "mkdir" => q.uid = 1
    /\ q.path = IF q.kind = "mkdir" THEN "dir" ELSE "file"

FShiftInv(q) ==
  /\ {"uid", "path", "map"} \subseteq DOMAIN q
  /\ q.kind \in {"mkdir", "push"} /\ q.uid \in {Keep, 1} /\ q.map \in Maps
  /\ q.kind = "mkdir" => q.uid = 1
  /\ q.path = IF q.kind = "mkdir" THEN "dir" ELSE "file"

\* What the child has told.
PullTold(q) ==
  /\ {"ok", "type", "owner", "data", "true"} \subseteq DOMAIN q.res /\ "seen" \in DOMAIN q
  /\ ShiftFromNs(q.res.owner, q.seen) = q.res.true.owner
  /\ q.res.type = q.res.true.type /\ q.res.data = q.res.true.data

FResInv(q) ==
  /\ "res" \in DOMAIN q
  /\ q.kind = "export" /\ q.res.ok => q.res.image = q.res.true
  /\ q.kind = "pull" /\ q.res.ok =>
       IF q.at = "done" THEN q.res.type = q.res.true.type /\ q.res.owner = q.res.true.owner /\ q.res.data = q.res.true.data
       ELSE PullTold(q)
  /\ q.kind = "exists" /\ q.res # Failed => q.res.ok = q.res.true

FilesReqInv(q) ==
  /\ {"at", "kind"} \subseteq DOMAIN q
  /\ q.at \in {"none", "shift", "mount", "fork", "write", "umount", "unmap", "check", "unshift", "pack", "reshift", "done"}
  /\ q.kind \in {"none", "mkdir", "push", "pull", "exists", "remove", "export"}
  /\ q.at = "none" \/ q.kind = "none" => q = NoReq
  /\ q.at = "shift" => FShiftInv(q)
  /\ q.at \in {"mount", "fork"} =>
       /\ q.kind \in {"mkdir", "push", "pull", "exists", "remove"} /\ FHostInv(q)
       /\ {"path", "map"} \subseteq DOMAIN q /\ q.path \in Paths
  /\ q.at = "write" => q.kind = "push" /\ FHostInv(q) /\ {"path", "map", "exists", "ns"} \subseteq DOMAIN q
  /\ q.at \in {"fork", "write", "umount", "unshift", "pack", "reshift"} => "our" \in DOMAIN q
  /\ q.at = "unmap" => q.kind = "pull" /\ q.res.ok
  /\ q.at \in {"check", "unshift", "pack", "reshift"} => q.kind = "export"
  /\ q.at \in {"check", "unshift", "pack", "reshift", "umount", "unmap"} => "map" \in DOMAIN q
  /\ q.at \in {"reshift", "umount", "unmap", "done"} => FResInv(q)

\* A client that has no command has no request.
FilesCmdInv(c, q) ==
  /\ c.prog \in {"push -p", "push -r"} => c.uid = 1
  /\ c = NoCmd => q = NoReq

Packs(q) == q.kind = "export" /\ q.at \in {"pack", "reshift"}
Ours(q) == q.at \in {"fork", "write", "umount", "unshift", "pack", "reshift"} /\ q.our

WishInv ==
  /\ wish = [p \in Paths |-> wish[p]]
  /\ \A p \in Paths : /\ wish[p] = [type |-> wish[p].type, owner |-> wish[p].owner, data |-> wish[p].data]
                      /\ wish[p].type = "none" => wish[p].owner = Keep
                      /\ wish[p].type # "none" => wish[p].owner \in Ids
  /\ wish["dir"].type \in {"none", "directory"} /\ wish["file"].type \in {"none", "file"}
  /\ wish["file"].type # "none" => wish["dir"].type = "directory"

\* A child has opened the file and writes to it.
WriteInv(q) ==
  /\ tree = [p \in Paths |-> tree[p]]
  /\ tree["dir"] = On(wish, lastMap)["dir"] /\ wish["dir"].type = "directory"
  /\ tree["file"] = [type |-> "file", owner |-> tree["file"].owner, data |-> tree["file"].data]
  /\ q.exists = (wish["file"].type # "none")
  /\ q.exists => tree["file"].owner = On(wish, lastMap)["file"].owner
  /\ q.seen = Through /\ q.ns = Ns /\ mode # "starting" /\ ~ Packing

FilesTreeInv ==
  /\ (\A r \in FileReqs : freq[r].at # "write") /\ ~ Packing => tree = On(wish, lastMap)
  /\ \A r \in FileReqs : freq[r].at = "write" => WriteInv(freq[r])
  /\ \A r, s \in FileReqs : freq[r].at = "write" /\ freq[s].at = "write" => r = s
  /\ \A r, s \in FileReqs : freq[r].kind = "export" /\ freq[s].kind = "export" => r = s
  /\ Packing => tree = wish /\ mode = "stopped"
  /\ \A r \in FileReqs : Packs(freq[r]) => freq[r].map = lastMap

FilesMountInv ==
  /\ mode # "stopped" => mounted
  /\ mode = "starting" => nextMap = lastMap
  /\ \A r \in FileReqs : freq[r].at = "fork" => mounted
  /\ mode = "stopped" /\ mounted => \E r \in FileReqs : Ours(freq[r])

FilesTypeInv ==
  /\ lastMap \in Maps /\ nextMap \in Maps /\ mounted \in BOOLEAN
  /\ mode \in {"stopped", "starting", "running"}
  /\ freq = [r \in FileReqs |-> freq[r]] /\ fcli = [r \in FileReqs |-> fcli[r]]

FilesRequests == \A r \in FileReqs : FilesReqInv(freq[r]) /\ FilesCmdInv(fcli[r], freq[r])

FilesClean ==
  /\ FilesTypeInv /\ WishInv /\ FilesTreeInv /\ FilesMountInv
  /\ FilesRequests

FilesInv == fileMarks = {} => FilesClean

-----------------------------------------------------------------------------
(* Owners. *)

\* What a map does to an owner and what it takes back.
LEMMA HostOf ==
  ASSUME NEW m \in Nat, NEW u \in Ids
  PROVE  /\ ShiftIntoNs(u, m) = Host(u, m) /\ Host(u, m) = 10 * m + u /\ Host(u, m) # -1
         /\ ShiftFromNs(Host(u, m), m) = u
BY DEF Host, ShiftIntoNs, ShiftFromNs, Ids

LEMMA HostOfNone ==
  ASSUME NEW m \in Nat
  PROVE  ShiftIntoNs(Keep, m) = -1 /\ ShiftFromNs(Keep, m) = -1 /\ Host(Keep, m) = Keep /\ Keep \notin Ids
BY DEF Host, ShiftIntoNs, ShiftFromNs, Ids, Keep

LEMMA HostWithout ==
  ASSUME NEW u \in Ids
  PROVE  ShiftIntoNs(u, 0) = u /\ ShiftFromNs(u, 0) = u /\ Host(u, 0) = u
BY DEF Host, ShiftIntoNs, ShiftFromNs, Ids

\* ShiftRootfs and UnshiftRootfs of the whole tree.
LEMMA ShiftedIsOn ==
  ASSUME NEW m \in Nat, WishInv
  PROVE  Shifted(wish, m) = On(wish, m) /\ Unshifted(On(wish, m), m) = wish
<1>1. ASSUME NEW p \in Paths PROVE wish[p].owner = Keep \/ wish[p].owner \in Ids
  BY DEF WishInv
<1>2. ASSUME NEW p \in Paths
      PROVE  [wish[p] EXCEPT !.owner = IF ShiftIntoNs(@, m) = -1 THEN @ ELSE ShiftIntoNs(@, m)] = On(wish, m)[p]
  <2>1. PICK w : w = wish[p] OBVIOUS
  <2>2. w = [type |-> w.type, owner |-> w.owner, data |-> w.data] /\ (w.owner = Keep \/ w.owner \in Ids)
    BY <1>1, <2>1 DEF WishInv
  <2>3. On(wish, m)[p] = [type |-> w.type, owner |-> Host(w.owner, m), data |-> w.data] BY <2>1 DEF On
  <2>4. (IF ShiftIntoNs(w.owner, m) = -1 THEN w.owner ELSE ShiftIntoNs(w.owner, m)) = Host(w.owner, m)
    BY <2>2, HostOf, HostOfNone
  <2>5. [w EXCEPT !.owner = IF ShiftIntoNs(@, m) = -1 THEN @ ELSE ShiftIntoNs(@, m)]
          = [type |-> w.type, owner |-> Host(w.owner, m), data |-> w.data]
    BY <2>2, <2>4
  <2> QED BY <2>1, <2>3, <2>5
<1>3. ASSUME NEW p \in Paths
      PROVE  [On(wish, m)[p] EXCEPT !.owner = IF ShiftFromNs(@, m) = -1 THEN @ ELSE ShiftFromNs(@, m)] = wish[p]
  <2>1. PICK w : w = wish[p] OBVIOUS
  <2>2. w = [type |-> w.type, owner |-> w.owner, data |-> w.data] /\ (w.owner = Keep \/ w.owner \in Ids)
    BY <1>1, <2>1 DEF WishInv
  <2>3. PICK h : h = On(wish, m)[p] OBVIOUS
  <2>4. h = [type |-> w.type, owner |-> Host(w.owner, m), data |-> w.data] BY <2>1, <2>3 DEF On
  <2>5. (IF ShiftFromNs(h.owner, m) = -1 THEN h.owner ELSE ShiftFromNs(h.owner, m)) = w.owner
    <3>1. h.owner = Host(w.owner, m) BY <2>4
    <3>2. CASE w.owner = Keep BY <3>1, <3>2, HostOfNone DEF Keep
    <3>3. CASE w.owner \in Ids
      <4>1. w.owner # -1 BY <3>3 DEF Ids
      <4> QED BY <3>1, <3>3, <4>1, HostOf
    <3> QED BY <2>2, <3>2, <3>3
  <2>6. [h EXCEPT !.owner = IF ShiftFromNs(@, m) = -1 THEN @ ELSE ShiftFromNs(@, m)] = w
    BY <2>2, <2>4, <2>5
  <2> QED BY <2>1, <2>3, <2>6
<1>4. Shifted(wish, m) = On(wish, m) BY <1>2 DEF Shifted, On
<1>5. Unshifted(On(wish, m), m) = [p \in Paths |-> wish[p]] BY <1>3 DEF Unshifted
<1> QED BY <1>4, <1>5 DEF WishInv

\* The owner a child was given and the one it writes, the container running
\* or not: the owner that was asked for, under the map of the container.
LEMMA OwnerOnDisk ==
  ASSUME NEW m \in Nat, NEW u \in Ids, NEW run \in BOOLEAN
  PROVE  LET seen == IF run THEN 0 ELSE m
             ns == IF run THEN m ELSE 0
         IN ShiftIntoNs(ShiftIntoNs(u, seen), ns) = Host(u, m) /\ ShiftIntoNs(u, seen) # Keep
<1>1. Ids = {0, 1} BY DEF Ids
<1>2. CASE run
  <2>1. ShiftIntoNs(u, 0) = u BY HostWithout
  <2> QED BY <1>1, <1>2, <2>1, HostOf DEF Keep
<1>3. CASE ~run
  <2>1. ShiftIntoNs(u, m) = Host(u, m) BY HostOf
  <2>2. \A h : ShiftIntoNs(h, 0) = h BY DEF ShiftIntoNs
  <2> QED BY <1>3, <2>1, <2>2, HostOf DEF Keep
<1> QED BY <1>2, <1>3

\* The owner a child reads and what is told to the client, likewise.
LEMMA OwnerTold ==
  ASSUME NEW m \in Nat, NEW u \in Ids, NEW run \in BOOLEAN
  PROVE  LET seen == IF run THEN 0 ELSE m
             ns == IF run THEN m ELSE 0
             told == IF ns = 0 THEN Host(u, m) ELSE IF ShiftFromNs(Host(u, m), ns) = -1 THEN Nobody ELSE ShiftFromNs(Host(u, m), ns)
         IN ShiftFromNs(told, seen) = u
<1>1. u # -1 BY DEF Ids
<1>2. CASE run /\ m = 0
  BY <1>2, HostWithout
<1>3. CASE run /\ m # 0
  <2>1. ShiftFromNs(Host(u, m), m) = u BY HostOf
  <2> QED BY <1>1, <1>3, <2>1, HostWithout
<1>4. CASE ~run BY <1>4, HostOf
<1> QED BY <1>2, <1>3, <1>4

-----------------------------------------------------------------------------
(* The files step by step. *)

LEMMA FilesAtRest == FilesReqInv(NoReq) /\ NoReq.at = "none" /\ NoReq.kind = "none"
BY DEF FilesReqInv, NoReq

LEMMA FilesReqNext ==
  ASSUME NEW s, NEW p, NEW d, p = freq'[s], d = fcli'[s], FilesReqInv(p), FilesCmdInv(d, p)
  PROVE  FilesReqInv(freq[s])' /\ FilesCmdInv(fcli[s], freq[s])'
BY DEF FilesReqInv, FShiftInv, FHostInv, FResInv, PullTold, FilesCmdInv

\* A step of one request.
LEMMA FilesOne ==
  ASSUME FilesTypeInv, FilesRequests, NEW r \in FileReqs, NEW q, freq' = [freq EXCEPT ![r] = q], FilesReqInv(q),
         UNCHANGED fcli, freq[r] # NoReq
  PROVE  /\ FilesRequests' /\ freq' = [s \in FileReqs |-> freq'[s]]
         /\ freq'[r] = q /\ \A s \in FileReqs \ {r} : freq'[s] = freq[s]
<1>1. freq' = [s \in FileReqs |-> IF s = r THEN q ELSE freq[s]] BY DEF FilesTypeInv
<1>2. freq'[r] = q /\ \A s \in FileReqs \ {r} : freq'[s] = freq[s] BY <1>1
<1>3. ASSUME NEW s \in FileReqs PROVE FilesReqInv(freq[s])' /\ FilesCmdInv(fcli[s], freq[s])'
  <2>1. PICK p, d : p = freq'[s] /\ d = fcli'[s] OBVIOUS
  <2>2. FilesReqInv(p)
    <3>1. CASE s = r BY <1>2, <2>1, <3>1
    <3>2. CASE s # r BY <1>2, <2>1, <3>2 DEF FilesRequests
    <3> QED BY <3>1, <3>2
  <2>3. FilesCmdInv(d, p)
    <3>0. d = fcli[s] BY <2>1
    <3>1. CASE s = r BY <3>0, <3>1 DEF FilesRequests, FilesCmdInv
    <3>2. CASE s # r BY <1>2, <2>1, <3>0, <3>2 DEF FilesRequests
    <3> QED BY <3>1, <3>2
  <2> QED BY <2>1, <2>2, <2>3, FilesReqNext
<1> QED BY <1>1, <1>2, <1>3 DEF FilesRequests

\* The tree of a step of a request that is not at work on it.
LEMMA FilesTreeQuiet ==
  ASSUME FilesTreeInv, NEW r \in FileReqs, NEW q, freq'[r] = q, \A s \in FileReqs \ {r} : freq'[s] = freq[s],
         UNCHANGED <<tree, wish, mode, lastMap>>,
         freq[r].at # "write", q.at # "write", ~ Packs(freq[r]), ~ Packs(q),
         q.kind = "export" => freq[r].kind = "export" \/ \A s \in FileReqs \ {r} : freq[s].kind # "export"
  PROVE  FilesTreeInv'
<1>1. \A s \in FileReqs : freq'[s].at = "write" => s # r /\ freq'[s] = freq[s] OBVIOUS
<1>2. \A s \in FileReqs : freq[s].at = "write" => s # r /\ freq'[s] = freq[s] OBVIOUS
<1>3. \A s \in FileReqs : Packs(freq'[s]) => s # r /\ freq'[s] = freq[s] OBVIOUS
<1>4. \A s \in FileReqs : Packs(freq[s]) => s # r /\ freq'[s] = freq[s] OBVIOUS
<1>5. Packing' <=> Packing
  <2>1. Packing <=> \E s \in FileReqs : Packs(freq[s]) BY DEF Packing, Packs
  <2>2. Packing' <=> \E s \in FileReqs : Packs(freq'[s]) BY DEF Packing, Packs
  <2> QED BY <1>3, <1>4, <2>1, <2>2
<1>6. On(wish, lastMap)' = On(wish, lastMap) BY DEF On
<1>7. (\A s \in FileReqs : freq'[s].at # "write") /\ ~ Packing' => tree' = On(wish, lastMap)'
  BY <1>2, <1>5, <1>6 DEF FilesTreeInv
<1>8. ASSUME NEW s \in FileReqs, freq'[s].at = "write" PROVE WriteInv(freq[s])'
  <2>1. WriteInv(freq[s]) /\ freq'[s] = freq[s] BY <1>1, <1>8 DEF FilesTreeInv
  <2> QED BY <2>1, <1>5, <1>6 DEF WriteInv, Through, Ns, Running
<1>9. \A s, t \in FileReqs : freq'[s].at = "write" /\ freq'[t].at = "write" => s = t
  BY <1>1 DEF FilesTreeInv
<1>10. ASSUME NEW s \in FileReqs, NEW t \in FileReqs, freq'[s].kind = "export", freq'[t].kind = "export" PROVE s = t
  BY <1>10 DEF FilesTreeInv
<1>11. Packing' => tree' = wish' /\ mode' = "stopped" BY <1>5 DEF FilesTreeInv
<1>12. \A s \in FileReqs : Packs(freq[s])' => freq'[s].map = lastMap' BY <1>3 DEF FilesTreeInv, Packs
<1> QED BY <1>7, <1>8, <1>9, <1>10, <1>11, <1>12 DEF FilesTreeInv

\* The mount of a step that leaves it alone.
LEMMA FilesMountQuiet ==
  ASSUME FilesMountInv, NEW r \in FileReqs, NEW q, freq'[r] = q, \A s \in FileReqs \ {r} : freq'[s] = freq[s],
         UNCHANGED <<mode, mounted, lastMap, nextMap>>,
         q.at = "fork" => freq[r].at = "fork", Ours(freq[r]) => Ours(q)
  PROVE  FilesMountInv'
<1>1. \A s \in FileReqs : freq'[s].at = "fork" => mounted BY DEF FilesMountInv
<1>2. (\E s \in FileReqs : Ours(freq[s])) => \E s \in FileReqs : Ours(freq[s])'
  <2>1. ASSUME NEW s \in FileReqs, Ours(freq[s]) PROVE Ours(freq[s])'
    <3>1. CASE s = r BY <2>1, <3>1 DEF Ours
    <3>2. CASE s # r BY <2>1, <3>2 DEF Ours
    <3> QED BY <3>1, <3>2
  <2> QED BY <2>1
<1> QED BY <1>1, <1>2 DEF FilesMountInv

\* Everything of a step of one request.
LEMMA FilesStep ==
  ASSUME FilesClean, NEW r \in FileReqs, NEW q, freq' = [freq EXCEPT ![r] = q], FilesReqInv(q),
         UNCHANGED <<fcli, mode, lastMap, nextMap>>, freq[r] # NoReq, mounted' \in BOOLEAN,
         WishInv', FilesTreeInv', FilesMountInv'
  PROVE  FilesClean'
<1>1. FilesRequests' /\ freq' = [s \in FileReqs |-> freq'[s]] BY FilesOne DEF FilesClean
<1> QED BY <1>1 DEF FilesClean, FilesTypeInv

\* A step of one request that changes the request alone.
LEMMA FilesQuiet ==
  ASSUME FilesClean, NEW r \in FileReqs, NEW q, freq' = [freq EXCEPT ![r] = q], FilesReqInv(q),
         UNCHANGED <<tree, wish, fcli, mode, lastMap, nextMap, mounted>>, freq[r] # NoReq,
         freq[r].at # "write", q.at # "write", ~ Packs(freq[r]), ~ Packs(q), q.kind = freq[r].kind,
         q.at = "fork" => freq[r].at = "fork", Ours(freq[r]) => Ours(q)
  PROVE  FilesClean'
<1>1. freq'[r] = q /\ \A s \in FileReqs \ {r} : freq'[s] = freq[s] BY FilesOne DEF FilesClean
<1>2. FilesTreeInv' BY <1>1, FilesTreeQuiet DEF FilesClean
<1>3. FilesMountInv' BY <1>1, FilesMountQuiet DEF FilesClean
<1>4. WishInv' /\ mounted' \in BOOLEAN BY DEF FilesClean, WishInv, FilesTypeInv
<1> QED BY <1>2, <1>3, <1>4, FilesStep

LEMMA FilesAsk == ASSUME FilesClean, NEW r \in FileReqs, NEW c \in Commands, FileCommand(r, c) PROVE FilesClean'
<1>0. FilesTypeInv /\ FilesRequests /\ FilesTreeInv /\ FilesMountInv /\ WishInv BY DEF FilesClean
<1>1. fcli[r] = NoCmd /\ freq[r] = NoReq BY <1>0 DEF FileCommand, FilesRequests, FilesCmdInv
<1>2. PICK q : q = First(c) OBVIOUS
<1>3. UNCHANGED <<tree, wish, mode, lastMap, nextMap, mounted>> BY DEF FileCommand
<1>4. /\ c.prog \in {"push -p", "push -r"} => c.uid = 1
      /\ c.prog \in {"push", "push -p", "push -r", "append", "edit", "pull", "pull -r", "publish", "exec", "delete"}
      /\ c.prog = "push" => c.uid = 1
      /\ c.prog = "delete" => c.path \in Paths
  BY DEF Commands
<1>5. /\ FilesReqInv(q) /\ q.at \in {"shift", "mount", "check"} /\ (q.kind = "export" => c.prog = "publish")
  <2> USE DEF FilesReqInv, FShiftInv, FHostInv, First, NoReq, Paths
  <2>0. lastMap \in Maps BY <1>0 DEF FilesTypeInv
  <2>1. CASE c.prog = "push"
    <3>1. q = Push(c.uid, {c.data}, "overwrite") BY <1>2, <2>1 DEF First
    <3> QED BY <1>4, <2>0, <2>1, <3>1 DEF Push, Keep
  <2>2. CASE c.prog = "append"
    <3>1. q = Push(Keep, {c.data}, "append") BY <1>2, <2>2
    <3> QED BY <2>0, <3>1 DEF Push
  <2>3. CASE c.prog \in {"push -p", "pull -r"}
    <3>1. q = Get("dir") BY <1>2, <2>3
    <3> QED BY <2>0, <3>1 DEF Get
  <2>4. CASE c.prog \in {"pull", "edit"}
    <3>1. q = Get("file") BY <1>2, <2>4
    <3> QED BY <2>0, <3>1 DEF Get
  <2>5. CASE c.prog = "push -r"
    <3>1. q = Mkdir(c.uid) BY <1>2, <2>5
    <3> QED BY <1>4, <2>0, <2>5, <3>1 DEF Mkdir
  <2>6. CASE c.prog = "delete"
    <3>1. q = Delete(c.path) BY <1>2, <2>6
    <3> QED BY <1>4, <2>0, <2>6, <3>1 DEF Delete
  <2>7. CASE c.prog = "publish"
    <3>1. q = ExportReq BY <1>2, <2>7
    <3> QED BY <2>0, <2>7, <3>1 DEF ExportReq
  <2>8. CASE c.prog = "exec"
    <3>1. q = Exists("dir") BY <1>2, <2>8
    <3> QED BY <2>0, <3>1 DEF Exists
  <2> QED BY <1>4, <2>1, <2>2, <2>3, <2>4, <2>5, <2>6, <2>7, <2>8
<1>6. freq' = [s \in FileReqs |-> IF s = r THEN q ELSE freq[s]] /\ fcli' = [s \in FileReqs |-> IF s = r THEN c ELSE fcli[s]]
  BY <1>0, <1>2 DEF FileCommand, FilesTypeInv
<1>7. freq'[r] = q /\ \A s \in FileReqs \ {r} : freq'[s] = freq[s] BY <1>6
<1>8. FilesCmdInv(c, q)
  <2>0. NoCmd.prog = "none" BY DEF NoCmd
  <2>1. c # NoCmd BY <1>4, <2>0
  <2> QED BY <1>4, <2>1 DEF FilesCmdInv
<1>9. ASSUME NEW s \in FileReqs PROVE FilesReqInv(freq[s])' /\ FilesCmdInv(fcli[s], freq[s])'
  <2>1. PICK p, d : p = freq'[s] /\ d = fcli'[s] OBVIOUS
  <2>2. FilesReqInv(p) /\ FilesCmdInv(d, p)
    <3>1. CASE s = r BY <1>5, <1>6, <1>8, <2>1, <3>1
    <3>2. CASE s # r BY <1>0, <1>6, <2>1, <3>2 DEF FilesRequests
    <3> QED BY <3>1, <3>2
  <2> QED BY <2>1, <2>2, FilesReqNext
<1>10. FilesTreeInv'
  <2>1. NoReq.at = "none" /\ NoReq.kind = "none" BY DEF NoReq
  <2>2. q.kind = "export" => \A s \in FileReqs \ {r} : freq[s].kind # "export" BY <1>5 DEF FileCommand
  <2>3. ~ Packs(freq[r]) /\ ~ Packs(q) BY <1>1, <1>5, <2>1 DEF Packs
  <2> QED BY <1>0, <1>1, <1>3, <1>5, <1>7, <2>1, <2>2, <2>3, FilesTreeQuiet
<1>11. FilesMountInv'
  <2>1. ~ Ours(freq[r]) BY <1>1 DEF NoReq, Ours
  <2> QED BY <1>0, <1>3, <1>5, <1>7, <2>1, FilesMountQuiet
<1> QED BY <1>0, <1>3, <1>6, <1>9, <1>10, <1>11 DEF FilesClean, FilesRequests, FilesTypeInv, WishInv

LEMMA FilesGoOn == ASSUME FilesClean, NEW r \in FileReqs, FileAnswer(r) PROVE FilesClean'
<1>0. FilesTypeInv /\ FilesRequests /\ FilesTreeInv /\ FilesMountInv /\ WishInv BY DEF FilesClean
<1>1. PICK q, c : q = freq[r] /\ c = fcli[r] OBVIOUS
<1>2. FilesReqInv(q) /\ FilesCmdInv(c, q) /\ q.at = "done" BY <1>0, <1>1 DEF FilesRequests, FileAnswer, FAt
<1>3. c # NoCmd /\ (c.prog \in {"push -p", "push -r"} => c.uid = 1)
  <2>1. q # NoReq BY <1>2 DEF NoReq
  <2> QED BY <1>2, <2>1 DEF FilesCmdInv
<1>4. UNCHANGED <<tree, wish, mode, mounted, lastMap, nextMap>> BY DEF FileAnswer, FLeaves
<1>5. PICK next : next = Follow(c, q.kind, q.res) OBVIOUS
<1>6. /\ FilesReqInv(next) /\ next.at \in {"none", "shift", "mount"} /\ next.kind # "export"
  <2> USE DEF FilesReqInv, FShiftInv, FHostInv, NoReq, Paths
  <2>0. lastMap \in Maps BY <1>0 DEF FilesTypeInv
  <2>1. FilesReqInv(Get("file")) /\ Get("file").at = "mount" /\ Get("file").kind = "pull" BY <2>0 DEF Get
  <2>2. c.prog = "push -p" \/ c.prog = "push -r" =>
          /\ FilesReqInv(Mkdir(c.uid)) /\ Mkdir(c.uid).at = "shift" /\ Mkdir(c.uid).kind = "mkdir"
          /\ FilesReqInv(Push(c.uid, {c.data}, "overwrite")) /\ Push(c.uid, {c.data}, "overwrite").at = "shift"
          /\ Push(c.uid, {c.data}, "overwrite").kind = "push"
    BY <1>3, <2>0 DEF Mkdir, Push, Keep
  <2>3. \A d : /\ FilesReqInv(Push(Keep, d, "overwrite")) /\ Push(Keep, d, "overwrite").at = "shift"
               /\ Push(Keep, d, "overwrite").kind = "push"
    BY <2>0 DEF Push
  <2>4. FilesReqInv(NoReq) /\ NoReq.at = "none" /\ NoReq.kind = "none" BY FilesAtRest
  <2>5. \/ next = NoReq
        \/ next = Get("file")
        \/ (c.prog = "push -p" \/ c.prog = "push -r") /\ next \in {Mkdir(c.uid), Push(c.uid, {c.data}, "overwrite")}
        \/ \E d : next = Push(Keep, d, "overwrite")
    <3>1. CASE c.prog = "push -p" /\ q.kind = "pull"
      <4>1. next = recursiveMkdir(c, q.res) BY <1>5, <3>1 DEF Follow
      <4> QED BY <3>1, <4>1 DEF recursiveMkdir
    <3>2. CASE c.prog \in {"push -p", "push -r"} /\ q.kind = "mkdir"
      <4>1. next = NoReq \/ next = Push(c.uid, {c.data}, "overwrite") BY <1>5, <3>2 DEF Follow
      <4> QED BY <3>2, <4>1
    <3>3. CASE c.prog = "pull -r" /\ q.kind = "pull"
      <4>1. next = recursivePull(c, q.res) BY <1>5, <3>3 DEF Follow
      <4> QED BY <4>1 DEF recursivePull
    <3>4. CASE c.prog = "edit" /\ q.kind = "pull"
      <4>1. next = NoReq \/ next = Push(Keep, q.res.data \cup {c.data}, "overwrite") BY <1>5, <3>4 DEF Follow
      <4> QED BY <4>1
    <3>5. CASE /\ ~ (c.prog = "push -p" /\ q.kind = "pull") /\ ~ (c.prog \in {"push -p", "push -r"} /\ q.kind = "mkdir")
               /\ ~ (c.prog = "pull -r" /\ q.kind = "pull") /\ ~ (c.prog = "edit" /\ q.kind = "pull")
      BY <1>5, <3>5 DEF Follow
    <3> QED BY <3>1, <3>2, <3>3, <3>4, <3>5
  <2> HIDE DEF FilesReqInv, FShiftInv, FHostInv, NoReq, Paths
  <2>6. CASE (c.prog = "push -p" \/ c.prog = "push -r") /\ next \in {Mkdir(c.uid), Push(c.uid, {c.data}, "overwrite")}
    BY <2>2, <2>6
  <2> QED BY <2>1, <2>3, <2>4, <2>5, <2>6
<1>7. /\ freq' = [s \in FileReqs |-> IF s = r THEN next ELSE freq[s]]
      /\ fcli' = [s \in FileReqs |-> IF s = r THEN (IF next = NoReq THEN NoCmd ELSE c) ELSE fcli[s]]
  BY <1>0, <1>1, <1>5 DEF FileAnswer, FilesTypeInv
<1>8. freq'[r] = next /\ \A s \in FileReqs \ {r} : freq'[s] = freq[s] BY <1>7
<1>9. ASSUME NEW s \in FileReqs PROVE FilesReqInv(freq[s])' /\ FilesCmdInv(fcli[s], freq[s])'
  <2>1. PICK p, d : p = freq'[s] /\ d = fcli'[s] OBVIOUS
  <2>2. FilesReqInv(p) /\ FilesCmdInv(d, p)
    <3>1. CASE s = r
      <4>1. p = next /\ d = (IF next = NoReq THEN NoCmd ELSE c) BY <1>7, <2>1, <3>1
      <4>2. NoCmd.prog = "none" BY DEF NoCmd
      <4>3. FilesCmdInv(d, p) BY <1>3, <4>1, <4>2 DEF FilesCmdInv
      <4> QED BY <1>6, <4>1, <4>3
    <3>2. CASE s # r BY <1>0, <1>7, <2>1, <3>2 DEF FilesRequests
    <3> QED BY <3>1, <3>2
  <2> QED BY <2>1, <2>2, FilesReqNext
<1>10. FilesTreeInv'
  <2>1. ~ Packs(freq[r]) /\ ~ Packs(next) BY <1>1, <1>2, <1>6 DEF Packs
  <2> QED BY <1>0, <1>1, <1>2, <1>4, <1>6, <1>8, <2>1, FilesTreeQuiet
<1>11. FilesMountInv'
  <2>1. ~ Ours(freq[r]) BY <1>1, <1>2 DEF Ours
  <2> QED BY <1>0, <1>4, <1>6, <1>8, <2>1, FilesMountQuiet
<1> QED BY <1>0, <1>4, <1>7, <1>9, <1>10, <1>11 DEF FilesClean, FilesRequests, FilesTypeInv, WishInv

LEMMA FilesPushes ==
  ASSUME FilesClean, NEW r \in FileReqs, FilePush(r)
  PROVE  FilesClean'
<1>0. FilesTypeInv /\ FilesRequests BY DEF FilesClean
<1>1. PICK q : q = freq[r] OBVIOUS
<1>2. FilesReqInv(q) /\ q.at = "shift" /\ FShiftInv(q) BY <1>0, <1>1 DEF FilesRequests, FilePush, FAt, FilesReqInv
<1>3. PICK m : m = (IF Running THEN 0 ELSE q.map) OBVIOUS
<1>4. m \in Nat BY <1>2, <1>3, FilesAssumption DEF FShiftInv
<1>5. PICK x : x = [field \in DOMAIN q \cup {"host", "root", "seen"} |->
                      CASE field = "host" -> ShiftIntoNs(q.uid, m)
                        [] field = "root" -> ShiftIntoNs(0, m)
                        [] field = "seen" -> m
                        [] field = "at" -> "mount"
                        [] OTHER -> q[field]] OBVIOUS
<1>6. freq' = [freq EXCEPT ![r] = x] BY <1>1, <1>3, <1>5 DEF FilePush
<1>7. /\ DOMAIN x = DOMAIN q \cup {"host", "root", "seen"}
      /\ x.host = ShiftIntoNs(q.uid, m) /\ x.root = ShiftIntoNs(0, m) /\ x.seen = m /\ x.at = "mount"
      /\ x.kind = q.kind /\ x.uid = q.uid /\ x.path = q.path /\ x.map = q.map
  BY <1>2, <1>5 DEF FilesReqInv, FShiftInv
<1>8. FilesReqInv(x) BY <1>2, <1>4, <1>7 DEF FilesReqInv, FShiftInv, FHostInv, NoReq, Paths
<1>9. UNCHANGED <<tree, wish, fcli, mode, lastMap, nextMap, mounted>> BY DEF FilePush, FLeaves
<1>10. q # NoReq /\ ~ Packs(q) /\ ~ Packs(x) /\ ~ Ours(q) BY <1>2, <1>7 DEF NoReq, Packs, Ours
<1> QED BY <1>1, <1>2, <1>6, <1>7, <1>8, <1>9, <1>10, FilesQuiet

\* The answers that say that a request failed.
LEMMA FilesFails ==
  ASSUME NEW q, FilesReqInv(q), q # NoReq, NEW x, x = [at |-> "done", kind |-> q.kind, res |-> Failed]
  PROVE  FilesReqInv(x)
BY DEF FilesReqInv, FResInv, NoReq, Failed

LEMMA FilesMounts ==
  ASSUME FilesClean, NEW r \in FileReqs, StorageStart(r)
  PROVE  FilesClean'
<1>0. FilesTypeInv /\ FilesRequests /\ FilesTreeInv /\ FilesMountInv /\ WishInv BY DEF FilesClean
<1>1. PICK q : q = freq[r] OBVIOUS
<1>2. FilesReqInv(q) /\ q.at = "mount" BY <1>0, <1>1 DEF FilesRequests, StorageStart, FAt
<1>3. q # NoReq /\ ~ Packs(q) /\ ~ Ours(q) BY <1>2 DEF NoReq, Packs, Ours
<1>4. UNCHANGED <<tree, wish, fcli, mode, lastMap, nextMap>> BY DEF StorageStart, FLeaves
<1>5. CASE Answer(r, Failed) /\ UNCHANGED mounted
  <2>1. PICK x : x = [at |-> "done", kind |-> q.kind, res |-> Failed] OBVIOUS
  <2>2. freq' = [freq EXCEPT ![r] = x] BY <1>1, <1>5, <2>1 DEF Answer
  <2>3. FilesReqInv(x) BY <1>2, <1>3, <2>1, FilesFails
  <2>4. x.at = "done" /\ x.kind = q.kind /\ ~ Packs(x) BY <2>1 DEF Packs
  <2> QED BY <1>1, <1>2, <1>3, <1>4, <1>5, <2>2, <2>3, <2>4, FilesQuiet
<1>6. CASE freq' = [freq EXCEPT ![r] = WithOur(@, ~Running /\ ~mounted)] /\ mounted' = TRUE
  <2>1. PICK our : our = (~Running /\ ~mounted) OBVIOUS
  <2>2. PICK x : x = WithOur(q, our) OBVIOUS
  <2>3. freq' = [freq EXCEPT ![r] = x] BY <1>1, <1>6, <2>1, <2>2
  <2>4. /\ DOMAIN x = DOMAIN q \cup {"our", "at"} /\ x.our = our /\ x.at = "fork"
        /\ \A f \in DOMAIN q \ {"our", "at"} : x[f] = q[f]
    BY <2>2 DEF WithOur
  <2>5. x.kind = q.kind /\ x.path = q.path /\ x.map = q.map
    BY <1>2, <2>4 DEF FilesReqInv
  <2>6. q.kind \in {"mkdir", "push"} => x.host = q.host /\ x.root = q.root /\ x.seen = q.seen /\ x.uid = q.uid
    BY <1>2, <2>4 DEF FilesReqInv, FHostInv
  <2>7. FilesReqInv(x) BY <1>2, <2>4, <2>5, <2>6 DEF FilesReqInv, FHostInv, NoReq
  <2>8. freq'[r] = x /\ \A s \in FileReqs \ {r} : freq'[s] = freq[s]
    BY <1>0, <1>1, <1>3, <1>4, <2>3, <2>7, FilesOne
  <2>9. FilesTreeInv'
    <3>1. ~ Packs(x) BY <2>4 DEF Packs
    <3> QED BY <1>0, <1>1, <1>2, <1>3, <1>4, <2>4, <2>5, <2>8, <3>1, FilesTreeQuiet
  <2>10. FilesMountInv'
    <3>1. mode = "stopped" => \E s \in FileReqs : Ours(freq[s])'
      <4>1. CASE mode = "stopped" /\ ~mounted
        <5>1. our BY <2>1, <4>1 DEF Running
        <5>2. Ours(freq[r])' BY <2>4, <2>8, <5>1 DEF Ours
        <5> QED BY <5>2
      <4>2. CASE mode = "stopped" /\ mounted
        <5>1. PICK s \in FileReqs : Ours(freq[s]) BY <1>0, <4>2 DEF FilesMountInv
        <5>2. s # r BY <1>1, <1>3, <5>1
        <5>3. Ours(freq[s])' BY <2>8, <5>1, <5>2 DEF Ours
        <5> QED BY <5>3
      <4> QED BY <1>0, <4>1, <4>2 DEF FilesTypeInv
    <3> QED BY <1>0, <1>4, <1>6, <3>1 DEF FilesMountInv
  <2>11. WishInv' BY <1>0, <1>4 DEF WishInv
  <2> QED BY <1>1, <1>3, <1>4, <1>6, <2>3, <2>7, <2>9, <2>10, <2>11, FilesStep
<1> QED BY <1>5, <1>6 DEF StorageStart

\* What a child of a request finds, nothing having come between.
LEMMA ForkFinds ==
  ASSUME FilesClean, NEW r \in FileReqs, FAt(r, "fork"), FMark(ForkMarks(r)), fileMarks' = {}
  PROVE  /\ ~ Packing /\ mode # "starting" /\ Rooted /\ tree = On(wish, lastMap)
         /\ \A s \in FileReqs : freq[s].at # "write"
         /\ FilesReqInv(freq[r]) /\ FHostInv(freq[r]) /\ freq[r].path \in Paths
         /\ freq[r].kind \in {"mkdir", "push"} => freq[r].seen = Through
<1>1. ForkMarks(r) = {} BY DEF FMark
<1>2. ~ Packing /\ mode # "starting" /\ Apart(r) /\ ("seen" \in DOMAIN freq[r] => freq[r].seen = Through)
  BY <1>1 DEF ForkMarks
<1>3. FilesReqInv(freq[r]) /\ FHostInv(freq[r]) /\ freq[r].path \in Paths
  BY DEF FilesClean, FilesRequests, FilesReqInv, FAt
<1>4. freq[r].kind \in {"mkdir", "push"} => freq[r].seen = Through BY <1>2, <1>3 DEF FHostInv
<1>5. ASSUME NEW s \in FileReqs PROVE freq[s].at # "write"
  <2>1. SUFFICES ASSUME freq[s].at = "write" PROVE FALSE OBVIOUS
  <2>2. s # r BY <2>1 DEF FAt
  <2>3. FilesReqInv(freq[s]) BY DEF FilesClean, FilesRequests
  <2>4. freq[s].path = "file" BY <2>1, <2>3 DEF FilesReqInv, FHostInv
  <2>5. freq[r].path \in {"file", "dir"} BY <1>3 DEF Paths
  <2> QED BY <1>2, <2>1, <2>2, <2>4, <2>5 DEF Apart, FAt
<1>6. Rooted BY DEF FilesClean, FilesMountInv, FAt, Rooted
<1>7. tree = On(wish, lastMap) BY <1>2, <1>5 DEF FilesClean, FilesTreeInv
<1> QED BY <1>2, <1>3, <1>4, <1>5, <1>6, <1>7

\* The answers of the children.
LEMMA ResultIs ==
  ASSUME NEW r, NEW q, q = freq[r], FilesReqInv(q), q.at \in {"fork", "write"}, NEW res, Result(r, res), NEW seen, seen = Through,
         q.kind # "export",
         q.kind = "pull" /\ res.ok =>
           /\ {"ok", "type", "owner", "data", "true"} \subseteq DOMAIN res
           /\ ShiftFromNs(res.owner, seen) = res.true.owner
           /\ res.type = res.true.type /\ res.data = res.true.data,
         q.kind = "exists" /\ res # Failed => res.ok = res.true
  PROVE  \E x : /\ freq' = [freq EXCEPT ![r] = x] /\ FilesReqInv(x) /\ x.at = "umount" /\ x.kind = q.kind
                /\ x.our = q.our /\ ~ Packs(x) /\ q # NoReq /\ ~ Packs(q) /\ (Ours(q) => Ours(x))
<1>1. PICK x : x = [at |-> "umount", kind |-> q.kind, our |-> q.our, map |-> q.map, seen |-> seen, res |-> res] OBVIOUS
<1>2. freq' = [freq EXCEPT ![r] = x] BY <1>1 DEF Result
<1>3. x.at = "umount" /\ x.kind = q.kind /\ x.our = q.our /\ x.seen = seen /\ x.res = res
      /\ DOMAIN x = {"at", "kind", "our", "map", "seen", "res"}
  BY <1>1
<1>4. q # NoReq /\ q.kind # "none" BY DEF NoReq, FilesReqInv
<1>5. q.kind \in {"mkdir", "push", "pull", "exists", "remove"} BY <1>4 DEF FilesReqInv
<1>6. FResInv(x) BY <1>3, <1>5 DEF FResInv, PullTold
<1>7. FilesReqInv(x) BY <1>3, <1>5, <1>6 DEF FilesReqInv
<1> QED BY <1>2, <1>3, <1>4, <1>7 DEF Packs, Ours

\* A child that has told something and changed nothing.
LEMMA FilesTold ==
  ASSUME FilesClean, NEW r \in FileReqs, FAt(r, "fork"), FMark(ForkMarks(r)), fileMarks' = {}, NEW res, Result(r, res),
         UNCHANGED <<tree, wish, fcli, mode, lastMap, nextMap, mounted>>, freq[r].kind # "export",
         freq[r].kind = "pull" /\ res.ok =>
           /\ {"ok", "type", "owner", "data", "true"} \subseteq DOMAIN res
           /\ ShiftFromNs(res.owner, Through) = res.true.owner
           /\ res.type = res.true.type /\ res.data = res.true.data,
         freq[r].kind = "exists" /\ res # Failed => res.ok = res.true
  PROVE  FilesClean'
<1>1. PICK q, seen : q = freq[r] /\ seen = Through OBVIOUS
<1>2. FilesReqInv(q) /\ q.at = "fork" BY <1>1 DEF FilesClean, FilesRequests, FAt
<1>3. PICK x : /\ freq' = [freq EXCEPT ![r] = x] /\ FilesReqInv(x) /\ x.at = "umount" /\ x.kind = q.kind
               /\ x.our = q.our /\ ~ Packs(x) /\ q # NoReq /\ ~ Packs(q) /\ (Ours(q) => Ours(x))
  BY <1>1, <1>2, ResultIs
<1> QED BY <1>1, <1>2, <1>3, FilesQuiet

LEMMA FilesChecked == ASSUME FilesClean, NEW r \in FileReqs, ForkCheck(r), fileMarks' = {} PROVE FilesClean'
<1>1. PICK p : p = freq[r].path OBVIOUS
<1>2. FAt(r, "fork") /\ freq[r].kind = "exists" /\ FMark(ForkMarks(r)) /\ UNCHANGED <<tree, wish, fcli, mode, lastMap, nextMap, mounted>>
  BY DEF ForkCheck, FLeaves
<1>3. p \in Paths /\ Rooted /\ tree = On(wish, lastMap) BY <1>1, <1>2, ForkFinds
<1>4. PICK res : res = [ok |-> Rooted /\ Inside(p) /\ tree[p].type # "none", true |-> wish[p].type # "none"] OBVIOUS
<1>5. Result(r, res) BY <1>1, <1>4 DEF ForkCheck
<1>6. tree[p].type = wish[p].type /\ tree["dir"].type = wish["dir"].type BY <1>3 DEF On, Paths
<1>7. wish[p].type # "none" => Inside(p) BY <1>3, <1>6 DEF FilesClean, WishInv, Inside, Paths
<1>8. res.ok <=> res.true BY <1>3, <1>4, <1>6, <1>7
<1>9. res.ok = res.true BY <1>4, <1>8
<1> QED BY <1>2, <1>5, <1>9, FilesTold

LEMMA FilesRead == ASSUME FilesClean, NEW r \in FileReqs, ForkRead(r), fileMarks' = {} PROVE FilesClean'
<1>1. PICK p : p = freq[r].path OBVIOUS
<1>2. FAt(r, "fork") /\ freq[r].kind = "pull" /\ UNCHANGED <<tree, wish, fcli, mode, lastMap, nextMap, mounted>>
  BY DEF ForkRead, FLeaves
<1>3. FMark(ForkMarks(r)) BY DEF ForkRead, FMark
<1>4. p \in Paths /\ Rooted /\ tree = On(wish, lastMap) /\ mode # "starting" BY <1>1, <1>2, <1>3, ForkFinds
<1>5. PICK n : n = tree[p] OBVIOUS
<1>6. PICK res : res = [ok |-> TRUE, type |-> n.type, owner |-> InNs(n.owner), data |-> n.data,
                        entries |-> {x \in {"file"} : tree[x].type # "none"}, true |-> wish[p]] OBVIOUS
<1>7. Result(r, Failed) \/ (n.type # "none" /\ Result(r, res))
  BY <1>1, <1>5, <1>6 DEF ForkRead, FMark
<1>8. CASE Result(r, Failed)
  <2>1. ~ Failed.ok BY DEF Failed
  <2> QED BY <1>2, <1>3, <1>8, <2>1, FilesTold
<1>9. CASE n.type # "none" /\ Result(r, res)
  <2>1. PICK w, m : w = wish[p] /\ m = lastMap OBVIOUS
  <2>2. n.type = w.type /\ n.data = w.data /\ n.owner = Host(w.owner, m) BY <1>4, <1>5, <2>1 DEF On
  <2>3. w.owner \in Ids BY <1>4, <1>9, <2>1, <2>2 DEF FilesClean, WishInv
  <2>4. m \in Nat BY <2>1, FilesAssumption DEF FilesClean, FilesTypeInv
  <2>5. PICK run \in BOOLEAN : run = (mode = "running") OBVIOUS
  <2>6. Ns = (IF run THEN m ELSE 0) /\ Through = (IF run THEN 0 ELSE m) BY <2>1, <2>5 DEF Ns, Through, Running
  <2>7. InNs(n.owner) = IF Ns = 0 THEN Host(w.owner, m) ELSE IF ShiftFromNs(Host(w.owner, m), Ns) = -1 THEN Nobody ELSE ShiftFromNs(Host(w.owner, m), Ns)
    BY <2>2 DEF InNs
  <2>8. ShiftFromNs(InNs(n.owner), Through) = w.owner BY <2>3, <2>4, <2>6, <2>7, OwnerTold
  <2>9. /\ {"ok", "type", "owner", "data", "true"} \subseteq DOMAIN res
        /\ ShiftFromNs(res.owner, Through) = res.true.owner
        /\ res.type = res.true.type /\ res.data = res.true.data
    BY <1>6, <2>1, <2>2, <2>8
  <2> QED BY <1>2, <1>3, <1>9, <2>9, FilesTold
<1> QED BY <1>7, <1>8, <1>9

LEMMA FilesPulled == ASSUME FilesClean, NEW r \in FileReqs, FilePull(r), fileMarks' = {} PROVE FilesClean'
<1>1. PICK q : q = freq[r] OBVIOUS
<1>2. FilesReqInv(q) /\ q.at = "unmap" BY <1>1 DEF FilesClean, FilesRequests, FilePull, FAt
<1>3. q.kind = "pull" /\ q.res.ok /\ PullTold(q) BY <1>2 DEF FilesReqInv, FResInv
<1>4. UNCHANGED <<tree, wish, fcli, mode, lastMap, nextMap, mounted>> BY DEF FilePull, FLeaves
<1>5. (IF Running THEN 0 ELSE q.map) = q.seen BY <1>1 DEF FilePull, FMark
<1>6. PICK res : res = [q.res EXCEPT !.owner = ShiftFromNs(q.res.owner, q.seen)] OBVIOUS
<1>7. PICK x : x = [at |-> "done", kind |-> "pull", res |-> res] OBVIOUS
<1>8. freq' = [freq EXCEPT ![r] = x] BY <1>1, <1>3, <1>5, <1>6, <1>7 DEF FilePull, Answer
<1>9. res.owner = q.res.true.owner /\ res.type = q.res.type /\ res.data = q.res.data /\ res.true = q.res.true
  BY <1>3, <1>6 DEF PullTold
<1>10. res.type = res.true.type /\ res.owner = res.true.owner /\ res.data = res.true.data BY <1>3, <1>9 DEF PullTold
<1>11. FilesReqInv(x) BY <1>7, <1>10 DEF FilesReqInv, FResInv
<1>12. q # NoReq /\ x.at = "done" /\ x.kind = q.kind /\ ~ Packs(q) /\ ~ Packs(x) /\ ~ Ours(q)
  BY <1>2, <1>3, <1>7 DEF NoReq, Packs, Ours
<1> QED BY <1>1, <1>2, <1>4, <1>8, <1>11, <1>12, FilesQuiet

\* Who mounted the storage takes it down.
LEMMA FilesUnmounts == ASSUME FilesClean, NEW r \in FileReqs, StorageStop(r), fileMarks' = {} PROVE FilesClean'
<1>0. FilesTypeInv /\ FilesRequests /\ FilesTreeInv /\ FilesMountInv /\ WishInv BY DEF FilesClean
<1>1. PICK q : q = freq[r] OBVIOUS
<1>2. FilesReqInv(q) /\ q.at = "umount" /\ FResInv(q) BY <1>0, <1>1 DEF FilesRequests, StorageStop, FAt, FilesReqInv
<1>3. q # NoReq /\ ~ Packs(q) BY <1>2 DEF NoReq, Packs
<1>4. UNCHANGED <<tree, wish, fcli, mode, lastMap, nextMap>> BY DEF StorageStop, FLeaves
<1>5. Stopped(r) BY DEF StorageStop, FMark
<1>6. PICK x : /\ freq' = [freq EXCEPT ![r] = x] /\ FilesReqInv(x) /\ x.at \in {"unmap", "done"} /\ x.kind = q.kind
  <2>1. CASE q.kind = "pull" /\ q.res.ok
    <3>1. PICK x : x = [q EXCEPT !.at = "unmap"] OBVIOUS
    <3>2. freq' = [freq EXCEPT ![r] = x] BY <1>1, <1>5, <2>1, <3>1 DEF Stopped, FGo
    <3>3. PullTold(q) BY <1>2, <2>1 DEF FResInv
    <3>4. /\ DOMAIN x = DOMAIN q /\ x.at = "unmap" /\ x.kind = q.kind /\ x.res = q.res /\ x.seen = q.seen
      BY <1>2, <3>1, <3>3 DEF FilesReqInv, FResInv, PullTold
    <3>5. PullTold(x) BY <3>3, <3>4 DEF PullTold
    <3>6. FResInv(x) BY <1>2, <2>1, <3>4, <3>5 DEF FResInv
    <3>7. FilesReqInv(x) BY <1>2, <2>1, <3>4, <3>6 DEF FilesReqInv
    <3> QED BY <3>2, <3>4, <3>7
  <2>2. CASE ~ (q.kind = "pull" /\ q.res.ok)
    <3>1. PICK x : x = [at |-> "done", kind |-> q.kind, res |-> q.res] OBVIOUS
    <3>2. freq' = [freq EXCEPT ![r] = x] BY <1>1, <1>5, <2>2, <3>1 DEF Stopped, Answer
    <3>3. x.at = "done" /\ x.kind = q.kind /\ x.res = q.res /\ DOMAIN x = {"at", "kind", "res"} BY <3>1
    <3>4. FResInv(x) BY <1>2, <2>2, <3>3 DEF FResInv
    <3>5. q.kind # "none" BY <1>2, <1>3 DEF FilesReqInv
    <3>6. FilesReqInv(x) BY <1>2, <3>3, <3>4, <3>5 DEF FilesReqInv
    <3> QED BY <3>2, <3>3, <3>6
  <2> QED BY <2>1, <2>2
<1>7. freq'[r] = x /\ \A s \in FileReqs \ {r} : freq'[s] = freq[s]
  BY <1>0, <1>1, <1>3, <1>4, <1>6, FilesOne
<1>8. FilesTreeInv'
  <2>1. ~ Packs(x) BY <1>6 DEF Packs
  <2> QED BY <1>0, <1>1, <1>2, <1>3, <1>4, <1>6, <1>7, <2>1, FilesTreeQuiet
<1>9. CASE StopsStorage(r) /\ mounted' = FALSE
      /\ ~ (mode = "starting" \/ \E s \in FileReqs \ {r} : FAt(s, "fork"))
  <2>1. mode = "stopped" BY <1>0, <1>9 DEF StopsStorage, Running, FilesTypeInv
  <2>2. \A s \in FileReqs : freq'[s].at # "fork" BY <1>6, <1>7, <1>9 DEF FAt
  <2>3. FilesMountInv' BY <1>4, <1>9, <2>1, <2>2 DEF FilesMountInv
  <2>4. WishInv' BY <1>0, <1>4 DEF WishInv
  <2> QED BY <1>1, <1>3, <1>4, <1>6, <1>8, <1>9, <2>3, <2>4, FilesStep
<1>10. CASE ~ StopsStorage(r) /\ UNCHANGED mounted /\ ~ q.our
  <2>1. ~ Ours(q) BY <1>10 DEF Ours
  <2>2. FilesMountInv' BY <1>0, <1>1, <1>4, <1>6, <1>7, <1>10, <2>1, FilesMountQuiet
  <2>3. WishInv' /\ mounted' \in BOOLEAN BY <1>0, <1>4, <1>10 DEF WishInv, FilesTypeInv
  <2> QED BY <1>1, <1>3, <1>4, <1>6, <1>8, <2>2, <2>3, FilesStep
<1> QED BY <1>1, <1>9, <1>10 DEF StorageStop, FMark

\* The tree when a child has done what the container should find.
LEMMA FilesTreeDone ==
  ASSUME FilesTreeInv, NEW r \in FileReqs, NEW q, freq'[r] = q, \A s \in FileReqs \ {r} : freq'[s] = freq[s],
         tree' = On(wish, lastMap)', UNCHANGED lastMap, ~ Packing, ~ Packs(q),
         \A s \in FileReqs \ {r} : freq[s].at # "write", q.at # "write", q.kind = freq[r].kind
  PROVE  FilesTreeInv'
<1>1. \A s \in FileReqs : freq'[s].at # "write" /\ freq'[s].kind = freq[s].kind OBVIOUS
<1>2. \A s \in FileReqs : ~ Packs(freq'[s])
  BY DEF Packing, Packs
<1>3. ~ Packing' BY <1>2 DEF Packing, Packs
<1>4. \A s, t \in FileReqs : freq'[s].kind = "export" /\ freq'[t].kind = "export" => s = t
  BY <1>1 DEF FilesTreeInv
<1>5. \A s \in FileReqs : ~ Packs(freq[s])' BY <1>2 DEF Packs
<1> QED BY <1>1, <1>3, <1>4, <1>5 DEF FilesTreeInv

\* The owner as a child of a request puts it on the disk.
LEMMA ChildOwner ==
  ASSUME FilesTypeInv, NEW u \in Ids, NEW seen, seen = Through
  PROVE  ShiftIntoNs(ShiftIntoNs(u, seen), Ns) = Host(u, lastMap) /\ ShiftIntoNs(u, seen) # Keep
<1>0. PICK m : m = lastMap OBVIOUS
<1>1. PICK run \in BOOLEAN : run = (mode = "running") OBVIOUS
<1>2. m \in Nat BY <1>0, <1>1, FilesAssumption DEF FilesTypeInv
<1>3. Ns = (IF run THEN m ELSE 0) /\ seen = (IF run THEN 0 ELSE m) BY <1>0, <1>1 DEF Ns, Through, Running
<1>4. ShiftIntoNs(ShiftIntoNs(u, IF run THEN 0 ELSE m), IF run THEN m ELSE 0) = Host(u, m)
      /\ ShiftIntoNs(u, IF run THEN 0 ELSE m) # Keep
  BY <1>2, OwnerOnDisk
<1> QED BY <1>0, <1>1, <1>3, <1>4

\* A child that has done what the container should find, and answers.
LEMMA FilesDone ==
  ASSUME FilesClean, NEW r \in FileReqs, freq[r].at \in {"fork", "write"}, NEW res, Result(r, res),
         freq[r].kind \in {"mkdir", "push", "remove"}, ~ Packing, \A s \in FileReqs \ {r} : freq[s].at # "write",
         UNCHANGED <<fcli, mode, lastMap, nextMap, mounted>>, WishInv', tree' = On(wish, lastMap)'
  PROVE  FilesClean'
<1>0. FilesTypeInv /\ FilesRequests /\ FilesTreeInv /\ FilesMountInv BY DEF FilesClean
<1>1. PICK q, seen : q = freq[r] /\ seen = Through OBVIOUS
<1>2. FilesReqInv(q) BY <1>0, <1>1 DEF FilesRequests
<1>3. PICK x : /\ freq' = [freq EXCEPT ![r] = x] /\ FilesReqInv(x) /\ x.at = "umount" /\ x.kind = q.kind
               /\ x.our = q.our /\ ~ Packs(x) /\ q # NoReq /\ ~ Packs(q) /\ (Ours(q) => Ours(x))
  BY <1>1, <1>2, ResultIs
<1>4. freq'[r] = x /\ \A s \in FileReqs \ {r} : freq'[s] = freq[s] BY <1>0, <1>1, <1>3, FilesOne
<1>5. FilesTreeInv' BY <1>0, <1>1, <1>3, <1>4, FilesTreeDone
<1>6. FilesMountInv' BY <1>0, <1>1, <1>3, <1>4, FilesMountQuiet
<1> QED BY <1>0, <1>1, <1>3, <1>5, <1>6, FilesStep DEF FilesTypeInv

LEMMA FilesMkdir == ASSUME FilesClean, NEW r \in FileReqs, ForkMkdir(r), fileMarks' = {} PROVE FilesClean'
<1>0. FilesTypeInv /\ WishInv BY DEF FilesClean
<1>1. PICK q, m : q = freq[r] /\ m = lastMap OBVIOUS
<1>2. FAt(r, "fork") /\ q.kind = "mkdir" /\ FMark(ForkMarks(r)) /\ UNCHANGED <<fcli, mode, lastMap, nextMap, mounted>>
  BY <1>1 DEF ForkMkdir, FLeaves
<1>3. /\ ~ Packing /\ Rooted /\ tree = On(wish, m) /\ \A s \in FileReqs : freq[s].at # "write"
      /\ FHostInv(q) /\ q.seen = Through
  BY <1>1, <1>2, ForkFinds
<1>4. q.host = ShiftIntoNs(1, q.seen) /\ q.uid = 1 /\ 1 \in Ids BY <1>2, <1>3 DEF FHostInv, Ids
<1>5. ShiftIntoNs(q.host, Ns) = Host(1, m) /\ q.host # Keep BY <1>0, <1>1, <1>3, <1>4, ChildOwner
<1>6. PICK w, h, o : w = wish["dir"] /\ h = tree["dir"] /\ o = Host(1, m) OBVIOUS
<1>7. /\ w = [type |-> w.type, owner |-> w.owner, data |-> w.data] /\ w.type \in {"none", "directory"}
      /\ h = [type |-> w.type, owner |-> Host(w.owner, m), data |-> w.data]
  BY <1>0, <1>3, <1>6 DEF WishInv, On, Paths
<1>8. PICK exists \in BOOLEAN : exists = (w.type # "none") OBVIOUS
<1>9. /\ tree' = [tree EXCEPT !["dir"] = IF exists THEN [h EXCEPT !.owner = o] ELSE Dir(o)]
      /\ wish' = [wish EXCEPT !["dir"] = IF exists THEN [w EXCEPT !.owner = 1] ELSE Dir(1)]
      /\ Result(r, [ok |-> TRUE, type |-> "directory"])
  <2>1. PICK owner : owner = (IF q.host = Keep THEN q.root ELSE q.host) OBVIOUS
  <2>2. OnDisk(owner) = o BY <1>5, <1>6, <2>1 DEF OnDisk
  <2>0. h.type = w.type BY <1>7
  <2>3. (tree["dir"].type # "none") <=> exists BY <1>6, <1>8, <2>0
  <2>4. /\ tree' = [tree EXCEPT !["dir"] = IF tree["dir"].type # "none" THEN [@ EXCEPT !.owner = OnDisk(owner)] ELSE Dir(OnDisk(owner))]
        /\ wish' = [wish EXCEPT !["dir"] = IF tree["dir"].type # "none" THEN [@ EXCEPT !.owner = q.uid] ELSE Dir(q.uid)]
        /\ Result(r, [ok |-> TRUE, type |-> "directory"])
    BY <1>1, <1>3, <2>1 DEF ForkMkdir
  <2>5. tree' = [tree EXCEPT !["dir"] = IF exists THEN [h EXCEPT !.owner = o] ELSE Dir(o)]
    BY <1>6, <2>2, <2>3, <2>4
  <2>6. wish' = [wish EXCEPT !["dir"] = IF exists THEN [w EXCEPT !.owner = 1] ELSE Dir(1)]
    BY <1>4, <1>6, <2>3, <2>4
  <2> QED BY <2>4, <2>5, <2>6
<1>10. PICK w2 : w2 = [type |-> "directory", owner |-> 1, data |-> IF exists THEN w.data ELSE {}] OBVIOUS
<1>11. wish' = [p \in Paths |-> IF p = "dir" THEN w2 ELSE wish[p]]
  <2>1. (IF exists THEN [w EXCEPT !.owner = 1] ELSE Dir(1)) = w2
    <3>1. exists => [w EXCEPT !.owner = 1] = w2
      <4>1. exists => [w EXCEPT !.owner = 1] = [type |-> w.type, owner |-> 1, data |-> w.data] BY <1>7
      <4> QED BY <1>7, <1>8, <1>10, <4>1
    <3>2. ~exists => Dir(1) = w2 BY <1>10 DEF Dir
    <3> QED BY <3>1, <3>2
  <2> QED BY <1>0, <1>9, <2>1 DEF WishInv
<1>12. tree' = [p \in Paths |-> IF p = "dir" THEN [type |-> "directory", owner |-> o, data |-> w2.data] ELSE tree[p]]
  <2>1. (IF exists THEN [h EXCEPT !.owner = o] ELSE Dir(o)) = [type |-> "directory", owner |-> o, data |-> w2.data]
    BY <1>7, <1>8, <1>10 DEF Dir
  <2>2. tree = [p \in Paths |-> tree[p]] BY <1>3 DEF On
  <2> QED BY <1>9, <2>1, <2>2
<1>13. WishInv'
  <2>1. w2 = [type |-> w2.type, owner |-> w2.owner, data |-> w2.data] /\ w2.type = "directory" /\ w2.owner \in Ids
    BY <1>4, <1>10
  <2>2. wish'["dir"] = w2 /\ wish'["file"] = wish["file"] BY <1>11 DEF Paths
  <2>3. \A p \in Paths : p = "dir" \/ p = "file" BY DEF Paths
  <2>4. \A p \in Paths : /\ wish'[p] = [type |-> wish'[p].type, owner |-> wish'[p].owner, data |-> wish'[p].data]
                         /\ wish'[p].type = "none" => wish'[p].owner = Keep
                         /\ wish'[p].type # "none" => wish'[p].owner \in Ids
    BY <1>0, <2>1, <2>2, <2>3 DEF WishInv
  <2> QED BY <1>0, <1>11, <2>1, <2>2, <2>4 DEF WishInv
<1>14. tree' = On(wish, lastMap)'
  <2>1. \A p \in Paths : tree'[p] = [type |-> wish'[p].type, owner |-> Host(wish'[p].owner, m), data |-> wish'[p].data]
    BY <1>3, <1>6, <1>10, <1>11, <1>12 DEF On
  <2> QED BY <1>1, <1>2, <1>12, <2>1 DEF On
<1> QED BY <1>1, <1>2, <1>3, <1>9, <1>13, <1>14, FilesDone DEF FAt

LEMMA FilesRemoves == ASSUME FilesClean, NEW r \in FileReqs, ForkRemove(r), fileMarks' = {} PROVE FilesClean'
<1>0. FilesTypeInv /\ WishInv BY DEF FilesClean
<1>1. PICK q, m, p : q = freq[r] /\ m = lastMap /\ p = freq[r].path OBVIOUS
<1>2. FAt(r, "fork") /\ q.kind = "remove" /\ FMark(ForkMarks(r)) /\ UNCHANGED <<fcli, mode, lastMap, nextMap, mounted>>
  BY <1>1 DEF ForkRemove, FLeaves
<1>3. ~ Packing /\ tree = On(wish, m) /\ p \in Paths /\ \A s \in FileReqs : freq[s].at # "write"
  BY <1>1, <1>2, ForkFinds
<1>4. PICK may \in BOOLEAN : may = (Rooted /\ Inside(p) /\ tree[p].type # "none" /\ (p = "dir" => tree["file"].type = "none")) OBVIOUS
<1>5. /\ tree' = IF may THEN [tree EXCEPT ![p] = Absent] ELSE tree
      /\ wish' = IF may THEN [wish EXCEPT ![p] = Absent] ELSE wish
      /\ Result(r, [ok |-> may, type |-> "none"])
  BY <1>1, <1>4 DEF ForkRemove
<1>6. CASE ~may
  <2>1. UNCHANGED <<tree, wish>> BY <1>5, <1>6
  <2>2. WishInv' /\ tree' = On(wish, lastMap)' BY <1>0, <1>1, <1>2, <1>3, <2>1 DEF WishInv, On
  <2> QED BY <1>1, <1>2, <1>3, <1>5, <2>2, FilesDone DEF FAt
<1>7. CASE may
  <2>1. wish' = [x \in Paths |-> IF x = p THEN Absent ELSE wish[x]] BY <1>0, <1>5, <1>7 DEF WishInv
  <2>2. tree' = [x \in Paths |-> IF x = p THEN Absent ELSE tree[x]]
    <3>1. tree = [x \in Paths |-> tree[x]] BY <1>3 DEF On
    <3> QED BY <1>5, <1>7, <3>1
  <2>3. Absent.type = "none" /\ Absent.owner = Keep /\ Absent = [type |-> Absent.type, owner |-> Absent.owner, data |-> Absent.data]
    BY DEF Absent
  <2>4. p = "dir" => wish["file"].type = "none" BY <1>3, <1>4, <1>7 DEF On, Paths
  <2>5. WishInv'
    <3>1. \A x \in Paths : /\ wish'[x] = [type |-> wish'[x].type, owner |-> wish'[x].owner, data |-> wish'[x].data]
                           /\ wish'[x].type = "none" => wish'[x].owner = Keep
                           /\ wish'[x].type # "none" => wish'[x].owner \in Ids
      BY <1>0, <2>1, <2>3 DEF WishInv
    <3>2. "dir" \in Paths /\ "file" \in Paths /\ "dir" # "file" BY DEF Paths
    <3>3. wish'["dir"].type \in {"none", "directory"} /\ wish'["file"].type \in {"none", "file"}
      BY <1>0, <2>1, <2>3, <3>2 DEF WishInv
    <3>4. wish'["file"].type # "none" => wish'["dir"].type = "directory"
      BY <1>0, <2>1, <2>3, <2>4, <3>2, <1>3 DEF WishInv
    <3> QED BY <2>1, <3>1, <3>3, <3>4 DEF WishInv
  <2>6. tree' = On(wish, lastMap)'
    <3>1. Host(Keep, m) = Keep BY <1>1, FilesAssumption, <1>0, HostOfNone DEF FilesTypeInv
    <3>2. \A x \in Paths : tree'[x] = [type |-> wish'[x].type, owner |-> Host(wish'[x].owner, m), data |-> wish'[x].data]
      BY <1>3, <2>1, <2>2, <2>3, <3>1 DEF On
    <3> QED BY <1>1, <1>2, <2>2, <3>2 DEF On
  <2> QED BY <1>1, <1>2, <1>3, <1>5, <2>5, <2>6, FilesDone DEF FAt
<1> QED BY <1>6, <1>7

LEMMA FilesOpened == ASSUME FilesClean, NEW r \in FileReqs, ForkOpen(r), fileMarks' = {} PROVE FilesClean'
<1>0. FilesTypeInv /\ WishInv /\ FilesTreeInv /\ FilesMountInv BY DEF FilesClean
<1>1. PICK q, m : q = freq[r] /\ m = lastMap OBVIOUS
<1>2. FAt(r, "fork") /\ q.kind = "push" /\ FMark(ForkMarks(r)) /\ UNCHANGED <<wish, fcli, mode, lastMap, nextMap, mounted>>
  BY <1>1 DEF ForkOpen, FLeaves
<1>3. /\ ~ Packing /\ mode # "starting" /\ tree = On(wish, m) /\ \A s \in FileReqs : freq[s].at # "write"
      /\ FHostInv(q) /\ FilesReqInv(q) /\ q.seen = Through
  BY <1>1, <1>2, ForkFinds
<1>4. CASE Result(r, Failed) /\ UNCHANGED tree
  <2>1. WishInv' /\ tree' = On(wish, lastMap)' BY <1>0, <1>1, <1>2, <1>3, <1>4 DEF WishInv, On
  <2> QED BY <1>1, <1>2, <1>3, <1>4, <2>1, FilesDone DEF FAt
<1>5. CASE Rooted /\ Inside("file")
  <2>0. PICK ns : ns = Ns OBVIOUS
  <2>1. PICK exists \in BOOLEAN : exists = (tree["file"].type # "none") OBVIOUS
  <2>2. PICK x : x = [f \in DOMAIN q \cup {"exists", "ns"} |->
                        CASE f = "exists" -> exists [] f = "ns" -> ns [] f = "at" -> "write" [] OTHER -> q[f]] OBVIOUS
  <2>3. freq' = [freq EXCEPT ![r] = x] BY <1>1, <1>5, <2>0, <2>1, <2>2 DEF ForkOpen
  <2>4. /\ DOMAIN x = DOMAIN q \cup {"exists", "ns"} /\ x.exists = exists /\ x.ns = ns /\ x.at = "write"
        /\ \A f \in DOMAIN q \ {"exists", "ns", "at"} : x[f] = q[f]
    BY <1>3, <2>2 DEF FilesReqInv
  <2>5. "our" \in DOMAIN q /\ "path" \in DOMAIN q /\ "map" \in DOMAIN q /\ "kind" \in DOMAIN q
    BY <1>1, <1>2, <1>3 DEF FilesReqInv, FAt
  <2>6. /\ x.kind = "push" /\ x.our = q.our /\ x.path = q.path /\ x.host = q.host /\ x.root = q.root
        /\ x.seen = q.seen /\ x.uid = q.uid
    BY <1>2, <1>3, <2>4, <2>5 DEF FHostInv
  <2>7. FilesReqInv(x) BY <1>2, <1>3, <2>4, <2>5, <2>6 DEF FilesReqInv, FHostInv
  <2>8. freq[r] # NoReq BY <1>2 DEF FAt, NoReq
  <2>9. freq'[r] = x /\ \A s \in FileReqs \ {r} : freq'[s] = freq[s]
    BY <1>2, <2>3, <2>7, <2>8, FilesOne DEF FilesClean
  <2>10. FilesMountInv'
    <3>1. Ours(freq[r]) => Ours(x) BY <1>1, <2>4, <2>6 DEF Ours
    <3> QED BY <1>0, <1>2, <2>4, <2>9, <3>1, FilesMountQuiet
  <2>11. PICK h : h = (IF ~exists THEN File(OnDisk(0), {}) ELSE IF q.write = "append" THEN tree["file"] ELSE [tree["file"] EXCEPT !.data = {}]) OBVIOUS
  <2>12. tree' = [p \in Paths |-> IF p = "file" THEN h ELSE tree[p]]
    <3>1. tree' = [tree EXCEPT !["file"] = h] BY <1>1, <1>5, <2>0, <2>1, <2>11 DEF ForkOpen
    <3>2. tree = [p \in Paths |-> tree[p]] BY <1>3 DEF On
    <3> QED BY <3>1, <3>2
  <2>13. /\ tree["dir"].type = wish["dir"].type /\ tree["file"].type = wish["file"].type
         /\ tree["file"] = [type |-> tree["file"].type, owner |-> tree["file"].owner, data |-> tree["file"].data]
    BY <1>3 DEF On, Paths
  <2>14. h = [type |-> "file", owner |-> h.owner, data |-> h.data] /\ (exists => h.owner = tree["file"].owner)
    <3>1. CASE ~exists BY <2>11, <3>1 DEF File
    <3>2. CASE exists
      <4>1. tree["file"].type = "file" BY <1>0, <2>0, <2>1, <2>13, <3>2 DEF WishInv
      <4> QED BY <2>11, <2>13, <3>2, <4>1
    <3> QED BY <3>1, <3>2
  <2>15. wish["dir"].type = "directory" BY <1>5, <2>13 DEF Inside
  <2>16. tree'["dir"] = tree["dir"] /\ tree'["file"] = h BY <2>12 DEF Paths
  <2>17. On(wish, lastMap)' = On(wish, m) BY <1>1, <1>2 DEF On
  <2>18. \A s \in FileReqs : ~ Packs(freq'[s])
    <3>1. \A s \in FileReqs : ~ Packs(freq[s]) BY <1>3 DEF Packing, Packs
    <3>2. ~ Packs(x) BY <2>6 DEF Packs
    <3> QED BY <2>9, <3>1, <3>2
  <2>19. ~ Packing' BY <2>18 DEF Packing, Packs
  <2>20. Through' = Through /\ Ns' = Ns BY <1>2 DEF Through, Ns, Running
  <2>21. WriteInv(freq[r])'
    <3>1. freq'[r].exists = (wish'["file"].type # "none") BY <1>2, <2>0, <2>1, <2>4, <2>9, <2>13
    <3>2. freq'[r].exists => tree'["file"].owner = On(wish, lastMap)'["file"].owner
      BY <1>3, <2>4, <2>9, <2>14, <2>16, <2>17
    <3>3. freq'[r].seen = Through' /\ freq'[r].ns = Ns' BY <1>3, <2>0, <2>1, <2>4, <2>6, <2>9, <2>20
    <3>4. tree'["dir"] = On(wish, lastMap)'["dir"] /\ wish'["dir"].type = "directory" BY <1>2, <1>3, <2>15, <2>16, <2>17
    <3>5. tree'["file"] = [type |-> "file", owner |-> tree'["file"].owner, data |-> tree'["file"].data] BY <2>14, <2>16
    <3>6. tree' = [p \in Paths |-> tree'[p]] BY <2>12
    <3> QED BY <1>2, <1>3, <2>19, <3>1, <3>2, <3>3, <3>4, <3>5, <3>6 DEF WriteInv
  <2>22. \A s \in FileReqs : freq'[s].at = "write" => s = r BY <1>3, <2>9
  <2>23. \A s \in FileReqs : freq'[s].kind = freq[s].kind BY <1>1, <1>2, <2>6, <2>9
  <2>24. FilesTreeInv'
    <3>1. \E s \in FileReqs : freq'[s].at = "write" BY <2>4, <2>9
    <3>2. \A s \in FileReqs : freq'[s].at = "write" => WriteInv(freq[s])' BY <2>21, <2>22
    <3>3. \A s, t \in FileReqs : freq'[s].kind = "export" /\ freq'[t].kind = "export" => s = t
      BY <1>0, <2>23 DEF FilesTreeInv
    <3>4. \A s \in FileReqs : ~ Packs(freq[s])' BY <2>18 DEF Packs
    <3> QED BY <2>19, <2>22, <3>1, <3>2, <3>3, <3>4 DEF FilesTreeInv
  <2>25. WishInv' /\ mounted' \in BOOLEAN BY <1>0, <1>2 DEF WishInv, FilesTypeInv
  <2> QED BY <1>2, <2>3, <2>7, <2>8, <2>10, <2>24, <2>25, FilesStep
<1> QED BY <1>4, <1>5 DEF ForkOpen

LEMMA FilesWritten == ASSUME FilesClean, NEW r \in FileReqs, ForkWrite(r), fileMarks' = {} PROVE FilesClean'
<1>0. FilesTypeInv /\ WishInv /\ FilesTreeInv BY DEF FilesClean
<1>1. PICK q, m : q = freq[r] /\ m = lastMap OBVIOUS
<1>2. q.at = "write" /\ UNCHANGED <<fcli, mode, lastMap, nextMap, mounted>> BY <1>1 DEF ForkWrite, FAt, FLeaves
<1>3. FilesReqInv(q) /\ FHostInv(q) /\ WriteInv(q) /\ q.kind = "push"
  BY <1>0, <1>1, <1>2 DEF FilesClean, FilesRequests, FilesReqInv, FilesTreeInv
<1>4. PICK exists \in BOOLEAN : exists = (wish["file"].type # "none") OBVIOUS
<1>5. q.exists = exists BY <1>3, <1>4 DEF WriteInv
<1>6. ~ Packing /\ q.seen = Through /\ q.ns = Ns /\ mode # "starting" BY <1>3 DEF WriteInv
<1>7. m \in Nat BY <1>0, <1>1, FilesAssumption DEF FilesTypeInv
<1>8. PICK owner : owner = (IF exists \/ q.host # Keep THEN q.host ELSE q.root) OBVIOUS
<1>9. PICK h : h = [type |-> "file", owner |-> IF owner = Keep THEN tree["file"].owner ELSE ShiftIntoNs(owner, q.ns),
                    data |-> tree["file"].data \cup q.data] OBVIOUS
<1>10. PICK w : w = [type |-> "file", owner |-> IF q.uid # Keep THEN q.uid ELSE IF exists THEN wish["file"].owner ELSE 0,
                     data |-> tree["file"].data \cup q.data] OBVIOUS
<1>11. /\ tree' = [tree EXCEPT !["file"] = h] /\ wish' = [wish EXCEPT !["file"] = w] /\ Result(r, [ok |-> TRUE, type |-> "file"])
  <2>1. PICK t : t = tree["file"] OBVIOUS
  <2>2. PICK z : z = [tree["file"] EXCEPT !.data = @ \cup q.data, !.owner = IF owner = Keep THEN @ ELSE ShiftIntoNs(owner, q.ns)] OBVIOUS
  <2>3. tree' = [tree EXCEPT !["file"] = z]
    <3>1. tree' = [tree EXCEPT !["file"] = [tree["file"] EXCEPT !.data = @ \cup q.data, !.owner = IF owner = Keep THEN @ ELSE ShiftIntoNs(owner, q.ns)]]
      BY <1>1, <1>5, <1>8 DEF ForkWrite, NewOwner, FMark
    <3> QED BY <2>2, <3>1
  <2>4. /\ wish' = [wish EXCEPT !["file"] = File(NewWish(r, q.exists), tree["file"].data \cup q.data)]
        /\ Result(r, [ok |-> TRUE, type |-> "file"])
    BY <1>1, <1>5, <1>8 DEF ForkWrite, NewOwner, FMark
  <2>7. z = h
    <3>1. PICK oo, dd, o, d : /\ oo = (IF owner = Keep THEN tree["file"].owner ELSE ShiftIntoNs(owner, q.ns))
                              /\ dd = tree["file"].data \cup q.data /\ o = tree["file"].owner /\ d = tree["file"].data OBVIOUS
    <3>2. t = [type |-> "file", owner |-> o, data |-> d] BY <1>3, <2>1, <3>1 DEF WriteInv
    <3>3. z = [t EXCEPT !.data = dd, !.owner = oo] BY <2>1, <2>2, <3>1
    <3>4. z = [type |-> "file", owner |-> oo, data |-> dd] BY <3>2, <3>3
    <3>5. h = [type |-> "file", owner |-> oo, data |-> dd] BY <1>9, <3>1
    <3> QED BY <3>4, <3>5
  <2>5. q.path = "file" BY <1>3 DEF FHostInv
  <2>6. File(NewWish(r, q.exists), tree["file"].data \cup q.data) = w BY <1>1, <1>5, <1>10, <2>5 DEF NewWish, File
  <2> QED BY <2>3, <2>4, <2>6, <2>7
<1>12. wish["file"].type # "none" => wish["file"].owner \in Ids BY <1>0 DEF WishInv, Paths
<1>13. w.owner \in Ids /\ h.owner = Host(w.owner, m)
  <2>1. q.host = ShiftIntoNs(q.uid, q.seen) /\ q.root = ShiftIntoNs(0, q.seen) /\ q.seen \in Nat /\ q.uid \in {Keep, 1}
    BY <1>3 DEF FHostInv
  <2>2. 0 \in Ids /\ 1 \in Ids /\ Keep # 1 BY DEF Ids, Keep
  <2>3. CASE q.uid = 1
    <3>1. q.host # Keep /\ ShiftIntoNs(q.host, Ns) = Host(1, m) BY <1>0, <1>1, <1>6, <2>1, <2>2, <2>3, ChildOwner
    <3>2. owner = q.host BY <1>8, <3>1
    <3> QED BY <1>6, <1>9, <1>10, <2>2, <2>3, <3>1, <3>2
  <2>4. CASE q.uid = Keep
    <3>1. q.host = Keep BY <2>1, <2>4, HostOfNone DEF Keep
    <3>2. CASE exists
      <4>1. owner = Keep BY <1>8, <3>1, <3>2
      <4>2. tree["file"].owner = On(wish, lastMap)["file"].owner BY <1>3, <1>5, <3>2 DEF WriteInv
      <4>3. tree["file"].owner = Host(wish["file"].owner, m) BY <1>1, <4>2 DEF On, Paths
      <4> QED BY <1>4, <1>9, <1>10, <1>12, <2>4, <3>2, <4>1, <4>3
    <3>3. CASE ~exists
      <4>1. owner = q.root BY <1>8, <3>1, <3>3
      <4>2. q.root # Keep /\ ShiftIntoNs(q.root, Ns) = Host(0, m) BY <1>0, <1>1, <1>6, <2>1, <2>2, ChildOwner
      <4> QED BY <1>6, <1>9, <1>10, <2>2, <2>4, <3>3, <4>1, <4>2
    <3> QED BY <3>2, <3>3
  <2> QED BY <2>1, <2>3, <2>4
<1>14. wish' = [p \in Paths |-> IF p = "file" THEN w ELSE wish[p]] BY <1>0, <1>11 DEF WishInv
<1>15. tree' = [p \in Paths |-> IF p = "file" THEN h ELSE tree[p]]
  <2>1. tree = [p \in Paths |-> tree[p]] BY <1>3 DEF WriteInv
  <2> QED BY <1>11, <2>1
<1>16. WishInv'
  <2>1. w = [type |-> w.type, owner |-> w.owner, data |-> w.data] /\ w.type = "file" BY <1>10
  <2>2. wish'["dir"] = wish["dir"] /\ wish'["file"] = w BY <1>14 DEF Paths
  <2>3. \A p \in Paths : p = "dir" \/ p = "file" BY DEF Paths
  <2>4. \A p \in Paths : /\ wish'[p] = [type |-> wish'[p].type, owner |-> wish'[p].owner, data |-> wish'[p].data]
                         /\ wish'[p].type = "none" => wish'[p].owner = Keep
                         /\ wish'[p].type # "none" => wish'[p].owner \in Ids
    BY <1>0, <1>13, <2>1, <2>2, <2>3 DEF WishInv
  <2>5. wish["dir"].type = "directory" BY <1>3 DEF WriteInv
  <2> QED BY <1>14, <2>1, <2>2, <2>4, <2>5 DEF WishInv
<1>17. tree' = On(wish, lastMap)'
  <2>1. h = [type |-> w.type, owner |-> Host(w.owner, m), data |-> w.data] BY <1>9, <1>10, <1>13
  <2>2. tree["dir"] = [type |-> wish["dir"].type, owner |-> Host(wish["dir"].owner, m), data |-> wish["dir"].data]
    BY <1>1, <1>3 DEF WriteInv, On, Paths
  <2>3. \A p \in Paths : p = "dir" \/ p = "file" BY DEF Paths
  <2>4. \A p \in Paths : tree'[p] = [type |-> wish'[p].type, owner |-> Host(wish'[p].owner, m), data |-> wish'[p].data]
    BY <1>14, <1>15, <2>1, <2>2, <2>3
  <2> QED BY <1>1, <1>2, <1>15, <2>4 DEF On
<1>18. \A s \in FileReqs \ {r} : freq[s].at # "write" BY <1>0, <1>1, <1>2 DEF FilesTreeInv
<1> QED BY <1>1, <1>2, <1>3, <1>6, <1>11, <1>16, <1>17, <1>18, FilesDone

-----------------------------------------------------------------------------
(* Publishing *)

LEMMA FilesExports == ASSUME FilesClean, NEW r \in FileReqs, ExportStart(r) PROVE FilesClean'
<1>0. FilesTypeInv /\ WishInv /\ FilesTreeInv /\ FilesMountInv /\ FilesRequests BY DEF FilesClean
<1>1. PICK q : q = freq[r] OBVIOUS
<1>2. FilesReqInv(q) /\ q.at = "check" /\ q.kind = "export" BY <1>0, <1>1 DEF FilesRequests, FilesReqInv, ExportStart, FAt
<1>3. q # NoReq /\ ~ Packs(q) /\ ~ Ours(q) BY <1>2 DEF NoReq, Packs, Ours
<1>4. UNCHANGED <<tree, wish, fcli, mode, lastMap, nextMap>> BY DEF ExportStart, FLeaves
<1>5. CASE Running
  <2>1. PICK x : x = [at |-> "done", kind |-> q.kind, res |-> Failed] OBVIOUS
  <2>2. freq' = [freq EXCEPT ![r] = x] /\ UNCHANGED mounted BY <1>1, <1>5, <2>1 DEF ExportStart, Answer
  <2>3. FilesReqInv(x) BY <1>2, <1>3, <2>1, FilesFails
  <2>4. x.at = "done" /\ x.kind = q.kind /\ ~ Packs(x) BY <2>1 DEF Packs
  <2> QED BY <1>1, <1>2, <1>3, <1>4, <2>2, <2>3, <2>4, FilesQuiet
<1>6. CASE ~Running
  <2>1. PICK x : x = [at |-> "unshift", kind |-> "export", our |-> ~mounted, map |-> q.map] OBVIOUS
  <2>2. freq' = [freq EXCEPT ![r] = x] /\ mounted' = TRUE BY <1>1, <1>6, <2>1 DEF ExportStart
  <2>3. FilesReqInv(x) BY <2>1 DEF FilesReqInv
  <2>4. freq'[r] = x /\ \A s \in FileReqs \ {r} : freq'[s] = freq[s] BY <1>0, <1>1, <1>3, <1>4, <2>2, <2>3, FilesOne
  <2>5. FilesTreeInv'
    <3>1. ~ Packs(x) /\ x.at = "unshift" BY <2>1 DEF Packs
    <3> QED BY <1>0, <1>1, <1>2, <1>3, <1>4, <2>4, <3>1, FilesTreeQuiet
  <2>6. mode = "stopped" => \E s \in FileReqs : Ours(freq[s])'
    <3>1. CASE ~mounted
      <4>1. PICK our : our = ~mounted OBVIOUS
      <4>2. x.at = "unshift" /\ x.our = our BY <2>1, <4>1
      <4>3. x.our BY <3>1, <4>1, <4>2
      <4>4. Ours(x) BY <4>2, <4>3 DEF Ours
      <4>5. Ours(freq[r])' BY <2>4, <4>4 DEF Ours
      <4> QED BY <4>5
    <3>2. CASE mode = "stopped" /\ mounted
      <4>1. PICK s \in FileReqs : Ours(freq[s]) BY <1>0, <3>2 DEF FilesMountInv
      <4>2. s # r BY <1>1, <1>3, <4>1
      <4>3. Ours(freq[s])' BY <2>4, <4>1, <4>2 DEF Ours
      <4> QED BY <4>3
    <3> QED BY <1>0, <3>1, <3>2 DEF FilesTypeInv
  <2>7. FilesMountInv' BY <1>0, <1>4, <2>2, <2>6 DEF FilesMountInv
  <2>8. WishInv' BY <1>0, <1>4 DEF WishInv
  <2> QED BY <1>1, <1>3, <1>4, <2>2, <2>3, <2>5, <2>7, <2>8, FilesStep
<1> QED BY <1>5, <1>6

\* A step of a publication, nothing having come between.
LEMMA ExportFinds ==
  ASSUME FilesClean, NEW r \in FileReqs, freq[r].kind = "export", FMark(ExportMarks(r)), fileMarks' = {}
  PROVE  /\ mode = "stopped" /\ freq[r].map = lastMap /\ \A s \in FileReqs : freq[s].at # "write"
         /\ \A s \in FileReqs \ {r} : freq[s].kind # "export"
BY DEF FMark, ExportMarks, FAt, FilesClean, FilesTreeInv

\* Publications go from step to step.
LEMMA FilesExportStep ==
  ASSUME FilesClean, NEW r \in FileReqs, NEW q, q = freq[r], q.kind = "export", FMark(ExportMarks(r)), fileMarks' = {},
         NEW x, freq' = [freq EXCEPT ![r] = x], FilesReqInv(x), x.kind = "export", x.map = q.map, x.our = q.our,
         q.at \in {"unshift", "pack", "reshift"}, x.at \in {"pack", "reshift", "umount"},
         UNCHANGED <<wish, fcli, mode, lastMap, nextMap, mounted>>,
         tree' = IF x.at = "umount" THEN On(wish, lastMap) ELSE wish
  PROVE  FilesClean'
<1>0. FilesTypeInv /\ WishInv /\ FilesTreeInv /\ FilesMountInv /\ FilesRequests BY DEF FilesClean
<1>1. q # NoReq BY DEF NoReq
<1>2. freq'[r] = x /\ \A s \in FileReqs \ {r} : freq'[s] = freq[s] BY <1>0, <1>1, FilesOne
<1>3. /\ mode = "stopped" /\ q.map = lastMap /\ \A s \in FileReqs : freq[s].at # "write"
      /\ \A s \in FileReqs \ {r} : freq[s].kind # "export"
  BY ExportFinds
<1>4. \A s \in FileReqs : freq'[s].at # "write" BY <1>2, <1>3
<1>5. \A s \in FileReqs : freq'[s].kind = "export" => s = r BY <1>2, <1>3
<1>6. Packing' <=> x.at # "umount" BY <1>2, <1>5 DEF Packing
<1>7. \A s \in FileReqs : Packs(freq[s])' => freq'[s].map = lastMap' BY <1>2, <1>3, <1>5 DEF Packs
<1>8. On(wish, lastMap)' = On(wish, lastMap) BY DEF On
<1>9. FilesTreeInv' BY <1>3, <1>4, <1>5, <1>6, <1>7, <1>8 DEF FilesTreeInv
<1>10. FilesMountInv'
  <2>1. Ours(q) => Ours(x) BY DEF Ours
  <2> QED BY <1>0, <1>2, <2>1, FilesMountQuiet
<1>11. WishInv' /\ mounted' \in BOOLEAN BY <1>0 DEF WishInv, FilesTypeInv
<1> QED BY <1>1, <1>9, <1>10, <1>11, FilesStep

LEMMA FilesUnshifts == ASSUME FilesClean, NEW r \in FileReqs, ExportUnshift(r), fileMarks' = {} PROVE FilesClean'
<1>1. PICK q, m : q = freq[r] /\ m = lastMap OBVIOUS
<1>2. FilesReqInv(q) /\ q.at = "unshift" /\ q.kind = "export"
  BY <1>1 DEF FilesClean, FilesRequests, FilesReqInv, ExportUnshift, FAt
<1>3. FMark(ExportMarks(r)) /\ UNCHANGED <<wish, fcli, mode, lastMap, nextMap, mounted>> BY DEF ExportUnshift, FLeaves
<1>4. /\ q.map = m /\ \A s \in FileReqs : freq[s].at # "write"
      /\ \A s \in FileReqs \ {r} : freq[s].kind # "export"
  BY <1>1, <1>2, <1>3, ExportFinds
<1>5. ~ Packing BY <1>1, <1>2, <1>4 DEF Packing
<1>6. tree = On(wish, m) BY <1>1, <1>4, <1>5 DEF FilesClean, FilesTreeInv
<1>7. m \in Nat BY <1>1, FilesAssumption DEF FilesClean, FilesTypeInv
<1>8. tree' = wish
  <2>1. tree' = Unshifted(On(wish, m), m) BY <1>1, <1>4, <1>6 DEF ExportUnshift
  <2> QED BY <1>7, <2>1, ShiftedIsOn DEF FilesClean
<1>9. PICK x : x = [q EXCEPT !.at = "pack"] OBVIOUS
<1>10. freq' = [freq EXCEPT ![r] = x] BY <1>1, <1>9 DEF ExportUnshift, FGo
<1>11. DOMAIN x = DOMAIN q /\ x.at = "pack" /\ x.kind = "export" /\ x.map = q.map /\ x.our = q.our
  BY <1>2, <1>9 DEF FilesReqInv
<1>12. FilesReqInv(x) BY <1>2, <1>11 DEF FilesReqInv
<1> QED BY <1>1, <1>2, <1>3, <1>8, <1>10, <1>11, <1>12, FilesExportStep

LEMMA FilesPacked == ASSUME FilesClean, NEW r \in FileReqs, ExportPack(r), fileMarks' = {} PROVE FilesClean'
<1>1. PICK q : q = freq[r] OBVIOUS
<1>2. FilesReqInv(q) /\ q.at = "pack" /\ q.kind = "export"
  BY <1>1 DEF FilesClean, FilesRequests, FilesReqInv, ExportPack, FAt
<1>3. FMark(ExportMarks(r)) /\ UNCHANGED <<tree, wish, fcli, mode, lastMap, nextMap, mounted>> BY DEF ExportPack, FLeaves
<1>4. tree = wish
  <2>1. Packing BY <1>1, <1>2 DEF Packing
  <2> QED BY <2>1 DEF FilesClean, FilesTreeInv
<1>5. PICK res : /\ freq' = [freq EXCEPT ![r] = [at |-> "reshift", kind |-> "export", our |-> q.our, map |-> q.map, res |-> res]]
                 /\ res = Failed \/ (res.image = [p \in Paths |-> tree[p]] /\ res.true = wish)
  <2>1. PICK ok : ok = [ok |-> TRUE, image |-> [p \in Paths |-> tree[p]], true |-> wish] OBVIOUS
  <2>2. ok.image = [p \in Paths |-> tree[p]] /\ ok.true = wish BY <2>1
  <2>3. \/ freq' = [freq EXCEPT ![r] = [at |-> "reshift", kind |-> "export", our |-> q.our, map |-> q.map, res |-> ok]]
        \/ freq' = [freq EXCEPT ![r] = [at |-> "reshift", kind |-> "export", our |-> q.our, map |-> q.map, res |-> Failed]]
    BY <1>1, <2>1 DEF ExportPack, tarStoreFile
  <2> QED BY <2>2, <2>3
<1>6. res.ok => res.image = res.true
  <2>1. wish = [p \in Paths |-> wish[p]] BY DEF FilesClean, WishInv
  <2>2. ~ Failed.ok BY DEF Failed
  <2> QED BY <1>4, <1>5, <2>1, <2>2
<1>7. PICK x : x = [at |-> "reshift", kind |-> "export", our |-> q.our, map |-> q.map, res |-> res] OBVIOUS
<1>8. DOMAIN x = {"at", "kind", "our", "map", "res"} /\ x.at = "reshift" /\ x.kind = "export" /\ x.map = q.map /\ x.our = q.our /\ x.res = res
  BY <1>7
<1>9. FilesReqInv(x) BY <1>6, <1>8 DEF FilesReqInv, FResInv
<1>10. freq' = [freq EXCEPT ![r] = x] BY <1>5, <1>7
<1> QED BY <1>1, <1>2, <1>3, <1>4, <1>8, <1>9, <1>10, FilesExportStep

LEMMA FilesReshifts == ASSUME FilesClean, NEW r \in FileReqs, ExportReshift(r), fileMarks' = {} PROVE FilesClean'
<1>1. PICK q, m : q = freq[r] /\ m = lastMap OBVIOUS
<1>2. FilesReqInv(q) /\ q.at = "reshift" /\ q.kind = "export" /\ FResInv(q)
  BY <1>1 DEF FilesClean, FilesRequests, FilesReqInv, ExportReshift, FAt
<1>3. FMark(ExportMarks(r)) /\ UNCHANGED <<wish, fcli, mode, lastMap, nextMap, mounted>> BY DEF ExportReshift, FLeaves
<1>4. q.map = m BY <1>1, <1>2, <1>3, ExportFinds
<1>5. tree = wish
  <2>1. Packing BY <1>1, <1>2 DEF Packing
  <2> QED BY <2>1 DEF FilesClean, FilesTreeInv
<1>6. m \in Nat BY <1>1, FilesAssumption DEF FilesClean, FilesTypeInv
<1>7. tree' = On(wish, m)
  <2>1. tree' = Shifted(wish, m) BY <1>1, <1>4, <1>5 DEF ExportReshift
  <2> QED BY <1>6, <2>1, ShiftedIsOn DEF FilesClean
<1>8. PICK x : x = [q EXCEPT !.at = "umount"] OBVIOUS
<1>9. freq' = [freq EXCEPT ![r] = x] BY <1>1, <1>8 DEF ExportReshift, FGo
<1>10. DOMAIN x = DOMAIN q /\ x.at = "umount" /\ x.kind = "export" /\ x.map = q.map /\ x.our = q.our /\ x.res = q.res
  BY <1>2, <1>8 DEF FilesReqInv, FResInv
<1>11. FilesReqInv(x) BY <1>2, <1>10 DEF FilesReqInv, FResInv
<1> QED BY <1>1, <1>2, <1>3, <1>7, <1>9, <1>10, <1>11, FilesExportStep

-----------------------------------------------------------------------------
(* The container *)

\* A step of the container, nobody being at work on the tree.
LEMMA FilesContainerStep ==
  ASSUME FilesClean, UNCHANGED <<freq, fcli>>, ~ Packing, \A s \in FileReqs : freq[s].at # "write",
         lastMap' \in Maps, nextMap' \in Maps, mode' \in {"stopped", "starting", "running"}, mounted' \in BOOLEAN,
         WishInv', tree' = On(wish, lastMap)',
         mode' # "stopped" => mounted', mode' = "starting" => nextMap' = lastMap',
         mode' = "stopped" => ~mounted' /\ \A s \in FileReqs : freq[s].at # "fork"
  PROVE  FilesClean'
<1>1. ~ Packing' BY DEF Packing
<1>2. \A s \in FileReqs : ~ Packs(freq[s])' BY DEF Packs, Packing
<1>3. FilesTreeInv' BY <1>1, <1>2 DEF FilesTreeInv, FilesClean
<1>4. FilesMountInv' BY DEF FilesMountInv
<1>5. FilesRequests'
  <2>1. ASSUME NEW s \in FileReqs PROVE FilesReqInv(freq[s])' /\ FilesCmdInv(fcli[s], freq[s])'
    <3>1. PICK p, d : p = freq'[s] /\ d = fcli'[s] OBVIOUS
    <3>2. FilesReqInv(p) /\ FilesCmdInv(d, p) BY <3>1 DEF FilesClean, FilesRequests
    <3> QED BY <3>1, <3>2, FilesReqNext
  <2> QED BY <2>1 DEF FilesRequests
<1>6. FilesTypeInv' BY DEF FilesClean, FilesTypeInv
<1> QED BY <1>3, <1>4, <1>5, <1>6 DEF FilesClean

LEMMA FilesStarted == ASSUME FilesClean, StartShift, fileMarks' = {} PROVE FilesClean'
<1>1. ~ Packing /\ \A s \in FileReqs : freq[s].at # "write" BY DEF StartShift, FMark, Busy
<1>2. tree = On(wish, lastMap) /\ FilesTypeInv /\ WishInv BY <1>1 DEF FilesClean, FilesTreeInv
<1>3. PICK m, n : m = lastMap /\ n = nextMap OBVIOUS
<1>4. m \in Nat /\ n \in Nat BY <1>2, <1>3, FilesAssumption DEF FilesTypeInv
<1>5. tree' = On(wish, n)
  <2>1. CASE n = m BY <1>2, <1>3, <2>1 DEF StartShift
  <2>2. CASE n # m
    <3>1. tree' = Shifted(Unshifted(On(wish, m), m), n) BY <1>2, <1>3, <2>2 DEF StartShift
    <3>2. Unshifted(On(wish, m), m) = wish BY <1>2, <1>4, ShiftedIsOn
    <3> QED BY <1>2, <1>4, <3>1, <3>2, ShiftedIsOn
  <2> QED BY <2>1, <2>2
<1>6. lastMap' = n /\ nextMap' = n /\ mode' = "starting" /\ mounted' = TRUE /\ UNCHANGED <<wish, freq, fcli>>
  BY <1>3 DEF StartShift
<1>7. tree' = On(wish, lastMap)' BY <1>5, <1>6 DEF On
<1>8. WishInv' BY <1>2, <1>6 DEF WishInv
<1>9. lastMap' \in Maps /\ nextMap' \in Maps BY <1>2, <1>3, <1>6 DEF FilesTypeInv
<1> QED BY <1>1, <1>6, <1>7, <1>8, <1>9, FilesContainerStep

\* A template leaves the tree as the container should find it.
LEMMA TemplateOn ==
  ASSUME NEW w, NEW m \in Nat, m = nextMap, NEW trigger,
         w = [p \in Paths |-> w[p]],
         \A p \in Paths : /\ w[p] = [type |-> w[p].type, owner |-> w[p].owner, data |-> w[p].data]
                          /\ w[p].type = "none" => w[p].owner = Keep
                          /\ w[p].type # "none" => w[p].owner \in Ids,
         w["dir"].type \in {"none", "directory"}, w["file"].type \in {"none", "file"},
         w["file"].type # "none" => w["dir"].type = "directory",
         NEW t, t = On(w, m)
  PROVE  LET z == templateApplyNow(t, w, trigger)
             v == z[2]
         IN /\ z[1] = On(v, m)
            /\ v = [p \in Paths |-> v[p]]
            /\ \A p \in Paths : /\ v[p] = [type |-> v[p].type, owner |-> v[p].owner, data |-> v[p].data]
                                /\ v[p].type = "none" => v[p].owner = Keep
                                /\ v[p].type # "none" => v[p].owner \in Ids
            /\ v["dir"].type \in {"none", "directory"} /\ v["file"].type \in {"none", "file"}
            /\ v["file"].type # "none" => v["dir"].type = "directory"
<1>1. PICK text : text = {TemplateText} OBVIOUS
<1>2. PICK there \in BOOLEAN : there = (t["file"].type # "none") OBVIOUS
<1>3. /\ t["file"] = [type |-> w["file"].type, owner |-> Host(w["file"].owner, m), data |-> w["file"].data]
      /\ t["dir"] = [type |-> w["dir"].type, owner |-> Host(w["dir"].owner, m), data |-> w["dir"].data]
      /\ t = [p \in Paths |-> t[p]]
  BY DEF On, Paths
<1>4. there <=> w["file"].type # "none"
  <2>1. t["file"].type = w["file"].type BY <1>3
  <2>2. (t["file"].type # "none") <=> (w["file"].type # "none") BY <2>1
  <2> QED BY <1>2, <2>2
<1>5. \A p : p \in Paths <=> p = "dir" \/ p = "file" BY DEF Paths
<1>6. ShiftIntoNs(0, nextMap) = Host(0, m) /\ 0 \in Ids
  <2>1. 0 \in Ids BY DEF Ids
  <2> QED BY <2>1, HostOf
<1>7. CASE template.when # trigger \/ (there /\ template.createOnly)
  <2>1. templateApplyNow(t, w, trigger) = <<t, w>> BY <1>2, <1>7 DEF templateApplyNow
  <2> QED BY <2>1
<1>8. CASE ~ (template.when # trigger \/ (there /\ template.createOnly)) /\ there
  <2>1. PICK f, h : f = [type |-> w["file"].type, owner |-> w["file"].owner, data |-> text]
                    /\ h = [type |-> w["file"].type, owner |-> Host(w["file"].owner, m), data |-> text] OBVIOUS
  <2>2. PICK x, v : x = [p \in Paths |-> IF p = "file" THEN h ELSE t[p]] /\ v = [p \in Paths |-> IF p = "file" THEN f ELSE w[p]] OBVIOUS
  <2>3. [t EXCEPT !["file"].data = text] = x
    <3>1. [t["file"] EXCEPT !.data = text] = h BY <1>3, <2>1
    <3>2. [t EXCEPT !["file"] = h] = x BY <1>3, <2>2
    <3> QED BY <3>1, <3>2
  <2>4. [w EXCEPT !["file"].data = text] = v
    <3>1. [w["file"] EXCEPT !.data = text] = f BY <1>5, <2>1
    <3>2. [w EXCEPT !["file"] = f] = v BY <2>2
    <3> QED BY <3>1, <3>2
  <2>5. templateApplyNow(t, w, trigger) = <<x, v>> BY <1>1, <1>2, <1>8, <2>3, <2>4 DEF templateApplyNow
  <2>6. v["file"] = f /\ v["dir"] = w["dir"] /\ x["file"] = h /\ x["dir"] = t["dir"] BY <1>5, <2>2
  <2>7. f = [type |-> f.type, owner |-> f.owner, data |-> f.data] /\ f.type = w["file"].type /\ f.owner = w["file"].owner BY <2>1
  <2>8. h = [type |-> f.type, owner |-> Host(f.owner, m), data |-> f.data] BY <2>1
  <2>9. x = On(v, m) BY <1>3, <1>5, <2>2, <2>6, <2>8 DEF On
  <2>10. \A p \in Paths : /\ v[p] = [type |-> v[p].type, owner |-> v[p].owner, data |-> v[p].data]
                          /\ v[p].type = "none" => v[p].owner = Keep
                          /\ v[p].type # "none" => v[p].owner \in Ids
    BY <1>5, <2>6, <2>7
  <2>11. v = [p \in Paths |-> v[p]] BY <2>2
  <2> QED BY <2>5, <2>6, <2>7, <2>9, <2>10, <2>11
<1>9. CASE ~ (template.when # trigger \/ (there /\ template.createOnly)) /\ ~there
  <2>1. PICK root : root = ShiftIntoNs(0, nextMap) OBVIOUS
  <2>2. PICK dx, dv : dx = (IF t["dir"].type = "none" THEN Dir(root) ELSE t["dir"]) /\ dv = (IF w["dir"].type = "none" THEN Dir(0) ELSE w["dir"]) OBVIOUS
  <2>3. PICK x, v : x = [dir |-> dx, file |-> File(root, text)] /\ v = [dir |-> dv, file |-> File(0, text)] OBVIOUS
  <2>4. templateApplyNow(t, w, trigger) = <<x, v>> BY <1>1, <1>2, <1>9, <2>1, <2>2, <2>3 DEF templateApplyNow
  <2>5. x = [p \in Paths |-> x[p]] /\ v = [p \in Paths |-> v[p]] BY <2>3 DEF Paths
  <2>6. v["file"] = [type |-> "file", owner |-> 0, data |-> text] /\ x["file"] = [type |-> "file", owner |-> Host(0, m), data |-> text]
    BY <1>6, <2>1, <2>3 DEF File
  <2>7. v["dir"] = dv /\ x["dir"] = dx BY <2>3
  <2>8. /\ dv = [type |-> "directory", owner |-> dv.owner, data |-> dv.data] /\ dv.owner \in Ids
        /\ dx = [type |-> "directory", owner |-> Host(dv.owner, m), data |-> dv.data]
    <3>1. t["dir"].type = w["dir"].type BY <1>3
    <3>2. CASE w["dir"].type = "none" BY <1>6, <2>1, <2>2, <3>1, <3>2 DEF Dir
    <3>3. CASE w["dir"].type # "none" BY <1>3, <1>5, <2>2, <3>1, <3>3
    <3> QED BY <3>2, <3>3
  <2>9. \A p \in Paths : /\ v[p] = [type |-> v[p].type, owner |-> v[p].owner, data |-> v[p].data]
                         /\ v[p].type = "none" => v[p].owner = Keep
                         /\ v[p].type # "none" => v[p].owner \in Ids
    BY <1>5, <1>6, <2>6, <2>7, <2>8
  <2>10. \A p \in Paths : x[p] = [type |-> v[p].type, owner |-> Host(v[p].owner, m), data |-> v[p].data]
    BY <1>5, <2>6, <2>7, <2>8
  <2>11. x = On(v, m) BY <2>5, <2>10 DEF On
  <2>12. v["dir"].type = "directory" /\ v["file"].type = "file" BY <2>6, <2>7, <2>8
  <2> QED BY <2>4, <2>5, <2>9, <2>11, <2>12
<1> QED BY <1>7, <1>8, <1>9

LEMMA FilesTemplated == ASSUME FilesClean, OnStartTemplates, fileMarks' = {} PROVE FilesClean'
<1>1. ~ Packing /\ \A s \in FileReqs : freq[s].at # "write" BY DEF OnStartTemplates, FMark, Busy
<1>2. tree = On(wish, lastMap) /\ FilesTypeInv /\ WishInv /\ FilesMountInv BY <1>1 DEF FilesClean, FilesTreeInv
<1>3. PICK m : m = lastMap OBVIOUS
<1>4. m \in Nat /\ m = nextMap BY <1>2, <1>3, FilesAssumption DEF FilesTypeInv, FilesMountInv, OnStartTemplates
<1>5. PICK due : due = (IF template.apply = "" THEN <<tree, wish>> ELSE templateApplyNow(tree, wish, template.apply)) OBVIOUS
<1>6. PICK all : all = templateApplyNow(due[1], due[2], "start") OBVIOUS
<1>7. tree' = all[1] /\ wish' = all[2] BY <1>5, <1>6 DEF OnStartTemplates
<1>8. PICK d : d = due[2] OBVIOUS
<1>9. /\ due[1] = On(d, m) /\ d = [p \in Paths |-> d[p]]
      /\ \A p \in Paths : /\ d[p] = [type |-> d[p].type, owner |-> d[p].owner, data |-> d[p].data]
                          /\ d[p].type = "none" => d[p].owner = Keep
                          /\ d[p].type # "none" => d[p].owner \in Ids
      /\ d["dir"].type \in {"none", "directory"} /\ d["file"].type \in {"none", "file"}
      /\ d["file"].type # "none" => d["dir"].type = "directory"
  <2>1. PICK w, t, a : w = wish /\ t = tree /\ a = template.apply OBVIOUS
  <2>2. /\ w = [p \in Paths |-> w[p]] /\ t = On(w, m)
        /\ \A p \in Paths : /\ w[p] = [type |-> w[p].type, owner |-> w[p].owner, data |-> w[p].data]
                            /\ w[p].type = "none" => w[p].owner = Keep
                            /\ w[p].type # "none" => w[p].owner \in Ids
        /\ w["dir"].type \in {"none", "directory"} /\ w["file"].type \in {"none", "file"}
        /\ w["file"].type # "none" => w["dir"].type = "directory"
    BY <1>2, <1>3, <2>1 DEF WishInv
  <2>3. CASE a = ""
    <3>1. due = <<t, w>> BY <1>5, <2>1, <2>3
    <3> QED BY <1>8, <2>2, <3>1
  <2>4. CASE a # ""
    <3>1. due = templateApplyNow(t, w, a) BY <1>5, <2>1, <2>4
    <3> QED BY <1>4, <1>8, <2>2, <3>1, TemplateOn
  <2> QED BY <2>3, <2>4
<1>10. PICK v : v = all[2] OBVIOUS
<1>11. /\ all[1] = On(v, m) /\ v = [p \in Paths |-> v[p]]
       /\ \A p \in Paths : /\ v[p] = [type |-> v[p].type, owner |-> v[p].owner, data |-> v[p].data]
                           /\ v[p].type = "none" => v[p].owner = Keep
                           /\ v[p].type # "none" => v[p].owner \in Ids
       /\ v["dir"].type \in {"none", "directory"} /\ v["file"].type \in {"none", "file"}
       /\ v["file"].type # "none" => v["dir"].type = "directory"
  <2>1. PICK t : t = due[1] OBVIOUS
  <2>2. t = On(d, m) /\ all = templateApplyNow(t, d, "start") BY <1>6, <1>8, <1>9, <2>1
  <2> QED BY <1>4, <1>9, <1>10, <2>2, TemplateOn
<1>12. WishInv' BY <1>7, <1>10, <1>11 DEF WishInv
<1>13. UNCHANGED <<lastMap, nextMap, mounted, freq, fcli>> /\ mode' = "running" /\ mode = "starting" BY DEF OnStartTemplates
<1>14. tree' = On(wish, lastMap)' BY <1>3, <1>7, <1>10, <1>11, <1>13 DEF On
<1>15. mounted' = TRUE BY <1>2, <1>13 DEF FilesMountInv, FilesTypeInv
<1> QED BY <1>1, <1>2, <1>12, <1>13, <1>14, <1>15, FilesContainerStep DEF FilesTypeInv

LEMMA FilesStopped == ASSUME FilesClean, NEW m \in Maps, StopFiles(m), fileMarks' = {} PROVE FilesClean'
<1>1. Running /\ mode' = "stopped" /\ mounted' = FALSE /\ nextMap' = m /\ UNCHANGED <<tree, wish, lastMap, fcli, freq>>
  BY DEF StopFiles
<1>2. \A s \in FileReqs : freq[s].at \notin {"fork", "write"} BY DEF StopFiles, FMark
<1>3. ~ Packing BY <1>1 DEF FilesClean, FilesTreeInv, Running
<1>4. tree' = On(wish, lastMap)' BY <1>1, <1>2, <1>3 DEF FilesClean, FilesTreeInv, On
<1>5. WishInv' /\ lastMap' \in Maps BY <1>1 DEF FilesClean, WishInv, FilesTypeInv
<1> QED BY <1>1, <1>2, <1>3, <1>4, <1>5, FilesContainerStep

LEMMA FilesEnded == ASSUME FilesClean, FilesCut, fileMarks' = {} PROVE FilesClean'
<1>0. FilesTypeInv /\ WishInv /\ FilesTreeInv /\ FilesMountInv BY DEF FilesClean
<1>1. freq' = [s \in FileReqs |-> NoReq] /\ fcli' = [s \in FileReqs |-> NoCmd]
      /\ UNCHANGED <<tree, wish, mode, mounted, lastMap, nextMap>>
  BY DEF FilesCut, FLeaves
<1>2. /\ \A s \in FileReqs : freq[s].at \notin {"write", "unshift", "pack", "reshift"}
      /\ \A s \in FileReqs : ~ (freq[s].at \in {"fork", "umount"} /\ freq[s].our)
  BY DEF FilesCut, FMark, Busy
<1>3. ~ Packing /\ \A s \in FileReqs : ~ Ours(freq[s]) BY <1>2 DEF Packing, Ours
<1>4. tree' = On(wish, lastMap)' BY <1>0, <1>1, <1>2, <1>3 DEF FilesTreeInv, On
<1>5. NoReq.at = "none" /\ NoReq.kind = "none" /\ NoCmd.prog = "none" BY DEF NoReq, NoCmd
<1>6. FilesRequests'
  <2>1. ASSUME NEW s \in FileReqs PROVE FilesReqInv(freq[s])' /\ FilesCmdInv(fcli[s], freq[s])'
    <3>1. PICK p, d : p = freq'[s] /\ d = fcli'[s] OBVIOUS
    <3>2. p = NoReq /\ d = NoCmd BY <1>1, <3>1
    <3>3. FilesReqInv(p) /\ FilesCmdInv(d, p) BY <1>5, <3>2, FilesAtRest DEF FilesCmdInv
    <3> QED BY <3>1, <3>3, FilesReqNext
  <2> QED BY <2>1 DEF FilesRequests
<1>7. \A s \in FileReqs : freq'[s].at = "none" /\ freq'[s].kind = "none" BY <1>1, <1>5
<1>8. FilesTreeInv' BY <1>4, <1>7 DEF FilesTreeInv, Packing, Packs
<1>9. FilesMountInv' BY <1>0, <1>1, <1>3, <1>7 DEF FilesMountInv
<1>10. WishInv' /\ FilesTypeInv' BY <1>0, <1>1 DEF WishInv, FilesTypeInv
<1> QED BY <1>6, <1>8, <1>9, <1>10 DEF FilesClean

-----------------------------------------------------------------------------
(* The files. *)

LEMMA FilesMarksGrow == ASSUME FilesNext PROVE fileMarks \subseteq fileMarks'
<1>1. ASSUME NEW r \in FileReqs, \/ \E c \in Commands : FileCommand(r, c)
                                 \/ FileAnswer(r) \/ FilePush(r) \/ StorageStart(r) \/ StorageStop(r) \/ FilePull(r)
      PROVE  fileMarks \subseteq fileMarks'
  BY <1>1 DEF FileCommand, FileAnswer, FilePush, StorageStart, StorageStop, FilePull, FMark
<1>2. ASSUME NEW r \in FileReqs, ForkMkdir(r) \/ ForkOpen(r) \/ ForkWrite(r) \/ ForkRead(r) \/ ForkCheck(r) \/ ForkRemove(r)
      PROVE  fileMarks \subseteq fileMarks'
  BY <1>2 DEF ForkMkdir, ForkOpen, ForkWrite, ForkRead, ForkCheck, ForkRemove, FMark
<1>3. ASSUME NEW r \in FileReqs, ExportStart(r) \/ ExportUnshift(r) \/ ExportPack(r) \/ ExportReshift(r)
      PROVE  fileMarks \subseteq fileMarks'
  BY <1>3 DEF ExportStart, ExportUnshift, ExportPack, ExportReshift, FMark
<1>4. ASSUME StartShift \/ OnStartTemplates \/ FilesCut \/ \E m \in Maps : StopFiles(m)
      PROVE  fileMarks \subseteq fileMarks'
  BY <1>4 DEF StartShift, OnStartTemplates, FilesCut, StopFiles, FMark
<1> QED BY <1>1, <1>2, <1>3, <1>4 DEF FilesNext

LEMMA FilesInvNext == ASSUME FilesInv, FilesNext PROVE FilesInv'
<1> SUFFICES ASSUME fileMarks' = {} PROVE FilesClean' BY DEF FilesInv
<1>1. FilesClean BY FilesMarksGrow DEF FilesInv
<1>2. ASSUME NEW r \in FileReqs, \/ \E c \in Commands : FileCommand(r, c)
                                 \/ FileAnswer(r) \/ FilePush(r) \/ StorageStart(r) \/ StorageStop(r) \/ FilePull(r)
      PROVE  FilesClean'
  BY <1>1, <1>2, FilesAsk, FilesGoOn, FilesPushes, FilesMounts, FilesUnmounts, FilesPulled
<1>3. ASSUME NEW r \in FileReqs, ForkMkdir(r) \/ ForkOpen(r) \/ ForkWrite(r) \/ ForkRead(r) \/ ForkCheck(r) \/ ForkRemove(r)
      PROVE  FilesClean'
  BY <1>1, <1>3, FilesMkdir, FilesOpened, FilesWritten, FilesRead, FilesChecked, FilesRemoves
<1>4. ASSUME NEW r \in FileReqs, ExportStart(r) \/ ExportUnshift(r) \/ ExportPack(r) \/ ExportReshift(r)
      PROVE  FilesClean'
  BY <1>1, <1>4, FilesExports, FilesUnshifts, FilesPacked, FilesReshifts
<1>5. ASSUME StartShift \/ OnStartTemplates \/ FilesCut \/ \E m \in Maps : StopFiles(m)
      PROVE  FilesClean'
  BY <1>1, <1>5, FilesStarted, FilesTemplated, FilesEnded, FilesStopped
<1> QED BY <1>2, <1>3, <1>4, <1>5 DEF FilesNext

LEMMA FilesInvInit == ASSUME FilesInit PROVE FilesInv
<1>1. /\ lastMap \in Maps /\ nextMap \in Maps /\ mode = "stopped" /\ mounted = FALSE
      /\ freq = [s \in FileReqs |-> NoReq] /\ fcli = [s \in FileReqs |-> NoCmd]
      /\ wish = [p \in Paths |-> IF p = "dir" THEN Dir(0) ELSE Absent] /\ tree = Shifted(wish, lastMap)
  BY DEF FilesInit
<1>2. WishInv
  <2>1. wish["dir"] = Dir(0) /\ wish["file"] = Absent BY <1>1 DEF Paths
  <2>2. Dir(0) = [type |-> "directory", owner |-> 0, data |-> {}] /\ Absent = [type |-> "none", owner |-> Keep, data |-> {}] /\ 0 \in Ids
    BY DEF Dir, Absent, Ids
  <2>3. \A p \in Paths : p = "dir" \/ p = "file" BY DEF Paths
  <2> QED BY <1>1, <2>1, <2>2, <2>3 DEF WishInv
<1>3. tree = On(wish, lastMap)
  <2>1. PICK m : m = lastMap OBVIOUS
  <2>2. m \in Nat BY <1>1, <2>1, FilesAssumption
  <2> QED BY <1>1, <1>2, <2>1, <2>2, ShiftedIsOn
<1>4. NoReq.at = "none" /\ NoReq.kind = "none" /\ NoCmd.prog = "none" BY DEF NoReq, NoCmd
<1>5. FilesRequests
  <2>1. \A s \in FileReqs : freq[s] = NoReq /\ fcli[s] = NoCmd BY <1>1
  <2> QED BY <1>4, <2>1, FilesAtRest DEF FilesRequests, FilesCmdInv
<1>6. \A s \in FileReqs : freq[s].at = "none" /\ freq[s].kind = "none" BY <1>1, <1>4
<1>7. FilesTreeInv BY <1>3, <1>6 DEF FilesTreeInv, Packing, Packs
<1>8. FilesMountInv /\ FilesTypeInv BY <1>1, <1>6 DEF FilesMountInv, FilesTypeInv
<1> QED BY <1>2, <1>5, <1>7, <1>8 DEF FilesInv, FilesClean

LEMMA FilesInvStutter == ASSUME FilesInv, UNCHANGED fileVars PROVE FilesInv'
<1>1. UNCHANGED <<tree, wish, mode, lastMap, nextMap, mounted, freq, fcli, fileMarks>> BY DEF fileVars
<1>2. FilesRequests => FilesRequests'
  <2>1. ASSUME FilesRequests, NEW s \in FileReqs PROVE FilesReqInv(freq[s])' /\ FilesCmdInv(fcli[s], freq[s])'
    <3>1. PICK p, d : p = freq'[s] /\ d = fcli'[s] OBVIOUS
    <3>2. FilesReqInv(p) /\ FilesCmdInv(d, p) BY <1>1, <2>1, <3>1 DEF FilesRequests
    <3> QED BY <3>1, <3>2, FilesReqNext
  <2> QED BY <2>1 DEF FilesRequests
<1>3. On(wish, lastMap)' = On(wish, lastMap) /\ (Packing' <=> Packing) /\ Through' = Through /\ Ns' = Ns
  BY <1>1 DEF On, Packing, Through, Ns, Running
<1>4. FilesTreeInv => FilesTreeInv'
  <2>1. ASSUME FilesTreeInv, NEW s \in FileReqs, freq'[s].at = "write" PROVE WriteInv(freq[s])'
    <3>1. WriteInv(freq[s]) BY <1>1, <2>1 DEF FilesTreeInv
    <3> QED BY <1>1, <1>3, <3>1 DEF WriteInv
  <2> QED BY <1>1, <1>3, <2>1 DEF FilesTreeInv, Packs
<1>5. FilesMountInv => FilesMountInv' BY <1>1 DEF FilesMountInv, Ours
<1>6. (WishInv => WishInv') /\ (FilesTypeInv => FilesTypeInv') BY <1>1 DEF WishInv, FilesTypeInv
<1> QED BY <1>1, <1>2, <1>4, <1>5, <1>6 DEF FilesInv, FilesClean

LEMMA FilesByInv == ASSUME FilesInv PROVE FilesWhole
<1> SUFFICES ASSUME fileMarks = {}
             PROVE  /\ (\A r \in FileReqs : freq[r].at \in {"none", "done"}) /\ mode # "starting" =>
                         tree = Shifted(wish, lastMap) /\ mounted = Running
                    /\ \A r \in FileReqs : freq[r].at = "done" /\ freq[r].kind = "exists" /\ freq[r].res # Failed => freq[r].res.ok = freq[r].res.true
                    /\ \A r \in FileReqs : freq[r].at = "done" /\ freq[r].res.ok =>
                         /\ freq[r].kind = "pull" => LET res == freq[r].res IN <<res.type, res.owner, res.data>> = <<res.true.type, res.true.owner, res.true.data>>
                         /\ freq[r].kind = "export" => freq[r].res.image = freq[r].res.true
  BY DEF FilesWhole
<1>0. FilesTypeInv /\ WishInv /\ FilesTreeInv /\ FilesMountInv /\ FilesRequests BY DEF FilesInv, FilesClean
<1>1. ASSUME \A r \in FileReqs : freq[r].at \in {"none", "done"}, mode # "starting"
      PROVE  tree = Shifted(wish, lastMap) /\ mounted = Running
  <2>1. ~ Packing /\ (\A r \in FileReqs : freq[r].at # "write") /\ \A r \in FileReqs : ~ Ours(freq[r])
    BY <1>1 DEF Packing, Ours
  <2>2. tree = On(wish, lastMap) BY <1>0, <2>1 DEF FilesTreeInv
  <2>3. PICK m : m = lastMap OBVIOUS
  <2>4. m \in Nat BY <1>0, <2>3, FilesAssumption DEF FilesTypeInv
  <2>5. mounted <=> Running BY <1>0, <1>1, <2>1 DEF FilesMountInv, FilesTypeInv, Running
  <2>6. mounted = Running BY <1>0, <2>5 DEF FilesTypeInv, Running
  <2> QED BY <1>0, <2>2, <2>3, <2>4, <2>6, ShiftedIsOn
<1>2. ASSUME NEW r \in FileReqs, freq[r].at = "done" PROVE FResInv(freq[r])
  BY <1>0, <1>2 DEF FilesRequests, FilesReqInv
<1>3. ASSUME NEW r \in FileReqs, freq[r].at = "done", freq[r].kind = "exists", freq[r].res # Failed
      PROVE  freq[r].res.ok = freq[r].res.true
  BY <1>2, <1>3 DEF FResInv
<1>4. ASSUME NEW r \in FileReqs, freq[r].at = "done", freq[r].res.ok
      PROVE  /\ freq[r].kind = "pull" => LET res == freq[r].res IN <<res.type, res.owner, res.data>> = <<res.true.type, res.true.owner, res.true.data>>
             /\ freq[r].kind = "export" => freq[r].res.image = freq[r].res.true
  BY <1>2, <1>4 DEF FResInv
<1> QED BY <1>1, <1>3, <1>4
-----------------------------------------------------------------------------
(* The parts together.  A step is a step of one part and leaves the variables *)
(* of every other part as they were, or a stutter.                          *)

LEMMA StepRecovery == ASSUME [Next]_vars PROVE RecoveryNext \/ UNCHANGED recVars
BY DEF Next, vars

LEMMA StepEdits == ASSUME [Next]_vars PROVE EditsNext \/ UNCHANGED editVars
BY DEF Next, vars

LEMMA StepImages == ASSUME [Next]_vars PROVE ImagesNext \/ UNCHANGED imgVars
BY DEF Next, vars

LEMMA StepFiles == ASSUME [Next]_vars PROVE FilesNext \/ UNCHANGED fileVars
BY DEF Next, vars

\* However containers are created, configured, snapshot, renamed and started,
\* whichever of their rows and whether the row of the pool is lost: an import
\* that ends well (internalImport, containerCreateInternal) leaves the container
\* and each of its snapshots with the configuration they had, and none loses
\* files. The first not after a rename ("renamed", "snaprename"), an import
\* without the pool's row ("panic"), a change backup.yaml did not get
\* ("unwritten") or an import from what an earlier one wrote there before the
\* snapshots had rows ("thin"); neither once a failed import was undone
\* ("undone").
THEOREM ContainersComeBack == Spec => []Recoverable
<1>1. Init => RecInv BY RecInvInit DEF Init
<1>2. RecInv /\ [Next]_vars => RecInv' BY StepRecovery, RecInvNext, RecInvStutter
<1>3. RecInv => Recoverable BY RecoverableByInv
<1> QED BY <1>1, <1>2, <1>3, PTL DEF Spec

\* Whatever clients read, change and write back at the same time: the parts of
\* every object are what the last change of that part asked for, and the
\* daemon's memory of its configuration is what the database has (containerPut,
\* profilePut, networkPut, storagePoolPut, api10Put, etagCheck). Not once a
\* request wrote between another's comparison and commit ("raced"), over a
\* description the ETag does not cover ("description"), a PATCH of a network or
\* a pool was ignored ("ignored"), or an update of the server failed in the
\* middle ("partial", "memory").
THEOREM EditsAreKept == Spec => []EditsKept
<1>1. Init => EdInv BY EdInvInit DEF Init
<1>2. EdInv /\ [Next]_vars => EdInv' BY StepEdits, EdInvNext, EdInvStutter
<1>3. EdInv => EditsKept BY EditsByInv
<1> QED BY <1>1, <1>2, <1>3, PTL DEF Spec

\* Whatever images are made, published, updated, deleted and pruned at the same
\* time: an alias goes over to the new image of an update, unless a deletion met
\* the making of the same image ("crossed"), the aliases could not be moved
\* ("unmoved") or the refresh named a part of the fingerprint ("part"). And
\* every image has its file, every file and volume its image, unless a request
\* is making or removing it, as long as none of this happened and no file,
\* volume or row could not be removed ("orphan", "volume", "fileless")
\* (imgPostContInfo, autoUpdateImage, doDeleteImageFromPool,
\* pruneExpiredImages).
THEOREM ImagesAreWhole == Spec => []ImagesWhole
<1>1. Init => ImgInv BY ImgInvInit DEF Init
<1>2. ImgInv /\ [Next]_vars => ImgInv' BY StepImages, ImgInvNext, ImgInvStutter
<1>3. ImgInv => ImagesWhole BY ImagesByInv
<1> QED BY <1>1, <1>2, <1>3, PTL DEF Spec

\* Whatever clients push, pull, remove and publish, and whatever id maps the
\* container starts with in between: it finds its files as they were pushed,
\* templated or removed, with the owners that were asked for; a pull and a
\* publication give what the container sees; and the storage is mounted exactly
\* while it is needed (FilePush, FilePull, Export, StorageStop). Not once the
\* container started or stopped during a request ("moved"), a publication had
\* the tree unshifted ("packing"), two children met on one file ("mixed"), a
\* mount was taken from another or kept by one ("unmounted", "busy"), or a
\* write, a daemon or a child ended half way ("cut", "killed").
THEOREM FilesAreWhole == Spec => []FilesWhole
<1>1. Init => FilesInv BY FilesInvInit DEF Init
<1>2. FilesInv /\ [Next]_vars => FilesInv' BY StepFiles, FilesInvNext, FilesInvStutter
<1>3. FilesInv => FilesWhole BY FilesByInv
<1> QED BY <1>1, <1>2, <1>3, PTL DEF Spec

=============================================================================
