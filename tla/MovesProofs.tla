----------------------------- MODULE MovesProofs -----------------------------
(***************************************************************************)
(* Theorems about what is moved: the daemon's way up with the upgrade of   *)
(* the storage (Upgrade), and the migration of a container (Migration), for *)
(* every number of versions, patches, containers, images, deaths, snapshots *)
(* and faults.                                                             *)
(***************************************************************************)
EXTENDS Moves, SequenceTheorems, TLAPS

-----------------------------------------------------------------------------
(* The daemon's way up. *)

\* What ties the place of the start to the database.  An update that left its
\* traces is one that is not recorded; a database without a schema has nothing
\* in it, so that the patches a new one is marked with have nothing to do.
StartInv ==
  /\ schema \in 0..Latest /\ half \in BOOLEAN
  /\ applied \subseteq Patches
  /\ half => schema < Latest
  /\ schema = 0 => have = {} /\ ~half /\ step \in {"down", "create"}
  /\ step \in {"create", "mark"} => have = {} /\ ~half
  /\ step = "create" => schema = 0
  /\ step = "record" => half
  /\ UpToDate

\* When it is the turn of a patch all before it are recorded.
LEMMA Earlier ==
  ASSUME NEW p \in Patches, NextPatch(p)
  PROVE  1..(p - 1) \subseteq applied
<1>1. NPatches \in Nat  BY StartAssumption
<1> QED  BY <1>1 DEF NextPatch, Patches

LEMMA StartInvInit == Init => StartInv
<1> SUFFICES ASSUME Init PROVE StartInv  OBVIOUS
<1>1. Latest \in Nat \ {0} /\ NPatches \in Nat  BY StartAssumption
<1>2. PICK v \in 0..Latest, n \in 0..NPatches : schema = v /\ applied = IF v = 0 THEN {} ELSE 1..n
  BY DEF Init, StartInit
<1>3. applied \subseteq Patches /\ \A p \in applied : 1..(p - 1) \subseteq applied
  BY <1>1, <1>2 DEF Patches
<1> QED  BY <1>1, <1>2, <1>3 DEF Init, StartInit, StartInv, UpToDate

LEMMA StartInvNext == StartInv /\ [Next]_vars => StartInv'
<1> SUFFICES ASSUME StartInv, [Next]_vars PROVE StartInv'  OBVIOUS
<1>a. Latest \in Nat \ {0} /\ NPatches \in Nat  BY StartAssumption
<1> USE DEF StartInv, UpToDate, dbVars, readyVars, startVars
<1>1. CASE Starts /\ UNCHANGED upgradeVars
  <2> USE <1>1 DEF upgradeVars
  <2>1. CASE Boot  BY <2>1, <1>a DEF Boot
  <2>2. CASE CreateSchema  BY <2>2, <1>a DEF CreateSchema
  <2>3. CASE MarkPatch
    <3>1. applied' \subseteq Patches /\ applied \subseteq applied'  BY <2>3 DEF MarkPatch
    <3> QED  BY <2>3, <3>1, <1>a DEF MarkPatch
  <2>4. CASE CreateProfile  BY <2>4, <1>a DEF CreateProfile
  <2>5. CASE Backup  BY <2>5, <1>a DEF Backup
  <2>6. CASE RunUpdate  BY <2>6, <1>a DEF RunUpdate
  <2>7. CASE UpdateStuck  BY <2>7, <1>a DEF UpdateStuck
  <2>8. CASE RecordUpdate
    <3>1. schema < Latest /\ schema' = schema + 1  BY <2>8 DEF RecordUpdate
    <3>2. schema' \in 0..Latest /\ schema' # 0  BY <3>1, <1>a
    <3>3. half' = FALSE /\ step' = "legacy" /\ applied' = applied /\ patched' = patched /\ have' = have
      BY <2>8 DEF RecordUpdate
    <3> QED  BY <3>2, <3>3
  <2>9. CASE LegacyPatch  BY <2>9, <1>a DEF LegacyPatch
  <2>10. CASE UpdatesDone  BY <2>10, <1>a DEF UpdatesDone
  <2>11. ASSUME NEW p \in Patches, RunPatch(p) PROVE StartInv'
    <3>1. 1..(p - 1) \subseteq applied  BY <2>11, Earlier DEF RunPatch
    <3> QED  BY <2>11, <3>1, <1>a DEF RunPatch
  <2>12. ASSUME NEW p \in Patches, RecordPatch(p) PROVE StartInv'
    BY <2>12, <1>a DEF RecordPatch
  <2>13. CASE Serve  BY <2>13, <1>a DEF Serve
  <2>14. CASE Ready  BY <2>14, <1>a DEF Ready
  <2>15. ASSUME NEW r \in Readiers, ReadyReturns(r) PROVE StartInv'
    BY <2>15, <1>a DEF ReadyReturns
  <2> QED
    BY <2>1, <2>2, <2>3, <2>4, <2>5, <2>6, <2>7, <2>8, <2>9, <2>10, <2>11, <2>12, <2>13, <2>14, <2>15
    DEF Starts
<1>2. CASE patchStorageApi
  <2>1. have' = have
    BY <1>2 DEF patchStorageApi, BeginUpgrade, UpgradeStep, MakePool, AddRow, MoveObject, SkipSnapshot,
      CopyObject, CopyDone, DropOld, LinkOld, ClearOld, CheckImage, UpdateProfiles, UnsetKeys,
      SetupStorageDriver, PoolMissing, UpgradeFailed, UpgradeDone
  <2>2. CASE UNCHANGED startVars  BY <2>1, <2>2, <1>a
  <2>3. CASE Exit  BY <2>1, <2>3, <1>a DEF Exit
  <2>4. CASE RunPatch(StorageApi)
    <3>1. 1..(StorageApi - 1) \subseteq applied  BY <2>4, Earlier, UpgradeAssumption DEF RunPatch
    <3> QED  BY <2>1, <2>4, <3>1, <1>a, UpgradeAssumption DEF RunPatch
  <2> QED  BY <1>2, <2>2, <2>3, <2>4 DEF patchStorageApi
<1>3. CASE Fails
  <2>1. have' = have  BY <1>3 DEF Fails, UpgradeCut, CopyFails, PassOver, upgradeVars
  <2>2. CASE Die  BY <2>1, <2>2, <1>a DEF Die
  <2>3. CASE UNCHANGED <<dbVars, bak, step, backedUp, setupMode, readyVars>>  BY <2>1, <2>3, <1>a
  <2> QED  BY <1>3, <2>2, <2>3 DEF Fails
<1>4. ASSUME NEW r \in Readiers, ReadyCall(r), UNCHANGED upgradeVars PROVE StartInv'
  BY <1>4, <1>a DEF ReadyCall, upgradeVars
<1>5. CASE UNCHANGED vars  BY <1>5, <1>a DEF vars, upgradeVars
<1> QED  BY <1>1, <1>2, <1>3, <1>4, <1>5 DEF Next

\* However often the daemon dies or fails on its way up (Daemon.Init,
\* dbUpdatesApplyAll, patchesApplyAll), it serves only with the newest schema
\* and every patch recorded, a patch runs only when all before it are recorded,
\* and on an installation that has anything what is recorded has run.
THEOREM ServesUpToDate == Spec => []UpToDate
<1>1. StartInv => UpToDate  BY DEF StartInv
<1> QED  BY StartInvInit, StartInvNext, <1>1, PTL DEF Spec

-----------------------------------------------------------------------------
(* The upgrade of the storage.  A run does its tasks in their order; what it *)
(* has done so far, with what earlier runs have left, says where everything  *)
(* is.                                                                       *)

Backends == {"dir", "btrfs", "lvm", "zfs"}

\* The run has done this to x.
DoneFor(n, x) == \E t \in Tasks : t.task = n /\ t.of = x /\ Precedes(t, at)

\* This run passes over x.
GivenUp(x) == x[1] # "image" /\ Ct(x[2]) \in failed

\* The run takes the host for what it is once it has its pool: without the
\* keys the pool of an LVM or ZFS host is there, under a name of its own.
RightBackend ==
  /\ type \in Backends /\ as \in Backends
  /\ have \in {{}, Objects}
  /\ at \in Tasks \cup {Idle, End}
  /\ type \in {"lvm", "zfs"} /\ ~keys => poolRow = "named"
  /\ Running /\ as # type => as = "dir" /\ type \in {"lvm", "zfs"} /\ ~keys
  /\ Running /\ have # {} /\ at # Pool => as = type /\ poolRow = PoolName(type)
  /\ have # {} /\ Precedes(Unset, at) => ~keys
  /\ Running /\ failed # {} => as = "zfs" /\ ~Precedes(Profiles, at)

\* A copy is made of the whole to a place that was empty.
InCopy ==
  /\ old \in [Objects -> {"none", "full", "part", "link"}]
  /\ new \in [Objects -> {"none", "full", "part"}]
  /\ doing \in {"task", "copy", "drop"}
  /\ doing # "task" =>
       at \in Tasks /\ Task = "move" /\ as # "zfs"
  /\ doing = "copy" =>
       old[Obj] = "full" /\ new[Obj] = "part" /\ (as = "lvm" => Plain(Obj))
  /\ doing = "drop" => new[Obj] = "full"

\* What is at the two places of an object that is renamed or copied.
Held(x) ==
  /\ "full" \in {old[x], new[x]} \/ CutSnapshot(x)
  /\ type = "lvm" /\ new[x] = "part" => Plain(x)
  /\ \/ x \in torn \/ (doing # "task" /\ x = Obj)
     \/ old[x] = "full" /\ new[x] = "none"
     \/ old[x] \in {"none", "link"} /\ new[x] = "full"

Places ==
  type # "zfs" =>
    \A x \in have :
      /\ Held(x)
      /\ DoneFor("move", x) => new[x] # "none"
      /\ x \notin torn /\ x[1] = "container" /\ DoneFor("link", x) => old[x] = "link"

\* On ZFS mount points are removed, linked and set anew, in this order.
MountPoints ==
  type = "zfs" =>
    \A x \in have : ~GivenUp(x) =>
      /\ DoneFor("move", x) => new[x] = "full"
      /\ DoneFor("clear", x) => old[x] \in {"none", "link"}
      /\ x[1] = "container" /\ DoneFor("link", x) => old[x] = "link"

VolumeRows == \A x \in have : ~GivenUp(x) /\ DoneFor("row", x) => x \in volRows

UpgradeInv == RightBackend /\ InCopy /\ Places /\ MountPoints /\ VolumeRows

\* The upgrade is at work only as the next patch, and once it has run to its
\* end everything has arrived.
UpgradePlace ==
  /\ Running => step = "patch" /\ NextPatch(StorageApi)
  /\ step = "patched" /\ NextPatch(StorageApi) => Arrived
  /\ StorageApi \in applied => Arrived

-----------------------------------------------------------------------------
(* The tasks and their order. *)

\* The tasks of a run that takes the host for as.
LEMMA TasksAre ==
  ASSUME have # {}, as \in Backends
  PROVE  Tasks = TasksOf(Turns[as])
<1>1. DOMAIN Turns = Backends  BY DEF Turns, Backends
<1> QED  BY <1>1 DEF Tasks, TasksAs

LEMMA TurnsOfBackends ==
  /\ Turns["dir"] = upgradeFromStorageTypeDir
  /\ Turns["btrfs"] = upgradeFromStorageTypeBtrfs
  /\ Turns["lvm"] = upgradeFromStorageTypeLvm
  /\ Turns["zfs"] = upgradeFromStorageTypeZfs
BY DEF Turns

Names == {"row", "move", "link", "clear", "check"}

\* The lists of a backend are lists of tasks.
LEMMA TurnLists ==
  ASSUME NEW b \in Backends
  PROVE  /\ Turns[b].ctn \in Seq(Names) /\ Turns[b].snap \in Seq(Names)
         /\ Turns[b].late \in Seq(Names) /\ Turns[b].img \in Seq(Names)
<1>1. \A u, v, w, z \in Names :
        /\ <<>> \in Seq(Names) /\ <<u>> \in Seq(Names) /\ <<u, v>> \in Seq(Names)
        /\ <<u, v, w>> \in Seq(Names) /\ <<u, v, w, z>> \in Seq(Names)
  OBVIOUS
<1>2. "row" \in Names /\ "move" \in Names /\ "link" \in Names /\ "clear" \in Names /\ "check" \in Names
  BY DEF Names
<1>3. CASE b = "dir"  BY <1>1, <1>2, <1>3, TurnsOfBackends DEF upgradeFromStorageTypeDir
<1>4. CASE b = "btrfs"  BY <1>1, <1>2, <1>4, TurnsOfBackends DEF upgradeFromStorageTypeBtrfs
<1>5. CASE b = "lvm"  BY <1>1, <1>2, <1>5, TurnsOfBackends DEF upgradeFromStorageTypeLvm
<1>6. CASE b = "zfs"  BY <1>1, <1>2, <1>6, TurnsOfBackends DEF upgradeFromStorageTypeZfs
<1> QED  BY <1>3, <1>4, <1>5, <1>6 DEF Backends

\* Where the task t of a run with these lists is: once, at a container, at a
\* snapshot, at a snapshot when the containers are done, or at an image.
Globally(t) == t \in {Pool, Profiles, Unset, Once(7, "setup")}
AtCtn(ctn, t) ==
  \E k \in DOMAIN Ctns, j \in DOMAIN ctn : t = Turn(2, k, j, ctn[j], Ct(Ctns[k]))
AtSnap(m, snap, t) ==
  \E k \in HasSnap, j \in DOMAIN snap : t = Turn(2, k, m + j, snap[j], Sn(Ctns[k]))
AtLate(late, t) ==
  \E k \in HasSnap, j \in DOMAIN late : t = Turn(3, k, j, late[j], Sn(Ctns[k]))
AtImg(img, t) ==
  \E k \in DOMAIN Imgs, j \in DOMAIN img : t = Turn(4, k, j, img[j], Im(Imgs[k]))

AnyTask(ctn, m, snap, late, img, t) ==
  Globally(t) \/ AtCtn(ctn, t) \/ AtSnap(m, snap, t) \/ AtLate(late, t) \/ AtImg(img, t)

LEMMA TaskForms ==
  ASSUME NEW c, NEW s, NEW l, NEW i, NEW t
  PROVE  t \in TasksOf([ctn |-> c, snap |-> s, late |-> l, img |-> i]) <=> AnyTask(c, Len(c), s, l, i, t)
<1> DEFINE r == [ctn |-> c, snap |-> s, late |-> l, img |-> i]
           CC == {Turn(2, k, j, c[j], Ct(Ctns[k])) : k \in DOMAIN Ctns, j \in DOMAIN c}
           SS == {Turn(2, k, Len(c) + j, s[j], Sn(Ctns[k])) : k \in HasSnap, j \in DOMAIN s}
           LL == {Turn(3, k, j, l[j], Sn(Ctns[k])) : k \in HasSnap, j \in DOMAIN l}
           II == {Turn(4, k, j, i[j], Im(Imgs[k])) : k \in DOMAIN Imgs, j \in DOMAIN i}
<1>1. TasksOf(r) = {Pool, Profiles, Unset, Once(7, "setup")} \cup CC \cup SS \cup LL \cup II  BY DEF TasksOf
<1>2. t \in CC <=> AtCtn(c, t)  BY DEF AtCtn
<1>3. t \in SS <=> AtSnap(Len(c), s, t)
  <2> DEFINE T(k, j) == Turn(2, k, Len(c) + j, s[j], Sn(Ctns[k]))
  <2>1. t \in {T(k, j) : k \in HasSnap, j \in DOMAIN s}
          <=> \E k \in HasSnap, j \in DOMAIN s : t = T(k, j)
    <3> HIDE DEF T
    <3> QED  OBVIOUS
  <2> QED  BY <2>1 DEF AtSnap
<1>4. t \in LL <=> AtLate(l, t)  BY DEF AtLate
<1>5. t \in II <=> AtImg(i, t)  BY DEF AtImg
<1> HIDE DEF CC, SS, LL, II
<1> QED  BY <1>1, <1>2, <1>3, <1>4, <1>5 DEF AnyTask, Globally

LEMMA TasksAreThose ==
  ASSUME have # {}, as \in Backends, NEW t
  PROVE  t \in Tasks <=>
           AnyTask(Turns[as].ctn, Len(Turns[as].ctn), Turns[as].snap, Turns[as].late, Turns[as].img, t)
<1>1. Turns[as] = [ctn |-> Turns[as].ctn, snap |-> Turns[as].snap, late |-> Turns[as].late, img |-> Turns[as].img]
  <2>1. CASE as = "dir"  BY <2>1, TurnsOfBackends DEF upgradeFromStorageTypeDir
  <2>2. CASE as = "btrfs"  BY <2>2, TurnsOfBackends DEF upgradeFromStorageTypeBtrfs
  <2>3. CASE as = "lvm"  BY <2>3, TurnsOfBackends DEF upgradeFromStorageTypeLvm
  <2>4. CASE as = "zfs"  BY <2>4, TurnsOfBackends DEF upgradeFromStorageTypeZfs
  <2> QED  BY <2>1, <2>2, <2>3, <2>4 DEF Backends
<1> QED  BY <1>1, TasksAre, TaskForms

\* The tasks of a run are those of four lists, the first of length m.
Listed(c, m, s, l, i) ==
  /\ \A t : t \in Tasks <=> AnyTask(c, m, s, l, i, t)
  /\ m \in Nat /\ DOMAIN c = 1..m
  /\ DOMAIN s \subseteq Nat \ {0} /\ DOMAIN l \subseteq Nat \ {0} /\ DOMAIN i \subseteq Nat \ {0}
  /\ DOMAIN Ctns \subseteq Nat /\ DOMAIN Imgs \subseteq Nat /\ HasSnap \subseteq DOMAIN Ctns

LEMMA Lists ==
  ASSUME have # {}, as \in Backends
  PROVE  \E c, m, s, l, i : Listed(c, m, s, l, i)
<1>1. DOMAIN Ctns = 1..Len(Ctns) /\ DOMAIN Imgs = 1..Len(Imgs) /\ Len(Ctns) \in Nat /\ Len(Imgs) \in Nat
  BY UpgradeAssumption
<1>2. \A q \in Seq(Names) : DOMAIN q = 1..Len(q) /\ Len(q) \in Nat  OBVIOUS
<1>3. \A q \in Seq(Names) : DOMAIN q \subseteq Nat \ {0}  BY <1>2
<1>4. DOMAIN Ctns \subseteq Nat /\ DOMAIN Imgs \subseteq Nat /\ HasSnap \subseteq DOMAIN Ctns
  BY <1>1 DEF HasSnap
<1>5. \A t : t \in Tasks <=>
        AnyTask(Turns[as].ctn, Len(Turns[as].ctn), Turns[as].snap, Turns[as].late, Turns[as].img, t)
  BY TasksAreThose
<1>6. Listed(Turns[as].ctn, Len(Turns[as].ctn), Turns[as].snap, Turns[as].late, Turns[as].img)
  BY <1>2, <1>3, <1>4, <1>5, TurnLists, Zenon DEF Listed
<1> QED  BY <1>6

\* The places of a run's tasks: its pool comes first, and no two have the same.
LEMMA PlacesOfTasks ==
  ASSUME have # {}, as \in Backends, NEW t \in Tasks
  PROVE  /\ t.pass \in 1..7 /\ t.nth \in Nat /\ t.turn \in Nat
         /\ t # Pool => Precedes(Pool, t)
<1>0. PICK c, m, s, l, i : Listed(c, m, s, l, i)  BY Lists
<1>1. /\ m \in Nat /\ DOMAIN c = 1..m
      /\ DOMAIN s \subseteq Nat \ {0} /\ DOMAIN l \subseteq Nat \ {0} /\ DOMAIN i \subseteq Nat \ {0}
      /\ DOMAIN Ctns \subseteq Nat /\ DOMAIN Imgs \subseteq Nat /\ HasSnap \subseteq DOMAIN Ctns
  BY <1>0 DEF Listed
<1>2. AnyTask(c, m, s, l, i, t)  BY <1>0 DEF Listed
<1>3. CASE Globally(t)  BY <1>3 DEF Globally, Pool, Profiles, Unset, Once, Turn, Precedes
<1>4. CASE ~Globally(t)
  <2>1. t.pass \in 2..4 /\ t.nth \in Nat /\ t.turn \in Nat
    <3>1. CASE AtCtn(c, t)
      <4>1. PICK k \in DOMAIN Ctns, j \in DOMAIN c : t = Turn(2, k, j, c[j], Ct(Ctns[k]))  BY <3>1 DEF AtCtn
      <4> QED  BY <1>1, <4>1 DEF Turn
    <3>2. CASE AtSnap(m, s, t)
      <4>1. PICK k \in HasSnap, j \in DOMAIN s : t = Turn(2, k, m + j, s[j], Sn(Ctns[k]))
        BY <3>2 DEF AtSnap
      <4>2. k \in Nat /\ m + j \in Nat  BY <1>1
      <4> QED  BY <4>1, <4>2 DEF Turn
    <3>3. CASE AtLate(l, t)
      <4>1. PICK k \in HasSnap, j \in DOMAIN l : t = Turn(3, k, j, l[j], Sn(Ctns[k]))  BY <3>3 DEF AtLate
      <4>2. k \in Nat /\ j \in Nat  BY <1>1
      <4> QED  BY <4>1, <4>2 DEF Turn
    <3>4. CASE AtImg(i, t)
      <4>1. PICK k \in DOMAIN Imgs, j \in DOMAIN i : t = Turn(4, k, j, i[j], Im(Imgs[k]))  BY <3>4 DEF AtImg
      <4>2. k \in Nat /\ j \in Nat  BY <1>1
      <4> QED  BY <4>1, <4>2 DEF Turn
    <3> QED  BY <1>2, <1>4, <3>1, <3>2, <3>3, <3>4 DEF AnyTask
  <2> QED  BY <2>1 DEF Precedes, Pool, Once, Turn
<1> QED  BY <1>3, <1>4

LEMMA OneTask ==
  ASSUME have # {}, as \in Backends, NEW t \in Tasks, NEW u \in Tasks,
         t.pass = u.pass, t.nth = u.nth, t.turn = u.turn
  PROVE  t = u
<1>0. PICK c, m, s, l, i : Listed(c, m, s, l, i)  BY Lists
<1>1. /\ m \in Nat /\ DOMAIN c = 1..m
      /\ DOMAIN s \subseteq Nat \ {0} /\ DOMAIN l \subseteq Nat \ {0} /\ DOMAIN i \subseteq Nat \ {0}
      /\ DOMAIN Ctns \subseteq Nat /\ DOMAIN Imgs \subseteq Nat /\ HasSnap \subseteq DOMAIN Ctns
  BY <1>0 DEF Listed
<1>2. AnyTask(c, m, s, l, i, t) /\ AnyTask(c, m, s, l, i, u)  BY <1>0 DEF Listed
<1>3. \A v : AnyTask(c, m, s, l, i, v) =>
        /\ Globally(v) <=> v.pass \notin 2..4
        /\ AtCtn(c, v) <=> v.pass = 2 /\ v.turn <= m
        /\ AtSnap(m, s, v) <=> v.pass = 2 /\ v.turn > m
        /\ AtLate(l, v) <=> v.pass = 3
        /\ AtImg(i, v) <=> v.pass = 4
  <2> TAKE v
  <2> HAVE AnyTask(c, m, s, l, i, v)
  <2>1. Globally(v) => v.pass \in {1, 5, 6, 7}  BY DEF Globally, Pool, Profiles, Unset, Once, Turn
  <2>2. AtCtn(c, v) => v.pass = 2 /\ v.turn \in Nat /\ v.turn <= m
    <3>1. ASSUME NEW k \in DOMAIN Ctns, NEW j \in DOMAIN c, v = Turn(2, k, j, c[j], Ct(Ctns[k]))
          PROVE  v.pass = 2 /\ v.turn = j
      BY <3>1 DEF Turn
    <3>2. \A j \in DOMAIN c : j \in Nat /\ j <= m  BY <1>1
    <3> QED  BY <3>1, <3>2 DEF AtCtn
  <2>3. AtSnap(m, s, v) => v.pass = 2 /\ v.turn \in Nat /\ v.turn > m
    <3>1. ASSUME NEW k \in HasSnap, NEW j \in DOMAIN s, v = Turn(2, k, m + j, s[j], Sn(Ctns[k]))
          PROVE  v.pass = 2 /\ v.turn = m + j
      BY <3>1 DEF Turn
    <3>2. \A j \in DOMAIN s : m + j \in Nat /\ m + j > m  BY <1>1
    <3> QED  BY <3>1, <3>2 DEF AtSnap
  <2>4. AtLate(l, v) => v.pass = 3  BY DEF AtLate, Turn
  <2>5. AtImg(i, v) => v.pass = 4  BY DEF AtImg, Turn
  <2>6. v.turn \in Nat => ~(v.turn <= m /\ v.turn > m)  BY <1>1
  <2>7. Globally(v) \/ AtCtn(c, v) \/ AtSnap(m, s, v) \/ AtLate(l, v) \/ AtImg(i, v)  BY DEF AnyTask
  <2>8. CASE v.pass = 2  BY <2>1, <2>2, <2>3, <2>4, <2>5, <2>6, <2>7, <2>8
  <2>9. CASE v.pass # 2  BY <2>1, <2>2, <2>3, <2>4, <2>5, <2>7, <2>9
  <2> QED  BY <2>8, <2>9
<1>4. CASE Globally(t)
  <2>1. Globally(u)  BY <1>2, <1>3, <1>4
  <2> QED  BY <1>4, <2>1 DEF Globally, Pool, Profiles, Unset, Once, Turn
<1>5. CASE AtCtn(c, t)
  <2>1. AtCtn(c, u)  BY <1>2, <1>3, <1>5
  <2> QED  BY <1>5, <2>1 DEF AtCtn, Turn
<1>6. CASE AtSnap(m, s, t)
  <2>1. AtSnap(m, s, u)  BY <1>2, <1>3, <1>6
  <2>2. PICK k \in HasSnap, j \in DOMAIN s : t = Turn(2, k, m + j, s[j], Sn(Ctns[k]))
    BY <1>6 DEF AtSnap
  <2>3. PICK k2 \in HasSnap, j2 \in DOMAIN s : u = Turn(2, k2, m + j2, s[j2], Sn(Ctns[k2]))
    BY <2>1 DEF AtSnap
  <2>4. k = k2 /\ m + j = m + j2  BY <2>2, <2>3 DEF Turn
  <2>5. j = j2  BY <1>1, <2>4
  <2> QED  BY <2>2, <2>3, <2>4, <2>5
<1>7. CASE AtLate(l, t)
  <2>1. AtLate(l, u)  BY <1>2, <1>3, <1>7
  <2> QED  BY <1>7, <2>1 DEF AtLate, Turn
<1>8. CASE AtImg(i, t)
  <2>1. AtImg(i, u)  BY <1>2, <1>3, <1>8
  <2> QED  BY <1>8, <2>1 DEF AtImg, Turn
<1> QED  BY <1>2, <1>4, <1>5, <1>6, <1>7, <1>8 DEF AnyTask

\* What the tasks are about.
LEMMA TaskObjects ==
  ASSUME have # {}, as \in Backends, NEW t \in Tasks
  PROVE  \/ t.task \in {"pool", "profiles", "unset", "setup"} /\ t.of = <<"none", "none">>
         \/ t.task \in Names /\ t.of \in Objects
<1> DEFINE r == Turns[as]
<1>1. AnyTask(r.ctn, Len(r.ctn), r.snap, r.late, r.img, t)  BY TasksAreThose
<1>2. \A q \in Seq(Names) : \A j \in DOMAIN q : q[j] \in Names  OBVIOUS
<1>3. /\ \A j \in DOMAIN r.ctn : r.ctn[j] \in Names
      /\ \A j \in DOMAIN r.snap : r.snap[j] \in Names
      /\ \A j \in DOMAIN r.late : r.late[j] \in Names
      /\ \A j \in DOMAIN r.img : r.img[j] \in Names
  BY <1>2, TurnLists
<1>4. /\ \A k \in DOMAIN Ctns : Ct(Ctns[k]) \in Objects
      /\ \A k \in HasSnap : Sn(Ctns[k]) \in Objects
      /\ \A k \in DOMAIN Imgs : Im(Imgs[k]) \in Objects
  BY DEF Objects, CtSet, SnSet, HasSnap, Range
<1> HIDE DEF r
<1>5. CASE Globally(t)  BY <1>5 DEF Globally, Pool, Profiles, Unset, Once, Turn
<1>6. CASE AtCtn(r.ctn, t)  BY <1>3, <1>4, <1>6 DEF AtCtn, Turn
<1>7. CASE AtSnap(Len(r.ctn), r.snap, t)  BY <1>3, <1>4, <1>7 DEF AtSnap, Turn
<1>8. CASE AtLate(r.late, t)  BY <1>3, <1>4, <1>8 DEF AtLate, Turn
<1>9. CASE AtImg(r.img, t)  BY <1>3, <1>4, <1>9 DEF AtImg, Turn
<1> QED  BY <1>1, <1>5, <1>6, <1>7, <1>8, <1>9 DEF AnyTask

LEMMA Kinds ==
  ASSUME NEW c, NEW m, NEW s, NEW l, NEW i, NEW t
  PROVE  /\ AtCtn(c, t) => t.of[1] = "container"
         /\ AtSnap(m, s, t) => t.of[1] = "snapshot"
         /\ AtLate(l, t) => t.of[1] = "snapshot"
         /\ AtImg(i, t) => t.of[1] = "image"
<1>1. AtCtn(c, t) => t.of[1] = "container"  BY DEF AtCtn, Turn, Ct
<1>2. AtSnap(m, s, t) => t.of[1] = "snapshot"
  <2>1. ASSUME NEW k \in HasSnap, NEW j \in DOMAIN s, t = Turn(2, k, m + j, s[j], Sn(Ctns[k]))
        PROVE  t.of[1] = "snapshot"
    BY <2>1 DEF Turn, Sn
  <2> QED  BY <2>1 DEF AtSnap
<1>3. AtLate(l, t) => t.of[1] = "snapshot"  BY DEF AtLate, Turn, Sn
<1>4. AtImg(i, t) => t.of[1] = "image"  BY DEF AtImg, Turn, Im
<1> QED  BY <1>1, <1>2, <1>3, <1>4

LEMMA ContainerLists ==
  ASSUME as \in Backends
  PROVE  Turns[as].ctn = IF as = "zfs" THEN <<"row", "clear", "link", "move">> ELSE <<"row", "move", "link">>
<1>1. CASE as = "dir"  BY <1>1, TurnsOfBackends DEF upgradeFromStorageTypeDir
<1>2. CASE as = "btrfs"  BY <1>2, TurnsOfBackends DEF upgradeFromStorageTypeBtrfs
<1>3. CASE as = "lvm"  BY <1>3, TurnsOfBackends DEF upgradeFromStorageTypeLvm
<1>4. CASE as = "zfs"  BY <1>4, TurnsOfBackends DEF upgradeFromStorageTypeZfs
<1> QED  BY <1>1, <1>2, <1>3, <1>4 DEF Backends

\* The tasks of a container are in the order of their list.
LEMMA OfContainer ==
  ASSUME have # {}, as \in Backends, NEW t \in Tasks, t.of[1] = "container"
  PROVE  \E k \in DOMAIN Ctns, j \in DOMAIN Turns[as].ctn :
           t = Turn(2, k, j, Turns[as].ctn[j], Ct(Ctns[k]))
<1>1. AnyTask(Turns[as].ctn, Len(Turns[as].ctn), Turns[as].snap, Turns[as].late, Turns[as].img, t)
  BY TasksAreThose
<1>2. ~Globally(t)  BY DEF Globally, Pool, Profiles, Unset, Once, Turn
<1>3. ~AtSnap(Len(Turns[as].ctn), Turns[as].snap, t) /\ ~AtLate(Turns[as].late, t) /\ ~AtImg(Turns[as].img, t)
  BY Kinds
<1>4. AtCtn(Turns[as].ctn, t)  BY <1>1, <1>2, <1>3 DEF AnyTask
<1> QED  BY <1>4, Zenon DEF AtCtn

LEMMA ContainerOrder ==
  ASSUME have # {}, as \in Backends, NEW t \in Tasks, NEW u \in Tasks,
         t.of[1] = "container", t.of = u.of, u.task = "link",
         t.task = "clear" \/ (t.task = "move" /\ as # "zfs")
  PROVE  Precedes(t, u)
<1>1. PICK k \in DOMAIN Ctns, j \in DOMAIN Turns[as].ctn : t = Turn(2, k, j, Turns[as].ctn[j], Ct(Ctns[k]))
  BY OfContainer
<1>2. PICK l \in DOMAIN Ctns, i \in DOMAIN Turns[as].ctn : u = Turn(2, l, i, Turns[as].ctn[i], Ct(Ctns[l]))
  BY OfContainer
<1>3. k = l
  <2>1. Ctns[k] = Ctns[l]  BY <1>1, <1>2 DEF Turn, Ct
  <2> QED  BY <2>1, UpgradeAssumption DEF IsInjective
<1>4. Turns[as].ctn[j] = t.task /\ Turns[as].ctn[i] = "link"  BY <1>1, <1>2 DEF Turn
<1>5. j < i
  <2>1. CASE as = "zfs"
    <3>1. Turns[as].ctn = <<"row", "clear", "link", "move">>  BY <2>1, ContainerLists
    <3> QED  BY <1>4, <2>1, <3>1
  <2>2. CASE as # "zfs"
    <3>1. Turns[as].ctn = <<"row", "move", "link">>  BY <2>2, ContainerLists
    <3> DEFINE q == <<"row", "move", "link">>
    <3>2. q[1] = "row" /\ q[2] = "move" /\ q[3] = "link" /\ DOMAIN q = 1..3  OBVIOUS
    <3>3. q = Turns[as].ctn  BY <3>1
    <3> HIDE DEF q
    <3>4. i \in DOMAIN q /\ j \in DOMAIN q /\ q[i] = "link" /\ q[j] \in {"clear", "move"}  BY <1>4, <3>3
    <3>5. i = 3  BY <3>2, <3>4
    <3>6. j = 2  BY <3>2, <3>4
    <3> QED  BY <3>5, <3>6
  <2> QED  BY <2>1, <2>2
<1> QED  BY <1>1, <1>2, <1>3, <1>5 DEF Precedes, Turn

\* LVM clears or checks only what it has moved, and clears only snapshots; the
\* others but ZFS have no such task.
LEMMA MovedBefore ==
  ASSUME have # {}, as \in Backends, as # "zfs", NEW t \in Tasks, t.task \in {"clear", "check"}
  PROVE  /\ as = "lvm"
         /\ t.task = "clear" => t.of[1] = "snapshot"
         /\ \E u \in Tasks : u.task = "move" /\ u.of = t.of /\ Precedes(u, t)
<1> DEFINE r == Turns[as]
<1>1. AnyTask(r.ctn, Len(r.ctn), r.snap, r.late, r.img, t)  BY TasksAreThose
<1>2. ~Globally(t)  BY DEF Globally, Pool, Profiles, Unset, Once, Turn
<1>3. as = "lvm"
  <2>1. CASE as = "dir"
    <3>1. r.ctn = <<"row", "move", "link">> /\ r.snap = <<"move", "link">> /\ r.late = <<"row">> /\ r.img = <<"row">>
      BY <2>1, TurnsOfBackends DEF upgradeFromStorageTypeDir
    <3> QED  BY <1>1, <1>2, <3>1 DEF AnyTask, AtCtn, AtSnap, AtLate, AtImg, Turn
  <2>2. CASE as = "btrfs"
    <3>1. r.ctn = <<"row", "move", "link">> /\ r.snap = <<"row", "move", "link">> /\ r.late = <<>> /\ r.img = <<"row", "move">>
      BY <2>2, TurnsOfBackends DEF upgradeFromStorageTypeBtrfs
    <3> QED  BY <1>1, <1>2, <3>1 DEF AnyTask, AtCtn, AtSnap, AtLate, AtImg, Turn
  <2> QED  BY <2>1, <2>2 DEF Backends
<1>4. r.ctn = <<"row", "move", "link">> /\ r.snap = <<"row", "move", "clear", "link">> /\ r.late = <<>>
        /\ r.img = <<"row", "move", "check">>
  BY <1>3, TurnsOfBackends DEF upgradeFromStorageTypeLvm
<1>5. AtSnap(3, r.snap, t) \/ AtImg(r.img, t)
  BY <1>1, <1>2, <1>4 DEF AnyTask, AtCtn, AtLate, Turn
<1>6. CASE AtSnap(3, r.snap, t)
  <2>1. PICK k \in HasSnap, j \in DOMAIN r.snap : t = Turn(2, k, 3 + j, r.snap[j], Sn(Ctns[k]))  BY <1>6 DEF AtSnap
  <2>2. j = 3  BY <1>4, <2>1 DEF Turn
  <2> DEFINE u == Turn(2, k, 3 + 2, r.snap[2], Sn(Ctns[k]))
  <2>3. AtSnap(3, r.snap, u) /\ r.snap[2] = "move"  BY <1>4 DEF AtSnap
  <2>4. u \in Tasks  BY <1>4, <2>3, TasksAreThose DEF AnyTask
  <2>5. u.task = "move" /\ u.of = t.of /\ Precedes(u, t)  BY <2>1, <2>2, <2>3 DEF Turn, Precedes
  <2> QED  BY <1>3, <2>1, <2>4, <2>5 DEF Turn, Sn
<1>7. CASE AtImg(r.img, t)
  <2>1. PICK k \in DOMAIN Imgs, j \in DOMAIN r.img : t = Turn(4, k, j, r.img[j], Im(Imgs[k]))  BY <1>7 DEF AtImg
  <2>2. j = 3  BY <1>4, <2>1 DEF Turn
  <2> DEFINE u == Turn(4, k, 2, r.img[2], Im(Imgs[k]))
  <2>3. AtImg(r.img, u) /\ r.img[2] = "move"  BY <1>4 DEF AtImg
  <2>4. u \in Tasks  BY <2>3, TasksAreThose DEF AnyTask
  <2>5. u.task = "move" /\ u.of = t.of /\ Precedes(u, t)  BY <2>1, <2>2, <2>3 DEF Turn, Precedes
  <2>6. t.task = "check"  BY <1>4, <2>1, <2>2 DEF Turn
  <2> QED  BY <1>3, <2>4, <2>5, <2>6
<1> QED  BY <1>5, <1>6, <1>7

\* A run leaves out nothing.
LEMMA AllTasks ==
  ASSUME have # {}, as \in Backends, NEW x \in Objects
  PROVE  /\ \E t \in Tasks : t.task = "row" /\ t.of = x
         /\ as # "dir" \/ x[1] # "image" => \E t \in Tasks : t.task = "move" /\ t.of = x
         /\ x[1] = "container" => \E t \in Tasks : t.task = "link" /\ t.of = x
         /\ as = "zfs" => \E t \in Tasks : t.task = "clear" /\ t.of = x
<1> DEFINE r == Turns[as]
<1>1. \A t : t \in Tasks <=> AnyTask(r.ctn, Len(r.ctn), r.snap, r.late, r.img, t)  BY TasksAreThose
<1>2. r.ctn = <<"row", "move", "link">> \/ r.ctn = <<"row", "clear", "link", "move">>
  BY ContainerLists
<1>3. as = "zfs" => r.ctn[2] = "clear" /\ 2 \in DOMAIN r.ctn  BY TurnsOfBackends DEF upgradeFromStorageTypeZfs
<1>4. CASE x \in CtSet
  <2>1. PICK k \in DOMAIN Ctns : x = Ct(Ctns[k])  BY <1>4 DEF CtSet, Range
  <2>2. \A j \in DOMAIN r.ctn : AtCtn(r.ctn, Turn(2, k, j, r.ctn[j], x))  BY <2>1 DEF AtCtn
  <2>3 ASSUME NEW j \in DOMAIN r.ctn
        PROVE  \E t \in Tasks : t.task = r.ctn[j] /\ t.of = x
    <3> DEFINE u == Turn(2, k, j, r.ctn[j], x)
    <3>1. u \in Tasks  BY <1>1, <2>2, Zenon DEF AnyTask
    <3>2. u.task = r.ctn[j] /\ u.of = x  BY DEF Turn
    <3> QED  BY <3>1, <3>2
  <2> HIDE DEF r
  <2>4. /\ \E j \in DOMAIN r.ctn : r.ctn[j] = "row"
        /\ \E j \in DOMAIN r.ctn : r.ctn[j] = "move"
        /\ \E j \in DOMAIN r.ctn : r.ctn[j] = "link"
    BY <1>2
  <2> QED  BY <1>3, <2>3, <2>4
<1>5. CASE x \in SnSet
  <2>1. PICK k \in HasSnap : x = Sn(Ctns[k])  BY <1>5, UpgradeAssumption DEF SnSet, HasSnap, Range
  <2>2. x[1] = "snapshot"  BY <2>1 DEF Sn
  <2>3. \A j \in DOMAIN r.snap : AtSnap(Len(r.ctn), r.snap, Turn(2, k, Len(r.ctn) + j, r.snap[j], x))
    BY <2>1 DEF AtSnap
  <2>4 ASSUME NEW j \in DOMAIN r.snap
        PROVE  \E t \in Tasks : t.task = r.snap[j] /\ t.of = x
    <3> DEFINE u == Turn(2, k, Len(r.ctn) + j, r.snap[j], x)
    <3>1. u \in Tasks  BY <1>1, <2>3, Zenon DEF AnyTask
    <3>2. u.task = r.snap[j] /\ u.of = x  BY DEF Turn
    <3> QED  BY <3>1, <3>2
  <2>5. \A j \in DOMAIN r.late : AtLate(r.late, Turn(3, k, j, r.late[j], x))  BY <2>1 DEF AtLate
  <2>6 ASSUME NEW j \in DOMAIN r.late
        PROVE  \E t \in Tasks : t.task = r.late[j] /\ t.of = x
    <3> DEFINE u == Turn(3, k, j, r.late[j], x)
    <3>1. u \in Tasks  BY <1>1, <2>5, Zenon DEF AnyTask
    <3>2. u.task = r.late[j] /\ u.of = x  BY DEF Turn
    <3> QED  BY <3>1, <3>2
  <2>7. CASE as = "dir"
    <3>1. r.snap = <<"move", "link">> /\ r.late = <<"row">>  BY <2>7, TurnsOfBackends DEF upgradeFromStorageTypeDir
    <3> QED  BY <2>2, <2>4, <2>6, <2>7, <3>1
  <2>8. CASE as = "btrfs"
    <3>1. r.snap = <<"row", "move", "link">>  BY <2>8, TurnsOfBackends DEF upgradeFromStorageTypeBtrfs
    <3> QED  BY <2>2, <2>4, <2>8, <3>1
  <2>9. CASE as = "lvm"
    <3>1. r.snap = <<"row", "move", "clear", "link">>  BY <2>9, TurnsOfBackends DEF upgradeFromStorageTypeLvm
    <3> QED  BY <2>2, <2>4, <2>9, <3>1
  <2>10. CASE as = "zfs"
    <3>1. r.snap = <<"row", "move", "clear">>  BY <2>10, TurnsOfBackends DEF upgradeFromStorageTypeZfs
    <3> QED  BY <2>2, <2>4, <2>10, <3>1
  <2> QED  BY <2>7, <2>8, <2>9, <2>10 DEF Backends
<1>6. CASE x \in {Im(n) : n \in Range(Imgs)}
  <2>1. PICK k \in DOMAIN Imgs : x = Im(Imgs[k])  BY <1>6 DEF Range
  <2>2. x[1] = "image"  BY <2>1 DEF Im
  <2>3. \A j \in DOMAIN r.img : AtImg(r.img, Turn(4, k, j, r.img[j], x))  BY <2>1 DEF AtImg
  <2>4 ASSUME NEW j \in DOMAIN r.img
        PROVE  \E t \in Tasks : t.task = r.img[j] /\ t.of = x
    <3> DEFINE u == Turn(4, k, j, r.img[j], x)
    <3>1. u \in Tasks  BY <1>1, <2>3, Zenon DEF AnyTask
    <3>2. u.task = r.img[j] /\ u.of = x  BY DEF Turn
    <3> QED  BY <3>1, <3>2
  <2>5. CASE as = "dir"
    <3>1. r.img = <<"row">>  BY <2>5, TurnsOfBackends DEF upgradeFromStorageTypeDir
    <3> QED  BY <2>2, <2>4, <2>5, <3>1
  <2>6. CASE as = "btrfs"
    <3>1. r.img = <<"row", "move">>  BY <2>6, TurnsOfBackends DEF upgradeFromStorageTypeBtrfs
    <3> QED  BY <2>2, <2>4, <2>6, <3>1
  <2>7. CASE as = "lvm"
    <3>1. r.img = <<"row", "move", "check">>  BY <2>7, TurnsOfBackends DEF upgradeFromStorageTypeLvm
    <3> QED  BY <2>2, <2>4, <2>7, <3>1
  <2>8. CASE as = "zfs"
    <3>1. r.img = <<"row", "clear", "move">>  BY <2>8, TurnsOfBackends DEF upgradeFromStorageTypeZfs
    <3> QED  BY <2>2, <2>4, <2>8, <3>1
  <2> QED  BY <2>5, <2>6, <2>7, <2>8 DEF Backends
<1> QED  BY <1>4, <1>5, <1>6 DEF Objects

\* Only LVM checks images.
LEMMA ChecksOnLvm ==
  ASSUME have # {}, as \in Backends, NEW t \in Tasks, t.task = "check"
  PROVE  as = "lvm"
<1> SUFFICES ASSUME as = "zfs" PROVE FALSE  BY MovedBefore
<1> DEFINE r == Turns[as]
<1>1. AnyTask(r.ctn, Len(r.ctn), r.snap, r.late, r.img, t)  BY TasksAreThose
<1>2. ~Globally(t)  BY DEF Globally, Pool, Profiles, Unset, Once, Turn
<1>3. r.ctn = <<"row", "clear", "link", "move">> /\ r.snap = <<"row", "move", "clear">> /\ r.late = <<>>
        /\ r.img = <<"row", "clear", "move">>
  BY TurnsOfBackends DEF upgradeFromStorageTypeZfs
<1> QED  BY <1>1, <1>2, <1>3 DEF AnyTask, AtCtn, AtSnap, AtLate, AtImg, Turn

-----------------------------------------------------------------------------
(* How a run goes on. *)

LEMMA Places0 ==
  ASSUME as \in Backends, NEW t \in Tasks
  PROVE  /\ have # {} /\ t.pass \in 1..7 /\ t.nth \in Nat /\ t.turn \in Nat
         /\ Idle.pass = 0 /\ Idle.nth = 0 /\ Idle.turn = 0
         /\ End.pass = 8 /\ End.nth = 0 /\ End.turn = 0
<1>1. have # {}  BY DEF Tasks
<1> QED  BY <1>1, PlacesOfTasks DEF Idle, End, Once, Turn

LEMMA NotYet ==
  ASSUME as \in Backends, at \in {Idle, Pool}, NEW n, NEW x
  PROVE  ~DoneFor(n, x)
<1> SUFFICES ASSUME NEW t \in Tasks, Precedes(t, at) PROVE FALSE  BY DEF DoneFor
<1>1. CASE at = Idle  BY <1>1, Places0 DEF Precedes
<1>2. CASE at = Pool
  <2>1. Pool.pass = 1 /\ Pool.nth = 0 /\ Pool.turn = 0  BY DEF Pool, Once, Turn
  <2>2. Precedes(Pool, t) \/ t = Pool  BY Places0, PlacesOfTasks
  <2> QED  BY <1>2, <2>1, <2>2, Places0 DEF Precedes
<1> QED  BY <1>1, <1>2

\* What has been done after a step is what was done, the task at hand, and
\* what the step passes over.
LEMMA GoesOnFrom ==
  ASSUME as \in Backends, at \in Tasks, NEW S, S \subseteq Left, GoOn(S), UNCHANGED <<have, as>>
  PROVE  /\ Tasks' = Tasks /\ at' \in (Tasks \cup {End}) \ {Idle, Pool} /\ doing' = "task"
         /\ \A t \in Tasks : Precedes(t, at') => Precedes(t, at) \/ t = at \/ t \in Left \ S
<1>1. Tasks' = Tasks  BY DEF Tasks
<1>2. at' \in S /\ (\A u \in S : ~Precedes(u, at')) /\ doing' = "task"  BY DEF GoOn
<1>3. at' \in Tasks \cup {End} /\ Precedes(at, at')  BY <1>2 DEF Left
<1>4. at.pass \in 1..7 /\ at.nth \in Nat /\ at.turn \in Nat  BY Places0
<1>5. at' # Idle  BY <1>3, <1>4, Places0 DEF Precedes
<1>6. at' # Pool
  <2>1. Pool.pass = 1 /\ Pool.nth = 0 /\ Pool.turn = 0  BY DEF Pool, Once, Turn
  <2>2. Precedes(Pool, at) \/ at = Pool  BY Places0, PlacesOfTasks
  <2> QED  BY <1>3, <1>4, <2>1, <2>2 DEF Precedes
<1>7. ASSUME NEW t \in Tasks, Precedes(t, at'), ~Precedes(t, at), t # at
      PROVE  t \in Left \ S
  <2>1. t.pass \in 1..7 /\ t.nth \in Nat /\ t.turn \in Nat  BY Places0
  <2>2. ~(t.pass = at.pass /\ t.nth = at.nth /\ t.turn = at.turn)  BY <1>7, OneTask, Places0
  <2>3. Precedes(at, t)  BY <1>4, <1>7, <2>1, <2>2 DEF Precedes
  <2> QED  BY <1>2, <1>7, <2>3 DEF Left
<1> QED  BY <1>1, <1>2, <1>3, <1>5, <1>6, <1>7

LEMMA DoneNext ==
  ASSUME as \in Backends, at \in Tasks, TaskDone, UNCHANGED <<have, as>>, NEW n, NEW x, DoneFor(n, x)'
  PROVE  DoneFor(n, x) \/ (Task = n /\ Obj = x)
<1>1. PICK t \in Tasks' : t.task = n /\ t.of = x /\ Precedes(t, at')  BY DEF DoneFor
<1>2. t \in Tasks /\ (Precedes(t, at) \/ t = at)  BY <1>1, GoesOnFrom DEF TaskDone
<1> QED  BY <1>1, <1>2 DEF DoneFor, Task, Obj

LEMMA LinkNotYet ==
  ASSUME as \in Backends, at \in Tasks, Obj[1] = "container", Task = "clear" \/ (Task = "move" /\ as # "zfs")
  PROVE  ~DoneFor("link", Obj)
<1> SUFFICES ASSUME NEW u \in Tasks, u.task = "link", u.of = Obj, Precedes(u, at) PROVE FALSE  BY DEF DoneFor
<1>1. Precedes(at, u)  BY ContainerOrder, Places0 DEF Task, Obj
<1>2. at.pass \in Nat /\ at.nth \in Nat /\ at.turn \in Nat /\ u.pass \in Nat /\ u.nth \in Nat /\ u.turn \in Nat
  BY Places0
<1> QED  BY <1>1, <1>2 DEF Precedes

LEMMA DoneBeforeLink ==
  ASSUME as \in Backends, at \in Tasks, Task = "link", Obj \in Objects, Obj[1] = "container"
  PROVE  /\ as = "zfs" => DoneFor("clear", Obj)
         /\ as # "zfs" => DoneFor("move", Obj)
<1>1. have # {}  BY Places0
<1>2. as = "zfs" => \E t \in Tasks : t.task = "clear" /\ t.of = Obj  BY <1>1, AllTasks
<1>3. \E t \in Tasks : t.task = "move" /\ t.of = Obj  BY <1>1, AllTasks
<1>4. \A t \in Tasks : t.of = Obj /\ (t.task = "clear" \/ (t.task = "move" /\ as # "zfs")) => Precedes(t, at)
  BY <1>1, ContainerOrder DEF Task, Obj
<1> QED  BY <1>2, <1>3, <1>4 DEF DoneFor

LEMMA DoneBeforeClear ==
  ASSUME as \in Backends, as # "zfs", at \in Tasks, Task \in {"clear", "check"}
  PROVE  as = "lvm" /\ (Task = "clear" => Obj[1] = "snapshot") /\ DoneFor("move", Obj)
BY MovedBefore, Places0 DEF DoneFor, Task, Obj

\* At a task for an object the run has its pool and the right backend.
LEMMA AtObject ==
  ASSUME RightBackend, NEW n \in Names, Task = n, at \in Tasks
  PROVE  /\ as \in Backends /\ as = type /\ poolRow = PoolName(type) /\ Running
         /\ have = Objects /\ Obj \in Objects /\ at \notin {Pool, Profiles, Unset}
<1>1. as \in Backends /\ have # {} /\ have = Objects  BY Places0 DEF RightBackend
<1>2. at \notin {Pool, Profiles, Unset, Idle}
  BY DEF Names, Task, Pool, Profiles, Unset, Idle, Once, Turn
<1>3. Obj \in Objects  BY <1>1, TaskObjects DEF Task, Obj, Names
<1> QED  BY <1>1, <1>2, <1>3 DEF RightBackend, Running

LEMMA BackendGoesOn ==
  ASSUME RightBackend, at \in Tasks, NEW S, S \subseteq Left, GoOn(S), UNCHANGED <<type, have, as, failed>>,
         \A t \in Left \ S : t \notin {Profiles, Unset},
         as = type, poolRow' = PoolName(type), keys' = keys \/ ~keys', at = Unset => ~keys',
         at = Profiles => failed = {}
  PROVE  RightBackend'
<1>1. as \in Backends /\ have # {}  BY Places0 DEF RightBackend
<1>2. /\ Tasks' = Tasks /\ at' \in (Tasks \cup {End}) \ {Idle, Pool}
      /\ \A t \in Tasks : Precedes(t, at') => Precedes(t, at) \/ t = at \/ t \in Left \ S
  BY <1>1, GoesOnFrom
<1>3. Profiles \in Tasks /\ Unset \in Tasks
  BY <1>1, TasksAreThose DEF AnyTask, Globally
<1>4. Precedes(Unset, at') => ~keys'  BY <1>1, <1>2, <1>3 DEF RightBackend
<1>5. failed' # {} => as = "zfs" /\ ~Precedes(Profiles, at')
  <2>1. Running  BY Places0, <1>1 DEF Running
  <2> QED  BY <1>2, <1>3, <2>1 DEF RightBackend
<1>6. type' \in {"lvm", "zfs"} /\ ~keys' => poolRow' = "named"  BY DEF PoolName
<1> QED  BY <1>1, <1>2, <1>4, <1>5, <1>6 DEF RightBackend, PoolName

-----------------------------------------------------------------------------
(* Every step of the upgrade keeps UpgradeInv. *)

\* The rows of the volumes and the rest that a step leaves alone.
LEMMA RowsGoOn ==
  ASSUME VolumeRows, as \in Backends, at \in Tasks, TaskDone, Task # "row",
         UNCHANGED <<have, as, failed, volRows>>
  PROVE  VolumeRows'
BY DoneNext DEF VolumeRows, GivenUp

LEMMA MountPointsGoOn ==
  ASSUME MountPoints, as \in Backends, at \in Tasks, TaskDone, Task \notin {"move", "clear", "link"},
         UNCHANGED <<type, have, as, failed, old, new>>
  PROVE  MountPoints'
BY DoneNext DEF MountPoints, GivenUp

LEMMA PlacesGoOn ==
  ASSUME Places, as \in Backends, at \in Tasks, TaskDone, doing = "task", Task \notin {"move", "link"},
         UNCHANGED <<type, have, as, old, new, torn>>
  PROVE  Places'
<1>1. doing' = "task"  BY DEF TaskDone, GoOn
<1>2. \A x : DoneFor("move", x)' => DoneFor("move", x)  BY DoneNext
<1>3. \A x : DoneFor("link", x)' => DoneFor("link", x)  BY DoneNext
<1>4. \A x : CutSnapshot(x) => CutSnapshot(x)'  BY DEF CutSnapshot
<1> QED  BY <1>1, <1>2, <1>3, <1>4 DEF Places, Held

LEMMA InCopyGoOn ==
  ASSUME InCopy, GoOn(Left), UNCHANGED <<old, new>>
  PROVE  InCopy'
BY DEF InCopy, GoOn

LEMMA SomeTask ==
  ASSUME RightBackend, NEW n, Doing(n)
  PROVE  at \in Tasks /\ Task = n /\ doing = "task" /\ as \in Backends
BY DEF RightBackend, Doing, Running, Finished

\* A step that is for no object.
LEMMA GlobalStep ==
  ASSUME UpgradeInv, NEW n, Doing(n), n \notin Names, TaskDone,
         UNCHANGED <<type, have, as, failed, old, new, torn, volRows>>,
         as = type, poolRow' = PoolName(type), keys' = keys \/ ~keys', at = Unset => ~keys',
         at = Profiles => failed = {}
  PROVE  UpgradeInv'
<1>1. at \in Tasks /\ Task = n /\ doing = "task" /\ as \in Backends  BY SomeTask DEF UpgradeInv
<1>2. Task \notin {"row", "move", "clear", "link"}  BY <1>1 DEF Names
<1>3. RightBackend'  BY <1>1, BackendGoesOn DEF UpgradeInv, TaskDone
<1>4. InCopy'  BY InCopyGoOn DEF UpgradeInv, TaskDone
<1>5. Places'  BY <1>1, <1>2, PlacesGoOn DEF UpgradeInv
<1>6. MountPoints'  BY <1>1, <1>2, MountPointsGoOn DEF UpgradeInv
<1>7. VolumeRows'  BY <1>1, <1>2, RowsGoOn DEF UpgradeInv
<1> QED  BY <1>3, <1>4, <1>5, <1>6, <1>7 DEF UpgradeInv

\* A step for an object that ends its task.
LEMMA ObjectStep ==
  ASSUME UpgradeInv, NEW n \in Names, Task = n, at \in Tasks, TaskDone,
         UNCHANGED <<type, have, as, failed, keys, poolRow>>
  PROVE  RightBackend'
<1>1. at \notin {Pool, Profiles, Unset} /\ as = type /\ poolRow = PoolName(type)  BY AtObject DEF UpgradeInv
<1> QED  BY <1>1, BackendGoesOn DEF UpgradeInv, TaskDone

LEMMA PoolFirst ==
  ASSUME NEW b \in Backends
  PROVE  Pool \in TasksAs[b] /\ \A t \in TasksAs[b] : ~Precedes(t, Pool)
<1> DEFINE r == Turns[b]
<1>1. r = [ctn |-> r.ctn, snap |-> r.snap, late |-> r.late, img |-> r.img]
  <2>1. CASE b = "dir"  BY <2>1, TurnsOfBackends DEF upgradeFromStorageTypeDir
  <2>2. CASE b = "btrfs"  BY <2>2, TurnsOfBackends DEF upgradeFromStorageTypeBtrfs
  <2>3. CASE b = "lvm"  BY <2>3, TurnsOfBackends DEF upgradeFromStorageTypeLvm
  <2>4. CASE b = "zfs"  BY <2>4, TurnsOfBackends DEF upgradeFromStorageTypeZfs
  <2> QED  BY <2>1, <2>2, <2>3, <2>4 DEF Backends
<1>2. TasksAs[b] = TasksOf(r)  BY DEF TasksAs, Turns, Backends
<1>3. \A t : t \in TasksAs[b] <=> AnyTask(r.ctn, Len(r.ctn), r.snap, r.late, r.img, t)
  BY <1>1, <1>2, TaskForms
<1>4. Pool.pass = 1 /\ Pool.nth = 0 /\ Pool.turn = 0  BY DEF Pool, Once, Turn
<1>5. ASSUME NEW t, Globally(t) PROVE ~Precedes(t, Pool)
  BY <1>5 DEF Globally, Pool, Profiles, Unset, Once, Turn, Precedes
<1>6. ASSUME NEW t, t.pass \in 2..4 PROVE ~Precedes(t, Pool)  BY <1>4, <1>6 DEF Precedes
<1>7. \A c, m, s, l, i, t :
        AtCtn(c, t) \/ AtSnap(m, s, t) \/ AtLate(l, t) \/ AtImg(i, t) => t.pass \in 2..4
  <2> SUFFICES ASSUME NEW c, NEW m, NEW s, NEW l, NEW i, NEW t
               PROVE  AtCtn(c, t) \/ AtSnap(m, s, t) \/ AtLate(l, t) \/ AtImg(i, t) => t.pass \in 2..4
    OBVIOUS
  <2>1. AtCtn(c, t) => t.pass = 2  BY DEF AtCtn, Turn
  <2>2. AtSnap(m, s, t) => t.pass = 2
    <3>1. ASSUME NEW k \in HasSnap, NEW j \in DOMAIN s, t = Turn(2, k, m + j, s[j], Sn(Ctns[k]))
          PROVE  t.pass = 2
      BY <3>1 DEF Turn
    <3> QED  BY <3>1 DEF AtSnap
  <2>3. AtLate(l, t) => t.pass = 3  BY DEF AtLate, Turn
  <2>4. AtImg(i, t) => t.pass = 4  BY DEF AtImg, Turn
  <2> QED  BY <2>1, <2>2, <2>3, <2>4
<1> QED
  <2>1. Globally(Pool)  BY DEF Globally
  <2>2. Pool \in TasksAs[b]  BY <1>3, <2>1 DEF AnyTask
  <2>3. ASSUME NEW t \in TasksAs[b] PROVE ~Precedes(t, Pool)
    <3>1. Globally(t) \/ t.pass \in 2..4  BY <1>3, <1>7 DEF AnyTask
    <3> QED  BY <1>5, <1>6, <3>1
  <2> QED  BY <2>2, <2>3

LEMMA IdleIsNoTask ==
  ASSUME UpgradeInv, ~Running
  PROVE  doing = "task"
<1>1. at = Idle /\ as \in Backends  BY DEF UpgradeInv, RightBackend, Running
<1>2. Idle \notin Tasks  BY <1>1, Places0
<1> QED  BY <1>1, <1>2 DEF UpgradeInv, InCopy

LEMMA BeginStep == UpgradeInv /\ BeginUpgrade => UpgradeInv'
<1> SUFFICES ASSUME UpgradeInv, BeginUpgrade PROVE UpgradeInv'  OBVIOUS
<1>1. /\ at' = (IF have = {} THEN End ELSE Pool) /\ as' = Guess /\ doing' = "task" /\ failed' = {}
      /\ UNCHANGED <<type, have, keys, poolRow, volRows, old, new, torn>>
  BY DEF BeginUpgrade
<1>2. as' \in Backends /\ (as' = type \/ (as' = "dir" /\ type \in {"lvm", "zfs"} /\ ~keys))
  BY <1>1 DEF UpgradeInv, RightBackend, Guess, Backends
<1>3. Tasks' = IF have = {} THEN {} ELSE TasksAs[as']  BY <1>1 DEF Tasks
<1>4. \A n, x : ~DoneFor(n, x)'
  <2>1. CASE have = {}  BY <1>3, <2>1 DEF DoneFor
  <2>2. CASE have # {}
    <3>1. \A t \in Tasks' : ~Precedes(t, at')  BY <1>1, <1>2, <1>3, <2>2, PoolFirst
    <3> QED  BY <3>1 DEF DoneFor
  <2> QED  BY <2>1, <2>2
<1>5. ~Precedes(Unset, Pool)  BY DEF Precedes, Unset, Pool, Once, Turn
<1>6. RightBackend'
  <2>1. at' \in Tasks' \cup {Idle, End}
    <3>1. CASE have = {}  BY <1>1, <3>1
    <3>2. CASE have # {}  BY <1>1, <1>2, <1>3, <3>2, PoolFirst
    <3> QED  BY <3>1, <3>2
  <2> QED  BY <1>1, <1>2, <1>5, <2>1 DEF UpgradeInv, RightBackend
<1>7. InCopy'  BY <1>1 DEF UpgradeInv, InCopy
<1>8. doing = "task"  BY IdleIsNoTask DEF BeginUpgrade
<1>9. Places'  BY <1>1, <1>4, <1>8 DEF UpgradeInv, Places, Held, CutSnapshot
<1>10. MountPoints' /\ VolumeRows'  BY <1>4 DEF MountPoints, VolumeRows
<1> QED  BY <1>6, <1>7, <1>9, <1>10 DEF UpgradeInv

\* A run that ends has done nothing yet when it begins anew.
LEMMA LeaveStep ==
  ASSUME UpgradeInv, Leave, UNCHANGED <<type, have, as, keys, poolRow, volRows, failed>>,
         old' \in [Objects -> {"none", "full", "part", "link"}],
         new' \in [Objects -> {"none", "full", "part"}],
         type # "zfs" => \A x \in have : Held(x)'
  PROVE  UpgradeInv'
<1>1. at' = Idle /\ doing' = "task" /\ Tasks' = Tasks /\ as \in Backends
  BY DEF Leave, UpgradeInv, RightBackend, Tasks
<1>2. \A n, x : ~DoneFor(n, x)'
  <2>1. \A t \in Tasks : ~Precedes(t, Idle)  BY <1>1, Places0 DEF Precedes
  <2> QED  BY <1>1, <2>1 DEF DoneFor
<1>3. ~Precedes(Unset, Idle)  BY DEF Precedes, Unset, Idle, Once, Turn
<1>4. RightBackend'  BY <1>1, <1>3 DEF UpgradeInv, RightBackend, Running
<1>5. InCopy'  BY <1>1 DEF InCopy
<1>6. Places'  BY <1>2 DEF Places
<1>7. MountPoints' /\ VolumeRows'  BY <1>2 DEF MountPoints, VolumeRows
<1> QED  BY <1>4, <1>5, <1>6, <1>7 DEF UpgradeInv

LEMMA PoolStep == UpgradeInv /\ MakePool => UpgradeInv'
<1> SUFFICES ASSUME UpgradeInv, MakePool PROVE UpgradeInv'  OBVIOUS
<1>1. /\ Doing("pool") /\ poolRow \in {"none", PoolName(as)} /\ poolRow' = PoolName(as) /\ TaskDone
      /\ UNCHANGED <<type, have, keys, volRows, old, new, torn, as, failed>>
  BY DEF MakePool
<1>2. at \in Tasks /\ Task = "pool" /\ Running /\ have # {}
  BY <1>1, SomeTask, Places0 DEF UpgradeInv, Doing
<1>3. at # Unset /\ at # Profiles  BY <1>2 DEF Task, Unset, Profiles, Once, Turn
<1>4. as = type
  <2> SUFFICES ASSUME as # type PROVE FALSE  OBVIOUS
  <2>1. as = "dir" /\ type \in {"lvm", "zfs"} /\ ~keys /\ poolRow = "named"
    BY <1>2 DEF UpgradeInv, RightBackend
  <2> QED  BY <1>1, <2>1 DEF PoolName
<1> QED  BY <1>1, <1>3, <1>4, GlobalStep DEF Names

LEMMA AddRowStep == UpgradeInv /\ AddRow => UpgradeInv'
<1> SUFFICES ASSUME UpgradeInv, AddRow PROVE UpgradeInv'  OBVIOUS
<1>1. /\ Doing("row") /\ volRows' = volRows \cup {Obj} /\ TaskDone
      /\ UNCHANGED <<type, have, keys, poolRow, old, new, torn, as, failed>>
  BY DEF AddRow
<1>2. at \in Tasks /\ Task = "row" /\ doing = "task" /\ as \in Backends  BY <1>1, SomeTask DEF UpgradeInv
<1>3. RightBackend'  BY <1>1, <1>2, ObjectStep DEF Names
<1>4. InCopy'  BY <1>1, InCopyGoOn DEF UpgradeInv, TaskDone
<1>5. Places'  BY <1>1, <1>2, PlacesGoOn DEF UpgradeInv
<1>6. MountPoints'  BY <1>1, <1>2, MountPointsGoOn DEF UpgradeInv
<1>7. VolumeRows'  BY <1>1, <1>2, DoneNext DEF UpgradeInv, VolumeRows, GivenUp
<1> QED  BY <1>3, <1>4, <1>5, <1>6, <1>7 DEF UpgradeInv

LEMMA MoveStep == UpgradeInv /\ MoveObject => UpgradeInv'
<1> SUFFICES ASSUME UpgradeInv, MoveObject PROVE UpgradeInv'  OBVIOUS
<1>1. /\ Doing("move") /\ TaskDone
      /\ UNCHANGED <<type, have, keys, poolRow, volRows, torn, as, failed>>
      /\ ~(as = "lvm" /\ Plain(Obj) /\ NotMoved(Obj))
      /\ IF as = "zfs" THEN new' = [new EXCEPT ![Obj] = "full"] /\ old' = old
         ELSE IF NotMoved(Obj)
           THEN new' = [new EXCEPT ![Obj] = old[Obj]] /\ old' = [old EXCEPT ![Obj] = "none"]
           ELSE old' = old /\ new' = new
  BY DEF MoveObject
<1>2. at \in Tasks /\ Task = "move" /\ doing = "task" /\ as \in Backends  BY <1>1, SomeTask DEF UpgradeInv
<1>3. as = type /\ Obj \in Objects /\ have = Objects  BY <1>2, AtObject DEF UpgradeInv, Names
<1>4. doing' = "task"  BY <1>1 DEF TaskDone, GoOn
<1>5. RightBackend'  BY <1>1, <1>2, ObjectStep DEF Names
<1>6. VolumeRows'  BY <1>1, <1>2, RowsGoOn DEF UpgradeInv
<1>7. \A n, x : DoneFor(n, x)' => DoneFor(n, x) \/ (n = "move" /\ Obj = x)  BY <1>1, <1>2, DoneNext
<1>8. CASE as = "zfs"
  <2>1. InCopy'  BY <1>1, <1>3, <1>4, <1>8 DEF UpgradeInv, InCopy
  <2>2. Places'  BY <1>1, <1>3, <1>8 DEF Places
  <2>3. \A x \in have : new[x] = "full" \/ x = Obj => new'[x] = "full"
    BY <1>1, <1>3, <1>8 DEF UpgradeInv, InCopy
  <2>4. MountPoints'  BY <1>1, <1>7, <1>8, <2>3 DEF UpgradeInv, MountPoints, GivenUp
  <2> QED  BY <1>5, <1>6, <2>1, <2>2, <2>4 DEF UpgradeInv
<1>9. CASE as # "zfs" /\ NotMoved(Obj)
  <2>1. Held(Obj) /\ type # "zfs"  BY <1>3, <1>9 DEF UpgradeInv, Places
  <2>2. old[Obj] = "full"  BY <1>9, <2>1 DEF NotMoved, Held, CutSnapshot
  <2>3. /\ old' \in [Objects -> {"none", "full", "part", "link"}]
        /\ new' \in [Objects -> {"none", "full", "part"}]
        /\ old'[Obj] = "none" /\ new'[Obj] = "full"
        /\ \A x \in Objects : x # Obj => old'[x] = old[x] /\ new'[x] = new[x]
    BY <1>1, <1>3, <1>9, <2>2 DEF UpgradeInv, InCopy
  <2>4. InCopy'  BY <1>4, <2>3 DEF InCopy
  <2>5. MountPoints'  BY <1>1, <1>3, <1>9 DEF MountPoints
  <2>6. Obj[1] = "container" => ~DoneFor("link", Obj)  BY <1>2, <1>9, LinkNotYet
  <2>7. ASSUME NEW x \in have
        PROVE  /\ Held(x)'
               /\ DoneFor("move", x)' => new'[x] # "none"
               /\ x \notin torn /\ x[1] = "container" /\ DoneFor("link", x)' => old'[x] = "link"
    <3>1. CASE x = Obj
      <4>1. Held(x)'  BY <2>3, <3>1 DEF Held
      <4> QED  BY <1>7, <2>3, <2>6, <3>1, <4>1
    <3>2. CASE x # Obj
      <4>1. Held(x) /\ (DoneFor("move", x) => new[x] # "none")
              /\ (x \notin torn /\ x[1] = "container" /\ DoneFor("link", x) => old[x] = "link")
        BY <2>1 DEF UpgradeInv, Places
      <4>2. old'[x] = old[x] /\ new'[x] = new[x]  BY <1>3, <2>3, <3>2
      <4>3. Held(x)'  BY <1>1, <1>2, <1>4, <4>1, <4>2 DEF Held, CutSnapshot
      <4> QED  BY <1>7, <3>2, <4>1, <4>2, <4>3
    <3> QED  BY <3>1, <3>2
  <2>8. Places'  BY <1>1, <2>7 DEF Places
  <2> QED  BY <1>5, <1>6, <2>4, <2>5, <2>8 DEF UpgradeInv
<1>10. CASE as # "zfs" /\ ~NotMoved(Obj)
  <2>1. old' = old /\ new' = new  BY <1>1, <1>10
  <2>2. Held(Obj) /\ type # "zfs"  BY <1>3, <1>10 DEF UpgradeInv, Places
  <2>3. new[Obj] # "none"  BY <1>10, <2>2 DEF NotMoved, Held, CutSnapshot
  <2>4. InCopy'  BY <1>1, <2>1, InCopyGoOn DEF UpgradeInv, TaskDone
  <2>5. MountPoints'  BY <1>1, <2>2 DEF MountPoints
  <2>6. \A x \in have : Held(x)'  BY <1>1, <1>2, <1>4, <2>1, <2>2 DEF UpgradeInv, Places, Held, CutSnapshot
  <2>7. Places'  BY <1>1, <1>7, <2>1, <2>2, <2>3, <2>6 DEF UpgradeInv, Places
  <2> QED  BY <1>5, <1>6, <2>4, <2>5, <2>7 DEF UpgradeInv
<1> QED  BY <1>8, <1>9, <1>10

LEMMA SkipStep == UpgradeInv /\ SkipSnapshot => UpgradeInv'
<1> SUFFICES ASSUME UpgradeInv, SkipSnapshot PROVE UpgradeInv'  OBVIOUS
<1> DEFINE S == {t \in Left : ~(t.of = Obj /\ t.task = "link")}
<1>1. /\ Doing("move") /\ GoOn(S) /\ as = "dir" /\ Obj[1] = "snapshot" /\ old[Obj] = "none"
      /\ UNCHANGED <<type, have, keys, poolRow, volRows, old, new, torn, as, failed>>
  BY DEF SkipSnapshot
<1>2. at \in Tasks /\ Task = "move" /\ doing = "task" /\ as \in Backends  BY <1>1, SomeTask DEF UpgradeInv
<1>3. /\ as = type /\ Obj \in Objects /\ have = Objects /\ poolRow = PoolName(type)
      /\ at \notin {Pool, Profiles, Unset}
  BY <1>2, AtObject DEF UpgradeInv, Names
<1>4. /\ Tasks' = Tasks /\ doing' = "task"
      /\ \A t \in Tasks : Precedes(t, at') => Precedes(t, at) \/ t = at \/ t \in Left \ S
  BY <1>1, <1>2, GoesOnFrom
<1>5. \A t \in Left \ S : t \notin {Profiles, Unset}  BY DEF Profiles, Unset, Once, Turn
<1>6. RightBackend'  BY <1>1, <1>2, <1>3, <1>5, BackendGoesOn DEF UpgradeInv
<1>7. \A n, x : DoneFor(n, x)' => DoneFor(n, x) \/ (n \in {"move", "link"} /\ Obj = x)
  BY <1>2, <1>4 DEF DoneFor, Task, Obj
<1>8. InCopy'  BY <1>1, <1>4 DEF UpgradeInv, InCopy
<1>9. VolumeRows'  BY <1>1, <1>7 DEF UpgradeInv, VolumeRows, GivenUp
<1>10. MountPoints'  BY <1>1, <1>3 DEF MountPoints
<1>11. Held(Obj) /\ new[Obj] # "none"  BY <1>1, <1>3 DEF UpgradeInv, Places, Held, CutSnapshot
<1>12. \A x \in have : Held(x)'
  BY <1>1, <1>2, <1>3, <1>4 DEF UpgradeInv, Places, Held, CutSnapshot
<1>13. Places'  BY <1>1, <1>3, <1>7, <1>11, <1>12 DEF UpgradeInv, Places
<1> QED  BY <1>6, <1>8, <1>9, <1>10, <1>13 DEF UpgradeInv

\* A copy begins, or is done: the run stays where it is.
LEMMA StayStep ==
  ASSUME UpgradeInv, at \in Tasks, Task = "move", at' = at, old' = old,
         UNCHANGED <<type, have, keys, poolRow, volRows, torn, as, failed>>,
         NEW v \in {"full", "part"}, new' = [new EXCEPT ![Obj] = v], as # "zfs",
         doing' \in {"copy", "drop"}, doing' = "drop" => v = "full",
         doing' = "copy" => v = "part" /\ old[Obj] = "full" /\ (as = "lvm" => Plain(Obj)),
         doing = "task" \/ new[Obj] = "part"
  PROVE  UpgradeInv'
<1>1. as \in Backends /\ as = type /\ Obj \in Objects /\ have = Objects  BY AtObject DEF UpgradeInv, Names
<1>2. Tasks' = Tasks /\ Obj' = Obj /\ Task' = Task  BY DEF Tasks, Obj, Task
<1>3. \A n, x : DoneFor(n, x)' <=> DoneFor(n, x)  BY <1>2 DEF DoneFor
<1>4. RightBackend'  BY <1>2 DEF UpgradeInv, RightBackend, Running
<1>5. /\ new' \in [Objects -> {"none", "full", "part"}] /\ new'[Obj] = v
      /\ \A x \in Objects : x # Obj => new'[x] = new[x]
  BY <1>1 DEF UpgradeInv, InCopy
<1>6. InCopy'  BY <1>2, <1>5 DEF UpgradeInv, InCopy
<1>7. VolumeRows'  BY <1>3 DEF UpgradeInv, VolumeRows, GivenUp
<1>8. MountPoints'  BY <1>1 DEF MountPoints
<1>9. ASSUME NEW x \in have
      PROVE  /\ Held(x)'
             /\ DoneFor("move", x)' => new'[x] # "none"
             /\ x \notin torn /\ x[1] = "container" /\ DoneFor("link", x)' => old'[x] = "link"
  <2>1. /\ Held(x) /\ (DoneFor("move", x) => new[x] # "none")
        /\ x \notin torn /\ x[1] = "container" /\ DoneFor("link", x) => old[x] = "link"
    BY <1>1 DEF UpgradeInv, Places
  <2>2. Held(x)'
    <3>1. CASE x = Obj
      <4>1. "full" \in {old[x], v}  BY <3>1
      <4>2. type = "lvm" /\ v = "part" => Plain(x)  BY <1>1, <3>1
      <4> QED  BY <1>2, <1>5, <3>1, <4>1, <4>2 DEF Held, Plain
    <3>2. CASE x # Obj
      <4>1. new'[x] = new[x]  BY <1>1, <1>5, <3>2
      <4> QED  BY <1>2, <2>1, <3>2, <4>1 DEF Held, CutSnapshot, Plain
    <3> QED  BY <3>1, <3>2
  <2> QED  BY <1>1, <1>3, <1>5, <2>1, <2>2
<1>10. Places'  BY <1>9 DEF Places
<1> QED  BY <1>4, <1>6, <1>7, <1>8, <1>10 DEF UpgradeInv

LEMMA CopyStep == UpgradeInv /\ CopyObject => UpgradeInv'
<1> SUFFICES ASSUME UpgradeInv, CopyObject PROVE UpgradeInv'  OBVIOUS
<1>1. /\ Doing("move") /\ NotMoved(Obj) /\ as # "zfs" /\ (as = "lvm" => Plain(Obj)) /\ at' = at /\ old' = old
      /\ \/ new' = [new EXCEPT ![Obj] = "part"] /\ doing' = "copy"
         \/ new' = [new EXCEPT ![Obj] = "full"] /\ doing' = "drop"
      /\ UNCHANGED <<type, have, keys, poolRow, volRows, torn, as, failed>>
  BY DEF CopyObject, Step
<1>2. at \in Tasks /\ Task = "move" /\ doing = "task" /\ as \in Backends  BY <1>1, SomeTask DEF UpgradeInv
<1>3. Held(Obj)  BY <1>1, <1>2, AtObject DEF UpgradeInv, Names, Places
<1>4. old[Obj] = "full"  BY <1>1, <1>3 DEF NotMoved, Held, CutSnapshot
<1> QED  BY <1>1, <1>2, <1>4, StayStep

LEMMA CopyDoneStep == UpgradeInv /\ CopyDone => UpgradeInv'
<1> SUFFICES ASSUME UpgradeInv, CopyDone PROVE UpgradeInv'  OBVIOUS
<1>1. /\ doing = "copy" /\ new' = [new EXCEPT ![Obj] = "full"] /\ at' = at /\ doing' = "drop" /\ old' = old
      /\ UNCHANGED <<type, have, keys, poolRow, volRows, torn, as, failed>>
  BY DEF CopyDone, Step
<1>2. at \in Tasks /\ Task = "move" /\ as # "zfs" /\ new[Obj] = "part"  BY <1>1 DEF UpgradeInv, InCopy
<1> QED  BY <1>1, <1>2, StayStep

LEMMA DropStep == UpgradeInv /\ DropOld => UpgradeInv'
<1> SUFFICES ASSUME UpgradeInv, DropOld PROVE UpgradeInv'  OBVIOUS
<1>1. /\ doing = "drop" /\ old' = [old EXCEPT ![Obj] = "none"] /\ TaskDone
      /\ UNCHANGED <<type, have, keys, poolRow, volRows, new, torn, as, failed>>
  BY DEF DropOld
<1>2. at \in Tasks /\ Task = "move" /\ as # "zfs" /\ new[Obj] = "full"  BY <1>1 DEF UpgradeInv, InCopy
<1>3. as \in Backends /\ as = type /\ Obj \in Objects /\ have = Objects  BY <1>2, AtObject DEF UpgradeInv, Names
<1>4. doing' = "task"  BY <1>1 DEF TaskDone, GoOn
<1>5. RightBackend'  BY <1>1, <1>2, ObjectStep DEF Names
<1>6. VolumeRows'  BY <1>1, <1>2, <1>3, RowsGoOn DEF UpgradeInv
<1>7. \A n, x : DoneFor(n, x)' => DoneFor(n, x) \/ (n = "move" /\ Obj = x)  BY <1>1, <1>2, <1>3, DoneNext
<1>8. /\ old' \in [Objects -> {"none", "full", "part", "link"}] /\ old'[Obj] = "none"
      /\ \A x \in Objects : x # Obj => old'[x] = old[x]
  BY <1>1, <1>3 DEF UpgradeInv, InCopy
<1>9. InCopy'  BY <1>1, <1>4, <1>8 DEF UpgradeInv, InCopy
<1>10. MountPoints'  BY <1>1, <1>2, <1>3 DEF MountPoints
<1>11. Obj[1] = "container" => ~DoneFor("link", Obj)  BY <1>2, <1>3, LinkNotYet
<1>12. ASSUME NEW x \in have
       PROVE  /\ Held(x)'
              /\ DoneFor("move", x)' => new'[x] # "none"
              /\ x \notin torn /\ x[1] = "container" /\ DoneFor("link", x)' => old'[x] = "link"
  <2>1. /\ Held(x) /\ (DoneFor("move", x) => new[x] # "none")
        /\ x \notin torn /\ x[1] = "container" /\ DoneFor("link", x) => old[x] = "link"
    BY <1>2, <1>3 DEF UpgradeInv, Places
  <2>2. CASE x = Obj
    <3>1. Held(x)'  BY <1>1, <1>2, <1>8, <2>2 DEF Held
    <3> QED  BY <1>1, <1>2, <1>7, <1>11, <2>2, <3>1
  <2>3. CASE x # Obj
    <3>1. old'[x] = old[x]  BY <1>3, <1>8, <2>3
    <3>2. Held(x)'  BY <1>1, <1>4, <2>1, <2>3, <3>1 DEF Held, CutSnapshot, Plain
    <3> QED  BY <1>1, <1>7, <2>1, <2>3, <3>1, <3>2
  <2> QED  BY <2>2, <2>3
<1>13. Places'  BY <1>1, <1>12 DEF Places
<1> QED  BY <1>5, <1>6, <1>9, <1>10, <1>13 DEF UpgradeInv

\* What is at the old place changes to nothing or to the link.
LEMMA LinkStep == UpgradeInv /\ LinkOld => UpgradeInv'
<1> SUFFICES ASSUME UpgradeInv, LinkOld PROVE UpgradeInv'  OBVIOUS
<1>1. /\ Doing("link") /\ old' = [old EXCEPT ![Obj] = IF @ = "none" THEN "link" ELSE @] /\ TaskDone
      /\ UNCHANGED <<type, have, keys, poolRow, volRows, new, torn, as, failed>>
  BY DEF LinkOld
<1>2. at \in Tasks /\ Task = "link" /\ doing = "task" /\ as \in Backends  BY <1>1, SomeTask DEF UpgradeInv
<1>3. as = type /\ Obj \in Objects /\ have = Objects  BY <1>2, AtObject DEF UpgradeInv, Names
<1>4. doing' = "task"  BY <1>1 DEF TaskDone, GoOn
<1>5. RightBackend'  BY <1>1, <1>2, ObjectStep DEF Names
<1>6. VolumeRows'  BY <1>1, <1>2, RowsGoOn DEF UpgradeInv
<1>7. \A n, x : DoneFor(n, x)' => DoneFor(n, x) \/ (n = "link" /\ Obj = x)  BY <1>1, <1>2, DoneNext
<1>8. /\ old' \in [Objects -> {"none", "full", "part", "link"}]
      /\ old'[Obj] = IF old[Obj] = "none" THEN "link" ELSE old[Obj]
      /\ \A x \in Objects : x # Obj => old'[x] = old[x]
  BY <1>1, <1>3 DEF UpgradeInv, InCopy
<1>9. InCopy'  BY <1>1, <1>4, <1>8 DEF UpgradeInv, InCopy
<1>10. MountPoints'
  <2> SUFFICES ASSUME type = "zfs", NEW x \in have, ~GivenUp(x)
               PROVE  /\ DoneFor("move", x)' => new[x] = "full"
                      /\ DoneFor("clear", x)' => old'[x] \in {"none", "link"}
                      /\ x[1] = "container" /\ DoneFor("link", x)' => old'[x] = "link"
    BY <1>1 DEF MountPoints, GivenUp
  <2>1. /\ DoneFor("move", x) => new[x] = "full"
        /\ DoneFor("clear", x) => old[x] \in {"none", "link"}
        /\ x[1] = "container" /\ DoneFor("link", x) => old[x] = "link"
    BY DEF UpgradeInv, MountPoints
  <2>2. CASE x = Obj
    <3>1. x[1] = "container" => DoneFor("clear", x)  BY <1>2, <1>3, <2>2, DoneBeforeLink
    <3> QED  BY <1>7, <1>8, <2>1, <2>2, <3>1
  <2>3. CASE x # Obj  BY <1>3, <1>7, <1>8, <2>1, <2>3
  <2> QED  BY <2>2, <2>3
<1>11. Places'
  <2> SUFFICES ASSUME type # "zfs", NEW x \in have
               PROVE  /\ Held(x)'
                      /\ DoneFor("move", x)' => new[x] # "none"
                      /\ x \notin torn /\ x[1] = "container" /\ DoneFor("link", x)' => old'[x] = "link"
    BY <1>1 DEF Places
  <2>1. /\ Held(x) /\ (DoneFor("move", x) => new[x] # "none")
        /\ x \notin torn /\ x[1] = "container" /\ DoneFor("link", x) => old[x] = "link"
    BY DEF UpgradeInv, Places
  <2>2. CASE x = Obj
    <3>1. x[1] = "container" => new[x] # "none"  BY <1>2, <1>3, <2>1, <2>2, DoneBeforeLink
    <3>2. Held(x)'  BY <1>1, <1>2, <1>4, <1>8, <2>1, <2>2 DEF Held, CutSnapshot, Plain
    <3>3. x \notin torn /\ x[1] = "container" => old'[x] = "link"
      BY <1>2, <1>8, <2>1, <2>2, <3>1 DEF Held
    <3> QED  BY <1>7, <2>1, <2>2, <3>2, <3>3
  <2>3. CASE x # Obj
    <3>1. old'[x] = old[x]  BY <1>3, <1>8, <2>3
    <3>2. Held(x)'  BY <1>1, <1>2, <1>4, <2>1, <3>1 DEF Held, CutSnapshot, Plain
    <3> QED  BY <1>7, <2>1, <2>3, <3>1, <3>2
  <2> QED  BY <2>2, <2>3
<1> QED  BY <1>5, <1>6, <1>9, <1>10, <1>11 DEF UpgradeInv

LEMMA ClearStep == UpgradeInv /\ ClearOld => UpgradeInv'
<1> SUFFICES ASSUME UpgradeInv, ClearOld PROVE UpgradeInv'  OBVIOUS
<1>1. /\ Doing("clear") /\ old' = [old EXCEPT ![Obj] = "none"] /\ TaskDone
      /\ UNCHANGED <<type, have, keys, poolRow, volRows, new, torn, as, failed>>
  BY DEF ClearOld
<1>2. at \in Tasks /\ Task = "clear" /\ doing = "task" /\ as \in Backends  BY <1>1, SomeTask DEF UpgradeInv
<1>3. as = type /\ Obj \in Objects /\ have = Objects  BY <1>2, AtObject DEF UpgradeInv, Names
<1>4. doing' = "task"  BY <1>1 DEF TaskDone, GoOn
<1>5. RightBackend'  BY <1>1, <1>2, ObjectStep DEF Names
<1>6. VolumeRows'  BY <1>1, <1>2, RowsGoOn DEF UpgradeInv
<1>7. \A n, x : DoneFor(n, x)' => DoneFor(n, x) \/ (n = "clear" /\ Obj = x)  BY <1>1, <1>2, DoneNext
<1>8. /\ old' \in [Objects -> {"none", "full", "part", "link"}] /\ old'[Obj] = "none"
      /\ \A x \in Objects : x # Obj => old'[x] = old[x]
  BY <1>1, <1>3 DEF UpgradeInv, InCopy
<1>9. InCopy'  BY <1>1, <1>4, <1>8 DEF UpgradeInv, InCopy
<1>10. Obj[1] = "container" => ~DoneFor("link", Obj)  BY <1>2, LinkNotYet
<1>11. MountPoints'
  <2> SUFFICES ASSUME type = "zfs", NEW x \in have, ~GivenUp(x)
               PROVE  /\ DoneFor("move", x)' => new[x] = "full"
                      /\ DoneFor("clear", x)' => old'[x] \in {"none", "link"}
                      /\ x[1] = "container" /\ DoneFor("link", x)' => old'[x] = "link"
    BY <1>1 DEF MountPoints, GivenUp
  <2>1. /\ DoneFor("move", x) => new[x] = "full"
        /\ DoneFor("clear", x) => old[x] \in {"none", "link"}
        /\ x[1] = "container" /\ DoneFor("link", x) => old[x] = "link"
    BY DEF UpgradeInv, MountPoints
  <2>2. CASE x = Obj  BY <1>7, <1>8, <1>10, <2>1, <2>2
  <2>3. CASE x # Obj  BY <1>3, <1>7, <1>8, <2>1, <2>3
  <2> QED  BY <2>2, <2>3
<1>12. Places'
  <2> SUFFICES ASSUME type # "zfs", NEW x \in have
               PROVE  /\ Held(x)'
                      /\ DoneFor("move", x)' => new[x] # "none"
                      /\ x \notin torn /\ x[1] = "container" /\ DoneFor("link", x)' => old'[x] = "link"
    BY <1>1 DEF Places
  <2>1. /\ Held(x) /\ (DoneFor("move", x) => new[x] # "none")
        /\ x \notin torn /\ x[1] = "container" /\ DoneFor("link", x) => old[x] = "link"
    BY DEF UpgradeInv, Places
  <2>2. CASE x = Obj
    <3>1. as = "lvm" /\ x[1] = "snapshot" /\ new[x] # "none"
      BY <1>2, <1>3, <2>1, <2>2, DoneBeforeClear
    <3>2. new[x] \in {"full", "part"}  BY <1>3, <2>2, <3>1 DEF UpgradeInv, InCopy
    <3>3. new[x] = "part" => CutSnapshot(x) /\ x \in torn
      BY <1>2, <1>3, <2>1, <3>1 DEF Held, CutSnapshot
    <3>4. Held(x)'  BY <1>1, <1>8, <2>1, <2>2, <3>2, <3>3 DEF Held, CutSnapshot, Plain
    <3> QED  BY <1>7, <2>1, <3>1, <3>4
  <2>3. CASE x # Obj
    <3>1. old'[x] = old[x]  BY <1>3, <1>8, <2>3
    <3>2. Held(x)'  BY <1>1, <1>2, <1>4, <2>1, <3>1 DEF Held, CutSnapshot, Plain
    <3> QED  BY <1>7, <2>1, <2>3, <3>1, <3>2
  <2> QED  BY <2>2, <2>3
<1> QED  BY <1>5, <1>6, <1>9, <1>11, <1>12 DEF UpgradeInv

LEMMA CheckStep == UpgradeInv /\ CheckImage => UpgradeInv'
<1> SUFFICES ASSUME UpgradeInv, CheckImage PROVE UpgradeInv'  OBVIOUS
<1>1. /\ Doing("check") /\ volRows' = (IF new[Obj] = "none" THEN volRows \ {Obj} ELSE volRows) /\ TaskDone
      /\ UNCHANGED <<type, have, keys, poolRow, old, new, torn, as, failed>>
  BY DEF CheckImage
<1>2. at \in Tasks /\ Task = "check" /\ doing = "task" /\ as \in Backends  BY <1>1, SomeTask DEF UpgradeInv
<1>3. as = type /\ Obj \in Objects /\ have = Objects  BY <1>2, AtObject DEF UpgradeInv, Names
<1>4. as = "lvm" /\ DoneFor("move", Obj)
  <2>1. as = "lvm"  BY <1>2, ChecksOnLvm, Places0 DEF Task
  <2> QED  BY <1>2, <2>1, DoneBeforeClear
<1>5. new[Obj] # "none"  BY <1>3, <1>4 DEF UpgradeInv, Places
<1>6. volRows' = volRows  BY <1>1, <1>5
<1>7. RightBackend'  BY <1>1, <1>2, ObjectStep DEF Names
<1>8. InCopy'  BY <1>1, InCopyGoOn DEF UpgradeInv, TaskDone
<1>9. Places'  BY <1>1, <1>2, PlacesGoOn DEF UpgradeInv
<1>10. MountPoints'  BY <1>1, <1>2, MountPointsGoOn DEF UpgradeInv
<1>11. VolumeRows'  BY <1>1, <1>2, <1>6, RowsGoOn DEF UpgradeInv
<1> QED  BY <1>7, <1>8, <1>9, <1>10, <1>11 DEF UpgradeInv

LEMMA LastSteps == UpgradeInv /\ (UpdateProfiles \/ UnsetKeys \/ SetupStorageDriver) => UpgradeInv'
<1> SUFFICES ASSUME UpgradeInv, UpdateProfiles \/ UnsetKeys \/ SetupStorageDriver PROVE UpgradeInv'  OBVIOUS
<1>1. PICK n \in {"profiles", "unset", "setup"} :
        /\ Doing(n) /\ TaskDone /\ (n = "profiles" => failed = {})
        /\ IF n = "unset" THEN ~keys' ELSE keys' = keys
        /\ UNCHANGED <<type, have, poolRow, volRows, old, new, torn, as, failed>>
  BY DEF UpdateProfiles, UnsetKeys, SetupStorageDriver
<1>2. at \in Tasks /\ Task = n /\ Running /\ have # {}  BY <1>1, SomeTask, Places0 DEF UpgradeInv, Doing
<1>3. at # Pool /\ (at = Unset => n = "unset") /\ (at = Profiles => n = "profiles")
  BY <1>1, <1>2 DEF Task, Pool, Unset, Profiles, Once, Turn
<1>4. as = type /\ poolRow = PoolName(type)  BY <1>2, <1>3 DEF UpgradeInv, RightBackend
<1> QED  BY <1>1, <1>3, <1>4, GlobalStep DEF Names

LEMMA PassStep == UpgradeInv /\ PassOver => UpgradeInv'
<1> SUFFICES ASSUME UpgradeInv, PassOver PROVE UpgradeInv'  OBVIOUS
<1> DEFINE S == {t \in Left : t.of \notin {Obj, Sn(Obj[2])}}
<1>1. /\ as = "zfs" /\ Obj[1] = "container" /\ GoOn(S) /\ failed' = failed \cup {Obj}
      /\ UNCHANGED <<type, have, keys, poolRow, volRows, old, new, torn, as>>
  BY DEF PassOver
<1>2. at \in Tasks /\ Task \in Names /\ doing = "task" /\ as \in Backends
  BY SomeTask DEF UpgradeInv, PassOver, Names
<1>3. /\ as = type /\ Obj \in Objects /\ have = Objects /\ poolRow = PoolName(type) /\ Running
      /\ at \notin {Pool, Profiles, Unset}
  BY <1>2, AtObject DEF UpgradeInv
<1>4. /\ Tasks' = Tasks /\ doing' = "task" /\ at' \in (Tasks \cup {End}) \ {Idle, Pool}
      /\ \A t \in Tasks : Precedes(t, at') => Precedes(t, at) \/ t = at \/ t \in Left \ S
  BY <1>1, <1>2, GoesOnFrom
<1>5. Profiles \in Tasks /\ Unset \in Tasks
  BY <1>2, Places0, TasksAreThose DEF AnyTask, Globally
<1>6. Profiles \notin Left \ S /\ Unset \notin Left \ S
  <2>1. Profiles.of[1] = "none" /\ Unset.of[1] = "none"  BY DEF Profiles, Unset, Once, Turn
  <2>2. Sn(Obj[2])[1] = "snapshot"  BY DEF Sn
  <2> QED  BY <1>1, <2>1, <2>2
<1>7. RightBackend'
  <2>1. ~Precedes(Profiles, at')
    <3>1. Profiles.pass = 5 /\ Profiles.nth = 0 /\ Profiles.turn = 0  BY DEF Profiles, Once, Turn
    <3>2. PICK k \in DOMAIN Ctns, j \in DOMAIN Turns[as].ctn : at = Turn(2, k, j, Turns[as].ctn[j], Ct(Ctns[k]))
      BY <1>1, <1>2, OfContainer, Places0 DEF Obj
    <3>3. at.pass = 2  BY <3>2 DEF Turn
    <3>4. ~Precedes(Profiles, at) /\ Profiles # at  BY <1>3, <3>1, <3>3 DEF Precedes
    <3> QED  BY <1>4, <1>5, <1>6, <3>4
  <2>2. Precedes(Unset, at') => ~keys'
    BY <1>1, <1>3, <1>4, <1>5, <1>6, Places0, <1>2 DEF UpgradeInv, RightBackend
  <2> QED  BY <1>1, <1>3, <1>4, <2>1, <2>2 DEF UpgradeInv, RightBackend
<1>8. \A n, x : DoneFor(n, x)' => DoneFor(n, x) \/ x \in {Obj, Sn(Obj[2])}
  BY <1>4 DEF DoneFor, Obj
<1>9. \A x \in Objects : GivenUp(x)' \/ (~GivenUp(x) /\ x \notin {Obj, Sn(Obj[2])})
  <2>1. PICK c \in Range(Ctns) : Obj = Ct(c)  BY <1>1, <1>3 DEF Objects, CtSet, SnSet, Ct, Sn, Im
  <2>2. Ct(c)[2] = c /\ Ct(c)[1] = "container" /\ Sn(c)[2] = c /\ Sn(c)[1] = "snapshot"  BY DEF Ct, Sn
  <2>3. Obj[2] = c /\ Obj \in failed'  BY <1>1, <2>1, <2>2
  <2>4. GivenUp(Ct(c))' /\ GivenUp(Sn(c))'
    <3>1. Ct(c) \in failed'  BY <2>1, <2>3
    <3> HIDE DEF Ct, Sn
    <3>2. \A x : x[1] # "image" /\ Ct(x[2]) \in failed' => GivenUp(x)'  BY DEF GivenUp
    <3> QED  BY <2>2, <3>1, <3>2
  <2>5. \A x : GivenUp(x) => GivenUp(x)'  BY <1>1 DEF GivenUp
  <2>6. \A x : x \in {Obj, Sn(Obj[2])} => GivenUp(x)'
    <3> SUFFICES ASSUME NEW x \in {Ct(c), Sn(c)} PROVE GivenUp(x)'  BY <2>1, <2>3
    <3> QED  BY <2>4
  <2> QED  BY <2>5, <2>6
<1>10. InCopy'  BY <1>1, <1>4 DEF UpgradeInv, InCopy
<1>11. Places'  BY <1>1, <1>3 DEF Places
<1>12. MountPoints'  BY <1>1, <1>3, <1>8, <1>9 DEF UpgradeInv, MountPoints
<1>13. VolumeRows'  BY <1>1, <1>3, <1>8, <1>9 DEF UpgradeInv, VolumeRows
<1> QED  BY <1>7, <1>10, <1>11, <1>12, <1>13 DEF UpgradeInv

LEMMA EndSteps == UpgradeInv /\ (PoolMissing \/ UpgradeFailed \/ (Finished /\ UpgradeDone)) => UpgradeInv'
<1> SUFFICES ASSUME UpgradeInv, PoolMissing \/ UpgradeFailed \/ (Finished /\ UpgradeDone) PROVE UpgradeInv'
  OBVIOUS
<1>1. Leave /\ UNCHANGED <<type, have, keys, poolRow, volRows, old, new, torn, as, failed>>
  BY DEF PoolMissing, UpgradeFailed, UpgradeDone
<1>2. doing = "task"
  <2>1. CASE Finished
    <3>1. End \notin Tasks  BY Places0 DEF UpgradeInv, RightBackend
    <3> QED  BY <2>1, <3>1 DEF UpgradeInv, InCopy, Finished
  <2>2. CASE PoolMissing \/ UpgradeFailed  BY <2>2 DEF PoolMissing, UpgradeFailed, Doing
  <2> QED  BY <2>1, <2>2 DEF UpgradeDone
<1>3. doing' = "task"  BY <1>1 DEF Leave
<1>4. type # "zfs" => \A x \in have : Held(x)'
  BY <1>1, <1>2, <1>3 DEF UpgradeInv, Places, Held, CutSnapshot, Plain
<1> QED  BY <1>1, <1>4, LeaveStep DEF UpgradeInv, InCopy

LEMMA CutStep == UpgradeInv /\ UpgradeCut => UpgradeInv'
<1> SUFFICES ASSUME UpgradeInv, UpgradeCut PROVE UpgradeInv'  OBVIOUS
<1>1. /\ Leave /\ torn' = (IF doing \in {"copy", "drop"} THEN torn \cup {Obj} ELSE torn)
      /\ old' = old \/ (doing = "drop" /\ old' = [old EXCEPT ![Obj] = "part"])
      /\ UNCHANGED <<type, have, keys, poolRow, volRows, new, as, failed>>
  BY DEF UpgradeCut
<1>2. doing # "task" => Obj \in Objects
  <2> SUFFICES ASSUME doing # "task" PROVE Obj \in Objects  OBVIOUS
  <2> QED  BY AtObject DEF UpgradeInv, InCopy, Names
<1>3. /\ old' \in [Objects -> {"none", "full", "part", "link"}]
      /\ \A x \in Objects : old'[x] = old[x] \/ (doing = "drop" /\ x = Obj)
  BY <1>1, <1>2 DEF UpgradeInv, InCopy
<1>4. ASSUME type # "zfs", NEW x \in have PROVE Held(x)'
  <2>1. Held(x) /\ x \in Objects  BY <1>4 DEF UpgradeInv, RightBackend, Places
  <2>2. CASE doing = "drop" /\ x = Obj
    <3>1. new[x] = "full" /\ x \in torn'  BY <1>1, <2>2 DEF UpgradeInv, InCopy
    <3> QED  BY <1>1, <3>1 DEF Held
  <2>3. CASE ~(doing = "drop" /\ x = Obj)
    <3>1. old'[x] = old[x]  BY <1>3, <2>1, <2>3
    <3>2. x \in torn \/ (doing # "task" /\ x = Obj) => x \in torn'  BY <1>1 DEF UpgradeInv, InCopy
    <3> QED  BY <1>1, <2>1, <3>1, <3>2 DEF Held, CutSnapshot, Plain
  <2> QED  BY <2>2, <2>3
<1> QED  BY <1>1, <1>3, <1>4, LeaveStep DEF UpgradeInv, InCopy

LEMMA CopyFailsStep == UpgradeInv /\ CopyFails => UpgradeInv'
<1> SUFFICES ASSUME UpgradeInv, CopyFails PROVE UpgradeInv'  OBVIOUS
<1>1. /\ doing = "copy" /\ Leave /\ new' = [new EXCEPT ![Obj] = IF as = "lvm" THEN "none" ELSE @]
      /\ torn' = (IF as = "lvm" THEN torn ELSE torn \cup {Obj})
      /\ UNCHANGED <<type, have, keys, poolRow, volRows, old, as, failed>>
  BY DEF CopyFails
<1>2. at \in Tasks /\ Task = "move" /\ old[Obj] = "full" /\ new[Obj] = "part"  BY <1>1 DEF UpgradeInv, InCopy
<1>3. Obj \in Objects /\ as = type  BY <1>2, AtObject DEF UpgradeInv, Names
<1>4. /\ new' \in [Objects -> {"none", "full", "part"}]
      /\ new'[Obj] = IF as = "lvm" THEN "none" ELSE new[Obj]
      /\ \A x \in Objects : x # Obj => new'[x] = new[x]
  BY <1>1, <1>3 DEF UpgradeInv, InCopy
<1>5. ASSUME type # "zfs", NEW x \in have PROVE Held(x)'
  <2>1. Held(x) /\ x \in Objects  BY <1>5 DEF UpgradeInv, RightBackend, Places
  <2>2. CASE x = Obj  BY <1>1, <1>2, <1>3, <1>4, <2>1, <2>2 DEF Held, Plain
  <2>3. CASE x # Obj
    <3>1. new'[x] = new[x] /\ (x \in torn => x \in torn')  BY <1>1, <1>4, <2>1, <2>3
    <3> QED  BY <1>1, <2>1, <2>3, <3>1 DEF Held, CutSnapshot, Plain
  <2> QED  BY <2>2, <2>3
<1> QED  BY <1>1, <1>4, <1>5, LeaveStep DEF UpgradeInv, InCopy

LEMMA UpgradeStepKeeps == UpgradeInv /\ UpgradeStep => UpgradeInv'
BY PoolStep, AddRowStep, MoveStep, SkipStep, CopyStep, CopyDoneStep, DropStep, LinkStep, ClearStep,
   CheckStep, LastSteps DEF UpgradeStep

LEMMA UpgradeStutter == UpgradeInv /\ UNCHANGED upgradeVars => UpgradeInv'
<1> SUFFICES ASSUME UpgradeInv, UNCHANGED upgradeVars PROVE UpgradeInv'  OBVIOUS
<1> USE DEF upgradeVars
<1>1. Tasks' = Tasks /\ Running' = Running  BY DEF Tasks, Running
<1>2. \A n, x : DoneFor(n, x)' = DoneFor(n, x)  BY <1>1 DEF DoneFor
<1>3. \A x : GivenUp(x)' = GivenUp(x) /\ Held(x)' = Held(x)  BY DEF GivenUp, Held, CutSnapshot, Plain, Obj
<1>4. RightBackend'  BY <1>1 DEF UpgradeInv, RightBackend
<1>5. InCopy'  BY <1>1 DEF UpgradeInv, InCopy, Task, Obj
<1>6. Places' /\ MountPoints' /\ VolumeRows'
  BY <1>2, <1>3 DEF UpgradeInv, Places, MountPoints, VolumeRows
<1> QED  BY <1>4, <1>5, <1>6 DEF UpgradeInv

LEMMA UpgradeInvInit == Init => UpgradeInv
<1> SUFFICES ASSUME Init PROVE UpgradeInv  OBVIOUS
<1>1. UpgradeInit  BY DEF Init
<1>2. type \in Backends /\ as = type  BY <1>1, UpgradeAssumption DEF UpgradeInit, Backends
<1>3. \A n, x : ~DoneFor(n, x)  BY <1>1, <1>2, NotYet DEF UpgradeInit
<1>4. ~Precedes(Unset, Idle)  BY DEF Precedes, Unset, Idle, Once, Turn
<1>5. RightBackend  BY <1>1, <1>2, <1>4 DEF RightBackend, UpgradeInit, Running
<1>6. InCopy  BY <1>1 DEF InCopy, UpgradeInit
<1>7. \A x \in have : old[x] = "full" /\ new[x] = "none"  BY <1>1 DEF UpgradeInit
<1>8. Places  BY <1>3, <1>7 DEF Places, Held
<1>9. MountPoints /\ VolumeRows  BY <1>3 DEF MountPoints, VolumeRows
<1> QED  BY <1>5, <1>6, <1>8, <1>9 DEF UpgradeInv

LEMMA UpgradeInvNext == UpgradeInv /\ [Next]_vars => UpgradeInv'
<1> SUFFICES ASSUME UpgradeInv, [Next]_vars PROVE UpgradeInv'  OBVIOUS
<1>1. CASE UNCHANGED upgradeVars  BY <1>1, UpgradeStutter
<1>2. CASE patchStorageApi
  BY <1>2, BeginStep, UpgradeStepKeeps, EndSteps DEF patchStorageApi
<1>3. CASE Fails
  BY <1>1, <1>3, CutStep, CopyFailsStep, PassStep DEF Fails
<1> QED  BY <1>1, <1>2, <1>3 DEF Next, vars

\* A run that has come to its end has moved everything.
LEMMA EndArrives ==
  ASSUME UpgradeInv, Finished
  PROVE  Arrived
<1> SUFFICES ASSUME have # {} PROVE Arrived  BY DEF Arrived
<1>1. at = End /\ have = Objects /\ as \in Backends /\ type \in Backends
  BY DEF UpgradeInv, RightBackend, Finished
<1>2. End # Idle /\ End # Pool  BY DEF End, Idle, Pool, Once, Turn
<1>3. as = type /\ poolRow = PoolName(type)
  BY <1>1, <1>2 DEF UpgradeInv, RightBackend, Running
<1>4. \A t \in Tasks : Precedes(t, at)  BY <1>1, Places0 DEF Precedes
<1>5. Profiles \in Tasks /\ Unset \in Tasks
  BY <1>1, TasksAreThose DEF AnyTask, Globally
<1>6. ~keys /\ failed = {}
  BY <1>1, <1>2, <1>4, <1>5 DEF UpgradeInv, RightBackend, Running
<1>7. poolRow # "none"  BY <1>3 DEF PoolName
<1>8. \A x : ~GivenUp(x)  BY <1>6 DEF GivenUp
<1>9. End \notin Tasks  BY <1>1, Places0
<1>10. doing = "task"  BY <1>1, <1>9 DEF UpgradeInv, InCopy
<1>11. ASSUME NEW x \in have \ torn
       PROVE  /\ x \in volRows
              /\ type # "dir" \/ x[1] # "image" => new[x] = "full" /\ old[x] # "full"
              /\ x[1] = "container" => old[x] = "link"
  <2>1. /\ DoneFor("row", x)
        /\ type # "dir" \/ x[1] # "image" => DoneFor("move", x)
        /\ x[1] = "container" => DoneFor("link", x)
        /\ type = "zfs" => DoneFor("clear", x)
    BY <1>1, <1>3, <1>4, AllTasks DEF DoneFor
  <2>2. x \in volRows  BY <1>8, <2>1 DEF UpgradeInv, VolumeRows
  <2>3. CASE type = "zfs"
    BY <1>8, <2>1, <2>2, <2>3 DEF UpgradeInv, MountPoints
  <2>4. CASE type # "zfs"
    <3>1. Held(x) /\ (DoneFor("move", x) => new[x] # "none")
          /\ (x[1] = "container" /\ DoneFor("link", x) => old[x] = "link")
      BY <2>4 DEF UpgradeInv, Places
    <3> QED  BY <1>10, <2>1, <2>2, <3>1 DEF Held
  <2> QED  BY <2>3, <2>4
<1> QED  BY <1>6, <1>7, <1>11 DEF Arrived

LEMMA OneNextPatch ==
  ASSUME NEW p \in Patches, NEW q \in Patches, NextPatch(p), NextPatch(q)
  PROVE  p = q
<1>1. p \in Int /\ q \in Int  BY StartAssumption DEF Patches
<1> QED  BY <1>1 DEF NextPatch

LEMMA UpgradePlaceInit == Init => UpgradePlace
BY DEF Init, StartInit, UpgradeInit, UpgradePlace, Running, Arrived

\* What a step of the start, but for the upgrade, does to the upgrade's place.
LEMMA StartsPlace ==
  ASSUME StartInv, UpgradePlace, Starts, UNCHANGED upgradeVars
  PROVE  UpgradePlace'
<1> USE UpgradeAssumption DEF startVars, dbVars, readyVars
<1>1. /\ Running => step = "patch" /\ NextPatch(StorageApi)
      /\ step = "patched" /\ NextPatch(StorageApi) => Arrived
      /\ StorageApi \in applied => Arrived
  BY DEF UpgradePlace
<1>2. Running' = Running /\ Arrived' = Arrived  BY DEF upgradeVars, Running, Arrived
<1>3. step = "mark" => Arrived  BY DEF StartInv, Arrived
<1>4. ~(step = "patch" /\ step' # "patch" /\ Running)
  <2> SUFFICES ASSUME step = "patch", step' # "patch", NextPatch(StorageApi) PROVE FALSE  BY <1>1
  <2>1. CASE \E p \in Patches \ {StorageApi} : RunPatch(p)  BY <2>1, OneNextPatch DEF RunPatch
  <2>2. CASE Serve  BY <2>2 DEF Serve, NextPatch
  <2> QED
    BY <2>1, <2>2 DEF Starts, Boot, CreateSchema, MarkPatch, CreateProfile, Backup, RunUpdate, UpdateStuck,
       RecordUpdate, LegacyPatch, UpdatesDone, RecordPatch, Ready, ReadyReturns
<1>5. \/ applied' = applied
      \/ step = "mark" /\ step' = "mark"
      \/ step = "patched" /\ step' = "patch" /\ \E p \in Patches : NextPatch(p) /\ applied' = applied \cup {p}
  BY DEF Starts, Boot, CreateSchema, MarkPatch, CreateProfile, Backup, RunUpdate, UpdateStuck,
     RecordUpdate, LegacyPatch, UpdatesDone, RunPatch, RecordPatch, Serve, Ready, ReadyReturns
<1>6. step' = "patched" => \E p \in Patches \ {StorageApi} : NextPatch(p) /\ applied' = applied
  BY DEF Starts, Boot, CreateSchema, MarkPatch, CreateProfile, Backup, RunUpdate, UpdateStuck,
     RecordUpdate, LegacyPatch, UpdatesDone, RunPatch, RecordPatch, Serve, Ready, ReadyReturns
<1>7. Running' => step' = "patch" /\ NextPatch(StorageApi)'
  BY <1>1, <1>2, <1>4, <1>5 DEF NextPatch
<1>8. step' = "patched" /\ NextPatch(StorageApi)' => Arrived'
  BY <1>6, OneNextPatch DEF NextPatch
<1>9. StorageApi \in applied' => Arrived'
  BY <1>1, <1>2, <1>3, <1>5, OneNextPatch DEF NextPatch
<1> QED  BY <1>7, <1>8, <1>9 DEF UpgradePlace

LEMMA UpgradePlaceNext == StartInv /\ UpgradeInv /\ UpgradePlace /\ [Next]_vars => UpgradePlace'
<1> SUFFICES ASSUME StartInv, UpgradeInv, UpgradePlace, [Next]_vars PROVE UpgradePlace'  OBVIOUS
<1> USE UpgradeAssumption DEF startVars, dbVars, readyVars
<1>1. /\ Running => step = "patch" /\ NextPatch(StorageApi)
      /\ step = "patched" /\ NextPatch(StorageApi) => Arrived
      /\ StorageApi \in applied => Arrived
  BY DEF UpgradePlace
<1>2. CASE Starts /\ UNCHANGED upgradeVars  BY <1>2, StartsPlace
<1>3. CASE UNCHANGED upgradeVars /\ UNCHANGED <<step, applied>>
  <2>1. Running' = Running /\ Arrived' = Arrived  BY <1>3 DEF upgradeVars, Running, Arrived
  <2> QED  BY <1>1, <1>3, <2>1 DEF UpgradePlace, NextPatch
\* At work, before or after the step, it is the next patch; or it is cut short.
<1>4. ASSUME UNCHANGED applied, step = "patch", NextPatch(StorageApi), step' = "patch" PROVE UpgradePlace'
  BY <1>4 DEF UpgradePlace, NextPatch
<1>5. ASSUME UNCHANGED applied, Leave, Running, step' = "down" PROVE UpgradePlace'
  BY <1>1, <1>5 DEF UpgradePlace, NextPatch, Leave, Running
<1>6. CASE patchStorageApi
  <2>1. CASE step = "patch" /\ NextPatch(StorageApi) /\ BeginUpgrade /\ UNCHANGED startVars
    BY <1>4, <2>1
  <2>2. CASE UpgradeStep /\ UNCHANGED startVars
    <3>1. Running
      BY <2>2 DEF UpgradeStep, MakePool, AddRow, MoveObject, SkipSnapshot, CopyObject, CopyDone, DropOld,
         LinkOld, ClearOld, CheckImage, UpdateProfiles, UnsetKeys, SetupStorageDriver, Doing
    <3> QED  BY <1>1, <1>4, <2>2, <3>1
  <2>3. CASE (PoolMissing \/ UpgradeFailed) /\ Exit
    BY <1>5, <2>3 DEF PoolMissing, UpgradeFailed, Exit, Doing
  <2>4. CASE Finished /\ Running /\ RunPatch(StorageApi) /\ UpgradeDone
    <3>1. Arrived  BY <2>4, EndArrives
    <3>2. Arrived' = Arrived /\ ~Running' /\ applied' = applied
      BY <2>4 DEF Arrived, UpgradeDone, Leave, Running, RunPatch
    <3> QED  BY <3>1, <3>2 DEF UpgradePlace
  <2> QED  BY <1>6, <2>1, <2>2, <2>3, <2>4 DEF patchStorageApi
<1>7. CASE Fails
  <2>1. CASE Die /\ Running /\ UpgradeCut  BY <1>5, <2>1 DEF Die, UpgradeCut
  <2>2. CASE Die /\ ~Running /\ UNCHANGED upgradeVars
    <3>1. ~Running' /\ Arrived' = Arrived  BY <2>2 DEF upgradeVars, Running, Arrived
    <3> QED  BY <1>1, <2>2, <3>1 DEF UpgradePlace, NextPatch, Die
  <2>3. CASE CopyFails /\ Die  BY <1>5, <2>3 DEF Die, CopyFails
  <2>4. CASE PassOver /\ UNCHANGED <<dbVars, step>>
    <3>1. Running  BY <2>4 DEF PassOver, Doing
    <3> QED  BY <1>1, <1>4, <2>4, <3>1
  <2> QED  BY <1>7, <2>1, <2>2, <2>3, <2>4 DEF Fails
<1>8. ASSUME NEW r \in Readiers, ReadyCall(r), UNCHANGED upgradeVars PROVE UpgradePlace'
  BY <1>3, <1>8 DEF ReadyCall
<1> QED  BY <1>2, <1>3, <1>6, <1>7, <1>8 DEF Next, vars

LEMMA UpgradeKeepsAll == UpgradeInv /\ UpgradePlace => NothingLost
BY DEF UpgradeInv, Places, Held, UpgradePlace, NothingLost, NoneGone

\* However often patchStorageApi is cut or fails and starts again, every
\* container, snapshot and image is whole at its old place or at its new one,
\* but for the snapshot copy that CutSnapshot names; and the patch is recorded
\* only when everything has its volume, its row and its link.
THEOREM UpgradeLosesNothing == Spec => []NothingLost
<1> DEFINE Inv == StartInv /\ UpgradeInv /\ UpgradePlace
<1>1. Init => Inv  BY StartInvInit, UpgradeInvInit, UpgradePlaceInit
<1>2. Inv /\ [Next]_vars => Inv'  BY StartInvNext, UpgradeInvNext, UpgradePlaceNext
<1>3. Inv => NothingLost  BY UpgradeKeepsAll
<1> QED  BY <1>1, <1>2, <1>3, PTL DEF Spec

-----------------------------------------------------------------------------
(* The migration of a container. *)

\* The sink has said m to the source, which has not read it or has passed it
\* on to the action script.
Said(m) == toSrc \in {<<m>>, <<"reply", m>>} \/ answer = m

Before == {"create", "dial", "wait", "header", "reply"}
Over   == {"return", "templates", "ok", "fail", "failed"}

\* The control connection: a reply is sent once, to a source that waits for it
\* or has given up, and the verdict after Do has heard of its goroutine.
TalkInv ==
  /\ job \in JobType
  /\ toSrc \in {<<>>, <<"reply">>, <<"ok">>, <<"error">>, <<"reply", "ok">>, <<"reply", "error">>}
  /\ answer \in {"none", "ok", "error"}
  /\ kerr \in BOOLEAN /\ ferr \in BOOLEAN /\ rerr \in BOOLEAN
  /\ spc \in {"wait", "header"} =>
       toSink = <<>> /\ toSrc = <<>> /\ kpc \in {"create", "dial", "wait", "header", "fail", "failed"}
  /\ kpc \in Before => toSrc = <<>> /\ spc \in {"wait", "header", "reply", "failed"}
  /\ spc \notin {"wait", "header", "reply", "failed"} => toSrc \in {<<>>, <<"ok">>, <<"error">>}
  /\ answer # "none" => spc \in {"answered", "ok", "failed"}
  /\ Said("ok") \/ Said("error") => kpc \in Over /\ rpc = "gone"

\* The container on its old host follows the dump; when the sink's goroutine
\* has the images it is frozen, or dead if nobody can be told of the restore.
DumpInv ==
  /\ ~job.live =>
       /\ spc \notin {"dump", "dumping", "images", "final", "answered"}
       /\ dump = "none" /\ rpc \notin {"temp", "criu", "restore"}
  /\ job.live /\ job.script =>
       /\ dump \in {"none", "running", "dumped", "failed", "done"}
       /\ sct = CASE dump = "dumped" -> "frozen" [] dump = "done" -> "dead" [] OTHER -> "running"
       /\ spc \in {"wait", "header", "reply", "send", "dump"} => dump = "none"
       /\ dump = "running" => spc = "dumping"
       /\ dump = "done" => answer = "ok"
       /\ spc = "dumping" => dump \in {"running", "dumped", "failed"}
       /\ spc \in {"images", "final", "verdict"} => dump = "dumped"
       /\ rpc \in {"fs", "restore"} => dump = "dumped"
       /\ kct = "running" => dump \in {"dumped", "done"}
  /\ job.live /\ ~job.script =>
       /\ dump = "none" /\ sct \in {"running", "dead"}
       /\ spc \in {"images", "final", "verdict"} => sct = "dead"
       /\ rpc \in {"fs", "restore"} => sct = "dead"
       /\ kct = "running" => sct = "dead"

\* What the goroutine of the file system has received when it is done.
FlowInv ==
  /\ kpc \in Before => fpc = "off" /\ rows = 0 /\ got = 0
  /\ got \in 0..Expected /\ rows \in 0..job.snaps
  /\ fpc = "recv" => got < Expected
  /\ fpc \in {"shift", "end", "send", "gone"} /\ ~ferr =>
       got = Expected /\ (kpc # "failed" => rows = job.snaps)

\* The goroutines of the sink and what Do knows of them.
SinkInv ==
  /\ kpc \in Before \cup {"loop", "report"} \cup Over
  /\ kpc \in Before => fpc = "off" /\ rpc = "off"
  /\ kpc = "failed" /\ "late" \notin marks => fpc \in {"off", "send", "gone"} /\ rows = 0
  /\ rpc = "restore" => ~rerr
  /\ rpc = "restore" \/ (rpc \in {"end", "gone"} /\ ~rerr) => fpc = "gone" /\ ~ferr
  /\ kpc \in {"report", "return", "templates", "ok"} => rpc = "gone"
  /\ kct = "deleted" => kpc = "failed"
  /\ kpc \notin {"create", "failed"} => kct # "none"
  /\ kct \in {"none", "created", "running", "deleted"}

\* What a verdict is worth: the container runs on its new host if Do reports
\* no error, unless the other goroutine wrote over it, and only then.
VerdictInv ==
  /\ kct = "running" =>
       /\ job.live /\ rpc \in {"end", "gone"} /\ ~rerr /\ ~Said("error")
       /\ kpc \in {"report", "return"} => ~kerr
  /\ kpc = "loop" /\ rpc = "end" /\ job.live /\ ~rerr => kct = "running"
  /\ "raced" \notin marks /\ ((kpc \in {"report", "return"} /\ ~kerr) \/ kpc \in {"templates", "ok"}) =>
       ~rerr /\ (job.live => kct = "running")
  /\ "raced" \notin marks /\ Said("ok") =>
       \/ kpc = "return" /\ ~kerr
       \/ kpc \in {"templates", "ok"}
       \/ kpc \in {"fail", "failed"} /\ "templates" \in marks

TempsInv == spc \in {"wait", "header", "reply", "answered", "ok", "failed"} => temps = {}

MoveInv == TalkInv /\ DumpInv /\ FlowInv /\ SinkInv /\ VerdictInv /\ TempsInv

\* Constants of a migration: it is about one job, and the sink waits for a
\* stream for every snapshot and one more at least.
LEMMA JobKept == MoveNext => job' = job /\ Expected' = Expected
<1> SUFFICES ASSUME MoveNext PROVE job' = job  BY DEF Expected, Fs, MigrationType
<1> QED
  BY DEF MoveNext, MoveSteps, CreateTarget, Dial, ConnectSource, ConnectSink, SourceSetup, SourceHeader,
     SourceReply, RsyncStream, SendStream, SendFails, Clogged, Dump, DumpDone, SourceDumped, SendImages,
     SendImagesFails, Verdict, ScriptEnds, SourceEnds, SinkHeader, SinkReply, FsBegin, FsNext, zfsRecv,
     btrfsRecv, RecvFails, FsShift, FsEnds, RestoreTemp, ImagesLost, RestoreFs, Restore, TakeRestore,
     TakeSource, Report, Return, TemplateApply, Delete, DialFails, DumpFails, Break, RecvStream

LEMMA ExpectedFact == ASSUME TalkInv PROVE /\ job.snaps \in Nat /\ Expected \in Nat
                                          /\ job.snaps < Expected
BY DEF TalkInv, JobType, Expected

\* The few messages there can be.
LEMMA AppendTwo == ASSUME NEW m, NEW n PROVE Append(<<m>>, n) = <<m, n>>
<1>1. <<m>> \in Seq({m, n}) /\ <<m, n>> \in Seq({m, n}) /\ Len(<<m>>) = 1 /\ Len(<<m, n>>) = 2
  OBVIOUS
<1>2. /\ Append(<<m>>, n) \in Seq({m, n}) /\ Len(Append(<<m>>, n)) = 2
      /\ Append(<<m>>, n)[1] = m /\ Append(<<m>>, n)[2] = n
  BY <1>1
<1>3. \A i \in 1..2 : Append(<<m>>, n)[i] = <<m, n>>[i]  BY <1>2
<1> QED  BY <1>1, <1>2, <1>3, SeqEqual

LEMMA Messages ==
  /\ Append(<<>>, "reply") = <<"reply">> /\ Append(<<>>, "ok") = <<"ok">> /\ Append(<<>>, "error") =
     <<"error">>
  /\ Append(<<"reply">>, "ok") = <<"reply", "ok">> /\ Append(<<"reply">>, "error") = <<"reply", "error">>
  /\ Tail(<<"reply">>) = <<>> /\ Tail(<<"ok">>) = <<>> /\ Tail(<<"error">>) = <<>>
  /\ Tail(<<"reply", "ok">>) = <<"ok">> /\ Tail(<<"reply", "error">>) = <<"error">>
  /\ Head(<<"ok">>) = "ok" /\ Head(<<"error">>) = "error"
<1>1. Append(<<"reply">>, "ok") = <<"reply", "ok">> /\ Append(<<"reply">>, "error") = <<"reply", "error">>
  BY AppendTwo
<1> QED  BY <1>1

LEMMA Different ==
  /\ <<"ok">> # <<"error">> /\ <<"ok">> # <<"reply">> /\ <<"error">> # <<"reply">>
  /\ <<"ok">> # <<>> /\ <<"error">> # <<>> /\ <<"reply">> # <<>>
  /\ \A m, n \in {"reply", "ok", "error"} : <<"reply", m>> # <<>> /\ <<"reply", m>> # <<n>>
  /\ <<"reply", "ok">> # <<"reply", "error">>
  /\ Head(<<"reply">>) = "reply" /\ \A m \in {"ok", "error"} : Head(<<"reply", m>>) = "reply" /\
     Head(<<m>>) = m
OBVIOUS

LEMMA TalkNext == MoveInv /\ MoveNext => TalkInv'
<1> SUFFICES ASSUME MoveInv, MoveNext PROVE TalkInv'  OBVIOUS
<1> USE DEF MoveInv, TalkInv, FlowInv, SinkInv, Said, Before, Over, linkVars, srcVars, sinkVars, recvVars
<1>1. CASE CreateTarget  BY <1>1 DEF CreateTarget, Mark
<1>2. CASE Dial  BY <1>2 DEF Dial
<1>3. ASSUME NEW x \in Wanted, ConnectSource(x) PROVE TalkInv'  BY <1>3 DEF ConnectSource
<1>4. ASSUME NEW x \in Wanted, ConnectSink(x) PROVE TalkInv'  BY <1>4 DEF ConnectSink
<1>5. CASE SourceSetup  BY <1>5 DEF SourceSetup, Mark
<1>6. CASE SourceHeader  BY <1>6 DEF SourceHeader, SendControl, Send
<1>7. CASE SourceReply
  <2>1. CASE toSrc # <<>> /\ Head(toSrc) = "reply"
    <3>1. toSrc \in {<<"reply">>, <<"reply", "ok">>, <<"reply", "error">>}  BY <2>1, Different
    <3>2. toSrc' = Tail(toSrc) /\ spc' = "send" /\ UNCHANGED <<job, toSink, answer, kpc, rpc, kerr, ferr, rerr>>
      BY <1>7, <2>1 DEF SourceReply, SendControl, Send
    <3>3. toSrc' \in {<<>>, <<"ok">>, <<"error">>}  BY <3>1, <3>2, Messages
    <3>4. \A m \in {"ok", "error"} : toSrc' = <<m>> => toSrc = <<"reply", m>>
      BY <3>1, <3>2, Messages, Different
    <3>5. answer' = "none" /\ kpc \in Over \cup {"loop", "report"} /\ UNCHANGED <<kpc, rpc>>  BY <1>7, <3>1, <3>2, Different DEF SourceReply
    <3> QED  BY <3>1, <3>2, <3>3, <3>4, <3>5, Different
  <2>2. CASE ~(toSrc # <<>> /\ Head(toSrc) = "reply")
    BY <1>7, <2>2 DEF SourceReply, SendControl, Send
  <2> QED  BY <2>1, <2>2
<1>8. CASE RsyncStream  BY <1>8 DEF RsyncStream, abort, SendControl, Send, Cleanup, Onwards
<1>9. CASE SendStream  BY <1>9 DEF SendStream, Onwards
<1>10. CASE SendFails  BY <1>10 DEF SendFails, abort, SendControl, Send, Cleanup
<1>11. CASE Clogged  BY <1>11 DEF Clogged, Mark
<1>12. CASE Dump  BY <1>12 DEF Dump, abort, SendControl, Send, Cleanup
<1>13. CASE DumpDone  BY <1>13 DEF DumpDone
<1>14. CASE SourceDumped  BY <1>14 DEF SourceDumped, abort, SendControl, Send, Cleanup
<1>15. CASE SendImages  BY <1>15 DEF SendImages, abort, SendControl, Send, Cleanup
<1>16. CASE SendImagesFails  BY <1>16 DEF SendImagesFails, abort, SendControl, Send, Cleanup
<1>17. CASE Verdict
  <2>1. toSrc \in {<<>>, <<"ok">>, <<"error">>}  BY <1>17 DEF Verdict
  <2>2. CASE toSrc = <<>>  BY <1>17, <2>2 DEF Verdict
  <2>3. ASSUME NEW m \in {"ok", "error"}, toSrc = <<m>> PROVE TalkInv'
    <3>1. toSrc' = <<>> /\ UNCHANGED <<job, toSink, kpc, rpc, kerr, ferr, rerr>>
      BY <1>17, <2>3, Messages DEF Verdict
    <3>2. answer' \in {m, answer} /\ spc' \notin {"wait", "header", "reply"}
      BY <1>17, <2>3, Messages DEF Verdict, Answer
    <3>3. answer' # answer => spc' = "answered"  BY <1>17 DEF Verdict, Answer
    <3>4. answer = "none"  BY <1>17 DEF Verdict
    <3> QED  BY <1>17, <2>3, <3>1, <3>2, <3>3, <3>4 DEF Verdict
  <2> QED  BY <2>1, <2>2, <2>3
<1>18. CASE ScriptEnds  BY <1>18 DEF ScriptEnds
<1>19. CASE SourceEnds  BY <1>19 DEF SourceEnds
<1>20. CASE SinkHeader  BY <1>20 DEF SinkHeader, SendControl, Send
<1>21. CASE SinkReply
  <2>1. toSrc = <<>> /\ spc \in {"reply", "failed"} /\ answer = "none"  BY <1>21 DEF SinkReply
  <2>2. toSrc' \in {<<>>, <<"reply">>} /\ UNCHANGED <<job, toSink, spc, answer, kerr, ferr, rerr>>
    BY <1>21, <2>1, Messages DEF SinkReply, SendControl, Send
  <2>3. kpc' \in {"loop", "fail"}  BY <1>21 DEF SinkReply
  <2> QED  BY <2>1, <2>2, <2>3, Different
<1>22. CASE FsBegin
  <2>1. UNCHANGED <<job, toSrc, toSink, answer, spc, kpc, rpc, kerr, rerr>> /\ ferr' \in BOOLEAN
    BY <1>22 DEF FsBegin
  <2> QED  BY <2>1
<1>23. CASE FsNext
  <2>1. UNCHANGED <<job, toSrc, toSink, answer, spc, kpc, rpc, kerr, rerr>> /\ ferr' \in BOOLEAN
    BY <1>23 DEF FsNext
  <2> QED  BY <2>1
<1>24. CASE zfsRecv  BY <1>24 DEF zfsRecv, RecvStream
<1>25. CASE btrfsRecv  BY <1>25 DEF btrfsRecv, RecvStream
<1>26. CASE RecvFails  BY <1>26 DEF RecvFails
<1>27. CASE FsShift
  <2>1. UNCHANGED <<job, toSrc, toSink, answer, spc, kpc, rpc, kerr, rerr>> /\ ferr' \in BOOLEAN
    BY <1>27 DEF FsShift
  <2> QED  BY <2>1
<1>28. CASE FsEnds  BY <1>28 DEF FsEnds
<1>29. CASE RestoreTemp  BY <1>29 DEF RestoreTemp
<1>30. CASE ImagesLost  BY <1>30 DEF ImagesLost
<1>31. CASE RestoreFs  BY <1>31 DEF RestoreFs
<1>32. CASE Restore  BY <1>32 DEF Restore
<1>33. CASE TakeRestore  BY <1>33 DEF TakeRestore
<1>34. CASE TakeSource  BY <1>34 DEF TakeSource
<1>35. CASE Report
  <2>1. toSrc \in {<<>>, <<"reply">>} /\ answer = "none" /\ rpc = "gone"  BY <1>35 DEF Report
  <2>2. \E m \in {"ok", "error"} : toSrc' \in {toSrc, Append(toSrc, m)}  BY <1>35 DEF Report, SendControl, Send
  <2>3. /\ kpc' = "return" /\ UNCHANGED <<job, toSink, spc, answer, rpc, kerr, ferr, rerr>>
        /\ spc \notin {"wait", "header"} /\ kpc \notin Before
    BY <1>35 DEF Report, SendControl, Send
  <2>4. toSrc = <<"reply">> => spc \in {"reply", "failed"}  BY <2>3, Different
  <2> QED  BY <2>1, <2>2, <2>3, <2>4, Messages, Different
<1>36. CASE Return  BY <1>36 DEF Return
<1>37. CASE TemplateApply  BY <1>37 DEF TemplateApply, Mark
<1>38. CASE Delete  BY <1>38 DEF Delete
<1>39. CASE DialFails  BY <1>39 DEF DialFails, Mark
<1>40. CASE DumpFails  BY <1>40 DEF DumpFails
<1>41. CASE Break  BY <1>41 DEF Break
<1> QED
  BY <1>1, <1>2, <1>3, <1>4, <1>5, <1>6, <1>7, <1>8, <1>9, <1>10, <1>11, <1>12, <1>13, <1>14,
     <1>15, <1>16, <1>17, <1>18, <1>19, <1>20, <1>21, <1>22, <1>23, <1>24, <1>25, <1>26, <1>27, <1>28,
     <1>29, <1>30, <1>31, <1>32, <1>33, <1>34, <1>35, <1>36, <1>37, <1>38, <1>39, <1>40, <1>41
  DEF MoveNext, MoveSteps

LEMMA DumpNext == MoveInv /\ MoveNext => DumpInv'
<1> SUFFICES ASSUME MoveInv, MoveNext PROVE DumpInv'  OBVIOUS
<1> USE DEF MoveInv, TalkInv, DumpInv, SinkInv, VerdictInv, Said, Before, Over, linkVars, srcVars, sinkVars, recvVars
<1>1. CASE CreateTarget  BY <1>1 DEF CreateTarget, Mark
<1>2. CASE Dial  BY <1>2 DEF Dial
<1>3. ASSUME NEW x \in Wanted, ConnectSource(x) PROVE DumpInv'  BY <1>3 DEF ConnectSource
<1>4. ASSUME NEW x \in Wanted, ConnectSink(x) PROVE DumpInv'  BY <1>4 DEF ConnectSink
<1>5. CASE SourceSetup  BY <1>5 DEF SourceSetup, Mark
<1>6. CASE SourceHeader  BY <1>6 DEF SourceHeader, SendControl, Send
<1>7. CASE SourceReply  BY <1>7 DEF SourceReply, SendControl, Send
<1>8. CASE RsyncStream
  <2>1. \/ spc = "final" /\ spc' = "verdict"
        \/ spc = "send" /\ spc' = "send"
        \/ spc = "send" /\ spc' = (IF job.live THEN "dump" ELSE "verdict")
        \/ spc' = "failed"
    BY <1>8 DEF RsyncStream, Onwards, abort
  <2>2. UNCHANGED <<job, sct, dump, answer, rpc, kct>>  BY <1>8 DEF RsyncStream
  <2> QED  BY <1>8, <2>1, <2>2 DEF RsyncStream
<1>9. CASE SendStream
  <2>1. \/ spc = "final" /\ spc' = "verdict"
        \/ spc = "send" /\ spc' = "send"
        \/ spc = "send" /\ spc' = (IF job.live THEN "dump" ELSE "verdict")
        \/ spc' = "failed"
    BY <1>9 DEF SendStream, Onwards
  <2>2. UNCHANGED <<job, sct, dump, answer, rpc, kct>>  BY <1>9 DEF SendStream, sinkVars, recvVars
  <2> QED  BY <1>9, <2>1, <2>2 DEF SendStream
<1>10. CASE SendFails  BY <1>10 DEF SendFails, abort, SendControl, Send, Cleanup
<1>11. CASE Clogged  BY <1>11 DEF Clogged, Mark
<1>12. CASE Dump
  <2>1. job.live /\ dump = "none" /\ sct \in {"running", "dead"} /\ answer = "none"
    BY <1>12 DEF Dump
  <2>2. CASE job.script
    <3>1. rpc \notin {"fs", "restore"} /\ kct # "running" /\ sct = "running"  BY <2>1, <2>2
    <3>2. /\ dump' = "running" /\ spc' = "dumping"
          /\ UNCHANGED <<job, sct, answer, rpc, kct>>
      BY <1>12, <2>2 DEF Dump
    <3> QED  BY <2>1, <2>2, <3>1, <3>2
  <2>3. CASE ~job.script /\ sct' = "dead"  BY <1>12, <2>1, <2>3 DEF Dump, abort, Cleanup
  <2>4. CASE ~job.script /\ sct' = sct  BY <1>12, <2>1, <2>4 DEF Dump, abort, Cleanup
  <2> QED  BY <1>12, <2>2, <2>3, <2>4 DEF Dump
<1>13. CASE DumpDone  BY <1>13 DEF DumpDone
<1>14. CASE SourceDumped  BY <1>14 DEF SourceDumped, abort, SendControl, Send, Cleanup
<1>15. CASE SendImages  BY <1>15 DEF SendImages, abort, SendControl, Send, Cleanup
<1>16. CASE SendImagesFails  BY <1>16 DEF SendImagesFails, abort, SendControl, Send, Cleanup
<1>17. CASE Verdict  BY <1>17 DEF Verdict, Cleanup, Answer, Mark
<1>18. CASE ScriptEnds  BY <1>18 DEF ScriptEnds
<1>19. CASE SourceEnds  BY <1>19 DEF SourceEnds
<1>20. CASE SinkHeader  BY <1>20 DEF SinkHeader, SendControl, Send
<1>21. CASE SinkReply  BY <1>21 DEF SinkReply, SendControl, Send
<1>22. CASE FsBegin  BY <1>22 DEF FsBegin
<1>23. CASE FsNext  BY <1>23 DEF FsNext
<1>24. CASE zfsRecv  BY <1>24 DEF zfsRecv, RecvStream
<1>25. CASE btrfsRecv  BY <1>25 DEF btrfsRecv, RecvStream
<1>26. CASE RecvFails  BY <1>26 DEF RecvFails
<1>27. CASE FsShift  BY <1>27 DEF FsShift
<1>28. CASE FsEnds  BY <1>28 DEF FsEnds
<1>29. CASE RestoreTemp  BY <1>29 DEF RestoreTemp
<1>30. CASE ImagesLost  BY <1>30 DEF ImagesLost
<1>31. CASE RestoreFs  BY <1>31 DEF RestoreFs
<1>32. CASE Restore  BY <1>32 DEF Restore
<1>33. CASE TakeRestore  BY <1>33 DEF TakeRestore
<1>34. CASE TakeSource  BY <1>34 DEF TakeSource
<1>35. CASE Report  BY <1>35 DEF Report, SendControl, Send
<1>36. CASE Return  BY <1>36 DEF Return
<1>37. CASE TemplateApply  BY <1>37 DEF TemplateApply, Mark
<1>38. CASE Delete  BY <1>38 DEF Delete
<1>39. CASE DialFails  BY <1>39 DEF DialFails, Mark
<1>40. CASE DumpFails  BY <1>40 DEF DumpFails
<1>41. CASE Break  BY <1>41 DEF Break
<1> QED
  BY <1>1, <1>2, <1>3, <1>4, <1>5, <1>6, <1>7, <1>8, <1>9, <1>10, <1>11, <1>12, <1>13, <1>14,
     <1>15, <1>16, <1>17, <1>18, <1>19, <1>20, <1>21, <1>22, <1>23, <1>24, <1>25, <1>26, <1>27, <1>28,
     <1>29, <1>30, <1>31, <1>32, <1>33, <1>34, <1>35, <1>36, <1>37, <1>38, <1>39, <1>40, <1>41
  DEF MoveNext, MoveSteps

LEMMA FlowNext == MoveInv /\ MoveNext => FlowInv'
<1> SUFFICES ASSUME MoveInv, MoveNext PROVE FlowInv'  OBVIOUS
<1> USE DEF MoveInv, FlowInv, SinkInv, Before, linkVars, srcVars, sinkVars, recvVars
<1>a. Expected' = Expected /\ job' = job /\ job.snaps \in Nat /\ Expected \in Nat /\ job.snaps < Expected
  BY JobKept, ExpectedFact
<1>1. CASE CreateTarget  BY <1>1, <1>a DEF CreateTarget, Mark
<1>2. CASE Dial  BY <1>2, <1>a DEF Dial
<1>3. ASSUME NEW x \in Wanted, ConnectSource(x) PROVE FlowInv'  BY <1>3, <1>a DEF ConnectSource
<1>4. ASSUME NEW x \in Wanted, ConnectSink(x) PROVE FlowInv'  BY <1>4, <1>a DEF ConnectSink
<1>5. CASE SourceSetup  BY <1>5, <1>a DEF SourceSetup, Mark
<1>6. CASE SourceHeader  BY <1>6, <1>a DEF SourceHeader, SendControl, Send
<1>7. CASE SourceReply  BY <1>7, <1>a DEF SourceReply, SendControl, Send
<1>8. CASE RsyncStream  BY <1>8, <1>a DEF RsyncStream, abort, SendControl, Send, Cleanup, Onwards
<1>9. CASE SendStream  BY <1>9, <1>a DEF SendStream, Onwards
<1>10. CASE SendFails  BY <1>10, <1>a DEF SendFails, abort, SendControl, Send, Cleanup
<1>11. CASE Clogged  BY <1>11, <1>a DEF Clogged, Mark
<1>12. CASE Dump  BY <1>12, <1>a DEF Dump, abort, SendControl, Send, Cleanup
<1>13. CASE DumpDone  BY <1>13, <1>a DEF DumpDone
<1>14. CASE SourceDumped  BY <1>14, <1>a DEF SourceDumped, abort, SendControl, Send, Cleanup
<1>15. CASE SendImages  BY <1>15, <1>a DEF SendImages, abort, SendControl, Send, Cleanup
<1>16. CASE SendImagesFails  BY <1>16, <1>a DEF SendImagesFails, abort, SendControl, Send, Cleanup
<1>17. CASE Verdict  BY <1>17, <1>a DEF Verdict, Cleanup, Answer, Mark
<1>18. CASE ScriptEnds  BY <1>18, <1>a DEF ScriptEnds
<1>19. CASE SourceEnds  BY <1>19, <1>a DEF SourceEnds
<1>20. CASE SinkHeader  BY <1>20, <1>a DEF SinkHeader, SendControl, Send
<1>21. CASE SinkReply  BY <1>21, <1>a DEF SinkReply, SendControl, Send
<1>22. CASE FsBegin  BY <1>22, <1>a DEF FsBegin
<1>23. CASE FsNext  BY <1>23, <1>a DEF FsNext
<1>24. CASE zfsRecv  BY <1>24, <1>a DEF zfsRecv, RecvStream
<1>25. CASE btrfsRecv  BY <1>25, <1>a DEF btrfsRecv, RecvStream
<1>26. CASE RecvFails  BY <1>26, <1>a DEF RecvFails
<1>27. CASE FsShift  BY <1>27, <1>a DEF FsShift
<1>28. CASE FsEnds  BY <1>28, <1>a DEF FsEnds
<1>29. CASE RestoreTemp  BY <1>29, <1>a DEF RestoreTemp
<1>30. CASE ImagesLost  BY <1>30, <1>a DEF ImagesLost
<1>31. CASE RestoreFs  BY <1>31, <1>a DEF RestoreFs
<1>32. CASE Restore  BY <1>32, <1>a DEF Restore
<1>33. CASE TakeRestore  BY <1>33, <1>a DEF TakeRestore
<1>34. CASE TakeSource  BY <1>34, <1>a DEF TakeSource
<1>35. CASE Report  BY <1>35, <1>a DEF Report, SendControl, Send
<1>36. CASE Return  BY <1>36, <1>a DEF Return
<1>37. CASE TemplateApply  BY <1>37, <1>a DEF TemplateApply, Mark
<1>38. CASE Delete  BY <1>38, <1>a DEF Delete
<1>39. CASE DialFails  BY <1>39, <1>a DEF DialFails, Mark
<1>40. CASE DumpFails  BY <1>40, <1>a DEF DumpFails
<1>41. CASE Break  BY <1>41, <1>a DEF Break
<1> QED
  BY <1>1, <1>2, <1>3, <1>4, <1>5, <1>6, <1>7, <1>8, <1>9, <1>10, <1>11, <1>12, <1>13, <1>14,
     <1>15, <1>16, <1>17, <1>18, <1>19, <1>20, <1>21, <1>22, <1>23, <1>24, <1>25, <1>26, <1>27, <1>28,
     <1>29, <1>30, <1>31, <1>32, <1>33, <1>34, <1>35, <1>36, <1>37, <1>38, <1>39, <1>40, <1>41
  DEF MoveNext, MoveSteps

LEMMA SinkNext == MoveInv /\ MoveNext => SinkInv'
<1> SUFFICES ASSUME MoveInv, MoveNext PROVE SinkInv'  OBVIOUS
<1> USE DEF MoveInv, TalkInv, FlowInv, SinkInv, VerdictInv, Before, Over, linkVars, srcVars, sinkVars, recvVars
<1>1. CASE CreateTarget  BY <1>1 DEF CreateTarget, Mark
<1>2. CASE Dial  BY <1>2 DEF Dial
<1>3. ASSUME NEW x \in Wanted, ConnectSource(x) PROVE SinkInv'  BY <1>3 DEF ConnectSource
<1>4. ASSUME NEW x \in Wanted, ConnectSink(x) PROVE SinkInv'  BY <1>4 DEF ConnectSink
<1>5. CASE SourceSetup  BY <1>5 DEF SourceSetup, Mark
<1>6. CASE SourceHeader  BY <1>6 DEF SourceHeader, SendControl, Send
<1>7. CASE SourceReply  BY <1>7 DEF SourceReply, SendControl, Send
<1>8. CASE RsyncStream  BY <1>8 DEF RsyncStream, abort, SendControl, Send, Cleanup, Onwards
<1>9. CASE SendStream  BY <1>9 DEF SendStream, Onwards
<1>10. CASE SendFails  BY <1>10 DEF SendFails, abort, SendControl, Send, Cleanup
<1>11. CASE Clogged  BY <1>11 DEF Clogged, Mark
<1>12. CASE Dump  BY <1>12 DEF Dump, abort, SendControl, Send, Cleanup
<1>13. CASE DumpDone  BY <1>13 DEF DumpDone
<1>14. CASE SourceDumped  BY <1>14 DEF SourceDumped, abort, SendControl, Send, Cleanup
<1>15. CASE SendImages  BY <1>15 DEF SendImages, abort, SendControl, Send, Cleanup
<1>16. CASE SendImagesFails  BY <1>16 DEF SendImagesFails, abort, SendControl, Send, Cleanup
<1>17. CASE Verdict  BY <1>17 DEF Verdict, Cleanup, Answer, Mark
<1>18. CASE ScriptEnds  BY <1>18 DEF ScriptEnds
<1>19. CASE SourceEnds  BY <1>19 DEF SourceEnds
<1>20. CASE SinkHeader  BY <1>20 DEF SinkHeader, SendControl, Send
<1>21. CASE SinkReply  BY <1>21 DEF SinkReply, SendControl, Send
<1>22. CASE FsBegin  BY <1>22 DEF FsBegin
<1>23. CASE FsNext  BY <1>23 DEF FsNext
<1>24. CASE zfsRecv  BY <1>24 DEF zfsRecv, RecvStream
<1>25. CASE btrfsRecv  BY <1>25 DEF btrfsRecv, RecvStream
<1>26. CASE RecvFails  BY <1>26 DEF RecvFails
<1>27. CASE FsShift  BY <1>27 DEF FsShift
<1>28. CASE FsEnds  BY <1>28 DEF FsEnds
<1>29. CASE RestoreTemp  BY <1>29 DEF RestoreTemp
<1>30. CASE ImagesLost  BY <1>30 DEF ImagesLost
<1>31. CASE RestoreFs  BY <1>31 DEF RestoreFs
<1>32. CASE Restore  BY <1>32 DEF Restore
<1>33. CASE TakeRestore  BY <1>33 DEF TakeRestore
<1>34. CASE TakeSource  BY <1>34 DEF TakeSource
<1>35. CASE Report  BY <1>35 DEF Report, SendControl, Send
<1>36. CASE Return  BY <1>36 DEF Return
<1>37. CASE TemplateApply  BY <1>37 DEF TemplateApply, Mark
<1>38. CASE Delete  BY <1>38 DEF Delete
<1>39. CASE DialFails  BY <1>39 DEF DialFails, Mark
<1>40. CASE DumpFails  BY <1>40 DEF DumpFails
<1>41. CASE Break  BY <1>41 DEF Break
<1> QED
  BY <1>1, <1>2, <1>3, <1>4, <1>5, <1>6, <1>7, <1>8, <1>9, <1>10, <1>11, <1>12, <1>13, <1>14,
     <1>15, <1>16, <1>17, <1>18, <1>19, <1>20, <1>21, <1>22, <1>23, <1>24, <1>25, <1>26, <1>27, <1>28,
     <1>29, <1>30, <1>31, <1>32, <1>33, <1>34, <1>35, <1>36, <1>37, <1>38, <1>39, <1>40, <1>41
  DEF MoveNext, MoveSteps

LEMMA VerdictNext == MoveInv /\ MoveNext => VerdictInv'
<1> SUFFICES ASSUME MoveInv, MoveNext PROVE VerdictInv'  OBVIOUS
<1> USE DEF MoveInv, TalkInv, DumpInv, FlowInv, SinkInv, VerdictInv, Said, Before, Over, linkVars, srcVars, sinkVars, recvVars
<1>1. CASE CreateTarget  BY <1>1 DEF CreateTarget, Mark
<1>2. CASE Dial  BY <1>2 DEF Dial
<1>3. ASSUME NEW x \in Wanted, ConnectSource(x) PROVE VerdictInv'  BY <1>3 DEF ConnectSource
<1>4. ASSUME NEW x \in Wanted, ConnectSink(x) PROVE VerdictInv'  BY <1>4 DEF ConnectSink
<1>5. CASE SourceSetup  BY <1>5 DEF SourceSetup, Mark
<1>6. CASE SourceHeader  BY <1>6 DEF SourceHeader, SendControl, Send
<1>7. CASE SourceReply
  <2>1. UNCHANGED <<job, kpc, kct, rpc, kerr, rerr, marks, answer>> /\ toSrc' \in {toSrc, Tail(toSrc)}
    BY <1>7 DEF SourceReply, SendControl, Send
  <2>2. \A m \in {"ok", "error"} : toSrc' \in {<<m>>, <<"reply", m>>} => toSrc \in {<<m>>, <<"reply", m>>}
    <3>1. CASE toSrc' = toSrc  BY <3>1
    <3>2. CASE toSrc' = Tail(toSrc) /\ Head(toSrc) = "reply" /\ toSrc # <<>>
      <4>1. toSrc \in {<<"reply">>, <<"reply", "ok">>, <<"reply", "error">>}  BY <3>2, Different
      <4> QED  BY <3>2, <4>1, Messages, Different
    <3> QED  BY <1>7, <3>1, <3>2 DEF SourceReply, SendControl, Send
  <2> QED  BY <2>1, <2>2
<1>8. CASE RsyncStream  BY <1>8 DEF RsyncStream, abort, SendControl, Send, Cleanup, Onwards
<1>9. CASE SendStream  BY <1>9 DEF SendStream, Onwards
<1>10. CASE SendFails  BY <1>10 DEF SendFails, abort, SendControl, Send, Cleanup
<1>11. CASE Clogged  BY <1>11 DEF Clogged, Mark
<1>12. CASE Dump  BY <1>12 DEF Dump, abort, SendControl, Send, Cleanup
<1>13. CASE DumpDone  BY <1>13 DEF DumpDone
<1>14. CASE SourceDumped  BY <1>14 DEF SourceDumped, abort, SendControl, Send, Cleanup
<1>15. CASE SendImages  BY <1>15 DEF SendImages, abort, SendControl, Send, Cleanup
<1>16. CASE SendImagesFails  BY <1>16 DEF SendImagesFails, abort, SendControl, Send, Cleanup
<1>17. CASE Verdict
  <2>1. toSrc \in {<<>>, <<"ok">>, <<"error">>} /\ answer = "none"  BY <1>17 DEF Verdict
  <2>2. UNCHANGED <<job, kpc, kct, rpc, kerr, rerr>> /\ ("raced" \in marks' <=> "raced" \in marks)
        /\ ("templates" \in marks' <=> "templates" \in marks)
    BY <1>17 DEF Verdict, Mark
  <2>3. \A m \in {"ok", "error"} : Said(m)' => Said(m)
    <3>1. CASE toSrc = <<>>  BY <1>17, <3>1, Different DEF Verdict
    <3>2. ASSUME NEW m \in {"ok", "error"}, toSrc = <<m>>
          PROVE  toSrc' = <<>> /\ answer' \in {"none", m}
      BY <1>17, <2>1, <3>2, Messages, Different DEF Verdict, Answer
    <3> QED  BY <2>1, <3>1, <3>2, Different
  <2> QED  BY <2>2, <2>3
<1>18. CASE ScriptEnds  BY <1>18 DEF ScriptEnds
<1>19. CASE SourceEnds  BY <1>19 DEF SourceEnds
<1>20. CASE SinkHeader  BY <1>20 DEF SinkHeader, SendControl, Send
<1>21. CASE SinkReply
  <2>1. toSrc = <<>> /\ answer = "none" /\ kct # "running"  BY <1>21 DEF SinkReply
  <2>2. toSrc' \in {<<>>, <<"reply">>} /\ answer' = "none"
    BY <1>21, <2>1, Messages DEF SinkReply, SendControl, Send
  <2>3. kct' = kct /\ kpc' \in {"loop", "fail"} /\ rpc' \in {"temp", "fs", rpc} /\ rpc = "off"
    BY <1>21 DEF SinkReply
  <2> QED  BY <2>1, <2>2, <2>3, Different
<1>22. CASE FsBegin  BY <1>22 DEF FsBegin
<1>23. CASE FsNext  BY <1>23 DEF FsNext
<1>24. CASE zfsRecv  BY <1>24 DEF zfsRecv, RecvStream
<1>25. CASE btrfsRecv  BY <1>25 DEF btrfsRecv, RecvStream
<1>26. CASE RecvFails  BY <1>26 DEF RecvFails
<1>27. CASE FsShift  BY <1>27 DEF FsShift
<1>28. CASE FsEnds  BY <1>28 DEF FsEnds
<1>29. CASE RestoreTemp  BY <1>29 DEF RestoreTemp
<1>30. CASE ImagesLost  BY <1>30 DEF ImagesLost
<1>31. CASE RestoreFs  BY <1>31 DEF RestoreFs
<1>32. CASE Restore
  <2>1. toSrc \in {<<>>, <<"reply">>} /\ answer = "none" /\ kpc \in {"loop", "fail", "failed"} /\ job.live
    BY <1>32 DEF Restore
  <2>2. UNCHANGED <<job, toSrc, answer, kpc, kerr, marks>> /\ rpc' = "end" /\ rerr' \in {rerr, TRUE}
    BY <1>32 DEF Restore
  <2>3. kct' = "running" /\ kct # "running" => rerr' = rerr  BY <1>32 DEF Restore
  <2> QED  BY <1>32, <2>1, <2>2, <2>3, Different DEF Restore
<1>33. CASE TakeRestore  BY <1>33 DEF TakeRestore
<1>34. CASE TakeSource  BY <1>34 DEF TakeSource
<1>35. CASE Report  BY <1>35 DEF Report, SendControl, Send
<1>36. CASE Return  BY <1>36 DEF Return
<1>37. CASE TemplateApply  BY <1>37 DEF TemplateApply, Mark
<1>38. CASE Delete  BY <1>38 DEF Delete
<1>39. CASE DialFails  BY <1>39 DEF DialFails, Mark
<1>40. CASE DumpFails  BY <1>40 DEF DumpFails
<1>41. CASE Break  BY <1>41 DEF Break
<1> QED
  BY <1>1, <1>2, <1>3, <1>4, <1>5, <1>6, <1>7, <1>8, <1>9, <1>10, <1>11, <1>12, <1>13, <1>14,
     <1>15, <1>16, <1>17, <1>18, <1>19, <1>20, <1>21, <1>22, <1>23, <1>24, <1>25, <1>26, <1>27, <1>28,
     <1>29, <1>30, <1>31, <1>32, <1>33, <1>34, <1>35, <1>36, <1>37, <1>38, <1>39, <1>40, <1>41
  DEF MoveNext, MoveSteps

LEMMA TempsNext == MoveInv /\ MoveNext => TempsInv'
<1> SUFFICES ASSUME MoveInv, MoveNext PROVE TempsInv'  OBVIOUS
<1> USE DEF MoveInv, TalkInv, DumpInv, TempsInv, linkVars, srcVars, sinkVars, recvVars
<1>1. CASE CreateTarget  BY <1>1 DEF CreateTarget, Mark
<1>2. CASE Dial  BY <1>2 DEF Dial
<1>3. ASSUME NEW x \in Wanted, ConnectSource(x) PROVE TempsInv'  BY <1>3 DEF ConnectSource
<1>4. ASSUME NEW x \in Wanted, ConnectSink(x) PROVE TempsInv'  BY <1>4 DEF ConnectSink
<1>5. CASE SourceSetup  BY <1>5 DEF SourceSetup, Mark
<1>6. CASE SourceHeader  BY <1>6 DEF SourceHeader, SendControl, Send
<1>7. CASE SourceReply  BY <1>7 DEF SourceReply, SendControl, Send
<1>8. CASE RsyncStream  BY <1>8 DEF RsyncStream, abort, SendControl, Send, Cleanup, Onwards
<1>9. CASE SendStream  BY <1>9 DEF SendStream, Onwards
<1>10. CASE SendFails  BY <1>10 DEF SendFails, abort, SendControl, Send, Cleanup
<1>11. CASE Clogged  BY <1>11 DEF Clogged, Mark
<1>12. CASE Dump  BY <1>12 DEF Dump, abort, SendControl, Send, Cleanup
<1>13. CASE DumpDone  BY <1>13 DEF DumpDone
<1>14. CASE SourceDumped  BY <1>14 DEF SourceDumped, abort, SendControl, Send, Cleanup
<1>15. CASE SendImages  BY <1>15 DEF SendImages, abort, SendControl, Send, Cleanup
<1>16. CASE SendImagesFails  BY <1>16 DEF SendImagesFails, abort, SendControl, Send, Cleanup
<1>17. CASE Verdict  BY <1>17 DEF Verdict, Cleanup, Answer, Mark
<1>18. CASE ScriptEnds  BY <1>18 DEF ScriptEnds
<1>19. CASE SourceEnds  BY <1>19 DEF SourceEnds
<1>20. CASE SinkHeader  BY <1>20 DEF SinkHeader, SendControl, Send
<1>21. CASE SinkReply  BY <1>21 DEF SinkReply, SendControl, Send
<1>22. CASE FsBegin  BY <1>22 DEF FsBegin
<1>23. CASE FsNext  BY <1>23 DEF FsNext
<1>24. CASE zfsRecv  BY <1>24 DEF zfsRecv, RecvStream
<1>25. CASE btrfsRecv  BY <1>25 DEF btrfsRecv, RecvStream
<1>26. CASE RecvFails  BY <1>26 DEF RecvFails
<1>27. CASE FsShift  BY <1>27 DEF FsShift
<1>28. CASE FsEnds  BY <1>28 DEF FsEnds
<1>29. CASE RestoreTemp  BY <1>29 DEF RestoreTemp
<1>30. CASE ImagesLost  BY <1>30 DEF ImagesLost
<1>31. CASE RestoreFs  BY <1>31 DEF RestoreFs
<1>32. CASE Restore  BY <1>32 DEF Restore
<1>33. CASE TakeRestore  BY <1>33 DEF TakeRestore
<1>34. CASE TakeSource  BY <1>34 DEF TakeSource
<1>35. CASE Report  BY <1>35 DEF Report, SendControl, Send
<1>36. CASE Return  BY <1>36 DEF Return
<1>37. CASE TemplateApply  BY <1>37 DEF TemplateApply, Mark
<1>38. CASE Delete  BY <1>38 DEF Delete
<1>39. CASE DialFails  BY <1>39 DEF DialFails, Mark
<1>40. CASE DumpFails  BY <1>40 DEF DumpFails
<1>41. CASE Break  BY <1>41 DEF Break
<1> QED
  BY <1>1, <1>2, <1>3, <1>4, <1>5, <1>6, <1>7, <1>8, <1>9, <1>10, <1>11, <1>12, <1>13, <1>14,
     <1>15, <1>16, <1>17, <1>18, <1>19, <1>20, <1>21, <1>22, <1>23, <1>24, <1>25, <1>26, <1>27, <1>28,
     <1>29, <1>30, <1>31, <1>32, <1>33, <1>34, <1>35, <1>36, <1>37, <1>38, <1>39, <1>40, <1>41
  DEF MoveNext, MoveSteps

LEMMA MoveInvInit == MoveInit => MoveInv
<1> SUFFICES ASSUME MoveInit PROVE MoveInv  OBVIOUS
<1>1. job \in JobType  BY MigrationAssumption DEF MoveInit
<1>2. TalkInv  BY <1>1, Different DEF MoveInit, TalkInv, Before, Over, Said
<1>3. job.snaps \in Nat /\ Expected \in Nat /\ job.snaps < Expected  BY <1>2, ExpectedFact
<1>4. FlowInv  BY <1>3 DEF MoveInit, FlowInv, Before
<1>5. DumpInv  BY <1>1 DEF MoveInit, DumpInv, JobType
<1>6. SinkInv /\ VerdictInv /\ TempsInv
  BY Different DEF MoveInit, SinkInv, VerdictInv, TempsInv, Before, Over, Said
<1> QED  BY <1>2, <1>4, <1>5, <1>6 DEF MoveInv

LEMMA MoveInvStutter == MoveInv /\ UNCHANGED moveVars => MoveInv'
BY DEF MoveInv, TalkInv, DumpInv, FlowInv, SinkInv, VerdictInv, TempsInv, Said, Before, Over,
       Expected, Fs, MigrationType, moveVars, linkVars, srcVars, sinkVars, recvVars

LEMMA MoveInvNext == MoveInv /\ [MoveNext]_moveVars => MoveInv'
BY TalkNext, DumpNext, FlowNext, SinkNext, VerdictNext, TempsNext, MoveInvStutter DEF MoveInv

LEMMA MoveInvSafe == MoveInv => Handover /\ Transferred
<1> SUFFICES ASSUME MoveInv PROVE Handover /\ Transferred  OBVIOUS
<1> USE DEF MoveInv, Before, Over
<1>1. ~(sct = "running" /\ kct = "running")
  BY DEF DumpInv, VerdictInv
<1>2. job.live /\ job.script /\ sct = "dead" => answer = "ok"
  BY DEF DumpInv
<1>3. job.live /\ answer = "ok" => kct = "running" \/ marks \cap {"raced", "templates"} # {}
  BY DEF VerdictInv, Said
<1>4. kpc = "ok" /\ "raced" \notin marks =>
        got = Expected /\ rows = job.snaps /\ (job.live => kct = "running")
  BY DEF SinkInv, VerdictInv, FlowInv
<1> QED  BY <1>1, <1>2, <1>3, <1>4 DEF Handover, Transferred, SinkInv, TempsInv

\* However the dump, the streams, the restore and the network fail and in
\* whatever order the source (migrationSourceWs.Do) and the sink with its two
\* goroutines (migrationSink.Do) proceed, a container that is migrated live
\* never runs on both hosts; and with an action script it is killed on the old
\* one only when it runs on the new one, except after the sink's goroutine wrote
\* over the error Do was about to report ("raced") and when the templates of the
\* copy failed after the verdict was sent ("templates"). For any driver, number
\* of snapshots and of faults.
THEOREM MigrationHandsOver == MoveSpec => []Handover
<1>1. MoveInv => Handover  BY MoveInvSafe
<1> QED  BY MoveInvInit, MoveInvNext, <1>1, PTL DEF MoveSpec

\* A sink (migrationSink.Do) that ends well has received every stream and has a
\* row for every snapshot, unless its goroutine wrote over the error Do was
\* about to report ("raced"); one that ends badly leaves no row, unless that
\* goroutine was still at work when the container was deleted ("late"); and the
\* source (migrationSourceWs.Do) that ends leaves no temporary snapshot.
THEOREM MigrationTransfers == MoveSpec => []Transferred
<1>1. MoveInv => Transferred  BY MoveInvSafe
<1> QED  BY MoveInvInit, MoveInvNext, <1>1, PTL DEF MoveSpec

-----------------------------------------------------------------------------
\* Whichever the daemon does, its start with the upgrade up to patchesApplyAll
\* or a migration of a container: UpToDate, NothingLost, Handover and
\* Transferred hold, with the exceptions each of them names.
THEOREM MovesSafe == MovesSpec => [](UpToDate /\ NothingLost /\ Handover /\ Transferred)
<1> DEFINE Inv == StartInv /\ UpgradeInv /\ UpgradePlace /\ MoveInv
<1>1. MovesInit => Inv
  BY StartInvInit, UpgradeInvInit, UpgradePlaceInit, MoveInvInit DEF MovesInit
<1>2. Inv /\ [MovesNext]_movesVars => Inv'
  <2> SUFFICES ASSUME Inv, [MovesNext]_movesVars PROVE Inv'  OBVIOUS
  <2>1. [Next]_vars /\ [MoveNext]_moveVars  BY DEF MovesNext, movesVars
  <2> QED  BY <2>1, StartInvNext, UpgradeInvNext, UpgradePlaceNext, MoveInvNext
<1>3. Inv => UpToDate /\ NothingLost /\ Handover /\ Transferred
  BY UpgradeKeepsAll, MoveInvSafe DEF StartInv
<1> QED  BY <1>1, <1>2, <1>3, PTL DEF MovesSpec
=============================================================================
