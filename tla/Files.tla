-------------------------------- MODULE Files --------------------------------
(***************************************************************************)
(* The files of a container as the API hands them in and out.  A request   *)
(* of a stopped container mounts its storage, works on the tree through a   *)
(* child process in the root file system and shifts the owners itself; of a *)
(* running one the child enters the container's namespaces.  Whether the    *)
(* container runs is asked anew at each of these places.  A publication     *)
(* takes the shift off the whole tree, packs it and puts the shift back;    *)
(* a start moves the tree to the next id map and writes the templates.      *)
(* The command line client sends several requests for one command.  The     *)
(* tree has a directory and a file in it; the content of a file is the set  *)
(* of the pieces written to it; an owner stands for uid and gid.            *)
(***************************************************************************)
EXTENDS Integers, FiniteSets, Sequences

CONSTANTS
  FileReqs,        \* clients that work on the container's files
  Maps,            \* id maps; 0: the container is privileged
  Templates,       \* templates an image may have for the file: when, createOnly
  MaxFileCmds, MaxFileStarts, MaxFileFaults

ASSUME FilesAssumption ==
  /\ Maps \subseteq Nat /\ Maps # {}
  /\ MaxFileCmds \in Nat /\ MaxFileStarts \in Nat /\ MaxFileFaults \in Nat

VARIABLES
  tree,            \* on the disk: owners are ids of the host
  wish,            \* what the container should find there: ids of the container
  mode,            \* the container: "stopped", "starting", "running"
  lastMap, nextMap, \* volatile.last_state.idmap, volatile.idmap.next
  mounted,         \* the storage is mounted
  template,        \* the image's template for the file, and volatile.apply_template
  fcli, freq,      \* each client's command and request
  fileCmds, fileStarts, fileMarks, fileFaults

fileVars == <<tree, wish, mode, lastMap, nextMap, mounted, template, fcli, freq, fileCmds, fileStarts, fileMarks, fileFaults>>

Ids == 0 .. 1
Keep == -1
Nobody == 9
TemplateText == -1
Paths == {"dir", "file"}
Absent == [type |-> "none", owner |-> Keep, data |-> {}]
Dir(o) == [type |-> "directory", owner |-> o, data |-> {}]
File(o, d) == [type |-> "file", owner |-> o, data |-> d]

\* IdmapSet.ShiftIntoNs, ShiftFromNs; -1 for an id the map does not have.
ShiftIntoNs(u, m) == IF m = 0 THEN u ELSE IF u \in Ids THEN 10 * m + u ELSE -1
ShiftFromNs(h, m) == IF m = 0 THEN h ELSE IF h - 10 * m \in Ids THEN h - 10 * m ELSE -1

\* ShiftRootfs, UnshiftRootfs: what the map does not have keeps its owner.
Shifted(t, m) == [p \in Paths |-> [t[p] EXCEPT !.owner = IF ShiftIntoNs(@, m) = -1 THEN @ ELSE ShiftIntoNs(@, m)]]
Unshifted(t, m) == [p \in Paths |-> [t[p] EXCEPT !.owner = IF ShiftFromNs(@, m) = -1 THEN @ ELSE ShiftFromNs(@, m)]]

NoReq == [at |-> "none", kind |-> "none"]
NoCmd == [prog |-> "none"]

FilesInit ==
  /\ lastMap \in Maps /\ nextMap \in Maps
  /\ wish = [p \in Paths |-> IF p = "dir" THEN Dir(0) ELSE Absent] /\ tree = Shifted(wish, lastMap)
  /\ mode = "stopped" /\ mounted = FALSE
  /\ template \in {[when |-> t.when, createOnly |-> t.createOnly, apply |-> "create"] : t \in Templates}
  /\ fcli = [r \in FileReqs |-> NoCmd] /\ freq = [r \in FileReqs |-> NoReq]
  /\ fileCmds = 0 /\ fileStarts = 0 /\ fileMarks = {} /\ fileFaults = 0

Running == mode = "running"
FAt(r, ph) == freq[r].at = ph
FGo(r, ph) == freq' = [freq EXCEPT ![r].at = ph]
FMark(S) == fileMarks' = fileMarks \cup S
FFault == fileFaults < MaxFileFaults /\ fileFaults' = fileFaults + 1
FLeaves == UNCHANGED <<lastMap, nextMap, template, fileCmds, fileStarts>>
Answer(r, res) == freq' = [freq EXCEPT ![r] = [at |-> "done", kind |-> @.kind, res |-> res]]
Failed == [ok |-> FALSE]
Packing == \E r \in FileReqs : freq[r].kind = "export" /\ freq[r].at \in {"pack", "reshift"}

-----------------------------------------------------------------------------
(* The command line client *)

\* map: the last id map, as the container is loaded for the request.
Get(p) == [at |-> "mount", kind |-> "pull", path |-> p, map |-> lastMap]
Exists(p) == [at |-> "mount", kind |-> "exists", path |-> p, map |-> lastMap]
Delete(p) == [at |-> "mount", kind |-> "remove", path |-> p, map |-> lastMap]
Mkdir(u) == [at |-> "shift", kind |-> "mkdir", path |-> "dir", uid |-> u, map |-> lastMap]
Push(u, d, w) == [at |-> "shift", kind |-> "push", path |-> "file", uid |-> u, data |-> d, write |-> w, map |-> lastMap]
ExportReq == [at |-> "check", kind |-> "export", map |-> lastMap]

\* The first request of a command.  push -p asks for the directory first, push
\* -r sends the directory, edit reads what it will change.
First(c) ==
  CASE c.prog = "push" -> Push(c.uid, {c.data}, "overwrite")
    [] c.prog = "append" -> Push(Keep, {c.data}, "append")
    [] c.prog = "push -p" -> Get("dir")
    [] c.prog = "push -r" -> Mkdir(c.uid)
    [] c.prog = "pull" -> Get("file")
    [] c.prog = "pull -r" -> Get("dir")
    [] c.prog = "edit" -> Get("file")
    [] c.prog = "delete" -> Delete(c.path)
    [] c.prog = "publish" -> ExportReq
    [] c.prog = "exec" -> Exists("dir")

\* The request that follows an answer; NoReq: the command has ended.
\* recursiveMkdir takes every error for a directory that is not there.
recursiveMkdir(c, res) ==
  IF ~res.ok THEN Mkdir(c.uid) ELSE IF res.type = "directory" THEN Push(c.uid, {c.data}, "overwrite") ELSE NoReq
recursivePull(c, res) == IF res.ok /\ res.type = "directory" /\ res.entries # {} THEN Get("file") ELSE NoReq
Follow(c, kind, res) ==
  CASE c.prog = "push -p" /\ kind = "pull" -> recursiveMkdir(c, res)
    [] c.prog \in {"push -p", "push -r"} /\ kind = "mkdir" /\ res.ok -> Push(c.uid, {c.data}, "overwrite")
    [] c.prog = "pull -r" /\ kind = "pull" -> recursivePull(c, res)
    [] c.prog = "edit" /\ kind = "pull" /\ res.ok /\ res.type = "file" -> Push(Keep, res.data \cup {c.data}, "overwrite")
    [] OTHER -> NoReq

Commands ==
  [prog : {"push", "push -p", "push -r", "append", "edit"}, uid : {1}, data : {fileCmds}]
  \cup [prog : {"pull", "pull -r", "publish", "exec"}] \cup [prog : {"delete"}, path : Paths]

\* One publication at a time: imagePublishLock.
FileCommand(r, c) ==
  /\ fcli[r] = NoCmd /\ fileCmds < MaxFileCmds /\ fileCmds' = fileCmds + 1
  /\ c.prog = "publish" => \A s \in FileReqs : freq[s].kind # "export"
  /\ fcli' = [fcli EXCEPT ![r] = c] /\ freq' = [freq EXCEPT ![r] = First(c)]
  /\ UNCHANGED <<tree, wish, mode, lastMap, nextMap, mounted, template, fileStarts, fileMarks, fileFaults>>

FileAnswer(r) ==
  LET next == Follow(fcli[r], freq[r].kind, freq[r].res)
  IN /\ FAt(r, "done") /\ freq' = [freq EXCEPT ![r] = next]
     /\ fcli' = [fcli EXCEPT ![r] = IF next = NoReq THEN NoCmd ELSE @]
     /\ UNCHANGED <<tree, wish, mode, mounted, fileMarks, fileFaults>> /\ FLeaves

-----------------------------------------------------------------------------
(* FilePush, FilePull and FileRemove *)

\* The owners are shifted for a container that is not running.
FilePush(r) ==
  LET m == IF Running THEN 0 ELSE freq[r].map
  IN /\ FAt(r, "shift")
     /\ freq' = [freq EXCEPT ![r] = [field \in DOMAIN freq[r] \cup {"host", "root", "seen"} |->
                   CASE field = "host" -> ShiftIntoNs(freq[r].uid, m)
                     [] field = "root" -> ShiftIntoNs(0, m)
                     [] field = "seen" -> m
                     [] field = "at" -> "mount"
                     [] OTHER -> freq[r][field]]]
     /\ UNCHANGED <<tree, wish, mode, mounted, fcli, fileMarks, fileFaults>> /\ FLeaves

WithOur(q, our) == [f \in DOMAIN q \cup {"our", "at"} |-> CASE f = "our" -> our [] f = "at" -> "fork" [] OTHER -> q[f]]

\* StorageStart: our, it was not mounted before.
StorageStart(r) ==
  /\ FAt(r, "mount")
  /\ \/ /\ freq' = [freq EXCEPT ![r] = WithOur(@, ~Running /\ ~mounted)]
        /\ mounted' = TRUE /\ UNCHANGED fileFaults
     \/ /\ ~Running /\ FFault /\ Answer(r, Failed) /\ UNCHANGED mounted
  /\ UNCHANGED <<tree, wish, mode, fcli, fileMarks>> /\ FLeaves

\* The child: in the namespaces of the container, or in its root file system.
\* ns: the map it sees the owners through.
Ns == IF Running THEN lastMap ELSE 0
Rooted == Running \/ mounted
Inside(p) == p = "dir" \/ tree["dir"].type = "directory"
\* The map that takes the owners the child tells to the container's.
Through == IF Running THEN 0 ELSE lastMap
Result(r, res) ==
  freq' = [freq EXCEPT ![r] = [at |-> "umount", kind |-> @.kind, our |-> @.our, map |-> @.map, seen |-> Through, res |-> res]]
Apart(r) == \A s \in FileReqs \ {r} : ~(FAt(s, "write") /\ freq[r].path \in {freq[s].path, "dir"})
\* The container was started, stopped or unshifted since the owner was shifted,
\* or another child is writing the file.
ForkMarks(r) ==
  (IF "seen" \in DOMAIN freq[r] /\ freq[r].seen # Through THEN {"moved"} ELSE {})
  \cup (IF Packing THEN {"packing"} ELSE {}) \cup (IF Apart(r) THEN {} ELSE {"mixed"})
  \cup (IF mode = "starting" THEN {"moved"} ELSE {})

\* An owner as the child gives it, on the disk.
OnDisk(u) == ShiftIntoNs(u, Ns)
NewOwner(r, exists) == IF exists \/ freq[r].host # Keep THEN freq[r].host ELSE freq[r].root
NewWish(r, exists) == IF freq[r].uid # Keep THEN freq[r].uid ELSE IF exists THEN wish[freq[r].path].owner ELSE 0

ForkMkdir(r) ==
  LET exists == tree["dir"].type # "none"
      owner == IF freq[r].host = Keep THEN freq[r].root ELSE freq[r].host
  IN /\ FAt(r, "fork") /\ freq[r].kind = "mkdir" /\ FMark(ForkMarks(r))
     /\ IF Rooted THEN /\ tree' = [tree EXCEPT !["dir"] = IF exists THEN [@ EXCEPT !.owner = OnDisk(owner)] ELSE Dir(OnDisk(owner))]
                       /\ wish' = [wish EXCEPT !["dir"] = IF exists THEN [@ EXCEPT !.owner = freq[r].uid] ELSE Dir(freq[r].uid)]
                       /\ Result(r, [ok |-> TRUE, type |-> "directory"])
                  ELSE Result(r, Failed) /\ UNCHANGED <<tree, wish>>
     /\ UNCHANGED <<mode, mounted, fcli, fileFaults>> /\ FLeaves

\* The file is opened, made when it is not there, and cut to nothing.
ForkOpen(r) ==
  LET exists == tree["file"].type # "none"
  IN /\ FAt(r, "fork") /\ freq[r].kind = "push" /\ FMark(ForkMarks(r))
     /\ IF Rooted /\ Inside("file")
        THEN /\ freq' = [freq EXCEPT ![r] = [f \in DOMAIN @ \cup {"exists", "ns"} |->
                           CASE f = "exists" -> exists [] f = "ns" -> Ns [] f = "at" -> "write" [] OTHER -> @[f]]]
             /\ tree' = [tree EXCEPT !["file"] = IF ~exists THEN File(OnDisk(0), {})
                                                 ELSE IF freq[r].write = "append" THEN @ ELSE [@ EXCEPT !.data = {}]]
        ELSE Result(r, Failed) /\ UNCHANGED tree
     /\ UNCHANGED <<wish, mode, mounted, fcli, fileFaults>> /\ FLeaves

\* The content, then the owner; an error leaves what is written.
ForkWrite(r) ==
  LET q == freq[r]
      owner == NewOwner(r, q.exists)
      was == tree["file"]
  IN /\ FAt(r, "write")
     /\ \/ /\ tree' = [tree EXCEPT !["file"] = [was EXCEPT !.data = @ \cup q.data,
                                                            !.owner = IF owner = Keep THEN @ ELSE ShiftIntoNs(owner, q.ns)]]
           /\ wish' = [wish EXCEPT !["file"] = File(NewWish(r, q.exists), tree["file"].data \cup q.data)]
           /\ Result(r, [ok |-> TRUE, type |-> "file"])
           /\ FMark(IF q.ns # Ns \/ mode = "starting" \/ Packing THEN {"moved"} ELSE {}) /\ UNCHANGED fileFaults
        \/ FFault /\ Result(r, Failed) /\ FMark({"cut"}) /\ UNCHANGED <<tree, wish>>
     /\ UNCHANGED <<mode, mounted, fcli>> /\ FLeaves

\* An owner as the child reads it.
InNs(h) == IF Ns = 0 THEN h ELSE IF ShiftFromNs(h, Ns) = -1 THEN Nobody ELSE ShiftFromNs(h, Ns)

\* A child that is killed once it has told the owner leaves no error: the
\* parsing of its lines has reset it.
ForkRead(r) ==
  LET n == tree[freq[r].path]
      res == [ok |-> TRUE, type |-> n.type, owner |-> InNs(n.owner), data |-> n.data,
              entries |-> {p \in {"file"} : tree[p].type # "none"}, true |-> wish[freq[r].path]]
  IN /\ FAt(r, "fork") /\ freq[r].kind = "pull"
     /\ \/ /\ IF Rooted /\ Inside(freq[r].path) /\ n.type # "none" THEN Result(r, res) ELSE Result(r, Failed)
           /\ FMark(ForkMarks(r)) /\ UNCHANGED fileFaults
        \/ /\ Rooted /\ Inside(freq[r].path) /\ n.type = "file"
           /\ FFault /\ Result(r, [res EXCEPT !.data = {}]) /\ FMark({"killed"})
     /\ UNCHANGED <<tree, wish, mode, mounted, fcli>> /\ FLeaves

\* The exec handler and the devices look for a path.
ForkCheck(r) ==
  LET p == freq[r].path
  IN /\ FAt(r, "fork") /\ freq[r].kind = "exists" /\ FMark(ForkMarks(r))
     /\ Result(r, [ok |-> Rooted /\ Inside(p) /\ tree[p].type # "none", true |-> wish[p].type # "none"])
     /\ UNCHANGED <<tree, wish, mode, mounted, fcli, fileFaults>> /\ FLeaves

\* A directory is removed when it is empty.
ForkRemove(r) ==
  LET p == freq[r].path
      may == Rooted /\ Inside(p) /\ tree[p].type # "none" /\ (p = "dir" => tree["file"].type = "none")
  IN /\ FAt(r, "fork") /\ freq[r].kind = "remove" /\ FMark(ForkMarks(r))
     /\ tree' = IF may THEN [tree EXCEPT ![p] = Absent] ELSE tree
     /\ wish' = IF may THEN [wish EXCEPT ![p] = Absent] ELSE wish
     /\ Result(r, [ok |-> may, type |-> "none"])
     /\ UNCHANGED <<mode, mounted, fcli, fileFaults>> /\ FLeaves

Busy == \E s \in FileReqs : freq[s].at \in {"write", "unshift", "pack", "reshift"}

\* A pull has the owner to unmap.
Stopped(r) == IF freq[r].kind = "pull" /\ freq[r].res.ok THEN FGo(r, "unmap") ELSE Answer(r, freq[r].res)

\* Who mounted the storage takes it down, unless the container runs by now.
StopsStorage(r) == ~Running /\ freq[r].our

\* A mount in use stays and is an error.
StorageStop(r) ==
  LET q == freq[r]
  IN /\ FAt(r, "umount")
     /\ \/ /\ StopsStorage(r) /\ ~Busy /\ mounted' = FALSE
           /\ FMark(IF mode = "starting" \/ \E s \in FileReqs \ {r} : FAt(s, "fork") THEN {"unmounted"} ELSE {})
           /\ Stopped(r)
        \/ StopsStorage(r) /\ Busy /\ Answer(r, Failed) /\ UNCHANGED mounted /\ FMark({"busy"})
        \/ ~StopsStorage(r) /\ Stopped(r) /\ UNCHANGED mounted
           /\ FMark(IF q.our THEN {"moved"} ELSE {})
     /\ UNCHANGED <<tree, wish, mode, fcli, fileFaults>> /\ FLeaves

\* A pull from a container that is not running takes the shift off the owner.
FilePull(r) ==
  LET q == freq[r]
      m == IF Running THEN 0 ELSE q.map
  IN /\ FAt(r, "unmap")
     /\ Answer(r, [q.res EXCEPT !.owner = ShiftFromNs(@, m)])
     /\ FMark(IF m # q.seen THEN {"moved"} ELSE {})
     /\ UNCHANGED <<tree, wish, mode, mounted, fcli, fileFaults>> /\ FLeaves

-----------------------------------------------------------------------------
(* Export *)

ExportStart(r) ==
  /\ FAt(r, "check")
  /\ IF Running THEN Answer(r, Failed) /\ UNCHANGED mounted
     ELSE /\ freq' = [freq EXCEPT ![r] = [at |-> "unshift", kind |-> "export", our |-> ~mounted, map |-> @.map]] /\ mounted' = TRUE
  /\ UNCHANGED <<tree, wish, mode, fcli, fileMarks, fileFaults>> /\ FLeaves

\* A child that writes meanwhile, or a container that starts.
ExportMarks(r) == IF mode # "stopped" \/ freq[r].map # lastMap \/ \E s \in FileReqs : FAt(s, "write") THEN {"packing"} ELSE {}

ExportUnshift(r) ==
  /\ FAt(r, "unshift") /\ tree' = Unshifted(tree, freq[r].map) /\ FGo(r, "pack") /\ FMark(ExportMarks(r))
  /\ UNCHANGED <<wish, mode, mounted, fcli, fileFaults>> /\ FLeaves

\* tarStoreFile: the names begin with "rootfs", not with "/rootfs", so the
\* owners go in as they are.
tarStoreFile(n) == n

ExportPack(r) ==
  LET image == [p \in Paths |-> tarStoreFile(tree[p])]
      packed(res) == freq' = [freq EXCEPT ![r] = [at |-> "reshift", kind |-> "export", our |-> @.our, map |-> @.map, res |-> res]]
  IN /\ FAt(r, "pack")
     /\ \/ packed([ok |-> TRUE, image |-> image, true |-> wish]) /\ UNCHANGED fileFaults
        \/ FFault /\ packed(Failed)
     /\ FMark(ExportMarks(r)) /\ UNCHANGED <<tree, wish, mode, mounted, fcli>> /\ FLeaves

ExportKeeps(r) ==
  /\ FAt(r, "reshift") /\ FGo(r, "umount") /\ FMark(ExportMarks(r))
  /\ UNCHANGED <<tree, wish, mode, mounted, fcli, fileFaults>> /\ FLeaves

\* The shift is put back however the packing ended, then the mount goes.
ExportReshift(r) ==
  /\ FAt(r, "reshift") /\ tree' = Shifted(tree, freq[r].map) /\ FGo(r, "umount") /\ FMark(ExportMarks(r))
  /\ UNCHANGED <<wish, mode, mounted, fcli, fileFaults>> /\ FLeaves

-----------------------------------------------------------------------------
(* The container *)

\* startCommon: the tree goes from the map it has to the next one, the storage
\* is mounted for the run.
StartShift ==
  /\ mode = "stopped" /\ fileStarts < MaxFileStarts /\ fileStarts' = fileStarts + 1
  /\ tree' = IF nextMap = lastMap THEN tree ELSE Shifted(Unshifted(tree, lastMap), nextMap)
  /\ lastMap' = nextMap /\ mode' = "starting" /\ mounted' = TRUE
  /\ FMark(IF Packing THEN {"packing"} ELSE IF Busy THEN {"moved"} ELSE {})
  /\ UNCHANGED <<wish, nextMap, template, fcli, freq, fileCmds, fileFaults>>

\* The template for one trigger: [tree, wish].
templateApplyNow(t, w, trigger) ==
  LET there == t["file"].type # "none"
      root == ShiftIntoNs(0, nextMap)
      text == {TemplateText}
      dir(x, o) == IF x["dir"].type = "none" THEN Dir(o) ELSE x["dir"]
  IN IF template.when # trigger \/ (there /\ template.createOnly) THEN <<t, w>>
     ELSE IF there THEN <<[t EXCEPT !["file"].data = text], [w EXCEPT !["file"].data = text]>>
     ELSE <<[dir |-> dir(t, root), file |-> File(root, text)], [dir |-> dir(w, 0), file |-> File(0, text)]>>

\* OnStart: the template of the creation that is due, then that of the start.
OnStartTemplates ==
  LET due == IF template.apply = "" THEN <<tree, wish>> ELSE templateApplyNow(tree, wish, template.apply)
      all == templateApplyNow(due[1], due[2], "start")
  IN /\ mode = "starting" /\ mode' = "running" /\ tree' = all[1] /\ wish' = all[2]
     /\ template' = [template EXCEPT !.apply = ""]
     /\ FMark(IF Packing THEN {"packing"} ELSE IF Busy THEN {"moved"} ELSE {})
     /\ UNCHANGED <<lastMap, nextMap, mounted, fcli, freq, fileCmds, fileStarts, fileFaults>>

\* Stop, and the next map, which a change of the configuration may have chosen.
StopFiles(m) ==
  /\ Running /\ mode' = "stopped" /\ mounted' = FALSE /\ nextMap' = m
  /\ FMark(IF \E s \in FileReqs : freq[s].at \in {"fork", "write"} THEN {"moved"} ELSE {})
  /\ UNCHANGED <<tree, wish, lastMap, template, fcli, freq, fileCmds, fileStarts, fileFaults>>

\* The daemon ends: a mount stays, and a tree without its shift.
FilesCut ==
  /\ FFault /\ freq' = [r \in FileReqs |-> NoReq] /\ fcli' = [r \in FileReqs |-> NoCmd]
  /\ \E r \in FileReqs : freq[r].at \notin {"none", "done"}
  /\ FMark(IF Busy \/ \E r \in FileReqs : freq[r].at \in {"fork", "umount"} /\ freq[r].our THEN {"cut"} ELSE {})
  /\ UNCHANGED <<tree, wish, mode, mounted>> /\ FLeaves

FilesNext ==
  \/ \E r \in FileReqs :
       \/ \E c \in Commands : FileCommand(r, c)
       \/ FileAnswer(r) \/ FilePush(r) \/ StorageStart(r) \/ StorageStop(r) \/ FilePull(r)
       \/ ForkMkdir(r) \/ ForkOpen(r) \/ ForkWrite(r) \/ ForkRead(r) \/ ForkCheck(r) \/ ForkRemove(r)
       \/ ExportStart(r) \/ ExportUnshift(r) \/ ExportPack(r) \/ ExportReshift(r)
  \/ StartShift \/ OnStartTemplates \/ FilesCut
  \/ \E m \in Maps : StopFiles(m)

FilesSpec == FilesInit /\ [][FilesNext]_fileVars

-----------------------------------------------------------------------------
\* The container finds its files as they were pushed, templated or removed,
\* with the owners that were asked for, however often it is started with
\* another id map or published; what a pull reports and a publication packs is
\* what the container sees; and no request leaves the storage of a stopped
\* container mounted, or takes it from another.  The marks: the container
\* started or stopped in the middle of a request ("moved"), a publication has
\* taken the shift off the tree ("packing"), two children on one file
\* ("mixed"), the mount taken from another request or a start ("unmounted"), a
\* mount kept by another ("busy"), a write or a daemon that ended half way ("cut"), a child killed after
\* it told the owner ("killed").
FilesWhole ==
  fileMarks = {} =>
    /\ (\A r \in FileReqs : freq[r].at \in {"none", "done"}) /\ mode # "starting" =>
         tree = Shifted(wish, lastMap) /\ mounted = Running
    /\ \A r \in FileReqs : freq[r].at = "done" /\ freq[r].kind = "exists" /\ freq[r].res # Failed => freq[r].res.ok = freq[r].res.true
    /\ \A r \in FileReqs : freq[r].at = "done" /\ freq[r].res.ok =>
         /\ freq[r].kind = "pull" => LET res == freq[r].res IN <<res.type, res.owner, res.data>> = <<res.true.type, res.true.owner, res.true.data>>
         /\ freq[r].kind = "export" => freq[r].res.image = freq[r].res.true

=============================================================================
