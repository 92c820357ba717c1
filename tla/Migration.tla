----------------------------- MODULE Migration ------------------------------
(***************************************************************************)
(* The migration of one container: migrationSourceWs.Do on the host that   *)
(* has it, migrationSink.Do with its two goroutines on the host that gets  *)
(* it, the control connection between them, the streams of the storage     *)
(* drivers and, when it is migrated live, criu with its action script.     *)
(* What is sent is abstract: the fs connection carries one stream for each *)
(* snapshot, one for the container and, after a checkpoint, a last one.    *)
(***************************************************************************)
EXTENDS Integers, Sequences, FiniteSets

CONSTANTS
  Jobs,            \* what may be asked for, see JobType
  MaxMoveFaults    \* bound on the commands, dials and connections that fail

JobType ==
  [live   : BOOLEAN,                             \* with its running state
   push   : BOOLEAN,                             \* the client connects the hosts
   from   : {"dir", "lvm", "zfs", "btrfs"},      \* the drivers
   to     : {"dir", "lvm", "zfs", "btrfs"},
   snaps  : Nat,
   big    : BOOLEAN,                             \* streams exceed the buffers
   script : BOOLEAN]                             \* liblxc is at least 2.0.4

ASSUME MigrationAssumption == Jobs \subseteq JobType /\ MaxMoveFaults \in Nat

VARIABLES
  job,
  sconn, kconn,    \* the connections that source and sink hold
  up,              \* the sides that have not disconnected
  toSink, toSrc,   \* messages under way on the control connection
  spc,             \* where the source's Do is
  sct,             \* the container on its old host
  temps,           \* temporary snapshots the source has made
  sent,            \* streams it has written to the fs connection
  dump, answer,    \* criu's dump and what its action script is told
  kpc, kerr,       \* where the sink's Do is, and its variable err
  fpc, ferr,       \* its goroutine that receives the file system
  rpc, rerr,       \* its goroutine that restores
  got,             \* streams received
  rows,            \* snapshots in the sink's database
  kct,             \* the container on its new host
  marks,           \* what happened that the code has no answer to
  moveFaults

srcVars == <<spc, sct, temps, sent, dump, answer>>
recvVars == <<fpc, ferr, rpc, rerr, got>>
sinkVars == <<kpc, kerr, recvVars, rows, kct>>
linkVars == <<sconn, kconn, up, toSink, toSrc>>
moveVars == <<job, linkVars, srcVars, sinkVars, marks, moveFaults>>

-----------------------------------------------------------------------------
Wanted == {"control", "fs"} \cup (IF job.live THEN {"criu"} ELSE {})

LinkUp == up = {"src", "snk"}

MigrationType(driver) == IF driver \in {"dir", "lvm"} THEN "rsync" ELSE driver

\* The type both sides have, or rsync.
Fs == IF MigrationType(job.from) = MigrationType(job.to)
      THEN MigrationType(job.from) ELSE "rsync"

\* The streams the sink reads: btrfs does not read what follows a checkpoint.
Expected == job.snaps + (IF job.live /\ Fs # "btrfs" THEN 2 ELSE 1)

Fault == moveFaults < MaxMoveFaults /\ moveFaults' = moveFaults + 1

Mark(m) == marks' = marks \cup {m}

MoveInit ==
  /\ job \in Jobs
  /\ sconn = {} /\ kconn = {} /\ up = {"src", "snk"}
  /\ toSink = <<>> /\ toSrc = <<>>
  /\ spc = "wait" /\ sct \in (IF job.live THEN {"running"} ELSE {"running", "stopped"})
  /\ temps = {} /\ sent = 0 /\ dump = "none" /\ answer = "none"
  /\ kpc = "create" /\ kerr = FALSE
  /\ fpc = "off" /\ ferr = FALSE /\ rpc = "off" /\ rerr = FALSE
  /\ got = 0 /\ rows = 0 /\ kct = "none"
  /\ marks = {} /\ moveFaults = 0

-----------------------------------------------------------------------------
(* The connections: in pull mode the sink dials, in push mode a client      *)
(* connects to both sides.                                                  *)
\* The sink's container is made, empty or from its image; without a pool for
\* it, a secret or criu the request fails and nobody comes to the source.
CreateTarget ==
  /\ kpc = "create"
  /\ \/ /\ kct' = "created" /\ kpc' = (IF job.push THEN "wait" ELSE "dial")
        /\ UNCHANGED <<marks, moveFaults>>
     \/ /\ Fault /\ kct' = "deleted" /\ kpc' = "failed" /\ Mark("undialed")
  /\ UNCHANGED <<job, linkVars, srcVars, kerr, recvVars, rows>>

DialOrder == <<"control", "fs", "criu">>

Dial ==
  /\ kpc = "dial"
  /\ LET x == DialOrder[Cardinality(kconn) + 1]
     IN /\ sconn' = sconn \cup {x} /\ kconn' = kconn \cup {x}
        /\ kpc' = IF kconn' = Wanted THEN "header" ELSE "dial"
  /\ UNCHANGED <<job, up, toSink, toSrc, srcVars, kerr, recvVars, rows, kct, marks, moveFaults>>

\* The source goes on waiting for the connections it has not got.
DialFails ==
  /\ kpc = "dial" /\ Fault
  /\ kpc' = "fail" /\ Mark("undialed")
  /\ UNCHANGED <<job, linkVars, srcVars, kerr, recvVars, rows, kct>>

ConnectSource(x) ==
  /\ job.push /\ kct = "created" /\ x \in Wanted \ sconn
  /\ sconn' = sconn \cup {x}
  /\ UNCHANGED <<job, kconn, up, toSink, toSrc, srcVars, sinkVars, marks, moveFaults>>

ConnectSink(x) ==
  /\ kpc = "wait" /\ x \in Wanted \ kconn
  /\ kconn' = kconn \cup {x}
  /\ kpc' = IF kconn' = Wanted THEN "header" ELSE kpc
  /\ UNCHANGED <<job, sconn, up, toSink, toSrc, srcVars, kerr, recvVars, rows, kct, marks, moveFaults>>

\* The network between the hosts breaks; what was under way may be lost.
Break ==
  /\ LinkUp /\ spc # "wait" /\ Fault
  /\ up' = {}
  /\ \/ UNCHANGED <<toSink, toSrc>>
     \/ toSink' = <<>> /\ toSrc' = <<>>
  /\ UNCHANGED <<job, sconn, kconn, srcVars, sinkVars, marks>>

Send(side, msg) ==
  IF side = "src"
  THEN toSink' = (IF LinkUp THEN Append(toSink, msg) ELSE toSink) /\ UNCHANGED toSrc
  ELSE toSrc' = (IF LinkUp THEN Append(toSrc, msg) ELSE toSrc) /\ UNCHANGED toSink

\* sendControl tells the other side, and disconnects if it tells of an error.
SendControl(side, msg) ==
  /\ Send(side, msg)
  /\ up' = IF msg = "error" THEN up \ {side} ELSE up
  /\ UNCHANGED <<sconn, kconn>>

-----------------------------------------------------------------------------
(* The source.                                                              *)
Cleanup == temps' = {}

\* Faulty form: the sink is not told, and the connections stay.
abortSilent ==
  /\ Cleanup
  /\ spc' = "failed"
  /\ marks' = IF dump = "dumped" THEN marks \cup {"abandoned"} ELSE marks
  /\ UNCHANGED linkVars

abort ==
  /\ Cleanup
  /\ SendControl("src", "error")
  /\ spc' = "failed"
  /\ marks' = IF dump = "dumped" THEN marks \cup {"abandoned"} ELSE marks

\* The storage is mounted and the id map read; the sink is not told of an
\* error here, and waits for a header that never comes.
SourceSetup ==
  /\ spc = "wait" /\ sconn = Wanted
  /\ \/ spc' = "header" /\ UNCHANGED <<marks, moveFaults>>
     \/ spc' = "failed" /\ Mark("silent") /\ Fault
  /\ UNCHANGED <<job, linkVars, sct, temps, sent, dump, answer, sinkVars>>

\* A header is sent "no matter what", then the driver's error if it has one.
SourceHeader ==
  /\ spc = "header"
  /\ \/ /\ LinkUp /\ Send("src", "header") /\ spc' = "reply"
        /\ UNCHANGED <<up, sconn, kconn, moveFaults>>
     \/ ~LinkUp /\ SendControl("src", "error") /\ spc' = "failed" /\ UNCHANGED moveFaults
     \/ /\ LinkUp /\ Fault /\ spc' = "failed"
        /\ toSink' = toSink \o <<"header", "error">> /\ up' = up \ {"src"}
        /\ UNCHANGED <<toSrc, sconn, kconn>>
  /\ UNCHANGED <<job, sct, temps, sent, dump, answer, sinkVars, marks>>

SourceReply ==
  /\ spc = "reply"
  /\ \/ /\ toSrc # <<>> /\ Head(toSrc) = "reply"
        /\ toSrc' = Tail(toSrc) /\ spc' = "send"
        /\ UNCHANGED <<up, toSink, sconn, kconn>>
     \/ /\ IF toSrc = <<>> THEN ~LinkUp ELSE Head(toSrc) # "reply"
        /\ SendControl("src", "error") /\ spc' = "failed"
  /\ UNCHANGED <<job, sct, temps, sent, dump, answer, sinkVars, marks, moveFaults>>

\* What the source does once a stream is written.
Onwards ==
  spc' = IF spc = "send" /\ sent' <= job.snaps THEN "send"
         ELSE IF spc = "send" /\ job.live THEN "dump"
         ELSE "verdict"

\* rsync talks in both directions: its two ends end together, well or not.
RsyncStream ==
  /\ spc \in {"send", "final"} /\ Fs = "rsync" /\ fpc = "recv" /\ got = sent /\ LinkUp
  /\ \/ /\ sent' = sent + 1 /\ got' = got + 1 /\ Onwards
        /\ fpc' = "next" /\ UNCHANGED <<ferr, temps, linkVars, marks, moveFaults>>
     \/ /\ Fault /\ abort /\ fpc' = "end" /\ ferr' = TRUE /\ UNCHANGED <<sent, got>>
     \/ \* the receiver fails last
        /\ Fault /\ sent' = sent + 1 /\ Onwards /\ fpc' = "end" /\ ferr' = TRUE
        /\ UNCHANGED <<got, temps, linkVars, marks>>
  /\ UNCHANGED <<job, sct, dump, answer, kpc, kerr, rpc, rerr, rows, kct>>

\* zfs keeps the snapshots it makes of the container until the end, btrfs only
\* the one that follows a checkpoint.
zfsTemps == IF sent' > job.snaps THEN temps \cup {sent'} ELSE temps
btrfsTemps == IF spc = "final" THEN temps \cup {sent'} ELSE temps

\* zfs and btrfs send a snapshot, of their own making for the container.  The
\* stream ends when the command has written it, read by the sink or not.
SendStream ==
  /\ spc \in {"send", "final"} /\ Fs # "rsync"
  /\ job.big => LinkUp /\ fpc = "recv" /\ got = sent
  /\ sent' = sent + 1
  /\ temps' = IF Fs = "zfs" THEN zfsTemps ELSE btrfsTemps
  /\ Onwards
  /\ UNCHANGED <<job, linkVars, sct, dump, answer, sinkVars, marks, moveFaults>>

\* The temporary snapshot cannot be made, the command or the rsync fails.
SendFails ==
  /\ spc \in {"send", "final"}
  /\ IF Fs = "rsync" THEN ~LinkUp /\ UNCHANGED moveFaults ELSE Fault
  /\ abort
  /\ UNCHANGED <<job, sct, sent, dump, answer, sinkVars>>

\* Nobody reads the rest of what the command writes: it never ends.
Clogged ==
  /\ spc \in {"send", "final"} /\ Fs # "rsync" /\ job.big /\ ~LinkUp
  /\ spc' = "stuck" /\ Mark("clogged")
  /\ UNCHANGED <<job, linkVars, sct, temps, sent, dump, answer, sinkVars, moveFaults>>

\* criu starts to dump, with the action script as its callback.
Dump ==
  /\ spc = "dump"
  /\ IF job.script
     THEN /\ dump' = "running" /\ spc' = "dumping"
          /\ UNCHANGED <<sct, temps, linkVars, marks, moveFaults>>
     ELSE \/ /\ sct' = "dead" /\ spc' = "images"
             /\ UNCHANGED <<dump, temps, linkVars, marks, moveFaults>>
          \/ Fault /\ abort /\ UNCHANGED <<dump, sct>>
  /\ UNCHANGED <<job, sent, answer, sinkVars>>

\* The script has connected and waits: the container stays frozen.
DumpDone ==
  /\ dump = "running" /\ dump' = "dumped" /\ sct' = "frozen"
  /\ UNCHANGED <<job, linkVars, spc, temps, sent, answer, sinkVars, marks, moveFaults>>

DumpFails ==
  /\ dump = "running" /\ Fault /\ dump' = "failed"
  /\ UNCHANGED <<job, linkVars, spc, sct, temps, sent, answer, sinkVars, marks>>

SourceDumped ==
  /\ spc = "dumping"
  /\ \/ dump = "dumped" /\ spc' = "images" /\ UNCHANGED <<temps, linkVars, marks>>
     \/ dump = "failed" /\ abort
  /\ UNCHANGED <<job, sct, sent, dump, answer, sinkVars, moveFaults>>

\* The images of the checkpoint go by rsync on a connection of their own.
SendImages ==
  /\ spc = "images" /\ rpc = "criu" /\ LinkUp
  /\ \/ /\ spc' = "final" /\ rpc' = "fs"
        /\ UNCHANGED <<rerr, temps, linkVars, marks, moveFaults>>
     \/ /\ Fault /\ abort /\ rpc' = "end" /\ rerr' = TRUE
     \/ /\ Fault /\ spc' = "final" /\ rpc' = "end" /\ rerr' = TRUE
        /\ UNCHANGED <<temps, linkVars, marks>>
  /\ UNCHANGED <<job, sct, sent, dump, answer, kpc, kerr, fpc, ferr, got, rows, kct>>

SendImagesFails ==
  /\ spc = "images" /\ ~LinkUp
  /\ abort
  /\ UNCHANGED <<job, sct, sent, dump, answer, sinkVars, moveFaults>>

\* Faulty form: the script is told of success whatever the sink says.
AnswerGood(msg) == answer' = "ok" /\ spc' = "answered"

Answer(msg) == answer' = msg /\ spc' = "answered"

\* The sink's verdict; the script is told of it, but not of a lost connection.
\* Without a script nobody writes to dumpSuccess, which Do waits for.
Verdict ==
  /\ spc = "verdict"
  /\ Cleanup
  /\ \/ /\ toSrc # <<>> /\ toSrc' = Tail(toSrc)
        /\ \/ job.live /\ job.script /\ Answer(Head(toSrc)) /\ UNCHANGED marks
           \/ job.live /\ ~job.script /\ spc' = "stuck" /\ Mark("unheard") /\ UNCHANGED answer
           \/ ~job.live /\ spc' = (IF Head(toSrc) = "ok" THEN "ok" ELSE "failed")
              /\ UNCHANGED <<answer, marks>>
        /\ UNCHANGED up
     \/ /\ toSrc = <<>> /\ ~LinkUp
        /\ up' = up \ {"src"} /\ spc' = "failed"
        /\ marks' = IF dump = "dumped" THEN marks \cup {"abandoned"} ELSE marks
        /\ UNCHANGED <<toSrc, answer>>
  /\ UNCHANGED <<job, sconn, kconn, toSink, sct, sent, dump, sinkVars, moveFaults>>

\* The script ends, and criu kills the container or lets it run on.
ScriptEnds ==
  /\ dump = "dumped" /\ answer # "none"
  /\ dump' = IF answer = "ok" THEN "done" ELSE "failed"
  /\ sct' = IF answer = "ok" THEN "dead" ELSE "running"
  /\ UNCHANGED <<job, linkVars, spc, temps, sent, answer, sinkVars, marks, moveFaults>>

SourceEnds ==
  /\ spc = "answered" /\ dump \in {"done", "failed"}
  /\ spc' = IF answer = "ok" THEN "ok" ELSE "failed"
  /\ UNCHANGED <<job, linkVars, sct, temps, sent, dump, answer, sinkVars, marks, moveFaults>>

-----------------------------------------------------------------------------
(* The sink.                                                                *)
SinkHeader ==
  /\ kpc = "header"
  /\ \/ /\ toSink # <<>> /\ toSink' = Tail(toSink)
        /\ kpc' = "reply" /\ UNCHANGED <<up, toSrc, sconn, kconn>>
     \/ /\ toSink = <<>> /\ ~LinkUp
        /\ SendControl("snk", "error") /\ kpc' = "fail"
  /\ UNCHANGED <<job, srcVars, kerr, recvVars, rows, kct, marks, moveFaults>>

\* The sink answers with the type both will use, and starts its goroutines.
SinkReply ==
  /\ kpc = "reply"
  /\ IF LinkUp
     THEN /\ Send("snk", "reply") /\ kpc' = "loop"
          /\ fpc' = "begin" /\ rpc' = (IF job.live THEN "temp" ELSE "fs")
          /\ UNCHANGED <<up, sconn, kconn>>
     ELSE /\ SendControl("snk", "error") /\ kpc' = "fail"
          /\ UNCHANGED <<fpc, rpc>>
  /\ UNCHANGED <<job, srcVars, kerr, ferr, rerr, got, rows, kct, marks, moveFaults>>

\* A snapshot has its row before its stream is received, but for the drivers
\* that receive it into the container and take the snapshot afterwards.
RowFirst == Fs # "rsync" \/ job.to = "dir"

\* The goroutine of the file system: the storage is mounted (or unmounted, on
\* zfs); then for each stream its row and its data; then the ids are shifted.
FsBegin ==
  /\ fpc = "begin"
  /\ \/ fpc' = "next" /\ UNCHANGED <<ferr, moveFaults>>
     \/ fpc' = "end" /\ ferr' = TRUE /\ Fault
  /\ UNCHANGED <<job, linkVars, srcVars, kpc, kerr, rpc, rerr, got, rows, kct, marks>>

FsNext ==
  /\ fpc = "next"
  /\ LET due == rows < job.snaps /\ rows < (IF RowFirst THEN got + 1 ELSE got)
     IN \/ due /\ rows' = rows + 1 /\ UNCHANGED <<fpc, ferr, moveFaults>>
        \/ due /\ fpc' = "end" /\ ferr' = TRUE /\ Fault /\ UNCHANGED rows
        \/ ~due /\ got < Expected /\ fpc' = "recv" /\ UNCHANGED <<rows, ferr, moveFaults>>
        \/ ~due /\ got = Expected /\ fpc' = "shift" /\ UNCHANGED <<rows, ferr, moveFaults>>
  /\ UNCHANGED <<job, linkVars, srcVars, kpc, kerr, rpc, rerr, got, kct, marks>>

\* zfs receives into the dataset, unmounted before; btrfs beside the subvolume
\* made for the container, which it then replaces.
RecvStream ==
  /\ fpc = "recv" /\ sent > got
  /\ got' = got + 1 /\ fpc' = "next"
  /\ UNCHANGED <<job, linkVars, srcVars, kpc, kerr, ferr, rpc, rerr, rows, kct, marks, moveFaults>>

zfsRecv == Fs = "zfs" /\ RecvStream
btrfsRecv == Fs = "btrfs" /\ RecvStream

RecvFails ==
  /\ fpc = "recv"
  /\ IF LinkUp THEN Fs # "rsync" /\ Fault ELSE UNCHANGED moveFaults
  /\ fpc' = "end" /\ ferr' = TRUE
  /\ UNCHANGED <<job, linkVars, srcVars, kpc, kerr, rpc, rerr, got, rows, kct, marks>>

FsShift ==
  /\ fpc = "shift"
  /\ fpc' = "end"
  /\ \/ UNCHANGED <<ferr, moveFaults>>
     \/ ferr' = TRUE /\ Fault
  /\ UNCHANGED <<job, linkVars, srcVars, kpc, kerr, rpc, rerr, got, rows, kct, marks>>

\* Its result goes to the err of Do, which Do may be about to report, and then
\* to the other goroutine if that still waits for it.
FsEnds ==
  /\ fpc = "end"
  /\ fpc' = "send" /\ kerr' = ferr
  /\ marks' = IF kpc \in {"report", "return"} THEN marks \cup {"raced"} ELSE marks
  /\ UNCHANGED <<job, linkVars, srcVars, kpc, ferr, rpc, rerr, got, rows, kct, moveFaults>>

\* The goroutine that restores: the images first if the migration is live.
RestoreTemp ==
  /\ rpc = "temp"
  /\ \/ rpc' = "criu" /\ UNCHANGED <<rerr, moveFaults>>
     \/ rpc' = "end" /\ rerr' = TRUE /\ Fault
  /\ UNCHANGED <<job, linkVars, srcVars, kpc, kerr, fpc, ferr, got, rows, kct, marks>>

ImagesLost ==
  /\ rpc = "criu" /\ ~LinkUp
  /\ rpc' = "end" /\ rerr' = TRUE
  /\ UNCHANGED <<job, linkVars, srcVars, kpc, kerr, fpc, ferr, got, rows, kct, marks, moveFaults>>

\* Faulty form: what became of the file system is not looked at.
RestoreFsBlind ==
  /\ rpc = "fs" /\ fpc = "send"
  /\ fpc' = "gone"
  /\ rpc' = IF job.live THEN "restore" ELSE "end"
  /\ UNCHANGED <<job, linkVars, srcVars, kpc, kerr, ferr, rerr, got, rows, kct, marks, moveFaults>>

RestoreFs ==
  /\ rpc = "fs" /\ fpc = "send"
  /\ fpc' = "gone" /\ rerr' = ferr
  /\ rpc' = IF job.live /\ ~ferr THEN "restore" ELSE "end"
  /\ UNCHANGED <<job, linkVars, srcVars, kpc, kerr, ferr, got, rows, kct, marks, moveFaults>>

\* Migrate: startCommon, the shift of the images, then criu's restore.
Restore ==
  /\ rpc = "restore" /\ rpc' = "end"
  /\ \/ kct' = (IF kct = "created" THEN "running" ELSE kct) /\ UNCHANGED <<rerr, moveFaults>>
     \/ rerr' = TRUE /\ Fault /\ UNCHANGED kct
  /\ UNCHANGED <<job, linkVars, srcVars, kpc, kerr, fpc, ferr, got, rows, marks>>

\* Do waits for its goroutine or for the source, whichever comes first.
TakeRestore ==
  /\ kpc = "loop" /\ rpc = "end"
  /\ rpc' = "gone" /\ kerr' = rerr /\ kpc' = "report"
  /\ UNCHANGED <<job, linkVars, srcVars, fpc, ferr, rerr, got, rows, kct, marks, moveFaults>>

TakeSource ==
  /\ kpc = "loop"
  /\ toSink # <<>> \/ ~LinkUp
  /\ toSink' = <<>> /\ kpc' = "fail"
  /\ up' = up \ {"snk"}
  /\ UNCHANGED <<job, sconn, kconn, toSrc, srcVars, kerr, recvVars, rows, kct, marks, moveFaults>>

Report ==
  /\ kpc = "report"
  /\ SendControl("snk", IF kerr THEN "error" ELSE "ok")
  /\ kpc' = "return"
  /\ UNCHANGED <<job, srcVars, kerr, recvVars, rows, kct, marks, moveFaults>>

Return ==
  /\ kpc = "return"
  /\ kpc' = IF kerr THEN "fail" ELSE "templates"
  /\ up' = up \ {"snk"}
  /\ UNCHANGED <<job, sconn, kconn, toSink, toSrc, srcVars, kerr, recvVars, rows, kct, marks, moveFaults>>

\* The operation ends: the templates of a copy are applied, ...
TemplateApply ==
  /\ kpc = "templates"
  /\ \/ kpc' = "ok" /\ UNCHANGED <<marks, moveFaults>>
     \/ kpc' = "fail" /\ Fault /\ Mark("templates")
  /\ UNCHANGED <<job, linkVars, srcVars, kerr, recvVars, rows, kct>>

\* ... or the container is deleted, though the goroutines may still be at it.
Delete ==
  /\ kpc = "fail"
  /\ kpc' = "failed" /\ rows' = 0 /\ kct' = "deleted"
  /\ marks' = IF fpc \in {"off", "send", "gone"} THEN marks ELSE marks \cup {"late"}
  /\ UNCHANGED <<job, linkVars, srcVars, kerr, recvVars, moveFaults>>

-----------------------------------------------------------------------------
MoveSteps ==
  \/ CreateTarget \/ Dial \/ \E x \in Wanted : ConnectSource(x) \/ ConnectSink(x)
  \/ SourceSetup \/ SourceHeader \/ SourceReply
  \/ RsyncStream \/ SendStream \/ SendFails \/ Clogged
  \/ Dump \/ DumpDone \/ SourceDumped \/ SendImages \/ SendImagesFails
  \/ Verdict \/ ScriptEnds \/ SourceEnds
  \/ SinkHeader \/ SinkReply
  \/ FsBegin \/ FsNext \/ zfsRecv \/ btrfsRecv \/ RecvFails \/ FsShift \/ FsEnds
  \/ RestoreTemp \/ ImagesLost \/ RestoreFs \/ Restore
  \/ TakeRestore \/ TakeSource \/ Report \/ Return \/ TemplateApply \/ Delete

MoveNext == MoveSteps \/ DialFails \/ DumpFails \/ Break

MoveEnded == spc \in {"ok", "failed"} /\ kpc \in {"ok", "failed"}

MoveSpec == MoveInit /\ [][MoveNext]_moveVars /\ WF_moveVars(MoveSteps)

-----------------------------------------------------------------------------
\* A container that is migrated live never runs on both hosts; and with an
\* action script it is killed on the old one only when it runs on the new one,
\* however the dump, the streams, the restore or the network fail; unless the
\* sink's goroutine wrote over the error Do was about to report, or the
\* templates of the copy failed after the verdict was sent.
Handover ==
  /\ ~(sct = "running" /\ kct = "running")
  /\ job.live /\ job.script /\ sct = "dead" =>
       kct = "running" \/ marks \cap {"raced", "templates"} # {}

\* A sink that ends well has received everything, with a row for each
\* snapshot, and one that ends badly leaves none; unless its goroutine was
\* still at work when Do reported or when the container was deleted.
Transferred ==
  /\ kpc = "ok" /\ "raced" \notin marks =>
       got = Expected /\ rows = job.snaps /\ (job.live => kct = "running")
  /\ kpc = "failed" /\ "late" \notin marks => rows = 0
  /\ spc \in {"ok", "failed"} => temps = {}

\* The source writes to a goroutine that has failed, while the other goroutine
\* reads the images first and would not hear of the failure before.
Deadlocked ==
  spc = "send" /\ fpc = "send" /\ ferr /\ rpc = "criu" /\ (Fs = "rsync" \/ job.big)

\* Both operations end, and leave no container frozen, whatever fails; but for
\* a connection that is never made, a source that gives up before its header,
\* a stream that nobody reads any more, a source that waits for a dump that
\* had no script, and a script that is never told, because the source aborted
\* or lost its connection after the dump.
MigrationEnds ==
  <>[](\/ MoveEnded /\ (sct = "frozen" => "abandoned" \in marks)
      \/ marks \cap {"undialed", "silent", "clogged", "unheard"} # {}
      \/ Deadlocked)
=============================================================================
