-------------------------------- MODULE Exec --------------------------------
(***************************************************************************)
(* A command run in a container with its streams on websockets: execWs     *)
(* (container_exec.go), the goroutines that carry the streams              *)
(* (shared/network.go, shared/util_linux.go) and the client that connects  *)
(* to them (ExecContainer, "mercury exec").  Interactive sessions have one *)
(* stream on a terminal, fd 0, and a control connection, fd -1; others have *)
(* pipes for fds 0, 1 and 2.  Output is counted in chunks.                 *)
(***************************************************************************)
EXTENDS Integers, FiniteSets

CONSTANTS
  OutFds,          \* the outputs of a command without a terminal, 1 and 2
  MaxOut,          \* bound on the chunks the command writes to a stream
  MaxExecFaults

ASSUME ExecAssumption == OutFds \subseteq {1, 2} /\ MaxOut \in Nat /\ MaxExecFaults \in Nat

VARIABLES
  tty,             \* interactive
  control,         \* the client asks for the control connection
  handler,         \* fd -> where execWs.Connect is
  conns,           \* the fds that have a connection in execWs.conns
  allConnected, controlConnected, exited,   \* what the channels hold
  peer,            \* fd -> the connection
  doPc,            \* execWs.Do
  ctlPc,           \* the goroutine of the control connection
  child,           \* the command
  holder,          \* a process it left in the background has its output open
  ours,            \* the daemon has its side of the output open
  strm,            \* the output streams
  written,         \* the chunks the command has written to each
  inPc,            \* defaultWriter
  watchPc, deadFlag,   \* the first goroutine of ExecReaderToChannel and its flag
  cli,             \* the client
  exMarks, exFaults

exVars == <<tty, control, handler, conns, allConnected, controlConnected, exited, peer, doPc, ctlPc, child,
            holder, ours, strm, written, inPc, watchPc, deadFlag, cli, exMarks, exFaults>>

Fds == -1 .. 2
Outs == IF tty THEN {0} ELSE OutFds
DataFds == {0} \cup Outs

\* buf: the command's chunks to be read; noise: there is more to be read;
\* rd: the goroutine that reads; chunk: what it has read; closed: its channel;
\* snd: the goroutine that sends to the connection; wire, barrier: what is on
\* the connection; open: our end; got: what the client has.
NoStream == [buf |-> 0, noise |-> FALSE, rd |-> "none", chunk |-> 0, closed |-> FALSE, snd |-> "none", has |-> 0,
             wire |-> 0, barrier |-> FALSE, open |-> TRUE, got |-> 0]

ExecInit ==
  /\ tty \in BOOLEAN /\ control \in (IF tty THEN BOOLEAN ELSE {FALSE})
  /\ handler = [f \in Fds |-> "none"] /\ conns = {} /\ peer = [f \in Fds |-> "none"]
  /\ allConnected = 0 /\ controlConnected = 0 /\ exited = 0
  /\ doPc = "wait" /\ ctlPc = "none" /\ child = "none" /\ holder = FALSE /\ ours = FALSE
  /\ strm = [o \in 0 .. 2 |-> NoStream] /\ written = [o \in 0 .. 2 |-> 0]
  /\ inPc = "none" /\ watchPc = "none" /\ deadFlag = FALSE
  /\ cli = "connects" /\ exMarks = {} /\ exFaults = 0

ExMark(S) == exMarks' = exMarks \cup S
ToSend(o) == strm[o].buf > 0 \/ strm[o].noise
\* Nobody has the other end open.
HungUp == ~ours /\ ~holder /\ child # "alive"

-----------------------------------------------------------------------------
(* The client: ExecContainer connects to one fd after the other, control     *)
(* first.                                                                    *)

Asked == DataFds \cup (IF control THEN {-1} ELSE {})

\* The connection is there for the client before the handler goes on.
ClientConnects(f) ==
  /\ cli = "connects" /\ doPc = "wait" /\ peer[f] = "none"
  /\ f \in Asked /\ \A g \in Asked : g < f => peer[g] = "open"
  /\ peer' = [peer EXCEPT ![f] = "open"] /\ handler' = [handler EXCEPT ![f] = "upgraded"]
  /\ cli' = IF \A g \in Asked : g <= f THEN "streams" ELSE cli
  /\ UNCHANGED <<tty, control, conns, allConnected, controlConnected, exited, doPc, ctlPc, child, holder, ours, strm,
                 written, inPc, watchPc, deadFlag, exMarks, exFaults>>

\* The client receives; the barrier ends a stream.  In an interactive session
\* it then closes the connection, else once both streams have ended.
ClientReceives(o) ==
  /\ cli = "streams" /\ o \in Outs /\ peer[o] = "open"
  /\ \/ /\ strm[o].wire > 0
        /\ strm' = [strm EXCEPT ![o].wire = 0, ![o].got = @ + strm[o].wire] /\ UNCHANGED <<peer, cli>>
     \/ /\ strm[o].wire = 0 /\ strm[o].barrier
        /\ strm' = [strm EXCEPT ![o].barrier = FALSE]
        /\ peer' = [peer EXCEPT ![o] = "closed"]
        /\ cli' = IF \A q \in Outs \ {o} : peer[q] = "closed" THEN "waits" ELSE cli
  /\ UNCHANGED <<tty, control, handler, conns, allConnected, controlConnected, exited, doPc, ctlPc, child, holder, ours,
                 written, inPc, watchPc, deadFlag, exMarks, exFaults>>

\* The input of the client ends: it sends the barrier.
ClientInputEnds ==
  /\ cli = "streams" /\ peer[0] = "open" /\ inPc = "reads" /\ inPc' = "barrier"
  /\ ExMark(IF tty THEN {"input"} ELSE {})
  /\ UNCHANGED <<tty, control, handler, conns, allConnected, controlConnected, exited, peer, doPc, ctlPc, child, holder,
                 ours, strm, written, watchPc, deadFlag, cli, exFaults>>

\* run of "mercury exec": waits for the operation and for the streams.  An
\* operation that failed ends the client.
ClientEnds ==
  /\ \/ cli = "waits" /\ doPc = "done" /\ cli' = "done"
     \/ cli \in {"streams", "waits"} /\ doPc = "failed" /\ cli' = "gone"
  /\ peer' = [f \in Fds |-> IF peer[f] = "open" THEN "closed" ELSE peer[f]]
  /\ UNCHANGED <<tty, control, handler, conns, allConnected, controlConnected, exited, doPc, ctlPc, child, holder, ours,
                 strm, written, inPc, watchPc, deadFlag, exMarks, exFaults>>

\* The client, or its network, is gone.
ClientGone ==
  /\ cli \in {"connects", "streams", "waits"} /\ exFaults < MaxExecFaults /\ exFaults' = exFaults + 1
  /\ cli' = "gone" /\ peer' = [f \in Fds |-> IF peer[f] = "open" THEN "closed" ELSE peer[f]]
  /\ UNCHANGED <<tty, control, handler, conns, allConnected, controlConnected, exited, doPc, ctlPc, child, holder, ours,
                 strm, written, inPc, watchPc, deadFlag, exMarks>>

-----------------------------------------------------------------------------
(* execWs.Connect *)

ConnectMaps(f) ==
  /\ handler[f] = "upgraded" /\ conns' = conns \cup {f}
  /\ handler' = [handler EXCEPT ![f] = IF f = -1 THEN "control" ELSE "looks"]
  /\ UNCHANGED <<tty, control, allConnected, controlConnected, exited, peer, doPc, ctlPc, child, holder, ours, strm,
                 written, inPc, watchPc, deadFlag, cli, exMarks, exFaults>>

ConnectLooks(f) ==
  /\ handler[f] = "looks"
  /\ handler' = [handler EXCEPT ![f] = IF DataFds \subseteq conns THEN "all" ELSE "done"]
  /\ UNCHANGED <<tty, control, conns, allConnected, controlConnected, exited, peer, doPc, ctlPc, child, holder, ours, strm,
                 written, inPc, watchPc, deadFlag, cli, exMarks, exFaults>>

\* Both channels have room for one.
ConnectTells(f) ==
  /\ \/ /\ handler[f] = "control" /\ controlConnected = 0 /\ controlConnected' = 1 /\ UNCHANGED allConnected
     \/ /\ handler[f] = "all" /\ allConnected = 0 /\ allConnected' = 1 /\ UNCHANGED controlConnected
  /\ handler' = [handler EXCEPT ![f] = "done"]
  /\ UNCHANGED <<tty, control, conns, exited, peer, doPc, ctlPc, child, holder, ours, strm, written, inPc, watchPc,
                 deadFlag, cli, exMarks, exFaults>>

-----------------------------------------------------------------------------
(* execWs.Do *)

\* The terminal or the pipes are opened and the goroutines are started.
DoOpens ==
  /\ doPc = "wait" /\ allConnected = 1 /\ allConnected' = 0
  /\ doPc' = "exec" /\ ours' = TRUE
  /\ ctlPc' = IF tty THEN "born" ELSE "none"
  /\ inPc' = "reads" /\ watchPc' = IF tty THEN "waits" ELSE "none"
  /\ strm' = [o \in 0 .. 2 |-> IF o \in Outs THEN [strm[o] EXCEPT !.rd = "poll", !.snd = "takes"] ELSE strm[o]]
  /\ UNCHANGED <<tty, control, handler, conns, controlConnected, exited, peer, child, holder, written, deadFlag, cli,
                 exMarks, exFaults>>

\* containerMERCURY.Exec: forkexec attaches to the container, starts the
\* command and sends its pid.  Do returns when that fails, with the terminal
\* still open.
Exec ==
  /\ doPc = "exec"
  /\ \/ doPc' = (IF tty THEN "born" ELSE "waits") /\ child' = "alive" /\ UNCHANGED exFaults
     \/ /\ exFaults < MaxExecFaults /\ exFaults' = exFaults + 1
        /\ doPc' = "failed" /\ UNCHANGED child
  /\ UNCHANGED <<tty, control, handler, conns, allConnected, controlConnected, exited, peer, ctlPc, holder, ours, strm,
                 written, inPc, watchPc, deadFlag, cli, exMarks>>

Born ==
  /\ doPc = "born" /\ ctlPc = "born" /\ doPc' = "waits" /\ ctlPc' = "select"
  /\ UNCHANGED <<tty, control, handler, conns, allConnected, controlConnected, exited, peer, child, holder, ours, strm,
                 written, inPc, watchPc, deadFlag, cli, exMarks, exFaults>>

\* cmd.Wait, and the finisher closes its end of the streams.
FinisherCloses ==
  /\ doPc = "waits" /\ child = "dead" /\ doPc' = "asks" /\ ours' = FALSE
  /\ UNCHANGED <<tty, control, handler, conns, allConnected, controlConnected, exited, peer, ctlPc, child, holder, strm,
                 written, inPc, watchPc, deadFlag, cli, exMarks, exFaults>>

\* It closes the control connection, or ends the goroutine that waits for it.
FinisherAsks ==
  /\ doPc = "asks"
  /\ IF -1 \in conns
     THEN peer' = [peer EXCEPT ![-1] = IF @ = "open" THEN "ended" ELSE @] /\ doPc' = "tells"
     ELSE doPc' = (IF tty THEN "exits" ELSE "tells") /\ UNCHANGED peer
  /\ UNCHANGED <<tty, control, handler, conns, allConnected, controlConnected, exited, ctlPc, child, holder, ours, strm,
                 written, inPc, watchPc, deadFlag, cli, exMarks, exFaults>>

ControlExit ==
  /\ doPc = "exits" /\ ctlPc = "select" /\ doPc' = "tells" /\ ctlPc' = "gone"
  /\ UNCHANGED <<tty, control, handler, conns, allConnected, controlConnected, exited, peer, child, holder, ours, strm,
                 written, inPc, watchPc, deadFlag, cli, exMarks, exFaults>>

\* Faulty form: the reader is not told.
FinisherSilent ==
  /\ doPc = "tells" /\ doPc' = "drains"
  /\ UNCHANGED <<tty, control, handler, conns, allConnected, controlConnected, exited, peer, ctlPc, child, holder, ours,
                 strm, written, inPc, watchPc, deadFlag, cli, exMarks, exFaults>>

FinisherTells ==
  /\ doPc = "tells" /\ exited = 0 /\ exited' = 1 /\ doPc' = "drains"
  /\ UNCHANGED <<tty, control, handler, conns, allConnected, controlConnected, peer, ctlPc, child, holder, ours, strm,
                 written, inPc, watchPc, deadFlag, cli, exMarks, exFaults>>

\* wgEOF.Wait: the terminal's goroutine waits for both directions.
FinisherEnds ==
  /\ doPc = "drains" /\ \A o \in Outs : strm[o].snd = "done"
  /\ tty => inPc = "done"
  /\ doPc' = "done"
  /\ strm' = [o \in 0 .. 2 |-> [strm[o] EXCEPT !.open = FALSE]]
  /\ UNCHANGED <<tty, control, handler, conns, allConnected, controlConnected, exited, peer, ctlPc, child, holder, ours,
                 written, inPc, watchPc, deadFlag, cli, exMarks, exFaults>>

-----------------------------------------------------------------------------
(* The control connection. *)

\* A control connection the finisher did not see is waited for by nobody.
ControlConnected ==
  /\ ctlPc = "select" /\ controlConnected = 1 /\ controlConnected' = 0 /\ ctlPc' = "loop"
  /\ ExMark(IF doPc = "exits" THEN {"control"} ELSE {})
  /\ UNCHANGED <<tty, control, handler, conns, allConnected, exited, peer, doPc, child, holder, ours, strm, written, inPc,
                 watchPc, deadFlag, cli, exFaults>>

\* A connection that broke kills the command; one the daemon closed does not.
ControlLoop ==
  /\ ctlPc = "loop" /\ peer[-1] \in {"closed", "ended"} /\ ctlPc' = "gone"
  /\ child' = IF peer[-1] = "closed" /\ child = "alive" THEN "dead" ELSE child
  /\ UNCHANGED <<tty, control, handler, conns, allConnected, controlConnected, exited, peer, doPc, holder, ours, strm,
                 written, inPc, watchPc, deadFlag, cli, exMarks, exFaults>>

\* A signal the client was sent is forwarded and ends the command.
forwardSignal ==
  /\ ctlPc = "loop" /\ peer[-1] = "open" /\ cli = "streams" /\ child = "alive" /\ child' = "dead"
  /\ UNCHANGED <<tty, control, handler, conns, allConnected, controlConnected, exited, peer, doPc, ctlPc, holder, ours,
                 strm, written, inPc, watchPc, deadFlag, cli, exMarks, exFaults>>

-----------------------------------------------------------------------------
(* The command. *)

Writes(o) ==
  /\ child = "alive" /\ o \in Outs /\ strm[o].open /\ written[o] < MaxOut
  /\ written' = [written EXCEPT ![o] = @ + 1] /\ strm' = [strm EXCEPT ![o].buf = @ + 1]
  /\ UNCHANGED <<tty, control, handler, conns, allConnected, controlConnected, exited, peer, doPc, ctlPc, child, holder,
                 ours, inPc, watchPc, deadFlag, cli, exMarks, exFaults>>

\* It ends, and may leave a process behind that has its output open.
Exits ==
  /\ child = "alive" /\ child' = "dead" /\ holder' \in BOOLEAN
  /\ UNCHANGED <<tty, control, handler, conns, allConnected, controlConnected, exited, peer, doPc, ctlPc, ours, strm,
                 written, inPc, watchPc, deadFlag, cli, exMarks, exFaults>>

HolderWrites(o) ==
  /\ holder /\ o \in Outs /\ strm[o].open /\ ~strm[o].noise
  /\ strm' = [strm EXCEPT ![o].noise = TRUE]
  /\ UNCHANGED <<tty, control, handler, conns, allConnected, controlConnected, exited, peer, doPc, ctlPc, child, holder,
                 ours, written, inPc, watchPc, deadFlag, cli, exMarks, exFaults>>

HolderEnds ==
  /\ holder /\ holder' = FALSE
  /\ UNCHANGED <<tty, control, handler, conns, allConnected, controlConnected, exited, peer, doPc, ctlPc, child, ours,
                 strm, written, inPc, watchPc, deadFlag, cli, exMarks, exFaults>>

-----------------------------------------------------------------------------
(* Reading the output: ExecReaderToChannel on a terminal, ReaderToChannel on *)
(* a pipe.                                                                   *)

Read(s) == [s EXCEPT !.rd = "has", !.chunk = s.buf, !.buf = 0, !.noise = FALSE]

\* Faulty form: a hangup ends the reading, whatever is still to be read.
PollHangs(o) == IF HungUp \/ ~strm[o].open THEN "ended" ELSE IF ToSend(o) THEN "in" ELSE "poll"

\* What poll says: data alone is looked at again, data with a hangup is read,
\* a hangup alone is the end.
PollSays(o) ==
  IF ~strm[o].open THEN "ended"
  ELSE IF ToSend(o) THEN (IF HungUp THEN "has" ELSE "in")
  ELSE IF HungUp THEN "ended" ELSE "poll"

ReaderPolls(o) ==
  /\ o \in Outs /\ strm[o].rd = "poll" /\ PollSays(o) # "poll"
  /\ strm' = [strm EXCEPT ![o] = IF PollSays(o) = "has" \/ (PollSays(o) = "in" /\ ~tty) THEN Read(@)
                                 ELSE [@ EXCEPT !.rd = PollSays(o)]]
  /\ UNCHANGED <<tty, control, handler, conns, allConnected, controlConnected, exited, peer, doPc, ctlPc, child, holder,
                 ours, written, inPc, watchPc, deadFlag, cli, exMarks, exFaults>>

\* Once the command is dead, data without a hangup is of someone else.
ReaderLoads(o) ==
  /\ strm[o].rd = "in"
  /\ strm' = [strm EXCEPT ![o] = IF deadFlag THEN [@ EXCEPT !.rd = "again"] ELSE Read(@)]
  /\ UNCHANGED <<tty, control, handler, conns, allConnected, controlConnected, exited, peer, doPc, ctlPc, child, holder,
                 ours, written, inPc, watchPc, deadFlag, cli, exMarks, exFaults>>

ReaderAgain(o) ==
  /\ strm[o].rd = "again"
  /\ strm' = [strm EXCEPT ![o] = IF HungUp /\ @.open THEN Read(@) ELSE [@ EXCEPT !.rd = "ended"]]
  /\ ExMark(IF ~HungUp /\ strm[o].buf > 0 THEN {"held"} ELSE {})
  /\ UNCHANGED <<tty, control, handler, conns, allConnected, controlConnected, exited, peer, doPc, ctlPc, child, holder,
                 ours, written, inPc, watchPc, deadFlag, cli, exFaults>>

\* Handing over to the sender.  A channel that was closed meanwhile panics.
ReaderHands(o) ==
  /\ strm[o].rd = "has"
  /\ \/ /\ ~strm[o].closed /\ strm[o].snd = "takes"
        /\ strm' = [strm EXCEPT ![o].rd = "poll", ![o].has = strm[o].chunk, ![o].chunk = 0, ![o].snd = "sends"]
        /\ UNCHANGED exMarks
     \/ strm[o].closed /\ ExMark({"panic"}) /\ strm' = [strm EXCEPT ![o].rd = "done"]
  /\ UNCHANGED <<tty, control, handler, conns, allConnected, controlConnected, exited, peer, doPc, ctlPc, child, holder,
                 ours, written, inPc, watchPc, deadFlag, cli, exFaults>>

ReaderEnds(o) ==
  /\ strm[o].rd = "ended" /\ strm' = [strm EXCEPT ![o].rd = "done", ![o].closed = TRUE]
  /\ UNCHANGED <<tty, control, handler, conns, allConnected, controlConnected, exited, peer, doPc, ctlPc, child, holder,
                 ours, written, inPc, watchPc, deadFlag, cli, exMarks, exFaults>>

\* The goroutine that waits for the end of the command: with nothing to be
\* read it closes the channel, else that is left to the reader.  A reader that
\* waits to hand over then panics.
WatchTold ==
  /\ watchPc = "waits" /\ exited = 1 /\ exited' = 0 /\ deadFlag' = TRUE /\ watchPc' = "polls"
  /\ UNCHANGED <<tty, control, handler, conns, allConnected, controlConnected, peer, doPc, ctlPc, child, holder, ours,
                 strm, written, inPc, cli, exMarks, exFaults>>

WatchPolls ==
  /\ watchPc = "polls" /\ watchPc' = "done"
  /\ strm' = [strm EXCEPT ![0].closed = @ \/ PollSays(0) = "poll"]
  /\ ExMark(IF PollSays(0) = "poll" /\ strm[0].rd = "has" THEN {"panic"} ELSE {})
  /\ UNCHANGED <<tty, control, handler, conns, allConnected, controlConnected, exited, peer, doPc, ctlPc, child, holder,
                 ours, written, inPc, deadFlag, cli, exFaults>>

-----------------------------------------------------------------------------
(* The connection: WebsocketExecMirror and WebsocketSendStream, and          *)
(* defaultWriter and WebsocketRecvStream for the input.                      *)

\* A chunk goes to the client; when that fails the sender ends.
SenderSends(o) ==
  /\ strm[o].snd = "sends"
  /\ strm' = [strm EXCEPT ![o] = IF peer[o] = "open" THEN [@ EXCEPT !.snd = "takes", !.wire = strm[o].wire + strm[o].has, !.has = 0]
                                 ELSE [@ EXCEPT !.snd = "done", !.has = 0, !.open = FALSE]]
  /\ UNCHANGED <<tty, control, handler, conns, allConnected, controlConnected, exited, peer, doPc, ctlPc, child, holder,
                 ours, written, inPc, watchPc, deadFlag, cli, exMarks, exFaults>>

\* The channel is closed: the barrier is sent and our end closed.
SenderEnds(o) ==
  /\ strm[o].snd = "takes" /\ strm[o].closed
  /\ strm' = [strm EXCEPT ![o].snd = "done", ![o].barrier = (peer[o] = "open"), ![o].open = FALSE]
  /\ UNCHANGED <<tty, control, handler, conns, allConnected, controlConnected, exited, peer, doPc, ctlPc, child, holder,
                 ours, written, inPc, watchPc, deadFlag, cli, exMarks, exFaults>>

\* The input ends with a barrier or the connection.  On a terminal that closes
\* our end of it, which the output is read from.
InputEnds ==
  /\ inPc = "barrier" \/ (inPc = "reads" /\ peer[0] # "open")
  /\ inPc' = "done"
  /\ strm' = IF tty THEN [strm EXCEPT ![0].open = FALSE] ELSE strm
  /\ child' \in IF tty /\ child = "alive" THEN {"alive", "dead"} ELSE {child}
  /\ UNCHANGED <<tty, control, handler, conns, allConnected, controlConnected, exited, peer, doPc, ctlPc, holder, ours,
                 written, watchPc, deadFlag, cli, exMarks, exFaults>>

-----------------------------------------------------------------------------
\* The steps of the daemon, and those of the client that answer them.
ExecSteps ==
  \/ \E f \in Fds : ConnectMaps(f) \/ ConnectLooks(f) \/ ConnectTells(f)
  \/ DoOpens \/ Exec \/ Born \/ FinisherCloses \/ FinisherAsks \/ ControlExit \/ FinisherTells \/ FinisherEnds
  \/ ControlConnected \/ ControlLoop \/ WatchTold \/ WatchPolls \/ InputEnds
  \/ \E o \in 0 .. 2 : \/ ReaderPolls(o) \/ ReaderLoads(o) \/ ReaderAgain(o) \/ ReaderHands(o) \/ ReaderEnds(o)
                       \/ SenderSends(o) \/ SenderEnds(o) \/ ClientReceives(o)

ExecNext ==
  \/ ExecSteps
  \/ \E f \in Fds : ClientConnects(f)
  \/ ClientInputEnds \/ ClientEnds \/ ClientGone
  \/ Exits \/ HolderEnds \/ forwardSignal
  \/ \E o \in 0 .. 2 : Writes(o) \/ HolderWrites(o)

ExecSpec == ExecInit /\ [][ExecNext]_exVars

-----------------------------------------------------------------------------
\* Whether a goroutine of stream o, or the client that reads it, can go on.
StreamGoesOn(o) ==
  \/ strm[o].rd \in {"in", "again", "ended"}
  \/ strm[o].rd = "poll" /\ PollSays(o) # "poll"
  \/ strm[o].rd = "has" /\ (strm[o].closed \/ strm[o].snd = "takes")
  \/ strm[o].snd = "sends"
  \/ strm[o].snd = "takes" /\ strm[o].closed
  \/ cli = "streams" /\ peer[o] = "open" /\ (strm[o].wire > 0 \/ strm[o].barrier)

\* Whether one of them, the finisher, or what it waits for can go on: some step
\* of ExecSteps is enabled.
GoesOn ==
  \/ doPc = "waits" /\ child = "dead"
  \/ doPc = "asks"
  \/ doPc = "born" /\ ctlPc = "born"
  \/ doPc = "exits" /\ ctlPc = "select"
  \/ doPc = "tells" /\ exited = 0
  \/ doPc = "drains" /\ (\A o \in Outs : strm[o].snd = "done") /\ (tty => inPc = "done")
  \/ watchPc = "waits" /\ exited = 1
  \/ watchPc = "polls"
  \/ inPc = "barrier"
  \/ inPc = "reads" /\ peer[0] # "open"
  \/ \E o \in Outs : StreamGoesOn(o)

\* A command that has ended ends its operation, whatever the client has done
\* and whatever holds the terminal, and a client that got to the end of the
\* streams has all the command wrote.  Except where a process in the
\* background holds a pipe; where its hold on a terminal makes the reader drop
\* what the command wrote last; where the control connection comes in while
\* the finisher looks for it; and where the client ends its input, which
\* closes the terminal.
ExecWhole ==
  /\ cli = "done" /\ exMarks \cap {"held", "input", "panic"} = {} => \A o \in Outs : strm[o].got = written[o]
  /\ child = "dead" /\ doPc # "done" /\ exMarks = {} /\ (holder => tty) => GoesOn
=============================================================================
