---------------------------- MODULE ContainerOp ----------------------------
(***************************************************************************)
(* The per-container operation lock of apollo/container_mercury.go and the *)
(* calls that use it: Start, Stop, Shutdown, the OnStart and OnStop hooks  *)
(* and the daemon's own containersShutdown (apollo/containers.go).         *)
(*                                                                         *)
(* One container is modelled: mercuryContainerOperations is keyed by the   *)
(* container's id and entries of different containers never meet.  A       *)
(* member of Proc is one call (an API request, or one run of the OnStop    *)
(* hook); a call creates at most one operation object, so the object is    *)
(* named after the call that created it.  Channels: chanDone is closed or  *)
(* not; chanReset is unbuffered, so a send completes only while the 30s    *)
(* goroutine of the operation is still in its select.                      *)
(***************************************************************************)
EXTENDS Naturals, FiniteSets, TLC

CONSTANTS
  Proc,         \* calls
  None,         \* the nil pointer
  Calls,        \* the kinds of call API clients make
  SelfHalts,    \* the targets a container may halt with on its own
  MaxTimeouts,  \* bound: how many 30s timers run out in a behaviour
  HostShuts     \* whether the host is shut down in this instance

Kinds == {"start", "stop", "checkpoint", "shutdown"}
Targets == {"stop", "reboot", "unknown"}

ASSUME ConstantsAssumption ==
  /\ None \notin Proc
  /\ Calls \subseteq Kinds
  /\ SelfHalts \subseteq Targets
  /\ MaxTimeouts \in Nat
  /\ HostShuts \in BOOLEAN

VARIABLES
  registered,   \* mercuryContainerOperations[c.id]
  action, reusable, closes, err, timer,  \* the operation objects
  pc, call,     \* where each call is, and what it is
  my,           \* the operation a call works under
  outer,        \* the stop operation an OnStop run found and will release
  lxc, target,  \* the container as liblxc sees it, and why it is halting
  hook,         \* the OnStop run the container's monitor is waiting for
  devs,         \* the run's devices, disks and filters are in place
  power,        \* volatile.last_state.power
  timeouts,     \* 30s timers that have run out so far
  host          \* containersShutdown's progress on this container

lockVars == <<registered, action, reusable, closes, err, timer>>
callVars == <<pc, call, my, outer>>
lxcVars  == <<lxc, target, hook>>
vars == <<lockVars, callVars, lxcVars, devs, power, timeouts, host>>

PCs == {"idle", "create", "insert", "reset", "act", "kill", "signalled",
        "setup", "fork", "forked", "wait", "storage", "cleanup", "record",
        "release", "ended"}
LxcStates == {"STOPPED", "STARTING", "RUNNING", "FROZEN", "STOPPING"}

Init ==
  /\ registered = None
  /\ action = [o \in Proc |-> "none"]
  /\ reusable = [o \in Proc |-> FALSE]
  /\ closes = [o \in Proc |-> 0]
  /\ err = [o \in Proc |-> FALSE]
  /\ timer = [o \in Proc |-> "off"]
  /\ pc = [p \in Proc |-> "idle"]
  /\ call = [p \in Proc |-> "none"]
  /\ my = [p \in Proc |-> None]
  /\ outer = [p \in Proc |-> None]
  /\ \/ lxc = "STOPPED" /\ devs = FALSE /\ power = "STOPPED"
     \/ lxc = "RUNNING" /\ devs = TRUE /\ power = "RUNNING"
  /\ target = "stop"
  /\ hook = None
  /\ timeouts = 0
  /\ host = [pc |-> "off", by |-> None, last |-> "STOPPED"]

IsRunning == lxc # "STOPPED"
Goto(p, l) == pc' = [pc EXCEPT ![p] = l]

(***************************************************************************)
(* Done: only the registered operation is closed and taken off the map.    *)
(***************************************************************************)
\* Faulty form: the check for an operation that is already done is missing.
DoneUnchecked(o, e) ==
  /\ closes' = [closes EXCEPT ![o] = @ + 1]
  /\ err' = [err EXCEPT ![o] = e]
  /\ registered' = None
  /\ UNCHANGED <<action, reusable>>

Done(o, e) ==
  /\ IF registered = o
     THEN /\ closes' = [closes EXCEPT ![o] = @ + 1]
          /\ err' = [err EXCEPT ![o] = e]
          /\ registered' = None
     ELSE UNCHANGED <<closes, err, registered>>
  /\ UNCHANGED <<action, reusable>>

(***************************************************************************)
(* The goroutine Create starts for an operation: 30s without a Reset end   *)
(* the operation with an error and the goroutine with it.  It is not told  *)
(* when the operation is done by somebody else.                            *)
(***************************************************************************)
\* Faulty form: the goroutine ends without marking the operation done.
TimerFiresSilently(o) ==
  /\ timer[o] = "armed"
  /\ timeouts < MaxTimeouts
  /\ timeouts' = timeouts + 1
  /\ timer' = [timer EXCEPT ![o] = "gone"]
  /\ UNCHANGED <<registered, action, reusable, closes, err>>
  /\ UNCHANGED <<callVars, lxcVars, devs, power, host>>

TimerFires(o) ==
  /\ timer[o] = "armed"
  /\ timeouts < MaxTimeouts
  /\ timeouts' = timeouts + 1
  /\ timer' = [timer EXCEPT ![o] = "gone"]
  /\ Done(o, TRUE)
  /\ UNCHANGED <<callVars, lxcVars, devs, power, host>>

(***************************************************************************)
(* A call begins.  Stop and Shutdown first look whether the container is   *)
(* running.                                                                *)
(***************************************************************************)
BeginCall(p, k) ==
  /\ pc[p] = "idle"
  /\ Goto(p, IF k # "start" /\ ~IsRunning THEN "ended" ELSE "create")
  /\ call' = [call EXCEPT ![p] = k]
  /\ UNCHANGED <<my, outer>>

\* containerStatePut thaws a frozen container before it shuts it down.
Request(p) ==
  /\ \E k \in Calls :
       /\ BeginCall(p, k)
       /\ lxc' = IF k = "shutdown" /\ lxc = "FROZEN" THEN "RUNNING" ELSE lxc
  /\ UNCHANGED <<lockVars, target, hook, devs, power, timeouts, host>>

(***************************************************************************)
(* createOperation.  The look at the map and the insertion are two         *)
(* critical sections; a reused operation is Reset between them, without    *)
(* the lock.  A reboot's nested Start falls back into OnStop's goroutine.  *)
(***************************************************************************)
Reuse(p) == call[p] \in {"stop", "checkpoint", "shutdown"}
Exit(p) == IF call[p] = "reboot" THEN "release" ELSE "ended"

\* Faulty form: any running operation may be reused, not only a reusable one.
GetOperationReuseAny(p) ==
  /\ pc[p] = "create"
  /\ IF registered = None
     THEN Goto(p, "insert") /\ UNCHANGED my
     ELSE IF Reuse(p)
     THEN Goto(p, "reset") /\ my' = [my EXCEPT ![p] = registered]
     ELSE Goto(p, Exit(p)) /\ UNCHANGED my
  /\ UNCHANGED <<lockVars, call, outer, lxcVars, devs, power, timeouts, host>>

GetOperation(p) ==
  /\ pc[p] = "create"
  /\ IF registered = None
     THEN Goto(p, "insert") /\ UNCHANGED my
     ELSE IF Reuse(p) /\ reusable[registered]
     THEN Goto(p, "reset") /\ my' = [my EXCEPT ![p] = registered]
     ELSE Goto(p, Exit(p)) /\ UNCHANGED my
  /\ UNCHANGED <<lockVars, call, outer, lxcVars, devs, power, timeouts, host>>

Reset(p) ==
  /\ pc[p] = "reset"
  /\ timer[my[p]] = "armed"
  /\ Goto(p, "act")
  /\ UNCHANGED <<lockVars, call, my, outer, lxcVars, devs, power, timeouts, host>>

InsertOperation(p) ==
  /\ pc[p] = "insert"
  /\ action' = [action EXCEPT ![p] = IF Reuse(p) THEN "stop" ELSE "start"]
  /\ reusable' = [reusable EXCEPT ![p] = (call[p] = "shutdown")]
  /\ closes' = [closes EXCEPT ![p] = 0]
  /\ err' = [err EXCEPT ![p] = FALSE]
  /\ timer' = [timer EXCEPT ![p] = "armed"]
  /\ registered' = p
  /\ my' = [my EXCEPT ![p] = p]
  /\ Goto(p, "act")
  /\ UNCHANGED <<call, outer, lxcVars, devs, power, timeouts, host>>

(***************************************************************************)
(* Start: startCommon refuses a running container, then clears leftovers   *)
(* and sets the devices up; every failure returns through the deferred     *)
(* Done(nil).                                                              *)
(***************************************************************************)
Starting(p) == call[p] \in {"start", "reboot"}

StartReturn(p) ==
  /\ Done(my[p], FALSE) /\ UNCHANGED timer
  /\ Goto(p, Exit(p))

StartCheck(p) ==
  /\ pc[p] = "act" /\ Starting(p)
  /\ \/ ~IsRunning /\ Goto(p, "setup") /\ UNCHANGED lockVars
     \/ StartReturn(p)
  /\ UNCHANGED <<call, my, outer, lxcVars, devs, power, timeouts, host>>

StartSetup(p) ==
  /\ pc[p] = "setup"
  /\ \/ devs' = TRUE /\ Goto(p, "fork") /\ UNCHANGED lockVars
     \/ devs' \in BOOLEAN /\ StartReturn(p)
  /\ UNCHANGED <<call, my, outer, lxcVars, power, timeouts, host>>

\* forkstart: of two runs only one gets the container; the other's error is
\* dropped if the container runs by then.
ForkStart(p) ==
  /\ pc[p] = "fork"
  /\ \/ /\ lxc = "STOPPED"
        /\ lxc' = "STARTING"
        /\ Goto(p, "forked")
        /\ UNCHANGED lockVars
     \/ StartReturn(p) /\ UNCHANGED lxc
  /\ UNCHANGED <<call, my, outer, target, hook, devs, power, timeouts, host>>

ForkReturns(p) ==
  /\ pc[p] = "forked"
  /\ lxc # "STARTING"
  /\ StartReturn(p)
  /\ UNCHANGED <<call, my, outer, lxcVars, devs, power, timeouts, host>>

\* The start hook records the state; if it fails, liblxc gives the start up
\* and runs the stop hook.
OnStart ==
  /\ lxc = "STARTING"
  /\ \/ lxc' = "RUNNING" /\ power' = "RUNNING" /\ UNCHANGED target
     \/ lxc' = "STOPPING" /\ target' = "stop" /\ UNCHANGED power
  /\ UNCHANGED <<lockVars, callVars, hook, devs, timeouts, host>>

(***************************************************************************)
(* Stop.  The container is frozen first, if that takes less than 5s; a     *)
(* failure of the kill leaves it frozen.  A stateful stop dumps it.        *)
(***************************************************************************)
Fail(p) == Done(my[p], TRUE) /\ UNCHANGED timer /\ Goto(p, "ended")

\* The container goes down; liblxc will run the stop hook.
Halt(t) ==
  IF lxc \in {"STARTING", "RUNNING", "FROZEN"}
  THEN lxc' = "STOPPING" /\ target' = t
  ELSE UNCHANGED <<lxc, target>>

StopFreeze(p) ==
  /\ pc[p] = "act" /\ call[p] = "stop"
  /\ \/ Fail(p) /\ UNCHANGED lxc
     \/ /\ Goto(p, "kill")
        /\ \/ lxc = "RUNNING" /\ lxc' = "FROZEN"
           \/ lxc = "FROZEN" /\ lxc' = "RUNNING"
           \/ UNCHANGED lxc
        /\ UNCHANGED lockVars
  /\ UNCHANGED <<call, my, outer, target, hook, devs, power, timeouts, host>>

StopKill(p) ==
  /\ pc[p] = "kill"
  /\ \/ Fail(p) /\ UNCHANGED <<lxc, target>>
     \/ Goto(p, "wait") /\ Halt("stop") /\ UNCHANGED lockVars
  /\ UNCHANGED <<call, my, outer, hook, devs, power, timeouts, host>>

StopCheckpoint(p) ==
  /\ pc[p] = "act" /\ call[p] = "checkpoint"
  /\ \/ Fail(p) /\ UNCHANGED <<lxc, target>>
     \/ Halt("stop") /\ Fail(p)               \* dumped, but not recorded
     \/ Halt("stop") /\ Done(my[p], FALSE) /\ UNCHANGED timer /\ Goto(p, "ended")
  /\ UNCHANGED <<call, my, outer, hook, devs, power, timeouts, host>>

(***************************************************************************)
(* Shutdown signals init and waits, as long as the caller asked, for the   *)
(* container to be STOPPED.                                                *)
(***************************************************************************)
ShutdownSignal(p) ==
  /\ pc[p] = "act" /\ call[p] = "shutdown"
  /\ \/ Fail(p)
     \/ Goto(p, "signalled") /\ UNCHANGED lockVars
  /\ UNCHANGED <<call, my, outer, lxcVars, devs, power, timeouts, host>>

ShutdownReturns(p) ==
  /\ pc[p] = "signalled"
  /\ \/ ~IsRunning /\ Goto(p, "wait") /\ UNCHANGED lockVars
     \/ Fail(p)
  /\ UNCHANGED <<call, my, outer, lxcVars, devs, power, timeouts, host>>

\* Wait, and the return of Stop or Shutdown.
Wait(p) ==
  /\ pc[p] = "wait"
  /\ closes[my[p]] > 0
  /\ Goto(p, "ended")
  /\ UNCHANGED <<lockVars, call, my, outer, lxcVars, devs, power, timeouts, host>>

\* A running container halts: asked to, or on its own.
ContainerHalts ==
  /\ lxc = "RUNNING"
  /\ \E t \in SelfHalts \cup
             {"stop" : p \in {q \in Proc : pc[q] = "signalled"}} :
       Halt(t)
  /\ UNCHANGED <<lockVars, callVars, hook, devs, power, timeouts, host>>

(***************************************************************************)
(* OnStop.  The hook looks for the operation, unmounts, and leaves the     *)
(* rest to a goroutine; the monitor is gone once the hook has returned.    *)
(***************************************************************************)
HookReturns(h) ==
  IF hook = h THEN hook' = None /\ lxc' = "STOPPED"
              ELSE UNCHANGED <<hook, lxc>>

OnStop(h) ==
  /\ pc[h] = "idle"
  /\ lxc = "STOPPING" /\ hook = None
  /\ call' = [call EXCEPT ![h] = IF target = "reboot" THEN "onreboot" ELSE "onstop"]
  /\ IF \/ target = "unknown"
        \/ registered # None /\ action[registered] # "stop"
     THEN /\ Goto(h, "ended")
          /\ lxc' = "STOPPED"
          /\ UNCHANGED <<outer, hook>>
     ELSE /\ outer' = [outer EXCEPT ![h] = registered]
          /\ Goto(h, "storage")
          /\ hook' = h
          /\ UNCHANGED lxc
  /\ UNCHANGED <<lockVars, my, target, devs, power, timeouts, host>>

Release(h, e) ==
  IF outer[h] = None THEN UNCHANGED lockVars
                     ELSE Done(outer[h], e) /\ UNCHANGED timer

OnStopStorage(h) ==
  /\ pc[h] = "storage"
  /\ \/ Goto(h, "cleanup") /\ UNCHANGED lockVars
     \/ Goto(h, "ended") /\ Release(h, TRUE)
  /\ HookReturns(h)
  /\ UNCHANGED <<call, my, outer, target, devs, power, timeouts, host>>

\* callhook gives up after 30s and the monitor goes on without the hook.
CallHookTimeout ==
  /\ hook # None
  /\ timeouts < MaxTimeouts
  /\ timeouts' = timeouts + 1
  /\ hook' = None /\ lxc' = "STOPPED"
  /\ UNCHANGED <<lockVars, callVars, target, devs, power, host>>

OnStopCleanup(h) ==
  /\ pc[h] = "cleanup"
  /\ devs' = FALSE
  /\ IF call[h] = "onreboot"
     THEN Goto(h, "create") /\ call' = [call EXCEPT ![h] = "reboot"]
     ELSE Goto(h, "record") /\ UNCHANGED call
  /\ UNCHANGED <<lockVars, my, outer, lxcVars, power, timeouts, host>>

\* A failure to write the state is only logged.
OnStopRecord(h) ==
  /\ pc[h] = "record"
  /\ power' \in {power, "STOPPED"}
  /\ Goto(h, "release")
  /\ UNCHANGED <<lockVars, call, my, outer, lxcVars, devs, timeouts, host>>

\* The deferred op.Done(err), whose argument was nil when it was deferred.
OnStopRelease(h) ==
  /\ pc[h] = "release"
  /\ Release(h, FALSE)
  /\ Goto(h, "ended")
  /\ UNCHANGED <<call, my, outer, lxcVars, devs, power, timeouts, host>>

(***************************************************************************)
(* containersShutdown: forget the recorded states, then for a running      *)
(* container Shutdown, Stop, and record the state it had.                  *)
(***************************************************************************)
HostForget ==
  /\ HostShuts /\ host.pc = "off"
  /\ power' = "none"
  /\ host' = [host EXCEPT !.pc = "load"]
  /\ UNCHANGED <<lockVars, callVars, lxcVars, devs, timeouts>>

HostShutdown(p) ==
  /\ host.pc = "load"
  /\ IF IsRunning
     THEN /\ BeginCall(p, "shutdown")
          /\ host' = [pc |-> "shutdown", by |-> p, last |-> lxc]
          /\ UNCHANGED power
     ELSE /\ host' = [pc |-> "done", by |-> None, last |-> lxc]
          /\ power' = lxc
          /\ UNCHANGED callVars
  /\ UNCHANGED <<lockVars, lxcVars, devs, timeouts>>

HostStop(p) ==
  /\ host.pc = "shutdown" /\ pc[host.by] = "ended"
  /\ BeginCall(p, "stop")
  /\ host' = [host EXCEPT !.pc = "stop", !.by = p]
  /\ UNCHANGED <<lockVars, lxcVars, devs, power, timeouts>>

HostRecord ==
  /\ host.pc = "stop" /\ pc[host.by] = "ended"
  /\ power' = host.last
  /\ host' = [host EXCEPT !.pc = "done"]
  /\ UNCHANGED <<lockVars, callVars, lxcVars, devs, timeouts>>

----------------------------------------------------------------------------
ProcStep(p) ==
  \/ GetOperation(p) \/ Reset(p) \/ InsertOperation(p)
  \/ StartCheck(p) \/ StartSetup(p) \/ ForkStart(p) \/ ForkReturns(p)
  \/ StopFreeze(p) \/ StopKill(p) \/ StopCheckpoint(p)
  \/ ShutdownSignal(p) \/ ShutdownReturns(p) \/ Wait(p)
  \/ OnStopStorage(p) \/ OnStopCleanup(p) \/ OnStopRecord(p) \/ OnStopRelease(p)

HostStep == HostForget \/ HostRecord \/ \E p \in Proc : HostShutdown(p) \/ HostStop(p)

Next ==
  \/ \E p \in Proc : Request(p) \/ ProcStep(p) \/ OnStop(p) \/ TimerFires(p)
  \/ OnStart \/ ContainerHalts \/ CallHookTimeout \/ HostStep

Spec == Init /\ [][Next]_vars

\* Time passes: a 30s timer that is not reset runs out.
TimerFairness == \A o \in Proc : WF_vars(TimerFires(o))

TimedSpec == Spec /\ TimerFairness

----------------------------------------------------------------------------
LockTypeOK ==
  /\ registered \in Proc \cup {None}
  /\ action \in [Proc -> {"none", "start", "stop"}]
  /\ reusable \in [Proc -> BOOLEAN]
  /\ closes \in [Proc -> Nat]
  /\ err \in [Proc -> BOOLEAN]
  /\ timer \in [Proc -> {"off", "armed", "gone"}]

CallTypeOK ==
  /\ pc \in [Proc -> PCs]
  /\ call \in [Proc -> Kinds \cup {"none", "onstop", "onreboot", "reboot"}]
  /\ my \in [Proc -> Proc \cup {None}]
  /\ outer \in [Proc -> Proc \cup {None}]

WorldTypeOK ==
  /\ lxc \in LxcStates
  /\ target \in Targets
  /\ hook \in Proc \cup {None}
  /\ devs \in BOOLEAN
  /\ power \in LxcStates \cup {"none"}
  /\ timeouts \in Nat
  /\ host \in [pc : {"off", "load", "shutdown", "stop", "done"},
               by : Proc \cup {None}, last : LxcStates]

\* Every variable keeps its type: the lock, the calls and their surroundings.
TypeOK == LockTypeOK /\ CallTypeOK /\ WorldTypeOK

\* chanDone of an operation is closed at most once, whoever of its timer,
\* the call that made it, a call that reused it and the stop hook gets to
\* Done first: a second close(op.chanDone) would bring the daemon down.
ClosedOnce == \A o \in Proc : closes[o] <= 1

\* What an operation's waiters are told never changes once they may have
\* been told: after Done neither the error nor the close is redone.
DoneIsFinal ==
  [][\A o \in Proc : closes[o] > 0 =>
        /\ closes'[o] = closes[o]
        /\ err'[o] = err[o]]_vars

\* createOperation lets a call join an operation only when that operation
\* stops the container: nobody who asked for a stop waits for a start.
StopJoinsOnlyStops ==
  \A p \in Proc :
    pc[p] \in {"kill", "signalled", "wait"} => action[my[p]] = "stop"

\* An operation in mercuryContainerOperations does not keep the container
\* busy for ever: its 30s goroutine outlives it, so it is taken off the map
\* even when the call that made it never gets to Done.
BusyEnds == \A o \in Proc : registered = o ~> registered # o

-----------------------------------------------------------------------------
(* For TLC: calls are alike. *)

CallSymmetry == Permutations(Proc)
============================================================================
