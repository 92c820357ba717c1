----------------------------- MODULE Operations -----------------------------
(***************************************************************************)
(* A background operation of the daemon (apollo/operations.go): Run and    *)
(* the goroutine of its hook, Cancel (DELETE), WaitFinal (GET .../wait),   *)
(* Connect (GET .../websocket), the metadata the hook records, done() and  *)
(* the timer that takes the finished operation off the list, together with *)
(* the canceler of a download (shared/cancel/canceler.go).                 *)
(*                                                                         *)
(* One operation is modelled; operations share nothing but the map they    *)
(* are listed in.  Every call of operationCreate passes a nil onCancel, so *)
(* only token operations and operations with a canceler can be cancelled,  *)
(* and the onCancel branch of Cancel is never taken.                       *)
(*                                                                         *)
(* op.lock is only ever held around assignments; the conditions are read   *)
(* without it, so a check and the assignment that follows are two steps.   *)
(***************************************************************************)
EXTENDS Naturals

CONSTANTS
  Class,       \* "task", "websocket" or "token"
  Downloads,   \* the hook downloads an image and sets op.canceler
  Canceller,   \* DELETE requests
  Waiter,      \* GET .../wait requests
  Connector,   \* GET .../websocket requests
  Runner,      \* the goroutine of the operation's onRun hook
  Unseen       \* what a waiter was told before it has an answer

ASSUME ConstantsAssumption ==
  /\ Class \in {"task", "websocket", "token"}
  /\ Downloads \in BOOLEAN
  /\ Downloads => Class = "task"
  /\ Runner \notin Canceller
  /\ Unseen \notin {"Pending", "Running", "Cancelling",
                    "Success", "Failure", "Cancelled"}

VARIABLES
  status, readonly, closes,
  hooks,       \* onRun and onConnect are not nil
  listed,      \* the operation is in the operations map
  expiring,    \* done() has scheduled its removal
  recorded,    \* the hook's UpdateMetadata has been accepted
  pc,          \* runner and cancel requests
  dl,          \* the goroutine of CancelableDownload
  chCancel,    \* the canceler's channel: "nil" or "open"
  aborted,     \* that channel has been closed
  wpc, timed, told, toldRecorded,   \* wait requests
  cpc,         \* websocket requests
  panic        \* what would have brought the daemon down

opVars == <<status, readonly, closes, hooks, listed, expiring, recorded>>
cancelVars == <<dl, chCancel, aborted>>
waitVars == <<wpc, timed, told, toldRecorded>>
vars == <<opVars, pc, cancelVars, waitVars, cpc, panic>>

Finals == {"Success", "Failure", "Cancelled"}
Statuses == {"Pending", "Running", "Cancelling"} \cup Finals
IsFinal == status \in Finals
Actor == Canceller \cup {Runner}

Init ==
  /\ status = "Pending" /\ readonly = FALSE /\ closes = 0
  /\ hooks = TRUE /\ listed = TRUE /\ expiring = FALSE /\ recorded = FALSE
  /\ pc = [a \in Actor |-> "idle"]
  /\ dl = "off" /\ chCancel = "nil" /\ aborted = FALSE
  /\ wpc = [w \in Waiter |-> "idle"]
  /\ timed \in [Waiter -> BOOLEAN]
  /\ told = [w \in Waiter |-> Unseen]
  /\ toldRecorded = [w \in Waiter |-> FALSE]
  /\ cpc = [k \in Connector |-> "idle"]
  /\ panic = {}

Goto(a, l) == pc' = [pc EXCEPT ![a] = l]

(***************************************************************************)
(* done(): the readonly check, then, in the critical section, readonly is  *)
(* set, the hooks are dropped and chanDone is closed.                      *)
(***************************************************************************)
DoneCheck(a) ==
  /\ pc[a] = "done"
  /\ Goto(a, IF readonly THEN "ended" ELSE "close")
  /\ UNCHANGED <<opVars, cancelVars, waitVars, cpc, panic>>

\* Faulty form: readonly is set, but nobody is told and nothing scheduled.
DoneSilently(a) ==
  /\ pc[a] = "close"
  /\ readonly' = TRUE
  /\ hooks' = FALSE
  /\ Goto(a, "ended")
  /\ UNCHANGED <<status, closes, listed, expiring, recorded>>
  /\ UNCHANGED <<cancelVars, waitVars, cpc, panic>>

DoneClose(a) ==
  /\ pc[a] = "close"
  /\ readonly' = TRUE
  /\ hooks' = FALSE
  /\ closes' = closes + 1
  /\ expiring' = TRUE
  /\ panic' = IF closes > 0 THEN panic \cup {"close"} ELSE panic
  /\ Goto(a, "ended")
  /\ UNCHANGED <<status, listed, recorded, cancelVars, waitVars, cpc>>

\* The AfterFunc of done(), 5s later.
Expire ==
  /\ expiring
  /\ listed' = FALSE
  /\ expiring' = FALSE
  /\ UNCHANGED <<status, readonly, closes, hooks, recorded>>
  /\ UNCHANGED <<pc, cancelVars, waitVars, cpc, panic>>

(***************************************************************************)
(* Run.  Token operations have no onRun.                                   *)
(***************************************************************************)
Run ==
  /\ status = "Pending"
  /\ status' = "Running"
  /\ IF Class = "token" THEN UNCHANGED pc ELSE Goto(Runner, "spawned")
  /\ UNCHANGED <<readonly, closes, hooks, listed, expiring, recorded>>
  /\ UNCHANGED <<cancelVars, waitVars, cpc, panic>>

RunHook ==
  /\ pc[Runner] = "spawned"
  /\ panic' = IF hooks THEN panic ELSE panic \cup {"onRun"}
  /\ Goto(Runner, IF Downloads THEN "download" ELSE "running")
  /\ dl' = IF Downloads THEN "spawned" ELSE dl
  /\ UNCHANGED <<opVars, chCancel, aborted, waitVars, cpc>>

\* UpdateMetadata, called by the hook: what it found out (the exit status of
\* a command, the fingerprint of an image) goes in unless it is refused.
UpdateMetadata ==
  /\ pc[Runner] = "running"
  /\ recorded' = (recorded \/ (status \in {"Pending", "Running"} /\ ~readonly))
  /\ Goto(Runner, "ending")
  /\ UNCHANGED <<status, readonly, closes, hooks, listed, expiring>>
  /\ UNCHANGED <<cancelVars, waitVars, cpc, panic>>

\* Faulty form: success is published before the result is recorded.
HookSucceedsEarly ==
  /\ pc[Runner] \in {"running", "ending"}
  /\ status' = "Success"
  /\ Goto(Runner, "done")
  /\ UNCHANGED <<readonly, closes, hooks, listed, expiring, recorded>>
  /\ UNCHANGED <<cancelVars, waitVars, cpc, panic>>

HookSucceeds ==
  /\ pc[Runner] = "ending"
  /\ status' = "Success"
  /\ Goto(Runner, "done")
  /\ UNCHANGED <<readonly, closes, hooks, listed, expiring, recorded>>
  /\ UNCHANGED <<cancelVars, waitVars, cpc, panic>>

HookFails ==
  /\ pc[Runner] \in {"running", "ending", "failing"}
  /\ status' = "Failure"
  /\ Goto(Runner, "done")
  /\ UNCHANGED <<readonly, closes, hooks, listed, expiring, recorded>>
  /\ UNCHANGED <<cancelVars, waitVars, cpc, panic>>

(***************************************************************************)
(* CancelableDownload.  Its goroutine sets the canceler's channel and, at  *)
(* the end of the transfer or when the channel is closed, clears it.       *)
(***************************************************************************)
DownloadOpens ==
  /\ dl = "spawned"
  /\ dl' = "select" /\ chCancel' = "open"
  /\ UNCHANGED <<opVars, pc, aborted, waitVars, cpc, panic>>

DownloadCloses ==
  /\ dl = "select"
  /\ aborted \/ pc[Runner] # "download"
  /\ dl' = "over" /\ chCancel' = "nil"
  /\ UNCHANGED <<opVars, pc, aborted, waitVars, cpc, panic>>

Transfer ==
  /\ pc[Runner] = "download"
  /\ \/ Goto(Runner, "running") /\ ~aborted
     \/ Goto(Runner, "failing")
  /\ UNCHANGED <<opVars, cancelVars, waitVars, cpc, panic>>

(***************************************************************************)
(* Cancel: the checks, the Cancelling status, the canceler, and, as there  *)
(* is no onCancel to wait for, Cancelled and done().                       *)
(***************************************************************************)
\* Faulty form: every operation may be cancelled.
MayCancelAny == TRUE

MayCancel == Class = "token" \/ chCancel # "nil"

CancelCheck(c) ==
  /\ pc[c] = "idle"
  /\ Goto(c, IF listed /\ status = "Running" /\ MayCancel THEN "mark" ELSE "ended")
  /\ UNCHANGED <<opVars, cancelVars, waitVars, cpc, panic>>

CancelMark(c) ==
  /\ pc[c] = "mark"
  /\ status' = "Cancelling"
  /\ Goto(c, IF Downloads THEN "signal" ELSE "cancelled")
  /\ UNCHANGED <<readonly, closes, hooks, listed, expiring, recorded>>
  /\ UNCHANGED <<cancelVars, waitVars, cpc, panic>>

\* Canceler.Cancel: nil is an error, which Cancel returns as it is ...
CancelSignal(c) ==
  /\ pc[c] = "signal"
  /\ Goto(c, IF chCancel = "nil" THEN "ended" ELSE "abort")
  /\ UNCHANGED <<opVars, cancelVars, waitVars, cpc, panic>>

\* ... otherwise the channel, as it is by now, is closed.
CancelAbort(c) ==
  /\ pc[c] = "abort"
  /\ IF chCancel = "nil" \/ aborted
     THEN panic' = panic \cup {"chCancel"} /\ UNCHANGED aborted
     ELSE aborted' = TRUE /\ UNCHANGED panic
  /\ chCancel' = "nil"
  /\ Goto(c, "cancelled")
  /\ UNCHANGED <<opVars, dl, waitVars, cpc>>

CancelFinish(c) ==
  /\ pc[c] = "cancelled"
  /\ status' = "Cancelled"
  /\ Goto(c, "done")
  /\ UNCHANGED <<readonly, closes, hooks, listed, expiring, recorded>>
  /\ UNCHANGED <<cancelVars, waitVars, cpc, panic>>

(***************************************************************************)
(* WaitFinal and the rendering of the answer; without a timeout the        *)
(* request waits for chanDone.                                             *)
(***************************************************************************)
WaitCheck(w) ==
  /\ wpc[w] = "idle"
  /\ wpc' = [wpc EXCEPT ![w] = IF ~listed THEN "ended"
                               ELSE IF IsFinal THEN "render" ELSE "wait"]
  /\ UNCHANGED <<opVars, pc, cancelVars, timed, told, toldRecorded, cpc, panic>>

WaitEnds(w) ==
  /\ wpc[w] = "wait"
  /\ closes > 0 \/ timed[w]
  /\ wpc' = [wpc EXCEPT ![w] = "render"]
  /\ UNCHANGED <<opVars, pc, cancelVars, timed, told, toldRecorded, cpc, panic>>

WaitRender(w) ==
  /\ wpc[w] = "render"
  /\ told' = [told EXCEPT ![w] = status]
  /\ toldRecorded' = [toldRecorded EXCEPT ![w] = recorded]
  /\ wpc' = [wpc EXCEPT ![w] = "ended"]
  /\ UNCHANGED <<opVars, pc, cancelVars, timed, cpc, panic>>

(***************************************************************************)
(* Connect: the goroutine calls op.onConnect as it finds it.               *)
(***************************************************************************)
ConnectCheck(k) ==
  /\ cpc[k] = "idle"
  /\ cpc' = [cpc EXCEPT ![k] =
       IF listed /\ Class = "websocket" /\ status = "Running" THEN "call" ELSE "ended"]
  /\ UNCHANGED <<opVars, pc, cancelVars, waitVars, panic>>

ConnectCall(k) ==
  /\ cpc[k] = "call"
  /\ panic' = IF hooks THEN panic ELSE panic \cup {"onConnect"}
  /\ cpc' = [cpc EXCEPT ![k] = "ended"]
  /\ UNCHANGED <<opVars, pc, cancelVars, waitVars>>

-----------------------------------------------------------------------------
RunnerStep == RunHook \/ UpdateMetadata \/ HookSucceeds \/ HookFails \/ Transfer

CancelStep(c) ==
  CancelCheck(c) \/ CancelMark(c) \/ CancelSignal(c) \/ CancelAbort(c) \/ CancelFinish(c)

DoneStep(a) == DoneCheck(a) \/ DoneClose(a)
WaitStep(w) == WaitCheck(w) \/ WaitEnds(w) \/ WaitRender(w)
ConnectStep(k) == ConnectCheck(k) \/ ConnectCall(k)

Next ==
  \/ Run \/ RunnerStep \/ DownloadOpens \/ DownloadCloses \/ Expire
  \/ \E a \in Actor : DoneStep(a)
  \/ \E c \in Canceller : CancelStep(c)
  \/ \E w \in Waiter : WaitStep(w)
  \/ \E k \in Connector : ConnectStep(k)

Spec == Init /\ [][Next]_vars

\* The handler that created the operation runs it; goroutines that can run
\* do; hooks return; 5s pass.
Fairness ==
  /\ WF_vars(Run) /\ WF_vars(RunnerStep) /\ WF_vars(Expire)
  /\ WF_vars(DownloadOpens) /\ WF_vars(DownloadCloses)
  /\ \A a \in Actor : WF_vars(DoneStep(a))
  /\ \A c \in Canceller : WF_vars(pc[c] # "idle" /\ CancelStep(c))
  /\ \A w \in Waiter : WF_vars(wpc[w] # "idle" /\ WaitStep(w))

FairSpec == Spec /\ Fairness

-----------------------------------------------------------------------------
TypeOK ==
  /\ status \in Statuses
  /\ readonly \in BOOLEAN /\ closes \in Nat /\ hooks \in BOOLEAN
  /\ listed \in BOOLEAN /\ expiring \in BOOLEAN /\ recorded \in BOOLEAN
  /\ pc \in [Actor -> {"idle", "spawned", "download", "running", "ending",
                       "failing", "mark", "signal", "abort", "cancelled",
                       "done", "close", "ended"}]
  /\ dl \in {"off", "spawned", "select", "over"}
  /\ chCancel \in {"nil", "open"} /\ aborted \in BOOLEAN
  /\ wpc \in [Waiter -> {"idle", "wait", "render", "ended"}]
  /\ timed \in [Waiter -> BOOLEAN]
  /\ told \in [Waiter -> Statuses \cup {Unseen}]
  /\ toldRecorded \in [Waiter -> BOOLEAN]
  /\ cpc \in [Connector -> {"idle", "call", "ended"}]
  /\ panic \subseteq {"close", "onRun", "chCancel", "onConnect"}

\* done() brings the daemon down in neither way it could: chanDone is closed
\* once, although the goroutine of the hook and the cancel requests all end in
\* done(), and no cancel request drops the hooks before the goroutine Run
\* started has called onRun.
DoneOnce == panic \cap {"close", "onRun"} = {}

\* Whoever is told of success is shown what the hook recorded: the status,
\* the metadata and chanDone are published in an order that never shows a
\* success without its result.
ResultSeen == \A w \in Waiter : told[w] = "Success" => toldRecorded[w]

\* Refinement: what the API documents of a background operation.
Lifecycle ==
  INSTANCE OperationLifecycle
  WITH told <- [w \in Waiter |-> IF timed[w] THEN Unseen ELSE told[w]]

\* The operation goes through the documented states, ends in one final
\* state, and its waiters are told that one.
ImplementsLifecycle == Lifecycle!Spec

\* Every wait request without a timeout is answered.
WaitersAnswered == \A w \in Waiter : wpc[w] = "wait" ~> wpc[w] = "ended"

\* A started operation with a hook leaves the list of operations.
LeavesList == Class # "token" => <>~listed
=============================================================================
