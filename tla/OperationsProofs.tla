-------------------------- MODULE OperationsProofs --------------------------
(***************************************************************************)
(* Theorems about operations at the daemon (Operations) and at its clients *)
(* (ClientOperation).                                                      *)
(*                                                                         *)
(* What apollo/operations.go guarantees of an operation that cannot be     *)
(* cancelled, for any number of cancel, wait and connect requests.  That   *)
(* is most operations: no onCancel is ever set, so only tokens and image   *)
(* downloads can be cancelled, and for those the properties fail.          *)
(***************************************************************************)
EXTENDS Operations, ClientOperation, TLAPS

Uncancellable == Class # "token" /\ ~Downloads

\* Every cancel request is turned away.
NoCancel ==
  /\ chCancel = "nil" /\ dl = "off"
  /\ \A c \in Canceller : pc[c] \in {"idle", "ended"}

\* Where the hook's goroutine is decides the status and what done() has done.
HookPhase ==
  \/ /\ pc[Runner] = "idle" /\ status = "Pending"
     /\ hooks /\ ~readonly /\ closes = 0 /\ ~recorded
  \/ /\ pc[Runner] \in {"spawned", "running"} /\ status = "Running"
     /\ hooks /\ ~readonly /\ closes = 0 /\ ~recorded
  \/ /\ pc[Runner] = "ending" /\ status = "Running"
     /\ hooks /\ ~readonly /\ closes = 0 /\ recorded
  \/ /\ pc[Runner] \in {"done", "close"}
     /\ status = "Failure" \/ (status = "Success" /\ recorded)
     /\ ~readonly /\ closes = 0
  \/ /\ pc[Runner] = "ended"
     /\ status = "Failure" \/ (status = "Success" /\ recorded)
     /\ closes = 1

\* A waiter is answered once, and without a timeout in a final state only.
Waiters ==
  \A w \in Waiter :
    /\ wpc[w] \in {"idle", "wait", "render"} => told[w] = Unseen
    /\ wpc[w] = "render" /\ ~timed[w] => IsFinal
    /\ told[w] # Unseen /\ ~timed[w] => told[w] \in Finals
    /\ told[w] = "Success" => toldRecorded[w]

NoPanic == panic \cap {"close", "onRun"} = {}

OpInv == TypeOK /\ NoCancel /\ HookPhase /\ Waiters /\ NoPanic

LEMMA OpInit == ASSUME Uncancellable PROVE Init => OpInv
<1> SUFFICES ASSUME Init PROVE OpInv
  OBVIOUS
<1> USE DEF Init, Actor
<1>1. TypeOK
  BY DEF TypeOK, Statuses, Finals
<1>2. NoCancel /\ HookPhase /\ NoPanic
  BY ConstantsAssumption DEF NoCancel, HookPhase, NoPanic
<1>3. Waiters
  BY ConstantsAssumption DEF Waiters
<1>q. QED
  BY <1>1, <1>2, <1>3 DEF OpInv

\* The steps a cancel request can never get to.
LEMMA NoCancelSteps ==
  ASSUME Uncancellable, OpInv, NEW c \in Canceller, CancelStep(c)
  PROVE  /\ CancelCheck(c) /\ pc' = [pc EXCEPT ![c] = "ended"]
         /\ UNCHANGED <<opVars, cancelVars, waitVars, cpc, panic>>
BY DEF Uncancellable, OpInv, NoCancel, CancelStep, CancelCheck, CancelMark,
       CancelSignal, CancelAbort, CancelFinish, MayCancel, Goto

LEMMA OpStep == ASSUME Uncancellable PROVE OpInv /\ [Next]_vars => OpInv'
<1> SUFFICES ASSUME OpInv, [Next]_vars PROVE OpInv'
  OBVIOUS
<1>0. /\ Runner \in Actor /\ Canceller \subseteq Actor /\ Runner \notin Canceller
      /\ Unseen \notin Statuses
  BY ConstantsAssumption DEF Actor, Statuses, Finals
<1> USE <1>0 DEF OpInv, opVars, cancelVars, waitVars
<1>1. ASSUME Run \/ RunnerStep PROVE OpInv'
  <2>1. CASE Run
    <3>1. TypeOK' /\ NoCancel' /\ HookPhase' /\ NoPanic'
      BY <2>1 DEF Uncancellable, Run, Goto, TypeOK, NoCancel, HookPhase, NoPanic, Statuses
    <3>2. Waiters'
      BY <2>1 DEF Run, TypeOK, Waiters, IsFinal, Finals
    <3> QED  BY <3>1, <3>2
  <2>2. CASE RunHook
    <3>1. TypeOK' /\ NoCancel' /\ HookPhase' /\ NoPanic'
      BY <2>2 DEF Uncancellable, RunHook, Goto, TypeOK, NoCancel, HookPhase, NoPanic
    <3>2. Waiters'
      BY <2>2 DEF RunHook, Waiters, IsFinal
    <3> QED  BY <3>1, <3>2
  <2>3. CASE UpdateMetadata
    <3>1. TypeOK' /\ NoCancel' /\ HookPhase' /\ NoPanic'
      BY <2>3 DEF UpdateMetadata, Goto, TypeOK, NoCancel, HookPhase, NoPanic
    <3>2. Waiters'
      BY <2>3 DEF UpdateMetadata, Waiters, IsFinal
    <3> QED  BY <3>1, <3>2
  <2>4. CASE HookSucceeds
    <3>1. TypeOK' /\ NoCancel' /\ HookPhase' /\ NoPanic'
      BY <2>4 DEF HookSucceeds, Goto, TypeOK, NoCancel, HookPhase, NoPanic, Statuses, Finals
    <3>2. Waiters'
      BY <2>4 DEF HookSucceeds, Waiters, IsFinal, Finals
    <3> QED  BY <3>1, <3>2
  <2>5. CASE HookFails
    <3>1. TypeOK' /\ NoCancel' /\ HookPhase' /\ NoPanic'
      BY <2>5 DEF HookFails, Goto, TypeOK, NoCancel, HookPhase, NoPanic, Statuses, Finals
    <3>2. Waiters'
      BY <2>5 DEF HookFails, Waiters, IsFinal, Finals
    <3> QED  BY <3>1, <3>2
  <2>6. ~Transfer
    BY DEF Transfer, HookPhase
  <2> QED  BY <1>1, <2>1, <2>2, <2>3, <2>4, <2>5, <2>6 DEF RunnerStep
<1>2. ~DownloadOpens /\ ~DownloadCloses
  BY DEF NoCancel, DownloadOpens, DownloadCloses
<1>3. CASE Expire
  BY <1>3 DEF Expire, TypeOK, NoCancel, HookPhase, Waiters, IsFinal, NoPanic
<1>4. ASSUME NEW a \in Actor, DoneStep(a) PROVE OpInv'
  <2>1. a = Runner
    BY <1>4 DEF Actor, DoneStep, DoneCheck, DoneClose, NoCancel
  <2>2. CASE DoneCheck(a)
    <3>1. TypeOK' /\ NoCancel' /\ HookPhase' /\ NoPanic'
      BY <2>1, <2>2 DEF DoneCheck, Goto, TypeOK, NoCancel, HookPhase, NoPanic
    <3>2. Waiters'
      BY <2>2 DEF DoneCheck, Waiters, IsFinal
    <3> QED  BY <3>1, <3>2
  <2>3. CASE DoneClose(a)
    <3>0. /\ closes = 0 /\ pc[Runner] = "close" /\ closes' = 1 /\ panic' = panic
          /\ pc' = [pc EXCEPT ![Runner] = "ended"] /\ pc'[Runner] = "ended"
      BY <2>1, <2>3 DEF DoneClose, Goto, HookPhase, TypeOK
    <3>1. TypeOK'
      <4>1. /\ readonly' \in BOOLEAN /\ hooks' \in BOOLEAN /\ expiring' \in BOOLEAN
            /\ UNCHANGED <<status, listed, recorded, cancelVars, waitVars, cpc>>
        BY <2>3 DEF DoneClose
      <4>2. pc' \in [Actor -> {"idle", "spawned", "download", "running", "ending",
                               "failing", "mark", "signal", "abort", "cancelled",
                               "done", "close", "ended"}]
        BY <3>0 DEF TypeOK
      <4> QED
        BY <3>0, <4>1, <4>2 DEF TypeOK
    <3>3. HookPhase'
      BY <2>3, <3>0 DEF DoneClose, HookPhase
    <3>4. NoCancel' /\ NoPanic'
      BY <2>3, <3>0 DEF DoneClose, NoCancel, NoPanic, TypeOK
    <3>2. Waiters'
      BY <2>3 DEF DoneClose, Waiters, IsFinal
    <3> QED  BY <3>1, <3>2, <3>3, <3>4
  <2> QED  BY <1>4, <2>2, <2>3 DEF DoneStep
<1>5. ASSUME NEW c \in Canceller, CancelStep(c) PROVE OpInv'
  <2>1. /\ pc' = [pc EXCEPT ![c] = "ended"]
        /\ UNCHANGED <<opVars, cancelVars, waitVars, cpc, panic>>
    BY <1>5, NoCancelSteps
  <2>2. TypeOK' /\ NoCancel' /\ HookPhase' /\ NoPanic'
    BY <2>1 DEF TypeOK, NoCancel, HookPhase, NoPanic
  <2>3. Waiters'
    BY <2>1 DEF Waiters, IsFinal
  <2> QED  BY <2>2, <2>3
<1>6. ASSUME NEW w \in Waiter, WaitStep(w) PROVE OpInv'
  <2>1. NoCancel' /\ HookPhase' /\ NoPanic'
    BY <1>6 DEF WaitStep, WaitCheck, WaitEnds, WaitRender, NoCancel, HookPhase, NoPanic
  <2>2. CASE WaitCheck(w)
    BY <2>1, <2>2 DEF WaitCheck, TypeOK, Waiters, IsFinal
  <2>3. CASE WaitEnds(w)
    <3>1. closes > 0 => IsFinal
      BY DEF HookPhase, IsFinal, Finals
    <3> QED
      BY <2>1, <2>3, <3>1 DEF WaitEnds, TypeOK, Waiters, IsFinal
  <2>4. CASE WaitRender(w)
    <3>1. status = "Success" => recorded
      BY DEF HookPhase
    <3>2. TypeOK'
      BY <2>4 DEF WaitRender, TypeOK
    <3>3. Waiters'
      BY <2>4, <3>1 DEF WaitRender, TypeOK, Waiters, IsFinal
    <3> QED
      BY <2>1, <3>2, <3>3
  <2> QED  BY <1>6, <2>2, <2>3, <2>4 DEF WaitStep
<1>7. ASSUME NEW k \in Connector, ConnectStep(k) PROVE OpInv'
  <2>1. TypeOK' /\ NoPanic'
    <3>1. CASE ConnectCheck(k)
      BY <3>1 DEF ConnectCheck, TypeOK, NoPanic
    <3>2. CASE ConnectCall(k)
      <4>1. panic' \in {panic, panic \cup {"onConnect"}}
        BY <3>2 DEF ConnectCall
      <4>2. TypeOK'
        BY <3>2, <4>1 DEF ConnectCall, TypeOK
      <4>3. NoPanic'
        BY <4>1 DEF NoPanic
      <4> QED  BY <4>2, <4>3
    <3> QED  BY <1>7, <3>1, <3>2 DEF ConnectStep
  <2>2. NoCancel' /\ HookPhase' /\ Waiters'
    BY <1>7 DEF ConnectStep, ConnectCheck, ConnectCall, NoCancel, HookPhase, Waiters, IsFinal
  <2> QED  BY <2>1, <2>2
<1>8. CASE UNCHANGED vars
  BY <1>8 DEF vars, TypeOK, NoCancel, HookPhase, Waiters, IsFinal, NoPanic
<1>q. QED
  BY <1>1, <1>2, <1>3, <1>4, <1>5, <1>6, <1>7, <1>8 DEF Next

\* An operation that cannot be cancelled: chanDone is closed once, onRun is
\* there when it is called, and whoever is told of success sees its result.
THEOREM HookedOperationSafe ==
  ASSUME Uncancellable
  PROVE  Spec => [](TypeOK /\ DoneOnce /\ ResultSeen)
<1>1. Init => OpInv
  BY Uncancellable, OpInit
<1>2. OpInv /\ [Next]_vars => OpInv'
  BY Uncancellable, OpStep
<1>3. OpInv => TypeOK /\ DoneOnce /\ ResultSeen
  BY DEF OpInv, NoPanic, Waiters, DoneOnce, ResultSeen
<1> QED
  BY <1>1, <1>2, <1>3, PTL DEF Spec

\* In particular done() closes chanDone once, and Run never calls an onRun that
\* done() has dropped, however cancel, wait and connect requests run beside it.
\* Nothing is said of the hook onConnect, which a connect request may call when
\* done() has dropped it.
THEOREM DoneClosesOnce == ASSUME Uncancellable PROVE Spec => []DoneOnce
<1>1. Init => OpInv
  BY Uncancellable, OpInit
<1>2. OpInv /\ [Next]_vars => OpInv'
  BY Uncancellable, OpStep
<1>3. OpInv => DoneOnce
  BY DEF OpInv, NoPanic, DoneOnce
<1> QED
  BY <1>1, <1>2, <1>3, PTL DEF Spec

-----------------------------------------------------------------------------
\* Every step is one of the documented life cycle or leaves it alone.
LEMMA LifecycleStep ==
  ASSUME Uncancellable, OpInv, OpInv', [Next]_vars
  PROVE  [Lifecycle!Next]_(Lifecycle!avars)
<1>0. /\ Runner \in Actor /\ Canceller \subseteq Actor /\ Runner \notin Canceller
      /\ Unseen \notin Statuses
  BY ConstantsAssumption DEF Actor, Statuses, Finals
<1> USE <1>0 DEF opVars, cancelVars, waitVars
<1>1. ASSUME UNCHANGED <<status, told, timed>> PROVE UNCHANGED Lifecycle!avars
  BY <1>1 DEF Lifecycle!avars
<1>2. CASE Run
  BY <1>2 DEF Run, Lifecycle!Next, Lifecycle!Run
<1>3. CASE HookSucceeds \/ HookFails
  <2>1. status = "Running" /\ status' \in Lifecycle!FinalStatus /\ UNCHANGED <<told, timed>>
    BY <1>3 DEF HookSucceeds, HookFails, OpInv, HookPhase, Lifecycle!FinalStatus
  <2> QED
    BY <2>1 DEF Lifecycle!Next, Lifecycle!Finish
<1>4. ASSUME NEW w \in Waiter, WaitRender(w)
      PROVE  [Lifecycle!Next]_(Lifecycle!avars)
  <2> DEFINE shown == [v \in Waiter |-> IF timed[v] THEN Unseen ELSE told[v]]
  <2>1. /\ wpc[w] = "render" /\ told[w] = Unseen /\ told \in [Waiter -> Statuses \cup {Unseen}]
        /\ told' = [told EXCEPT ![w] = status]
        /\ UNCHANGED <<status, timed>>
    BY <1>4 DEF WaitRender, OpInv, Waiters, TypeOK
  <2>2. CASE timed[w]
    <3>1. shown' = shown
      BY <2>1, <2>2
    <3> QED
      BY <2>1, <3>1 DEF Lifecycle!avars
  <2>3. CASE ~timed[w]
    <3>1. status \in Lifecycle!FinalStatus
      BY <2>1, <2>3 DEF OpInv, Waiters, IsFinal, Finals, Lifecycle!FinalStatus
    <3>2. shown[w] = Unseen /\ shown' = [shown EXCEPT ![w] = status]
      BY <2>1, <2>3
    <3>3. Lifecycle!Tell(w)
      BY <2>1, <3>1, <3>2 DEF Lifecycle!Tell
    <3> QED
      BY <3>3 DEF Lifecycle!Next
  <2> QED  BY <2>2, <2>3
<1>5. ASSUME NEW c \in Canceller, CancelStep(c) PROVE UNCHANGED <<status, told, timed>>
  BY <1>5, NoCancelSteps
<1>6. ASSUME NEW a \in Actor, DoneStep(a) PROVE UNCHANGED <<status, told, timed>>
  BY <1>6 DEF DoneStep, DoneCheck, DoneClose
<1>7. ASSUME NEW k \in Connector, ConnectStep(k) PROVE UNCHANGED <<status, told, timed>>
  BY <1>7 DEF ConnectStep, ConnectCheck, ConnectCall
<1>8. ASSUME NEW w \in Waiter, WaitCheck(w) \/ WaitEnds(w) PROVE UNCHANGED <<status, told, timed>>
  BY <1>8 DEF WaitCheck, WaitEnds
<1>9. CASE RunHook \/ UpdateMetadata \/ Transfer \/ DownloadOpens \/ DownloadCloses \/ Expire
  <2>1. UNCHANGED <<status, told, timed>>
    BY <1>9 DEF RunHook, UpdateMetadata, Transfer, DownloadOpens, DownloadCloses, Expire
  <2> QED  BY <1>1, <2>1
<1>10. CASE UNCHANGED vars
  <2>1. UNCHANGED <<status, told, timed>>
    BY <1>10 DEF vars
  <2> QED  BY <1>1, <2>1
<1>q. QED
  BY <1>1, <1>2, <1>3, <1>4, <1>5, <1>6, <1>7, <1>8, <1>9, <1>10
  DEF Next, RunnerStep, WaitStep

\* An operation that cannot be cancelled implements the life cycle the API
\* documents: one final state, and that is what waiters are told.
THEOREM HookedOperationRefines ==
  ASSUME Uncancellable
  PROVE  Spec => ImplementsLifecycle
<1>1. Init => OpInv
  BY Uncancellable, OpInit
<1>2. OpInv /\ [Next]_vars => OpInv'
  BY Uncancellable, OpStep
<1>3. Init => Lifecycle!Init
  BY DEF Init, Lifecycle!Init
<1>4. OpInv /\ OpInv' /\ [Next]_vars => [Lifecycle!Next]_(Lifecycle!avars)
  BY Uncancellable, LifecycleStep
<1> QED
  BY <1>1, <1>2, <1>3, <1>4, PTL DEF Spec, ImplementsLifecycle, Lifecycle!Spec

-----------------------------------------------------------------------------
(* The client of operations (ClientOperation), for any number of operations,  *)
(* callers and breaks of the connection.                                     *)

Inside == {"events", "handler", "refresh"}

ClientTypeInv ==
  /\ env \in EnvType
  /\ drops \in Nat
  /\ listener \in [Op -> BOOLEAN] /\ handlerReady \in [Op -> BOOLEAN]
  /\ handlerLock \in [Op -> Caller \cup {None}]
  /\ chActive \in [Op -> Nat]
  /\ DOMAIN mine = Op
  /\ place \in [Caller -> {"start", "lock", "wait", "end"} \cup Inside]
  /\ failed \in [Caller -> BOOLEAN]

\* setupListener is run by one caller at a time, and only until it has
\* succeeded once.
SetupInv ==
  /\ \A c \in Caller : place[c] \in Inside => handlerLock[Of[c]] = c /\ ~handlerReady[Of[c]]
  /\ \A c \in Caller : place[c] = "events" => ~listener[Of[c]]
  /\ \A o \in Op : listener[o] /\ handlerLock[o] = None => handlerReady[o]

\* The final version is the last one an Operation struct is given, and
\* chActive is closed for it, or because a GET has failed.
FinalInv ==
  /\ \A o \in Op : mine[o] = Last => handlerReady[o] /\ ~listener[o]
  /\ \A o \in Op : chActive[o] > 0 => mine[o] = Last \/ GetFailed(o)
  /\ \A c \in Caller : failed[c] => place[c] = "end"

\* The goroutine of GetEvents leaves no list behind, unless the connection
\* broke or could not be made.
ReaderInv ==
  /\ conn = "dead" => drops > 0
  /\ drops = 0 /\ (\A c \in Caller : ~failed[c]) /\ reader = "off" => eventListeners = None

ClientInv == ClientTypeInv /\ SetupInv /\ FinalInv /\ ReaderInv /\ WaitedIsFinal

-----------------------------------------------------------------------------
LEMMA ClientInvInit == ClientInit => ClientInv
<1> SUFFICES ASSUME ClientInit PROVE ClientInv  OBVIOUS
<1>1. env \in EnvType /\ Last # 0 /\ None \notin Caller
  BY ClientAssumption DEF ClientInit, EnvType, Last
<1>2. ClientTypeInv  BY <1>1 DEF ClientInit, ClientTypeInv, Inside
<1> QED
  BY <1>1, <1>2 DEF ClientInit, ClientInv, SetupInv, FinalInv, ReaderInv, WaitedIsFinal, Inside

\* Steps of the daemon, and of the connection: no Operation struct changes.
LEMMA OthersStep ==
  ASSUME ClientInv, UNCHANGED <<structVars, place, failed, env>>, drops' \in Nat, drops' >= drops,
         conn' = "dead" => conn = "dead" \/ drops' > 0,
         reader' = "off" /\ drops' = 0 => (reader = "off" /\ eventListeners' = eventListeners) \/ eventListeners' = None
  PROVE  ClientInv'
<1>1. ClientTypeInv'  BY DEF ClientInv, ClientTypeInv, structVars
<1>2. SetupInv' /\ FinalInv' /\ WaitedIsFinal'
  BY DEF ClientInv, SetupInv, FinalInv, WaitedIsFinal, GetFailed, Last, structVars
<1>3. ReaderInv'  BY DEF ClientInv, ClientTypeInv, ReaderInv
<1> QED  BY <1>1, <1>2, <1>3 DEF ClientInv

LEMMA HandleStep == ASSUME ClientInv, NEW e \in Event, Handle(e), UNCHANGED env PROVE ClientInv'
<1> DEFINE o == e[1]
<1>1. o \in Op  BY DEF Event
<1>2. UNCHANGED <<env, drops, conn, reader, handlerReady, handlerLock, place, failed>>
  BY DEF Handle, connVars
<1>3. eventListeners = None => eventListeners' = None  BY DEF Handle, Disconnect
<1>4. CASE ~listener[o]
  <2>1. UNCHANGED <<mine, eventListeners, chActive, listener>>  BY <1>4 DEF Handle
  <2> QED
    BY <1>2, <2>1 DEF ClientInv, ClientTypeInv, SetupInv, FinalInv, ReaderInv, WaitedIsFinal, GetFailed, Last
<1>5. CASE listener[o]
  <2>1. handlerLock[o] = None /\ handlerReady[o] /\ mine[o] # Last
    BY <1>1, <1>5 DEF Handle, ClientInv, SetupInv, FinalInv, ClientTypeInv
  <2>2. mine' = [mine EXCEPT ![o] = e[2]]  BY <1>5 DEF Handle
  <2>3. /\ chActive' \in [Op -> Nat] /\ listener' \in [Op -> BOOLEAN]
        /\ \A p \in Op \ {o} : chActive'[p] = chActive[p] /\ listener'[p] = listener[p]
        /\ e[2] = Last => ~listener'[o]
        /\ e[2] # Last => chActive'[o] = chActive[o] /\ listener'[o] = listener[o]
    <3>1. CASE e[2] = Last
      <4>1. /\ chActive' = [chActive EXCEPT ![o] = @ + 1] /\ listener' = [listener EXCEPT ![o] = FALSE]
        BY <1>5, <3>1 DEF Handle, CloseActive
      <4>2. chActive \in [Op -> Nat] /\ listener \in [Op -> BOOLEAN]  BY DEF ClientInv, ClientTypeInv
      <4>3. chActive' \in [Op -> Nat] /\ \A p \in Op \ {o} : chActive'[p] = chActive[p]
        BY <1>1, <4>1, <4>2
      <4>4. listener' \in [Op -> BOOLEAN] /\ ~listener'[o] /\ \A p \in Op \ {o} : listener'[p] = listener[p]
        BY <1>1, <4>1, <4>2
      <4> QED  BY <3>1, <4>3, <4>4
    <3>2. CASE e[2] # Last
      <4>1. chActive' = chActive /\ listener' = listener  BY <3>2 DEF Handle
      <4> QED  BY <3>2, <4>1 DEF ClientInv, ClientTypeInv
    <3> QED  BY <3>1, <3>2
  <2>4. ClientTypeInv'  BY <1>2, <2>2, <2>3 DEF ClientInv, ClientTypeInv
  <2>5. SetupInv'  BY <1>1, <1>2, <2>1, <2>3, ClientAssumption DEF ClientInv, SetupInv, ClientTypeInv
  <2>6. FinalInv'
    BY <1>1, <1>2, <2>1, <2>2, <2>3 DEF ClientInv, FinalInv, ClientTypeInv, GetFailed, Last
  <2>7. ReaderInv'  BY <1>2, <1>3 DEF ClientInv, ReaderInv
  <2>8. WaitedIsFinal'
    BY <1>1, <1>2, <2>1, <2>2, ClientAssumption DEF ClientInv, ClientTypeInv, WaitedIsFinal, GetFailed, Last
  <2> QED  BY <2>4, <2>5, <2>6, <2>7, <2>8 DEF ClientInv
<1> QED  BY <1>4, <1>5

LEMMA CallStep == ASSUME ClientInv, NEW c \in Caller, Call(c), UNCHANGED env PROVE ClientInv'
<1> DEFINE o == Of[c]
<1>a. o \in Op /\ None \notin Caller /\ Of \in [Caller -> Op]  BY ClientAssumption
<1>b. Last' = Last  BY DEF Last
<1> USE DEF ClientInv, ClientTypeInv, SetupInv, FinalInv, ReaderInv, WaitedIsFinal, GetFailed, Inside,
            GoesTo, Release, AfterSetup, serverVars, connVars, structVars
<1>1. CASE Start(c)  BY <1>1, <1>a, <1>b DEF Start
<1>2. CASE Lock(c)  BY <1>2, <1>a, <1>b DEF Lock
<1>3. CASE GetEventsJoin(c)  BY <1>3, <1>a, <1>b DEF GetEventsJoin
<1>4. CASE GetEventsDial(c)  BY <1>4, <1>a, <1>b DEF GetEventsDial
<1>5. CASE GetEventsFails(c)  BY <1>5, <1>a, <1>b DEF GetEventsFails, Return
<1>6. CASE AddHandler(c)  BY <1>6, <1>a, <1>b DEF AddHandler
<1>7. CASE Refresh(c)
  <2>1. /\ handlerLock[o] = c /\ ~handlerReady[o] /\ mine[o] # Last
        /\ \A d \in Caller : d # c /\ Of[d] = o => place[d] \notin Inside
    BY <1>7, <1>a DEF Refresh
  <2>2. /\ mine' = [mine EXCEPT ![o] = ver[o]] /\ handlerReady' = [handlerReady EXCEPT ![o] = TRUE]
        /\ handlerLock' = [handlerLock EXCEPT ![o] = None]
        /\ place' = [place EXCEPT ![c] = AfterSetup(c)] /\ UNCHANGED <<drops, conn, reader, failed>>
    BY <1>7 DEF Refresh
  <2>3. eventListeners = None => eventListeners' = None  BY <1>7 DEF Refresh, Disconnect
  <2>4. CASE ver[o] = Last
    <3>1. /\ chActive' = [chActive EXCEPT ![o] = @ + 1] /\ listener' = [listener EXCEPT ![o] = FALSE]
      BY <1>7, <2>4 DEF Refresh, CloseActive
    <3>2. ClientTypeInv'  BY <1>a, <2>2, <3>1
    <3>3. SetupInv'  BY <1>a, <2>1, <2>2, <3>1
    <3>4. FinalInv'
      <4>1. \A d \in Caller : failed'[d] => place'[d] = "end"  BY <1>7, <2>2 DEF Refresh
      <4>2. \A p \in Op : mine'[p] = Last => handlerReady'[p] /\ ~listener'[p]
        BY <1>a, <2>1, <2>2, <2>4, <3>1
      <4>3. \A p \in Op : chActive'[p] > 0 => mine'[p] = Last \/ GetFailed(p)
        BY <1>a, <2>1, <2>2, <2>4, <3>1
      <4> QED  BY <1>b, <2>2, <4>1, <4>2, <4>3
    <3>5. WaitedIsFinal'  BY <1>a, <1>b, <2>1, <2>2, <2>4
    <3>6. ReaderInv'  BY <2>2, <2>3
    <3> QED  BY <3>2, <3>3, <3>4, <3>5, <3>6
  <2>5. CASE ver[o] # Last
    <3>1. UNCHANGED <<chActive, listener>>  BY <1>7, <2>5 DEF Refresh
    <3>2. ClientTypeInv'  BY <1>a, <2>2, <3>1
    <3>3. SetupInv'  BY <1>a, <2>1, <2>2, <3>1
    <3>4. FinalInv'
      <4>1. \A d \in Caller : failed'[d] => place'[d] = "end"  BY <1>7, <2>2 DEF Refresh
      <4>2. \A p \in Op : mine'[p] = Last => handlerReady'[p] /\ ~listener'[p]
        BY <1>a, <2>1, <2>2, <2>5, <3>1
      <4>3. \A p \in Op : chActive'[p] > 0 => mine'[p] = Last \/ GetFailed(p)
        BY <1>a, <2>1, <2>2, <2>5, <3>1
      <4> QED  BY <1>b, <2>2, <4>1, <4>2, <4>3
    <3>5. WaitedIsFinal'  BY <1>a, <1>b, <2>1, <2>2, <2>5
    <3>6. ReaderInv'  BY <2>2, <2>3
    <3> QED  BY <3>2, <3>3, <3>4, <3>5, <3>6
  <2> QED  BY <2>4, <2>5
<1>8. CASE RefreshFails(c)  BY <1>8, <1>a, <1>b DEF RefreshFails, Return, Disconnect, CloseActive
<1>9. CASE WaitReturns(c)  BY <1>9, <1>a, <1>b DEF WaitReturns, Return
<1> QED  BY <1>1, <1>2, <1>3, <1>4, <1>5, <1>6, <1>7, <1>8, <1>9 DEF Call

LEMMA ClientInvNext == ClientInv /\ [ClientNext]_clientVars => ClientInv'
<1> SUFFICES ASSUME ClientInv, [ClientNext]_clientVars PROVE ClientInv'  OBVIOUS
<1>a. drops \in Nat  BY DEF ClientInv, ClientTypeInv
<1> USE DEF serverVars, connVars
<1>1. ASSUME NEW o \in Op, Update(o), UNCHANGED env PROVE ClientInv'
  BY <1>1, <1>a, OthersStep DEF Update
<1>2. ASSUME NEW e \in Event, eventSend(e), UNCHANGED env PROVE ClientInv'
  BY <1>2, <1>a, OthersStep DEF eventSend
<1>3. ASSUME eventsSocket, UNCHANGED env PROVE ClientInv'
  BY <1>3, <1>a, OthersStep DEF eventsSocket
<1>4. ASSUME Drop, UNCHANGED env PROVE ClientInv'
  BY <1>4, <1>a, OthersStep DEF Drop
<1>5. ASSUME ReaderCheck, UNCHANGED env PROVE ClientInv'
  BY <1>5, <1>a, OthersStep DEF ReaderCheck
<1>6. ASSUME ReadFails, UNCHANGED env PROVE ClientInv'
  <2>1. drops > 0  BY <1>6 DEF ReadFails, ClientInv, ReaderInv
  <2> QED  BY <1>6, <1>a, <2>1, OthersStep DEF ReadFails
<1>7. ASSUME NEW e \in Event, ReadMessage(e), UNCHANGED env PROVE ClientInv'
  BY <1>7, <1>a, OthersStep DEF ReadMessage
<1>8. CASE UNCHANGED clientVars  BY <1>8, <1>a, OthersStep DEF clientVars
<1> QED
  BY <1>1, <1>2, <1>3, <1>4, <1>5, <1>6, <1>7, <1>8, HandleStep, CallStep DEF ClientNext, Step, Reader

-----------------------------------------------------------------------------
\* Operation.Wait returns without an error only when the operation is final and
\* stays so, however events overtake one another, connections break and other
\* calls of Wait and AddHandler interleave (setupListener, client/operations.go).
THEOREM WaitIsFinal == ClientSpec => []WaitedIsFinal
<1>1. ClientInv => WaitedIsFinal  BY DEF ClientInv
<1> QED  BY ClientInvInit, ClientInvNext, <1>1, PTL DEF ClientSpec

\* As long as nothing has failed, whoever is in the client's list of listeners
\* has a goroutine that reads for it (GetEvents, client/apollo_events.go).
THEOREM ListenersAreServed == ClientSpec => []ListenersServed
<1>1. ClientInv => ListenersServed  BY DEF ClientInv, ReaderInv, ListenersServed
<1> QED  BY ClientInvInit, ClientInvNext, <1>1, PTL DEF ClientSpec
=============================================================================
