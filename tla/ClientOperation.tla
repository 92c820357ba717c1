--------------------------- MODULE ClientOperation ---------------------------
(***************************************************************************)
(* How the Go client waits for background operations: Operation.Wait,      *)
(* AddHandler and setupListener (client/operations.go) on top of the event *)
(* connection the operations of a client share (client/apollo_events.go,   *)
(* client/events.go), with the daemon's side of it: updates of operations  *)
(* sent as events (apollo/operations.go) to the listeners that have        *)
(* registered (apollo/events.go).                                          *)
(*                                                                         *)
(* An operation goes through versions 0 .. Last, and Last is its final     *)
(* state.  The daemon writes every event from a goroutine of its own and   *)
(* the client handles every event in a goroutine of its own, so events are *)
(* a set: any order is possible.  chReady of setupListener adds nothing to *)
(* handlerLock, which setupListener holds until it closes chReady.         *)
(***************************************************************************)
EXTENDS Naturals

CONSTANTS
  Op,            \* operations, each with its Operation struct in the client
  Caller,        \* goroutines of the client calling Wait or AddHandler
  Adder,         \* those that call AddHandler
  Of,            \* caller -> operation
  Keeper,        \* an event listener of the program itself
  None,
  Envs           \* what the callers may meet

EnvType ==
  [last : Nat \ {0},        \* the final version of an operation
   kept : BOOLEAN,          \* the Keeper listens from the start
   drops : Nat,             \* how often the connection breaks
   dialFails : BOOLEAN,     \* the websocket request may fail
   getFails : BOOLEAN]      \* GET on an operation may fail

ASSUME ClientAssumption ==
  /\ Adder \subseteq Caller
  /\ Of \in [Caller -> Op]
  /\ Envs \subseteq EnvType /\ Envs # {}
  /\ Keeper \notin Op /\ None \notin Caller

\* An operation and the version it was updated to.
Event == Op \X UNION {1 .. e.last : e \in Envs}

VARIABLES
  env,                  \* stays as it was chosen
  ver, emitting,        \* daemon: version of an operation, events being sent
  registered, sent,     \* daemon: our listener, events written to it
  conn, drops,          \* the websocket
  eventListeners,       \* the client's list (of owners), None when nil
  reader,               \* the goroutine of GetEvents
  listener, hasTarget,  \* Operation.listener is set, its handler is added
  handlerReady, handlerLock, chActive, mine,   \* of the Operation structs
  handling,             \* goroutines running the handler on an event
  place, failed            \* callers

serverVars == <<ver, emitting, registered>>
connVars == <<conn, drops, reader>>
structVars == <<listener, hasTarget, handlerReady, handlerLock, chActive, mine>>
clientVars == <<serverVars, sent, connVars, eventListeners, structVars, handling, place, failed, env>>

Last == env.last

ClientInit ==
  /\ env \in Envs
  /\ ver = [o \in Op |-> 0] /\ emitting = {}
  /\ registered = env.kept /\ sent = {}
  /\ conn = (IF env.kept THEN "up" ELSE "none") /\ drops = 0
  /\ eventListeners = (IF env.kept THEN {Keeper} ELSE None)
  /\ reader = (IF env.kept THEN "check" ELSE "off")
  /\ listener = [o \in Op |-> FALSE] /\ hasTarget = [o \in Op |-> FALSE]
  /\ handlerReady = [o \in Op |-> FALSE]
  /\ handlerLock = [o \in Op |-> None]
  /\ chActive = [o \in Op |-> 0]
  /\ mine = [o \in Op |-> 0]
  /\ handling = {}
  /\ place = [c \in Caller |-> "start"]
  /\ failed = [c \in Caller |-> FALSE]

(***************************************************************************)
(* The daemon.  An operation is updated, then rendered into an event; the  *)
(* request for events is answered, then its listener is registered.        *)
(***************************************************************************)
Update(o) ==
  /\ ver[o] < Last
  /\ ver' = [ver EXCEPT ![o] = @ + 1]
  /\ emitting' = emitting \cup {<<o, ver'[o]>>}
  /\ UNCHANGED <<registered, sent, connVars, eventListeners, structVars, handling, place, failed>>

eventSend(e) ==
  /\ e \in emitting
  /\ emitting' = emitting \ {e}
  /\ sent' = IF registered THEN sent \cup {e} ELSE sent
  /\ UNCHANGED <<ver, registered, connVars, eventListeners, structVars, handling, place, failed>>

eventsSocket ==
  /\ conn = "up" /\ ~registered
  /\ registered' = TRUE
  /\ UNCHANGED <<ver, emitting, sent, connVars, eventListeners, structVars, handling, place, failed>>

Drop ==
  /\ conn = "up" /\ drops < env.drops
  /\ conn' = "dead" /\ drops' = drops + 1
  /\ registered' = FALSE /\ sent' = {}
  /\ UNCHANGED <<ver, emitting, reader, eventListeners, structVars, handling, place, failed>>

(***************************************************************************)
(* The goroutine that reads the connection.                                *)
(***************************************************************************)
\* Faulty form: the list is not set to nil when the goroutine ends.
ReaderCheckKeeps ==
  /\ reader = "check"
  /\ IF eventListeners = {}
     THEN /\ conn' = "none" /\ registered' = FALSE /\ sent' = {}
          /\ reader' = "off" /\ UNCHANGED eventListeners
     ELSE reader' = "read" /\ UNCHANGED <<conn, registered, sent, eventListeners>>
  /\ UNCHANGED <<ver, emitting, drops, structVars, handling, place, failed>>

\* Nobody listens: close the connection; the list becomes nil.
ReaderCheck ==
  /\ reader = "check"
  /\ IF eventListeners = {}
     THEN /\ conn' = "none" /\ registered' = FALSE /\ sent' = {}
          /\ eventListeners' = None /\ reader' = "off"
     ELSE reader' = "read" /\ UNCHANGED <<conn, registered, sent, eventListeners>>
  /\ UNCHANGED <<ver, emitting, drops, structVars, handling, place, failed>>

\* Every listener in the list that has a handler gets a goroutine; only the
\* one of the event's own operation does anything.
ReadMessage(e) ==
  /\ reader = "read" /\ conn = "up" /\ e \in sent
  /\ sent' = sent \ {e}
  /\ handling' = IF e[1] \in eventListeners /\ hasTarget[e[1]]
                 THEN handling \cup {e} ELSE handling
  /\ reader' = "check"
  /\ UNCHANGED <<serverVars, conn, drops, eventListeners, structVars, place, failed>>

\* "Tell all the current listeners about the failure"; the list stays.
ReadFails ==
  /\ reader = "read" /\ conn = "dead"
  /\ eventListeners' = {}
  /\ reader' = "off"
  /\ UNCHANGED <<serverVars, sent, conn, drops, structVars, handling, place, failed>>

(***************************************************************************)
(* The handler of an operation, once it gets handlerLock.  Disconnect      *)
(* takes the listener out of the list.                                     *)
(***************************************************************************)
Disconnect(o) == eventListeners' = IF eventListeners = None THEN None
                                   ELSE eventListeners \ {o}

CloseActive(o) == chActive' = [chActive EXCEPT ![o] = @ + 1]

\* Faulty form: "Check if we're done already" is missing.
HandleUnchecked(e) ==
  LET o == e[1] v == e[2] IN
  /\ e \in handling
  /\ handlerLock[o] = None
  /\ handling' = handling \ {e}
  /\ mine' = [mine EXCEPT ![o] = v]
  /\ IF v = Last
     THEN Disconnect(o) /\ CloseActive(o) /\ listener' = [listener EXCEPT ![o] = FALSE]
     ELSE UNCHANGED <<eventListeners, chActive, listener>>
  /\ UNCHANGED <<serverVars, sent, connVars, hasTarget, handlerReady, handlerLock, place, failed>>

Handle(e) ==
  LET o == e[1] v == e[2] IN
  /\ e \in handling
  /\ handlerLock[o] = None
  /\ handling' = handling \ {e}
  /\ mine' = IF listener[o] THEN [mine EXCEPT ![o] = v] ELSE mine
  /\ IF listener[o] /\ v = Last
     THEN Disconnect(o) /\ CloseActive(o) /\ listener' = [listener EXCEPT ![o] = FALSE]
     ELSE UNCHANGED <<eventListeners, chActive, listener>>
  /\ UNCHANGED <<serverVars, sent, connVars, hasTarget, handlerReady, handlerLock, place, failed>>

(***************************************************************************)
(* Wait and AddHandler: setupListener under handlerLock, and then Wait     *)
(* waits for chActive.                                                     *)
(***************************************************************************)
GoesTo(c, l) == place' = [place EXCEPT ![c] = l]
Release(o) == handlerLock' = [handlerLock EXCEPT ![o] = None]
AfterSetup(c) == IF c \in Adder THEN "end" ELSE "wait"

Return(c, e) ==
  /\ GoesTo(c, "end")
  /\ failed' = [failed EXCEPT ![c] = e]

\* Wait returns at once if the operation is final already.
Start(c) ==
  /\ place[c] = "start"
  /\ GoesTo(c, IF mine[Of[c]] = Last /\ c \notin Adder THEN "end" ELSE "lock")
  /\ UNCHANGED <<serverVars, sent, connVars, eventListeners, structVars, handling, failed>>

Lock(c) ==
  LET o == Of[c] IN
  /\ place[c] = "lock"
  /\ handlerLock[o] = None
  /\ IF handlerReady[o]
     THEN GoesTo(c, AfterSetup(c)) /\ UNCHANGED handlerLock
     ELSE /\ handlerLock' = [handlerLock EXCEPT ![o] = c]
          /\ GoesTo(c, IF listener[o] THEN "handler" ELSE "events")
  /\ UNCHANGED <<serverVars, sent, connVars, eventListeners, listener, hasTarget>>
  /\ UNCHANGED <<handlerReady, chActive, mine, handling, failed>>

\* GetEvents: join the list if there is one ...
GetEventsJoin(c) ==
  LET o == Of[c] IN
  /\ place[c] = "events"
  /\ eventListeners # None
  /\ eventListeners' = eventListeners \cup {o}
  /\ listener' = [listener EXCEPT ![o] = TRUE]
  /\ hasTarget' = [hasTarget EXCEPT ![o] = FALSE]
  /\ GoesTo(c, "handler")
  /\ UNCHANGED <<serverVars, sent, connVars, handlerReady, handlerLock, chActive>>
  /\ UNCHANGED <<mine, handling, failed>>

\* ... or make it, connect and start the reader.
GetEventsDial(c) ==
  LET o == Of[c] IN
  /\ place[c] = "events"
  /\ eventListeners = None
  /\ eventListeners' = {o}
  /\ conn' = "up" /\ reader' = "check"
  /\ listener' = [listener EXCEPT ![o] = TRUE]
  /\ hasTarget' = [hasTarget EXCEPT ![o] = FALSE]
  /\ GoesTo(c, "handler")
  /\ UNCHANGED <<serverVars, sent, drops, handlerReady, handlerLock, chActive>>
  /\ UNCHANGED <<mine, handling, failed>>

GetEventsFails(c) ==
  /\ place[c] = "events"
  /\ eventListeners = None /\ env.dialFails
  /\ eventListeners' = {}
  /\ Release(Of[c])
  /\ Return(c, TRUE)
  /\ UNCHANGED <<serverVars, sent, connVars, listener, hasTarget, handlerReady>>
  /\ UNCHANGED <<chActive, mine, handling>>

AddHandler(c) ==
  /\ place[c] = "handler"
  /\ hasTarget' = [hasTarget EXCEPT ![Of[c]] = TRUE]
  /\ GoesTo(c, "refresh")
  /\ UNCHANGED <<serverVars, sent, connVars, eventListeners, listener, handlerReady>>
  /\ UNCHANGED <<handlerLock, chActive, mine, handling, failed>>

\* Faulty form: a final answer does not tell those who wait.
RefreshSilent(c) ==
  LET o == Of[c] IN
  /\ place[c] = "refresh"
  /\ mine' = [mine EXCEPT ![o] = ver[o]]
  /\ handlerReady' = [handlerReady EXCEPT ![o] = TRUE]
  /\ IF ver[o] = Last
     THEN Disconnect(o) /\ listener' = [listener EXCEPT ![o] = FALSE]
     ELSE UNCHANGED <<eventListeners, listener>>
  /\ Release(o)
  /\ GoesTo(c, AfterSetup(c))
  /\ UNCHANGED <<serverVars, sent, connVars, chActive, hasTarget, handling, failed>>

\* "do a manual refresh to avoid races", and check if not done already.
Refresh(c) ==
  LET o == Of[c] IN
  /\ place[c] = "refresh"
  /\ mine' = [mine EXCEPT ![o] = ver[o]]
  /\ handlerReady' = [handlerReady EXCEPT ![o] = TRUE]
  /\ IF ver[o] = Last
     THEN Disconnect(o) /\ CloseActive(o) /\ listener' = [listener EXCEPT ![o] = FALSE]
     ELSE UNCHANGED <<eventListeners, chActive, listener>>
  /\ Release(o)
  /\ GoesTo(c, AfterSetup(c))
  /\ UNCHANGED <<serverVars, sent, connVars, hasTarget, handling, failed>>

RefreshFails(c) ==
  LET o == Of[c] IN
  /\ place[c] = "refresh" /\ env.getFails
  /\ Disconnect(o) /\ CloseActive(o)
  /\ listener' = [listener EXCEPT ![o] = FALSE]
  /\ Release(o)
  /\ Return(c, TRUE)
  /\ UNCHANGED <<serverVars, sent, connVars, hasTarget, handlerReady, mine, handling>>

WaitReturns(c) ==
  /\ place[c] = "wait"
  /\ chActive[Of[c]] > 0
  /\ Return(c, FALSE)
  /\ UNCHANGED <<serverVars, sent, connVars, eventListeners, structVars, handling>>

-----------------------------------------------------------------------------
Call(c) ==
  \/ Start(c) \/ Lock(c) \/ GetEventsJoin(c) \/ GetEventsDial(c)
  \/ GetEventsFails(c) \/ AddHandler(c) \/ Refresh(c) \/ RefreshFails(c)
  \/ WaitReturns(c)

Reader == ReaderCheck \/ ReadFails \/ \E e \in Event : ReadMessage(e)

Step ==
  \/ \E o \in Op : Update(o)
  \/ \E e \in Event : eventSend(e) \/ Handle(e)
  \/ eventsSocket \/ Drop \/ Reader
  \/ \E c \in Caller : Call(c)

ClientNext == Step /\ UNCHANGED env

ClientSpec == ClientInit /\ [][ClientNext]_clientVars

\* Operations end, goroutines that can run do, requests are answered.  Every
\* behaviour is finite, so that it is enough that the whole does not stop as
\* long as something can happen.
FairClientSpec == ClientSpec /\ WF_clientVars(ClientNext)

-----------------------------------------------------------------------------
\* Wait returns without an error only when the operation is final, and late
\* events do not take that back.  It is not so when the GET of another call
\* on the operation failed: that closes chActive for everyone.
GetFailed(o) == env.getFails /\ \E d \in Caller : Of[d] = o /\ failed[d]

WaitedIsFinal ==
  \A c \in Caller \ Adder :
    place[c] = "end" /\ ~failed[c] /\ ~GetFailed(Of[c]) => mine[Of[c]] = Last

\* As long as no call has failed and the connection has not broken, whoever
\* is in the list of listeners has a goroutine reading for it, however the
\* listeners come and go: the list is nil whenever that goroutine is gone.
ListenersServed ==
  drops = 0 /\ (\A c \in Caller : ~failed[c]) /\ eventListeners \notin {None, {}}
    => reader # "off"

\* Every Wait returns, whether or not GET fails and however events overtake
\* one another, when the program has a listener of its own from the start
\* and the connection holds.
WaitsReturn == env.kept /\ env.drops = 0 => \A c \in Caller : <>(place[c] = "end")
=============================================================================
