------------------------- MODULE ContainerOpProofs -------------------------
(***************************************************************************)
(* What the container operation lock guarantees for any number of calls,   *)
(* any mix of them and any number of timeouts.                             *)
(***************************************************************************)
EXTENDS ContainerOp, TLAPS

\* The places of a call that has not created its operation object yet.
Fresh == {"idle", "create", "insert", "reset", "storage", "cleanup", "record"}

\* The places where a call that stops the container works under an operation.
Stopping(p) ==
  \/ pc[p] \in {"reset", "kill", "signalled", "wait"}
  \/ pc[p] = "act" /\ Reuse(p)

\* The registered operation is open and its timer is still there for it.
RegisteredOpen ==
  registered # None => closes[registered] = 0 /\ timer[registered] = "armed"

FreshIsNew ==
  \A p \in Proc : pc[p] \in Fresh =>
    action[p] = "none" /\ closes[p] = 0 /\ timer[p] = "off"

ReusableIsStop == \A o \in Proc : reusable[o] => action[o] = "stop"

JoinedIsStop ==
  \A p \in Proc : Stopping(p) => my[p] \in Proc /\ action[my[p]] = "stop"

ResetReuses == \A p \in Proc : pc[p] = "reset" => Reuse(p)

\* The inductive invariant.
LockInv ==
  /\ RegisteredOpen
  /\ FreshIsNew
  /\ ClosedOnce
  /\ ReusableIsStop
  /\ JoinedIsStop
  /\ ResetReuses

----------------------------------------------------------------------------
LEMMA DoneTyped ==
  ASSUME LockTypeOK, NEW o, NEW e \in BOOLEAN, Done(o, e)
  PROVE  /\ registered' \in Proc \cup {None}
         /\ action' = action /\ reusable' = reusable
         /\ closes' \in [Proc -> Nat]
         /\ err' \in [Proc -> BOOLEAN]
  BY DEF LockTypeOK, Done

LEMMA HaltTyped ==
  ASSUME WorldTypeOK, NEW t \in Targets, Halt(t)
  PROVE  lxc' \in LxcStates /\ target' \in Targets
  BY DEF WorldTypeOK, Halt, LxcStates

LEMMA LockTypeStep == TypeOK /\ [Next]_vars => LockTypeOK'
<1> SUFFICES ASSUME TypeOK, [Next]_vars PROVE LockTypeOK'
  OBVIOUS
<1> USE DEF TypeOK, LockTypeOK, lockVars, callVars, lxcVars
<1>1. ASSUME NEW p \in Proc, Request(p) PROVE LockTypeOK'
  BY <1>1 DEF Request, BeginCall
<1>2. ASSUME NEW p \in Proc, GetOperation(p) PROVE LockTypeOK'
  BY <1>2 DEF GetOperation
<1>3. ASSUME NEW p \in Proc, Reset(p) PROVE LockTypeOK'
  BY <1>3 DEF Reset
<1>4. ASSUME NEW p \in Proc, InsertOperation(p) PROVE LockTypeOK'
  BY <1>4 DEF InsertOperation
<1>5. ASSUME NEW p \in Proc, StartCheck(p) PROVE LockTypeOK'
  BY <1>5, DoneTyped DEF StartCheck, StartReturn
<1>6. ASSUME NEW p \in Proc, StartSetup(p) PROVE LockTypeOK'
  BY <1>6, DoneTyped DEF StartSetup, StartReturn
<1>7. ASSUME NEW p \in Proc, ForkStart(p) PROVE LockTypeOK'
  BY <1>7, DoneTyped DEF ForkStart, StartReturn
<1>8. ASSUME NEW p \in Proc, ForkReturns(p) PROVE LockTypeOK'
  BY <1>8, DoneTyped DEF ForkReturns, StartReturn
<1>9. ASSUME NEW p \in Proc, StopFreeze(p) PROVE LockTypeOK'
  BY <1>9, DoneTyped DEF StopFreeze, Fail
<1>10. ASSUME NEW p \in Proc, StopKill(p) PROVE LockTypeOK'
  BY <1>10, DoneTyped DEF StopKill, Fail
<1>11. ASSUME NEW p \in Proc, StopCheckpoint(p) PROVE LockTypeOK'
  BY <1>11, DoneTyped DEF StopCheckpoint, Fail
<1>12. ASSUME NEW p \in Proc, ShutdownSignal(p) PROVE LockTypeOK'
  BY <1>12, DoneTyped DEF ShutdownSignal, Fail
<1>13. ASSUME NEW p \in Proc, ShutdownReturns(p) PROVE LockTypeOK'
  BY <1>13, DoneTyped DEF ShutdownReturns, Fail
<1>14. ASSUME NEW p \in Proc, Wait(p) PROVE LockTypeOK'
  BY <1>14 DEF Wait
<1>15. ASSUME NEW p \in Proc, OnStopStorage(p) PROVE LockTypeOK'
  BY <1>15, DoneTyped DEF OnStopStorage, Release
<1>16. ASSUME NEW p \in Proc, OnStopCleanup(p) PROVE LockTypeOK'
  BY <1>16 DEF OnStopCleanup
<1>17. ASSUME NEW p \in Proc, OnStopRecord(p) PROVE LockTypeOK'
  BY <1>17 DEF OnStopRecord
<1>18. ASSUME NEW p \in Proc, OnStopRelease(p) PROVE LockTypeOK'
  BY <1>18, DoneTyped DEF OnStopRelease, Release
<1>19. ASSUME NEW p \in Proc, OnStop(p) PROVE LockTypeOK'
  BY <1>19 DEF OnStop
<1>20. ASSUME NEW p \in Proc, TimerFires(p) PROVE LockTypeOK'
  BY <1>20, DoneTyped DEF TimerFires
<1>21. CASE OnStart
  BY <1>21 DEF OnStart
<1>22. CASE ContainerHalts
  BY <1>22 DEF ContainerHalts
<1>23. CASE CallHookTimeout
  BY <1>23 DEF CallHookTimeout
<1>24. CASE HostForget
  BY <1>24 DEF HostForget
<1>25. CASE HostRecord
  BY <1>25 DEF HostRecord
<1>26. ASSUME NEW p \in Proc, HostShutdown(p) PROVE LockTypeOK'
  BY <1>26 DEF HostShutdown, BeginCall
<1>27. ASSUME NEW p \in Proc, HostStop(p) PROVE LockTypeOK'
  BY <1>27 DEF HostStop, BeginCall
<1>28. CASE UNCHANGED vars
  BY <1>28 DEF vars
<1> QED
  BY <1>1, <1>2, <1>3, <1>4, <1>5, <1>6, <1>7, <1>8, <1>9, <1>10, <1>11, <1>12,
      <1>13, <1>14, <1>15, <1>16, <1>17, <1>18, <1>19, <1>20, <1>21, <1>22,
      <1>23, <1>24, <1>25, <1>26, <1>27, <1>28 DEF Next, ProcStep, HostStep

LEMMA CallTypeStep == TypeOK /\ [Next]_vars => CallTypeOK'
<1> SUFFICES ASSUME TypeOK, [Next]_vars PROVE CallTypeOK'
  OBVIOUS
<1> USE DEF TypeOK, CallTypeOK, lockVars, callVars, lxcVars
<1>1. ASSUME NEW p \in Proc, Request(p) PROVE CallTypeOK'
  BY <1>1, ConstantsAssumption DEF Request, BeginCall, Goto, Kinds, PCs
<1>2. ASSUME NEW p \in Proc, GetOperation(p) PROVE CallTypeOK'
  BY <1>2 DEF GetOperation, Goto, Exit, PCs, LockTypeOK
<1>3. ASSUME NEW p \in Proc, Reset(p) PROVE CallTypeOK'
  BY <1>3 DEF Reset, Goto, PCs
<1>4. ASSUME NEW p \in Proc, InsertOperation(p) PROVE CallTypeOK'
  BY <1>4 DEF InsertOperation, Goto, PCs
<1>5. ASSUME NEW p \in Proc, StartCheck(p) PROVE CallTypeOK'
  BY <1>5 DEF StartCheck, StartReturn, Goto, Exit, PCs
<1>6. ASSUME NEW p \in Proc, StartSetup(p) PROVE CallTypeOK'
  BY <1>6 DEF StartSetup, StartReturn, Goto, Exit, PCs
<1>7. ASSUME NEW p \in Proc, ForkStart(p) PROVE CallTypeOK'
  BY <1>7 DEF ForkStart, StartReturn, Goto, Exit, PCs
<1>8. ASSUME NEW p \in Proc, ForkReturns(p) PROVE CallTypeOK'
  BY <1>8 DEF ForkReturns, StartReturn, Goto, Exit, PCs
<1>9. ASSUME NEW p \in Proc, StopFreeze(p) PROVE CallTypeOK'
  BY <1>9 DEF StopFreeze, Fail, Goto, PCs
<1>10. ASSUME NEW p \in Proc, StopKill(p) PROVE CallTypeOK'
  BY <1>10 DEF StopKill, Fail, Goto, PCs
<1>11. ASSUME NEW p \in Proc, StopCheckpoint(p) PROVE CallTypeOK'
  BY <1>11 DEF StopCheckpoint, Fail, Goto, PCs
<1>12. ASSUME NEW p \in Proc, ShutdownSignal(p) PROVE CallTypeOK'
  BY <1>12 DEF ShutdownSignal, Fail, Goto, PCs
<1>13. ASSUME NEW p \in Proc, ShutdownReturns(p) PROVE CallTypeOK'
  BY <1>13 DEF ShutdownReturns, Fail, Goto, PCs
<1>14. ASSUME NEW p \in Proc, Wait(p) PROVE CallTypeOK'
  BY <1>14 DEF Wait, Goto, PCs
<1>15. ASSUME NEW p \in Proc, OnStopStorage(p) PROVE CallTypeOK'
  BY <1>15 DEF OnStopStorage, Goto, PCs
<1>16. ASSUME NEW p \in Proc, OnStopCleanup(p) PROVE CallTypeOK'
  BY <1>16 DEF OnStopCleanup, Goto, PCs
<1>17. ASSUME NEW p \in Proc, OnStopRecord(p) PROVE CallTypeOK'
  BY <1>17 DEF OnStopRecord, Goto, PCs
<1>18. ASSUME NEW p \in Proc, OnStopRelease(p) PROVE CallTypeOK'
  BY <1>18 DEF OnStopRelease, Goto, PCs
<1>19. ASSUME NEW p \in Proc, OnStop(p) PROVE CallTypeOK'
  BY <1>19 DEF OnStop, Goto, PCs, LockTypeOK
<1>20. ASSUME NEW p \in Proc, TimerFires(p) PROVE CallTypeOK'
  BY <1>20 DEF TimerFires
<1>21. CASE OnStart
  BY <1>21 DEF OnStart
<1>22. CASE ContainerHalts
  BY <1>22 DEF ContainerHalts
<1>23. CASE CallHookTimeout
  BY <1>23 DEF CallHookTimeout
<1>24. CASE HostForget
  BY <1>24 DEF HostForget
<1>25. CASE HostRecord
  BY <1>25 DEF HostRecord
<1>26. ASSUME NEW p \in Proc, HostShutdown(p) PROVE CallTypeOK'
  BY <1>26 DEF HostShutdown, BeginCall, Goto, Kinds, PCs
<1>27. ASSUME NEW p \in Proc, HostStop(p) PROVE CallTypeOK'
  BY <1>27 DEF HostStop, BeginCall, Goto, Kinds, PCs
<1>28. CASE UNCHANGED vars
  BY <1>28 DEF vars
<1> QED
  BY <1>1, <1>2, <1>3, <1>4, <1>5, <1>6, <1>7, <1>8, <1>9, <1>10, <1>11, <1>12,
      <1>13, <1>14, <1>15, <1>16, <1>17, <1>18, <1>19, <1>20, <1>21, <1>22,
      <1>23, <1>24, <1>25, <1>26, <1>27, <1>28 DEF Next, ProcStep, HostStep

LEMMA WorldTypeStep == TypeOK /\ [Next]_vars => WorldTypeOK'
<1> SUFFICES ASSUME TypeOK, [Next]_vars PROVE WorldTypeOK'
  OBVIOUS
<1> USE DEF TypeOK, WorldTypeOK, lockVars, callVars, lxcVars
<1>1. ASSUME NEW p \in Proc, Request(p) PROVE WorldTypeOK'
  BY <1>1 DEF Request, LxcStates
<1>2. ASSUME NEW p \in Proc, GetOperation(p) PROVE WorldTypeOK'
  BY <1>2 DEF GetOperation
<1>3. ASSUME NEW p \in Proc, Reset(p) PROVE WorldTypeOK'
  BY <1>3 DEF Reset
<1>4. ASSUME NEW p \in Proc, InsertOperation(p) PROVE WorldTypeOK'
  BY <1>4 DEF InsertOperation
<1>5. ASSUME NEW p \in Proc, StartCheck(p) PROVE WorldTypeOK'
  BY <1>5 DEF StartCheck
<1>6. ASSUME NEW p \in Proc, StartSetup(p) PROVE WorldTypeOK'
  BY <1>6 DEF StartSetup
<1>7. ASSUME NEW p \in Proc, ForkStart(p) PROVE WorldTypeOK'
  BY <1>7 DEF ForkStart, LxcStates
<1>8. ASSUME NEW p \in Proc, ForkReturns(p) PROVE WorldTypeOK'
  BY <1>8 DEF ForkReturns
<1>9. ASSUME NEW p \in Proc, StopFreeze(p) PROVE WorldTypeOK'
  BY <1>9 DEF StopFreeze, LxcStates
<1>10. ASSUME NEW p \in Proc, StopKill(p) PROVE WorldTypeOK'
  BY <1>10 DEF StopKill, Halt, LxcStates, Targets
<1>11. ASSUME NEW p \in Proc, StopCheckpoint(p) PROVE WorldTypeOK'
  BY <1>11, HaltTyped DEF StopCheckpoint, Targets
<1>12. ASSUME NEW p \in Proc, ShutdownSignal(p) PROVE WorldTypeOK'
  BY <1>12 DEF ShutdownSignal
<1>13. ASSUME NEW p \in Proc, ShutdownReturns(p) PROVE WorldTypeOK'
  BY <1>13 DEF ShutdownReturns
<1>14. ASSUME NEW p \in Proc, Wait(p) PROVE WorldTypeOK'
  BY <1>14 DEF Wait
<1>15. ASSUME NEW p \in Proc, OnStopStorage(p) PROVE WorldTypeOK'
  BY <1>15 DEF OnStopStorage, HookReturns, LxcStates
<1>16. ASSUME NEW p \in Proc, OnStopCleanup(p) PROVE WorldTypeOK'
  BY <1>16 DEF OnStopCleanup
<1>17. ASSUME NEW p \in Proc, OnStopRecord(p) PROVE WorldTypeOK'
  BY <1>17 DEF OnStopRecord, LxcStates
<1>18. ASSUME NEW p \in Proc, OnStopRelease(p) PROVE WorldTypeOK'
  BY <1>18 DEF OnStopRelease
<1>19. ASSUME NEW p \in Proc, OnStop(p) PROVE WorldTypeOK'
  BY <1>19 DEF OnStop, LxcStates
<1>20. ASSUME NEW p \in Proc, TimerFires(p) PROVE WorldTypeOK'
  BY <1>20 DEF TimerFires
<1>21. CASE OnStart
  BY <1>21 DEF OnStart, LxcStates, Targets
<1>22. CASE ContainerHalts
  BY <1>22, ConstantsAssumption DEF ContainerHalts, Halt, LxcStates, Targets
<1>23. CASE CallHookTimeout
  BY <1>23 DEF CallHookTimeout, LxcStates
<1>24. CASE HostForget
  BY <1>24 DEF HostForget
<1>25. CASE HostRecord
  BY <1>25 DEF HostRecord
<1>26. ASSUME NEW p \in Proc, HostShutdown(p) PROVE WorldTypeOK'
  BY <1>26 DEF HostShutdown
<1>27. ASSUME NEW p \in Proc, HostStop(p) PROVE WorldTypeOK'
  BY <1>27 DEF HostStop
<1>28. CASE UNCHANGED vars
  BY <1>28 DEF vars
<1> QED
  BY <1>1, <1>2, <1>3, <1>4, <1>5, <1>6, <1>7, <1>8, <1>9, <1>10, <1>11, <1>12,
      <1>13, <1>14, <1>15, <1>16, <1>17, <1>18, <1>19, <1>20, <1>21, <1>22,
      <1>23, <1>24, <1>25, <1>26, <1>27, <1>28 DEF Next, ProcStep, HostStep

LEMMA TypeStep == TypeOK /\ [Next]_vars => TypeOK'
  BY LockTypeStep, CallTypeStep, WorldTypeStep DEF TypeOK

LEMMA InitInv == Init => TypeOK /\ LockInv
<1> SUFFICES ASSUME Init PROVE TypeOK /\ LockInv
  OBVIOUS
<1>1. LockTypeOK
  BY DEF Init, LockTypeOK
<1>2. CallTypeOK
  BY DEF Init, CallTypeOK, PCs
<1>3. WorldTypeOK
  BY DEF Init, WorldTypeOK, LxcStates, Targets
<1>4. LockInv
  BY DEF Init, LockInv, RegisteredOpen, FreshIsNew, Fresh, ClosedOnce,
         ReusableIsStop, JoinedIsStop, Stopping, ResetReuses
<1> QED
  BY <1>1, <1>2, <1>3, <1>4 DEF TypeOK

\* Done closes the registered operation, which was open, and touches nothing
\* else: neither a closed operation nor one that does not exist yet.
LEMMA DoneEffect ==
  ASSUME TypeOK, LockInv, NEW o, NEW e \in BOOLEAN, Done(o, e)
  PROVE  /\ action' = action /\ reusable' = reusable
         /\ \A q \in Proc :
              /\ closes'[q] <= 1
              /\ closes[q] > 0 => closes'[q] = closes[q] /\ err'[q] = err[q]
              /\ timer[q] = "off" => closes'[q] = closes[q]
         /\ registered' # None =>
              /\ registered' = registered /\ registered' # o
              /\ closes'[registered] = closes[registered]
  BY ConstantsAssumption
     DEF TypeOK, LockTypeOK, LockInv, RegisteredOpen, ClosedOnce, Done

\* A call that ends through Done keeps the invariant, whatever operation it
\* names and whatever error it reports.
LEMMA EndsThroughDone ==
  ASSUME TypeOK, LockInv, NEW p \in Proc, NEW o, NEW e \in BOOLEAN, Done(o, e),
         UNCHANGED <<timer, my, call>>,
         NEW l \in {"release", "ended"}, pc' = [pc EXCEPT ![p] = l]
  PROVE  LockInv'
<1>1. /\ action' = action /\ reusable' = reusable
      /\ \A q \in Proc :
           /\ closes'[q] <= 1
           /\ timer[q] = "off" => closes'[q] = closes[q]
      /\ registered' # None =>
           registered' = registered /\ closes'[registered] = closes[registered]
  BY DoneEffect
<1>2. RegisteredOpen' /\ FreshIsNew' /\ ClosedOnce'
  BY <1>1 DEF TypeOK, LockTypeOK, CallTypeOK, LockInv, RegisteredOpen,
              FreshIsNew, Fresh, ClosedOnce
<1>3. ReusableIsStop' /\ JoinedIsStop' /\ ResetReuses'
  BY <1>1 DEF TypeOK, LockTypeOK, CallTypeOK, LockInv, ReusableIsStop,
              JoinedIsStop, Stopping, Reuse, ResetReuses
<1> QED
  BY <1>2, <1>3 DEF LockInv

\* So does a call that moves on without touching the lock, as long as it does
\* not go back before its operation exists or start to count as stopping.
LEMMA QuietMove ==
  ASSUME TypeOK, LockInv, UNCHANGED <<lockVars, my, call>>,
         NEW p \in Proc, NEW l, pc' = [pc EXCEPT ![p] = l],
         l \in Fresh => pc[p] \in Fresh,
         l # "reset" /\ l # "act",
         l \in {"kill", "signalled", "wait"} => Stopping(p)
  PROVE  LockInv'
  BY DEF TypeOK, LockTypeOK, CallTypeOK, lockVars, LockInv, RegisteredOpen,
         FreshIsNew, Fresh, ClosedOnce, ReusableIsStop, JoinedIsStop, Stopping,
         Reuse, ResetReuses

LEMMA InvStep == TypeOK /\ LockInv /\ [Next]_vars => LockInv'
<1> SUFFICES ASSUME TypeOK, LockInv, [Next]_vars PROVE LockInv'
  OBVIOUS
<1>1. ASSUME NEW p \in Proc, StartReturn(p), UNCHANGED <<my, call>> PROVE LockInv'
  <2>1. Exit(p) \in {"release", "ended"}
    BY DEF Exit
  <2> QED
    BY <1>1, <2>1, EndsThroughDone DEF StartReturn, Goto
<1>2. ASSUME NEW p \in Proc, Fail(p), UNCHANGED <<my, call>> PROVE LockInv'
  BY <1>2, EndsThroughDone DEF Fail, Goto
<1>3. ASSUME NEW p \in Proc, NEW e \in BOOLEAN, outer[p] # None, Release(p, e),
             Goto(p, "ended"), UNCHANGED <<my, call>>
      PROVE LockInv'
  BY <1>3, EndsThroughDone DEF Release, Goto
<1>4. ASSUME NEW p \in Proc, TimerFires(p) PROVE LockInv'
  <2>1. /\ action' = action /\ reusable' = reusable
        /\ \A q \in Proc :
             /\ closes'[q] <= 1
             /\ timer[q] = "off" => closes'[q] = closes[q]
        /\ registered' # None =>
             /\ registered' = registered /\ registered' # p
             /\ closes'[registered] = closes[registered]
    BY <1>4, DoneEffect DEF TimerFires
  <2>2. timer' = [timer EXCEPT ![p] = "gone"] /\ timer[p] = "armed" /\ UNCHANGED callVars
    BY <1>4 DEF TimerFires
  <2> QED
    BY <2>1, <2>2 DEF TypeOK, LockTypeOK, CallTypeOK, callVars, LockInv,
       RegisteredOpen, FreshIsNew, Fresh, ClosedOnce, ReusableIsStop,
       JoinedIsStop, Stopping, Reuse, ResetReuses
<1>5. ASSUME NEW p \in Proc, StartCheck(p) PROVE LockInv'
  <2>1. CASE StartReturn(p)
    BY <1>5, <1>1, <2>1 DEF StartCheck
  <2>2. CASE UNCHANGED lockVars /\ ~StartReturn(p)
    BY <1>5, <2>2, QuietMove DEF StartCheck, Goto, Fresh, Stopping, Reuse
  <2> QED
    BY <1>5, <2>1, <2>2 DEF StartCheck
<1>6. ASSUME NEW p \in Proc, StartSetup(p) PROVE LockInv'
  <2>1. CASE StartReturn(p)
    BY <1>6, <1>1, <2>1 DEF StartSetup
  <2>2. CASE UNCHANGED lockVars /\ ~StartReturn(p)
    BY <1>6, <2>2, QuietMove DEF StartSetup, Goto, Fresh, Stopping, Reuse
  <2> QED
    BY <1>6, <2>1, <2>2 DEF StartSetup
<1>7. ASSUME NEW p \in Proc, ForkStart(p) PROVE LockInv'
  <2>1. CASE StartReturn(p)
    BY <1>7, <1>1, <2>1 DEF ForkStart
  <2>2. CASE UNCHANGED lockVars /\ ~StartReturn(p)
    BY <1>7, <2>2, QuietMove DEF ForkStart, Goto, Fresh, Stopping, Reuse
  <2> QED
    BY <1>7, <2>1, <2>2 DEF ForkStart
<1>8. ASSUME NEW p \in Proc, ForkReturns(p) PROVE LockInv'
  BY <1>8, <1>1 DEF ForkReturns
<1>9. ASSUME NEW p \in Proc, StopFreeze(p) PROVE LockInv'
  <2>1. CASE Fail(p)
    BY <1>9, <1>2, <2>1 DEF StopFreeze
  <2>2. CASE UNCHANGED lockVars /\ ~Fail(p)
    BY <1>9, <2>2, QuietMove DEF StopFreeze, Goto, Fresh, Stopping, Reuse
  <2> QED
    BY <1>9, <2>1, <2>2 DEF StopFreeze
<1>10. ASSUME NEW p \in Proc, StopKill(p) PROVE LockInv'
  <2>1. CASE Fail(p)
    BY <1>10, <1>2, <2>1 DEF StopKill
  <2>2. CASE UNCHANGED lockVars /\ ~Fail(p)
    BY <1>10, <2>2, QuietMove DEF StopKill, Goto, Fresh, Stopping, Reuse
  <2> QED
    BY <1>10, <2>1, <2>2 DEF StopKill
<1>11. ASSUME NEW p \in Proc, StopCheckpoint(p) PROVE LockInv'
  <2>1. CASE Fail(p)
    BY <1>11, <1>2, <2>1 DEF StopCheckpoint
  <2>2. CASE Done(my[p], FALSE) /\ UNCHANGED timer /\ Goto(p, "ended")
    BY <1>11, <2>2, EndsThroughDone DEF StopCheckpoint, Goto
  <2> QED
    BY <1>11, <2>1, <2>2 DEF StopCheckpoint
<1>12. ASSUME NEW p \in Proc, ShutdownSignal(p) PROVE LockInv'
  <2>1. CASE Fail(p)
    BY <1>12, <1>2, <2>1 DEF ShutdownSignal
  <2>2. CASE UNCHANGED lockVars /\ ~Fail(p)
    BY <1>12, <2>2, QuietMove DEF ShutdownSignal, Goto, Fresh, Stopping, Reuse
  <2> QED
    BY <1>12, <2>1, <2>2 DEF ShutdownSignal
<1>13. ASSUME NEW p \in Proc, ShutdownReturns(p) PROVE LockInv'
  <2>1. CASE Fail(p)
    BY <1>13, <1>2, <2>1 DEF ShutdownReturns
  <2>2. CASE UNCHANGED lockVars /\ ~Fail(p)
    BY <1>13, <2>2, QuietMove DEF ShutdownReturns, Goto, Fresh, Stopping, Reuse
  <2> QED
    BY <1>13, <2>1, <2>2 DEF ShutdownReturns
<1>14. ASSUME NEW p \in Proc, OnStopStorage(p) PROVE LockInv'
  <2>1. CASE outer[p] # None /\ Goto(p, "ended") /\ Release(p, TRUE)
    BY <1>14, <1>3, <2>1 DEF OnStopStorage
  <2>2. ASSUME UNCHANGED lockVars, NEW l \in {"cleanup", "ended"}, Goto(p, l)
        PROVE LockInv'
    BY <1>14, <2>2, QuietMove DEF OnStopStorage, Goto, Fresh
  <2> QED
    BY <1>14, <2>1, <2>2 DEF OnStopStorage, Release
<1>15. ASSUME NEW p \in Proc, OnStopRelease(p) PROVE LockInv'
  <2>1. CASE outer[p] # None /\ Goto(p, "ended") /\ Release(p, FALSE)
    BY <1>15, <1>3, <2>1 DEF OnStopRelease
  <2>2. CASE UNCHANGED lockVars
    BY <1>15, <2>2, QuietMove DEF OnStopRelease, Goto, Fresh
  <2> QED
    BY <1>15, <2>1, <2>2 DEF OnStopRelease, Release
<1> USE DEF TypeOK, LockTypeOK, CallTypeOK, lockVars, callVars, lxcVars,
    LockInv,
     RegisteredOpen, FreshIsNew, Fresh, ClosedOnce, ReusableIsStop, JoinedIsStop,
     Stopping, Reuse, ResetReuses
<1>16. ASSUME NEW p \in Proc, Request(p) PROVE LockInv'
  BY <1>16, ConstantsAssumption DEF Request, BeginCall, Goto
<1>17. ASSUME NEW p \in Proc, GetOperation(p) PROVE LockInv'
  BY <1>17 DEF GetOperation, Goto, Exit
<1>18. ASSUME NEW p \in Proc, Reset(p) PROVE LockInv'
  BY <1>18 DEF Reset, Goto
<1>19. ASSUME NEW p \in Proc, InsertOperation(p) PROVE LockInv'
  BY <1>19, ConstantsAssumption DEF InsertOperation, Goto
<1>20. ASSUME NEW p \in Proc, Wait(p) PROVE LockInv'
  BY <1>20 DEF Wait, Goto
<1>21. ASSUME NEW p \in Proc, OnStopCleanup(p) PROVE LockInv'
  BY <1>21 DEF OnStopCleanup, Goto
<1>22. ASSUME NEW p \in Proc, OnStopRecord(p) PROVE LockInv'
  BY <1>22 DEF OnStopRecord, Goto
<1>23. ASSUME NEW p \in Proc, OnStop(p) PROVE LockInv'
  BY <1>23 DEF OnStop, Goto
<1>24. CASE OnStart
  BY <1>24 DEF OnStart
<1>25. CASE ContainerHalts
  BY <1>25 DEF ContainerHalts
<1>26. CASE CallHookTimeout
  BY <1>26 DEF CallHookTimeout
<1>27. CASE HostForget
  BY <1>27 DEF HostForget
<1>28. CASE HostRecord
  BY <1>28 DEF HostRecord
<1>29. ASSUME NEW p \in Proc, HostShutdown(p) PROVE LockInv'
  BY <1>29, ConstantsAssumption DEF HostShutdown, BeginCall, Goto
<1>30. ASSUME NEW p \in Proc, HostStop(p) PROVE LockInv'
  BY <1>30, ConstantsAssumption DEF HostStop, BeginCall, Goto
<1>31. CASE UNCHANGED vars
  BY <1>31 DEF vars
<1> QED
  BY <1>4, <1>5, <1>6, <1>7, <1>8, <1>9, <1>10, <1>11, <1>12, <1>13, <1>14,
      <1>15, <1>16, <1>17, <1>18, <1>19, <1>20, <1>21, <1>22, <1>23, <1>24,
      <1>25, <1>26, <1>27, <1>28, <1>29, <1>30, <1>31 DEF Next, ProcStep,
      HostStep

----------------------------------------------------------------------------
\* Every variable of the lock, its calls and their surroundings keeps its
\* type in every behaviour.
THEOREM TypeCorrect == Spec => []TypeOK
<1>1. Init => TypeOK
  BY InitInv
<1>2. TypeOK /\ [Next]_vars => TypeOK'
  BY TypeStep
<1> QED
  BY <1>1, <1>2, PTL DEF Spec

\* The inductive invariant holds in every reachable state.
THEOREM Invariance == Spec => [](TypeOK /\ LockInv)
<1>1. Init => TypeOK /\ LockInv
  BY InitInv
<1>2. TypeOK /\ LockInv /\ [Next]_vars => (TypeOK /\ LockInv)'
  BY TypeStep, InvStep
<1> QED
  BY <1>1, <1>2, PTL DEF Spec

\* No operation's chanDone is closed twice, for any number of calls, reuses,
\* hooks and timeouts: op.Done never panics.
THEOREM NoDoubleClose == Spec => []ClosedOnce
<1>1. TypeOK /\ LockInv => ClosedOnce
  BY DEF LockInv
<1> QED
  BY <1>1, Invariance, PTL

\* A call that asked for a stop only ever works under, and waits for, an
\* operation that stops the container.
THEOREM StopsJoinStops == Spec => []StopJoinsOnlyStops
<1>1. TypeOK /\ LockInv => StopJoinsOnlyStops
  BY DEF LockInv, JoinedIsStop, Stopping, StopJoinsOnlyStops
<1> QED
  BY <1>1, Invariance, PTL

\* Whatever the step, the channels and errors of the operations change only
\* through Done or through the creation of an operation.
LEMMA LockEffect ==
  ASSUME [Next]_vars
  PROVE  \/ UNCHANGED <<closes, err>>
         \/ \E o : \E e \in BOOLEAN : Done(o, e)
         \/ \E p \in Proc : InsertOperation(p)
<1> DEFINE Effect == \/ UNCHANGED <<closes, err>>
                     \/ \E o : \E e \in BOOLEAN : Done(o, e)
                     \/ \E p \in Proc : InsertOperation(p)
<1>1. ASSUME UNCHANGED lockVars PROVE Effect
  BY <1>1 DEF lockVars
<1>2. ASSUME NEW o, NEW e \in BOOLEAN, Done(o, e) PROVE Effect
  BY <1>2
<1>3. ASSUME NEW p \in Proc, Request(p) PROVE Effect
  BY <1>1, <1>3 DEF Request
<1>4. ASSUME NEW p \in Proc, GetOperation(p) PROVE Effect
  BY <1>1, <1>4 DEF GetOperation
<1>5. ASSUME NEW p \in Proc, Reset(p) PROVE Effect
  BY <1>1, <1>5 DEF Reset
<1>6. ASSUME NEW p \in Proc, StartCheck(p) PROVE Effect
  BY <1>1, <1>2, <1>6 DEF StartCheck, StartReturn
<1>7. ASSUME NEW p \in Proc, StartSetup(p) PROVE Effect
  BY <1>1, <1>2, <1>7 DEF StartSetup, StartReturn
<1>8. ASSUME NEW p \in Proc, ForkStart(p) PROVE Effect
  BY <1>1, <1>2, <1>8 DEF ForkStart, StartReturn
<1>9. ASSUME NEW p \in Proc, ForkReturns(p) PROVE Effect
  BY <1>1, <1>2, <1>9 DEF ForkReturns, StartReturn
<1>10. ASSUME NEW p \in Proc, StopFreeze(p) PROVE Effect
  BY <1>1, <1>2, <1>10 DEF StopFreeze, Fail
<1>11. ASSUME NEW p \in Proc, StopKill(p) PROVE Effect
  BY <1>1, <1>2, <1>11 DEF StopKill, Fail
<1>12. ASSUME NEW p \in Proc, StopCheckpoint(p) PROVE Effect
  BY <1>1, <1>2, <1>12 DEF StopCheckpoint, Fail
<1>13. ASSUME NEW p \in Proc, ShutdownSignal(p) PROVE Effect
  BY <1>1, <1>2, <1>13 DEF ShutdownSignal, Fail
<1>14. ASSUME NEW p \in Proc, ShutdownReturns(p) PROVE Effect
  BY <1>1, <1>2, <1>14 DEF ShutdownReturns, Fail
<1>15. ASSUME NEW p \in Proc, Wait(p) PROVE Effect
  BY <1>1, <1>15 DEF Wait
<1>16. ASSUME NEW p \in Proc, OnStopStorage(p) PROVE Effect
  BY <1>1, <1>2, <1>16 DEF OnStopStorage, Release
<1>17. ASSUME NEW p \in Proc, OnStopCleanup(p) PROVE Effect
  BY <1>1, <1>17 DEF OnStopCleanup
<1>18. ASSUME NEW p \in Proc, OnStopRecord(p) PROVE Effect
  BY <1>1, <1>18 DEF OnStopRecord
<1>19. ASSUME NEW p \in Proc, OnStopRelease(p) PROVE Effect
  BY <1>1, <1>2, <1>19 DEF OnStopRelease, Release
<1>20. ASSUME NEW p \in Proc, OnStop(p) PROVE Effect
  BY <1>1, <1>20 DEF OnStop
<1>21. ASSUME NEW p \in Proc, TimerFires(p) PROVE Effect
  BY <1>1, <1>2, <1>21 DEF TimerFires
<1>22. CASE OnStart
  BY <1>1, <1>22 DEF OnStart
<1>23. CASE ContainerHalts
  BY <1>1, <1>23 DEF ContainerHalts
<1>24. CASE CallHookTimeout
  BY <1>1, <1>24 DEF CallHookTimeout
<1>25. CASE HostForget
  BY <1>1, <1>25 DEF HostForget
<1>26. CASE HostRecord
  BY <1>1, <1>26 DEF HostRecord
<1>27. ASSUME NEW p \in Proc, HostShutdown(p) PROVE Effect
  BY <1>1, <1>27 DEF HostShutdown
<1>28. ASSUME NEW p \in Proc, HostStop(p) PROVE Effect
  BY <1>1, <1>28 DEF HostStop
<1>29. CASE UNCHANGED vars
  BY <1>1, <1>29 DEF vars
<1> QED
  BY <1>3, <1>4, <1>5, <1>6, <1>7, <1>8, <1>9, <1>10, <1>11, <1>12, <1>13,
      <1>14, <1>15, <1>16, <1>17, <1>18, <1>19, <1>20, <1>21, <1>22, <1>23,
      <1>24, <1>25, <1>26, <1>27, <1>28, <1>29 DEF Next, ProcStep, HostStep

\* Once an operation is done, what its waiters read stays as it is.
THEOREM DoneStaysDone == Spec => DoneIsFinal
<1>1. ASSUME TypeOK, LockInv, [Next]_vars
      PROVE  \A o \in Proc : closes[o] > 0 =>
               /\ closes'[o] = closes[o]
               /\ err'[o] = err[o]
  <2>1. CASE UNCHANGED <<closes, err>>
    BY <2>1
  <2>2. ASSUME NEW o, NEW e \in BOOLEAN, Done(o, e)
        PROVE  \A q \in Proc : closes[q] > 0 =>
                 closes'[q] = closes[q] /\ err'[q] = err[q]
    BY <1>1, <2>2, DoneEffect
  <2>3. ASSUME NEW p \in Proc, InsertOperation(p)
        PROVE  \A q \in Proc : closes[q] > 0 =>
                 closes'[q] = closes[q] /\ err'[q] = err[q]
    <3>1. closes[p] = 0
      BY <1>1, <2>3 DEF InsertOperation, LockInv, FreshIsNew, Fresh
    <3>2. /\ closes' = [closes EXCEPT ![p] = 0]
          /\ err' = [err EXCEPT ![p] = FALSE]
      BY <2>3 DEF InsertOperation
    <3>3. ASSUME NEW q \in Proc, closes[q] > 0
          PROVE  closes'[q] = closes[q] /\ err'[q] = err[q]
      <4>1. q # p
        BY <3>1, <3>3
      <4> QED
        BY <1>1, <3>2, <4>1 DEF TypeOK, LockTypeOK
    <3> QED
      BY <3>3
  <2> QED
    BY <1>1, <2>1, <2>2, <2>3, LockEffect
<1>2. TypeOK /\ LockInv /\ [Next]_vars =>
        [\A o \in Proc : closes[o] > 0 =>
           /\ closes'[o] = closes[o]
           /\ err'[o] = err[o]]_vars
  BY <1>1
<1> QED
  BY <1>2, Invariance, PTL DEF Spec, DoneIsFinal
============================================================================
