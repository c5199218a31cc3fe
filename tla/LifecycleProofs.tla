---------------------------- MODULE LifecycleProofs ----------------------------
(***************************************************************************)
(* Proofs about ServerLifecycle, for any number of IO threads and signals. *)
(* The four safety properties speak of the pool, the heartbeat thread and  *)
(* the eventfd; that they hold follows from where main() is.  Inv says, for *)
(* each of its positions, what it has already stopped, closed or destroyed, *)
(* and that a thread which has ended runs no signal handler.               *)
(***************************************************************************)
EXTENDS ServerLifecycle, TLAPS

\* The positions of main() in the destructors, and those where Stop, having
\* joined the IO threads, goes on.
AfterReturn == {"hbStop", "hbNotify", "hbJoin", "poolShut", "dtorServer", "ioStop",
                "ioJoin", "exited"}
AfterJoin == {"hbStop", "hbNotify", "hbJoin", "poolShut", "closeFds", "unsetFd"}

\* Which positions main() can be in, before and after it returns.
MainInv ==
    /\ exiting => main \in AfterReturn
    /\ ~exiting => main \notin {"dtorServer", "exited"}

\* Before Init has made the pool there are no threads and no handlers; a closed
\* pool is one that Stop has shut and nobody has used since; a destroyed one
\* comes before ~Server.
PoolInv ==
    /\ main \in {"init", "pool", "aborted"} <=> pool = "none"
    /\ main \in {"closeFds", "unsetFd"} => pool = "shut"
    /\ pool = "shut" => \/ main \in {"closeFds", "unsetFd", "return"}
                        \/ exiting /\ main \in {"hbStop", "poolShut"}
    /\ pool = "destroyed" <=> exiting /\ main \in {"dtorServer", "ioStop", "ioJoin", "exited"}

\* The heartbeat thread runs from Init until StopHeartbeatCheck has joined it.
HeartbeatInv ==
    /\ hb = "none" <=> pool = "none"
    /\ heartbeat_running_ => pool = "running" /\ main \notin {"hbNotify", "hbJoin", "poolShut"}
    /\ pool = "running" /\ ~heartbeat_running_ => main \in {"hbNotify", "hbJoin", "poolShut"}
    /\ main = "poolShut" \/ pool \in {"shut", "destroyed"} => hb = "done"

\* It has heartbeat_mutex_ in wait_for until it sleeps, and goes to sleep only
\* if the flag was still set when it took the lock.
LockInv ==
    /\ heartbeat_mutex_ = "hb" <=> hb \in {"pred", "sleep"}
    /\ hb = "sleep" => heartbeat_running_

\* IOThreadPool::Stop has joined the threads below its cursor.
IoInv ==
    /\ main = "ioJoin" => \A l \in Loop : l < cursor => io[l] = "joined"
    /\ pool = "shut" \/ (~exiting /\ main \in AfterJoin) => \A l \in Loop : io[l] = "joined"

\* signal_fd_ names a closed descriptor between close and the next statement.
FdInv == eventfd = "closed" <=> main = "unsetFd"

\* A signal handler runs on a thread that there is.
HandlerInv ==
    /\ pool = "none" => eventfd = "none" /\ \A t \in Thread : Free(t)
    /\ hb \in {"none", "done"} => Free(HeartbeatThread)
    /\ \A l \in Loop : io[l] \in {"none", "exit", "joined"} => Free(IoThread(l))

Inv ==
    /\ TypeOK /\ MainInv /\ PoolInv /\ HeartbeatInv /\ LockInv /\ IoInv /\ FdInv
    /\ HandlerInv /\ HeartbeatNotified /\ HandlerWritesToEventfd

-----------------------------------------------------------------------------

\* The threads are different ones.
LEMMA Threads ==
  /\ MainThread \in Thread /\ HeartbeatThread \in Thread /\ LogThread \in Thread
  /\ MainThread # HeartbeatThread /\ MainThread # LogThread
  /\ HeartbeatThread # LogThread
  /\ \A l \in Loop : /\ IoThread(l) \in Thread
                      /\ IoThread(l) \notin {MainThread, HeartbeatThread, LogThread}
  /\ \A l, m \in Loop : IoThread(l) = IoThread(m) => l = m
  /\ \A t \in Thread : \/ t \in {MainThread, HeartbeatThread, LogThread}
                        \/ \E l \in Loop : t = IoThread(l)
BY DEF Thread, MainThread, HeartbeatThread, LogThread, IoThread

\* The invariant holds before Init.
LEMMA InitInv == Init => Inv
<1> SUFFICES ASSUME Init PROVE Inv
  OBVIOUS
<1>1. TypeOK
  <2>1. /\ exiting \in BOOLEAN /\ running_ \in BOOLEAN /\ stop_requested_ \in BOOLEAN
        /\ heartbeat_running_ \in BOOLEAN /\ notified \in BOOLEAN
        /\ loopRunning \in [Loop -> BOOLEAN] /\ wakeup \in [Loop -> BOOLEAN]
    BY Zenon DEF Init
  <2>2. cursor \in 0 .. NumLoops /\ signals \in 0 .. MaxSignals
    BY LifecycleAssumption DEF Init
  <2> QED
    BY <2>1, <2>2 DEF Init, TypeOK
<1>2. MainInv /\ PoolInv /\ HeartbeatInv /\ LockInv /\ IoInv /\ FdInv
  BY DEF Init, MainInv, PoolInv, HeartbeatInv, LockInv, IoInv, FdInv, AfterReturn, AfterJoin
<1>3. \A t \in Thread : handler[t] = "none"
  BY DEF Init
<1>4. HandlerInv /\ HeartbeatNotified /\ HandlerWritesToEventfd
  BY <1>3, Threads
  DEF Init, HandlerInv, HeartbeatNotified, HandlerWritesToEventfd, Free
<1> QED
  BY <1>1, <1>2, <1>4 DEF Inv

\* Every step of main() keeps the types.
LEMMA MainTyped ==
  ASSUME TypeOK, Main \/ \E events \in SUBSET {"signal", "accept"} : MainWait(events)
  PROVE  TypeOK'
<1> USE LifecycleAssumption DEF TypeOK, MainAt, Loop, server, threads, heartbeat
<1>1. CASE InitListen
  BY <1>1 DEF InitListen, AfterListen
<1>2. CASE InitPool
  BY <1>2 DEF InitPool, StartHeartbeatCheck
<1>3. CASE ServerStart
  BY <1>3 DEF ServerStart
<1>4. CASE SpawnIoThread
  BY <1>4 DEF SpawnIoThread
<1>5. CASE MainCheck
  BY <1>5 DEF MainCheck
<1>6. CASE MainEvents
  <2>1. running_' \in BOOLEAN /\ main' \in {"events", "loop"}
    BY <1>6, Zenon DEF MainEvents
  <2>2. eventfd' \in {eventfd, "open"} /\ batch' \subseteq batch
    BY <1>6 DEF MainEvents
  <2> QED
    BY <1>6, <2>1, <2>2 DEF MainEvents
<1>7. CASE ServerStop
  <2>1. running_' \in BOOLEAN /\ main' \in {"ioStop", "return"}
    BY <1>7, Zenon DEF ServerStop, First
  <2> QED
    BY <1>7, <2>1 DEF ServerStop
<1>8. CASE StopLoop
  <2>1. loopRunning' \in [Loop -> BOOLEAN] /\ wakeup' \in [Loop -> BOOLEAN]
    BY <1>8, Zenon DEF StopLoop, WriteWakeup
  <2>2. main' \in {"ioStop", "ioJoin"} /\ cursor' \in 0 .. NumLoops
    BY <1>8 DEF StopLoop
  <2> QED
    BY <1>8, <2>1, <2>2 DEF StopLoop
<1>9. CASE JoinIoThread
  BY <1>9 DEF JoinIoThread
<1>10. CASE StopHeartbeat
  <2>1. heartbeat_running_' \in BOOLEAN /\ main' \in {"hbNotify", "poolShut"}
    BY <1>10, Zenon DEF StopHeartbeat
  <2> QED
    BY <1>10, <2>1 DEF StopHeartbeat
<1>11. CASE NotifyHeartbeat
  BY <1>11 DEF NotifyHeartbeat, AfterNotify
<1>12. CASE JoinHeartbeat
  BY <1>12 DEF JoinHeartbeat
<1>13. CASE PoolShutdown
  BY <1>13 DEF PoolShutdown
<1>14. CASE CloseFds
  BY <1>14 DEF CloseFds
<1>15. CASE MainReturns
  BY <1>15 DEF MainReturns
<1>16. CASE DestroyServer
  BY <1>16 DEF DestroyServer
<1>17. CASE \E events \in SUBSET {"signal", "accept"} : MainWait(events)
  BY <1>17 DEF MainWait
<1> QED
  BY <1>1, <1>2, <1>3, <1>4, <1>5, <1>6, <1>7, <1>8, <1>9, <1>10, <1>11, <1>12, <1>13, <1>14, <1>15, <1>16, <1>17, Zenon DEF Main

\* So does every step of another thread, and every signal.
LEMMA OthersTyped ==
  ASSUME TypeOK,
         \/ \E t \in Thread : Signal(t) \/ SignalHandler(t)
         \/ \E l \in Loop : IoStep(l) \/ Traffic(l)
         \/ Heartbeat \/ Terminated \/ UNCHANGED vars
  PROVE  TypeOK'
<1> USE DEF TypeOK, server, threads, heartbeat
<1>1. ASSUME NEW t \in Thread, Signal(t) PROVE TypeOK'
  <2>1. stop_requested_' \in BOOLEAN
    BY <1>1, Zenon DEF Signal
  <2>2. signals' \in 0 .. MaxSignals
    BY <1>1, LifecycleAssumption DEF Signal
  <2> QED
    BY <1>1, <2>1, <2>2 DEF Signal
<1>2. ASSUME NEW t \in Thread, SignalHandler(t) PROVE TypeOK'
  <2>1. main' \in {main, "loop"}
    BY <1>2 DEF SignalHandler, SignalTest, SignalWrite, HandlerReturns
  <2>2. handler' \in [Thread -> {"none", "test", "write"}]
    BY <1>2 DEF SignalHandler, SignalTest, SignalWrite, HandlerReturns
  <2>3. eventfd' \in {eventfd, "written"}
    BY <1>2 DEF SignalHandler, SignalTest, SignalWrite, Written
  <2>4. UNCHANGED <<exiting, cursor, batch, running_, stop_requested_, signals,
                    threads, heartbeat, pool>>
    BY <1>2 DEF SignalHandler, SignalTest, SignalWrite
  <2> QED
    BY <2>1, <2>2, <2>3, <2>4
<1>3. ASSUME NEW l \in Loop, IoStep(l) \/ Traffic(l) PROVE TypeOK'
  <2>1. loopRunning' \in [Loop -> BOOLEAN]
    BY <1>3, Zenon DEF IoStep, EnterLoop, CheckLoop, Wakeup, Handle, Traffic
  <2>2. io' \in [Loop -> {"none", "started", "check", "wait", "handle", "exit", "joined",
                      "undefined"}]
    BY <1>3 DEF IoStep, EnterLoop, CheckLoop, Wakeup, Handle, Traffic, CallThen
  <2>3. IoUnchanged
    BY <1>3 DEF IoStep, EnterLoop, CheckLoop, Wakeup, Handle, Traffic
  <2> QED
    BY <2>1, <2>2, <2>3 DEF IoUnchanged
<1>4. CASE Heartbeat
  <2>1. notified' \in BOOLEAN
    BY <1>4, Zenon
    DEF Heartbeat, HeartbeatCheck, HeartbeatLock, HeartbeatPred, HeartbeatSleep,
        HeartbeatWake, HeartbeatTimeout
  <2>2. /\ hb' \in {"check", "lock", "pred", "sleep", "waiting", "recheck", "scan", "done"}
        /\ heartbeat_mutex_' \in {heartbeat_mutex_, "free", "hb"}
        /\ HbUnchanged
    BY <1>4
    DEF Heartbeat, HeartbeatCheck, HeartbeatLock, HeartbeatPred, HeartbeatSleep,
        HeartbeatWake, HeartbeatTimeout
  <2> QED
    BY <2>1, <2>2 DEF HbUnchanged
<1>5. CASE Terminated \/ UNCHANGED vars
  <2>1. UNCHANGED <<main, exiting, cursor, server, threads, heartbeat, pool>>
    BY <1>5 DEF Terminated, vars
  <2> QED
    BY <2>1
<1> QED
  BY <1>1, <1>2, <1>3, <1>4, <1>5

-----------------------------------------------------------------------------

\* Every step of main() keeps the invariant.
LEMMA MainNext ==
  ASSUME Inv, Main \/ \E events \in SUBSET {"signal", "accept"} : MainWait(events)
  PROVE  Inv'
<1>0. TypeOK'
  BY MainTyped DEF Inv
<1> USE LifecycleAssumption
    DEF Inv, TypeOK, MainInv, PoolInv, HeartbeatInv, LockInv, IoInv, FdInv, HandlerInv,
        HeartbeatNotified, HandlerWritesToEventfd, MainAt, Free, AfterReturn, AfterJoin,
        server, threads, heartbeat, Loop
<1>1. CASE InitListen
  BY <1>0, <1>1 DEF InitListen, AfterListen
<1>2. CASE InitPool
  BY <1>0, <1>2 DEF InitPool, StartHeartbeatCheck
<1>3. CASE ServerStart
  BY <1>0, <1>3 DEF ServerStart
<1>4. CASE SpawnIoThread
  BY <1>0, <1>4 DEF SpawnIoThread
<1>5. CASE MainCheck
  BY <1>0, <1>5 DEF MainCheck
<1>6. CASE MainEvents
  BY <1>0, <1>6 DEF MainEvents
<1>7. CASE ServerStop
  BY <1>0, <1>7 DEF ServerStop, First
<1>8. CASE StopLoop
  BY <1>0, <1>8 DEF StopLoop
<1>9. CASE JoinIoThread
  BY <1>0, <1>9 DEF JoinIoThread
<1>10. CASE StopHeartbeat
  BY <1>0, <1>10 DEF StopHeartbeat, CanLock
<1>11. CASE NotifyHeartbeat
  BY <1>0, <1>11 DEF NotifyHeartbeat, AfterNotify
<1>12. CASE JoinHeartbeat
  BY <1>0, <1>12 DEF JoinHeartbeat
<1>13. CASE PoolShutdown
  BY <1>0, <1>13 DEF PoolShutdown
<1>14. CASE CloseFds
  <2>1. hb = "done" /\ \A l \in Loop : io[l] = "joined"
    BY <1>14 DEF CloseFds
  <2>2. \A t \in Thread \ {LogThread} : Free(t)
    BY <1>14, <2>1, Threads DEF CloseFds
  <2> QED
    BY <1>0, <1>14, <2>1, <2>2 DEF CloseFds
<1>15. CASE MainReturns
  BY <1>0, <1>15 DEF MainReturns
<1>16. CASE DestroyServer
  BY <1>0, <1>16 DEF DestroyServer
<1>17. CASE \E events \in SUBSET {"signal", "accept"} : MainWait(events)
  BY <1>0, <1>17 DEF MainWait
<1> QED
  BY <1>1, <1>2, <1>3, <1>4, <1>5, <1>6, <1>7, <1>8, <1>9, <1>10, <1>11, <1>12, <1>13, <1>14, <1>15, <1>16, <1>17, Zenon DEF Main

\* Every signal, and every step of a handler, keeps the invariant.
LEMMA SignalNext ==
  ASSUME Inv, NEW t \in Thread, Signal(t) \/ SignalHandler(t) PROVE Inv'
<1>0. TypeOK'
  BY OthersTyped DEF Inv
<1>1. UNCHANGED <<exiting, cursor, threads, heartbeat, pool>>
  BY DEF Signal, SignalHandler, SignalTest, SignalWrite
<1>2. main' = main \/ (main = "wait" /\ main' = "loop")
  BY DEF Signal, SignalHandler, SignalTest, SignalWrite, HandlerReturns
<1>3. MainInv' /\ PoolInv' /\ HeartbeatInv' /\ LockInv' /\ IoInv' /\ HeartbeatNotified'
  BY <1>1, <1>2
  DEF Inv, MainInv, PoolInv, HeartbeatInv, LockInv, IoInv, HeartbeatNotified, threads,
      heartbeat, AfterReturn, AfterJoin
<1>4. /\ pool # "none"
      /\ hb \in {"none", "done"} => t # HeartbeatThread
      /\ \A l \in Loop : io[l] \in {"none", "exit", "joined"} => t # IoThread(l)
  <2>1. CASE Signal(t)
    BY <2>1, Threads DEF Signal, Alive, Inv, PoolInv
  <2>2. CASE SignalHandler(t)
    BY <2>2 DEF SignalHandler, SignalTest, SignalWrite, Inv, HandlerInv, Free
  <2> QED
    BY <2>1, <2>2
<1>5. \A u \in Thread : u # t => handler'[u] = handler[u]
  BY DEF Signal, SignalHandler, SignalTest, SignalWrite, HandlerReturns, Inv, TypeOK
<1>6. HandlerInv'
  BY <1>1, <1>4, <1>5, Threads DEF Inv, HandlerInv, Free, threads, heartbeat
<1>7. HandlerWritesToEventfd'
  <2>1. \/ eventfd' = eventfd
        \/ eventfd = "open" /\ eventfd' = "written"
    BY DEF Signal, SignalHandler, SignalTest, SignalWrite, Written
  <2>2. handler'[t] = "write" => eventfd \in {"open", "written", "closed"}
    BY DEF Signal, SignalHandler, SignalTest, SignalWrite, HandlerReturns, Inv, TypeOK
  <2>3. eventfd = "closed" => t \in {MainThread, LogThread} /\ main = "unsetFd"
    <3> SUFFICES ASSUME eventfd = "closed"
                 PROVE  t \in {MainThread, LogThread} /\ main = "unsetFd"
      OBVIOUS
    <3>1. main = "unsetFd" /\ pool = "shut"
      BY DEF Inv, FdInv, PoolInv
    <3>2. hb = "done" /\ \A l \in Loop : io[l] = "joined"
      BY <3>1 DEF Inv, HeartbeatInv, IoInv
    <3> QED
      BY <1>4, <3>1, <3>2, Threads
  <2>4. main = "unsetFd" => main' = "unsetFd"
    BY <1>2
  <2> QED
    BY <1>5, <2>1, <2>2, <2>3, <2>4 DEF Inv, HandlerWritesToEventfd
<1>8. FdInv'
  BY <1>2 DEF Signal, SignalHandler, SignalTest, SignalWrite, Written, Inv, FdInv
<1> QED
  BY <1>0, <1>3, <1>6, <1>7, <1>8 DEF Inv

\* So does every step of an IO thread ...
LEMMA IoNext ==
  ASSUME Inv, NEW l \in Loop, IoStep(l) \/ Traffic(l) PROVE Inv'
<1>0. TypeOK'
  BY OthersTyped DEF Inv
<1>1. IoUnchanged
  BY DEF IoStep, EnterLoop, CheckLoop, Wakeup, Handle, Traffic
<1>2. /\ io[l] \notin {"none", "exit", "joined"} /\ Free(IoThread(l))
      /\ io'[l] \notin {"none", "joined"}
      /\ \A m \in Loop : m # l => io'[m] = io[m]
  BY DEF IoStep, EnterLoop, CheckLoop, Wakeup, Handle, Traffic, IoAt, CallThen, Inv, TypeOK
<1>3. MainInv' /\ PoolInv' /\ HeartbeatInv' /\ LockInv' /\ HeartbeatNotified'
  BY <1>1
  DEF Inv, MainInv, PoolInv, HeartbeatInv, LockInv, HeartbeatNotified, IoUnchanged, heartbeat
<1>4. IoInv' /\ FdInv'
  BY <1>1, <1>2 DEF Inv, IoInv, FdInv, IoUnchanged, server
<1>5. HandlerInv' /\ HandlerWritesToEventfd'
  BY <1>1, <1>2
  DEF Inv, HandlerInv, HandlerWritesToEventfd, Free, IoUnchanged, server, heartbeat
<1> QED
  BY <1>0, <1>3, <1>4, <1>5 DEF Inv

\* ... and of the heartbeat thread.
LEMMA HeartbeatNext ==
  ASSUME Inv, Heartbeat PROVE Inv'
<1>0. TypeOK'
  BY OthersTyped DEF Inv
<1>1. HbUnchanged /\ Free(HeartbeatThread) /\ hb \notin {"none", "done"} /\ hb' # "none"
  BY
  DEF Heartbeat, HeartbeatCheck, HeartbeatLock, HeartbeatPred, HeartbeatSleep,
      HeartbeatWake, HeartbeatTimeout
<1>2. MainInv' /\ PoolInv' /\ HeartbeatInv' /\ IoInv' /\ FdInv'
  BY <1>1 DEF Inv, MainInv, PoolInv, HeartbeatInv, IoInv, FdInv, HbUnchanged, server, threads
<1>3. HandlerInv' /\ HandlerWritesToEventfd'
  BY <1>1 DEF Inv, HandlerInv, HandlerWritesToEventfd, Free, HbUnchanged, server, threads
<1>4. LockInv'
  BY <1>1
  DEF Heartbeat, HeartbeatCheck, HeartbeatLock, HeartbeatPred, HeartbeatSleep,
      HeartbeatWake, HeartbeatTimeout, Inv, LockInv, HbUnchanged
<1>5. HeartbeatNotified'
  BY <1>1
  DEF Heartbeat, HeartbeatCheck, HeartbeatLock, HeartbeatPred, HeartbeatSleep,
      HeartbeatWake, HeartbeatTimeout, Inv, LockInv, HeartbeatInv, HeartbeatNotified,
      HbUnchanged
<1> QED
  BY <1>0, <1>2, <1>3, <1>4, <1>5 DEF Inv

\* Every step keeps the invariant.
LEMMA NextInv == Inv /\ [Next]_vars => Inv'
<1> SUFFICES ASSUME Inv, [Next]_vars PROVE Inv'
  OBVIOUS
<1>1. CASE Terminated \/ UNCHANGED vars
  <2>1. TypeOK'
    BY <1>1, OthersTyped DEF Inv
  <2>2. UNCHANGED <<main, exiting, cursor, server, threads, heartbeat, pool>>
    BY <1>1 DEF Terminated, vars
  <2> QED
    BY <2>1, <2>2
    DEF Inv, MainInv, PoolInv, HeartbeatInv, LockInv, IoInv, FdInv, HandlerInv, Free,
        HeartbeatNotified, HandlerWritesToEventfd, server, threads, heartbeat
<1> QED
  BY <1>1, MainNext, SignalNext, IoNext, HeartbeatNext DEF Next

-----------------------------------------------------------------------------

\* The inductive invariant holds of every state of the process.
LEMMA Invariance == Spec => []Inv
  BY InitInv, NextInv, PTL DEF Spec

\* Every variable of the life cycle keeps its type.
THEOREM LifecycleTypeCorrect == Spec => []TypeOK
  BY Invariance, PTL DEF Inv

\* Stop shuts the connection pool only when every IO thread and the heartbeat
\* thread have been joined, however many signals come and wherever they find
\* the threads.
THEOREM PoolAlwaysClosedAfterThreads == Spec => []PoolClosedAfterThreads
<1>1. Inv => PoolClosedAfterThreads
  BY DEF Inv, HeartbeatInv, IoInv, PoolClosedAfterThreads
<1> QED
  BY Invariance, <1>1, PTL

\* The heartbeat thread has ended before the pool is destroyed, also on the way
\* out of main() that skips Stop.
THEOREM HeartbeatAlwaysEndsFirst == Spec => []HeartbeatEndsFirst
<1>1. Inv => HeartbeatEndsFirst
  BY DEF Inv, HeartbeatInv, HeartbeatEndsFirst
<1> QED
  BY Invariance, <1>1, PTL

\* The notification of StopHeartbeatCheck is never lost between the predicate of
\* wait_for and the sleep.
THEOREM HeartbeatAlwaysNotified == Spec => []HeartbeatNotified
  BY Invariance, PTL DEF Inv

\* Stop never closes signal_fd_ under a signal handler of an IO thread or of the
\* heartbeat thread that has tested it, for any number of threads and signals; on
\* the main thread only a handler that runs between close and signal_fd_ = -1
\* finds the closed number.
THEOREM HandlerAlwaysWritesToEventfd == Spec => []HandlerWritesToEventfd
  BY Invariance, PTL DEF Inv

================================================================================
