---------------------------- MODULE ServerLifecycle ----------------------------
(***************************************************************************)
(* Starting and stopping the server: main() with Server::Init, Start,      *)
(* MainEventLoop and Stop, the signal handler, the threads of the          *)
(* IOThreadPool, the heartbeat thread, and the destructors of the          *)
(* singletons that run when main() returns.  What the threads do with      *)
(* connections is module Reactor; here an event is handled in one step.    *)
(* A signal may be delivered to any thread, the log thread included.       *)
(*                                                                         *)
(* The singletons are constructed in the order Server, Logger,             *)
(* ConnectionPool (on first use, in Server::Init) and destroyed in the     *)
(* opposite one.  ~ConnectionPool runs Shutdown; ~Server runs Stop and     *)
(* then ~IOThreadPool, which runs IOThreadPool::Stop.  What an IO thread   *)
(* does with a pool or a Logger that is destroyed is undefined: the model  *)
(* stops there.                                                            *)
(***************************************************************************)
EXTENDS Integers

CONSTANTS
    NumLoops,       \* the IO threads: loops_.size()
    MaxSignals      \* a bound on the signals

ASSUME LifecycleAssumption ==
    NumLoops \in Nat \ {0} /\ MaxSignals \in Nat

Loop == 0 .. NumLoops - 1

MainThread == <<"main", 0>>
HeartbeatThread == <<"heartbeat", 0>>
LogThread == <<"log", 0>>
IoThread(l) == <<"io", l>>
Thread == {MainThread, HeartbeatThread, LogThread} \cup {IoThread(l) : l \in Loop}

VARIABLES
    main,           \* where main() is
    exiting,        \* main() has returned: destructors are running
    cursor,         \* the index of its loop over loops_ or threads_
    batch,          \* the events of its epoll_wait not yet handled
    running_, stop_requested_,  \* of Server
    eventfd,        \* signal_fd_; "unset" when it is -1 again
    handler,        \* where each thread is in SignalHandler
    signals,        \* the signals so far
    io,             \* where each IO thread is
    loopRunning,    \* EventLoop::running_
    wakeup,         \* is wakeup_fd_ readable?  Nothing ever reads it.
    heartbeat_running_, hb, heartbeat_mutex_,   \* the heartbeat thread
    notified,       \* has heartbeat_cv_ been notified since hb waits on it?
    pool            \* the connection pool

server == <<running_, stop_requested_, eventfd, handler, signals, batch>>
threads == <<io, loopRunning, wakeup>>
heartbeat == <<heartbeat_running_, hb, heartbeat_mutex_, notified>>
vars == <<main, exiting, cursor, server, threads, heartbeat, pool>>

\* Every variable has its type.
TypeOK ==
    /\ main \in {"init", "pool", "start", "spawn", "loop", "wait", "events", "stop",
                 "ioStop", "ioJoin", "hbStop", "hbNotify", "hbJoin", "poolShut",
                 "closeFds", "unsetFd", "return", "dtorServer", "exited", "aborted"}
    /\ exiting \in BOOLEAN /\ cursor \in 0 .. NumLoops
    /\ batch \subseteq {"signal", "accept"}
    /\ running_ \in BOOLEAN /\ stop_requested_ \in BOOLEAN
    /\ eventfd \in {"none", "open", "written", "closed", "unset"}
    /\ handler \in [Thread -> {"none", "test", "write"}] /\ signals \in 0 .. MaxSignals
    /\ io \in [Loop -> {"none", "started", "check", "wait", "handle", "exit",
                        "joined", "undefined"}]
    /\ loopRunning \in [Loop -> BOOLEAN] /\ wakeup \in [Loop -> BOOLEAN]
    /\ heartbeat_running_ \in BOOLEAN
    /\ hb \in {"none", "check", "lock", "pred", "sleep", "waiting", "recheck",
               "scan", "done"}
    /\ heartbeat_mutex_ \in {"free", "hb"} /\ notified \in BOOLEAN
    /\ pool \in {"none", "running", "shut", "destroyed"}

Init ==
    /\ main = "init" /\ exiting = FALSE /\ cursor = 0 /\ batch = {}
    /\ running_ = FALSE /\ stop_requested_ = FALSE
    /\ eventfd = "none" /\ handler = [t \in Thread |-> "none"] /\ signals = 0
    /\ io = [l \in Loop |-> "none"]
    /\ loopRunning = [l \in Loop |-> FALSE] /\ wakeup = [l \in Loop |-> FALSE]
    /\ heartbeat_running_ = FALSE /\ hb = "none"
    /\ heartbeat_mutex_ = "free" /\ notified = FALSE
    /\ pool = "none"

-----------------------------------------------------------------------------
(* SignalHandler suspends what the thread it runs on does.                 *)

\* No thread has used what is destroyed.
Defined == \A l \in Loop : io[l] # "undefined"

Free(t) == handler[t] = "none"
MainAt(pc) == Defined /\ main = pc /\ Free(MainThread)

\* The threads there are.  ~Logger ends the log thread after ~ConnectionPool.
Alive(t) ==
    \/ t = MainThread
    \/ t = HeartbeatThread /\ hb \notin {"none", "done"}
    \/ t = LogThread /\ pool # "destroyed"
    \/ \E l \in Loop : t = IoThread(l) /\ io[l] \notin {"none", "exit", "joined"}

\* A signal is delivered: stop_requested_ is set.  Before Init installs the
\* handler it would end the process.
Signal(t) ==
    /\ main \notin {"init", "pool", "exited", "aborted"} /\ signals < MaxSignals
    /\ Defined /\ Alive(t) /\ Free(t)
    /\ stop_requested_' = TRUE
    /\ handler' = [handler EXCEPT ![t] = "test"] /\ signals' = signals + 1
    /\ UNCHANGED <<main, exiting, cursor, batch, running_, eventfd, threads,
                   heartbeat, pool>>

\* The handler returns.  An epoll_wait that main was blocked in returns 0 events;
\* one it had yet to call is not interrupted.
HandlerReturns(t) ==
    /\ handler' = [handler EXCEPT ![t] = "none"]
    /\ main' \in IF t = MainThread /\ main = "wait" THEN {"wait", "loop"} ELSE {main}

\* The test of signal_fd_ for -1 ...
SignalTest(t) ==
    /\ handler[t] = "test"
    /\ \/ eventfd \in {"none", "unset"} /\ HandlerReturns(t)
       \/ /\ eventfd \in {"open", "written", "closed"}
          /\ handler' = [handler EXCEPT ![t] = "write"] /\ UNCHANGED main
    /\ UNCHANGED <<exiting, cursor, batch, running_, stop_requested_, eventfd,
                   signals, threads, heartbeat, pool>>

\* Mutant: nothing is written.
WrittenNothing == eventfd

Written == IF eventfd = "open" THEN "written" ELSE eventfd

\* ... and the write.
SignalWrite(t) ==
    /\ handler[t] = "write" /\ HandlerReturns(t)
    /\ eventfd' = Written
    /\ UNCHANGED <<exiting, cursor, batch, running_, stop_requested_, signals,
                   threads, heartbeat, pool>>

SignalHandler(t) == Defined /\ (SignalTest(t) \/ SignalWrite(t))

-----------------------------------------------------------------------------
(* Server::Init and Start *)

\* Create, Bind and Listen of the listening socket: any of their calls may fail
\* and the address may be invalid.  Nothing catches the exception.
AfterListen == {"pool", "aborted"}

\* Init up to the IOThreadPool.  The epoll_create1 of a loop may fail like this,
\* too.
InitListen ==
    /\ MainAt("init") /\ main' \in AfterListen
    /\ UNCHANGED <<exiting, cursor, server, threads, heartbeat, pool>>

StartHeartbeatCheck == heartbeat_running_' = TRUE /\ hb' = "check"

\* The rest of Init, with ConnectionPool::Init and StartHeartbeatCheck.  Without
\* an eventfd the server goes on.
InitPool ==
    /\ MainAt("pool") /\ main' = "start"
    /\ pool' = "running"
    /\ StartHeartbeatCheck
    /\ eventfd' \in {"open", "none"}
    /\ UNCHANGED <<exiting, cursor, batch, running_, stop_requested_, handler,
                   signals, threads, heartbeat_mutex_, notified>>

ServerStart ==
    /\ MainAt("start") /\ main' = "spawn"
    /\ running_' = TRUE
    /\ UNCHANGED <<exiting, cursor, batch, stop_requested_, eventfd, handler,
                   signals, threads, heartbeat, pool>>

\* IOThreadPool::Start creates one thread after the other.
SpawnIoThread ==
    /\ MainAt("spawn")
    /\ \/ /\ cursor < NumLoops
          /\ io' = [io EXCEPT ![cursor] = "started"]
          /\ cursor' = cursor + 1 /\ UNCHANGED main
       \/ /\ cursor = NumLoops
          /\ main' = "loop" /\ cursor' = 0 /\ UNCHANGED io
    /\ UNCHANGED <<exiting, server, loopRunning, wakeup, heartbeat, pool>>

-----------------------------------------------------------------------------
(* Server::MainEventLoop *)

MainCheck ==
    /\ MainAt("loop")
    /\ main' = IF running_ /\ ~stop_requested_ THEN "wait" ELSE "stop"
    /\ UNCHANGED <<exiting, cursor, server, threads, heartbeat, pool>>

\* epoll_wait reports a readable eventfd, and new connections.
MainWait(events) ==
    /\ MainAt("wait") /\ main' = "events"
    /\ events # {} /\ ("signal" \in events <=> eventfd = "written")
    /\ batch' = events
    /\ UNCHANGED <<exiting, cursor, running_, stop_requested_, eventfd, handler,
                   signals, threads, heartbeat, pool>>

\* The events in the order of the batch: HandleAccept, or the eventfd, after
\* which the rest is skipped.
MainEvents ==
    /\ MainAt("events")
    /\ \/ /\ "accept" \in batch /\ batch' = batch \ {"accept"}
          /\ UNCHANGED <<main, running_, eventfd>>
       \/ /\ "signal" \in batch /\ batch' = {}
          /\ eventfd' = "open" /\ running_' = FALSE
          /\ main' = "loop"
       \/ /\ batch = {} /\ main' = "loop"
          /\ UNCHANGED <<batch, running_, eventfd>>
    /\ UNCHANGED <<exiting, cursor, stop_requested_, handler, signals, threads,
                   heartbeat, pool>>

-----------------------------------------------------------------------------
(* Server::Stop and the destructors, which share IOThreadPool::Stop and    *)
(* ConnectionPool::StopHeartbeatCheck.                                     *)

\* Mutants: Stop goes on to the pool, or to the descriptors, without stopping
\* the IO threads.
FirstPool == "hbStop"
FirstFds == "closeFds"

First == "ioStop"

\* Stop returns at once if the server does not run (any more).
ServerStop ==
    /\ MainAt("stop")
    /\ main' = IF running_ THEN First ELSE "return"
    /\ running_' = FALSE
    /\ UNCHANGED <<exiting, cursor, batch, stop_requested_, eventfd, handler,
                   signals, threads, heartbeat, pool>>


WriteWakeup == [wakeup EXCEPT ![cursor] = TRUE]

\* IOThreadPool::Stop: EventLoop::Stop of one loop after the other ...
StopLoop ==
    /\ MainAt("ioStop")
    /\ \/ /\ cursor < NumLoops
          /\ loopRunning' = [loopRunning EXCEPT ![cursor] = FALSE]
          /\ wakeup' = WriteWakeup
          /\ cursor' = cursor + 1 /\ UNCHANGED main
       \/ /\ cursor = NumLoops
          /\ main' = "ioJoin" /\ cursor' = 0 /\ UNCHANGED <<loopRunning, wakeup>>
    /\ UNCHANGED <<exiting, server, io, heartbeat, pool>>

\* ... and then join of one thread after the other.
JoinIoThread ==
    /\ MainAt("ioJoin")
    /\ \/ /\ cursor < NumLoops /\ io[cursor] \in {"exit", "joined"}
          /\ io' = [io EXCEPT ![cursor] = "joined"]
          /\ cursor' = cursor + 1 /\ UNCHANGED main
       \/ /\ cursor = NumLoops /\ cursor' = 0
          /\ main' = IF exiting THEN "exited" ELSE "hbStop"
          /\ UNCHANGED io
    /\ UNCHANGED <<exiting, server, loopRunning, wakeup, heartbeat, pool>>

\* Mutant: heartbeat_mutex_ is not locked.
NoLock == TRUE

CanLock == heartbeat_mutex_ = "free"

\* StopHeartbeatCheck: the flag is tested and cleared under the lock ...
StopHeartbeat ==
    /\ MainAt("hbStop") /\ CanLock
    /\ main' = IF heartbeat_running_ THEN "hbNotify" ELSE "poolShut"
    /\ heartbeat_running_' = FALSE
    /\ UNCHANGED <<exiting, cursor, server, threads, hb, heartbeat_mutex_,
                   notified, pool>>

\* Mutant: the thread is not joined.
NoJoin == "poolShut"

AfterNotify == "hbJoin"

\* ... then the thread is notified ...
NotifyHeartbeat ==
    /\ MainAt("hbNotify") /\ main' = AfterNotify
    /\ notified' = (hb = "waiting")
    /\ UNCHANGED <<exiting, cursor, server, threads, heartbeat_running_, hb,
                   heartbeat_mutex_, pool>>

\* ... and joined.
JoinHeartbeat ==
    /\ MainAt("hbJoin") /\ hb = "done"
    /\ main' = "poolShut"
    /\ UNCHANGED <<exiting, cursor, server, threads, heartbeat, pool>>

\* ConnectionPool::Shutdown closes every connection; ~ConnectionPool then
\* destroys the pool (and ~Logger, which is next, the logger).
PoolShutdown ==
    /\ MainAt("poolShut")
    /\ IF exiting THEN pool' = "destroyed" /\ main' = "dtorServer"
                  ELSE pool' = "shut" /\ main' = "closeFds"
    /\ UNCHANGED <<exiting, cursor, server, threads, heartbeat>>

\* The end of Stop: signal_fd_ is closed, and then set to -1.  A handler that
\* runs on the main thread in between still finds the number.
CloseFds ==
    /\ \/ MainAt("closeFds") /\ eventfd = "none" /\ main' = "return" /\ UNCHANGED eventfd
       \/ MainAt("closeFds") /\ eventfd # "none" /\ main' = "unsetFd" /\ eventfd' = "closed"
       \/ MainAt("unsetFd") /\ main' = "return" /\ eventfd' = "unset"
    /\ UNCHANGED <<exiting, cursor, batch, running_, stop_requested_, handler,
                   signals, threads, heartbeat, pool>>

\* main() returns: ~ConnectionPool runs Shutdown.
MainReturns ==
    /\ MainAt("return") /\ main' = "hbStop"
    /\ exiting' = TRUE
    /\ UNCHANGED <<cursor, server, threads, heartbeat, pool>>

\* ~Server: Stop has nothing to do, ~IOThreadPool stops and joins.
DestroyServer ==
    /\ MainAt("dtorServer") /\ main' = "ioStop"
    /\ UNCHANGED <<exiting, cursor, server, threads, heartbeat, pool>>

-----------------------------------------------------------------------------
(* EventLoop::Loop *)

IoAt(l, pc) == Defined /\ io[l] = pc /\ Free(IoThread(l))

\* The thread calls the pool or the Logger, and goes on.
CallThen(l, pc) ==
    io' = [io EXCEPT ![l] = IF pool = "destroyed" THEN "undefined" ELSE pc]

IoUnchanged == UNCHANGED <<main, exiting, cursor, server, wakeup, heartbeat, pool>>

\* Loop starts by setting running_, and logs.
EnterLoop(l) ==
    /\ IoAt(l, "started")
    /\ CallThen(l, "check")
    /\ loopRunning' = [loopRunning EXCEPT ![l] = TRUE]
    /\ IoUnchanged

\* The end of Loop logs, too.
CheckLoop(l) ==
    /\ IoAt(l, "check")
    /\ IF loopRunning[l] THEN io' = [io EXCEPT ![l] = "wait"] ELSE CallThen(l, "exit")
    /\ UNCHANGED loopRunning /\ IoUnchanged

\* epoll_wait returns because of wakeup_fd_ ...
Wakeup(l) ==
    /\ IoAt(l, "wait") /\ wakeup[l]
    /\ io' = [io EXCEPT ![l] = "handle"]
    /\ UNCHANGED loopRunning /\ IoUnchanged

\* ... or because of a connection or a signal.
Traffic(l) ==
    /\ IoAt(l, "wait")
    /\ io' = [io EXCEPT ![l] = "handle"]
    /\ UNCHANGED loopRunning /\ IoUnchanged

\* HandleEvents looks every descriptor up in the connection pool, wakeup_fd_
\* too, for which it then logs that there is no connection.
Handle(l) ==
    /\ IoAt(l, "handle")
    /\ CallThen(l, "check")
    /\ UNCHANGED loopRunning /\ IoUnchanged

IoStep(l) == EnterLoop(l) \/ CheckLoop(l) \/ Wakeup(l) \/ Handle(l)

-----------------------------------------------------------------------------
(* ConnectionPool::HeartbeatCheckLoop *)

HbUnchanged ==
    UNCHANGED <<main, exiting, cursor, server, threads, heartbeat_running_, pool>>

HeartbeatCheck ==
    /\ \/ hb = "check" /\ hb' = IF heartbeat_running_ THEN "lock" ELSE "done"
       \/ hb = "recheck" /\ hb' = IF heartbeat_running_ THEN "scan" ELSE "done"
       \/ hb = "scan" /\ hb' = "check"
    /\ UNCHANGED <<heartbeat_mutex_, notified>> /\ HbUnchanged

\* wait_for takes the lock ...
HeartbeatLock ==
    /\ hb = "lock" /\ heartbeat_mutex_ = "free"
    /\ hb' = "pred" /\ heartbeat_mutex_' = "hb"
    /\ UNCHANGED notified /\ HbUnchanged

\* ... evaluates the predicate ...
HeartbeatPred ==
    /\ hb = "pred"
    /\ IF heartbeat_running_
       THEN hb' = "sleep" /\ UNCHANGED heartbeat_mutex_
       ELSE hb' = "recheck" /\ heartbeat_mutex_' = "free"
    /\ UNCHANGED notified /\ HbUnchanged

\* ... goes to sleep, which gives the lock up ...
HeartbeatSleep ==
    /\ hb = "sleep" /\ hb' = "waiting"
    /\ heartbeat_mutex_' = "free" /\ notified' = FALSE
    /\ HbUnchanged

\* ... until it is notified or the 10 seconds are over.
HeartbeatWake ==
    /\ hb = "waiting" /\ heartbeat_mutex_ = "free" /\ notified
    /\ hb' = "recheck" /\ notified' = FALSE
    /\ UNCHANGED heartbeat_mutex_ /\ HbUnchanged

HeartbeatTimeout ==
    /\ hb = "waiting" /\ heartbeat_mutex_ = "free"
    /\ hb' = "recheck"
    /\ UNCHANGED <<heartbeat_mutex_, notified>> /\ HbUnchanged

Heartbeat ==
    /\ Defined /\ Free(HeartbeatThread)
    /\ \/ HeartbeatCheck \/ HeartbeatLock \/ HeartbeatPred \/ HeartbeatSleep
       \/ HeartbeatWake \/ HeartbeatTimeout

-----------------------------------------------------------------------------

Main ==
    \/ InitListen \/ InitPool \/ ServerStart \/ SpawnIoThread
    \/ MainCheck \/ MainEvents \/ MainWait({"signal"})
    \/ ServerStop \/ StopLoop \/ JoinIoThread
    \/ StopHeartbeat \/ NotifyHeartbeat \/ JoinHeartbeat
    \/ PoolShutdown \/ CloseFds \/ MainReturns \/ DestroyServer

Terminated == (main \in {"exited", "aborted"} \/ ~Defined) /\ UNCHANGED vars

Next ==
    \/ Main
    \/ \E events \in SUBSET {"signal", "accept"} : MainWait(events)
    \/ \E t \in Thread : Signal(t) \/ SignalHandler(t)
    \/ \E l \in Loop : IoStep(l) \/ Traffic(l)
    \/ Heartbeat
    \/ Terminated

Spec == Init /\ [][Next]_vars

\* Every thread runs, and so does a signal handler.  No connection and no
\* signal has to come.  StopHeartbeat gets heartbeat_mutex_, which the
\* heartbeat thread leaves free for 10 seconds in every round.
FairSpec ==
    /\ Spec
    /\ WF_vars(Main) /\ SF_vars(StopHeartbeat)
    /\ \A t \in Thread : WF_vars(SignalHandler(t))
    /\ WF_vars(Heartbeat)
    /\ \A l \in Loop : WF_vars(IoStep(l))

-----------------------------------------------------------------------------

\* Stop closes the connections of the pool only after every thread that uses
\* them, the IO threads and the heartbeat thread, has ended.
PoolClosedAfterThreads ==
    pool = "shut" => hb = "done" /\ \A l \in Loop : io[l] = "joined"

\* The heartbeat thread never outlives the pool it works on.
HeartbeatEndsFirst == pool = "destroyed" => hb = "done"

\* StopHeartbeatCheck never has to sit out the rest of the 10 seconds.
HeartbeatNotified == main = "hbJoin" /\ hb = "waiting" => notified

\* signal_fd_ is not closed under a handler of an IO thread or of the heartbeat
\* thread that has tested it and would then write to whatever gets the number
\* next: Stop has joined them before.  A handler on the main thread writes to the
\* closed number only if it interrupts Stop between close and signal_fd_ = -1.
\* Nothing keeps the log thread from it.
HandlerWritesToEventfd ==
    \A t \in Thread \ {LogThread} :
        handler[t] = "write" => \/ eventfd \in {"open", "written"}
                                \/ t = MainThread /\ main = "unsetFd"

\* A signal ends the main loop, wherever in it the main thread is and whichever
\* thread gets the signal, if Init got its eventfd.
SignalEndsMainLoop ==
    stop_requested_ /\ eventfd # "none" ~> main \notin {"start", "spawn", "loop", "wait", "events"}

\* Every IO thread has set running_ in Loop.
AllLoopsEntered == \A l \in Loop : io[l] \notin {"none", "started"}


\* "The IO thread pool stops gracefully" before "the connection pool is
\* closed": no IO thread handles an event with a pool that is destroyed.
NoUseAfterDestruction ==
    \A l \in Loop : io[l] = "handle" => pool # "destroyed"

================================================================================
