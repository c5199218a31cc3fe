--------------------------- MODULE ThreadPoolProofs ---------------------------
(***************************************************************************)
(* Proofs about ThreadPool, for any number of workers, tasks and callers   *)
(* of Shutdown.                                                            *)
(*                                                                         *)
(* Shutdown drains the queue: ShutdownDrains follows from three facts that *)
(* every step keeps: a worker returns only when nothing can be queued any  *)
(* more (DoneInv), Shutdown ends after all of them (JoinedInv), and until  *)
(* then an accepted task is queued, being run or finished (AccountedInv).  *)
(*                                                                         *)
(* Tasks are taken once and in order because none is pushed twice          *)
(* (OnceInv), the queue is a rest of what was accepted and the tasks       *)
(* before it have been taken (TakenInv).                                   *)
(*                                                                         *)
(* WorkersSuffice is kept by every step as it stands; what the proof adds  *)
(* is that the sets it counts are finite.                                  *)
(***************************************************************************)
EXTENDS ThreadPool, SequenceTheorems, FiniteSetTheorems, TLAPS

DoneInv ==
    \A w \in Worker : worker[w] = "done" => shutdown_requested_ /\ tasks_ = <<>>

JoinedInv ==
    \A c \in Closer, w \in Worker : closer[c] = "joined" => worker[w] = "done"

CurrentInv == \A w \in Worker : worker[w] # "runs" => current[w] = {}

AccountedInv == ToSet(accepted) = ToSet(tasks_) \cup Running \cup finished

Inv == TypeOK /\ DoneInv /\ JoinedInv /\ CurrentInv /\ AccountedInv

-----------------------------------------------------------------------------
(* What a sequence holds. *)

\* The empty queue holds no task.
LEMMA ToSetEmpty == ToSet(<<>>) = {}
  BY DEF ToSet

\* Pushing a task adds it to the tasks of the queue.
LEMMA ToSetAppend ==
  ASSUME NEW S, NEW s \in Seq(S), NEW x \in S
  PROVE  ToSet(Append(s, x)) = ToSet(s) \cup {x}
<1>1. /\ DOMAIN s = 1 .. Len(s) /\ Len(s) \in Nat
      /\ DOMAIN Append(s, x) = 1 .. Len(s) + 1
      /\ \A i \in 1 .. Len(s) : Append(s, x)[i] = s[i]
      /\ Append(s, x)[Len(s) + 1] = x
  BY AppendProperties, LenProperties
<1> QED
  BY <1>1 DEF ToSet

\* Popping the front leaves the tasks behind it.
LEMMA ToSetHeadTail ==
  ASSUME NEW S, NEW s \in Seq(S), s # <<>>
  PROVE  ToSet(s) = {Head(s)} \cup ToSet(Tail(s)) /\ Head(s) \in S
<1>1. /\ DOMAIN s = 1 .. Len(s) /\ Len(s) \in Nat \ {0}
      /\ Head(s) = s[1] /\ Head(s) \in S
      /\ DOMAIN Tail(s) = 1 .. Len(s) - 1
      /\ \A i \in 1 .. Len(s) - 1 : Tail(s)[i] = s[i + 1]
  BY HeadTailProperties, LenProperties, EmptySeq
<1>2. ASSUME NEW x \in ToSet(s) PROVE x \in {Head(s)} \cup ToSet(Tail(s))
  <2>1. PICK i \in 1 .. Len(s) : x = s[i]
    BY <1>1 DEF ToSet
  <2>2. CASE i = 1
    BY <1>1, <2>1, <2>2
  <2>3. CASE i # 1
    <3>1. i - 1 \in 1 .. Len(s) - 1 /\ Tail(s)[i - 1] = x
      BY <1>1, <2>1, <2>3
    <3> QED
      BY <1>1, <3>1 DEF ToSet
  <2> QED
    BY <2>2, <2>3
<1>3. ASSUME NEW x \in {Head(s)} \cup ToSet(Tail(s)) PROVE x \in ToSet(s)
  BY <1>1 DEF ToSet
<1> QED
  BY <1>1, <1>2, <1>3

-----------------------------------------------------------------------------

\* The invariant holds of a new pool.
LEMMA InitInv == Init => Inv
<1> SUFFICES ASSUME Init PROVE Inv
  OBVIOUS
<1>1. TypeOK /\ DoneInv /\ JoinedInv /\ CurrentInv
  BY EmptySeq DEF Init, TypeOK, DoneInv, JoinedInv, CurrentInv
<1>2. Running = {} /\ ToSet(accepted) = {} /\ ToSet(tasks_) = {} /\ finished = {}
  BY ToSetEmpty DEF Init, Running
<1> QED
  BY <1>1, <1>2 DEF Inv, AccountedInv

\* Steps that change neither a sequence nor who has which task.
LEMMA Frame ==
  ASSUME Inv, UNCHANGED <<tasks_, current, accepted, finished>>,
         TypeOK', DoneInv', JoinedInv', CurrentInv'
  PROVE  Inv'
  BY DEF Inv, AccountedInv, Running

\* Enqueue keeps the invariant: it is refused after a shutdown.
LEMMA PushInv == ASSUME Inv, NEW t \in Task, Push(t) PROVE Inv'
<1> USE DEF Push
<1>1. CASE shutdown_requested_
  <2>1. TypeOK' /\ DoneInv' /\ JoinedInv' /\ CurrentInv'
    BY <1>1 DEF Inv, TypeOK, DoneInv, JoinedInv, CurrentInv
  <2> QED
    BY <1>1, <2>1, Frame
<1>2. CASE ~shutdown_requested_
  <2>0. /\ tasks_ \in Seq(Task) /\ accepted \in Seq(Task)
        /\ tasks_' = Append(tasks_, t) /\ accepted' = Append(accepted, t)
    BY <1>2 DEF Inv, TypeOK
  <2>1. TypeOK'
    <3>1. tasks_' \in Seq(Task) /\ accepted' \in Seq(Task)
      BY <2>0, AppendProperties
    <3> QED
      BY <1>2, <3>1 DEF Inv, TypeOK
  <2>2. DoneInv' /\ JoinedInv' /\ CurrentInv'
    BY <1>2 DEF Inv, DoneInv, JoinedInv, CurrentInv
  <2>3. /\ ToSet(tasks_') = ToSet(tasks_) \cup {t}
        /\ ToSet(accepted') = ToSet(accepted) \cup {t}
    BY <2>0, ToSetAppend
  <2>4. AccountedInv'
    BY <1>2, <2>3 DEF Inv, AccountedInv, Running
  <2> QED
    BY <2>1, <2>2, <2>4 DEF Inv
<1> QED
  BY <1>1, <1>2

\* Waking workers, whoever does it, keeps the invariant.
LEMMA NotifyInv ==
  ASSUME Inv,
         \/ \E t \in Task : NotifyOne(t)
         \/ \E w \in Worker : WakeSpuriously(w)
         \/ \E c \in Closer : NotifyAll(c)
  PROVE  Inv'
<1>1. CASE \E t \in Task : NotifyOne(t)
  <2>1. TypeOK' /\ DoneInv' /\ JoinedInv' /\ CurrentInv'
    BY <1>1 DEF NotifyOne, Inv, TypeOK, DoneInv, JoinedInv, CurrentInv
  <2> QED
    BY <1>1, <2>1, Frame DEF NotifyOne
<1>2. CASE \E w \in Worker : WakeSpuriously(w)
  <2>1. TypeOK' /\ DoneInv' /\ JoinedInv' /\ CurrentInv'
    BY <1>2 DEF WakeSpuriously, Inv, TypeOK, DoneInv, JoinedInv, CurrentInv
  <2> QED
    BY <1>2, <2>1, Frame DEF WakeSpuriously
<1>3. CASE \E c \in Closer : NotifyAll(c)
  <2>1. TypeOK' /\ DoneInv' /\ JoinedInv' /\ CurrentInv'
    BY <1>3 DEF NotifyAll, Inv, TypeOK, DoneInv, JoinedInv, CurrentInv
  <2> QED
    BY <1>3, <2>1, Frame DEF NotifyAll
<1> QED
  BY <1>1, <1>2, <1>3

\* A worker that takes a task, waits or returns keeps the invariant.
LEMMA TakeInv == ASSUME Inv, NEW w \in Worker, Take(w) PROVE Inv'
<1> USE DEF Take
<1>1. CASE tasks_ = <<>>
  <2>1. TypeOK' /\ DoneInv' /\ JoinedInv' /\ CurrentInv'
    BY <1>1 DEF Inv, TypeOK, DoneInv, JoinedInv, CurrentInv
  <2> QED
    BY <1>1, <2>1, Frame
<1>2. CASE tasks_ # <<>>
  <2>0. tasks_ \in Seq(Task) /\ tasks_' = Tail(tasks_)
    BY <1>2 DEF Inv, TypeOK
  <2>1. /\ ToSet(tasks_) = {Head(tasks_)} \cup ToSet(tasks_')
        /\ Head(tasks_) \in Task /\ tasks_' \in Seq(Task)
    BY <1>2, <2>0, ToSetHeadTail, HeadTailProperties
  <2> DEFINE h == Head(tasks_)
  <2>a. /\ current' = [current EXCEPT ![w] = {h}] /\ h \in Task
        /\ worker' = [worker EXCEPT ![w] = "runs"]
        /\ UNCHANGED <<shutdown_requested_, task, closer, accepted, finished>>
    BY <1>2, <2>1
  <2> HIDE DEF h
  <2>2. TypeOK'
    BY <2>1, <2>a DEF Inv, TypeOK
  <2>3. DoneInv' /\ JoinedInv' /\ CurrentInv'
    BY <1>2 DEF Inv, TypeOK, DoneInv, JoinedInv, CurrentInv
  <2>4. Running' = Running \cup {h}
    <3>1. current[w] = {} /\ current \in [Worker -> SUBSET Task]
      BY DEF Inv, TypeOK, CurrentInv
    <3> QED
      BY <2>a, <3>1 DEF Running
  <2>5. AccountedInv'
    BY <2>1, <2>4, <2>a DEF Inv, AccountedInv, h
  <2> QED
    BY <2>2, <2>3, <2>5 DEF Inv
<1> QED
  BY <1>1, <1>2

\* A worker that finishes its task keeps the invariant.
LEMMA FinishInv == ASSUME Inv, NEW w \in Worker, Finish(w) PROVE Inv'
<1> USE DEF Finish
<1>1. TypeOK' /\ DoneInv' /\ JoinedInv' /\ CurrentInv'
  BY DEF Inv, TypeOK, DoneInv, JoinedInv, CurrentInv
<1>2. Running \cup finished = Running' \cup finished'
  BY DEF Inv, TypeOK, Running
<1> QED
  BY <1>1, <1>2 DEF Inv, AccountedInv

\* The steps of Shutdown keep the invariant.
LEMMA CloserInv ==
  ASSUME Inv, NEW c \in Closer, RequestShutdown(c) \/ JoinWorkers(c)
  PROVE  Inv'
<1>1. TypeOK' /\ DoneInv' /\ JoinedInv' /\ CurrentInv'
  BY DEF RequestShutdown, JoinWorkers, Inv, TypeOK, DoneInv, JoinedInv, CurrentInv
<1> QED
  BY <1>1, Frame DEF RequestShutdown, JoinWorkers

\* Every step keeps the invariant.
LEMMA NextInv == Inv /\ [Next]_vars => Inv'
<1> SUFFICES ASSUME Inv, [Next]_vars PROVE Inv'
  OBVIOUS
<1>1. CASE UNCHANGED vars
  BY <1>1
  DEF vars, Inv, TypeOK, DoneInv, JoinedInv, CurrentInv, AccountedInv, Running
<1>2. CASE Next
  BY <1>2, PushInv, NotifyInv, TakeInv, FinishInv, CloserInv
  DEF Next, WorkerStep, CloserStep
<1> QED
  BY <1>1, <1>2

\* When all workers have been joined the invariant leaves no task behind.
LEMMA InvImplies == Inv => ShutdownDrains
<1> SUFFICES ASSUME Inv, NEW c \in Closer, closer[c] = "joined"
             PROVE  tasks_ = <<>> /\ finished = ToSet(accepted)
  BY DEF ShutdownDrains
<1>1. tasks_ = <<>>
  BY ThreadPoolAssumption DEF Inv, DoneInv, JoinedInv
<1>2. Running = {}
  BY DEF Inv, JoinedInv, CurrentInv, Running
<1> QED
  BY <1>1, <1>2, ToSetEmpty DEF Inv, AccountedInv

-----------------------------------------------------------------------------

\* Every variable of the pool keeps its type.
THEOREM ThreadPoolTypeCorrect == Spec => []TypeOK
  BY InitInv, NextInv, PTL DEF Spec, Inv

\* When Shutdown has joined the workers, every task that Enqueue accepted has
\* run, for any number of threads and tasks.
THEOREM ShutdownAlwaysDrains == Spec => []ShutdownDrains
  BY InitInv, NextInv, InvImplies, PTL DEF Spec

-----------------------------------------------------------------------------
(* The order of the tasks. *)

\* A task is pushed once, and one that is not announced yet was pushed.
OnceInv ==
    /\ \A i \in 1 .. Len(accepted) : task[accepted[i]] # "new"
    /\ \A i, j \in 1 .. Len(accepted) : accepted[i] = accepted[j] => i = j
    /\ \A t \in Task : task[t] = "pushed" => \E i \in 1 .. Len(accepted) : accepted[i] = t

\* The first n tasks that were accepted.
First(n) == {accepted[i] : i \in 1 .. n}

\* n tasks have been taken and the others are queued.
Taken(n) ==
    /\ Len(tasks_) = Len(accepted) - n
    /\ \A i \in 1 .. Len(tasks_) : tasks_[i] = accepted[n + i]
    /\ Running \cup finished = First(n)

TakenInv == \E n \in 0 .. Len(accepted) : Taken(n)

\* No task is in the hands of two workers, or run again.
ApartInv ==
    /\ \A v, w \in Worker : v # w => current[v] \cap current[w] = {}
    /\ Running \cap finished = {}

OrderInv == OnceInv /\ TakenInv /\ ApartInv

\* The queue is what TakenOnceInOrder says it is.
LEMMA OrderImplies == Inv /\ OrderInv => TakenOnceInOrder
<1> SUFFICES ASSUME Inv, OrderInv PROVE TakenOnceInOrder
  OBVIOUS
<1>1. PICK n \in 0 .. Len(accepted) : Taken(n)
  BY DEF OrderInv, TakenInv
<1>2. tasks_ \in Seq(Task) /\ accepted \in Seq(Task) /\ Len(accepted) \in Nat
  BY LenProperties DEF Inv, TypeOK
<1>3. tasks_ = SubSeq(accepted, n + 1, Len(accepted))
  <2> DEFINE rest == SubSeq(accepted, n + 1, Len(accepted))
  <2>1. \A i \in n + 1 .. Len(accepted) : accepted[i] \in Task
    BY <1>2, ElementOfSeq
  <2>2. /\ rest \in Seq(Task) /\ Len(rest) = Len(accepted) - n
        /\ \A i \in 1 .. Len(accepted) - n : rest[i] = accepted[n + i]
    BY <1>2, <2>1, SubSeqProperties
  <2> HIDE DEF rest
  <2>3. Len(tasks_) = Len(rest) /\ \A i \in 1 .. Len(tasks_) : tasks_[i] = rest[i]
    BY <1>1, <2>2 DEF Taken
  <2>4. tasks_ = rest
    BY <1>2, <2>2, <2>3, SeqEqual
  <2> QED
    BY <2>4 DEF rest
<1> QED
  BY <1>1, <1>3 DEF TakenOnceInOrder, Taken, First, OrderInv, ApartInv

\* A new pool has accepted nothing.
LEMMA InitOrder == Init => OrderInv
<1> SUFFICES ASSUME Init PROVE OrderInv
  OBVIOUS
<1>1. /\ Len(tasks_) = 0 /\ Len(accepted) = 0 /\ finished = {} /\ Running = {}
      /\ \A t \in Task : task[t] = "new"
      /\ \A w \in Worker : current[w] = {}
  BY EmptySeq DEF Init, Running
<1>2. Taken(0)
  BY <1>1 DEF Taken, First
<1>3. OnceInv /\ ApartInv
  BY <1>1 DEF OnceInv, ApartInv
<1> QED
  BY <1>1, <1>2, <1>3 DEF OrderInv, TakenInv

\* Steps that neither push, take nor finish a task.
LEMMA OrderFrame ==
  ASSUME OrderInv, UNCHANGED <<tasks_, current, accepted, finished>>,
         \A t \in Task : task'[t] = "pushed" => task[t] = "pushed",
         \A t \in Task : task[t] # "new" => task'[t] # "new",
         accepted \in Seq(Task)
  PROVE  OrderInv'
<1>1. Running' = Running
  BY DEF Running
<1>2. ASSUME NEW n \in 0 .. Len(accepted), Taken(n) PROVE Taken(n)'
  <2>1. First(n)' = First(n)
    BY DEF First
  <2> QED
    BY <1>1, <1>2, <2>1 DEF Taken
<1>3. TakenInv' /\ ApartInv'
  BY <1>1, <1>2 DEF OrderInv, TakenInv, ApartInv
<1>4. OnceInv'
  BY ElementOfSeq DEF OrderInv, OnceInv
<1> QED
  BY <1>3, <1>4 DEF OrderInv

\* Enqueue puts a task that was not there before at the end.
LEMMA PushOrder == ASSUME Inv, OrderInv, NEW t \in Task, Push(t) PROVE OrderInv'
<1>0. /\ tasks_ \in Seq(Task) /\ accepted \in Seq(Task)
      /\ Len(tasks_) \in Nat /\ Len(accepted) \in Nat
      /\ task \in [Task -> {"new", "pushed", "accepted", "rejected"}]
      /\ \A i \in 1 .. Len(accepted) : accepted[i] \in Task
  BY LenProperties, ElementOfSeq DEF Inv, TypeOK
<1>1. CASE shutdown_requested_
  BY <1>0, <1>1, OrderFrame DEF Push
<1>2. CASE ~shutdown_requested_
  <2>1. /\ task[t] = "new" /\ task' = [task EXCEPT ![t] = "pushed"]
        /\ tasks_' = Append(tasks_, t) /\ accepted' = Append(accepted, t)
        /\ UNCHANGED <<current, finished>>
    BY <1>2 DEF Push
  <2>2. /\ Len(tasks_') = Len(tasks_) + 1 /\ tasks_'[Len(tasks_) + 1] = t
        /\ \A i \in 1 .. Len(tasks_) : tasks_'[i] = tasks_[i]
    BY <1>0, <2>1, AppendProperties
  <2>3. /\ Len(accepted') = Len(accepted) + 1 /\ accepted'[Len(accepted) + 1] = t
        /\ \A i \in 1 .. Len(accepted) : accepted'[i] = accepted[i]
    BY <1>0, <2>1, AppendProperties
  <2>4. OnceInv'
    <3> DEFINE m == Len(accepted)
    <3>0. /\ m \in Nat /\ Len(accepted') = m + 1 /\ accepted'[m + 1] = t
          /\ \A i \in 1 .. m : accepted'[i] = accepted[i] /\ accepted[i] \in Task
                              /\ task[accepted[i]] # "new"
          /\ \A i \in 1 .. m + 1 : i = m + 1 \/ i \in 1 .. m
      BY <1>0, <2>3 DEF OrderInv, OnceInv
    <3>1. \A i \in 1 .. m : accepted[i] # t
      BY <2>1, <3>0
    <3>2. \A i, j \in 1 .. m : accepted[i] = accepted[j] => i = j
      BY DEF OrderInv, OnceInv
    <3>3. \A s \in Task : task[s] = "pushed" => \E i \in 1 .. m : accepted[i] = s
      BY DEF OrderInv, OnceInv
    <3> HIDE DEF m
    <3>4. \A i \in 1 .. m + 1 : task'[accepted'[i]] # "new"
      BY <1>0, <2>1, <3>0
    <3>5. \A i, j \in 1 .. m + 1 : accepted'[i] = accepted'[j] => i = j
      BY <3>0, <3>1, <3>2
    <3>6. \A s \in Task : task'[s] = "pushed" => \E i \in 1 .. m + 1 : accepted'[i] = s
      <4> SUFFICES ASSUME NEW s \in Task, task'[s] = "pushed"
                   PROVE  \E i \in 1 .. m + 1 : accepted'[i] = s
        OBVIOUS
      <4>1. CASE s = t
        BY <3>0, <4>1
      <4>2. CASE s # t
        <5>1. PICK i \in 1 .. m : accepted[i] = s
          BY <1>0, <2>1, <3>3, <4>2
        <5> QED
          BY <3>0, <5>1
      <4> QED
        BY <4>1, <4>2
    <3> QED
      BY <3>0, <3>4, <3>5, <3>6 DEF OnceInv
  <2>5. TakenInv'
    <3>1. PICK n \in 0 .. Len(accepted) : Taken(n)
      BY DEF OrderInv, TakenInv
    <3>2. n \in 0 .. Len(accepted') /\ Len(tasks_') = Len(accepted') - n
      BY <1>0, <2>2, <2>3, <3>1 DEF Taken
    <3>3. \A i \in 1 .. Len(tasks_') : tasks_'[i] = accepted'[n + i]
      <4> DEFINE k == Len(tasks_)  m == Len(accepted)
      <4>1. /\ k \in Nat /\ m \in Nat /\ n \in Nat /\ m = n + k
            /\ Len(tasks_') = k + 1 /\ tasks_'[k + 1] = t
            /\ \A i \in 1 .. k : tasks_'[i] = tasks_[i]
            /\ accepted'[m + 1] = t /\ \A i \in 1 .. m : accepted'[i] = accepted[i]
            /\ \A i \in 1 .. k : tasks_[i] = accepted[n + i]
        BY <1>0, <2>2, <2>3, <3>1 DEF Taken
      <4> HIDE DEF k, m
      <4>2. ASSUME NEW i \in 1 .. k PROVE tasks_'[i] = accepted'[n + i]
        <5>1. n + i \in 1 .. m
          BY <4>1
        <5> QED
          BY <4>1, <5>1
      <4>3. tasks_'[k + 1] = accepted'[n + (k + 1)]
        <5>1. n + (k + 1) = m + 1
          BY <4>1
        <5> QED
          BY <4>1, <5>1
      <4>4. \A i \in 1 .. k + 1 : i \in 1 .. k \/ i = k + 1
        BY <4>1
      <4> QED
        BY <4>1, <4>2, <4>3, <4>4
    <3>4. First(n)' = First(n)
      BY <1>0, <2>3 DEF First
    <3>5. Running' = Running /\ finished' = finished
      BY <2>1 DEF Running
    <3>6. Taken(n)'
      BY <3>1, <3>2, <3>3, <3>4, <3>5 DEF Taken
    <3> QED
      BY <3>2, <3>6 DEF TakenInv
  <2>6. ApartInv'
    BY <2>1 DEF OrderInv, ApartInv, Running
  <2> QED
    BY <2>4, <2>5, <2>6 DEF OrderInv
<1> QED
  BY <1>1, <1>2

\* A worker takes the first task of the queue, which nobody has had before.
LEMMA TakeOrder == ASSUME Inv, OrderInv, NEW w \in Worker, Take(w) PROVE OrderInv'
<1>0. /\ tasks_ \in Seq(Task) /\ accepted \in Seq(Task)
      /\ Len(tasks_) \in Nat /\ Len(accepted) \in Nat
      /\ current \in [Worker -> SUBSET Task] /\ current[w] = {}
  BY LenProperties DEF Inv, TypeOK, CurrentInv, Take
<1>1. CASE tasks_ = <<>>
  BY <1>0, <1>1, OrderFrame DEF Take
<1>2. CASE tasks_ # <<>>
  <2> DEFINE h == Head(tasks_)
  <2>1. /\ tasks_' = Tail(tasks_) /\ current' = [current EXCEPT ![w] = {h}]
        /\ UNCHANGED <<task, accepted, finished>>
    BY <1>2 DEF Take
  <2>2. /\ Len(tasks_) >= 1 /\ h = tasks_[1] /\ Len(tasks_') = Len(tasks_) - 1
        /\ \A i \in 1 .. Len(tasks_) - 1 : tasks_'[i] = tasks_[i + 1]
    BY <1>0, <1>2, <2>1, HeadTailProperties, EmptySeq
  <2> HIDE DEF h
  <2>3. PICK n \in 0 .. Len(accepted) : Taken(n)
    BY DEF OrderInv, TakenInv
  <2>4. n + 1 \in 0 .. Len(accepted) /\ h = accepted[n + 1]
    BY <1>0, <2>2, <2>3 DEF Taken
  <2>5. Running' = Running \cup {h}
    BY <1>0, <2>1 DEF Running
  <2>6. h \notin Running \cup finished
    <3>1. \A i \in 1 .. n : accepted[i] # accepted[n + 1]
      BY <1>0, <2>4 DEF OrderInv, OnceInv
    <3> QED
      BY <2>3, <2>4, <3>1 DEF Taken, First
  <2>7. Taken(n + 1)'
    <3>1. Len(tasks_') = Len(accepted') - (n + 1)
      BY <1>0, <2>1, <2>2, <2>3 DEF Taken
    <3>2. \A i \in 1 .. Len(tasks_') : tasks_'[i] = accepted'[(n + 1) + i]
      BY <1>0, <2>1, <2>2, <2>3 DEF Taken
    <3>3. First(n + 1)' = First(n) \cup {h}
      <4>1. \A i : i \in 1 .. n + 1 <=> i \in 1 .. n \/ i = n + 1
        BY <2>4
      <4>2. First(n + 1)' = {accepted[i] : i \in 1 .. n + 1}
        BY <2>1 DEF First
      <4> QED
        BY <2>4, <4>1, <4>2 DEF First
    <3> QED
      BY <2>1, <2>3, <2>5, <3>1, <3>2, <3>3 DEF Taken
  <2>8. ApartInv'
    <3>1. \A v \in Worker : h \notin current[v]
      BY <2>6 DEF Running
    <3> QED
      BY <1>0, <2>1, <2>5, <2>6, <3>1 DEF OrderInv, ApartInv
  <2>9. OnceInv'
    BY <2>1 DEF OrderInv, OnceInv
  <2> QED
    BY <2>1, <2>4, <2>7, <2>8, <2>9 DEF OrderInv, TakenInv
<1> QED
  BY <1>1, <1>2

\* A finished task moves from its worker to the finished ones.
LEMMA FinishOrder == ASSUME Inv, OrderInv, NEW w \in Worker, Finish(w) PROVE OrderInv'
<1>1. /\ current' = [current EXCEPT ![w] = {}] /\ finished' = finished \cup current[w]
      /\ UNCHANGED <<tasks_, task, accepted>> /\ current \in [Worker -> SUBSET Task]
  BY DEF Finish, Inv, TypeOK
<1>2. Running' \cup finished' = Running \cup finished
  BY <1>1 DEF Running
<1>3. ApartInv'
  BY <1>1 DEF OrderInv, ApartInv, Running
<1>4. OnceInv' /\ TakenInv'
  BY <1>1, <1>2 DEF OrderInv, OnceInv, TakenInv, Taken, First
<1> QED
  BY <1>3, <1>4 DEF OrderInv

\* Every step keeps the order.
LEMMA NextOrder == Inv /\ OrderInv /\ [Next]_vars => OrderInv'
<1> SUFFICES ASSUME Inv, OrderInv, [Next]_vars PROVE OrderInv'
  OBVIOUS
<1>0. /\ accepted \in Seq(Task)
      /\ task \in [Task -> {"new", "pushed", "accepted", "rejected"}]
  BY DEF Inv, TypeOK
<1>1. CASE UNCHANGED vars
  BY <1>0, <1>1, OrderFrame DEF vars
<1>2. ASSUME NEW t \in Task, NotifyOne(t) PROVE OrderInv'
  BY <1>0, <1>2, OrderFrame DEF NotifyOne
<1>3. ASSUME NEW w \in Worker, WakeSpuriously(w) PROVE OrderInv'
  BY <1>0, <1>3, OrderFrame DEF WakeSpuriously
<1>4. ASSUME NEW c \in Closer, RequestShutdown(c) \/ CloserStep(c) PROVE OrderInv'
  BY <1>0, <1>4, OrderFrame DEF RequestShutdown, CloserStep, NotifyAll, JoinWorkers
<1> QED
  BY <1>1, <1>2, <1>3, <1>4, PushOrder, TakeOrder, FinishOrder DEF Next, WorkerStep

\* Tasks leave the queue in the order in which Enqueue put them there, and each
\* is run by one worker and once, for any number of workers and tasks.
THEOREM TasksTakenOnceInOrder == Spec => []TakenOnceInOrder
  BY InitInv, NextInv, InitOrder, NextOrder, OrderImplies, PTL DEF Spec

-----------------------------------------------------------------------------
(* No task waits for a worker that nobody will wake. *)

Ready == {w \in Worker : worker[w] = "ready"}
Pushed == {t \in Task : task[t] = "pushed"}

\* Finitely many tasks have been pushed and not announced, however many there
\* are to come.
LEMMA CountsFinite ==
  ASSUME Inv, OrderInv
  PROVE  /\ IsFiniteSet(Ready) /\ IsFiniteSet(Pushed)
         /\ Cardinality(Ready) \in Nat /\ Cardinality(Pushed) \in Nat
         /\ Len(tasks_) \in Nat
<1>1. IsFiniteSet(Ready)
  BY ThreadPoolAssumption, FS_Subset DEF Ready
<1>2. IsFiniteSet(Pushed)
  <2> DEFINE all == {accepted[i] : i \in 1 .. Len(accepted)}
             f == [i \in 1 .. Len(accepted) |-> accepted[i]]
  <2>1. IsFiniteSet(1 .. Len(accepted))
    BY LenProperties, FS_Interval DEF Inv, TypeOK
  <2>2. f \in Surjection(1 .. Len(accepted), all)
    BY DEF Surjection
  <2>3. IsFiniteSet(all)
    BY <2>1, <2>2, FS_Surjection
  <2>4. Pushed \in SUBSET all
    BY DEF Pushed, OrderInv, OnceInv
  <2> HIDE DEF all
  <2> QED
    BY <2>3, <2>4, FS_Subset
<1> QED
  BY <1>1, <1>2, FS_CardinalityType, LenProperties DEF Inv, TypeOK

\* The property in terms of these two sets.
SufficeInv ==
    (\E w \in Worker : worker[w] = "waits") =>
        Len(tasks_) <= Cardinality(Ready) + Cardinality(Pushed)

\* A push comes with a notify_one, a notify_one with a worker, and a worker that
\* leaves takes a task with it.
LEMMA NextSuffices ==
  ASSUME Inv, OrderInv, SufficeInv, [Next]_vars PROVE SufficeInv'
<1>0. /\ IsFiniteSet(Ready) /\ IsFiniteSet(Pushed) /\ Len(tasks_) \in Nat
      /\ Cardinality(Ready) \in Nat /\ Cardinality(Pushed) \in Nat
      /\ worker \in [Worker -> {"ready", "waits", "runs", "done"}]
      /\ task \in [Task -> {"new", "pushed", "accepted", "rejected"}]
      /\ tasks_ \in Seq(Task)
  BY CountsFinite DEF Inv, TypeOK
<1>1. ASSUME Pushed' = Pushed, Ready' = Ready, tasks_' = tasks_, worker' = worker
      PROVE  SufficeInv'
  BY <1>1 DEF SufficeInv
<1>2. ASSUME NEW w \in Worker, worker[w] # "ready",
             worker' = [worker EXCEPT ![w] = "ready"]
      PROVE  /\ IsFiniteSet(Ready') /\ Cardinality(Ready') = Cardinality(Ready) + 1
             /\ (\E v \in Worker : worker'[v] = "waits")
                   => \E v \in Worker : worker[v] = "waits"
  <2>1. Ready' = Ready \cup {w} /\ w \notin Ready
    BY <1>0, <1>2 DEF Ready
  <2> QED
    BY <1>0, <1>2, <2>1, FS_AddElement
<1>3. CASE UNCHANGED vars
  BY <1>1, <1>3 DEF vars, Ready, Pushed
<1>4. ASSUME NEW t \in Task, Push(t) PROVE SufficeInv'
  <2>1. worker' = worker /\ Ready' = Ready
    BY <1>4 DEF Push, Ready
  <2>2. CASE shutdown_requested_
    <3>1. Pushed' = Pushed /\ tasks_' = tasks_
      BY <1>0, <1>4, <2>2 DEF Push, Pushed
    <3> QED
      BY <1>1, <2>1, <3>1
  <2>3. CASE ~shutdown_requested_
    <3>1. Pushed' = Pushed \cup {t} /\ t \notin Pushed
      BY <1>0, <1>4, <2>3 DEF Push, Pushed
    <3>2. Cardinality(Pushed') = Cardinality(Pushed) + 1
      BY <1>0, <3>1, FS_AddElement
    <3>3. Len(tasks_') = Len(tasks_) + 1
      BY <1>0, <1>4, <2>3, AppendProperties DEF Push
    <3> QED
      BY <1>0, <2>1, <3>2, <3>3 DEF SufficeInv
  <2> QED
    BY <2>2, <2>3
<1>5. ASSUME NEW t \in Task, NotifyOne(t) PROVE SufficeInv'
  <2>1. Pushed' = Pushed \ {t} /\ t \in Pushed /\ tasks_' = tasks_
    BY <1>0, <1>5 DEF NotifyOne, Pushed
  <2>2. Cardinality(Pushed') = Cardinality(Pushed) - 1
    BY <1>0, <2>1, FS_RemoveElement
  <2>3. CASE \E w \in Worker : worker[w] = "waits"
    <3>1. PICK w \in Worker : worker[w] = "waits"
                              /\ worker' = [worker EXCEPT ![w] = "ready"]
      BY <1>5, <2>3 DEF NotifyOne
    <3>2. Cardinality(Ready') = Cardinality(Ready) + 1
      BY <1>2, <3>1
    <3> QED
      BY <1>0, <2>1, <2>2, <2>3, <3>2 DEF SufficeInv
  <2>4. CASE ~\E w \in Worker : worker[w] = "waits"
    BY <1>5, <2>4 DEF NotifyOne, SufficeInv
  <2> QED
    BY <2>3, <2>4
<1>6. ASSUME NEW w \in Worker, Take(w) PROVE SufficeInv'
  <2>1. Pushed' = Pushed
    BY <1>6 DEF Take, Pushed
  <2>2. CASE tasks_ = <<>>
    <3>1. Len(tasks_') = 0
      BY <1>6, <2>2, EmptySeq DEF Take
    <3>2. Ready' \in SUBSET Worker
      BY DEF Ready
    <3>3. Cardinality(Ready') \in Nat
      BY <3>2, ThreadPoolAssumption, FS_Subset, FS_CardinalityType
    <3> QED
      BY <1>0, <2>1, <3>1, <3>3 DEF SufficeInv
  <2>3. CASE tasks_ # <<>>
    <3>1. worker[w] = "ready" /\ worker' = [worker EXCEPT ![w] = "runs"]
      BY <1>6, <2>3 DEF Take
    <3>2. Len(tasks_') = Len(tasks_) - 1
      BY <1>0, <1>6, <2>3, HeadTailProperties DEF Take
    <3>3. Ready' = Ready \ {w} /\ w \in Ready
      BY <1>0, <3>1 DEF Ready
    <3>4. Cardinality(Ready') = Cardinality(Ready) - 1
      BY <1>0, <3>3, FS_RemoveElement
    <3>5. (\E v \in Worker : worker'[v] = "waits")
             => \E v \in Worker : worker[v] = "waits"
      BY <1>0, <3>1
    <3> QED
      BY <1>0, <2>1, <3>2, <3>4, <3>5 DEF SufficeInv
  <2> QED
    BY <2>2, <2>3
<1>7. ASSUME NEW w \in Worker, Finish(w) \/ WakeSpuriously(w) PROVE SufficeInv'
  <2>1. /\ worker[w] # "ready" /\ worker' = [worker EXCEPT ![w] = "ready"]
        /\ tasks_' = tasks_ /\ Pushed' = Pushed
    BY <1>0, <1>7 DEF Finish, WakeSpuriously, Pushed
  <2>2. /\ Cardinality(Ready') = Cardinality(Ready) + 1
        /\ (\E v \in Worker : worker'[v] = "waits")
              => \E v \in Worker : worker[v] = "waits"
    BY <1>2, <2>1
  <2> QED
    BY <1>0, <2>1, <2>2 DEF SufficeInv
<1>8. ASSUME NEW c \in Closer, NotifyAll(c) PROVE SufficeInv'
  BY <1>0, <1>8 DEF NotifyAll, SufficeInv
<1>9. ASSUME NEW c \in Closer, RequestShutdown(c) \/ JoinWorkers(c) PROVE SufficeInv'
  BY <1>1, <1>9 DEF RequestShutdown, JoinWorkers, Ready, Pushed
<1> QED
  BY <1>3, <1>4, <1>5, <1>6, <1>7, <1>8, <1>9 DEF Next, WorkerStep, CloserStep

\* No wake-up is lost: while a worker sleeps, every queued task has a worker on
\* its way to the queue or a notify_one still to come, for any number of workers
\* and tasks.
THEOREM NoWakeupIsLost == Spec => []WorkersSuffice
<1>1. Init => SufficeInv
  BY DEF Init, SufficeInv
<1>2. SufficeInv => WorkersSuffice
  BY DEF SufficeInv, WorkersSuffice, Ready, Pushed
<1> QED
  BY <1>1, <1>2, InitInv, NextInv, InitOrder, NextOrder, NextSuffices, PTL DEF Spec

=============================================================================
