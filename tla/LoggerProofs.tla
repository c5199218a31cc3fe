----------------------------- MODULE LoggerProofs -----------------------------
(***************************************************************************)
(* Proofs about Logger, for any number of writers and any capacity.        *)
(*                                                                         *)
(* Up to the first data race the buffers are in good hands: whoever swaps  *)
(* them is alone with them (RaceInv), a writer copies a line into the room *)
(* it has found (RoomIsKept), and what WriteToFile was called with is      *)
(* still there (ChunkInv).  So every buffer has the lines of a stretch of  *)
(* time, the backup's before the active one's and after everything written *)
(* (StretchInv); a swap by a writer may drop a stretch but moves none.  If *)
(* only the log thread swaps, the buffer that it empties is empty already  *)
(* (SoleInv) and no line is missing (LostInv).                             *)
(***************************************************************************)
EXTENDS Logger, SequenceTheorems, FiniteSetTheorems, TLAPS

\* The writers that are inside WriteLog.
Busy == {w \in Writer : pc[w] # "idle"}

\* Only a line that was begun is logged.
CountInv == IsFiniteSet(Busy) /\ logged + Cardinality(Busy) <= lines

\* pc is a function, and the main thread is in Shutdown once running_ is FALSE.
\* The log thread leaves its loop only then.
PcInv ==
    /\ pc = [t \in Thread |-> pc[t]]
    /\ running_ => pc["main"] = "run" /\ chunk.next = "reset"
                   /\ pc["log"] \notin {"exit1", "exit2", "done"}

\* A race is noticed, so until then the threads are apart.
RaceInv == Racing => raced

\* What a step says of raced.
Noticed == raced' = (Racing' \/ RacyRead \/ AfterDestruction)

\* WriteToFile still has what it was called with.
ChunkInv ==
    ~raced /\ pc["log"] \in {"open", "write"} =>
        /\ chunk.buf \in Buffer /\ chunk.n = Len(contents[chunk.buf])
        /\ chunk.next = "reset" => chunk.buf = backup_buffer_

\* The file that is open is that of the date last seen, or of a later day.
DateInv ==
    /\ log_file_ # None => log_file_ \in current_date_ .. day
    /\ pc["log"] \in {"open", "write"} => chunk.date <= day
    /\ pc["log"] = "write" => chunk.date = current_date_

Inv == /\ TypeOK /\ CountInv /\ PcInv /\ RaceInv /\ RoomIsKept /\ ChunkInv
       /\ DateInv

-----------------------------------------------------------------------------
(* What the buffers hold until Shutdown. *)

Increasing(s) == \A i, j \in DOMAIN s : i < j => s[i] < s[j]
Below(s, t) == \A i \in DOMAIN s, j \in DOMAIN t : s[i] < t[j]
UpTo(s, n) == \A i \in DOMAIN s : s[i] <= n

\* The lines of the backup buffer that are still to be written, and those of the
\* active one.
Older == IF pc["log"] = "reset" THEN <<>> ELSE contents[backup_buffer_]
Newer == contents[active_buffer_]

Stretches(written, older, newer, n) ==
    /\ Increasing(written) /\ Increasing(older) /\ Increasing(newer)
    /\ Below(written, older) /\ Below(written, newer) /\ Below(older, newer)
    /\ UpTo(written, n) /\ UpTo(older, n) /\ UpTo(newer, n)

StretchInv == running_ /\ ~raced => Stretches(out, Older, Newer, logged)

\* As long as no writer has swapped the buffers, none has come past SwapBuffers,
\* and the log thread has written what the buffer that it empties held.
SoleInv ==
    running_ /\ ~raced /\ ~swapped =>
        /\ \A w \in Writer : pc[w] \in {"idle", "lock", "swap", "copy"}
        /\ pc["log"] \in {"loop", "waiting", "swapping"} =>
              contents[backup_buffer_] = <<>>

\* The lines 1 to n.
Numbered(n) == [i \in 1 .. n |-> i]

LostInv ==
    running_ /\ ~raced /\ ~swapped =>
        out \o (Older \o Newer) = Numbered(logged)

-----------------------------------------------------------------------------
(* One thread moves; the threads that a race would bring together are apart. *)

LEMMA Moves ==
    ASSUME PcInv, NEW t \in Thread, NEW step, Goto(t, step)
    PROVE  /\ pc'[t] = step
           /\ \A u \in Thread : u # t => pc'[u] = pc[u]
           /\ pc' = [u \in Thread |-> pc'[u]]
BY DEF PcInv, Goto

LEMMA Apart ==
    ASSUME RaceInv, ~raced, NEW t \in Thread, NEW u \in Thread, t # u
    PROVE  /\ pc[t] = "swapping" => pc[u] \notin BufferSteps
           /\ t \in Writer /\ u \in Writer /\ pc[t] = "copy" => pc[u] # "copy"
           /\ t \in Writer /\ pc[t] = "copy" /\ chunk.buf = active_buffer_ =>
                 pc["log"] \notin {"open", "write"}
BY DEF RaceInv, Racing

\* A race is noticed when it begins.
LEMMA Notices ==
    ASSUME Noticed
    PROVE  raced' \in BOOLEAN /\ (Racing' => raced')
BY DEF Noticed

\* The names of the threads are apart.
LEMMA Names ==
    /\ "log" \in Thread /\ "main" \in Thread /\ "log" # "main"
    /\ "log" \notin Writer /\ "main" \notin Writer
    /\ \A w \in Writer : w \in Thread /\ w # "log" /\ w # "main"
BY LoggerAssumption DEF Thread

\* A thread that moves stays in its own code.
LEMMA StepTypes ==
    ASSUME TypeOK, NEW t \in Thread, NEW step, pc'[t] = step,
           \A u \in Thread : u # t => pc'[u] = pc[u],
           t \in Writer => step \in WriterSteps,
           t = "log" => step \in LogSteps,
           t = "main" => step \in MainSteps
    PROVE  /\ \A w \in Writer : pc'[w] \in WriterSteps
           /\ pc'["log"] \in LogSteps /\ pc'["main"] \in MainSteps
<1>1. \A w \in Writer : pc'[w] \in WriterSteps
  BY Names DEF TypeOK
<1>2. pc'["log"] \in LogSteps /\ pc'["main"] \in MainSteps
  BY Names DEF TypeOK
<1> QED
  BY <1>1, <1>2

\* A thread that stays inside WriteLog, or outside, leaves the count alone.
LEMMA SameBusy ==
    ASSUME CountInv, \A w \in Writer : (pc'[w] = "idle") <=> (pc[w] = "idle"),
           UNCHANGED <<lines, logged>>
    PROVE  CountInv'
<1>1. Busy' = Busy
  BY DEF Busy
<1> QED
  BY <1>1 DEF CountInv

\* A thread that returns from WriteLog can make room for one more line in the
\* count.
LEMMA LessBusy ==
    ASSUME CountInv, TypeOK, NEW w \in Writer, pc[w] # "idle", pc'[w] = "idle",
           \A u \in Writer : u # w => pc'[u] = pc[u],
           lines' = lines, logged' \in {logged, logged + 1}
    PROVE  CountInv' /\ logged' \in 0 .. MaxLines
<1>1. Busy' = Busy \ {w} /\ w \in Busy
  BY DEF Busy
<1>2. /\ IsFiniteSet(Busy \ {w}) /\ Cardinality(Busy \ {w}) = Cardinality(Busy) - 1
  BY <1>1, FS_RemoveElement DEF CountInv
<1>3. Cardinality(Busy) \in Nat /\ Cardinality(Busy \ {w}) \in Nat
  BY <1>2, FS_CardinalityType DEF CountInv
<1>4. logged \in Nat /\ lines \in Nat /\ lines <= MaxLines /\ MaxLines \in Nat
  BY LoggerAssumption DEF TypeOK
<1> QED
  BY <1>1, <1>2, <1>3, <1>4 DEF CountInv

LEMMA MoreBusy ==
    ASSUME CountInv, TypeOK, NEW w \in Writer, pc[w] = "idle", pc'[w] # "idle",
           \A u \in Writer : u # w => pc'[u] = pc[u],
           lines' = lines + 1, logged' = logged
    PROVE  CountInv'
<1>1. Busy' = Busy \cup {w} /\ w \notin Busy
  BY DEF Busy
<1>2. IsFiniteSet(Busy') /\ Cardinality(Busy') = Cardinality(Busy) + 1
  BY <1>1, FS_AddElement DEF CountInv
<1>3. Cardinality(Busy) \in Nat
  BY FS_CardinalityType DEF CountInv
<1>4. logged \in Nat /\ lines \in Nat
  BY LoggerAssumption DEF TypeOK
<1> QED
  BY <1>2, <1>3, <1>4 DEF CountInv

-----------------------------------------------------------------------------
(* Inv is kept by every action. *)

LEMMA SwapBeginInv ==
    ASSUME Inv, NEW t \in Thread, Run(SwapBegin(t))
    PROVE  Inv'
<1> USE Names DEF Inv
<1>1. /\ ~raced /\ Noticed /\ pc[t] = "swap" /\ Goto(t, "swapping")
      /\ UNCHANGED <<active_buffer_, contents, mutex, lines, aim, logged, chunk,
                     current_date_, log_file_, current_log_file_size_, out,
                     running_, day>>
      /\ swapped' = (swapped \/ t # "log")
  BY DEF Run, Noticed, SwapBegin, writers, files
<1>2. /\ pc'[t] = "swapping" /\ \A u \in Thread : u # t => pc'[u] = pc[u]
      /\ pc' = [u \in Thread |-> pc'[u]]
  BY <1>1, Moves
<1>3. t # "log"
  BY <1>1 DEF TypeOK, LogSteps
<1>4. TypeOK'
  <2>1. swapped' \in BOOLEAN /\ raced' \in BOOLEAN
    BY <1>1, Notices
  <2>2. /\ \A w \in Writer : pc'[w] \in WriterSteps
        /\ pc'["log"] \in LogSteps /\ pc'["main"] \in MainSteps
    BY <1>1, <1>2, <1>3 DEF TypeOK, WriterSteps, MainSteps
  <2> QED
    BY <1>1, <2>1, <2>2 DEF TypeOK
<1>5. CountInv'
  BY <1>1, <1>2, SameBusy
<1>6. PcInv'
  BY <1>1, <1>2, <1>3 DEF PcInv
<1>7. RaceInv'
  BY <1>1, Notices DEF RaceInv
<1>8. RoomIsKept'
  BY <1>1, <1>2 DEF RoomIsKept
<1>9. ChunkInv' /\ DateInv'
  BY <1>1, <1>2, <1>3 DEF ChunkInv, DateInv, backup_buffer_
<1> QED
  BY <1>4, <1>5, <1>6, <1>7, <1>8, <1>9

LEMMA SwapEndInv ==
    ASSUME Inv, NEW t \in Thread, Run(SwapEnd(t))
    PROVE  Inv'
<1> USE Names DEF Inv
<1> DEFINE step == IF t = "log" THEN "size" ELSE "notify"
<1>1. /\ ~raced /\ Noticed /\ pc[t] = "swapping" /\ Goto(t, step)
      /\ UNCHANGED <<mutex, lines, aim, logged, chunk,
                     current_date_, log_file_, current_log_file_size_, out,
                     running_, day, swapped>>
      /\ active_buffer_' = 3 - active_buffer_
      /\ contents' = [contents EXCEPT ![3 - active_buffer_] = <<>>]
  BY DEF Run, Noticed, SwapEnd, writers, files, backup_buffer_, Emptied
<1>2. /\ pc'[t] = step /\ \A u \in Thread : u # t => pc'[u] = pc[u]
      /\ pc' = [u \in Thread |-> pc'[u]]
  BY <1>1, Moves
<1>3. \A u \in Thread : u # t =>
          pc[u] \notin {"swapping", "copy", "size", "open", "write", "reset"}
  BY <1>1, Apart DEF BufferSteps
<1>4. TypeOK'
  <2>1. raced' \in BOOLEAN
    BY <1>1, Notices
  <2>2. /\ \A w \in Writer : pc'[w] \in WriterSteps
        /\ pc'["log"] \in LogSteps /\ pc'["main"] \in MainSteps
    <3>1. /\ t \in Writer => step \in WriterSteps
          /\ t = "log" => step \in LogSteps
          /\ t = "main" => step \in MainSteps
      BY DEF WriterSteps, MainSteps, LogSteps
    <3> QED
      BY <1>2, <3>1, StepTypes
  <2>3. active_buffer_' \in Buffer
    BY <1>1 DEF TypeOK, Buffer
  <2>4. contents' \in [Buffer -> Seq(Line)]
    BY <1>1, LoggerAssumption DEF TypeOK, Buffer
  <2> QED
    BY <1>1, <2>1, <2>2, <2>3, <2>4 DEF TypeOK
<1>5. CountInv'
  BY <1>1, <1>2, SameBusy
<1>6. PcInv'
  BY <1>1, <1>2 DEF PcInv
<1>7. RaceInv'
  BY <1>1, Notices DEF RaceInv
<1>8. RoomIsKept'
  BY <1>1, <1>2, <1>3 DEF RoomIsKept
<1>9. ChunkInv' /\ DateInv'
  BY <1>1, <1>2, <1>3 DEF ChunkInv, DateInv
<1> QED
  BY <1>4, <1>5, <1>6, <1>7, <1>8, <1>9

LEMMA NotifyInv ==
    ASSUME Inv, NEW t \in Thread, Run(Notify(t))
    PROVE  Inv'
<1> USE Names DEF Inv
<1> DEFINE step == IF t = "main" THEN "join" ELSE "relock"
<1>1. /\ ~raced /\ Noticed /\ pc[t] = "notify" /\ Goto(t, step)
      /\ UNCHANGED <<active_buffer_, contents, mutex, lines, aim, logged, chunk,
                     current_date_, log_file_, current_log_file_size_, out,
                     running_, day, swapped>>
  BY DEF Run, Noticed, Notify, writers, files
<1>2. /\ pc'[t] = step /\ \A u \in Thread : u # t => pc'[u] = pc[u]
      /\ pc' = [u \in Thread |-> pc'[u]]
  BY <1>1, Moves
<1>3. t # "log"
  BY <1>1 DEF TypeOK, LogSteps
<1>4. TypeOK'
  <2>1. raced' \in BOOLEAN
    BY <1>1, Notices
  <2>2. /\ \A w \in Writer : pc'[w] \in WriterSteps
        /\ pc'["log"] \in LogSteps /\ pc'["main"] \in MainSteps
    <3>1. /\ t \in Writer => step \in WriterSteps
          /\ t = "log" => step \in LogSteps
          /\ t = "main" => step \in MainSteps
      BY <1>3 DEF WriterSteps, MainSteps, LogSteps
    <3> QED
      BY <1>2, <3>1, StepTypes
  <2> QED
    BY <1>1, <2>1, <2>2 DEF TypeOK
<1>5. CountInv'
  BY <1>1, <1>2, SameBusy
<1>6. PcInv'
  BY <1>1, <1>2, <1>3 DEF PcInv
<1>7. RaceInv'
  BY <1>1, Notices DEF RaceInv
<1>8. RoomIsKept'
  BY <1>1, <1>2 DEF RoomIsKept
<1>9. ChunkInv' /\ DateInv'
  BY <1>1, <1>2, <1>3 DEF ChunkInv, DateInv, backup_buffer_
<1> QED
  BY <1>4, <1>5, <1>6, <1>7, <1>8, <1>9

LEMMA AimInv ==
    ASSUME Inv, NEW w \in Writer, Run(Aim(w))
    PROVE  Inv'
<1> USE Names DEF Inv
<1>1. PICK step \in {"lock", "lock2"} :
         /\ ~raced /\ Noticed /\ Goto(w, step)
         /\ \/ pc[w] = "idle" /\ lines < MaxLines /\ lines' = lines + 1
            \/ pc[w] = "relock" /\ lines' = lines
         /\ aim' = [aim EXCEPT ![w] = active_buffer_]
         /\ UNCHANGED <<active_buffer_, contents, mutex, logged, chunk,
                        current_date_, log_file_, current_log_file_size_, out,
                        running_, day, swapped>>
  BY DEF Run, Noticed, Aim, WriterUnchanged, files
<1>2. /\ pc'[w] = step /\ \A u \in Thread : u # w => pc'[u] = pc[u]
      /\ pc' = [u \in Thread |-> pc'[u]]
  BY <1>1, Moves
<1>4. TypeOK'
  <2>1. raced' \in BOOLEAN
    BY <1>1, Notices
  <2>2. /\ \A v \in Writer : pc'[v] \in WriterSteps
        /\ pc'["log"] \in LogSteps /\ pc'["main"] \in MainSteps
    BY <1>2, StepTypes DEF WriterSteps
  <2>3. aim' \in [Writer -> Buffer \cup {None}]
    BY <1>1 DEF TypeOK
  <2>4. lines' \in 0 .. MaxLines
    BY <1>1, LoggerAssumption DEF TypeOK
  <2> QED
    BY <1>1, <2>1, <2>2, <2>3, <2>4 DEF TypeOK
<1>5. CountInv'
  <2>1. CASE pc[w] = "idle" /\ lines' = lines + 1
    BY <1>1, <1>2, <2>1, MoreBusy
  <2>2. CASE pc[w] = "relock" /\ lines' = lines
    <3>1. \A v \in Writer : (pc'[v] = "idle") <=> (pc[v] = "idle")
      BY <1>2, <2>2
    <3> QED
      BY <1>1, <2>2, <3>1, SameBusy
  <2> QED
    BY <1>1, <2>1, <2>2
<1>6. PcInv'
  BY <1>1, <1>2 DEF PcInv
<1>7. RaceInv'
  BY <1>1, Notices DEF RaceInv
<1>8. RoomIsKept'
  BY <1>1, <1>2 DEF RoomIsKept
<1>9. ChunkInv' /\ DateInv'
  BY <1>1, <1>2 DEF ChunkInv, DateInv, backup_buffer_
<1> QED
  BY <1>4, <1>5, <1>6, <1>7, <1>8, <1>9

LEMMA LockInv ==
    ASSUME Inv, NEW w \in Writer, Run(Lock(w))
    PROVE  Inv'
<1> USE Names DEF Inv
<1>1. PICK step \in {"copy", "swap", "idle"} :
         /\ ~raced /\ Noticed /\ Goto(w, step)
         /\ pc[w] \in {"lock", "lock2"} /\ (step = "copy" => Fits)
         /\ UNCHANGED <<active_buffer_, contents, lines, logged, chunk,
                        current_date_, log_file_, current_log_file_size_, out,
                        running_, day, swapped>>
  BY DEF Run, Noticed, Lock, LockFirst, LockSecond, Return, WriterUnchanged, files
<1>2. /\ pc'[w] = step /\ \A u \in Thread : u # w => pc'[u] = pc[u]
      /\ pc' = [u \in Thread |-> pc'[u]]
  BY <1>1, Moves
<1>4. TypeOK'
  <2>1. raced' \in BOOLEAN
    BY <1>1, Notices
  <2>2. /\ \A v \in Writer : pc'[v] \in WriterSteps
        /\ pc'["log"] \in LogSteps /\ pc'["main"] \in MainSteps
    BY <1>2, StepTypes DEF WriterSteps
  <2>3. /\ aim' \in [Writer -> Buffer \cup {None}]
        /\ mutex' \in [Buffer -> Writer \cup {None}]
    <3>1. \/ /\ mutex' = [mutex EXCEPT ![aim[w]] = w] /\ aim' = aim
          \/ mutex' = mutex /\ aim' = aim
          \/ /\ mutex' = [b \in Buffer |-> IF mutex[b] = w THEN None ELSE mutex[b]]
             /\ aim' = [aim EXCEPT ![w] = None]
      BY DEF Run, Noticed, Lock, LockFirst, LockSecond, Return
    <3>2. /\ aim \in [Writer -> Buffer \cup {None}]
          /\ mutex \in [Buffer -> Writer \cup {None}]
      BY DEF TypeOK
    <3>3. aim' \in [Writer -> Buffer \cup {None}]
      BY <3>1, <3>2
    <3>4. mutex' \in [Buffer -> Writer \cup {None}]
      BY <3>1, <3>2
    <3> QED
      BY <3>3, <3>4
  <2> QED
    BY <1>1, <2>1, <2>2, <2>3 DEF TypeOK
<1>5. CountInv'
  <2>1. CASE step = "idle"
    BY <1>1, <1>2, <2>1, LessBusy
  <2>2. CASE step # "idle"
    <3>1. \A v \in Writer : (pc'[v] = "idle") <=> (pc[v] = "idle")
      BY <1>1, <1>2, <2>2
    <3> QED
      BY <1>1, <3>1, SameBusy
  <2> QED
    BY <2>1, <2>2
<1>6. PcInv'
  BY <1>1, <1>2 DEF PcInv
<1>7. RaceInv'
  BY <1>1, Notices DEF RaceInv
<1>8. RoomIsKept'
  <2>1. step = "copy" => Len(contents[active_buffer_]) < Capacity
    BY <1>1, LoggerAssumption DEF Fits, TypeOK
  <2> QED
    BY <1>1, <1>2, <2>1 DEF RoomIsKept
<1>9. ChunkInv' /\ DateInv'
  BY <1>1, <1>2 DEF ChunkInv, DateInv, backup_buffer_
<1> QED
  BY <1>4, <1>5, <1>6, <1>7, <1>8, <1>9

LEMMA CopyInv ==
    ASSUME Inv, NEW w \in Writer, Run(Copy(w))
    PROVE  Inv'
<1> USE Names DEF Inv
<1> DEFINE l == IF running_ THEN logged + 1 ELSE 0
<1>1. /\ ~raced /\ Noticed /\ Goto(w, "idle") /\ pc[w] = "copy"
      /\ logged' = (IF running_ THEN logged + 1 ELSE logged)
      /\ contents' = [contents EXCEPT
                        ![active_buffer_] = Append(contents[active_buffer_], l)]
      /\ mutex' = [b \in Buffer |-> IF mutex[b] = w THEN None ELSE mutex[b]]
      /\ aim' = [aim EXCEPT ![w] = None]
      /\ UNCHANGED <<active_buffer_, lines, chunk,
                     current_date_, log_file_, current_log_file_size_, out,
                     running_, day, swapped>>
  BY DEF Run, Noticed, Copy, Return, WriterUnchanged, files
<1>2. /\ pc'[w] = "idle" /\ \A u \in Thread : u # w => pc'[u] = pc[u]
      /\ pc' = [u \in Thread |-> pc'[u]]
  BY <1>1, Moves
<1>3. \A u \in Writer : u # w => pc'[u] # "copy"
  BY <1>1, <1>2, Apart
<1>4. CountInv' /\ logged' \in 0 .. MaxLines
  BY <1>1, <1>2, LessBusy
<1>5. TypeOK'
  <2>1. raced' \in BOOLEAN
    BY <1>1, Notices
  <2>2. /\ \A v \in Writer : pc'[v] \in WriterSteps
        /\ pc'["log"] \in LogSteps /\ pc'["main"] \in MainSteps
    BY <1>2, StepTypes DEF WriterSteps
  <2>3. /\ aim' \in [Writer -> Buffer \cup {None}]
        /\ mutex' \in [Buffer -> Writer \cup {None}]
    BY <1>1 DEF TypeOK
  <2>4. l \in Line
    BY <1>1, <1>4, LoggerAssumption DEF Line
  <2>5. contents' \in [Buffer -> Seq(Line)]
    <3> HIDE DEF l
    <3> QED
      BY <1>1, <2>4 DEF TypeOK
  <2> QED
    BY <1>1, <1>4, <2>1, <2>2, <2>3, <2>5 DEF TypeOK
<1>6. PcInv'
  BY <1>1, <1>2 DEF PcInv
<1>7. RaceInv'
  BY <1>1, Notices DEF RaceInv
<1>8. RoomIsKept'
  BY <1>1, <1>2, <1>3 DEF RoomIsKept
<1>9. ChunkInv'
  <2>1. pc["log"] \in {"open", "write"} => chunk.buf # active_buffer_
    BY <1>1, Apart
  <2> QED
    BY <1>1, <1>2, <2>1 DEF ChunkInv, backup_buffer_, TypeOK
<1>10. DateInv'
  BY <1>1, <1>2 DEF DateInv
<1> QED
  BY <1>4, <1>5, <1>6, <1>7, <1>8, <1>9, <1>10

LEMMA LogLoopInv ==
    ASSUME Inv, Run(LogLoop)
    PROVE  Inv'
<1> USE Names DEF Inv
<1>1. PICK step \in {"waiting", "exit1", "swapping"} :
         /\ ~raced /\ Noticed /\ Goto("log", step)
         /\ step = "exit1" => ~running_
         /\ UNCHANGED <<active_buffer_, contents, mutex, lines, aim, logged, chunk,
                        current_date_, log_file_, current_log_file_size_, out,
                        running_, day, swapped>>
  BY DEF Run, Noticed, LogLoop, LoopCondition, LogUnchanged, writers, files
<1>2. /\ pc'["log"] = step /\ \A u \in Thread : u # "log" => pc'[u] = pc[u]
      /\ pc' = [u \in Thread |-> pc'[u]]
  BY <1>1, Moves
<1>3. \A w \in Writer : pc'[w] = pc[w]
  BY <1>2
<1>4. TypeOK'
  <2>1. raced' \in BOOLEAN
    BY <1>1, Notices
  <2>2. /\ \A w \in Writer : pc'[w] \in WriterSteps
        /\ pc'["log"] \in LogSteps /\ pc'["main"] \in MainSteps
    BY <1>2, StepTypes DEF LogSteps
  <2> QED
    BY <1>1, <2>1, <2>2 DEF TypeOK
<1>5. CountInv'
  BY <1>1, <1>3, SameBusy
<1>6. PcInv'
  BY <1>1, <1>2 DEF PcInv
<1>7. RaceInv'
  BY <1>1, Notices DEF RaceInv
<1>8. RoomIsKept'
  BY <1>1, <1>3 DEF RoomIsKept
<1>9. ChunkInv' /\ DateInv'
  BY <1>1, <1>2 DEF ChunkInv, DateInv
<1> QED
  BY <1>4, <1>5, <1>6, <1>7, <1>8, <1>9


\* WriteToFile is called for buffer b, or there is nothing to write and the log
\* thread goes on.
Called(b, after, step) ==
    /\ Goto("log", step)
    /\ UNCHANGED <<active_buffer_, contents, mutex, lines, aim, logged,
                   current_date_, log_file_, current_log_file_size_, out,
                   running_, day, swapped>>
    /\ \/ step = "open" /\ chunk' = [buf |-> b, n |-> Len(contents[b]),
                                     date |-> day, next |-> after]
       \/ step # "open" /\ chunk' = chunk /\ contents[b] = <<>>

LEMMA DrainStep ==
    ASSUME TypeOK, Run(LogDrain)
    PROVE  \/ \E step \in {"open", "loop"} :
                 pc["log"] = "size" /\ Called(backup_buffer_, "reset", step)
           \/ \E step \in {"open", "exit2"} :
                 pc["log"] = "exit1" /\ Called(active_buffer_, "exit2", step)
           \/ \E step \in {"open", "done"} :
                 pc["log"] = "exit2" /\ Called(backup_buffer_, "done", step)
<1>1. active_buffer_ \in Buffer /\ backup_buffer_ \in Buffer
  BY DEF TypeOK, Buffer, backup_buffer_
<1>2. ASSUME NEW b \in Buffer, NEW after, NEW otherwise, otherwise # "open",
             Drain(b, after, otherwise)
      PROVE  Called(b, after, "open") \/ Called(b, after, otherwise)
  <2>1. Len(contents[b]) \in Nat /\ (Len(contents[b]) = 0 => contents[b] = <<>>)
    BY EmptySeq DEF TypeOK
  <2> QED
    BY <1>2, <2>1 DEF Drain, WorthWriting, LogUnchanged, writers, Called
<1>3. CASE pc["log"] = "size" /\ Drain(backup_buffer_, "reset", "loop")
  BY <1>1, <1>2, <1>3
<1>4. CASE pc["log"] = "exit1" /\ Drain(active_buffer_, "exit2", "exit2")
  BY <1>1, <1>2, <1>4
<1>5. CASE pc["log"] = "exit2" /\ Drain(backup_buffer_, "done", "done")
  BY <1>1, <1>2, <1>5
<1> QED
  BY <1>3, <1>4, <1>5 DEF Run, LogDrain

LEMMA CalledInv ==
    ASSUME Inv, NEW b \in Buffer, NEW after \in {"reset", "exit2", "done"},
           NEW step \in {"open", "loop", "exit2", "done"}, Called(b, after, step),
           ~raced, Noticed,
           running_ => after = "reset" /\ step \in {"open", "loop"},
           after = "reset" => b = backup_buffer_
    PROVE  Inv'
<1> USE Names DEF Inv
<1>1. /\ Goto("log", step)
      /\ UNCHANGED <<active_buffer_, contents, mutex, lines, aim, logged,
                     current_date_, log_file_, current_log_file_size_, out,
                     running_, day, swapped>>
  BY DEF Called
<1>2. /\ pc'["log"] = step /\ \A u \in Thread : u # "log" => pc'[u] = pc[u]
      /\ pc' = [u \in Thread |-> pc'[u]]
  BY <1>1, Moves
<1>3. \A w \in Writer : pc'[w] = pc[w]
  BY <1>2
<1>4. /\ step = "open" => chunk' = [buf |-> b, n |-> Len(contents[b]),
                                    date |-> day, next |-> after]
      /\ step # "open" => chunk' = chunk
  BY DEF Called
<1>5. TypeOK'
  <2>1. raced' \in BOOLEAN
    BY <1>1, Notices
  <2>2. /\ \A w \in Writer : pc'[w] \in WriterSteps
        /\ pc'["log"] \in LogSteps /\ pc'["main"] \in MainSteps
    BY <1>2, StepTypes DEF LogSteps
  <2>3. Len(contents[b]) \in Nat /\ day \in 0 .. MaxDay
    BY LoggerAssumption DEF TypeOK
  <2>4. chunk' \in [buf : Buffer \cup {None}, n : Nat, date : 0 .. MaxDay,
                    next : {"reset", "exit2", "done"}]
    BY <1>4, <2>3 DEF TypeOK
  <2> QED
    BY <1>1, <2>1, <2>2, <2>4 DEF TypeOK
<1>6. CountInv'
  BY <1>1, <1>3, SameBusy
<1>7. PcInv'
  BY <1>1, <1>2, <1>4 DEF PcInv
<1>8. RaceInv'
  BY Notices DEF RaceInv
<1>9. RoomIsKept'
  BY <1>1, <1>3 DEF RoomIsKept
<1>10. ChunkInv'
  BY <1>1, <1>2, <1>4 DEF ChunkInv, backup_buffer_
<1>11. DateInv'
  BY <1>1, <1>2, <1>4 DEF DateInv, TypeOK
<1> QED
  BY <1>5, <1>6, <1>7, <1>8, <1>9, <1>10, <1>11

LEMMA LogDrainInv ==
    ASSUME Inv, Run(LogDrain)
    PROVE  Inv'
<1> USE DEF Inv
<1>1. active_buffer_ \in Buffer /\ backup_buffer_ \in Buffer
  BY DEF TypeOK, Buffer, backup_buffer_
<1>2. ~raced /\ Noticed
  BY DEF Run, Noticed
<1>3. running_ => pc["log"] \notin {"exit1", "exit2"}
  BY DEF PcInv
<1> QED
  BY <1>1, <1>2, <1>3, DrainStep, CalledInv

LEMMA OpenInv ==
    ASSUME Inv, Run(Open)
    PROVE  Inv'
<1> USE Names DEF Inv
<1>1. /\ ~raced /\ Noticed /\ Goto("log", "write") /\ pc["log"] = "open"
      /\ current_date_' = chunk.date
      /\ \/ log_file_' \in {day, None} /\ current_log_file_size_' = 0
         \/ /\ chunk.date = current_date_
            /\ UNCHANGED <<log_file_, current_log_file_size_>>
      /\ UNCHANGED <<active_buffer_, contents, mutex, lines, aim, logged, chunk,
                     out, running_, day, swapped>>
  BY DEF Run, Noticed, Open, NewDate, GetLogFilePath, LogUnchanged, writers
<1>2. /\ pc'["log"] = "write" /\ \A u \in Thread : u # "log" => pc'[u] = pc[u]
      /\ pc' = [u \in Thread |-> pc'[u]]
  BY <1>1, Moves
<1>3. \A w \in Writer : pc'[w] = pc[w]
  BY <1>2
<1>4. TypeOK'
  <2>1. raced' \in BOOLEAN
    BY <1>1, Notices
  <2>2. /\ \A w \in Writer : pc'[w] \in WriterSteps
        /\ pc'["log"] \in LogSteps /\ pc'["main"] \in MainSteps
    BY <1>2, StepTypes DEF LogSteps
  <2>3. /\ current_date_' \in 0 .. MaxDay /\ log_file_' \in (1 .. MaxDay) \cup {None}
        /\ current_log_file_size_' \in Nat
    BY <1>1 DEF TypeOK
  <2> QED
    BY <1>1, <2>1, <2>2, <2>3 DEF TypeOK
<1>5. CountInv'
  BY <1>1, <1>3, SameBusy
<1>6. PcInv'
  BY <1>1, <1>2 DEF PcInv
<1>7. RaceInv'
  BY <1>1, Notices DEF RaceInv
<1>8. RoomIsKept'
  BY <1>1, <1>3 DEF RoomIsKept
<1>9. ChunkInv'
  BY <1>1, <1>2 DEF ChunkInv, backup_buffer_
<1>10. DateInv'
  <2>1. day \in Nat /\ chunk.date \in Nat /\ chunk.date <= day
    BY <1>1 DEF TypeOK, DateInv
  <2> QED
    BY <1>1, <1>2, <2>1 DEF DateInv
<1> QED
  BY <1>4, <1>5, <1>6, <1>7, <1>8, <1>9, <1>10

LEMMA WriteInv ==
    ASSUME Inv, Run(Write)
    PROVE  Inv'
<1> USE Names DEF Inv
<1>1. /\ ~raced /\ Noticed /\ Goto("log", chunk.next) /\ pc["log"] = "write"
      /\ out' = out \o SubSeq(contents[chunk.buf], 1, chunk.n)
      /\ current_log_file_size_' =
            current_log_file_size_ + (IF log_file_ = None THEN 0 ELSE chunk.n)
      /\ chunk' = NoChunk
      /\ UNCHANGED <<active_buffer_, contents, mutex, lines, aim, logged,
                     current_date_, log_file_, running_, day, swapped>>
  BY DEF Run, Noticed, Write, LogUnchanged, writers
<1>2. /\ pc'["log"] = chunk.next /\ \A u \in Thread : u # "log" => pc'[u] = pc[u]
      /\ pc' = [u \in Thread |-> pc'[u]]
  BY <1>1, Moves
<1>3. \A w \in Writer : pc'[w] = pc[w]
  BY <1>2
<1>4. chunk.next \in {"reset", "exit2", "done"} /\ chunk.n \in Nat
  BY DEF TypeOK
<1>5. TypeOK'
  <2>1. raced' \in BOOLEAN
    BY <1>1, Notices
  <2>2. /\ \A w \in Writer : pc'[w] \in WriterSteps
        /\ pc'["log"] \in LogSteps /\ pc'["main"] \in MainSteps
    BY <1>2, <1>4, StepTypes DEF LogSteps
  <2>3. chunk' \in [buf : Buffer \cup {None}, n : Nat, date : 0 .. MaxDay,
                    next : {"reset", "exit2", "done"}]
    BY <1>1, LoggerAssumption DEF NoChunk
  <2>4. current_log_file_size_' \in Nat
    BY <1>1, <1>4 DEF TypeOK
  <2>5. out' \in Seq(Line)
    <3>1. chunk.buf \in Buffer /\ chunk.n = Len(contents[chunk.buf])
      BY <1>1 DEF ChunkInv
    <3>2. contents[chunk.buf] \in Seq(Line)
      BY <3>1 DEF TypeOK
    <3>3. SubSeq(contents[chunk.buf], 1, chunk.n) = contents[chunk.buf]
      BY <3>1, <3>2, SubSeqFull
    <3> QED
      BY <1>1, <3>2, <3>3, ConcatProperties DEF TypeOK
  <2> QED
    BY <1>1, <2>1, <2>2, <2>3, <2>4, <2>5 DEF TypeOK
<1>6. CountInv'
  BY <1>1, <1>3, SameBusy
<1>7. PcInv'
  BY <1>1, <1>2 DEF PcInv, NoChunk
<1>8. RaceInv'
  BY <1>1, Notices DEF RaceInv
<1>9. RoomIsKept'
  BY <1>1, <1>3 DEF RoomIsKept
<1>10. ChunkInv' /\ DateInv'
  BY <1>1, <1>2, <1>4 DEF ChunkInv, DateInv
<1> QED
  BY <1>5, <1>6, <1>7, <1>8, <1>9, <1>10

LEMMA ResetInv ==
    ASSUME Inv, Run(Reset)
    PROVE  Inv'
<1> USE Names DEF Inv
<1>1. /\ ~raced /\ Noticed /\ Goto("log", "loop") /\ pc["log"] = "reset"
      /\ contents' = [contents EXCEPT ![3 - active_buffer_] = <<>>]
      /\ UNCHANGED <<active_buffer_, mutex, lines, aim, logged, chunk,
                     current_date_, log_file_, current_log_file_size_, out,
                     running_, day, swapped>>
  BY DEF Run, Noticed, Reset, LogUnchanged, writers, files, backup_buffer_
<1>2. /\ pc'["log"] = "loop" /\ \A u \in Thread : u # "log" => pc'[u] = pc[u]
      /\ pc' = [u \in Thread |-> pc'[u]]
  BY <1>1, Moves
<1>3. \A w \in Writer : pc'[w] = pc[w]
  BY <1>2
<1>4. TypeOK'
  <2>1. raced' \in BOOLEAN
    BY <1>1, Notices
  <2>2. /\ \A w \in Writer : pc'[w] \in WriterSteps
        /\ pc'["log"] \in LogSteps /\ pc'["main"] \in MainSteps
    BY <1>2, StepTypes DEF LogSteps
  <2>3. contents' \in [Buffer -> Seq(Line)]
    BY <1>1, LoggerAssumption DEF TypeOK, Buffer
  <2> QED
    BY <1>1, <2>1, <2>2, <2>3 DEF TypeOK
<1>5. CountInv'
  BY <1>1, <1>3, SameBusy
<1>6. PcInv'
  BY <1>1, <1>2 DEF PcInv
<1>7. RaceInv'
  BY <1>1, Notices DEF RaceInv
<1>8. RoomIsKept'
  <2>1. contents'[active_buffer_] = contents[active_buffer_]
    BY <1>1 DEF TypeOK, Buffer
  <2> QED
    BY <1>1, <1>3, <2>1 DEF RoomIsKept
<1>9. ChunkInv' /\ DateInv'
  BY <1>1, <1>2 DEF ChunkInv, DateInv
<1> QED
  BY <1>4, <1>5, <1>6, <1>7, <1>8, <1>9

LEMMA ShutdownBeginInv ==
    ASSUME Inv, Run(ShutdownBegin)
    PROVE  Inv'
<1> USE Names DEF Inv
<1>1. /\ ~raced /\ Noticed /\ Goto("main", "swap") /\ running_' = FALSE
      /\ UNCHANGED <<active_buffer_, contents, mutex, lines, aim, logged, chunk,
                     current_date_, log_file_, current_log_file_size_, out,
                     day, swapped>>
  BY DEF Run, Noticed, ShutdownBegin, writers, files
<1>2. /\ pc'["main"] = "swap" /\ \A u \in Thread : u # "main" => pc'[u] = pc[u]
      /\ pc' = [u \in Thread |-> pc'[u]]
  BY <1>1, Moves
<1>3. (\A w \in Writer : pc'[w] = pc[w]) /\ pc'["log"] = pc["log"]
  BY <1>2
<1>4. TypeOK'
  <2>1. raced' \in BOOLEAN /\ running_' \in BOOLEAN
    BY <1>1, Notices
  <2>2. /\ \A w \in Writer : pc'[w] \in WriterSteps
        /\ pc'["log"] \in LogSteps /\ pc'["main"] \in MainSteps
    BY <1>2, StepTypes DEF MainSteps
  <2> QED
    BY <1>1, <2>1, <2>2 DEF TypeOK
<1>5. CountInv'
  BY <1>1, <1>3, SameBusy
<1>6. PcInv'
  BY <1>1, <1>2 DEF PcInv
<1>7. RaceInv'
  BY <1>1, Notices DEF RaceInv
<1>8. RoomIsKept'
  BY <1>1, <1>3 DEF RoomIsKept
<1>9. ChunkInv' /\ DateInv'
  BY <1>1, <1>3 DEF ChunkInv, DateInv, backup_buffer_
<1> QED
  BY <1>4, <1>5, <1>6, <1>7, <1>8, <1>9

LEMMA ShutdownEndInv ==
    ASSUME Inv, Run(ShutdownEnd)
    PROVE  Inv'
<1> USE Names DEF Inv
<1>1. /\ ~raced /\ Noticed /\ Goto("main", "closed") /\ log_file_' = None
      /\ pc["main"] = "join"
      /\ UNCHANGED <<active_buffer_, contents, mutex, lines, aim, logged, chunk,
                     current_date_, current_log_file_size_, out, running_,
                     day, swapped>>
  BY DEF Run, Noticed, ShutdownEnd, writers, files
<1>2. /\ pc'["main"] = "closed" /\ \A u \in Thread : u # "main" => pc'[u] = pc[u]
      /\ pc' = [u \in Thread |-> pc'[u]]
  BY <1>1, Moves
<1>3. (\A w \in Writer : pc'[w] = pc[w]) /\ pc'["log"] = pc["log"]
  BY <1>2
<1>4. TypeOK'
  <2>1. raced' \in BOOLEAN
    BY <1>1, Notices
  <2>2. /\ \A w \in Writer : pc'[w] \in WriterSteps
        /\ pc'["log"] \in LogSteps /\ pc'["main"] \in MainSteps
    BY <1>2, StepTypes DEF MainSteps
  <2> QED
    BY <1>1, <2>1, <2>2 DEF TypeOK
<1>5. CountInv'
  BY <1>1, <1>3, SameBusy
<1>6. PcInv'
  BY <1>1, <1>2 DEF PcInv
<1>7. RaceInv'
  BY <1>1, Notices DEF RaceInv
<1>8. RoomIsKept'
  BY <1>1, <1>3 DEF RoomIsKept
<1>9. ChunkInv' /\ DateInv'
  BY <1>1, <1>3 DEF ChunkInv, DateInv, backup_buffer_
<1> QED
  BY <1>4, <1>5, <1>6, <1>7, <1>8, <1>9

LEMMA MidnightInv ==
    ASSUME Inv, Run(Midnight)
    PROVE  Inv'
<1> USE Names DEF Inv
<1>1. /\ ~raced /\ Noticed /\ day < MaxDay /\ day' = day + 1
      /\ UNCHANGED <<active_buffer_, contents, mutex, lines, aim, logged, chunk,
                     current_date_, log_file_, current_log_file_size_, out,
                     running_, pc, swapped>>
  BY DEF Run, Noticed, Midnight, writers, files
<1>2. TypeOK'
  <2>1. raced' \in BOOLEAN
    BY <1>1, Notices
  <2>2. day' \in 1 .. MaxDay
    BY <1>1, LoggerAssumption DEF TypeOK
  <2> QED
    BY <1>1, <2>1, <2>2 DEF TypeOK
<1>3. CountInv'
  BY <1>1, SameBusy
<1>4. PcInv'
  BY <1>1 DEF PcInv
<1>5. RaceInv'
  BY <1>1, Notices DEF RaceInv
<1>6. RoomIsKept' /\ ChunkInv'
  BY <1>1 DEF RoomIsKept, ChunkInv, backup_buffer_
<1>7. DateInv'
  BY <1>1 DEF DateInv, TypeOK
<1> QED
  BY <1>2, <1>3, <1>4, <1>5, <1>6, <1>7

-----------------------------------------------------------------------------

LEMMA InitInv == Init => Inv
<1> SUFFICES ASSUME Init PROVE Inv
  OBVIOUS
<1> USE Names
<1>1. /\ active_buffer_ = 1 /\ contents = [b \in Buffer |-> <<>>]
      /\ mutex = [b \in Buffer |-> None] /\ running_ = TRUE
      /\ lines = 0 /\ logged = 0 /\ aim = [w \in Writer |-> None]
      /\ chunk = NoChunk /\ day = 1 /\ current_date_ = 0 /\ out = <<>>
      /\ swapped = FALSE /\ raced = FALSE
  BY DEF Init
<1>2. /\ log_file_ \in {1, None} /\ current_log_file_size_ \in Nat
  BY LoggerAssumption DEF Init, InitLogFile, GetLogFilePath
<1>3. /\ pc = [t \in Thread |-> pc[t]] /\ pc["log"] = "loop" /\ pc["main"] = "run"
      /\ \A w \in Writer : pc[w] = "idle"
  BY DEF Init
<1>4. TypeOK
  <2>1. active_buffer_ \in Buffer /\ mutex \in [Buffer -> Writer \cup {None}]
    BY <1>1 DEF Buffer
  <2>2. contents \in [Buffer -> Seq(Line)] /\ out \in Seq(Line)
    BY <1>1
  <2>3. \A b \in Buffer : Len(contents[b]) <= Capacity
    BY <1>1, LoggerAssumption
  <2>4. /\ \A w \in Writer : pc[w] \in WriterSteps
        /\ pc["log"] \in LogSteps /\ pc["main"] \in MainSteps
    BY <1>3 DEF WriterSteps, LogSteps, MainSteps
  <2>5. /\ lines \in 0 .. MaxLines /\ logged \in 0 .. MaxLines
        /\ current_date_ \in 0 .. MaxDay /\ day \in 1 .. MaxDay
        /\ log_file_ \in (1 .. MaxDay) \cup {None}
    BY <1>1, <1>2, LoggerAssumption
  <2>6. chunk \in [buf : Buffer \cup {None}, n : Nat, date : 0 .. MaxDay,
                   next : {"reset", "exit2", "done"}]
    BY <1>1, LoggerAssumption DEF NoChunk
  <2> QED
    BY <1>1, <1>2, <2>1, <2>2, <2>3, <2>4, <2>5, <2>6 DEF TypeOK
<1>5. CountInv
  <2>1. Busy = {}
    BY <1>3 DEF Busy
  <2> QED
    BY <1>1, <2>1, FS_EmptySet DEF CountInv
<1>6. PcInv
  BY <1>1, <1>3 DEF PcInv, NoChunk
<1>7. RaceInv
  <2>1. \A t \in Thread : pc[t] \in {"loop", "run", "idle"}
    BY <1>3 DEF Thread
  <2> QED
    BY <2>1 DEF RaceInv, Racing
<1>8. RoomIsKept /\ ChunkInv
  BY <1>3 DEF RoomIsKept, ChunkInv
<1>9. DateInv
  BY <1>1, <1>2, <1>3 DEF DateInv
<1> QED
  BY <1>4, <1>5, <1>6, <1>7, <1>8, <1>9 DEF Inv

\* The steps of Next, one action at a time.
SwapStep == \E t \in Thread : Run(SwapBegin(t)) \/ Run(SwapEnd(t)) \/ Run(Notify(t))
WriterStep == \E w \in Writer : Run(Aim(w)) \/ Run(Lock(w)) \/ Run(Copy(w))
LogStep == Run(LogLoop) \/ Run(LogDrain) \/ Run(Open) \/ Run(Write) \/ Run(Reset)
OtherStep == Run(ShutdownBegin) \/ Run(ShutdownEnd) \/ Run(Midnight)

LEMMA Actions ==
    ASSUME [Next]_vars
    PROVE  SwapStep \/ WriterStep \/ LogStep \/ OtherStep \/ UNCHANGED vars
<1> USE Names
<1>1. ASSUME NEW t \in Thread, Step(t)
      PROVE  SwapStep \/ WriterStep \/ LogStep \/ OtherStep
  <2>1. CASE t \in Writer /\ Run(WriteLog(t))
    BY <2>1 DEF WriteLog, SwapBuffers, Run, SwapStep, WriterStep
  <2>2. CASE t = "log" /\ Run(LogThread)
    BY <2>2 DEF LogThread, SwapBuffers, Run, SwapStep, LogStep
  <2>3. CASE t = "main" /\ Run(Shutdown)
    BY <2>3 DEF Shutdown, SwapBuffers, Run, SwapStep, OtherStep
  <2> QED
    BY <1>1, <2>1, <2>2, <2>3 DEF Step
<1> QED
  BY <1>1 DEF Next, Terminated, OtherStep

LEMMA StepInv ==
    ASSUME Inv, [Next]_vars
    PROVE  Inv'
<1>1. CASE SwapStep
  BY <1>1, SwapBeginInv, SwapEndInv, NotifyInv DEF SwapStep
<1>2. CASE WriterStep
  BY <1>2, AimInv, LockInv, CopyInv DEF WriterStep
<1>3. CASE LogStep
  BY <1>3, LogLoopInv, LogDrainInv, OpenInv, WriteInv, ResetInv DEF LogStep
<1>4. CASE OtherStep
  BY <1>4, ShutdownBeginInv, ShutdownEndInv, MidnightInv DEF OtherStep
<1>5. CASE UNCHANGED vars
  BY <1>5 DEF vars, writers, files, Inv, TypeOK, CountInv, Busy, PcInv, RaceInv,
              Racing, RoomIsKept, ChunkInv, DateInv, backup_buffer_
<1> QED
  BY <1>1, <1>2, <1>3, <1>4, <1>5, Actions

\* The inductive invariant holds of every state of the logger.
LEMMA InvAlways == Spec => []Inv
BY InitInv, StepInv, PTL DEF Spec

\* For any number of threads that log and any capacity, the variables of the
\* logger keep their types.
THEOREM LoggerTypeCorrect == Spec => []TypeOK
BY InvAlways, PTL DEF Inv

\* For any number of threads that log and any capacity, memcpy stays within the
\* buffer up to the first data race: a writer copies into the buffer that is
\* active by then, not the one whose mutex it holds, and the guard under which it
\* found room there after a swap is gone; but what takes the room is a race.
THEOREM RoomAlwaysKept == Spec => []RoomIsKept
BY InvAlways, PTL DEF Inv

\* WriteToFile never writes to the file of a day before its call, whenever
\* midnight falls and whichever of the rotations fail.
THEOREM FileAlwaysOfTheDay == Spec => []FileOfTheDay
<1>1. Inv => FileOfTheDay
  BY DEF Inv, DateInv, FileOfTheDay, TypeOK
<1> QED
  BY <1>1, InvAlways, PTL

-----------------------------------------------------------------------------
(* What the steps do to the lines in the buffers, until Shutdown. *)

Kept == UNCHANGED <<out, Older, Newer, logged>>

Swapped ==
    /\ \/ pc["log"] = "swapping"
       \/ \E w \in Writer : pc[w] = "swapping"
    /\ Older' = Newer /\ Newer' = <<>> /\ UNCHANGED <<out, logged>>
    /\ pc["log"] # "reset"

WrittenOut ==
    out' = out \o Older /\ Older' = <<>> /\ UNCHANGED <<Newer, logged>>

Logged ==
    /\ Newer' = Append(Newer, logged + 1) /\ logged' = logged + 1
    /\ UNCHANGED <<out, Older>>

LEMMA BuffersType ==
    ASSUME TypeOK
    PROVE  /\ active_buffer_ \in Buffer /\ backup_buffer_ \in Buffer
           /\ active_buffer_ # backup_buffer_ /\ 3 - backup_buffer_ = active_buffer_
           /\ Older \in Seq(Line) /\ Newer \in Seq(Line)
<1>1. /\ active_buffer_ \in Buffer /\ backup_buffer_ \in Buffer
      /\ active_buffer_ # backup_buffer_ /\ 3 - backup_buffer_ = active_buffer_
  BY DEF TypeOK, Buffer, backup_buffer_
<1> QED
  BY <1>1 DEF TypeOK, Older, Newer

LEMMA BuffersKept ==
    ASSUME UNCHANGED <<out, logged, contents, active_buffer_>>,
           (pc'["log"] = "reset") <=> (pc["log"] = "reset")
    PROVE  Kept
BY DEF Kept, Older, Newer, backup_buffer_

LEMMA SwapKeeps ==
    ASSUME Inv, running_', ~raced', SwapStep
    PROVE  Kept \/ Swapped
<1> USE Names DEF Inv
<1>1. PICK t \in Thread : Run(SwapBegin(t)) \/ Run(SwapEnd(t)) \/ Run(Notify(t))
  BY DEF SwapStep
<1>2. CASE Run(SwapBegin(t)) \/ Run(Notify(t))
  <2>1. PICK step \in {"swapping", "join", "relock"} :
           Goto(t, step) /\ pc[t] \in {"swap", "notify"}
    BY <1>2 DEF Run, SwapBegin, Notify
  <2>2. UNCHANGED <<out, logged, contents, active_buffer_>>
    BY <1>2 DEF Run, SwapBegin, Notify, files, writers
  <2>3. t # "log"
    BY <2>1 DEF TypeOK, LogSteps
  <2>4. pc'["log"] = pc["log"]
    BY <2>1, <2>3, Moves
  <2> QED
    BY <2>2, <2>4, BuffersKept
<1>3. CASE Run(SwapEnd(t))
  <2>1. /\ ~raced /\ pc[t] = "swapping"
        /\ active_buffer_' = backup_buffer_
        /\ contents' = [contents EXCEPT ![backup_buffer_] = <<>>]
        /\ UNCHANGED <<out, logged, running_>>
    BY <1>3 DEF Run, SwapEnd, Emptied, files, writers
  <2>2. pc'["log"] # "reset" /\ pc["log"] # "reset"
    <3>1. PICK step \in {"size", "notify"} : Goto(t, step)
      BY <1>3 DEF Run, SwapEnd
    <3>2. pc'["log"] \in {step, pc["log"]}
      BY <3>1, Moves
    <3>3. pc["log"] # "reset"
      BY <2>1, Apart DEF BufferSteps
    <3> QED
      BY <3>1, <3>2, <3>3
  <2>3. Older' = Newer /\ Newer' = <<>>
    BY <2>1, <2>2, BuffersType DEF Older, Newer, backup_buffer_, TypeOK
  <2>4. t = "log" \/ t \in Writer
    BY <2>1 DEF Thread, PcInv
  <2> QED
    BY <2>1, <2>2, <2>3, <2>4 DEF Swapped
<1> QED
  BY <1>1, <1>2, <1>3

LEMMA WriterKeeps ==
    ASSUME Inv, running_', WriterStep
    PROVE  Kept \/ Logged
<1> USE Names DEF Inv
<1>1. PICK w \in Writer : Run(Aim(w)) \/ Run(Lock(w)) \/ Run(Copy(w))
  BY DEF WriterStep
<1>2. \E step : Goto(w, step)
  BY <1>1 DEF Run, Aim, Lock, LockFirst, LockSecond, Copy, Return
<1>3. pc'["log"] = pc["log"]
  BY <1>2, Moves
<1>4. CASE Run(Aim(w)) \/ Run(Lock(w))
  <2>1. UNCHANGED <<out, logged, contents, active_buffer_>>
    BY <1>4 DEF Run, Aim, Lock, WriterUnchanged, files
  <2> QED
    BY <1>3, <2>1, BuffersKept
<1>5. CASE Run(Copy(w))
  <2>1. /\ running_ /\ logged' = logged + 1
        /\ contents' = [contents EXCEPT
                          ![active_buffer_] = Append(contents[active_buffer_],
                                                     logged + 1)]
        /\ UNCHANGED <<active_buffer_, out>>
    BY <1>5 DEF Run, Copy, WriterUnchanged, files
  <2>2. Newer' = Append(Newer, logged + 1)
    BY <2>1 DEF Newer, TypeOK
  <2>3. Older' = Older
    BY <1>3, <2>1, BuffersType DEF Older, backup_buffer_, TypeOK
  <2> QED
    BY <2>1, <2>2, <2>3 DEF Logged
<1> QED
  BY <1>1, <1>4, <1>5

LEMMA LogKeeps ==
    ASSUME Inv, running_', LogStep
    PROVE  Kept \/ WrittenOut
<1> USE Names DEF Inv
<1>1. CASE Run(LogLoop)
  <2>1. PICK step \in {"waiting", "exit1", "swapping"} :
           /\ Goto("log", step) /\ pc["log"] \in {"loop", "waiting"}
           /\ UNCHANGED <<out, logged, contents, active_buffer_>>
    BY <1>1 DEF Run, LogLoop, LogUnchanged, writers, files
  <2>2. pc'["log"] = step
    BY <2>1, Moves
  <2> QED
    BY <2>1, <2>2, BuffersKept
<1>2. CASE Run(LogDrain)
  <2>1. PICK step \in {"open", "loop", "exit2", "done"}, b \in Buffer,
             after \in {"reset", "exit2", "done"} :
           Called(b, after, step) /\ pc["log"] \in {"size", "exit1", "exit2"}
    BY <1>2, DrainStep, BuffersType
  <2>2. UNCHANGED <<out, logged, contents, active_buffer_>> /\ Goto("log", step)
    BY <2>1 DEF Called
  <2>3. pc'["log"] = step
    BY <2>2, Moves
  <2> QED
    BY <2>1, <2>2, <2>3, BuffersKept
<1>3. CASE Run(Open)
  <2>1. /\ Goto("log", "write") /\ pc["log"] = "open"
        /\ UNCHANGED <<out, logged, contents, active_buffer_>>
    BY <1>3 DEF Run, Open, LogUnchanged, writers
  <2>2. pc'["log"] = "write"
    BY <2>1, Moves
  <2> QED
    BY <2>1, <2>2, BuffersKept
<1>4. CASE Run(Write)
  <2>1. /\ ~raced /\ Goto("log", chunk.next) /\ pc["log"] = "write"
        /\ out' = out \o SubSeq(contents[chunk.buf], 1, chunk.n)
        /\ UNCHANGED <<logged, contents, active_buffer_, running_>>
    BY <1>4 DEF Run, Write, LogUnchanged, writers
  <2>2. /\ chunk.next = "reset" /\ chunk.buf = backup_buffer_
        /\ chunk.n = Len(contents[chunk.buf])
    BY <2>1 DEF PcInv, ChunkInv
  <2>3. pc'["log"] = "reset"
    BY <2>1, <2>2, Moves
  <2>4. contents[backup_buffer_] \in Seq(Line) /\ Older = contents[backup_buffer_]
    BY <2>1, BuffersType DEF Older, TypeOK
  <2>5. SubSeq(contents[chunk.buf], 1, chunk.n) = Older
    BY <2>2, <2>4, SubSeqFull
  <2> QED
    BY <2>1, <2>3, <2>5 DEF WrittenOut, Older, Newer
<1>5. CASE Run(Reset)
  <2>1. /\ Goto("log", "loop") /\ pc["log"] = "reset"
        /\ contents' = [contents EXCEPT ![backup_buffer_] = <<>>]
        /\ UNCHANGED <<out, logged, active_buffer_>>
    BY <1>5 DEF Run, Reset, LogUnchanged, writers, files
  <2>2. pc'["log"] = "loop"
    BY <2>1, Moves
  <2> QED
    BY <2>1, <2>2, BuffersType DEF Kept, Older, Newer, backup_buffer_, TypeOK
<1> QED
  BY <1>1, <1>2, <1>3, <1>4, <1>5 DEF LogStep

LEMMA BufferStep ==
    ASSUME Inv, [Next]_vars, running_', ~raced'
    PROVE  /\ running_ /\ ~raced
           /\ Kept \/ Swapped \/ WrittenOut \/ Logged
<1> USE Names DEF Inv
<1>1. CASE UNCHANGED vars
  BY <1>1, BuffersKept DEF vars, writers, files
<1>2. CASE OtherStep
  <2>1. Run(Midnight)
    <3>1. ~Run(ShutdownBegin)
      BY DEF Run, ShutdownBegin
    <3>2. ~Run(ShutdownEnd)
      BY DEF Run, ShutdownEnd, PcInv
    <3> QED
      BY <1>2, <3>1, <3>2 DEF OtherStep
  <2> QED
    BY <2>1, BuffersKept DEF Run, Midnight, writers, files
<1>3. CASE SwapStep \/ WriterStep \/ LogStep
  <2>1. ~raced
    BY <1>3 DEF SwapStep, WriterStep, LogStep, Run
  <2>2. CASE SwapStep
    <3>1. running_' = running_
      BY <2>2 DEF SwapStep, Run, SwapBegin, SwapEnd, Notify
    <3> QED
      BY <2>1, <2>2, <3>1, SwapKeeps
  <2>3. CASE WriterStep
    <3>1. running_' = running_
      BY <2>3 DEF WriterStep, Run, Aim, Lock, Copy, WriterUnchanged
    <3> QED
      BY <2>1, <2>3, <3>1, WriterKeeps
  <2>4. CASE LogStep
    <3>1. running_' = running_
      BY <2>4 DEF LogStep, Run, LogLoop, LogDrain, Drain, Open, Write, Reset,
                  LogUnchanged
    <3> QED
      BY <2>1, <2>4, <3>1, LogKeeps
  <2> QED
    BY <1>3, <2>2, <2>3, <2>4
<1> QED
  BY <1>1, <1>2, <1>3, Actions

-----------------------------------------------------------------------------
(* Stretches of lines. *)

\* The elements of s followed by t, and of s followed by one more.
LEMMA Concat ==
    ASSUME NEW s \in Seq(Line), NEW t \in Seq(Line)
    PROVE  /\ s \o t \in Seq(Line) /\ DOMAIN (s \o t) = 1 .. Len(s) + Len(t)
           /\ DOMAIN s = 1 .. Len(s) /\ DOMAIN t = 1 .. Len(t)
           /\ Len(s) \in Nat /\ Len(t) \in Nat
           /\ \A i \in 1 .. Len(s) : (s \o t)[i] = s[i]
           /\ \A i \in Len(s) + 1 .. Len(s) + Len(t) :
                 (s \o t)[i] = t[i - Len(s)] /\ i - Len(s) \in 1 .. Len(t)
<1>1. /\ s \o t \in Seq(Line) /\ Len(s \o t) = Len(s) + Len(t)
      /\ Len(s) \in Nat /\ Len(t) \in Nat
      /\ \A i \in 1 .. Len(s) + Len(t) :
            (s \o t)[i] = IF i <= Len(s) THEN s[i] ELSE t[i - Len(s)]
  BY ConcatProperties, LenProperties
<1> QED
  BY <1>1, LenProperties

LEMMA ConcatStretch ==
    ASSUME NEW s \in Seq(Line), NEW t \in Seq(Line),
           Increasing(s), Increasing(t), Below(s, t)
    PROVE  Increasing(s \o t)
<1> SUFFICES ASSUME NEW i \in DOMAIN (s \o t), NEW j \in DOMAIN (s \o t), i < j
             PROVE  (s \o t)[i] < (s \o t)[j]
  BY DEF Increasing
<1>1. i \in 1 .. Len(s) \/ i \in Len(s) + 1 .. Len(s) + Len(t)
  BY Concat
<1>2. j \in 1 .. Len(s) \/ j \in Len(s) + 1 .. Len(s) + Len(t)
  BY Concat
<1>3. CASE i \in 1 .. Len(s) /\ j \in 1 .. Len(s)
  BY <1>3, Concat DEF Increasing
<1>4. CASE i \in 1 .. Len(s) /\ j \in Len(s) + 1 .. Len(s) + Len(t)
  BY <1>4, Concat DEF Below
<1>5. CASE i \in Len(s) + 1 .. Len(s) + Len(t) /\ j \in Len(s) + 1 .. Len(s) + Len(t)
  <2>1. i - Len(s) < j - Len(s)
    BY <1>5, Concat
  <2> QED
    BY <1>5, <2>1, Concat DEF Increasing
<1>6. ~(i \in Len(s) + 1 .. Len(s) + Len(t) /\ j \in 1 .. Len(s))
  BY Concat
<1> QED
  BY <1>1, <1>2, <1>3, <1>4, <1>5, <1>6

LEMMA ConcatBounds ==
    ASSUME NEW s \in Seq(Line), NEW t \in Seq(Line), NEW u \in Seq(Line), NEW n \in Nat
    PROVE  /\ Below(s, u) /\ Below(t, u) => Below(s \o t, u)
           /\ UpTo(s, n) /\ UpTo(t, n) => UpTo(s \o t, n)
<1>1. \A i \in DOMAIN (s \o t) : \/ \E k \in DOMAIN s : (s \o t)[i] = s[k]
                                 \/ \E k \in DOMAIN t : (s \o t)[i] = t[k]
  <2> TAKE i \in DOMAIN (s \o t)
  <2>1. i \in 1 .. Len(s) \/ i \in Len(s) + 1 .. Len(s) + Len(t)
    BY Concat
  <2> QED
    BY <2>1, Concat
<1> QED
  BY <1>1 DEF Below, UpTo

LEMMA LinesAreNumbers ==
    ASSUME NEW s \in Seq(Line)
    PROVE  \A i \in DOMAIN s : s[i] \in Nat
<1>1. Line \subseteq Nat
  BY LoggerAssumption DEF Line
<1>2. \A i \in DOMAIN s : s[i] \in Line
  BY LenProperties, ElementOfSeq
<1> QED
  BY <1>1, <1>2

LEMMA AppendStretch ==
    ASSUME NEW s \in Seq(Line), NEW n \in Nat, Increasing(s), UpTo(s, n)
    PROVE  /\ Increasing(Append(s, n + 1)) /\ UpTo(Append(s, n + 1), n + 1)
           /\ \A t \in Seq(Line) : Below(t, s) /\ UpTo(t, n) => Below(t, Append(s, n + 1))
<1>1. /\ DOMAIN s = 1 .. Len(s) /\ Len(s) \in Nat
      /\ DOMAIN Append(s, n + 1) = 1 .. Len(s) + 1
      /\ \A i \in 1 .. Len(s) : Append(s, n + 1)[i] = s[i]
      /\ Append(s, n + 1)[Len(s) + 1] = n + 1
  <2>1. s \in Seq(Int) /\ n + 1 \in Int
    BY LoggerAssumption DEF Line
  <2> QED
    BY <2>1
<1>2. \A i \in DOMAIN s : s[i] \in Nat /\ s[i] < n + 1
  BY LinesAreNumbers DEF UpTo
<1>3. Increasing(Append(s, n + 1))
  BY <1>1, <1>2 DEF Increasing
<1>4. UpTo(Append(s, n + 1), n + 1)
  BY <1>1, <1>2 DEF UpTo
<1>5. ASSUME NEW t \in Seq(Line), Below(t, s), UpTo(t, n)
      PROVE  Below(t, Append(s, n + 1))
  <2>1. \A i \in DOMAIN t : t[i] < n + 1
    BY <1>5, LinesAreNumbers DEF UpTo
  <2> QED
    BY <1>1, <1>5, <2>1 DEF Below
<1> QED
  BY <1>3, <1>4, <1>5

LEMMA EmptyStretch ==
    /\ Increasing(<<>>)
    /\ \A n : UpTo(<<>>, n)
    /\ \A s : Below(s, <<>>) /\ Below(<<>>, s)
BY DEF Increasing, UpTo, Below

\* Every step keeps the stretches in order.
LEMMA StretchStep ==
    ASSUME Inv, StretchInv, [Next]_vars
    PROVE  StretchInv'
<1> SUFFICES ASSUME running_', ~raced'
             PROVE  Stretches(out, Older, Newer, logged)'
  BY DEF StretchInv
<1>1. running_ /\ ~raced /\ (Kept \/ Swapped \/ WrittenOut \/ Logged)
  BY BufferStep
<1>2. Stretches(out, Older, Newer, logged)
  BY <1>1 DEF StretchInv
<1>3. /\ out \in Seq(Line) /\ Older \in Seq(Line) /\ Newer \in Seq(Line)
      /\ logged \in Nat
  BY BuffersType, LoggerAssumption DEF Inv, TypeOK
<1>4. CASE Kept
  BY <1>2, <1>4 DEF Kept, Stretches
<1>5. CASE Swapped
  BY <1>2, <1>5, EmptyStretch DEF Swapped, Stretches
<1>6. CASE WrittenOut
  <2>1. /\ Increasing(out \o Older) /\ Below(out \o Older, Newer)
        /\ UpTo(out \o Older, logged)
    BY <1>2, <1>3, ConcatStretch, ConcatBounds DEF Stretches
  <2> QED
    BY <1>2, <1>6, <2>1, EmptyStretch DEF WrittenOut, Stretches
<1>7. CASE Logged
  <2>1. /\ Increasing(Append(Newer, logged + 1))
        /\ UpTo(Append(Newer, logged + 1), logged + 1)
        /\ Below(out, Append(Newer, logged + 1))
        /\ Below(Older, Append(Newer, logged + 1))
    BY <1>2, <1>3, AppendStretch DEF Stretches
  <2>2. UpTo(out, logged + 1) /\ UpTo(Older, logged + 1)
    <3>1. ASSUME NEW s \in Seq(Line), UpTo(s, logged) PROVE UpTo(s, logged + 1)
      BY <1>3, <3>1, LinesAreNumbers DEF UpTo
    <3> QED
      BY <1>2, <1>3, <3>1 DEF Stretches
  <2> QED
    BY <1>2, <1>7, <2>1, <2>2 DEF Logged, Stretches
<1> QED
  BY <1>1, <1>4, <1>5, <1>6, <1>7

\* However the swaps of the writers and of the log thread fall, no line is ever
\* written twice or out of order before Shutdown or the first data race.
THEOREM AlwaysWrittenInOrder == Spec => []WrittenInOrder
<1>1. Init => StretchInv
  <2>1. Init => out = <<>> /\ Older = <<>> /\ Newer = <<>>
    BY Names DEF Init, Older, Newer, backup_buffer_, Buffer
  <2> QED
    BY <2>1, EmptyStretch DEF StretchInv, Stretches
<1>2. StretchInv => WrittenInOrder
  BY DEF StretchInv, Stretches, Increasing, WrittenInOrder
<1> QED
  BY <1>1, <1>2, StretchStep, InvAlways, PTL DEF Spec

-----------------------------------------------------------------------------
(* No line is lost while only the log thread swaps. *)

LEMMA NeverSwapped ==
    ASSUME [Next]_vars, ~swapped'
    PROVE  ~swapped
BY Actions DEF SwapStep, WriterStep, LogStep, OtherStep, Run, SwapBegin,
   SwapEnd, Notify, Aim, Lock, Copy, WriterUnchanged, LogLoop, LogDrain, Drain,
   Open, Write, Reset, LogUnchanged, ShutdownBegin, ShutdownEnd, Midnight, vars

LEMMA SoleStep ==
    ASSUME Inv, SoleInv, [Next]_vars
    PROVE  SoleInv'
<1> SUFFICES ASSUME running_', ~raced', ~swapped'
             PROVE  /\ \A w \in Writer : pc'[w] \in {"idle", "lock", "swap", "copy"}
                    /\ pc'["log"] \in {"loop", "waiting", "swapping"} =>
                          contents'[backup_buffer_'] = <<>>
  BY DEF SoleInv
<1> USE Names
<1>1. TypeOK /\ PcInv /\ running_ /\ ~raced /\ ~swapped
  BY BufferStep, NeverSwapped DEF Inv
<1>2. pc["main"] = "run" /\ pc["log"] \notin {"exit1", "exit2"}
  BY <1>1 DEF PcInv
<1>3. CASE UNCHANGED vars
  BY <1>1, <1>3 DEF SoleInv, vars, writers, files, backup_buffer_
<1>4. CASE SwapStep
  <2>1. PICK t \in Thread : Run(SwapBegin(t)) \/ Run(SwapEnd(t)) \/ Run(Notify(t))
    BY <1>4 DEF SwapStep
  <2>2. pc[t] \in {"swap", "swapping", "notify"}
    BY <2>1 DEF Run, SwapBegin, SwapEnd, Notify
  <2>3. ~Run(SwapBegin(t))
    <3>1. t # "log" \/ pc[t] # "swap"
      BY <1>1 DEF TypeOK, LogSteps
    <3> QED
      BY <3>1 DEF Run, SwapBegin
  <2>4. t = "log"
    BY <1>1, <1>2, <2>1, <2>2, <2>3 DEF SoleInv, Thread, Run, SwapEnd, Notify
  <2>5. Run(SwapEnd("log"))
    BY <1>1, <2>1, <2>3, <2>4 DEF Run, Notify, TypeOK, LogSteps
  <2>6. pc'["log"] = "size" /\ \A w \in Writer : pc'[w] = pc[w]
    BY <1>1, <2>5, Moves DEF Run, SwapEnd
  <2> QED
    BY <1>1, <2>2, <2>6 DEF SoleInv
<1>5. CASE WriterStep
  <2>1. PICK w \in Writer : Run(Aim(w)) \/ Run(Lock(w)) \/ Run(Copy(w))
    BY <1>5 DEF WriterStep
  <2>2. UNCHANGED active_buffer_
    BY <2>1 DEF Run, Aim, Lock, Copy, WriterUnchanged
  <2>3. pc[w] \in {"idle", "lock", "swap", "copy"}
    BY <1>1, <2>2 DEF SoleInv
  <2>4. PICK step \in {"lock", "copy", "swap", "idle"} : Goto(w, step)
    BY <2>1, <2>3 DEF Run, Aim, Lock, LockFirst, LockSecond, Copy, Return
  <2>5. /\ pc'["log"] = pc["log"] /\ pc'[w] = step
        /\ \A v \in Writer : v # w => pc'[v] = pc[v]
    BY <1>1, <2>4, Moves
  <2>6. contents'[backup_buffer_] = contents[backup_buffer_]
    <3>1. \/ contents' = contents
          \/ \E s : contents' = [contents EXCEPT ![active_buffer_] = s]
      BY <2>1 DEF Run, Aim, Lock, Copy
    <3> QED
      BY <1>1, <3>1, BuffersType DEF TypeOK
  <2>7. backup_buffer_' = backup_buffer_
    BY <2>2 DEF backup_buffer_
  <2>8. \A v \in Writer : pc'[v] \in {"idle", "lock", "swap", "copy"}
    BY <1>1, <2>2, <2>5 DEF SoleInv
  <2> QED
    BY <1>1, <2>2, <2>5, <2>6, <2>7, <2>8 DEF SoleInv
<1>6. CASE LogStep
  <2>1. UNCHANGED active_buffer_
    BY <1>6 DEF LogStep, Run, LogLoop, LogDrain, Drain, Open, Write, Reset,
                LogUnchanged
  <2>2. \E step : Goto("log", step)
    BY <1>6 DEF LogStep, Run, LogLoop, LogDrain, Drain, Open, Write, Reset
  <2>3. \A w \in Writer : pc'[w] = pc[w]
    BY <1>1, <2>2, Moves
  <2>4. backup_buffer_' = backup_buffer_
    BY <2>1 DEF backup_buffer_
  <2>5. ASSUME pc'["log"] \in {"loop", "waiting", "swapping"}
        PROVE  contents'[backup_buffer_] = <<>>
    <3>1. CASE Run(LogLoop)
      <4>1. contents' = contents /\ pc["log"] \in {"loop", "waiting"}
        BY <3>1 DEF Run, LogLoop
      <4> QED
        BY <1>1, <2>1, <4>1 DEF SoleInv
    <3>2. CASE Run(LogDrain)
      <4>1. PICK step \in {"open", "loop"} : Called(backup_buffer_, "reset", step)
        BY <1>1, <1>2, <3>2, DrainStep
      <4>2. pc'["log"] = step
        BY <1>1, <4>1, Moves DEF Called
      <4> QED
        BY <2>5, <4>1, <4>2 DEF Called
    <3>3. CASE Run(Open)
      BY <1>1, <2>5, <3>3, Moves DEF Run, Open
    <3>4. CASE Run(Write)
      <4>1. pc'["log"] = chunk.next
        BY <1>1, <3>4, Moves DEF Run, Write
      <4> QED
        BY <1>1, <2>5, <4>1 DEF PcInv
    <3>5. CASE Run(Reset)
      BY <1>1, <3>5, BuffersType DEF Run, Reset, TypeOK
    <3> QED
      BY <1>6, <3>1, <3>2, <3>3, <3>4, <3>5 DEF LogStep
  <2> QED
    BY <1>1, <2>1, <2>3, <2>4, <2>5 DEF SoleInv
<1>7. CASE OtherStep
  <2>1. Run(Midnight)
    <3>1. ~Run(ShutdownBegin)
      BY DEF Run, ShutdownBegin
    <3>2. ~Run(ShutdownEnd)
      BY <1>2 DEF Run, ShutdownEnd
    <3> QED
      BY <1>7, <3>1, <3>2 DEF OtherStep
  <2> QED
    BY <1>1, <2>1 DEF SoleInv, Run, Midnight, backup_buffer_
<1> QED
  BY <1>3, <1>4, <1>5, <1>6, <1>7, Actions

LEMMA OneMore ==
    ASSUME NEW n \in Nat
    PROVE  Append(Numbered(n), n + 1) = Numbered(n + 1) /\ Numbered(n) \in Seq(Nat)
<1>1. /\ Numbered(n) \in Seq(Nat) /\ Len(Numbered(n)) = n
      /\ Numbered(n + 1) \in Seq(Nat) /\ Len(Numbered(n + 1)) = n + 1
  BY IsASeq, LenProperties DEF Numbered
<1>2. /\ Append(Numbered(n), n + 1) \in Seq(Nat)
      /\ Len(Append(Numbered(n), n + 1)) = n + 1
      /\ \A i \in 1 .. n : Append(Numbered(n), n + 1)[i] = Numbered(n)[i]
      /\ Append(Numbered(n), n + 1)[n + 1] = n + 1
  BY <1>1, AppendProperties
<1>3. \A i \in 1 .. n + 1 : Append(Numbered(n), n + 1)[i] = Numbered(n + 1)[i]
  BY <1>2 DEF Numbered
<1> QED
  BY <1>1, <1>2, <1>3, SeqEqual

LEMMA LostStep ==
    ASSUME Inv, SoleInv, LostInv, [Next]_vars
    PROVE  LostInv'
<1> SUFFICES ASSUME running_', ~raced', ~swapped'
             PROVE  out' \o (Older' \o Newer') = Numbered(logged')
  BY DEF LostInv, Numbered
<1>1. running_ /\ ~raced /\ (Kept \/ Swapped \/ WrittenOut \/ Logged)
  BY BufferStep
<1>2. ~swapped
  BY NeverSwapped
<1>3. out \o (Older \o Newer) = Numbered(logged)
  BY <1>1, <1>2 DEF LostInv
<1>4. /\ out \in Seq(Nat) /\ Older \in Seq(Nat) /\ Newer \in Seq(Nat)
      /\ logged \in Nat
  <2>1. Line \subseteq Nat
    BY LoggerAssumption DEF Line
  <2>2. out \in Seq(Line) /\ Older \in Seq(Line) /\ Newer \in Seq(Line)
    BY BuffersType DEF Inv, TypeOK
  <2>3. logged \in Nat
    BY LoggerAssumption DEF Inv, TypeOK
  <2> QED
    BY <2>1, <2>2, <2>3, SeqMonotonic
<1>5. CASE Kept
  BY <1>3, <1>5 DEF Kept
<1>6. CASE Swapped
  <2>1. pc["log"] = "swapping"
    BY <1>1, <1>2, <1>6 DEF Swapped, SoleInv
  <2>2. Older = <<>>
    BY <1>1, <1>2, <2>1 DEF SoleInv, Older
  <2>3. Older \o Newer = Newer /\ Newer \o <<>> = Newer
    BY <1>4, <2>2, ConcatEmptySeq
  <2> QED
    BY <1>3, <1>6, <2>3 DEF Swapped
<1>7. CASE WrittenOut
  <2>1. (out \o Older) \o Newer = out \o (Older \o Newer) /\ <<>> \o Newer = Newer
    BY <1>4, ConcatAssociative, ConcatEmptySeq
  <2> QED
    BY <1>3, <1>7, <2>1 DEF WrittenOut
<1>8. CASE Logged
  <2>1. /\ Older \o Append(Newer, logged + 1) = Append(Older \o Newer, logged + 1)
        /\ Older \o Newer \in Seq(Nat)
    BY <1>4
  <2>2. out \o Append(Older \o Newer, logged + 1)
           = Append(out \o (Older \o Newer), logged + 1)
    BY <1>4, <2>1
  <2> QED
    BY <1>3, <1>4, <1>8, <2>1, <2>2, OneMore DEF Logged
<1> QED
  BY <1>1, <1>5, <1>6, <1>7, <1>8

\* As long as no thread that logs swaps the buffers, every line is in the log
\* once and in its place or still in a buffer, wherever the rounds of the log
\* thread fall between the steps of the writers.
THEOREM NothingIsEverLost == Spec => []NothingLost
<1>1. Init => SoleInv /\ LostInv
  <2> SUFFICES ASSUME Init PROVE SoleInv /\ LostInv
    OBVIOUS
  <2>1. /\ out = <<>> /\ Older = <<>> /\ Newer = <<>> /\ logged = 0
        /\ contents[backup_buffer_] = <<>>
    BY Names DEF Init, Older, Newer, backup_buffer_, Buffer
  <2>2. \A w \in Writer : pc[w] = "idle"
    BY Names DEF Init
  <2>3. <<>> \o (<<>> \o <<>>) = Numbered(0)
    <3>1. <<>> \o <<>> = <<>>
      BY ConcatEmptySeq
    <3>2. Numbered(0) \in Seq(Nat) /\ Len(Numbered(0)) = 0
      BY IsASeq, LenProperties DEF Numbered
    <3> QED
      BY <3>1, <3>2, EmptySeq
  <2> QED
    BY <2>1, <2>2, <2>3 DEF SoleInv, LostInv
<1>2. LostInv => NothingLost
  BY DEF LostInv, NothingLost, Unwritten, Older, Newer, Numbered
<1> QED
  BY <1>1, <1>2, SoleStep, LostStep, InvAlways, PTL DEF Spec

=============================================================================
