-------------------------------- MODULE Logger --------------------------------
(***************************************************************************)
(* util::Logger: the threads that log (WriteLog), the log thread           *)
(* (LogThreadFunc) and the main thread, whose static destructor ~Logger    *)
(* calls Shutdown.                                                         *)
(*                                                                         *)
(* Two LogBuffers change places in SwapBuffers.  A writer locks the mutex  *)
(* of the buffer it finds active, the log thread locks cv_mutex_, and      *)
(* nothing guards active_buffer_ and backup_buffer_ themselves.  When one  *)
(* thread is inside SwapBuffers or copying a line and another one gets at  *)
(* the same buffers, there is a data race, and a thread that logs after    *)
(* ~Logger uses what is destroyed: anything may happen then, the model     *)
(* stops and no property says anything about it.  All other orders of the  *)
(* threads' steps are behaviours.                                          *)
(*                                                                         *)
(* A line is one unit of a buffer, numbered when it is copied there.       *)
(* Nothing in the program calls Fatal, and nothing but Shutdown Flush.     *)
(***************************************************************************)
EXTENDS Integers, Sequences, SequencesExt

CONSTANTS
    Writer,         \* the threads that log
    MaxLines,       \* a bound on the lines they log
    Capacity,       \* buffer_capacity_, in lines
    MaxFileSize,    \* max_log_file_size_, in lines
    MaxDay,         \* a bound on the calendar
    None            \* no thread, no buffer, no open file

ASSUME LoggerAssumption ==
    /\ Writer \cap {"log", "main"} = {}
    /\ MaxLines \in Nat /\ Capacity \in Nat \ {0}
    /\ MaxFileSize \in Nat \ {0} /\ MaxDay \in Nat \ {0}

Thread == Writer \cup {"log", "main"}
Buffer == {1, 2}
Line == 0 .. MaxLines      \* 0: logged during Shutdown

VARIABLES
    active_buffer_,
    contents,       \* the lines in each buffer: their number is its size
    mutex,          \* who holds LogBuffer::mutex
    running_,
    pc,             \* where each thread is
    lines,          \* how many lines have been begun
    aim,            \* the buffer whose mutex a writer asks for
    chunk,          \* the arguments of WriteToFile, its date, and its caller
    current_date_, log_file_, current_log_file_size_,   \* log_file_: its day
    day,            \* the calendar
    out,            \* what WriteToFile has written, to the console as well
    logged,         \* how many lines were logged before Shutdown
    swapped,        \* has a thread other than the log thread swapped?
    raced           \* has there been a data race, or a use after ~Logger?

writers == <<mutex, lines, aim, logged>>
files == <<chunk, current_date_, log_file_, current_log_file_size_, out>>
vars == <<active_buffer_, contents, writers, files, running_, pc, day,
          swapped, raced>>

backup_buffer_ == 3 - active_buffer_

NoChunk == [buf |-> None, n |-> 0, date |-> 0, next |-> "reset"]

WriterSteps == {"idle", "lock", "swap", "swapping", "notify", "relock", "lock2",
                "copy"}
LogSteps == {"loop", "waiting", "swapping", "size", "open", "write",
             "reset", "exit1", "exit2", "done"}
MainSteps == {"run", "swap", "swapping", "notify", "join", "closed"}

\* The steps in which a thread is at a buffer, reads active_buffer_ or
\* backup_buffer_, reads active_buffer_->size.
BufferSteps == {"swapping", "copy", "size", "open", "write", "reset"}
ReadSteps == {"idle", "lock", "relock", "lock2", "exit1", "exit2"}
SizeSteps == {"lock", "lock2", "exit1"}

\* Every variable has its type.
TypeOK ==
    /\ active_buffer_ \in Buffer
    /\ contents \in [Buffer -> Seq(Line)]
    /\ mutex \in [Buffer -> Writer \cup {None}]
    /\ running_ \in BOOLEAN
    /\ \A w \in Writer : pc[w] \in WriterSteps
    /\ pc["log"] \in LogSteps /\ pc["main"] \in MainSteps
    /\ lines \in 0 .. MaxLines /\ logged \in 0 .. MaxLines
    /\ aim \in [Writer -> Buffer \cup {None}]
    /\ chunk \in [buf : Buffer \cup {None}, n : Nat, date : 0 .. MaxDay,
                  next : {"reset", "exit2", "done"}]
    /\ current_date_ \in 0 .. MaxDay /\ log_file_ \in (1 .. MaxDay) \cup {None}
    /\ current_log_file_size_ \in Nat /\ day \in 1 .. MaxDay
    /\ out \in Seq(Line)
    /\ swapped \in BOOLEAN /\ raced \in BOOLEAN

GetLogFilePath == day

\* The file of the day is opened to append to it, and may have any length, or
\* this fails: then tellp returns -1, which is SIZE_MAX and past every limit.
InitLogFile ==
    \/ log_file_ = GetLogFilePath /\ current_log_file_size_ \in 0 .. MaxFileSize
    \/ log_file_ = None /\ current_log_file_size_ = MaxFileSize

Init ==
    /\ active_buffer_ = 1 /\ contents = [b \in Buffer |-> <<>>]
    /\ mutex = [b \in Buffer |-> None] /\ running_ = TRUE
    /\ pc = [t \in Thread |-> CASE t = "log" -> "loop"
                                [] t = "main" -> "run" [] OTHER -> "idle"]
    /\ lines = 0 /\ logged = 0 /\ aim = [w \in Writer |-> None]
    /\ chunk = NoChunk
    /\ day = 1 /\ current_date_ = 0 /\ InitLogFile
    /\ out = <<>>
    /\ swapped = FALSE /\ raced = FALSE

Goto(t, step) == pc' = [pc EXCEPT ![t] = step]

-----------------------------------------------------------------------------
(* SwapBuffers, with no lock of its own *)

SwapBegin(t) ==
    /\ pc[t] = "swap" /\ Goto(t, "swapping")
    /\ swapped' = (swapped \/ t # "log")
    /\ UNCHANGED <<active_buffer_, contents, writers, files, running_,
                   day>>

\* Mutant: active_buffer_->size is not set to 0.
EmptiedNot(s) == s

\* The buffer that becomes active is emptied.
Emptied(s) == <<>>

SwapEnd(t) ==
    /\ pc[t] = "swapping" /\ Goto(t, IF t = "log" THEN "size" ELSE "notify")
    /\ active_buffer_' = backup_buffer_
    /\ contents' = [contents EXCEPT ![backup_buffer_] = Emptied(@)]
    /\ UNCHANGED <<writers, files, running_, day, swapped>>

\* LogThreadFunc holds cv_mutex_ from the end of wait_for to the end of the
\* iteration; other threads hold it for no more than a notification.
CvLocked ==
    \/ pc["log"] \in {"swapping", "size", "reset"}
    \/ pc["log"] \in {"open", "write"} /\ chunk.next = "reset"

\* The notification of a writer or of Flush.  The log thread may wake up without
\* it at any time: all that counts is that cv_mutex_ must be free.
Notify(t) ==
    /\ pc[t] = "notify" /\ ~CvLocked
    /\ Goto(t, IF t = "main" THEN "join" ELSE "relock")
    /\ UNCHANGED <<active_buffer_, contents, writers, files, running_,
                   day, swapped>>

SwapBuffers(t) == SwapBegin(t) \/ SwapEnd(t)

-----------------------------------------------------------------------------
(* WriteLog, for a line whose level is not below log_level_ *)

WriterUnchanged ==
    UNCHANGED <<active_buffer_, files, running_, day, swapped>>

\* The line is composed and active_buffer_ is read; and read again, after a swap,
\* for the second guard.  Other threads may begin a line also during Shutdown.
Aim(w) ==
    /\ \/ /\ pc[w] = "idle" /\ lines < MaxLines /\ Goto(w, "lock")
          /\ lines' = lines + 1
       \/ pc[w] = "relock" /\ Goto(w, "lock2") /\ UNCHANGED lines
    /\ aim' = [aim EXCEPT ![w] = active_buffer_]
    /\ UNCHANGED <<contents, mutex, logged>> /\ WriterUnchanged

\* WriteLog returns and releases the first mutex: the second one, whose guard is
\* local to the block of the swap, is free again since the end of that block.
Return(w) ==
    /\ Goto(w, "idle")
    /\ mutex' = [b \in Buffer |-> IF mutex[b] = w THEN None ELSE mutex[b]]
    /\ aim' = [aim EXCEPT ![w] = None]

\* Is there room in the buffer that is active by now?
Fits == Len(contents[active_buffer_]) + 1 <= Capacity

\* The mutex of the buffer that was active then is locked, and kept.  A full
\* buffer is swapped.
LockFirst(w) ==
    /\ pc[w] = "lock" /\ mutex[aim[w]] = None
    /\ mutex' = [mutex EXCEPT ![aim[w]] = w]
    /\ Goto(w, IF Fits THEN "copy" ELSE "swap")
    /\ UNCHANGED aim

\* Mutant: after the swap the line is taken to fit.
LockSecondOnly(w) ==
    pc[w] = "lock2" /\ mutex[aim[w]] = None /\ Goto(w, "copy") /\ UNCHANGED <<mutex, aim>>

\* The second mutex is locked for the test alone.  It may be the one the writer
\* has: then it waits for itself.  If the line still does not fit it is dropped.
LockSecond(w) ==
    /\ pc[w] = "lock2" /\ mutex[aim[w]] = None
    /\ \/ Fits /\ Goto(w, "copy") /\ UNCHANGED <<mutex, aim>>
       \/ ~Fits /\ Return(w)

Lock(w) ==
    /\ LockFirst(w) \/ LockSecond(w)
    /\ UNCHANGED <<contents, lines, logged>> /\ WriterUnchanged

\* memcpy, and size += log_line_size
Copy(w) ==
    /\ pc[w] = "copy" /\ Return(w)
    /\ logged' = IF running_ THEN logged + 1 ELSE logged
    /\ contents' = [contents EXCEPT
                      ![active_buffer_] = Append(@, IF running_ THEN logged' ELSE 0)]
    /\ UNCHANGED lines /\ WriterUnchanged

WriteLog(w) ==
    Aim(w) \/ Lock(w) \/ SwapBuffers(w) \/ Notify(w) \/ Copy(w)

-----------------------------------------------------------------------------
(* LogThreadFunc and WriteToFile *)

LogUnchanged == UNCHANGED <<active_buffer_, writers, running_, day, swapped>>

\* Mutant: the loop does not end.
LoopForever == TRUE

LoopCondition == running_

\* wait_for ends with a notification or after 3 seconds.
LogLoop ==
    /\ \/ /\ pc["log"] = "loop"
          /\ Goto("log", IF LoopCondition THEN "waiting" ELSE "exit1")
       \/ pc["log"] = "waiting" /\ Goto("log", "swapping")
    /\ UNCHANGED <<contents, files>> /\ LogUnchanged

\* Mutant: off by one.
WorthWritingTwo(b) == Len(contents[b]) > 1

\* Is there something to write?
WorthWriting(b) == Len(contents[b]) > 0

\* The call of WriteToFile for buffer b, which reads the date, or the step after
\* it.
Drain(b, after, otherwise) ==
    /\ \/ /\ WorthWriting(b) /\ Goto("log", "open")
          /\ chunk' = [buf |-> b, n |-> Len(contents[b]), date |-> day, next |-> after]
       \/ ~WorthWriting(b) /\ Goto("log", otherwise) /\ UNCHANGED chunk
    /\ UNCHANGED <<contents, current_date_, log_file_, current_log_file_size_, out>>
    /\ LogUnchanged

LogDrain ==
    \/ pc["log"] = "size" /\ Drain(backup_buffer_, "reset", "loop")
    \/ pc["log"] = "exit1" /\ Drain(active_buffer_, "exit2", "exit2")
    \/ pc["log"] = "exit2" /\ Drain(backup_buffer_, "done", "done")

\* Mutant: the date is never compared.
SameDate == FALSE

NewDate == chunk.date # current_date_

\* CheckLogFileSize
TooLong == current_log_file_size_ >= MaxFileSize

\* RotateLogFile opens the file of the day, also when the old one, which may be
\* the same, is too long.  This can fail.
Open ==
    /\ pc["log"] = "open" /\ Goto("log", "write")
    /\ current_date_' = chunk.date
    /\ \/ /\ NewDate \/ TooLong
          /\ log_file_' \in {GetLogFilePath, None} /\ current_log_file_size_' = 0
       \/ /\ ~NewDate /\ ~TooLong
          /\ UNCHANGED <<log_file_, current_log_file_size_>>
    /\ UNCHANGED <<contents, chunk, out>> /\ LogUnchanged

Write ==
    /\ pc["log"] = "write" /\ Goto("log", chunk.next)
    /\ out' = out \o SubSeq(contents[chunk.buf], 1, chunk.n)
    /\ current_log_file_size_' =
          current_log_file_size_ + IF log_file_ = None THEN 0 ELSE chunk.n
    /\ chunk' = NoChunk
    /\ UNCHANGED <<contents, current_date_, log_file_>> /\ LogUnchanged

\* backup_buffer_->size = 0
Reset ==
    /\ pc["log"] = "reset" /\ Goto("log", "loop")
    /\ contents' = [contents EXCEPT ![backup_buffer_] = <<>>]
    /\ UNCHANGED files /\ LogUnchanged

LogThread == LogLoop \/ SwapBuffers("log") \/ LogDrain \/ Open \/ Write \/ Reset

-----------------------------------------------------------------------------
(* Shutdown *)

ShutdownBegin ==
    /\ pc["main"] = "run" /\ Goto("main", "swap")
    /\ running_' = FALSE
    /\ UNCHANGED <<active_buffer_, contents, writers, files, day, swapped>>

\* After Flush the log thread is joined and the file closed.
ShutdownEnd ==
    /\ pc["main"] = "join" /\ pc["log"] = "done" /\ Goto("main", "closed")
    /\ log_file_' = None
    /\ UNCHANGED <<active_buffer_, contents, writers, chunk, current_date_,
                   current_log_file_size_, out, running_, day, swapped>>

Shutdown == SwapBuffers("main") \/ Notify("main") \/ ShutdownEnd

-----------------------------------------------------------------------------

\* The date is read nowhere else.
Midnight ==
    /\ pc["log"] \in {"size", "open", "write"} /\ day < MaxDay /\ day' = day + 1
    /\ UNCHANGED <<active_buffer_, contents, writers, files, running_,
                   pc, swapped>>

\* Two threads are at the same buffers: in SwapBuffers and in anything else, or
\* both copying, or copying to what the log thread writes when it ends.
Racing ==
    \/ \E t \in Thread : /\ pc[t] = "swapping"
                         /\ \E u \in Thread \ {t} : pc[u] \in BufferSteps
    \/ \E t \in Writer : /\ pc[t] = "copy"
                         /\ \/ \E u \in Writer \ {t} : pc[u] = "copy"
                            \/ /\ pc["log"] \in {"open", "write"}
                               /\ chunk.buf = active_buffer_

\* This step reads active_buffer_ or backup_buffer_ while another thread is in
\* SwapBuffers, where they are null for a moment, or the size of the buffer that
\* another thread copies to.
RacyRead ==
    \/ \E t \in Thread : /\ pc[t] = "swapping"
                         /\ \E u \in Thread \ {t} : pc[u] \in ReadSteps /\ pc'[u] # pc[u]
    \/ \E t \in Writer : /\ pc[t] = "copy"
                         /\ \E u \in Thread \ {t} : pc[u] \in SizeSteps /\ pc'[u] # pc[u]

\* This step is one of a writer, and the Logger is destroyed.
AfterDestruction == pc["main"] = "closed" /\ pc' # pc

Run(A) == ~raced /\ A /\ raced' = (Racing' \/ RacyRead \/ AfterDestruction)

Step(t) ==
    \/ t \in Writer /\ Run(WriteLog(t))
    \/ t = "log" /\ Run(LogThread)
    \/ t = "main" /\ Run(Shutdown)

Terminated == (raced \/ pc["main"] = "closed") /\ UNCHANGED vars

Next ==
    \/ \E t \in Thread : Step(t)
    \/ Run(ShutdownBegin) \/ Run(Midnight)
    \/ Terminated

Spec == Init /\ [][Next]_vars

\* The log thread runs, and the main thread once it is in Shutdown.  A writer
\* may stop anywhere, with a mutex locked.
FairSpec == Spec /\ WF_vars(Step("log")) /\ WF_vars(Step("main"))

-----------------------------------------------------------------------------

Unwritten ==
    (IF pc["log"] = "reset" THEN <<>> ELSE contents[backup_buffer_])
        \o contents[active_buffer_]

\* As long as only the log thread swaps the buffers, every line is written once
\* and in the order of logging, however its rounds fall between the steps of the
\* writers: what has been written and what the buffers hold is what was logged.
NothingLost ==
    running_ /\ ~raced /\ ~swapped => out \o Unwritten = [i \in 1 .. logged |-> i]

\* No line runs past the end of a buffer.  A writer that has swapped holds no
\* mutex of the buffer it fills, and the log thread takes none; but the room that
\* it found is taken by no other thread without a data race.
RoomIsKept ==
    ~raced => \A w \in Writer : pc[w] = "copy" => Len(contents[active_buffer_]) < Capacity

\* A writer that swaps a full buffer loses lines, but it never makes the log
\* thread write a line twice or out of order.
WrittenInOrder ==
    running_ /\ ~raced => \A i, j \in DOMAIN out : i < j => out[i] < out[j]

\* The log is split by days: what WriteToFile writes never goes to the file of
\* a day before the one on which it was called.
FileOfTheDay ==
    pc["log"] = "write" /\ log_file_ # None => log_file_ \in chunk.date .. day

\* Every line in a buffer is written in the end, with no writer to notify the
\* log thread, unless another thread swaps the buffers.
LineIsWritten ==
    \A l \in 1 .. MaxLines : logged >= l ~> l \in Range(out) \/ swapped \/ raced

\* Shutdown returns, whatever the writers do and also if one of them waits for
\* itself with a buffer's mutex locked.
ShutdownReturns == pc["main"] # "run" ~> pc["main"] = "closed" \/ raced

\* "Write any remaining data before exiting": what was logged before Shutdown
\* has been written when it returns.
RemainingIsWritten == pc["main"] = "closed" => 1 .. logged \subseteq Range(out)

=============================================================================
