---------------------------- MODULE AnalysisPool ----------------------------
(***************************************************************************)
(* The thread pools of the feature indexer.                                *)
(*                                                                         *)
(* analyzePending() and analyzeFeatureRepresentatives() start workers that *)
(* take candidates from a shared counter, decode them, and put what they   *)
(* found in a queue that the calling thread empties.  The decode gate      *)
(* parks the workers above its target.  With staging, readers go ahead of  *)
(* the workers and hold the bytes of the next candidates within a budget.  *)
(*                                                                         *)
(* One mutex and one condition variable serve workers and caller.  A       *)
(* thread that finds its condition false holds the mutex until it sleeps;  *)
(* a notification wakes those asleep at that moment and no other.  What    *)
(* the conditions read outside the mutex (the stop flag, the counter, the  *)
(* target) changes at any time.  The staging buffer's own condition reads  *)
(* only what its mutex protects, and waiting for it is a guard here.       *)
(***************************************************************************)
EXTENDS Integers, Sequences

CONSTANTS
    MaxCount,       \* bound on the candidates, which are 0 .. call.count - 1
    Jobs,           \* the workers are 0 .. Jobs - 1, and the gate's cap
    Readers,        \* the staging threads
    Size,           \* the bytes of each candidate's file
    Format,         \* the extension of each candidate's file
    Budget,         \* the staging budget
    WindowSize,     \* the decodes the gate takes a median of
    Calls           \* the calls considered: how many candidates they are given, whether they stage,
                    \* whether the queue has room for Jobs only (analyzeFeatureRepresentatives), and a
                    \* bound on the spurious wakeups

Candidates == 0 .. MaxCount - 1
Workers == 0 .. Jobs - 1
Main == Jobs
Threads == 0 .. Jobs
None == -1
Formats == {Format[i] : i \in Candidates}

ASSUME PoolAssumption ==
    /\ MaxCount \in Nat \ {0} /\ Jobs \in Nat \ {0}
    /\ Size \in [Candidates -> Nat] /\ Format \in [Candidates -> Formats]
    /\ Budget \in Nat /\ WindowSize \in Nat \ {0}
    /\ Calls \subseteq [count : 1 .. MaxCount, staging : BOOLEAN, bounded : BOOLEAN, wakeups : Nat]

VARIABLES
    call,           \* which of the calls this is
    stop,           \* g_stopRequested
    nextIndex,      \* the workers' counter
    pc, work,       \* where each worker is, and the candidate it has
    mutex,          \* the thread that holds the mutex to go to sleep, or None
    asleep,         \* the threads that sleep on the condition variable
    completed,      \* the queue
    running,        \* runningWorkers
    main, taken,    \* where the caller is, and the analysis it took
    delivered,      \* what was given to the completion function
    analysed,       \* the candidates whose analysis was finished (for the properties)
    target, window, \* DecodeGate: the target, and how many decodes the window has
    spurious        \* the spurious wakeups so far

VARIABLES
    nextStaged,     \* the readers' counter
    rpc, rwork,     \* where each reader is, and its candidate
    want,           \* the bytes it asks the buffer for, of each candidate
    input,          \* StagedInput of each candidate
    staged,         \* StagingBuffer: the bytes granted
    nextTicket,     \* StagingBuffer: the ticket whose turn it is
    closed,         \* StagingBuffer: whether it was closed
    fallbacks       \* StagingFallbacks

workerVars == <<nextIndex, pc, work, running, analysed>>
waitVars == <<mutex, asleep, spurious>>
mainVars == <<main, taken, delivered, target, window>>
readerVars == <<nextStaged, rpc, rwork, want>>
stageVars == <<input, staged, nextTicket, closed, fallbacks>>
vars == <<call, stop, workerVars, waitVars, completed, mainVars, readerVars, stageVars>>

Input == [ready : BOOLEAN, bytes : BOOLEAN, granted : Nat]
Unread == [ready |-> FALSE, bytes |-> FALSE, granted |-> 0]

TypeOK ==
    /\ call \in Calls /\ stop \in BOOLEAN /\ nextIndex \in Nat /\ running \in 0 .. Jobs
    /\ pc \in [Workers -> {"top", "park", "claim", "await", "decode", "path", "retry", "push",
                           "pushed", "leave", "left", "done"}]
    /\ work \in [Workers -> Candidates \union {None}]
    /\ mutex \in Threads \union {None} /\ asleep \subseteq Threads /\ spurious \in 0 .. call.wakeups
    /\ completed \in Seq(Candidates) /\ delivered \in Seq(Candidates) /\ analysed \subseteq Candidates
    /\ main \in {"check", "complete", "gate", "join", "close", "joinReaders", "finished"}
    /\ taken \in Candidates \union {None}
    /\ target \in 1 .. Jobs /\ window \in 0 .. WindowSize - 1
    /\ nextStaged \in Nat /\ rpc \in [Readers -> {"top", "open", "acquire", "read", "done"}]
    /\ rwork \in [Readers -> Candidates \union {None}] /\ want \in [Candidates -> Nat]
    /\ input \in [Candidates -> Input] /\ staged \in Nat /\ nextTicket \in 0 .. call.count
    /\ closed \in BOOLEAN /\ fallbacks \subseteq Formats

Init ==
    /\ call \in Calls /\ stop = FALSE /\ nextIndex = 0 /\ running = Jobs
    /\ pc = [w \in Workers |-> "top"] /\ work = [w \in Workers |-> None]
    /\ mutex = None /\ asleep = {} /\ spurious = 0
    /\ completed = <<>> /\ delivered = <<>> /\ analysed = {}
    /\ main = "check" /\ taken = None /\ target = Jobs /\ window = 0
    /\ nextStaged = 0 /\ rpc = [r \in Readers |-> IF call.staging THEN "top" ELSE "done"] /\ rwork = [r \in Readers |-> None]
    /\ want = [i \in Candidates |-> 0] /\ input = [i \in Candidates |-> Unread]
    /\ staged = 0 /\ nextTicket = 0 /\ closed = FALSE /\ fallbacks = {}

-----------------------------------------------------------------------------
(* The condition variable. *)

\* Thread t can enter a critical section: it is awake and nobody is about to sleep.
CanLock(t) == mutex = None /\ t \notin asleep

\* It found its condition false, under the mutex, and has yet to sleep.
Doze(t) == mutex' = t /\ UNCHANGED <<asleep, spurious>>

NotifyAll == asleep' = {} /\ UNCHANGED <<mutex, spurious>>

\* wait() releases the mutex and sleeps at once.
Sleep(t) ==
    /\ mutex = t
    /\ mutex' = None /\ asleep' = asleep \union {t}
    /\ UNCHANGED <<call, stop, spurious, workerVars, completed, mainVars, readerVars, stageVars>>

SpuriousWakeup(t) ==
    /\ t \in asleep /\ spurious < call.wakeups
    /\ asleep' = asleep \ {t} /\ spurious' = spurious + 1
    /\ UNCHANGED <<call, stop, mutex, workerVars, completed, mainVars, readerVars, stageVars>>

-----------------------------------------------------------------------------
(* The staging buffer. *)

Fits(bytes) == staged = 0 \/ staged + bytes =< Budget

\* Mutant: the grant of dropped bytes is not forgotten.
ConsumedButGranted(i) == [input[i] EXCEPT !.bytes = FALSE]

\* consume(): the bytes are dropped and their grant goes back.  Consumed(i) is what it leaves.
Consumed(i) == [input[i] EXCEPT !.bytes = FALSE, !.granted = 0]
Release(bytes) == staged' = staged - bytes

-----------------------------------------------------------------------------
(* A worker. *)

Goto(w, place) == pc' = [pc EXCEPT ![w] = place]

Exhausted == nextIndex >= call.count

Top(w) ==
    /\ pc[w] = "top"
    /\ \/ stop /\ Goto(w, "leave")
       \/ ~stop /\ w >= target /\ Goto(w, "park")
       \/ ~stop /\ w < target /\ Goto(w, "claim")
    /\ UNCHANGED <<call, stop, nextIndex, work, running, analysed, waitVars, completed, mainVars,
                   readerVars, stageVars>>

Park(w) ==
    /\ pc[w] = "park" /\ CanLock(w)
    /\ \/ (stop \/ Exhausted) /\ Goto(w, "leave") /\ UNCHANGED waitVars
       \/ ~stop /\ ~Exhausted /\ w < target /\ Goto(w, "top") /\ UNCHANGED waitVars
       \/ ~stop /\ ~Exhausted /\ w >= target /\ Doze(w) /\ UNCHANGED pc
    /\ UNCHANGED <<call, stop, nextIndex, work, running, analysed, completed, mainVars, readerVars, stageVars>>

Claim(w) ==
    /\ pc[w] = "claim"
    /\ nextIndex' = nextIndex + 1
    /\ IF Exhausted
       THEN Goto(w, "leave") /\ UNCHANGED work
       ELSE Goto(w, IF call.staging THEN "await" ELSE "path") /\ work' = [work EXCEPT ![w] = nextIndex]
    /\ UNCHANGED <<call, stop, running, analysed, waitVars, completed, mainVars, readerVars, stageVars>>

\* waitFor(): the wait has a timeout, so that both conditions are looked at again.
Await(w) ==
    /\ pc[w] = "await"
    /\ LET i == work[w]
       IN \/ input[i].ready /\ input[i].bytes /\ Goto(w, "decode") /\ UNCHANGED work
          \/ input[i].ready /\ ~input[i].bytes /\ Goto(w, "path") /\ UNCHANGED work
          \/ ~input[i].ready /\ stop /\ Goto(w, "leave") /\ work' = [work EXCEPT ![w] = None]
    /\ UNCHANGED <<call, stop, nextIndex, running, analysed, waitVars, completed, mainVars, readerVars, stageVars>>

\* The staged bytes are decoded, or the decoder fails on them; they are consumed either way.
DecodeStaged(w) ==
    /\ pc[w] = "decode"
    /\ LET i == work[w]
       IN /\ input' = [input EXCEPT ![i] = Consumed(i)]
          /\ Release(input[i].granted)
          /\ \/ Goto(w, "push") /\ analysed' = analysed \union {i}
             \/ Goto(w, "retry") /\ UNCHANGED analysed
    /\ UNCHANGED <<call, stop, nextIndex, work, running, waitVars, completed, mainVars, readerVars,
                   nextTicket, closed, fallbacks>>

\* The file is decoded by its path, or cannot be: both are analyses.  After a failure on the bytes
\* a success says that the format cannot be staged.
DecodePath(w) ==
    /\ pc[w] \in {"path", "retry"}
    /\ analysed' = analysed \union {work[w]}
    /\ Goto(w, "push")
    /\ \/ pc[w] = "retry" /\ fallbacks' = fallbacks \union {Format[work[w]]}
       \/ UNCHANGED fallbacks
    /\ UNCHANGED <<call, stop, nextIndex, work, running, waitVars, completed, mainVars, readerVars,
                   input, staged, nextTicket, closed>>

HasRoom == ~call.bounded \/ Len(completed) < Jobs \/ stop

Push(w) ==
    /\ pc[w] = "push" /\ CanLock(w)
    /\ \/ HasRoom /\ completed' = Append(completed, work[w]) /\ work' = [work EXCEPT ![w] = None]
          /\ Goto(w, "pushed") /\ UNCHANGED waitVars
       \/ ~HasRoom /\ Doze(w) /\ UNCHANGED <<completed, pc, work>>
    /\ UNCHANGED <<call, stop, nextIndex, running, analysed, mainVars, readerVars, stageVars>>

Leave(w) ==
    /\ pc[w] = "leave" /\ CanLock(w)
    /\ running' = running - 1 /\ Goto(w, "left")
    /\ UNCHANGED <<call, stop, nextIndex, work, analysed, waitVars, completed, mainVars, readerVars, stageVars>>

\* Mutant: a worker leaves silently.
NotifyPushed(w) ==
    /\ \/ pc[w] = "pushed" /\ Goto(w, "top") /\ NotifyAll
       \/ pc[w] = "left" /\ Goto(w, "done") /\ UNCHANGED waitVars
    /\ UNCHANGED <<call, stop, nextIndex, work, running, analysed, completed, mainVars, readerVars, stageVars>>

\* The notification that follows a push, and the one that follows the leave.
Notify(w) ==
    /\ \/ pc[w] = "pushed" /\ Goto(w, "top")
       \/ pc[w] = "left" /\ Goto(w, "done")
    /\ NotifyAll
    /\ UNCHANGED <<call, stop, nextIndex, work, running, analysed, completed, mainVars, readerVars, stageVars>>

Worker(w) ==
    \/ Top(w) \/ Park(w) \/ Claim(w) \/ Await(w) \/ DecodeStaged(w) \/ DecodePath(w) \/ Push(w)
    \/ Leave(w) \/ Notify(w) \/ Sleep(w)

-----------------------------------------------------------------------------
(* The calling thread. *)

\* Mutant: the caller goes on when all workers have left, whatever is in the queue.
CheckRunning ==
    /\ main = "check" /\ CanLock(Main)
    /\ \/ /\ running # 0 /\ completed # <<>>
          /\ taken' = Head(completed) /\ completed' = Tail(completed) /\ main' = "complete"
          /\ IF call.bounded THEN NotifyAll ELSE UNCHANGED waitVars
       \/ running = 0 /\ main' = "join" /\ UNCHANGED <<taken, completed, waitVars>>
       \/ completed = <<>> /\ running # 0 /\ Doze(Main) /\ UNCHANGED <<main, taken, completed>>
    /\ UNCHANGED <<call, stop, workerVars, delivered, target, window, readerVars, stageVars>>

\* It takes an analysis out; or all workers have left and it goes on; or it waits.
Check ==
    /\ main = "check" /\ CanLock(Main)
    /\ \/ /\ completed # <<>>
          /\ taken' = Head(completed) /\ completed' = Tail(completed) /\ main' = "complete"
          /\ IF call.bounded THEN NotifyAll ELSE UNCHANGED waitVars
       \/ completed = <<>> /\ running = 0 /\ main' = "join" /\ UNCHANGED <<taken, completed, waitVars>>
       \/ completed = <<>> /\ running # 0 /\ Doze(Main) /\ UNCHANGED <<main, taken, completed>>
    /\ UNCHANGED <<call, stop, workerVars, delivered, target, window, readerVars, stageVars>>

\* recordDecodeMs(): a time of zero is not counted; a full window has a median that is slow,
\* fast or neither.
Record ==
    \/ main' = "check" /\ UNCHANGED <<target, window>>
    \/ window + 1 < WindowSize /\ window' = window + 1 /\ main' = "check" /\ UNCHANGED target
    \/ /\ window + 1 = WindowSize /\ window' = 0
       /\ \/ target > 1 /\ target' = target - 1 /\ main' = "gate"
          \/ target < Jobs /\ target' = target + 1 /\ main' = "gate"
          \/ main' = "check" /\ UNCHANGED target

Complete ==
    /\ main = "complete"
    /\ delivered' = Append(delivered, taken) /\ taken' = None
    /\ Record
    /\ UNCHANGED <<call, stop, workerVars, waitVars, completed, readerVars, stageVars>>

NotifyGate ==
    /\ main = "gate" /\ main' = "check"
    /\ NotifyAll
    /\ UNCHANGED <<call, stop, workerVars, completed, taken, delivered, target, window, readerVars, stageVars>>

Join ==
    /\ main = "join" /\ \A w \in Workers : pc[w] = "done"
    /\ main' = IF call.staging THEN "close" ELSE "finished"
    /\ UNCHANGED <<call, stop, workerVars, waitVars, completed, taken, delivered, target, window, readerVars,
                   stageVars>>

Close ==
    /\ main = "close" /\ main' = "joinReaders"
    /\ closed' = TRUE
    /\ UNCHANGED <<call, stop, workerVars, waitVars, completed, taken, delivered, target, window, readerVars,
                   input, staged, nextTicket, fallbacks>>

JoinReaders ==
    /\ main = "joinReaders" /\ \A r \in Readers : rpc[r] = "done"
    /\ main' = "finished"
    /\ UNCHANGED <<call, stop, workerVars, waitVars, completed, taken, delivered, target, window, readerVars,
                   stageVars>>

Caller == Check \/ Complete \/ NotifyGate \/ Join \/ Close \/ JoinReaders \/ Sleep(Main)

-----------------------------------------------------------------------------
(* A reader. *)

ReaderTop(r) ==
    /\ rpc[r] = "top"
    /\ \/ stop /\ rpc' = [rpc EXCEPT ![r] = "done"] /\ UNCHANGED <<nextStaged, rwork>>
       \/ /\ ~stop /\ nextStaged' = nextStaged + 1
          /\ IF nextStaged >= call.count
             THEN rpc' = [rpc EXCEPT ![r] = "done"] /\ UNCHANGED rwork
             ELSE /\ rpc' = [rpc EXCEPT ![r] = "open"]
                  /\ rwork' = [rwork EXCEPT ![r] = nextStaged]
    /\ UNCHANGED <<call, stop, workerVars, waitVars, completed, mainVars, want, stageVars>>

\* A format that fell back is not staged, nor a file that cannot be opened.
Open(r) ==
    /\ rpc[r] = "open" /\ rpc' = [rpc EXCEPT ![r] = "acquire"]
    /\ \/ Format[rwork[r]] \notin fallbacks /\ want' = [want EXCEPT ![rwork[r]] = Size[rwork[r]]]
       \/ UNCHANGED want
    /\ UNCHANGED <<call, stop, workerVars, waitVars, completed, mainVars, nextStaged, rwork, stageVars>>

\* Mutant: the budget is granted in any order.
AcquireAnyOrder(r) ==
    /\ rpc[r] = "acquire"
    /\ \/ /\ closed /\ rpc' = [rpc EXCEPT ![r] = "done"] /\ UNCHANGED <<staged, nextTicket>>
       \/ /\ ~closed /\ Fits(want[rwork[r]])
          /\ staged' = staged + want[rwork[r]] /\ nextTicket' = nextTicket + 1
          /\ rpc' = [rpc EXCEPT ![r] = "read"]
    /\ UNCHANGED <<call, stop, workerVars, waitVars, completed, mainVars, nextStaged, rwork, want, input,
                   closed, fallbacks>>

Acquire(r) ==
    /\ rpc[r] = "acquire"
    /\ \/ /\ closed /\ rpc' = [rpc EXCEPT ![r] = "done"] /\ UNCHANGED <<staged, nextTicket>>
       \/ /\ ~closed /\ rwork[r] = nextTicket /\ Fits(want[rwork[r]])
          /\ staged' = staged + want[rwork[r]] /\ nextTicket' = nextTicket + 1
          /\ rpc' = [rpc EXCEPT ![r] = "read"]
    /\ UNCHANGED <<call, stop, workerVars, waitVars, completed, mainVars, nextStaged, rwork, want, input,
                   closed, fallbacks>>

\* readAll() and markReady().  Bytes that could not be read are given back first.
Read(r) ==
    /\ rpc[r] = "read" /\ rpc' = [rpc EXCEPT ![r] = "top"]
    /\ LET i == rwork[r]
       IN /\ \/ /\ want[i] > 0
                /\ input' = [input EXCEPT ![i] = [ready |-> TRUE, bytes |-> TRUE, granted |-> want[i]]]
                /\ UNCHANGED staged
             \/ input' = [input EXCEPT ![i] = [Consumed(i) EXCEPT !.ready = TRUE]] /\ Release(want[i])
          /\ want' = [want EXCEPT ![i] = 0]
    /\ rwork' = [rwork EXCEPT ![r] = None]
    /\ UNCHANGED <<call, stop, workerVars, waitVars, completed, mainVars, nextStaged, nextTicket, closed,
                   fallbacks>>

Reader(r) == ReaderTop(r) \/ Open(r) \/ Acquire(r) \/ Read(r)

\* SIGINT or SIGTERM, at any time.
RequestStop ==
    /\ ~stop /\ stop' = TRUE
    /\ UNCHANGED <<call, workerVars, waitVars, completed, mainVars, readerVars, stageVars>>

Next ==
    \/ \E w \in Workers : Worker(w)
    \/ Caller
    \/ \E r \in Readers : Reader(r)
    \/ \E t \in Threads : SpuriousWakeup(t)
    \/ RequestStop

Spec == Init /\ [][Next]_vars

\* Every thread is scheduled, every decode ends and every read returns.
FairSpec ==
    /\ Spec
    /\ \A w \in Workers : WF_vars(Worker(w))
    /\ \A r \in Readers : WF_vars(Reader(r))
    /\ WF_vars(Caller)

-----------------------------------------------------------------------------
(* Properties. *)

\* The candidates whose bytes count against the budget, and how many bytes each: those of its input,
\* and those that its reader was granted and is reading.
IsRead(i) == \E r \in Readers : rpc[r] = "read" /\ rwork[r] = i
Held(i) == input[i].granted + (IF IsRead(i) THEN want[i] ELSE 0)
Holders == {i \in Candidates : Held(i) > 0}

\* The sum of a function on the candidates.
Total(h) == LET below[n \in 0 .. MaxCount] == IF n = 0 THEN 0 ELSE below[n - 1] + h[n - 1]
            IN below[MaxCount]

\* The bytes granted are those that are held, by an input or by the reader that fills it: no decode,
\* fallback or failed read keeps its grant or gives it back twice.  They stay within the budget, but
\* for one file too large for it, which is then alone; and when a pool ends without a stop, all have
\* gone through a decoder.
StagedWithinBudget ==
    /\ staged = Total([i \in Candidates |-> Held(i)])
    /\ staged =< Budget \/ \E i \in Candidates : Holders = {i}
    /\ main = "finished" /\ ~stop => staged = 0

\* Bytes of later candidates never keep a worker waiting: while it waits for a candidate whose turn has
\* not come, only earlier ones hold any of the budget, and those are on their way through a decoder.
NotStarved ==
    \A w \in Workers : pc[w] = "await" /\ work[w] >= nextTicket =>
        /\ \A i \in Holders : i < work[w]
        /\ \A i \in 0 .. work[w] - 1 : i \in analysed \/ stop \/ \E v \in Workers : work[v] = i

Taken == IF nextIndex < call.count THEN nextIndex ELSE call.count

Pool == INSTANCE WorkPool WITH
    count <- call.count, claimed <- Taken, stopping <- stop, returned <- main = "finished"

\* What the caller may rely on: WorkPool.
DeliversOnce == Pool!Spec

\* The call returns: no worker stays parked or blocked on a full queue, no reader on the budget and
\* no caller on a queue nobody fills, whatever the notifications they miss.
PoolReturns == <>(main = "finished")
=============================================================================
