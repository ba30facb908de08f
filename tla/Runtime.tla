------------------------------- MODULE Runtime -------------------------------
(***************************************************************************)
(* The runtime's worker threads and their command queues (rt.rs,           *)
(* worker.rs): RuntimeBuilder::start, which sets up the local worker on    *)
(* the calling thread and then starts the remote worker threads one at a  *)
(* time, each reporting back once it has installed its WorkerContext;     *)
(* WorkerHandle::run_once and RuntimeHandle::run_on_all_workers, which     *)
(* send a closure into a worker's bounded command queue and await its      *)
(* result; the command task spawn_worker starts on every worker; and       *)
(* RuntimeShutdownHandle::shutdown, which notifies the runtime's signal    *)
(* (the parent of every worker's) and joins the remote threads.            *)
(*                                                                         *)
(* A caller is a task of the thread that called start(): it makes one      *)
(* run_on_all_workers call.  A closure is its caller's id; what it does    *)
(* on the worker is left out.  Queue entries are not in the repository     *)
(* (burstq): a send into a queue whose receiver has been dropped either    *)
(* fails, and the caller's unwrap panics, or is stored where nobody takes  *)
(* it.                                                                     *)
(***************************************************************************)
EXTENDS Naturals, Sequences

CONSTANTS
    Local,      \* built with new_with_local: the calling thread is worker 0
    NRemote,    \* the worker threads of all worker groups
    Callers,    \* tasks that call run_on_all_workers
    QCap,       \* command_queue_capacity
    Batch       \* the commands one recv of the command task takes

ASSUME /\ Local \in BOOLEAN /\ NRemote \in Nat /\ QCap \in Nat \ {0}
       /\ Batch \in Nat \ {0}

\* Worker ids, the index of each worker's handle: with a local worker the
\* remote workers start at 1 (new_with_local sets next_worker_index to 1)
FirstRemote == IF Local THEN 1 ELSE 0
Remote == FirstRemote..(FirstRemote + NRemote - 1)
Workers == IF Local THEN {0} \cup Remote ELSE Remote
NWorkers == IF Local THEN NRemote + 1 ELSE NRemote

VARIABLES
    startPc,    \* start(): "idle", "spawn", "wait" (on startup_done), "returned"
    nextW,      \* the remote worker start() starts next
    thread,     \* per worker: "none", "startup", "running", "stopped"
    ctx,        \* the worker_contexts slot of the worker's thread
    cmdTask,    \* the worker's command task: "none", "live", "ended"
    queue,      \* the worker's command queue: callers' closures, in order
    caller,     \* per caller: [pc, at] with at the worker its call is on
    ran,        \* ghost: the workers each caller's closure has run on, in order
    sig,        \* rt_shutdown_signal notified (and with it every worker's)
    shutPc      \* shutdown(): "none", "joining", "returned"

vars == <<startPc, nextW, thread, ctx, cmdTask, queue, caller, ran, sig, shutPc>>

Init ==
    /\ startPc = "idle" /\ nextW = FirstRemote
    /\ thread = [w \in Workers |-> "none"]
    /\ ctx = [w \in Workers |-> "uninit"]
    /\ cmdTask = [w \in Workers |-> "none"]
    /\ queue = [w \in Workers |-> <<>>]
    /\ caller = [c \in Callers |-> [pc |-> "idle", at |-> 0]]
    /\ ran = [c \in Callers |-> <<>>]
    /\ sig = FALSE /\ shutPc = "none"

\* The worker's tasks are polled: a remote worker's until its run_until
\* returns, the local worker's by the thread that runs its executor
Polled(w) == thread[w] = "running"

\* The receiver of the worker's command queue is gone with its task
RxGone(w) == cmdTask[w] = "ended"

-----------------------------------------------------------------------------
(* start()                                                                  *)

\* The handles of every worker, and the local worker set up on this thread:
\* its inter-worker batchers, packet processor and tasks (spawn_worker),
\* then its WorkerContext written into this thread's slot
StartLocal ==
    /\ startPc = "idle"
    /\ startPc' = IF NRemote = 0 THEN "returned" ELSE "spawn"
    /\ IF Local
          THEN /\ thread' = [thread EXCEPT ![0] = "running"]
               /\ ctx' = [ctx EXCEPT ![0] = "init"]
               /\ cmdTask' = [cmdTask EXCEPT ![0] = "live"]
          ELSE UNCHANGED <<thread, ctx, cmdTask>>
    /\ UNCHANGED <<nextW, queue, caller, ran, sig, shutPc>>

\* std::thread::Builder::spawn of the next worker's thread
SpawnWorkerThread ==
    /\ startPc = "spawn"
    /\ thread' = [thread EXCEPT ![nextW] = "startup"]
    /\ startPc' = "wait"
    /\ UNCHANGED <<nextW, ctx, cmdTask, queue, caller, ran, sig, shutPc>>

\* The worker thread: its executor and context, the context written into
\* its slot, spawn_worker, then startup_done sent and run_until entered
WorkerStartup(w) ==
    /\ thread[w] = "startup"
    /\ ctx' = [ctx EXCEPT ![w] = "init"]
    /\ cmdTask' = [cmdTask EXCEPT ![w] = "live"]
    /\ thread' = [thread EXCEPT ![w] = "running"]
    /\ UNCHANGED <<startPc, nextW, queue, caller, ran, sig, shutPc>>

\* startup_done_rx.recv() returns; on to the next worker, or return
StartResumes ==
    /\ startPc = "wait" /\ thread[nextW] = "running"
    /\ nextW' = nextW + 1
    /\ startPc' = IF nextW + 1 > FirstRemote + NRemote - 1 THEN "returned" ELSE "spawn"
    /\ UNCHANGED <<thread, ctx, cmdTask, queue, caller, ran, sig, shutPc>>

-----------------------------------------------------------------------------
(* run_on_all_workers and run_once                                          *)

(* Variant of the next definition as a plausible slip would write it: the  *)
(* loop starting past the local worker's handle.                           *)
CallerBeginsSkipLocal(c) ==
    /\ startPc = "returned" /\ caller[c].pc = "idle" /\ NWorkers > 0
    /\ caller' = [caller EXCEPT ![c] = [pc |-> "send", at |-> 1]]
    /\ UNCHANGED <<startPc, nextW, thread, ctx, cmdTask, queue, ran, sig, shutPc>>

\* run_on_all_workers: run_once on every worker handle in turn, from 0
CallerBegins(c) ==
    /\ startPc = "returned" /\ caller[c].pc = "idle" /\ NWorkers > 0
    /\ caller' = [caller EXCEPT ![c] = [pc |-> "send", at |-> 0]]
    /\ UNCHANGED <<startPc, nextW, thread, ctx, cmdTask, queue, ran, sig, shutPc>>

\* run_once: command_tx.send(1, ...).await, which waits for a free slot;
\* its unwrap panics when the send fails
RunOnceSend(c) ==
    /\ caller[c].pc = "send"
    /\ LET w == caller[c].at IN
         /\ Len(queue[w]) < QCap
         /\ \/ /\ queue' = [queue EXCEPT ![w] = Append(@, c)]
               /\ caller' = [caller EXCEPT ![c].pc = "wait"]
            \/ /\ RxGone(w)
               /\ caller' = [caller EXCEPT ![c].pc = "panicked"]
               /\ UNCHANGED queue
    /\ UNCHANGED <<startPc, nextW, thread, ctx, cmdTask, ran, sig, shutPc>>

(* Variant of the next definition as a plausible slip would write it: the  *)
(* loop over the batch stopping one short.                                 *)
CommandTaskShort(w) ==
    /\ Polled(w) /\ cmdTask[w] = "live" /\ queue[w] # <<>>
    /\ LET n == IF Len(queue[w]) < Batch THEN Len(queue[w]) ELSE Batch
           taken == SubSeq(queue[w], 1, n)
           done == {taken[i] : i \in 1..(n - 1)}
       IN /\ queue' = [queue EXCEPT ![w] = SubSeq(@, n + 1, Len(@))]
          /\ ran' = [c \in Callers |-> IF c \in done THEN Append(ran[c], w) ELSE ran[c]]
          /\ caller' = [c \in Callers |->
                          IF c \in done THEN [caller[c] EXCEPT !.pc = "answered"]
                          ELSE caller[c]]
    /\ UNCHANGED <<startPc, nextW, thread, ctx, cmdTask, sig, shutPc>>

\* The command task: recv takes up to Batch queued closures and runs each,
\* which sends its result to the waiting caller
CommandTask(w) ==
    /\ Polled(w) /\ cmdTask[w] = "live" /\ queue[w] # <<>>
    /\ LET n == IF Len(queue[w]) < Batch THEN Len(queue[w]) ELSE Batch
           taken == SubSeq(queue[w], 1, n)
           done == {taken[i] : i \in 1..n}
       IN /\ queue' = [queue EXCEPT ![w] = SubSeq(@, n + 1, Len(@))]
          /\ ran' = [c \in Callers |-> IF c \in done THEN Append(ran[c], w) ELSE ran[c]]
          /\ caller' = [c \in Callers |->
                          IF c \in done THEN [caller[c] EXCEPT !.pc = "answered"]
                          ELSE caller[c]]
    /\ UNCHANGED <<startPc, nextW, thread, ctx, cmdTask, sig, shutPc>>

\* The task spawned with WorkerContext::spawn ends when its future::or sees
\* the worker's shutdown signal; recv, polled first, still returns queued
\* closures, so this happens once the queue is empty
CommandTaskEnds(w) ==
    /\ Polled(w) /\ sig /\ cmdTask[w] = "live" /\ queue[w] = <<>>
    /\ cmdTask' = [cmdTask EXCEPT ![w] = "ended"]
    /\ UNCHANGED <<startPc, nextW, thread, ctx, queue, caller, ran, sig, shutPc>>

\* result_rx.await returns the closure's result: on to the next worker,
\* or run_on_all_workers returns
CallerResumes(c) ==
    /\ caller[c].pc = "answered"
    /\ caller' = [caller EXCEPT ![c] =
                    IF @.at + 1 < NWorkers THEN [pc |-> "send", at |-> @.at + 1]
                    ELSE [pc |-> "done", at |-> @.at]]
    /\ UNCHANGED <<startPc, nextW, thread, ctx, cmdTask, queue, ran, sig, shutPc>>

-----------------------------------------------------------------------------
(* shutdown()                                                               *)

\* rt_shutdown_signal.notify(), which notifies every worker's signal
Shutdown ==
    /\ startPc = "returned" /\ shutPc = "none"
    /\ sig' = TRUE /\ shutPc' = "joining"
    /\ UNCHANGED <<startPc, nextW, thread, ctx, cmdTask, queue, caller, ran>>

\* A remote worker's run_until(shutdown_signal.wait_owned()) returns; the
\* thread drops its slot's context, then its executor with every task
\* (the command queue's receiver with them)
WorkerStops(w) ==
    /\ w \in Remote /\ sig /\ thread[w] = "running"
    /\ thread' = [thread EXCEPT ![w] = "stopped"]
    /\ ctx' = [ctx EXCEPT ![w] = "dropped"]
    /\ cmdTask' = [cmdTask EXCEPT ![w] = "ended"]
    /\ UNCHANGED <<startPc, nextW, queue, caller, ran, sig, shutPc>>

\* Every remote worker's join handle joined
Join ==
    /\ shutPc = "joining" /\ \A w \in Remote : thread[w] = "stopped"
    /\ shutPc' = "returned"
    /\ UNCHANGED <<startPc, nextW, thread, ctx, cmdTask, queue, caller, ran, sig>>

\* shutdown() has returned; tasks stranded by it stay where they are
ShutDown ==
    /\ shutPc = "returned"
    /\ UNCHANGED vars

Next ==
    \/ StartLocal \/ SpawnWorkerThread \/ StartResumes
    \/ \E w \in Workers : WorkerStartup(w) \/ CommandTask(w) \/ CommandTaskEnds(w)
                          \/ WorkerStops(w)
    \/ \E c \in Callers : CallerBegins(c) \/ RunOnceSend(c) \/ CallerResumes(c)
    \/ Shutdown \/ Join \/ ShutDown

\* The steps of start(), the worker threads and the tasks woken by a queue,
\* a oneshot or the shutdown signal; callers begin and shutdown is called
\* when the program decides
Progress ==
    \/ StartLocal \/ SpawnWorkerThread \/ StartResumes \/ Join
    \/ \E w \in Workers : WorkerStartup(w) \/ CommandTask(w) \/ CommandTaskEnds(w)
                          \/ WorkerStops(w)
    \/ \E c \in Callers : RunOnceSend(c) \/ CallerResumes(c)

\* Threads run, and woken tasks are polled: while one of these steps can be
\* taken, one is.  Each can be taken a bounded number of times (one call per
\* caller, one start and one stop per thread), so every behaviour comes to
\* rest, and there this is the same as weak fairness on each step.
Fairness == WF_vars(Progress)

Spec == Init /\ [][Next]_vars /\ Fairness

-----------------------------------------------------------------------------
(* Properties                                                               *)

TypeOK ==
    /\ startPc \in {"idle", "spawn", "wait", "returned"}
    /\ thread \in [Workers -> {"none", "startup", "running", "stopped"}]
    /\ ctx \in [Workers -> {"uninit", "init", "dropped"}]
    /\ cmdTask \in [Workers -> {"none", "live", "ended"}]
    /\ \A w \in Workers : queue[w] \in Seq(Callers) /\ Len(queue[w]) <= QCap
    /\ \A c \in Callers :
         /\ caller[c].pc \in {"idle", "send", "wait", "answered", "done", "panicked"}
         /\ caller[c].at \in 0..NWorkers
         /\ ran[c] \in Seq(Workers)
    /\ sig \in BOOLEAN /\ shutPc \in {"none", "joining", "returned"}

\* When start() returns, every worker's context is in its thread's slot and
\* its command task is spawned: start() waits for each thread's
\* startup_done before it starts the next one or returns.
StartupComplete ==
    startPc = "returned" => \A w \in Workers : ctx[w] # "uninit" /\ cmdTask[w] # "none"

\* run_on_all_workers runs its closure on the workers one at a time, in
\* worker order, each exactly once, and returns only after the last one has
\* run it.
RunsInWorkerOrder ==
    \A c \in Callers :
        /\ \A i \in 1..Len(ran[c]) : ran[c][i] = i - 1
        /\ caller[c].pc = "done" => Len(ran[c]) = NWorkers

\* Every run_on_all_workers call returns, unless the runtime is shut down
\* while it is in progress.
RunOnAllReturns ==
    \A c \in Callers : caller[c].pc = "send" ~> (caller[c].pc = "done" \/ sig)

=============================================================================
