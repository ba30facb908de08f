---------------------------- MODULE FlushBatcher ----------------------------
(***************************************************************************)
(* The egress flush path of one worker of a LocalFlush transport.  Each    *)
(* channel has a writer and a producer task calling PacketSender::send_raw *)
(* (packet_sender.rs); each writer has a FlushBatcher (flush_batcher.rs)   *)
(* and a task spawned by spawn_writer_flush_batcher (transport.rs) that    *)
(* hands the writer's buffer to the transport's flush channel; the worker  *)
(* has one more FlushBatcher for that channel and the task add_transport   *)
(* (rt.rs) spawns to flush it to the transport.                            *)
(*                                                                         *)
(* Bytes are counted in writes.  Time is abstracted to whether a batcher's *)
(* deadline has passed: "set" (Instant in the future) or "due".  Each      *)
(* flush task sleeps through a Sleeper of the executor (modrpc-executor):  *)
(* snooze(duration) creates a sleep unless one exists, poll_sleep is Ready *)
(* and clears it once it has elapsed.  A sleep made for a deadline that    *)
(* cancel_flush has since removed ("stale") still runs to that deadline,   *)
(* which comes before any deadline scheduled after it.                     *)
(***************************************************************************)
EXTENDS Naturals

CONSTANTS
    Channels,   \* channel ids with a writer on this worker
    MaxWrites,  \* send_raw calls per channel
    HighWater   \* unflushed writes at which send_raw flushes at once (32_000 bytes)

Transport == "transport"
Batchers  == Channels \cup {Transport}

ASSUME Transport \notin Channels /\ HighWater \in Nat \ {0}

VARIABLES
    wrote,    \* writes each producer has made
    buf,      \* writes in the writer's current buffer (unflushed_bytes)
    staged,   \* writes handed to the transport's flush channel, per channel
    sent,     \* writes the transport flush has sent, per channel
    pc,       \* producer: "idle", or "dispatch" inside handle_packet's await
    nft,      \* Inner.next_flush_time of each batcher: "none", "set", "due"
    waker,    \* Inner.waker holds the flush task's waker
    task,     \* flush task: "poll" (runnable in wait()), "waiting", "handle",
              \* "sleeping" (in sleeper.poll_sleep)
    sleep     \* the task's Sleeper.current_sleep: "none", or a sleep that is
              \* "pending" for the current deadline, "stale", or "elapsed"

vars == <<wrote, buf, staged, sent, pc, nft, waker, task, sleep>>

Init ==
    /\ wrote = [c \in Channels |-> 0]
    /\ buf = [c \in Channels |-> 0]
    /\ staged = [c \in Channels |-> 0]
    /\ sent = [c \in Channels |-> 0]
    /\ pc = [c \in Channels |-> "idle"]
    /\ nft = [b \in Batchers |-> "none"]
    /\ waker = [b \in Batchers |-> FALSE]
    /\ task = [b \in Batchers |-> "poll"]
    /\ sleep = [b \in Batchers |-> "none"]

(* Variants of the next definitions as a plausible slip would write them:  *)
(* schedule_flush setting the deadline without waking the task, and        *)
(* cancel_flush at the high-water mark without the channel flush before it.*)
ScheduleNoWake(b, nf, tk) ==
    /\ nft' = IF nf[b] = "none" THEN [nf EXCEPT ![b] = "set"] ELSE nf
    /\ task' = tk
    /\ UNCHANGED waker
CancelOnly(c) ==
    /\ nft' = [nft EXCEPT ![c] = "none"]
    /\ sleep' = [sleep EXCEPT ![c] = IF @ = "pending" THEN "stale" ELSE @]
    /\ UNCHANGED <<buf, sent>>

\* FlushBatcher::schedule_flush on batcher b, from deadlines nf and tasks tk:
\* a no-op if a flush is pending; otherwise set the deadline and wake the
\* task waiting in wait()
ScheduleFlush(b, nf, tk) ==
    IF nf[b] # "none"
       THEN nft' = nf /\ task' = tk /\ UNCHANGED waker
       ELSE /\ nft' = [nf EXCEPT ![b] = "set"]
            /\ waker' = [waker EXCEPT ![b] = FALSE]
            /\ task' = IF waker[b] THEN [tk EXCEPT ![b] = "poll"] ELSE tk

\* channel.flush(); flush_batcher.cancel_flush(): the buffer goes to the
\* transport at once and the pending deadline is cleared
FlushAndCancel(c) ==
    /\ sent' = [sent EXCEPT ![c] = @ + buf[c]]
    /\ buf' = [buf EXCEPT ![c] = 0]
    /\ nft' = [nft EXCEPT ![c] = "none"]
    /\ sleep' = [sleep EXCEPT ![c] = IF @ = "pending" THEN "stale" ELSE @]

-----------------------------------------------------------------------------
(* Producers: send_raw                                                      *)

\* reserve and encode into the writer's buffer, then handle_packet
Write(c) ==
    /\ pc[c] = "idle" /\ wrote[c] < MaxWrites
    /\ wrote' = [wrote EXCEPT ![c] = @ + 1]
    /\ buf' = [buf EXCEPT ![c] = @ + 1]
    /\ pc' = [pc EXCEPT ![c] = "dispatch"]
    /\ UNCHANGED <<staged, sent, nft, waker, task, sleep>>

\* after handle_packet: flush at the high-water mark, else schedule a flush
AfterDispatch(c) ==
    /\ pc[c] = "dispatch"
    /\ pc' = [pc EXCEPT ![c] = "idle"]
    /\ IF buf[c] >= HighWater
          THEN FlushAndCancel(c) /\ UNCHANGED <<waker, task>>
          ELSE ScheduleFlush(c, nft, task) /\ UNCHANGED <<buf, sent, sleep>>
    /\ UNCHANGED <<wrote, staged>>

-----------------------------------------------------------------------------
(* Flush tasks                                                              *)

\* FlushBatcherWait::poll: ready if a flush is scheduled, else store the
\* waker and stay pending
PollWait(b) ==
    /\ task[b] = "poll"
    /\ IF nft[b] # "none"
          THEN task' = [task EXCEPT ![b] = "handle"] /\ UNCHANGED waker
          ELSE /\ waker' = [waker EXCEPT ![b] = TRUE]
               /\ task' = [task EXCEPT ![b] = "waiting"]
    /\ UNCHANGED <<wrote, buf, staged, sent, pc, nft, sleep>>

(* Variants of the next definition as a plausible slip would write them:  *)
(* the writer's buffer not reset after flush_local, and the transport's    *)
(* batcher not scheduled after it.                                         *)
FlushNowKeepBuf(b) ==
    IF b = Transport
       THEN /\ sent' = [c \in Channels |-> sent[c] + staged[c]]
            /\ staged' = [c \in Channels |-> 0]
            /\ nft' = [nft EXCEPT ![b] = "none"]
            /\ task' = [task EXCEPT ![b] = "poll"]
            /\ UNCHANGED <<buf, waker>>
       ELSE /\ staged' = [staged EXCEPT ![b] = @ + buf[b]]
            /\ ScheduleFlush(Transport, [nft EXCEPT ![b] = "none"],
                             [task EXCEPT ![b] = "poll"])
            /\ UNCHANGED <<sent, buf>>
FlushNowNoSchedule(b) ==
    IF b = Transport
       THEN /\ sent' = [c \in Channels |-> sent[c] + staged[c]]
            /\ staged' = [c \in Channels |-> 0]
            /\ nft' = [nft EXCEPT ![b] = "none"]
            /\ task' = [task EXCEPT ![b] = "poll"]
            /\ UNCHANGED <<buf, waker>>
       ELSE /\ staged' = [staged EXCEPT ![b] = @ + buf[b]]
            /\ buf' = [buf EXCEPT ![b] = 0]
            /\ nft' = [nft EXCEPT ![b] = "none"]
            /\ task' = [task EXCEPT ![b] = "poll"]
            /\ UNCHANGED <<sent, waker>>

\* The FlushNow arm: the writer task calls writer.flush_local() and
\* transport_flush_batcher.schedule_flush(); the transport task calls
\* flush_sender.flush()
FlushNow(b) ==
    IF b = Transport
       THEN /\ sent' = [c \in Channels |-> sent[c] + staged[c]]
            /\ staged' = [c \in Channels |-> 0]
            /\ nft' = [nft EXCEPT ![b] = "none"]
            /\ task' = [task EXCEPT ![b] = "poll"]
            /\ UNCHANGED <<buf, waker>>
       ELSE /\ staged' = [staged EXCEPT ![b] = @ + buf[b]]
            /\ buf' = [buf EXCEPT ![b] = 0]
            /\ ScheduleFlush(Transport, [nft EXCEPT ![b] = "none"],
                             [task EXCEPT ![b] = "poll"])
            /\ UNCHANGED sent

\* Sleeper::snooze: create a sleep for the duration unless one exists
Snooze(b) == sleep' = [sleep EXCEPT ![b] = IF @ = "none" THEN "pending" ELSE @]

\* Sleeper::poll_sleep: Ready, clearing the sleep, once it has elapsed (or
\* when there is none)
SleepReady(b) == sleep[b] \in {"none", "elapsed"}

\* FlushBatcher::handle_flush and the task's match on its result
HandleFlush(b) ==
    /\ task[b] = "handle"
    /\ \/ /\ nft[b] = "none"                         \* DoNotFlush: break
          /\ task' = [task EXCEPT ![b] = "poll"]
          /\ UNCHANGED <<buf, staged, sent, nft, waker, sleep>>
       \/ /\ nft[b] = "set"                          \* Snooze: sleep
          /\ Snooze(b)
          /\ task' = [task EXCEPT ![b] = "sleeping"]
          /\ UNCHANGED <<buf, staged, sent, nft, waker>>
       \/ /\ nft[b] = "due"
          /\ FlushNow(b) /\ UNCHANGED sleep
    /\ UNCHANGED <<wrote, pc>>

\* poll_sleep returns Ready: the loop calls handle_flush again
Wake(b) ==
    /\ task[b] = "sleeping" /\ SleepReady(b)
    /\ task' = [task EXCEPT ![b] = "handle"]
    /\ sleep' = [sleep EXCEPT ![b] = "none"]
    /\ UNCHANGED <<wrote, buf, staged, sent, pc, nft, waker>>

\* Time passes a pending deadline, and the sleep made for it elapses; a
\* stale sleep's earlier deadline has passed before
Tick(b) ==
    /\ nft[b] = "set" /\ sleep[b] # "stale"
    /\ nft' = [nft EXCEPT ![b] = "due"]
    /\ sleep' = [sleep EXCEPT ![b] = IF @ = "pending" THEN "elapsed" ELSE @]
    /\ UNCHANGED <<wrote, buf, staged, sent, pc, waker, task>>

\* Time passes the deadline of a stale sleep
Elapse(b) ==
    /\ sleep[b] = "stale"
    /\ sleep' = [sleep EXCEPT ![b] = "elapsed"]
    /\ UNCHANGED <<wrote, buf, staged, sent, pc, nft, waker, task>>

\* Every producer has made its writes and everything is sent
Finished ==
    /\ \A c \in Channels : wrote[c] = MaxWrites /\ sent[c] = MaxWrites
    /\ UNCHANGED vars

Next ==
    \/ \E c \in Channels : Write(c) \/ AfterDispatch(c)
    \/ \E b \in Batchers : PollWait(b) \/ HandleFlush(b) \/ Wake(b) \/ Tick(b)
                                \/ Elapse(b)
    \/ Finished

\* The executor polls every woken task, a dispatch returns, and time passes
Fairness ==
    /\ \A c \in Channels : WF_vars(AfterDispatch(c))
    /\ \A b \in Batchers :
         WF_vars(PollWait(b)) /\ WF_vars(HandleFlush(b)) /\ WF_vars(Wake(b))
         /\ WF_vars(Tick(b)) /\ WF_vars(Elapse(b))

Spec == Init /\ [][Next]_vars /\ Fairness

-----------------------------------------------------------------------------
(* Properties                                                               *)

TypeOK ==
    /\ wrote \in [Channels -> 0..MaxWrites]
    /\ buf \in [Channels -> 0..MaxWrites]
    /\ staged \in [Channels -> 0..MaxWrites]
    /\ sent \in [Channels -> 0..MaxWrites]
    /\ pc \in [Channels -> {"idle", "dispatch"}]
    /\ nft \in [Batchers -> {"none", "set", "due"}]
    /\ waker \in [Batchers -> BOOLEAN]
    /\ task \in [Batchers -> {"poll", "waiting", "handle", "sleeping"}]
    /\ sleep \in [Batchers -> {"none", "pending", "stale", "elapsed"}]

\* No lost wake-up: a flush task parked in wait() has left its waker and no
\* flush is scheduled for it, so the next schedule_flush will wake it.
NoLostWakeup ==
    \A b \in Batchers : task[b] = "waiting" => waker[b] /\ nft[b] = "none"

\* Nothing written is stranded: bytes in a writer's buffer have a flush
\* scheduled on its batcher unless their send_raw has not yet reached its
\* flush decision, and bytes in the transport's flush channel have a flush
\* scheduled on the transport's batcher.
DataCovered ==
    /\ \A c \in Channels : buf[c] > 0 => nft[c] # "none" \/ pc[c] = "dispatch"
    /\ (\E c \in Channels : staged[c] > 0) => nft[Transport] # "none"

\* Every write a producer makes is eventually sent to the transport.
AllFlushed ==
    \A c \in Channels, n \in 1..MaxWrites : (wrote[c] >= n) ~> (sent[c] >= n)

=============================================================================
