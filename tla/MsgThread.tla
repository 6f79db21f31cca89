------------------------------ MODULE MsgThread ------------------------------
(***************************************************************************)
(* The message thread of the conninfra driver (base/msg_thread.c): one     *)
(* kernel thread, a fixed pool of op structures, a queue of free ops and   *)
(* a queue of active ops.  Callers take an op from the free queue, fill    *)
(* it, put it on the active queue and either return at once                *)
(* (msg_thread_send) or wait, with a timeout, until the thread has run     *)
(* the op's handler (msg_thread_send_wait).  An op is shared by caller     *)
(* and thread through ref_count; whoever drops the last reference puts it  *)
(* back on the free queue.                                                 *)
(*                                                                         *)
(* Every access to shared memory that another thread can interleave with   *)
(* is a step of its own.  The queues are touched only under their mutex,   *)
(* so one put or get is one step; a caller that has a fatal signal         *)
(* pending can fail to get the mutex (osal_lock_sleepable_lock is          *)
(* mutex_lock_killable), the kernel thread cannot.                         *)
(***************************************************************************)
EXTENDS Integers, Sequences

CONSTANTS
    WaitSenders,    \* callers of msg_thread_send_wait and its variants
    NoWaitSenders,  \* callers of msg_thread_send and its variants
    Killable,       \* the callers that a fatal signal may hit
    QSize,          \* MSG_THREAD_OP_BUF_SIZE: ops in the pool, slots per queue
    Timely          \* TRUE: every handler ends before its caller's timeout

Senders == WaitSenders \cup NoWaitSenders
Ops == 1 .. QSize           \* op_q_inst
NoOp == 0                   \* the NULL op

ASSUME QSizeAssumption == QSize \in Nat \ {0}
ASSUME SendersAssumption == WaitSenders \cap NoWaitSenders = {}
ASSUME KillableAssumption == Killable \subseteq Senders
ASSUME TimelyAssumption == Timely \in BOOLEAN

\* Every caller of this thread waits, or none does.
Uniform == WaitSenders = {} \/ NoWaitSenders = {}

VARIABLES
    freeQ,          \* free_op_q
    activeQ,        \* active_op_q
    data,           \* op->op: whose request the op carries, and which one
    timeoutValue,   \* op->signal.timeoutValue: 0 is "do not wait"
    result,         \* op->result
    ref,            \* op->ref_count
    done,           \* the done count of op->signal's completion
    pc,             \* where each caller is in msg_thread_send[_wait]
    my,             \* the op each caller works on
    tag,            \* tells a caller's request from its previous one
    ret,            \* what each caller's last call returned
    wpc,            \* where the kernel thread is in msg_evt_thread
    cur,            \* the op it works on
    wret,           \* what the handler returned
    state           \* of the context: up, stopping (kthread_stop), down

opVars == <<data, timeoutValue, result, ref, done>>
senderVars == <<pc, my, tag, ret>>
workerVars == <<wpc, cur, wret>>
vars == <<freeQ, activeQ, opVars, senderVars, workerVars, state>>

Request == Senders \X {0, 1}
NoRequest == <<>>               \* zeroed op data
Zero == <<"zero">>                  \* result 0 left by a memset
Unanswered == <<"unanswered">>      \* result -9, set before the op is queued
ZeroedSignal == -1              \* a completion that was memset, not initialised
NoFreeOp == <<"no free op">>        \* return value -1 of a send
PutFailed == <<"put failed">>       \* return values -2 and -4 of a send
Queued == <<"queued">>              \* return value 0 of a send without wait
NotCalled == <<"not called">>    \* no call yet, or the current one has not returned

Results == Request \cup {NoRequest, Zero, Unanswered}
Returns == Results \cup {NoFreeOp, PutFailed, Queued, NotCalled}

SenderPC == {"idle", "fill", "arm", "ref", "put", "wake", "check", "wait",
             "result", "drop", "free"}
WorkerPC == {"wait", "asleep", "run", "dec", "free", "check", "write", "raise",
             "exited", "dead"}

TypeOK ==
    /\ freeQ \in Seq(Ops) /\ activeQ \in Seq(Ops)
    /\ data \in [Ops -> Request \cup {NoRequest}]
    /\ timeoutValue \in [Ops -> {0, 1}]
    /\ result \in [Ops -> Results]
    /\ ref \in [Ops -> Int]
    /\ done \in [Ops -> Int]
    /\ pc \in [Senders -> SenderPC]
    /\ my \in [Senders -> Ops \cup {NoOp}]
    /\ tag \in [Senders -> {0, 1}]
    /\ ret \in [Senders -> Returns]
    /\ wpc \in WorkerPC
    /\ cur \in Ops \cup {NoOp}
    /\ wret \in Request \cup {NoRequest}
    /\ state \in {"up", "stopping", "down"}
    /\ \A s \in Senders : pc[s] # "idle" => my[s] \in Ops
    /\ wpc \notin {"wait", "asleep", "exited", "dead"} => cur \in Ops

-----------------------------------------------------------------------------
(* The op queue: MSG_OP_PUT and MSG_OP_GET under the queue's lock *)

InQ(q, o) == \E i \in 1 .. Len(q) : q[i] = o

Full(q) == Len(q) >= QSize

\* msg_thread_init: all ops zeroed, their completions initialised, each op on
\* the free queue; then the kernel thread runs.
Init ==
    /\ freeQ = [i \in 1 .. QSize |-> i] /\ activeQ = <<>>
    /\ data = [o \in Ops |-> NoRequest]
    /\ timeoutValue = [o \in Ops |-> 0]
    /\ result = [o \in Ops |-> Zero]
    /\ ref = [o \in Ops |-> 0]
    /\ done = [o \in Ops |-> 0]
    /\ pc = [s \in Senders |-> "idle"]
    /\ my = [s \in Senders |-> NoOp]
    /\ tag = [s \in Senders |-> 0]
    /\ ret = [s \in Senders |-> NotCalled]
    /\ wpc = "wait" /\ cur = NoOp /\ wret = NoRequest
    /\ state = "up"

-----------------------------------------------------------------------------
(* The caller: msg_thread_send_2, msg_thread_send_wait_3 and the functions *)
(* they call                                                               *)

Goto(s, label) == pc' = [pc EXCEPT ![s] = label]

\* The call ends with return value r.
Return(s, r) ==
    /\ pc' = [pc EXCEPT ![s] = "idle"]
    /\ my' = [my EXCEPT ![s] = NoOp]
    /\ ret' = [ret EXCEPT ![s] = r]

\* A call starts: msg_evt_get_free_op takes the oldest free op and zeroes it.
GetFreeOp(s) ==
    /\ state = "up" /\ pc[s] = "idle" /\ freeQ # <<>>
    /\ LET o == Head(freeQ) IN
       /\ freeQ' = Tail(freeQ)
       /\ data' = [data EXCEPT ![o] = NoRequest]
       /\ timeoutValue' = [timeoutValue EXCEPT ![o] = 0]
       /\ result' = [result EXCEPT ![o] = Zero]
       /\ ref' = [ref EXCEPT ![o] = 0]
       /\ done' = [done EXCEPT ![o] = ZeroedSignal]
       /\ my' = [my EXCEPT ![s] = o]
    /\ tag' = [tag EXCEPT ![s] = 1 - @]
    /\ ret' = [ret EXCEPT ![s] = NotCalled]
    /\ Goto(s, "fill")
    /\ UNCHANGED <<activeQ, workerVars, state>>

\* Faulty variant of GetFreeOpFails: the NULL op is not noticed.
BadGetFreeOpFails(s) ==
    /\ state = "up" /\ pc[s] = "idle"
    /\ freeQ = <<>> \/ s \in Killable
    /\ Goto(s, "fill")
    /\ UNCHANGED <<freeQ, activeQ, opVars, my, tag, ret, workerVars, state>>

\* A call starts and ends: no free op, or the caller is killed while it waits
\* for the free queue's lock.
GetFreeOpFails(s) ==
    /\ state = "up" /\ pc[s] = "idle"
    /\ freeQ = <<>> \/ s \in Killable
    /\ Return(s, NoFreeOp)
    /\ UNCHANGED <<freeQ, activeQ, opVars, tag, workerVars, state>>

\* op id, op data and signal->timeoutValue are set.
FillOp(s) ==
    /\ pc[s] = "fill"
    /\ data' = [data EXCEPT ![my[s]] = <<s, tag[s]>>]
    /\ timeoutValue' = [timeoutValue EXCEPT
                           ![my[s]] = IF s \in WaitSenders THEN 1 ELSE 0]
    /\ Goto(s, "arm")
    /\ UNCHANGED <<freeQ, activeQ, result, ref, done, my, tag, ret, workerVars,
                   state>>

\* msg_evt_put_op_to_active, first part: a caller that will wait sets the
\* result to -9, initialises the completion and takes a reference.
ArmOp(s) ==
    /\ pc[s] = "arm"
    /\ LET o == my[s] IN
       \/ /\ timeoutValue[o] # 0
          /\ result' = [result EXCEPT ![o] = Unanswered]
          /\ done' = [done EXCEPT ![o] = 0]
          /\ ref' = [ref EXCEPT ![o] = 1]
       \/ /\ timeoutValue[o] = 0
          /\ ref' = [ref EXCEPT ![o] = 0]
          /\ UNCHANGED <<result, done>>
    /\ Goto(s, "ref")
    /\ UNCHANGED <<freeQ, activeQ, data, timeoutValue, my, tag, ret, workerVars,
                   state>>

\* Faulty variant of TakeRefForThread: the caller leaves the reference to the
\* thread, which has not run yet.
BadNoRefForThread(s) ==
    /\ pc[s] = "ref"
    /\ Goto(s, "put")
    /\ UNCHANGED <<freeQ, activeQ, opVars, my, tag, ret, workerVars, state>>

\* The thread's reference is taken on its behalf, before the op is queued.
TakeRefForThread(s) ==
    /\ pc[s] = "ref"
    /\ ref' = [ref EXCEPT ![my[s]] = @ + 1]
    /\ Goto(s, "put")
    /\ UNCHANGED <<freeQ, activeQ, data, timeoutValue, result, done, my, tag,
                   ret, workerVars, state>>

\* msg_evt_put_op_to_q on the active queue.
PutOpToActive(s) ==
    /\ pc[s] = "put" /\ ~Full(activeQ)
    /\ activeQ' = Append(activeQ, my[s])
    /\ Goto(s, "wake")
    /\ UNCHANGED <<freeQ, opVars, my, tag, ret, workerVars, state>>

\* The queue is full, or the caller is killed while it waits for the lock: the
\* thread's reference is taken back.
PutOpToActiveFails(s) ==
    /\ pc[s] = "put"
    /\ Full(activeQ) \/ s \in Killable
    /\ ref' = [ref EXCEPT ![my[s]] = @ - 1]
    /\ ret' = [ret EXCEPT ![s] = PutFailed]
    /\ Goto(s, "drop")
    /\ UNCHANGED <<freeQ, activeQ, data, timeoutValue, result, done, my, tag,
                   workerVars, state>>

\* wake_up_interruptible and kthread_stop: a thread that sleeps looks at its wait
\* condition again, one that does not is left alone.
WakeThread == wpc' = IF wpc = "asleep" THEN "wait" ELSE wpc

\* Faulty variant of TriggerEvent: the wake-up came before the op was queued.
BadTriggerEvent(s) ==
    /\ pc[s] = "wake"
    /\ Goto(s, "check")
    /\ UNCHANGED <<freeQ, activeQ, opVars, my, tag, ret, workerVars, state>>

\* osal_trigger_event
TriggerEvent(s) ==
    /\ pc[s] = "wake"
    /\ WakeThread
    /\ Goto(s, "check")
    /\ UNCHANGED <<freeQ, activeQ, opVars, my, tag, ret, cur, wret, state>>

\* signal->timeoutValue is read from the op to decide whether to wait.
CheckWait(s) ==
    /\ pc[s] = "check"
    /\ \/ /\ timeoutValue[my[s]] = 0
          /\ ret' = [ret EXCEPT ![s] = Queued]
          /\ Goto(s, "drop")
       \/ /\ timeoutValue[my[s]] # 0
          /\ Goto(s, "wait")
          /\ UNCHANGED ret
    /\ UNCHANGED <<freeQ, activeQ, opVars, my, tag, workerVars, state>>

\* osal_wait_for_signal_timeout: the completion was signalled.
WaitSignalled(s) ==
    /\ pc[s] = "wait" /\ done[my[s]] > 0
    /\ done' = [done EXCEPT ![my[s]] = @ - 1]
    /\ Goto(s, "result")
    /\ UNCHANGED <<freeQ, activeQ, data, timeoutValue, result, ref, my, tag, ret,
                   workerVars, state>>

\* osal_wait_for_signal_timeout: the time is over.
WaitTimesOut(s) ==
    /\ ~Timely
    /\ pc[s] = "wait" /\ done[my[s]] <= 0
    /\ Goto(s, "result")
    /\ UNCHANGED <<freeQ, activeQ, opVars, my, tag, ret, workerVars, state>>

\* Signalled or not, the return value is op->result.
ReadResult(s) ==
    /\ pc[s] = "result"
    /\ ret' = [ret EXCEPT ![s] = result[my[s]]]
    /\ Goto(s, "drop")
    /\ UNCHANGED <<freeQ, activeQ, opVars, my, tag, workerVars, state>>

\* Faulty variant of DropRef: an op given up after a failed put or a timeout is
\* freed whatever its count says.
BadDropRefUncounted(s) ==
    /\ pc[s] = "drop"
    /\ IF timeoutValue[my[s]] # 0
       THEN /\ ref' = [ref EXCEPT ![my[s]] = @ - 1]
            /\ Goto(s, "free")
            /\ UNCHANGED <<my, ret>>
       ELSE Return(s, ret[s]) /\ UNCHANGED ref
    /\ UNCHANGED <<freeQ, activeQ, data, timeoutValue, result, done, tag,
                   workerVars, state>>

\* Faulty variant of DropRef: the caller's reference is never given back after
\* a failed put.
BadDropRefKept(s) ==
    /\ pc[s] = "drop"
    /\ \/ /\ timeoutValue[my[s]] = 0 \/ ret[s] \in {PutFailed, Unanswered}
          /\ Return(s, ret[s])
          /\ UNCHANGED ref
       \/ /\ timeoutValue[my[s]] # 0 /\ ret[s] \notin {PutFailed, Unanswered}
          /\ ref' = [ref EXCEPT ![my[s]] = @ - 1]
          /\ IF ref'[my[s]] = 0
             THEN Goto(s, "free") /\ UNCHANGED <<my, ret>>
             ELSE Return(s, ret[s])
    /\ UNCHANGED <<freeQ, activeQ, data, timeoutValue, result, done, tag,
                   workerVars, state>>

\* The end of msg_evt_put_op_to_active: an op whose timeoutValue is set loses
\* the caller's reference; with the last one it goes back to the free queue.
DropRef(s) ==
    /\ pc[s] = "drop"
    /\ \/ /\ timeoutValue[my[s]] = 0
          /\ Return(s, ret[s])
          /\ UNCHANGED ref
       \/ /\ timeoutValue[my[s]] # 0
          /\ ref' = [ref EXCEPT ![my[s]] = @ - 1]
          /\ IF ref'[my[s]] = 0
             THEN Goto(s, "free") /\ UNCHANGED <<my, ret>>
             ELSE Return(s, ret[s])
    /\ UNCHANGED <<freeQ, activeQ, data, timeoutValue, result, done, tag,
                   workerVars, state>>

\* msg_evt_put_op_to_free_queue
PutOpToFree(s) ==
    /\ pc[s] = "free" /\ ~Full(freeQ)
    /\ freeQ' = Append(freeQ, my[s])
    /\ Return(s, ret[s])
    /\ UNCHANGED <<activeQ, opVars, tag, workerVars, state>>

\* The put fails and its error is ignored: the op is in no queue any more.
PutOpToFreeFails(s) ==
    /\ pc[s] = "free"
    /\ Full(freeQ) \/ s \in Killable
    /\ Return(s, ret[s])
    /\ UNCHANGED <<freeQ, activeQ, opVars, tag, workerVars, state>>

-----------------------------------------------------------------------------
(* The kernel thread: msg_evt_thread *)

WorkerGoto(label) == wpc' = label

\* osal_thread_wait_for_event finds neither an op nor a stop request.  The thread
\* is on the wait queue before it looks, so looking and falling asleep are one
\* step to those who wake it.
WorkerSleeps ==
    /\ wpc = "wait" /\ state = "up" /\ activeQ = <<>>
    /\ WorkerGoto("asleep")
    /\ UNCHANGED <<freeQ, activeQ, opVars, senderVars, cur, wret, state>>

\* osal_thread_wait_for_event, then msg_evt_get_op_from_q.  A stop request has
\* priority over queued ops.
WorkerGetOp ==
    /\ wpc = "wait" /\ state = "up" /\ activeQ # <<>>
    /\ cur' = Head(activeQ)
    /\ activeQ' = Tail(activeQ)
    /\ WorkerGoto("run")
    /\ UNCHANGED <<freeQ, opVars, senderVars, wret, state>>

\* msg_evt_opid_handler: what it returns depends on the op's id and data.
RunHandler ==
    /\ wpc = "run"
    /\ wret' = data[cur]
    /\ WorkerGoto("dec")
    /\ UNCHANGED <<freeQ, activeQ, opVars, senderVars, cur, state>>

\* Faulty variant of WorkerDropRef: the thread frees the op although a caller
\* still holds a reference.
BadWorkerDropRef ==
    /\ wpc = "dec"
    /\ ref' = [ref EXCEPT ![cur] = @ - 1]
    /\ WorkerGoto("free")
    /\ UNCHANGED <<freeQ, activeQ, data, timeoutValue, result, done, senderVars,
                   cur, wret, state>>

\* atomic_dec_and_test on the op's reference count decides what happens next.
WorkerDropRef ==
    /\ wpc = "dec"
    /\ ref' = [ref EXCEPT ![cur] = @ - 1]
    /\ IF ref'[cur] = 0 THEN WorkerGoto("free") ELSE WorkerGoto("check")
    /\ UNCHANGED <<freeQ, activeQ, data, timeoutValue, result, done, senderVars,
                   cur, wret, state>>

\* Faulty variant of WorkerPutOpToFree: the op is dropped.
BadWorkerPutOpToFree ==
    /\ wpc = "free"
    /\ WorkerGoto("wait")
    /\ UNCHANGED <<freeQ, activeQ, opVars, senderVars, cur, wret, state>>

\* The last reference was the thread's: the op goes back to the free queue.
WorkerPutOpToFree ==
    /\ wpc = "free"
    /\ freeQ' = IF Full(freeQ) THEN freeQ ELSE Append(freeQ, cur)
    /\ WorkerGoto("wait")
    /\ UNCHANGED <<activeQ, opVars, senderVars, cur, wret, state>>

\* The reference is gone, and the thread looks at the op again.
WorkerCheckWait ==
    /\ wpc = "check"
    /\ IF timeoutValue[cur] # 0 THEN WorkerGoto("write") ELSE WorkerGoto("wait")
    /\ UNCHANGED <<freeQ, activeQ, opVars, senderVars, cur, wret, state>>

\* Faulty variant of WorkerWriteResult: the caller is woken with the result
\* that was in the op.
BadWorkerWriteResult ==
    /\ wpc = "write"
    /\ WorkerGoto("raise")
    /\ UNCHANGED <<freeQ, activeQ, opVars, senderVars, cur, wret, state>>

\* op->result = ret
WorkerWriteResult ==
    /\ wpc = "write"
    /\ result' = [result EXCEPT ![cur] = wret]
    /\ WorkerGoto("raise")
    /\ UNCHANGED <<freeQ, activeQ, data, timeoutValue, ref, done, senderVars, cur,
                   wret, state>>

\* Faulty variant of WorkerRaiseSignal: the result is stored, nobody is woken.
BadWorkerRaiseSignal ==
    /\ wpc = "raise"
    /\ WorkerGoto("wait")
    /\ UNCHANGED <<freeQ, activeQ, opVars, senderVars, cur, wret, state>>

\* osal_raise_signal: complete() on the op's completion.
WorkerRaiseSignal ==
    /\ wpc = "raise" /\ done[cur] # ZeroedSignal
    /\ done' = [done EXCEPT ![cur] = @ + 1]
    /\ WorkerGoto("wait")
    /\ UNCHANGED <<freeQ, activeQ, data, timeoutValue, result, ref, senderVars,
                   cur, wret, state>>

\* osal_raise_signal on a completion that a new owner of the op has zeroed and
\* not yet initialised: its wait list is not empty to complete(), which follows
\* the NULL pointer in it.  The kernel kills the thread (or, built with
\* PANIC_ON_OOPS, restarts the machine, and the behaviour ends here).
WorkerOopses ==
    /\ wpc = "raise" /\ done[cur] = ZeroedSignal
    /\ WorkerGoto("dead")
    /\ UNCHANGED <<freeQ, activeQ, opVars, senderVars, cur, wret, state>>

\* should_stop is seen: the loop ends, the active queue stays as it is.
WorkerExit ==
    /\ wpc = "wait" /\ state = "stopping"
    /\ WorkerGoto("exited")
    /\ UNCHANGED <<freeQ, activeQ, opVars, senderVars, cur, wret, state>>

-----------------------------------------------------------------------------
(* msg_thread_deinit and msg_thread_init.  Both run from the module's exit *)
(* and init functions; the kernel unloads a module only when no call into  *)
(* it is in progress.                                                      *)

ThreadStop ==
    /\ state = "up" /\ \A s \in Senders : pc[s] = "idle"
    /\ state' = "stopping"
    /\ WakeThread
    /\ UNCHANGED <<freeQ, activeQ, opVars, senderVars, cur, wret>>

\* The whole context is zeroed; q and d are what becomes of the free queue and
\* of the completions.
ResetContext(q, d) ==
    /\ freeQ' = q /\ activeQ' = <<>>
    /\ data' = [o \in Ops |-> NoRequest]
    /\ timeoutValue' = [o \in Ops |-> 0]
    /\ result' = [o \in Ops |-> Zero]
    /\ ref' = [o \in Ops |-> 0]
    /\ done' = [o \in Ops |-> d]
    /\ cur' = NoOp /\ wret' = NoRequest

\* kthread_stop has returned.  On a thread that died it works with what is left
\* of the task: it may return as well, or never.
ThreadDeinit ==
    /\ state = "stopping" /\ wpc \in {"exited", "dead"}
    /\ ResetContext(<<>>, ZeroedSignal)
    /\ state' = "down"
    /\ UNCHANGED <<wpc, senderVars>>

\* The module is loaded again.
ThreadInit ==
    /\ state = "down"
    /\ ResetContext([i \in 1 .. QSize |-> i], 0)
    /\ wpc' = "wait"
    /\ state' = "up"
    /\ UNCHANGED senderVars

-----------------------------------------------------------------------------

Sender(s) ==
    \/ FillOp(s) \/ ArmOp(s) \/ TakeRefForThread(s)
    \/ PutOpToActive(s) \/ PutOpToActiveFails(s) \/ TriggerEvent(s)
    \/ CheckWait(s) \/ WaitSignalled(s) \/ WaitTimesOut(s) \/ ReadResult(s)
    \/ DropRef(s) \/ PutOpToFree(s) \/ PutOpToFreeFails(s)

Worker ==
    \/ WorkerSleeps \/ WorkerGetOp \/ RunHandler \/ WorkerDropRef
    \/ WorkerPutOpToFree
    \/ WorkerCheckWait \/ WorkerWriteResult \/ WorkerRaiseSignal \/ WorkerOopses
    \/ WorkerExit

Next ==
    \/ \E s \in Senders : GetFreeOp(s) \/ GetFreeOpFails(s) \/ Sender(s)
    \/ Worker
    \/ ThreadStop \/ ThreadDeinit \/ ThreadInit

\* Nobody has to call, and nobody has to unload the module; a call that has
\* started and the kernel thread are scheduled, and the wait's timer expires.
Fairness ==
    /\ \A s \in Senders : WF_vars(Sender(s))
    /\ WF_vars(Worker)
    /\ WF_vars(wpc = "exited" /\ ThreadDeinit)

Spec == Init /\ [][Next]_vars
FairSpec == Spec /\ Fairness

-----------------------------------------------------------------------------
(* Who uses an op *)

\* Where a caller that waits holds a counted reference to its op.
RefPC == {"ref", "put", "wake", "check", "wait", "result", "drop"}

\* Where a caller, waiting or not, is the only one to know its op.
PrivatePC == {"fill", "arm", "ref", "put", "free"}

Holds(s, o) == /\ my[s] = o
               /\ \/ pc[s] \in PrivatePC
                  \/ s \in WaitSenders /\ pc[s] \in RefPC

ThreadHolds(o) == cur = o /\ wpc \in {"run", "dec", "free"}

CallerRefs(o) ==
    IF \E s \in WaitSenders : my[s] = o /\ pc[s] \in RefPC THEN 1 ELSE 0

ThreadRefs(o) ==
    IF \/ InQ(activeQ, o)
       \/ cur = o /\ wpc \in {"run", "dec"}
       \/ \E s \in Senders : my[s] = o /\ pc[s] = "put"
    THEN 1 ELSE 0

-----------------------------------------------------------------------------
(* Safety *)

\* Reference counting (msg_thread.c:333-342, 349, 377-381, 599-602): at every
\* moment ref_count is the number of references that caller and thread hold;
\* a wrong count frees an op in use or never frees it.
RefCountExact == \A o \in Ops : ref[o] = CallerRefs(o) + ThreadRefs(o)

\* Double free and use after free (msg_thread.c:377-381, 599-602): an op on the
\* free queue is there once, is not queued for the thread, and neither the
\* thread nor a caller holds it; two callers never hold the same op.
OwnedOnce ==
    /\ \A i \in 1 .. Len(freeQ) :
          /\ \A j \in 1 .. Len(freeQ) : freeQ[i] = freeQ[j] => i = j
          /\ ~InQ(activeQ, freeQ[i])
          /\ ~ThreadHolds(freeQ[i])
          /\ \A s \in Senders : ~Holds(s, freeQ[i])
    /\ \A s, t \in Senders, o \in Ops : Holds(s, o) /\ Holds(t, o) => s = t

\* The queues' limit (msg_thread.c:151-156, 380, 601): with as many ops as slots
\* a put never meets a full queue, so no op is dropped for want of room.
PutFindsRoom ==
    /\ \A s \in Senders : /\ pc[s] = "put" => ~Full(activeQ)
                          /\ pc[s] = "free" => ~Full(freeQ)
    /\ wpc = "free" => ~Full(freeQ)

\* No leak (msg_thread.c:377-381, 599-602): as long as no caller is killed,
\* every op is on a queue or held by somebody who will give it back.
NoOpLost ==
    state # "down" =>
        \A o \in Ops : \/ InQ(freeQ, o) \/ InQ(activeQ, o)
                       \/ ThreadHolds(o)
                       \/ \E s \in Senders : Holds(s, o)

\* Result delivery (msg_thread.c:366-372, 603-605): a caller that waited gets
\* the result of the request it made, not of an earlier one, not of another
\* caller's and not what the op held before.
OwnResult ==
    \A s \in WaitSenders :
        pc[s] \in {"idle", "drop", "free"} =>
            ret[s] \in {<<s, tag[s]>>, PutFailed, NoFreeOp, NotCalled}

\* The thread survives (msg_thread.c:312, 604): it never raises the signal of an
\* op that was taken, and zeroed, for a new call.
ThreadAlive == wpc # "dead"

\* The same when handlers can be late: the result of its own request or -9.
OwnResultOrTimeout ==
    \A s \in WaitSenders :
        pc[s] \in {"idle", "drop", "free"} =>
            ret[s] \in {<<s, tag[s]>>, Unanswered, PutFailed, NoFreeOp,
                       NotCalled}

-----------------------------------------------------------------------------
(* The inductive invariant behind RefCountExact and OwnedOnce when the     *)
(* callers are all of one kind                                             *)

NoRepeat(q) == \A i, j \in 1 .. Len(q) : q[i] = q[j] => i = j

FreeUnheld ==
    \A o \in Ops : InQ(freeQ, o) =>
        /\ ~InQ(activeQ, o) /\ ~ThreadHolds(o)
        /\ \A s \in Senders : ~Holds(s, o)

\* An op that the thread has, or will have, is not in a caller's private hands.
Handed(o) == InQ(activeQ, o) \/ ThreadHolds(o)

HandedNotPrivate ==
    \A o \in Ops : Handed(o) =>
        \A s \in Senders : ~(my[s] = o /\ pc[s] \in PrivatePC)

ActiveNotRunning == \A o \in Ops : ~(InQ(activeQ, o) /\ ThreadHolds(o))

\* Once the thread has found the count at zero no caller refers to the op.
ThreadFreesUnheld == wpc = "free" => \A s \in Senders : ~Holds(s, cur)

HeldOnce == \A s, t \in Senders : \A o \in Ops : Holds(s, o) /\ Holds(t, o) => s = t

\* What a caller that waits will read back from signal->timeoutValue.
TimeoutKept ==
    /\ \A s \in WaitSenders : pc[s] \in RefPC \cup {"arm"} => timeoutValue[my[s]] = 1
    /\ WaitSenders = {} => \A o \in Ops : timeoutValue[o] = 0

IdleWhenStopped == state # "up" => \A s \in Senders : pc[s] = "idle"

\* The ownership discipline of ops (msg_thread.c:302-384, 557-606): every op
\* has one place, a queue, the thread or a caller, and its count agrees.
Ownership ==
    /\ NoRepeat(freeQ) /\ NoRepeat(activeQ)
    /\ FreeUnheld /\ HandedNotPrivate /\ ActiveNotRunning
    /\ ThreadFreesUnheld /\ HeldOnce
    /\ RefCountExact
    /\ TimeoutKept /\ IdleWhenStopped

-----------------------------------------------------------------------------
(* The inductive invariant behind OwnResult when handlers end in time *)

\* The thread has run an op's handler and its caller waits for the result.
Answering(o) == cur = o /\ wpc \in {"check", "write", "raise"}

\* The op carries its caller's request until the caller lets go of it, and what
\* the thread got from the handler belongs to the op it works on.
RequestKept ==
    /\ \A s \in WaitSenders :
          pc[s] \in RefPC \cup {"arm"} => data[my[s]] = <<s, tag[s]>>
    /\ wpc = "dec" => wret = data[cur]

\* While the thread answers, the caller of that op has not gone on.
AnswersWaiter ==
    wpc \in {"check", "write", "raise"} =>
        /\ ~InQ(activeQ, cur) /\ done[cur] = 0
        /\ wpc = "raise" => result[cur] = wret
        /\ \E s \in WaitSenders : /\ my[s] = cur
                                  /\ pc[s] \in {"wake", "check", "wait"}
                                  /\ wret = <<s, tag[s]>>

\* A completion that was raised means the result is there and the thread is
\* through with the op.
RaisedMeansAnswered ==
    \A s \in WaitSenders :
        /\ pc[s] \in {"ref", "put"} => done[my[s]] = 0
        /\ pc[s] \in {"wake", "check", "wait"} =>
              \/ done[my[s]] = 0
              \/ /\ done[my[s]] = 1 /\ result[my[s]] = <<s, tag[s]>>
                 /\ ~Handed(my[s]) /\ ~Answering(my[s])
        /\ pc[s] = "result" => result[my[s]] = <<s, tag[s]>>
        /\ pc[s] \in {"result", "drop"} => ~Handed(my[s])

\* When a call is about to end, its return value has been decided.
ReturnKnown ==
    \A s \in WaitSenders :
        pc[s] \in {"drop", "free"} => ret[s] \in {<<s, tag[s]>>, PutFailed}

\* The life of a result (msg_thread.c:302-384, 557-606), from the request in the
\* op to the handler's return value, op->result and the caller's return value.
Delivery == /\ RequestKept /\ AnswersWaiter /\ RaisedMeansAnswered
            /\ OwnResult /\ ReturnKnown

-----------------------------------------------------------------------------
(* Liveness *)

\* Every call returns (msg_thread.c:363-384), whatever the other callers do.
CallsReturn == \A s \in Senders : (pc[s] # "idle") ~> (pc[s] = "idle")

\* The pool recovers (msg_thread.c:377-381, 599-602): when it is exhausted an
\* op comes back, so a later call finds one.
PoolRecovers == []<>(freeQ # <<>> \/ state # "up")

\* The same when handlers can be late (msg_thread.c:363-381, 599-605): with ops
\* given up by their callers before, while and after the handler runs, an
\* exhausted pool gets an op back as long as the thread has not died of signalling
\* an op that was taken again.
PoolRecoversUnlessDead == []<>(freeQ # <<>> \/ state # "up" \/ wpc = "dead")

\* A request accepted from a caller that does not wait is handled, unless the
\* context is stopped (msg_thread.c:569-590).
QueuedIsHandled ==
    \A o \in Ops : InQ(activeQ, o) ~> (cur = o /\ wpc = "run") \/ state # "up"
=============================================================================
