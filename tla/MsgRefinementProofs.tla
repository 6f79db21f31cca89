------------------------- MODULE MsgRefinementProofs -------------------------
(***************************************************************************)
(* Proof that every step of MsgThread is a step of MsgService or leaves it *)
(* unchanged, when callers are of one kind and handlers end in time.       *)
(***************************************************************************)
EXTENDS MsgRefinement, MsgDeliveryProofs

-----------------------------------------------------------------------------
(* The mapping *)

\* The return values that the mapping tells apart are different.
LEMMA ReturnsDiffer ==
    ASSUME NEW s, NEW n
    PROVE  /\ <<s, n>> # PutFailed /\ <<s, n>> # NoFreeOp /\ <<s, n>> # NotCalled
           /\ PutFailed # NoFreeOp /\ PutFailed # NotCalled /\ NoFreeOp # NotCalled
<1>1. Len(<<s, n>>) = 2 /\ Len(PutFailed) = 1 /\ Len(NoFreeOp) = 1
      /\ Len(NotCalled) = 1
    BY DEF PutFailed, NoFreeOp, NotCalled
<1>2. PutFailed[1] = "put failed" /\ NoFreeOp[1] = "no free op"
      /\ NotCalled[1] = "not called"
    BY DEF PutFailed, NoFreeOp, NotCalled
<1>3. "put failed" # "no free op" /\ "put failed" # "not called"
      /\ "no free op" # "not called"
    OBVIOUS
<1>4. PutFailed # NoFreeOp /\ PutFailed # NotCalled /\ NoFreeOp # NotCalled
    BY <1>2, <1>3, Zenon
<1>5. 1 # 2
    OBVIOUS
<1>6. <<s, n>> # PutFailed /\ <<s, n>> # NoFreeOp /\ <<s, n>> # NotCalled
    BY <1>1, <1>5, Zenon
<1> QED BY <1>4, <1>6, Zenon

\* The cases of the mapping.
LEMMA MappedCall ==
    ASSUME NEW s
    PROVE  /\ pc[s] = "idle" => CallState(s) = "idle"
           /\ pc[s] # "idle" /\ Executed(s) => CallState(s) = "executed"
           /\ pc[s] # "idle" /\ ~Executed(s) => CallState(s) = "called"
BY DEF CallState

\* The cases of the answer, by what the call returned.
LEMMA MappedAnswer ==
    ASSUME NEW s
    PROVE  /\ pc[s] # "idle" => AnswerState(s) = "none"
           /\ pc[s] = "idle" /\ ret[s] = NotCalled => AnswerState(s) = "none"
           /\ pc[s] = "idle" /\ ret[s] = Own(s) => AnswerState(s) = "own"
           /\ pc[s] = "idle" /\ ret[s] \in {PutFailed, NoFreeOp} =>
                  AnswerState(s) = "failed"
BY ReturnsDiffer DEF AnswerState, Own

SameCall(t) == CallState(t)' = CallState(t) /\ AnswerState(t)' = AnswerState(t)

\* Nothing changes for the service when nothing changes for any caller.
LEMMA ServiceStutters ==
    ASSUME \A t \in WaitSenders : SameCall(t)
    PROVE  [Service!Next]_(Service!vars)
<1>1. [t \in WaitSenders |-> CallState(t)]' = [t \in WaitSenders |-> CallState(t)]
    BY DEF SameCall
<1>2. [t \in WaitSenders |-> AnswerState(t)]' = [t \in WaitSenders |-> AnswerState(t)]
    BY DEF SameCall
<1> QED BY <1>1, <1>2 DEF Service!vars

\* A change for one caller is a step of the service when it is one for him.
LEMMA ServiceStep ==
    ASSUME NEW s \in WaitSenders, \A t \in WaitSenders : t # s => SameCall(t),
           \/ SameCall(s)
           \/ /\ CallState(s) = "idle" /\ CallState(s)' = "called"
              /\ AnswerState(s)' = "none"
           \/ /\ CallState(s) = "called" /\ CallState(s)' = "executed"
              /\ AnswerState(s)' = AnswerState(s)
           \/ /\ CallState(s) = "executed" /\ CallState(s)' = "idle"
              /\ AnswerState(s)' = "own"
           \/ /\ CallState(s) \in {"idle", "called"} /\ CallState(s)' = "idle"
              /\ AnswerState(s)' = "failed"
    PROVE  [Service!Next]_(Service!vars)
<1> DEFINE c == [t \in WaitSenders |-> CallState(t)]
           a == [t \in WaitSenders |-> AnswerState(t)]
<1>1. /\ c[s] = CallState(s) /\ c' = [c EXCEPT ![s] = CallState(s)']
      /\ a[s] = AnswerState(s) /\ a' = [a EXCEPT ![s] = AnswerState(s)']
    BY DEF SameCall
<1>2. CASE SameCall(s)
    BY <1>2, ServiceStutters
<1>3. CASE /\ CallState(s) = "idle" /\ CallState(s)' = "called"
           /\ AnswerState(s)' = "none"
    BY <1>1, <1>3 DEF Service!Next, Service!Call
<1>4. CASE /\ CallState(s) = "called" /\ CallState(s)' = "executed"
           /\ AnswerState(s)' = AnswerState(s)
    BY <1>1, <1>4 DEF Service!Next, Service!Execute
<1>5. CASE /\ CallState(s) = "executed" /\ CallState(s)' = "idle"
           /\ AnswerState(s)' = "own"
    BY <1>1, <1>5 DEF Service!Next, Service!Answer
<1>6. CASE /\ CallState(s) \in {"idle", "called"} /\ CallState(s)' = "idle"
           /\ AnswerState(s)' = "failed"
    BY <1>1, <1>6 DEF Service!Next, Service!Refuse
<1> QED BY <1>2, <1>3, <1>4, <1>5, <1>6

\* A caller that does not move is where it was, unless its op was taken from
\* the queue or its handler has returned.
LEMMA StillThere ==
    ASSUME NEW t \in WaitSenders,
           pc'[t] = pc[t], my'[t] = my[t], tag'[t] = tag[t], ret'[t] = ret[t],
           Executed(t)' <=> Executed(t)
    PROVE  SameCall(t)
<1>1. CallState(t)' = CallState(t)
    BY DEF CallState
<1>2. AnswerState(t)' = AnswerState(t)
    BY DEF AnswerState
<1> QED BY <1>1, <1>2 DEF SameCall

-----------------------------------------------------------------------------
(* The steps of a caller *)

\* The step of one caller is no step for the others.
LEMMA OthersStill ==
    ASSUME TypeOK, Ownership, NEW s \in Senders,
           \A t \in Senders : t # s =>
               /\ pc'[t] = pc[t] /\ my'[t] = my[t]
               /\ tag'[t] = tag[t] /\ ret'[t] = ret[t],
           UNCHANGED cur, UNCHANGED wpc \/ WakeThread,
           \/ UNCHANGED activeQ
           \/ pc[s] = "put" /\ activeQ' = Append(activeQ, my[s])
    PROVE  \A t \in WaitSenders : t # s => SameCall(t)
<1> SUFFICES ASSUME NEW t \in WaitSenders, t # s
             PROVE  SameCall(t)
    OBVIOUS
<1>1. t \in Senders
    BY DEF Senders
<1>2. ASSUME pc[t] \in {"wake", "check", "wait"}
      PROVE  InQ(activeQ', my[t]) <=> InQ(activeQ, my[t])
    <2>1. CASE UNCHANGED activeQ
        BY <2>1
    <2>2. CASE pc[s] = "put" /\ activeQ' = Append(activeQ, my[s])
        <3>1. my[t] \in Ops /\ Holds(t, my[t])
            BY <1>2, WaiterHolds DEF RefPC
        <3>2. my[s] \in Ops /\ my[s] # my[t]
            BY <1>1, <2>2, <3>1, PrivateOp DEF PrivatePC
        <3> QED BY <2>2, <3>1, <3>2, PutMembers DEF TypeOK
    <2> QED BY <2>1, <2>2
<1>3. Executed(t)' <=> Executed(t)
    BY <1>1, <1>2 DEF Executed, WakeThread
<1> QED BY <1>1, <1>3, StillThere

\* A call starts, or is refused at once.
LEMMA StartRefines ==
    ASSUME TypeOK, Ownership, NEW s \in WaitSenders,
           GetFreeOp(s) \/ GetFreeOpFails(s)
    PROVE  [Service!Next]_(Service!vars)
<1>0. s \in Senders
    BY DEF Senders
<1>1. /\ pc[s] = "idle"
      /\ \A t \in Senders : t # s =>
            /\ pc'[t] = pc[t] /\ my'[t] = my[t]
            /\ tag'[t] = tag[t] /\ ret'[t] = ret[t]
      /\ UNCHANGED <<activeQ, wpc, cur>>
    BY <1>0 DEF GetFreeOp, GetFreeOpFails, Goto, Return, workerVars, TypeOK
<1>2. \A t \in WaitSenders : t # s => SameCall(t)
    BY <1>0, <1>1, OthersStill
<1>3. CallState(s) = "idle"
    BY <1>1, MappedCall
<1>4. CASE GetFreeOp(s)
    <2>1. pc'[s] = "fill"
        BY <1>0, <1>4 DEF GetFreeOp, Goto, TypeOK
    <2>2. CallState(s)' = "called" /\ AnswerState(s)' = "none"
        BY <2>1 DEF CallState, AnswerState, Executed
    <2> QED BY <1>2, <1>3, <2>2, ServiceStep
<1>5. CASE GetFreeOpFails(s)
    <2>1. pc'[s] = "idle" /\ ret'[s] = NoFreeOp
        BY <1>0, <1>5 DEF GetFreeOpFails, Return, TypeOK
    <2>2. CallState(s)' = "idle"
        BY <2>1 DEF CallState
    <2>3. AnswerState(s)' = "failed"
        BY <2>1, ReturnsDiffer DEF AnswerState
    <2> QED BY <1>2, <1>3, <2>2, <2>3, ServiceStep
<1> QED BY <1>4, <1>5

\* Between its first and its last step a call moves on without a change for the
\* service: what was executed stays so, what was not is still to come.
LEMMA MiddleRefines ==
    ASSUME Timely, TypeOK, Ownership, Delivery, NEW s \in WaitSenders,
           \/ FillOp(s) \/ ArmOp(s) \/ TakeRefForThread(s)
           \/ PutOpToActive(s) \/ PutOpToActiveFails(s) \/ TriggerEvent(s)
           \/ CheckWait(s) \/ WaitSignalled(s) \/ WaitTimesOut(s) \/ ReadResult(s)
    PROVE  [Service!Next]_(Service!vars)
<1> USE DEF Goto, opVars, workerVars, TypeOK
<1>0. s \in Senders /\ CallerDelivery(s)
    BY DeliveryParts DEF Senders
<1>1. /\ pc[s] # "idle" /\ my[s] \in Ops
      /\ \A t \in Senders : t # s =>
            /\ pc'[t] = pc[t] /\ my'[t] = my[t]
            /\ tag'[t] = tag[t] /\ ret'[t] = ret[t]
      /\ UNCHANGED <<cur, my, tag>> /\ (UNCHANGED wpc \/ WakeThread)
      /\ \/ UNCHANGED activeQ
         \/ pc[s] = "put" /\ activeQ' = Append(activeQ, my[s])
    BY <1>0 DEF FillOp, ArmOp, TakeRefForThread, PutOpToActive,
       PutOpToActiveFails, TriggerEvent, CheckWait, WaitSignalled, WaitTimesOut,
       ReadResult
<1>2. \A t \in WaitSenders : t # s => SameCall(t)
    BY <1>0, <1>1, OthersStill
<1>3. pc'[s] # "idle" /\ (Executed(s)' <=> Executed(s))
    <2>1. CASE FillOp(s) \/ ArmOp(s) \/ TakeRefForThread(s)
        BY <1>0, <2>1 DEF FillOp, ArmOp, TakeRefForThread, Executed
    <2>2. CASE PutOpToActive(s)
        <3>1. pc[s] = "put" /\ pc'[s] = "wake" /\ InQ(activeQ', my[s])
            BY <1>0, <1>1, <2>2, PutMembers DEF PutOpToActive
        <3> QED BY <1>1, <3>1 DEF Executed
    <2>3. CASE PutOpToActiveFails(s)
        BY <1>0, <2>3 DEF PutOpToActiveFails, Executed
    <2>4. CASE TriggerEvent(s)
        <3>1. pc[s] = "wake" /\ pc'[s] = "check" /\ UNCHANGED activeQ
            BY <1>0, <2>4 DEF TriggerEvent
        <3> QED BY <1>1, <3>1 DEF Executed, WakeThread
    <2>5. CASE CheckWait(s)
        <3>1. timeoutValue[my[s]] = 1
            BY <2>5 DEF CheckWait, Ownership, TimeoutKept, RefPC
        <3>2. pc[s] = "check" /\ pc'[s] = "wait" /\ UNCHANGED activeQ
            BY <1>0, <2>5, <3>1 DEF CheckWait
        <3> QED BY <1>1, <3>2 DEF Executed, WakeThread
    <2>6. CASE WaitSignalled(s)
        <3>1. pc[s] = "wait" /\ pc'[s] = "result" /\ done[my[s]] > 0
            BY <1>0, <2>6 DEF WaitSignalled
        <3>2. ~Handed(my[s])
            BY <1>0, <3>1 DEF CallerDelivery
        <3> QED BY <3>1, <3>2 DEF Executed, Handed, ThreadHolds
    <2>7. CASE ReadResult(s)
        <3>1. pc[s] = "result" /\ pc'[s] = "drop" /\ ret'[s] = result[my[s]]
            BY <1>0, <2>7 DEF ReadResult
        <3>2. ret'[s] # PutFailed
            BY <1>0, <3>1, ReturnsDiffer DEF CallerDelivery, Own
        <3> QED BY <3>1, <3>2 DEF Executed
    <2>8. ~WaitTimesOut(s)
        BY DEF WaitTimesOut
    <2> QED BY <2>1, <2>2, <2>3, <2>4, <2>5, <2>6, <2>7, <2>8
<1>4. SameCall(s)
    BY <1>1, <1>3 DEF SameCall, CallState, AnswerState
<1> QED BY <1>2, <1>4, ServiceStep

\* A call ends: with its own result when it was executed, with a failure when
\* it was not.
LEMMA EndRefines ==
    ASSUME TypeOK, Ownership, Delivery, NEW s \in WaitSenders,
           DropRef(s) \/ PutOpToFree(s) \/ PutOpToFreeFails(s)
    PROVE  [Service!Next]_(Service!vars)
<1>0. s \in Senders /\ CallerDelivery(s)
    BY DeliveryParts DEF Senders
<1>1. /\ pc[s] \in {"drop", "free"} /\ pc'[s] \in {"idle", "free"}
      /\ ret'[s] = ret[s] /\ tag'[s] = tag[s]
      /\ \A t \in Senders : t # s =>
            /\ pc'[t] = pc[t] /\ my'[t] = my[t]
            /\ tag'[t] = tag[t] /\ ret'[t] = ret[t]
      /\ UNCHANGED <<activeQ, wpc, cur>>
    BY <1>0 DEF DropRef, PutOpToFree, PutOpToFreeFails, Goto, Return, workerVars,
       TypeOK
<1>2. \A t \in WaitSenders : t # s => SameCall(t)
    BY <1>0, <1>1, OthersStill
<1>3. ret[s] = Own(s) \/ ret[s] = PutFailed
    BY <1>0, <1>1 DEF CallerDelivery
<1>4. CASE pc'[s] = "free"
    <2>1. Executed(s)' <=> Executed(s)
        BY <1>1, <1>4 DEF Executed
    <2>2. SameCall(s)
        BY <1>1, <1>4, <2>1 DEF SameCall, CallState, AnswerState
    <2> QED BY <1>2, <2>2, ServiceStep
<1>5. CASE pc'[s] = "idle" /\ ret[s] = Own(s)
    <2>1. ret[s] # PutFailed /\ ret[s] # NotCalled
        BY <1>5, ReturnsDiffer DEF Own
    <2>2. CallState(s) = "executed"
        BY <1>1, <2>1, MappedCall DEF Executed
    <2>3. CallState(s)' = "idle" /\ AnswerState(s)' = "own"
        BY <1>1, <1>5, <2>1 DEF CallState, AnswerState, Own
    <2> QED BY <1>2, <2>2, <2>3, ServiceStep
<1>6. CASE pc'[s] = "idle" /\ ret[s] = PutFailed
    <2>1. CallState(s) = "called"
        BY <1>1, <1>6, MappedCall DEF Executed
    <2>2. CallState(s)' = "idle"
        BY <1>6 DEF CallState
    <2>3. AnswerState(s)' = "failed"
        BY <1>1, <1>6, ReturnsDiffer DEF AnswerState
    <2> QED BY <1>2, <2>1, <2>2, <2>3, ServiceStep
<1> QED BY <1>1, <1>3, <1>4, <1>5, <1>6

-----------------------------------------------------------------------------
(* The steps of the thread *)

\* The handler returns: the call of the op's caller has been executed.
LEMMA HandlerRefines ==
    ASSUME TypeOK, Ownership, Delivery, RunHandler
    PROVE  [Service!Next]_(Service!vars)
<1>1. /\ wpc = "run" /\ wpc' = "dec" /\ cur \in Ops
      /\ UNCHANGED <<activeQ, pc, my, tag, ret, cur>>
    BY DEF RunHandler, WorkerGoto, senderVars, TypeOK
<1>2. ~InQ(activeQ, cur)
    BY <1>1 DEF Ownership, ActiveNotRunning, ThreadHolds
<1>3. ASSUME NEW t \in WaitSenders,
             ~(pc[t] \in {"wake", "check", "wait"} /\ my[t] = cur)
      PROVE  SameCall(t)
    <2>1. Executed(t)' <=> Executed(t)
        BY <1>1, <1>3 DEF Executed
    <2> QED BY <1>1, <2>1, StillThere
<1>4. CASE \E s \in WaitSenders : pc[s] \in {"wake", "check", "wait"} /\ my[s] = cur
    <2>1. PICK s \in WaitSenders : pc[s] \in {"wake", "check", "wait"} /\ my[s] = cur
        BY <1>4
    <2>2. ASSUME NEW t \in WaitSenders, pc[t] \in {"wake", "check", "wait"}, my[t] = cur
          PROVE  t = s
        <3>1. /\ t \in Senders /\ Holds(t, cur)
              /\ s \in Senders /\ Holds(s, cur)
            BY <2>1, <2>2, WaiterHolds DEF RefPC
        <3> QED BY <1>1, <3>1 DEF Ownership, HeldOnce
    <2>3. ~Executed(s) /\ Executed(s)'
        BY <1>1, <1>2, <2>1 DEF Executed
    <2>4. CallState(s) = "called" /\ CallState(s)' = "executed"
        BY <1>1, <2>1, <2>3 DEF CallState
    <2>5. AnswerState(s)' = AnswerState(s)
        BY <1>1 DEF AnswerState
    <2> QED BY <1>3, <2>2, <2>4, <2>5, ServiceStep
<1>5. CASE ~\E s \in WaitSenders : pc[s] \in {"wake", "check", "wait"} /\ my[s] = cur
    BY <1>3, <1>5, ServiceStutters
<1> QED BY <1>4, <1>5

\* The thread's other steps concern the op only.
LEMMA WorkerRefines ==
    ASSUME TypeOK, Ownership, Delivery, Worker
    PROVE  [Service!Next]_(Service!vars)
<1> USE DEF WorkerGoto, senderVars
<1>1. CASE WorkerGetOp
    <2>1. /\ wpc = "wait" /\ wpc' = "run" /\ cur' = Head(activeQ)
          /\ activeQ # <<>> /\ activeQ' = Tail(activeQ)
          /\ UNCHANGED <<pc, my, tag, ret>>
        BY <1>1 DEF WorkerGetOp
    <2>2. ASSUME NEW t \in WaitSenders PROVE SameCall(t)
        <3>1. ASSUME pc[t] \in {"wake", "check", "wait"}
              PROVE  InQ(activeQ, my[t]) <=> InQ(activeQ', my[t]) \/ cur' = my[t]
            <4>1. my[t] \in Ops
                BY <3>1, WaiterHolds DEF RefPC
            <4> QED BY <2>1, <4>1, GetMembers DEF TypeOK
        <3>2. Executed(t)' <=> Executed(t)
            BY <2>1, <3>1 DEF Executed
        <3> QED BY <2>1, <3>2, StillThere
    <2> QED BY <2>2, ServiceStutters
<1>2. CASE WorkerSleeps \/ WorkerDropRef \/ WorkerPutOpToFree \/ WorkerCheckWait
           \/ WorkerWriteResult \/ WorkerRaiseSignal \/ WorkerOopses \/ WorkerExit
    <2>1. wpc # "run" /\ wpc' # "run" /\ UNCHANGED <<activeQ, pc, my, tag, ret>>
        BY <1>2 DEF WorkerSleeps, WorkerDropRef, WorkerPutOpToFree, WorkerCheckWait,
           WorkerWriteResult, WorkerRaiseSignal, WorkerOopses, WorkerExit
    <2>2. ASSUME NEW t \in WaitSenders PROVE SameCall(t)
        <3>1. Executed(t)' <=> Executed(t)
            BY <2>1 DEF Executed
        <3> QED BY <2>1, <3>1, StillThere
    <2> QED BY <2>2, ServiceStutters
<1> QED BY <1>1, <1>2, HandlerRefines DEF Worker

-----------------------------------------------------------------------------

\* Stopping and restarting the thread happens between calls.
LEMMA RestartRefines ==
    ASSUME TypeOK, Ownership, ThreadStop \/ ThreadDeinit \/ ThreadInit
    PROVE  [Service!Next]_(Service!vars)
<1>1. UNCHANGED <<pc, my, tag, ret>> /\ \A s \in Senders : pc[s] = "idle"
    BY DEF ThreadStop, ThreadDeinit, ThreadInit, senderVars, Ownership,
       IdleWhenStopped
<1>2. ASSUME NEW t \in WaitSenders PROVE SameCall(t)
    <2>1. Executed(t)' <=> Executed(t)
        BY <1>1 DEF Executed, Senders
    <2> QED BY <1>1, <2>1, StillThere
<1> QED BY <1>2, ServiceStutters

\* Every step of the message thread is a step of the service or none.
LEMMA ServiceNext ==
    ASSUME Timely, Uniform, TypeOK, Ownership, Delivery, [Next]_vars
    PROVE  [Service!Next]_(Service!vars)
<1>1. ASSUME NEW s \in Senders, GetFreeOp(s) \/ GetFreeOpFails(s) \/ Sender(s)
      PROVE  [Service!Next]_(Service!vars)
    <2>1. CASE s \in WaitSenders
        BY <1>1, <2>1, StartRefines, MiddleRefines, EndRefines DEF Sender
    <2>2. CASE s \notin WaitSenders
        <3>1. WaitSenders = {}
            BY <2>2 DEF Uniform, Senders
        <3> QED BY <3>1, ServiceStutters
    <2> QED BY <2>1, <2>2
<1>2. CASE UNCHANGED vars
    <2>1. UNCHANGED <<activeQ, pc, my, tag, ret, wpc, cur>>
        BY <1>2 DEF vars, senderVars, workerVars
    <2>2. ASSUME NEW t \in WaitSenders PROVE SameCall(t)
        <3>1. Executed(t)' <=> Executed(t)
            BY <2>1 DEF Executed
        <3> QED BY <2>1, <3>1, StillThere
    <2> QED BY <2>2, ServiceStutters
<1> QED BY <1>1, <1>2, WorkerRefines, RestartRefines DEF Next

\* Nobody has called yet.
LEMMA ServiceInit == Init => Service!Init
<1> SUFFICES ASSUME Init PROVE Service!Init
    OBVIOUS
<1>1. ASSUME NEW s \in WaitSenders
      PROVE  CallState(s) = "idle" /\ AnswerState(s) = "none"
    BY MappedCall, MappedAnswer DEF Init, Senders
<1> QED BY <1>1 DEF Service!Init

\* msg_thread_send_wait keeps the safety part of its promise: a call runs its
\* handler at most once, returns its own result only when the handler has run and
\* a failure only when it has not and never will.
THEOREM RefinesService == Timely /\ Uniform => (Spec => ServiceSteps)
<1> SUFFICES ASSUME Timely, Uniform PROVE Spec => ServiceSteps
    OBVIOUS
<1>1. TypeOK /\ Ownership /\ Delivery /\ [Next]_vars => [Service!Next]_(Service!vars)
    BY ServiceNext
<1> QED
    BY <1>1, ServiceInit, DeliveryHolds, OwnershipHolds, TypeCorrect, PTL
    DEF Spec, ServiceSteps
=============================================================================
