-------------------------- MODULE MsgDeliveryProofs --------------------------
(***************************************************************************)
(* Proof that a caller that waits gets the result of its own request, when *)
(* handlers end in time.                                                   *)
(***************************************************************************)
EXTENDS MsgThreadProofs

-----------------------------------------------------------------------------
(* Delivery, caller by caller and thread *)

Own(s) == <<s, tag[s]>>

CallerDelivery(s) ==
    /\ pc[s] \in RefPC \cup {"arm"} => data[my[s]] = Own(s)
    /\ pc[s] \in {"ref", "put"} => done[my[s]] = 0
    /\ pc[s] \in {"wake", "check", "wait"} =>
          \/ done[my[s]] = 0
          \/ /\ done[my[s]] = 1 /\ result[my[s]] = Own(s)
             /\ ~Handed(my[s]) /\ ~Answering(my[s])
    /\ pc[s] = "result" => result[my[s]] = Own(s)
    /\ pc[s] \in {"result", "drop"} => ~Handed(my[s])
    /\ pc[s] \in {"idle", "drop", "free"} =>
           ret[s] \in {Own(s), PutFailed, NoFreeOp, NotCalled}
    /\ pc[s] \in {"drop", "free"} => ret[s] \in {Own(s), PutFailed}

ThreadDelivery == (wpc = "dec" => wret = data[cur]) /\ AnswersWaiter

\* Delivery is a statement about each caller and one about the thread.
LEMMA DeliveryParts ==
    /\ Delivery <=> ThreadDelivery /\ \A s \in WaitSenders : CallerDelivery(s)
    /\ Delivery' <=> ThreadDelivery' /\ \A s \in WaitSenders : CallerDelivery(s)'
BY DEF Delivery, RequestKept, RaisedMeansAnswered, OwnResult, ReturnKnown,
   CallerDelivery, ThreadDelivery, Own

\* What a step of somebody else may do to an op that a caller works on.
SameOp(p) ==
    /\ data'[p] = data[p] /\ result'[p] = result[p] /\ done'[p] = done[p]
    /\ InQ(activeQ', p) <=> InQ(activeQ, p)

\* A caller that waits holds its op from the moment it armed it.
LEMMA WaiterHolds ==
    ASSUME TypeOK, NEW t \in WaitSenders, pc[t] \in RefPC \cup {"arm"}
    PROVE  t \in Senders /\ my[t] \in Ops /\ Holds(t, my[t])
BY DEF TypeOK, Holds, RefPC, PrivatePC, Senders

\* A caller is not affected by steps that leave its op alone.
LEMMA OtherCaller ==
    ASSUME NEW t \in WaitSenders, CallerDelivery(t),
           pc'[t] = pc[t], my'[t] = my[t], tag'[t] = tag[t], ret'[t] = ret[t],
           pc[t] \in RefPC \cup {"arm"} =>
               /\ data'[my[t]] = data[my[t]] /\ result'[my[t]] = result[my[t]]
               /\ done'[my[t]] = done[my[t]]
               /\ Handed(my[t])' => Handed(my[t])
               /\ Answering(my[t])' => Answering(my[t]) \/ Handed(my[t])
    PROVE  CallerDelivery(t)'
<1>1. \A l \in {"ref", "put", "wake", "check", "wait", "result", "drop"} : l \in RefPC
    BY DEF RefPC
<1>2. Own(t)' = Own(t)
    BY DEF Own
<1>3. CASE pc[t] \in RefPC \cup {"arm"}
    <2>3. /\ data'[my'[t]] = data[my[t]] /\ result'[my'[t]] = result[my[t]]
          /\ done'[my'[t]] = done[my[t]]
        BY <1>3
    <2> QED BY <1>2, <1>3, <2>3 DEF CallerDelivery
<1>4. CASE pc[t] \notin RefPC \cup {"arm"}
    BY <1>1, <1>2, <1>4 DEF CallerDelivery
<1> QED BY <1>3, <1>4

\* A caller's step: it may change the op it works on, which neither the thread
\* nor another caller holds, and it does not leave while the thread answers.
LEMMA CallerStepDelivery ==
    ASSUME TypeOK, Ownership, Delivery, NEW s \in Senders,
           \A t \in Senders : t # s =>
               /\ pc'[t] = pc[t] /\ my'[t] = my[t]
               /\ tag'[t] = tag[t] /\ ret'[t] = ret[t],
           UNCHANGED <<cur, wret>>, UNCHANGED wpc \/ WakeThread,
           \A p \in Ops :
               SameOp(p) \/ (~ThreadHolds(p) /\ \A t \in Senders : t # s => ~Holds(t, p)),
           (s \in WaitSenders /\ pc[s] \in {"wake", "check", "wait"}
              /\ Answering(my[s])) =>
               /\ pc'[s] \in {"wake", "check", "wait"} /\ my'[s] = my[s]
               /\ tag'[s] = tag[s] /\ SameOp(my[s]),
           s \in WaitSenders => CallerDelivery(s)'
    PROVE  Delivery'
<1>1. ASSUME NEW t \in WaitSenders, t # s PROVE CallerDelivery(t)'
    <2>1. t \in Senders /\ CallerDelivery(t)
        BY DeliveryParts DEF Senders
    <2>2. ASSUME pc[t] \in RefPC \cup {"arm"}
          PROVE  SameOp(my[t])
        BY <1>1, <2>2, WaiterHolds
    <2>3. Answering(my[t])' <=> Answering(my[t])
        BY <1>1, <2>1 DEF Answering, WakeThread
    <2>4. ASSUME pc[t] \in RefPC \cup {"arm"}
          PROVE  Handed(my[t])' => Handed(my[t])
        BY <1>1, <2>1, <2>2, <2>4 DEF Handed, ThreadHolds, SameOp, WakeThread
    <2> QED BY <1>1, <2>1, <2>2, <2>3, <2>4, OtherCaller DEF SameOp
<1>2. wpc = "dec" => wret' = data'[cur]
    <2>1. wpc = "dec" => cur \in Ops /\ ThreadHolds(cur)
        BY DEF TypeOK, ThreadHolds
    <2>2. wpc = "dec" => SameOp(cur)
        BY <2>1
    <2> QED BY <2>2, DeliveryParts DEF SameOp, ThreadDelivery
<1>3. AnswersWaiter'
    <2> SUFFICES ASSUME wpc \in {"check", "write", "raise"}
                 PROVE  AnswersWaiter'
        BY DEF AnswersWaiter, WakeThread
    <2>1. PICK w \in WaitSenders : /\ my[w] = cur /\ pc[w] \in {"wake", "check", "wait"}
                                   /\ wret = <<w, tag[w]>>
        BY DEF Delivery, AnswersWaiter
    <2>2. w \in Senders /\ cur \in Ops /\ Holds(w, cur)
        BY <2>1, WaiterHolds DEF RefPC
    <2>3. /\ SameOp(cur) /\ pc'[w] \in {"wake", "check", "wait"} /\ my'[w] = cur
          /\ tag'[w] = tag[w]
        <3>1. CASE w = s
            BY <2>1, <3>1 DEF Answering
        <3>2. CASE w # s
            BY <2>1, <2>2, <3>2
        <3> QED BY <3>1, <3>2
    <2> QED BY <2>1, <2>3 DEF SameOp, AnswersWaiter, Delivery, WakeThread
<1> QED BY <1>1, <1>2, <1>3, DeliveryParts DEF ThreadDelivery, WakeThread

-----------------------------------------------------------------------------
(* The steps of a caller *)

\* In a caller's private hands an op is neither the thread's nor another's.
LEMMA PrivateOp ==
    ASSUME TypeOK, Ownership, NEW s \in Senders, pc[s] \in PrivatePC
    PROVE  /\ my[s] \in Ops /\ ~Handed(my[s]) /\ ~ThreadHolds(my[s])
           /\ \A t \in Senders : t # s => ~Holds(t, my[s])
<1>1. my[s] \in Ops /\ Holds(s, my[s])
    BY DEF TypeOK, Holds, PrivatePC
<1> QED BY <1>1 DEF Ownership, HandedNotPrivate, Handed, HeldOnce

\* A call starts with a fresh tag and without a result.
LEMMA GetFreeOpDelivery ==
    ASSUME TypeOK, Ownership, Delivery, NEW s \in Senders, GetFreeOp(s)
    PROVE  Delivery'
<1> DEFINE o == Head(freeQ)
<1>1. o \in Ops /\ InQ(freeQ, o)
    BY GetMembers DEF GetFreeOp, TypeOK
<1>2. ~InQ(activeQ, o) /\ ~ThreadHolds(o) /\ \A t \in Senders : ~Holds(t, o)
    BY <1>1 DEF Ownership, FreeUnheld
<1>3. /\ data' = [data EXCEPT ![o] = NoRequest]
      /\ result' = [result EXCEPT ![o] = Zero]
      /\ done' = [done EXCEPT ![o] = ZeroedSignal]
      /\ pc[s] = "idle" /\ pc'[s] = "fill"
      /\ \A t \in Senders : t # s =>
            /\ pc'[t] = pc[t] /\ my'[t] = my[t]
            /\ tag'[t] = tag[t] /\ ret'[t] = ret[t]
      /\ UNCHANGED <<activeQ, wpc, cur, wret>>
    BY DEF GetFreeOp, Goto, workerVars, TypeOK
<1> HIDE DEF o
<1>4. \A p \in Ops : p # o => SameOp(p)
    BY <1>3 DEF SameOp, TypeOK
<1>5. CallerDelivery(s)'
    BY <1>3 DEF CallerDelivery, RefPC
<1> QED BY <1>2, <1>3, <1>4, <1>5, CallerStepDelivery

\* A call that finds no op returns a failure.
LEMMA GetFreeOpFailsDelivery ==
    ASSUME TypeOK, Ownership, Delivery, NEW s \in Senders, GetFreeOpFails(s)
    PROVE  Delivery'
<1>1. /\ pc[s] = "idle" /\ pc'[s] = "idle" /\ ret'[s] = NoFreeOp
      /\ \A t \in Senders : t # s =>
            /\ pc'[t] = pc[t] /\ my'[t] = my[t]
            /\ tag'[t] = tag[t] /\ ret'[t] = ret[t]
      /\ UNCHANGED <<data, result, done, activeQ, wpc, cur, wret>>
    BY DEF GetFreeOpFails, Return, opVars, workerVars, TypeOK
<1>2. \A p \in Ops : SameOp(p)
    BY <1>1 DEF SameOp
<1>3. CallerDelivery(s)'
    BY <1>1 DEF CallerDelivery, RefPC
<1> QED BY <1>1, <1>2, <1>3, CallerStepDelivery

\* The caller prepares its op: the request is written, the completion armed.
LEMMA PrepareDelivery ==
    ASSUME TypeOK, Ownership, Delivery, NEW s \in Senders,
           FillOp(s) \/ ArmOp(s) \/ TakeRefForThread(s)
    PROVE  Delivery'
<1>1. /\ pc[s] \in {"fill", "arm", "ref"}
      /\ \A t \in Senders : t # s =>
            /\ pc'[t] = pc[t] /\ my'[t] = my[t]
            /\ tag'[t] = tag[t] /\ ret'[t] = ret[t]
      /\ UNCHANGED <<activeQ, my, tag, ret, wpc, cur, wret>>
    BY DEF FillOp, ArmOp, TakeRefForThread, Goto, workerVars, TypeOK
<1>2. /\ my[s] \in Ops /\ ~ThreadHolds(my[s])
      /\ \A t \in Senders : t # s => ~Holds(t, my[s])
    BY <1>1, PrivateOp DEF PrivatePC
<1>3. \A p \in Ops : p # my[s] => SameOp(p)
    BY <1>1, <1>2 DEF FillOp, ArmOp, TakeRefForThread, SameOp, TypeOK
<1>4. ASSUME s \in WaitSenders PROVE CallerDelivery(s)'
    <2>0. CallerDelivery(s)
        BY <1>4, DeliveryParts
    <2>1. CASE FillOp(s)
        <3>1. pc'[s] = "arm" /\ data'[my[s]] = Own(s)
            BY <1>2, <2>1 DEF FillOp, Goto, TypeOK, Own
        <3> QED BY <1>1, <3>1 DEF CallerDelivery, RefPC, Own
    <2>2. CASE ArmOp(s)
        <3>1. timeoutValue[my[s]] = 1
            BY <1>4, <2>2 DEF ArmOp, Ownership, TimeoutKept
        <3>2. pc[s] = "arm" /\ pc'[s] = "ref" /\ done'[my[s]] = 0 /\ UNCHANGED data
            BY <1>2, <2>2, <3>1 DEF ArmOp, Goto, TypeOK
        <3> QED BY <1>1, <2>0, <3>2 DEF CallerDelivery, RefPC, Own
    <2>3. CASE TakeRefForThread(s)
        <3>1. pc[s] = "ref" /\ pc'[s] = "put" /\ UNCHANGED <<data, result, done>>
            BY <1>2, <2>3 DEF TakeRefForThread, Goto, TypeOK
        <3> QED BY <1>1, <2>0, <3>1 DEF CallerDelivery, RefPC, Own
    <2> QED BY <2>1, <2>2, <2>3
<1> QED BY <1>1, <1>2, <1>3, <1>4, CallerStepDelivery

\* The op goes to the active queue, or does not and the call fails.
LEMMA PutActiveDelivery ==
    ASSUME TypeOK, Ownership, Delivery, NEW s \in Senders,
           PutOpToActive(s) \/ PutOpToActiveFails(s)
    PROVE  Delivery'
<1>1. /\ pc[s] = "put"
      /\ \A t \in Senders : t # s =>
            /\ pc'[t] = pc[t] /\ my'[t] = my[t]
            /\ tag'[t] = tag[t] /\ ret'[t] = ret[t]
      /\ UNCHANGED <<data, result, done, my, tag, wpc, cur, wret>>
    BY DEF PutOpToActive, PutOpToActiveFails, Goto, opVars, workerVars, TypeOK
<1>2. /\ my[s] \in Ops /\ ~Handed(my[s]) /\ ~ThreadHolds(my[s])
      /\ \A t \in Senders : t # s => ~Holds(t, my[s])
    BY <1>1, PrivateOp DEF PrivatePC
<1>3. \A p \in Ops : p # my[s] => SameOp(p)
    <2>1. CASE PutOpToActive(s)
        BY <1>1, <1>2, <2>1, PutMembers DEF PutOpToActive, SameOp, TypeOK
    <2>2. CASE PutOpToActiveFails(s)
        BY <1>1, <2>2 DEF PutOpToActiveFails, SameOp
    <2> QED BY <2>1, <2>2
<1>4. ASSUME s \in WaitSenders PROVE CallerDelivery(s)'
    <2>0. CallerDelivery(s)
        BY <1>4, DeliveryParts
    <2>1. CASE PutOpToActive(s)
        <3>1. pc'[s] = "wake"
            BY <2>1 DEF PutOpToActive, Goto, TypeOK
        <3> QED BY <1>1, <2>0, <3>1 DEF CallerDelivery, RefPC, Own
    <2>2. CASE PutOpToActiveFails(s)
        <3>1. pc'[s] = "drop" /\ ret'[s] = PutFailed
            BY <2>2 DEF PutOpToActiveFails, Goto, TypeOK
        <3>2. ~Handed(my[s])'
            BY <1>1, <1>2, <2>2 DEF PutOpToActiveFails, Handed, ThreadHolds
        <3> QED BY <1>1, <2>0, <3>1, <3>2 DEF CallerDelivery, RefPC, Own
    <2> QED BY <2>1, <2>2
<1> QED BY <1>1, <1>2, <1>3, <1>4, CallerStepDelivery

\* The caller wakes the thread.
LEMMA TriggerDelivery ==
    ASSUME TypeOK, Ownership, Delivery, NEW s \in Senders, TriggerEvent(s)
    PROVE  Delivery'
<1>1. /\ pc[s] = "wake" /\ pc'[s] = "check" /\ WakeThread
      /\ \A t \in Senders : t # s =>
            /\ pc'[t] = pc[t] /\ my'[t] = my[t]
            /\ tag'[t] = tag[t] /\ ret'[t] = ret[t]
      /\ UNCHANGED <<data, result, done, activeQ, my, tag, ret, cur, wret>>
    BY DEF TriggerEvent, Goto, opVars, TypeOK
<1>2. \A p : SameOp(p)
    BY <1>1 DEF SameOp
<1>3. ASSUME s \in WaitSenders PROVE CallerDelivery(s)'
    <2>1. Handed(my[s])' = Handed(my[s]) /\ Answering(my[s])' = Answering(my[s])
        BY <1>1 DEF Handed, ThreadHolds, Answering, WakeThread
    <2>2. CallerDelivery(s)
        BY <1>3, DeliveryParts
    <2> QED BY <1>1, <2>1, <2>2 DEF CallerDelivery, RefPC, Own
<1> QED BY <1>1, <1>2, <1>3, CallerStepDelivery

\* The caller finds out whether it waits; if it does, it has read its own
\* timeoutValue.
LEMMA CheckWaitDelivery ==
    ASSUME TypeOK, Ownership, Delivery, NEW s \in Senders, CheckWait(s)
    PROVE  Delivery'
<1>1. /\ pc[s] = "check"
      /\ \A t \in Senders : t # s =>
            /\ pc'[t] = pc[t] /\ my'[t] = my[t]
            /\ tag'[t] = tag[t] /\ ret'[t] = ret[t]
      /\ UNCHANGED <<data, result, done, activeQ, my, tag, wpc, cur, wret>>
    BY DEF CheckWait, Goto, opVars, workerVars, TypeOK
<1>2. \A p : SameOp(p)
    BY <1>1 DEF SameOp
<1>3. ASSUME s \in WaitSenders PROVE pc'[s] = "wait" /\ CallerDelivery(s)'
    <2>1. timeoutValue[my[s]] = 1
        BY <1>1, <1>3 DEF Ownership, TimeoutKept, RefPC
    <2>2. pc'[s] = "wait"
        BY <2>1 DEF CheckWait, Goto, TypeOK
    <2>3. Handed(my[s])' = Handed(my[s]) /\ Answering(my[s])' = Answering(my[s])
        BY <1>1 DEF Handed, ThreadHolds, Answering
    <2>4. CallerDelivery(s)
        BY <1>3, DeliveryParts
    <2> QED BY <1>1, <2>2, <2>3, <2>4 DEF CallerDelivery, RefPC, Own
<1> QED BY <1>1, <1>2, <1>3, CallerStepDelivery

\* The wait ends only with the completion: the result is the caller's own, and
\* the caller returns it.
LEMMA WaitDelivery ==
    ASSUME Timely, Uniform, TypeOK, Ownership, Delivery, NEW s \in Senders,
           WaitSignalled(s) \/ WaitTimesOut(s) \/ ReadResult(s)
    PROVE  Delivery'
<1>0. ~WaitTimesOut(s)
    BY DEF WaitTimesOut
<1>1. /\ pc[s] \in {"wait", "result"} /\ my[s] \in Ops
      /\ \A t \in Senders : t # s =>
            /\ pc'[t] = pc[t] /\ my'[t] = my[t]
            /\ tag'[t] = tag[t] /\ ret'[t] = ret[t]
      /\ UNCHANGED <<data, result, activeQ, my, tag, wpc, cur, wret>>
    BY <1>0 DEF WaitSignalled, ReadResult, Goto, opVars, workerVars, TypeOK
<1>2. Handed(my[s])' = Handed(my[s]) /\ Answering(my[s])' = Answering(my[s])
    BY <1>1 DEF Handed, ThreadHolds, Answering
<1>3. CASE ReadResult(s)
    <2>1. /\ pc[s] = "result" /\ pc'[s] = "drop" /\ ret'[s] = result[my[s]]
          /\ UNCHANGED done
        BY <1>3 DEF ReadResult, Goto, opVars, TypeOK
    <2>2. \A p : SameOp(p)
        BY <1>1, <2>1 DEF SameOp
    <2>3. ASSUME s \in WaitSenders PROVE CallerDelivery(s)'
        <3>1. CallerDelivery(s)
            BY <2>3, DeliveryParts
        <3> QED BY <1>1, <1>2, <2>1, <3>1 DEF CallerDelivery, RefPC, Own
    <2> QED BY <1>1, <2>1, <2>2, <2>3, CallerStepDelivery
<1>4. CASE WaitSignalled(s)
    <2>1. /\ pc[s] = "wait" /\ pc'[s] = "result" /\ done[my[s]] > 0
          /\ \A p \in Ops : p # my[s] => done'[p] = done[p]
          /\ UNCHANGED ret
        BY <1>1, <1>4 DEF WaitSignalled, Goto, TypeOK
    <2>2. \A p \in Ops : p # my[s] => SameOp(p)
        BY <1>1, <2>1 DEF SameOp
    <2>3. CASE s \in WaitSenders
        <3>1. CallerDelivery(s)
            BY <2>3, DeliveryParts
        <3>2. result[my[s]] = Own(s) /\ ~Handed(my[s]) /\ ~Answering(my[s])
            BY <2>1, <3>1 DEF CallerDelivery
        <3>3. \A t \in Senders : t # s => ~Holds(t, my[s])
            BY <1>1, <2>1, <2>3, WaiterHolds DEF Ownership, HeldOnce, RefPC
        <3>4. CallerDelivery(s)'
            BY <1>1, <1>2, <2>1, <3>1, <3>2 DEF CallerDelivery, RefPC, Own
        <3>5. ~ThreadHolds(my[s])
            BY <3>2 DEF Handed
        <3> QED BY <1>1, <2>1, <2>2, <3>2, <3>3, <3>4, <3>5, CallerStepDelivery
    <2>4. CASE s \notin WaitSenders
        <3>1. WaitSenders = {}
            BY <2>4 DEF Uniform, Senders
        <3> QED BY <1>1, <3>1, DeliveryParts DEF ThreadDelivery, AnswersWaiter
    <2> QED BY <2>3, <2>4
<1> QED BY <1>0, <1>3, <1>4

\* The caller lets go of the op and returns what it has read.
LEMMA ReleaseDelivery ==
    ASSUME TypeOK, Ownership, Delivery, NEW s \in Senders,
           DropRef(s) \/ PutOpToFree(s) \/ PutOpToFreeFails(s)
    PROVE  Delivery'
<1>1. /\ pc[s] \in {"drop", "free"} /\ pc'[s] \in {"idle", "free"}
      /\ ret'[s] = ret[s]
      /\ \A t \in Senders : t # s =>
            /\ pc'[t] = pc[t] /\ my'[t] = my[t]
            /\ tag'[t] = tag[t] /\ ret'[t] = ret[t]
      /\ UNCHANGED <<data, result, done, activeQ, tag, wpc, cur, wret>>
    BY DEF DropRef, PutOpToFree, PutOpToFreeFails, Goto, Return, opVars,
       workerVars, TypeOK
<1>2. \A p : SameOp(p)
    BY <1>1 DEF SameOp
<1>3. ASSUME s \in WaitSenders PROVE CallerDelivery(s)'
    <2>1. CallerDelivery(s)
        BY <1>3, DeliveryParts
    <2> QED BY <1>1, <2>1 DEF CallerDelivery, RefPC, Own
<1> QED BY <1>1, <1>2, <1>3, CallerStepDelivery

-----------------------------------------------------------------------------
(* The steps of the thread *)

\* A step of the thread that touches no op and does not begin to answer.
LEMMA ThreadMovesDelivery ==
    ASSUME TypeOK, Ownership, Delivery,
           UNCHANGED <<data, result, done, pc, my, tag, ret>>,
           \A p \in Ops : Handed(p)' => Handed(p),
           \A p \in Ops : Answering(p)' => Answering(p),
           wpc' = "dec" => wret' = data[cur'],
           AnswersWaiter'
    PROVE  Delivery'
<1>1. ASSUME NEW t \in WaitSenders PROVE CallerDelivery(t)'
    <2>1. CallerDelivery(t)
        BY DeliveryParts
    <2>2. pc[t] \in RefPC \cup {"arm"} => my[t] \in Ops
        BY WaiterHolds
    <2> QED BY <2>1, <2>2, OtherCaller
<1> QED BY <1>1, DeliveryParts DEF ThreadDelivery

\* The thread takes an op, and runs its handler.
LEMMA RunDelivery ==
    ASSUME TypeOK, Ownership, Delivery, WorkerGetOp \/ RunHandler
    PROVE  Delivery'
<1> USE DEF WorkerGoto, opVars, senderVars
<1>1. /\ UNCHANGED <<data, result, done, pc, my, tag, ret>>
      /\ wpc' \in {"run", "dec"} /\ (wpc' = "dec" => wret' = data[cur'])
    BY DEF WorkerGetOp, RunHandler
<1>2. \A p \in Ops : Handed(p)' => Handed(p)
    <2>1. CASE WorkerGetOp
        BY <2>1, GetMembers DEF WorkerGetOp, Handed, ThreadHolds, TypeOK
    <2>2. CASE RunHandler
        BY <2>2 DEF RunHandler, Handed, ThreadHolds, InQ
    <2> QED BY <2>1, <2>2
<1>3. AnswersWaiter' /\ \A p \in Ops : ~Answering(p)'
    BY <1>1 DEF AnswersWaiter, Answering
<1> QED BY <1>1, <1>2, <1>3, ThreadMovesDelivery

\* The thread goes back to its wait loop, falls asleep in it or leaves it.
LEMMA IdleDelivery ==
    ASSUME TypeOK, Ownership, Delivery,
           WorkerPutOpToFree \/ WorkerSleeps \/ WorkerExit
    PROVE  Delivery'
<1>1. /\ UNCHANGED <<data, result, done, activeQ, pc, my, tag, ret>>
      /\ wpc' \in {"wait", "asleep", "exited"}
    BY DEF WorkerPutOpToFree, WorkerSleeps, WorkerExit, WorkerGoto, opVars, senderVars
<1>2. \A p \in Ops : Handed(p)' => Handed(p)
    BY <1>1 DEF Handed, ThreadHolds
<1>3. AnswersWaiter' /\ \A p \in Ops : ~Answering(p)'
    BY <1>1 DEF AnswersWaiter, Answering
<1> QED BY <1>1, <1>2, <1>3, ThreadMovesDelivery

\* The thread drops its reference.  If there is another one it is that of the
\* caller, which has queued the op and not yet been woken.
LEMMA WorkerDropDelivery ==
    ASSUME TypeOK, Ownership, Delivery, WorkerDropRef
    PROVE  Delivery'
<1>1. /\ wpc = "dec" /\ cur \in Ops /\ wpc' \in {"free", "check"}
      /\ wpc' = "check" => ref[cur] # 1
      /\ UNCHANGED <<data, result, done, activeQ, pc, my, tag, ret, cur, wret>>
    BY DEF WorkerDropRef, WorkerGoto, senderVars, TypeOK
<1>2. ThreadHolds(cur) /\ Handed(cur) /\ ~InQ(activeQ, cur)
    BY <1>1 DEF ThreadHolds, Handed, Ownership, ActiveNotRunning
<1>3. ASSUME NEW t \in WaitSenders PROVE CallerDelivery(t)'
    <2>1. CallerDelivery(t)
        BY DeliveryParts
    <2>2. Handed(my[t])' => Handed(my[t])
        BY <1>1 DEF Handed, ThreadHolds
    <2>3. Answering(my[t])' => Handed(my[t])
        BY <1>1, <1>2 DEF Answering
    <2> QED BY <1>1, <2>1, <2>2, <2>3, OtherCaller
<1>4. AnswersWaiter'
    <2> SUFFICES ASSUME wpc' = "check" PROVE AnswersWaiter'
        BY <1>1 DEF AnswersWaiter
    <2>1. \E w \in WaitSenders : my[w] = cur /\ pc[w] \in RefPC
        <3>1. ThreadRefs(cur) = 1
            BY <1>1 DEF ThreadRefs
        <3>2. ref[cur] = CallerRefs(cur) + 1
            BY <1>1, <3>1 DEF Ownership, RefCountExact
        <3>3. CallerRefs(cur) # 0
            BY <1>1, <3>2
        <3> QED BY <3>3 DEF CallerRefs
    <2>2. PICK w \in WaitSenders : my[w] = cur /\ pc[w] \in RefPC
        BY <2>1
    <2>3. w \in Senders /\ CallerDelivery(w)
        BY DeliveryParts DEF Senders
    <2>4. pc[w] \notin PrivatePC
        BY <1>1, <1>2, <2>2, <2>3 DEF Ownership, HandedNotPrivate
    <2>5. pc[w] \in {"wake", "check", "wait", "result", "drop"}
        BY <2>2, <2>4 DEF RefPC, PrivatePC
    <2>6. pc[w] \in {"wake", "check", "wait"} /\ done[cur] = 0
        BY <1>2, <2>2, <2>3, <2>5 DEF CallerDelivery
    <2>7. wret = Own(w)
        <3>1. wret = data[cur]
            BY <1>1, DeliveryParts DEF ThreadDelivery
        <3> QED BY <2>2, <2>3, <3>1 DEF CallerDelivery
    <2> QED BY <1>1, <1>2, <2>2, <2>6, <2>7 DEF AnswersWaiter, Own
<1> QED BY <1>1, <1>3, <1>4, DeliveryParts DEF ThreadDelivery

\* The caller that the thread answers is the only one that works on the op.
LEMMA AnsweredCaller ==
    ASSUME TypeOK, Ownership, Delivery, wpc \in {"check", "write", "raise"},
           NEW t \in WaitSenders, pc[t] \in RefPC \cup {"arm"}, my[t] = cur
    PROVE  pc[t] \in {"wake", "check", "wait"} /\ wret = Own(t)
<1>1. PICK w \in WaitSenders : /\ my[w] = cur /\ pc[w] \in {"wake", "check", "wait"}
                               /\ wret = <<w, tag[w]>>
    BY DEF Delivery, AnswersWaiter
<1>2. Holds(w, cur) /\ Holds(t, cur) /\ w \in Senders /\ t \in Senders /\ cur \in Ops
    BY <1>1, WaiterHolds DEF RefPC
<1>3. w = t
    BY <1>2 DEF Ownership, HeldOnce
<1> QED BY <1>1, <1>3 DEF Own

\* The thread writes the result and raises the completion, while the caller
\* waits.
LEMMA AnswerDelivery ==
    ASSUME TypeOK, Ownership, Delivery,
           WorkerCheckWait \/ WorkerWriteResult \/ WorkerRaiseSignal
    PROVE  Delivery'
<1> USE DEF WorkerGoto, opVars, senderVars
<1>1. /\ wpc \in {"check", "write", "raise"} /\ cur \in Ops
      /\ UNCHANGED <<data, activeQ, pc, my, tag, ret, cur, wret>>
      /\ \A p \in Ops : p # cur => result'[p] = result[p] /\ done'[p] = done[p]
    BY DEF WorkerCheckWait, WorkerWriteResult, WorkerRaiseSignal, TypeOK
<1>2. PICK w \in WaitSenders : /\ my[w] = cur /\ pc[w] \in {"wake", "check", "wait"}
                               /\ wret = <<w, tag[w]>>
    BY <1>1 DEF Delivery, AnswersWaiter
<1>3. ~InQ(activeQ, cur) /\ done[cur] = 0 /\ (wpc = "raise" => result[cur] = wret)
    BY <1>1 DEF Delivery, AnswersWaiter
<1>4. \/ wpc = "check" /\ wpc' = "write" /\ result'[cur] = result[cur] /\ done'[cur] = 0
      \/ wpc = "write" /\ wpc' = "raise" /\ result'[cur] = wret /\ done'[cur] = 0
      \/ /\ wpc = "raise" /\ wpc' = "wait" /\ result'[cur] = wret
         /\ done'[cur] = 1
    <2>1. CASE WorkerCheckWait
        <3>1. timeoutValue[cur] = 1
            BY <1>2 DEF Ownership, TimeoutKept, RefPC
        <3> QED BY <1>3, <2>1, <3>1 DEF WorkerCheckWait
    <2>2. CASE WorkerWriteResult
        BY <1>1, <1>3, <2>2 DEF WorkerWriteResult, TypeOK
    <2>3. CASE WorkerRaiseSignal
        BY <1>1, <1>3, <2>3 DEF WorkerRaiseSignal, TypeOK
    <2> QED BY <2>1, <2>2, <2>3
<1>5. wpc' \in {"wait", "write", "raise"}
    BY <1>4
<1>6. AnswersWaiter'
    BY <1>1, <1>2, <1>3, <1>4 DEF AnswersWaiter
<1>7. ASSUME NEW t \in WaitSenders PROVE CallerDelivery(t)'
    <2>1. CallerDelivery(t)
        BY DeliveryParts
    <2>2. Handed(my[t])' => Handed(my[t])
        BY <1>1, <1>5 DEF Handed, ThreadHolds
    <2>3. Answering(my[t])' => Answering(my[t])
        BY <1>1, <1>5 DEF Answering
    <2>4. CASE pc[t] \in RefPC \cup {"arm"} /\ my[t] = cur
        <3>1. pc[t] \in {"wake", "check", "wait"} /\ wret = Own(t)
            BY <1>1, <2>4, AnsweredCaller
        <3>2. done'[my[t]] = 1 =>
                  /\ result'[my[t]] = Own(t)
                  /\ ~Handed(my[t])' /\ ~Answering(my[t])'
            BY <1>1, <1>3, <1>4, <2>4, <3>1
            DEF Handed, ThreadHolds, Answering
        <3>3. done'[my[t]] \in {0, 1}
            BY <1>4, <2>4
        <3> QED BY <1>1, <2>1, <3>1, <3>2, <3>3 DEF CallerDelivery, RefPC, Own
    <2>5. CASE ~(pc[t] \in RefPC \cup {"arm"} /\ my[t] = cur)
        <3>1. pc[t] \in RefPC \cup {"arm"} => my[t] \in Ops /\ my[t] # cur
            BY <2>5, WaiterHolds
        <3> QED BY <1>1, <2>1, <2>2, <2>3, <3>1, OtherCaller
    <2> QED BY <2>4, <2>5
<1> QED BY <1>1, <1>5, <1>6, <1>7, DeliveryParts DEF ThreadDelivery

-----------------------------------------------------------------------------

\* In time, the completion is the one its caller has initialised: the thread does
\* not die of raising it.
LEMMA NoOops ==
    ASSUME Delivery
    PROVE  ~WorkerOopses
BY DEF Delivery, AnswersWaiter, WorkerOopses, ZeroedSignal

\* msg_thread_deinit and msg_thread_init find every caller outside the thread's
\* functions.
LEMMA ResetDelivery ==
    ASSUME TypeOK, Ownership, Delivery, ThreadDeinit \/ ThreadInit
    PROVE  Delivery'
<1>1. /\ state # "up" /\ UNCHANGED <<pc, tag, ret>>
      /\ wpc' \in {"wait", "exited", "dead"}
    BY DEF ThreadDeinit, ThreadInit, ResetContext, senderVars
<1>2. ASSUME NEW s \in WaitSenders PROVE CallerDelivery(s)'
    <2>1. pc[s] = "idle" /\ CallerDelivery(s)
        BY <1>1, DeliveryParts DEF Ownership, IdleWhenStopped, Senders
    <2> QED BY <1>1, <2>1 DEF CallerDelivery, RefPC, Own
<1> QED BY <1>1, <1>2, DeliveryParts DEF ThreadDelivery, AnswersWaiter

\* The initial state delivers nothing to anybody.
LEMMA DeliveryInit == Init => Delivery
<1> SUFFICES ASSUME Init PROVE Delivery
    OBVIOUS
<1>1. \A s \in WaitSenders : pc[s] = "idle" /\ ret[s] = NotCalled
    BY DEF Init, Senders
<1> QED BY <1>1 DEF Init, Delivery, RequestKept, AnswersWaiter,
           RaisedMeansAnswered, OwnResult, ReturnKnown, RefPC

\* Every step preserves Delivery when handlers end in time.
LEMMA DeliveryNext ==
    ASSUME Timely, Uniform, TypeOK, Ownership, Delivery, [Next]_vars
    PROVE  Delivery'
<1>1. CASE ThreadStop \/ UNCHANGED vars
    <2>1. /\ UNCHANGED <<data, result, done, activeQ, pc, my, tag, ret, cur, wret>>
          /\ UNCHANGED wpc \/ WakeThread
        BY <1>1 DEF ThreadStop, vars, opVars, senderVars, workerVars
    <2>2. \A p \in Ops : Handed(p)' = Handed(p) /\ Answering(p)' = Answering(p)
        BY <2>1 DEF Handed, ThreadHolds, Answering, WakeThread
    <2>3. AnswersWaiter' /\ (wpc' = "dec" => wret' = data[cur'])
        BY <2>1 DEF Delivery, AnswersWaiter, RequestKept, WakeThread
    <2> QED BY <2>1, <2>2, <2>3, ThreadMovesDelivery
<1> QED
    BY <1>1, GetFreeOpDelivery, GetFreeOpFailsDelivery, PrepareDelivery,
       PutActiveDelivery, TriggerDelivery, NoOops, CheckWaitDelivery, WaitDelivery, ReleaseDelivery,
       RunDelivery, IdleDelivery, WorkerDropDelivery, AnswerDelivery, ResetDelivery
    DEF Next, Sender, Worker

\* From the request in the op to the caller's return value: with handlers that
\* end in time and callers of one kind, a request and its result are never
\* separated, for any number of callers and any pool size.
THEOREM DeliveryHolds == Timely /\ Uniform => (Spec => []Delivery)
<1> SUFFICES ASSUME Timely, Uniform PROVE Spec => []Delivery
    OBVIOUS
<1>1. TypeOK /\ Ownership /\ Delivery /\ [Next]_vars => Delivery'
    BY DeliveryNext
<1> QED BY <1>1, DeliveryInit, OwnershipHolds, TypeCorrect, PTL DEF Spec

\* A caller that waited gets the result of the request it made.
THEOREM ResultsAreOwn == Timely /\ Uniform => (Spec => []OwnResult)
<1>1. Delivery => OwnResult
    BY DEF Delivery
<1> QED BY <1>1, DeliveryHolds, PTL

\* When handlers end in time the thread never dies of a signal raised for an op
\* that has a new owner: the completion it raises is always the one that the
\* waiting caller initialised.
THEOREM ThreadSurvives == Timely /\ Uniform => (Spec => []ThreadAlive)
<1> SUFFICES ASSUME Timely, Uniform PROVE Spec => []ThreadAlive
    OBVIOUS
<1>1. Init => ThreadAlive
    BY DEF Init, ThreadAlive
<1>2. Delivery /\ ThreadAlive /\ [Next]_vars => ThreadAlive'
    <2> SUFFICES ASSUME Delivery, ThreadAlive, [Next]_vars PROVE ThreadAlive'
        OBVIOUS
    <2> USE DEF ThreadAlive, workerVars, WorkerGoto, WakeThread
    <2>1. ASSUME NEW s \in Senders, GetFreeOp(s) \/ GetFreeOpFails(s) \/ Sender(s)
          PROVE  ThreadAlive'
        BY <2>1 DEF GetFreeOp, GetFreeOpFails, Sender, FillOp, ArmOp,
           TakeRefForThread, PutOpToActive, PutOpToActiveFails, TriggerEvent,
           CheckWait, WaitSignalled, WaitTimesOut, ReadResult, DropRef,
           PutOpToFree, PutOpToFreeFails
    <2>2. CASE Worker
        BY <2>2, NoOops DEF Worker, WorkerSleeps, WorkerGetOp, RunHandler,
           WorkerDropRef, WorkerPutOpToFree, WorkerCheckWait, WorkerWriteResult,
           WorkerRaiseSignal, WorkerExit
    <2>3. CASE ThreadStop \/ ThreadDeinit \/ ThreadInit \/ UNCHANGED vars
        BY <2>3 DEF ThreadStop, ThreadDeinit, ThreadInit, vars
    <2> QED BY <2>1, <2>2, <2>3 DEF Next
<1> QED BY <1>1, <1>2, DeliveryHolds, PTL DEF Spec
=============================================================================
