--------------------------- MODULE MsgThreadProofs ---------------------------
(***************************************************************************)
(* Proofs about MsgThread for any number of callers and any pool size.  At *)
(* the end those about the pool of ops: a put always finds room, and       *)
(* without fatal signals no op is ever lost.                               *)
(***************************************************************************)
EXTENDS MsgThread, FiniteSetTheorems, TLAPS

-----------------------------------------------------------------------------
(* Queues *)

\* The free queue that msg_thread_init builds holds every op once.
LEMMA InitialQueue ==
    LET q == [i \in 1 .. QSize |-> i]
    IN  q \in Seq(Ops) /\ NoRepeat(q)
<1> DEFINE q == [i \in 1 .. QSize |-> i]
<1>1. q \in Seq(Ops)
    BY QSizeAssumption DEF Ops
<1>2. Len(q) = QSize
    BY QSizeAssumption
<1> QED BY <1>1, <1>2 DEF NoRepeat

\* The active queue starts empty: it holds no op.
LEMMA EmptyQueue == NoRepeat(<<>>) /\ \A o \in Ops : ~InQ(<<>>, o)
BY DEF NoRepeat, InQ

\* MSG_OP_PUT: the queue gains the op it is given and no other.
LEMMA PutMembers ==
    ASSUME NEW q \in Seq(Ops), NEW o \in Ops
    PROVE  /\ Append(q, o) \in Seq(Ops)
           /\ \A p \in Ops : InQ(Append(q, o), p) <=> InQ(q, p) \/ p = o
           /\ NoRepeat(q) /\ ~InQ(q, o) => NoRepeat(Append(q, o))
<1> DEFINE r == Append(q, o)
<1>1. /\ r \in Seq(Ops) /\ Len(r) = Len(q) + 1 /\ Len(q) \in Nat
      /\ \A i \in 1 .. Len(q) : r[i] = q[i]
      /\ r[Len(q) + 1] = o
    OBVIOUS
<1>2. \A p \in Ops : InQ(r, p) <=> InQ(q, p) \/ p = o
    BY <1>1 DEF InQ
<1>3. ASSUME NoRepeat(q), ~InQ(q, o)
      PROVE  NoRepeat(r)
    BY <1>1, <1>3 DEF NoRepeat, InQ
<1> QED BY <1>1, <1>2, <1>3

\* MSG_OP_GET: the queue loses its oldest op, once, and no other.
LEMMA GetMembers ==
    ASSUME NEW q \in Seq(Ops), q # <<>>
    PROVE  /\ Head(q) \in Ops /\ Tail(q) \in Seq(Ops) /\ InQ(q, Head(q))
           /\ \A p \in Ops : InQ(Tail(q), p) => InQ(q, p)
           /\ \A p \in Ops : InQ(q, p) => InQ(Tail(q), p) \/ p = Head(q)
           /\ NoRepeat(q) => NoRepeat(Tail(q)) /\ ~InQ(Tail(q), Head(q))
<1> DEFINE r == Tail(q)
<1>1. /\ r \in Seq(Ops) /\ Len(q) \in Nat /\ Len(q) >= 1
      /\ Len(r) = Len(q) - 1
      /\ \A i \in 1 .. Len(r) : r[i] = q[i + 1]
      /\ Head(q) = q[1] /\ Head(q) \in Ops
    <2>1. Len(q) \in Nat /\ Len(q) >= 1
        OBVIOUS
    <2>2. r \in Seq(Ops) /\ Len(r) = Len(q) - 1
        BY <2>1
    <2>3. \A i \in 1 .. Len(r) : r[i] = q[i + 1]
        BY <2>1, <2>2
    <2>4. Head(q) = q[1] /\ Head(q) \in Ops
        BY <2>1
    <2> QED BY <2>1, <2>2, <2>3, <2>4
<1>2. InQ(q, Head(q))
    BY <1>1 DEF InQ
<1>3. \A p \in Ops : InQ(r, p) => InQ(q, p)
    BY <1>1 DEF InQ
<1>4. ASSUME NEW p \in Ops, InQ(q, p), p # Head(q)
      PROVE  InQ(r, p)
    <2>1. PICK i \in 1 .. Len(q) : q[i] = p
        BY <1>4 DEF InQ
    <2>2. i - 1 \in 1 .. Len(r) /\ r[i - 1] = q[i]
        BY <2>1, <1>1, <1>4
    <2> QED BY <2>1, <2>2 DEF InQ
<1>5. ASSUME NoRepeat(q)
      PROVE  NoRepeat(r) /\ ~InQ(r, Head(q))
    <2>1. NoRepeat(r)
        BY <1>1, <1>5 DEF NoRepeat
    <2>2. ASSUME NEW i \in 1 .. Len(r), r[i] = Head(q)
          PROVE  FALSE
        BY <1>1, <1>5, <2>2 DEF NoRepeat
    <2> QED BY <2>1, <2>2 DEF InQ
<1> QED BY <1>1, <1>2, <1>3, <1>4, <1>5

-----------------------------------------------------------------------------
(* Type correctness *)

\* msg_thread_init leaves a well-typed context.
LEMMA TypeInit == Init => TypeOK
BY InitialQueue DEF Init, TypeOK, Results, Returns, SenderPC, WorkerPC

\* Every step of callers, thread and module keeps the types.
LEMMA TypeNext == TypeOK /\ [Next]_vars => TypeOK'
<1> SUFFICES ASSUME TypeOK, [Next]_vars PROVE TypeOK'
    OBVIOUS
<1>0. /\ Zero \in Results /\ Unanswered \in Results
      /\ \A r \in Request \cup {NoRequest} : r \in Results
      /\ \A r \in Results : r \in Returns
      /\ NoFreeOp \in Returns /\ PutFailed \in Returns
      /\ Queued \in Returns /\ NotCalled \in Returns
    BY DEF Results, Returns
<1> USE <1>0 DEF SenderPC, WorkerPC, Goto, Return, WorkerGoto,
        opVars, senderVars, workerVars
<1>1. ASSUME NEW s \in Senders, GetFreeOp(s) PROVE TypeOK'
    <2>1. Head(freeQ) \in Ops /\ Tail(freeQ) \in Seq(Ops)
        BY <1>1, GetMembers DEF GetFreeOp, TypeOK
    <2>2. /\ freeQ' \in Seq(Ops)
          /\ data' \in [Ops -> Request \cup {NoRequest}]
          /\ result' \in [Ops -> Results]
        <3> DEFINE o == Head(freeQ)
        <3>0. o \in Ops
            BY <2>1
        <3>1. /\ freeQ' = Tail(freeQ)
              /\ data' = [data EXCEPT ![o] = NoRequest]
              /\ result' = [result EXCEPT ![o] = Zero]
            BY <1>1 DEF GetFreeOp
        <3> HIDE DEF o
        <3> QED BY <2>1, <3>0, <3>1 DEF TypeOK
    <2>6. /\ timeoutValue' \in [Ops -> {0, 1}]
          /\ ref' \in [Ops -> Int]
          /\ done' \in [Ops -> Int]
        <3> DEFINE o == Head(freeQ)
        <3>0. o \in Ops
            BY <2>1
        <3>1. /\ timeoutValue' = [timeoutValue EXCEPT ![o] = 0]
              /\ ref' = [ref EXCEPT ![o] = 0]
              /\ done' = [done EXCEPT ![o] = -1]
            BY <1>1 DEF GetFreeOp, ZeroedSignal
        <3> HIDE DEF o
        <3> QED BY <2>1, <3>0, <3>1 DEF TypeOK
    <2>3. tag' \in [Senders -> {0, 1}]
        <3>1. tag[s] \in {0, 1} /\ 1 - tag[s] \in {0, 1}
            BY DEF TypeOK
        <3> QED BY <1>1, <3>1 DEF GetFreeOp, TypeOK
    <2>4. /\ pc' \in [Senders -> SenderPC]
          /\ my' \in [Senders -> Ops \cup {NoOp}]
          /\ ret' \in [Senders -> Returns]
        BY <1>1, <2>1 DEF GetFreeOp, TypeOK
    <2>5. \A t \in Senders : pc'[t] # "idle" => my'[t] \in Ops
        BY <1>1, <2>1 DEF GetFreeOp, TypeOK
    <2> QED BY <1>1, <2>2, <2>3, <2>4, <2>5, <2>6 DEF GetFreeOp, TypeOK
<1>2. ASSUME NEW s \in Senders, GetFreeOpFails(s) PROVE TypeOK'
    BY <1>2 DEF GetFreeOpFails, TypeOK
<1>3. ASSUME NEW s \in Senders, FillOp(s) PROVE TypeOK'
    <2>1. <<s, tag[s]>> \in Request
        BY DEF TypeOK, Request
    <2>2. /\ data' \in [Ops -> Request \cup {NoRequest}]
          /\ timeoutValue' \in [Ops -> {0, 1}]
        BY <1>3, <2>1 DEF FillOp, TypeOK
    <2> QED BY <1>3, <2>2 DEF FillOp, TypeOK
<1>4. ASSUME NEW s \in Senders, ArmOp(s) PROVE TypeOK'
    <2>1. /\ result' \in [Ops -> Results]
          /\ ref' \in [Ops -> Int]
          /\ done' \in [Ops -> Int]
        <3>0. my[s] \in Ops
            BY <1>4 DEF ArmOp, TypeOK
        <3>1. CASE timeoutValue[my[s]] # 0
            <4>1. /\ result' = [result EXCEPT ![my[s]] = Unanswered]
                  /\ done' = [done EXCEPT ![my[s]] = 0]
                  /\ ref' = [ref EXCEPT ![my[s]] = 1]
                BY <1>4, <3>1 DEF ArmOp
            <4>2. result' \in [Ops -> Results]
                BY <3>0, <4>1 DEF TypeOK
            <4> QED BY <3>0, <4>1, <4>2 DEF TypeOK
        <3>2. CASE timeoutValue[my[s]] = 0
            BY <1>4, <3>2 DEF ArmOp, TypeOK
        <3> QED BY <3>1, <3>2
    <2> QED BY <1>4, <2>1 DEF ArmOp, TypeOK
<1>5. ASSUME NEW s \in Senders, TakeRefForThread(s) PROVE TypeOK'
    BY <1>5 DEF TakeRefForThread, TypeOK
<1>6. ASSUME NEW s \in Senders, PutOpToActive(s) PROVE TypeOK'
    BY <1>6, PutMembers DEF PutOpToActive, TypeOK
<1>7. ASSUME NEW s \in Senders, PutOpToActiveFails(s) PROVE TypeOK'
    BY <1>7 DEF PutOpToActiveFails, TypeOK
<1>8. ASSUME NEW s \in Senders, TriggerEvent(s) PROVE TypeOK'
    BY <1>8 DEF TriggerEvent, WakeThread, TypeOK
<1>9. ASSUME NEW s \in Senders, CheckWait(s) PROVE TypeOK'
    BY <1>9 DEF CheckWait, TypeOK
<1>10. ASSUME NEW s \in Senders, WaitSignalled(s) PROVE TypeOK'
    BY <1>10 DEF WaitSignalled, TypeOK
<1>11. ASSUME NEW s \in Senders, WaitTimesOut(s) PROVE TypeOK'
    BY <1>11 DEF WaitTimesOut, TypeOK
<1>12. ASSUME NEW s \in Senders, ReadResult(s) PROVE TypeOK'
    BY <1>12 DEF ReadResult, TypeOK
<1>13. ASSUME NEW s \in Senders, DropRef(s) PROVE TypeOK'
    <2>1. CASE timeoutValue[my[s]] = 0
        BY <1>13, <2>1 DEF DropRef, TypeOK
    <2>2. CASE timeoutValue[my[s]] # 0
        <3>1. ref' \in [Ops -> Int]
            BY <1>13, <2>2 DEF DropRef, TypeOK
        <3>2. CASE ref'[my[s]] = 0
            BY <1>13, <2>2, <3>1, <3>2 DEF DropRef, TypeOK
        <3>3. CASE ref'[my[s]] # 0
            <4>1. /\ pc' = [pc EXCEPT ![s] = "idle"]
                  /\ my' = [my EXCEPT ![s] = NoOp]
                  /\ ret' = [ret EXCEPT ![s] = ret[s]]
                BY <1>13, <2>2, <3>3 DEF DropRef
            <4> QED BY <1>13, <3>1, <4>1 DEF DropRef, TypeOK
        <3> QED BY <3>2, <3>3
    <2> QED BY <2>1, <2>2
<1>14. ASSUME NEW s \in Senders, PutOpToFree(s) PROVE TypeOK'
    BY <1>14, PutMembers DEF PutOpToFree, TypeOK
<1>15. ASSUME NEW s \in Senders, PutOpToFreeFails(s) PROVE TypeOK'
    BY <1>15 DEF PutOpToFreeFails, TypeOK
<1>16. CASE WorkerSleeps
    BY <1>16 DEF WorkerSleeps, TypeOK
<1>17. CASE WorkerGetOp
    BY <1>17, GetMembers DEF WorkerGetOp, TypeOK
<1>18. CASE RunHandler
    BY <1>18 DEF RunHandler, TypeOK
<1>19. CASE WorkerDropRef
    BY <1>19 DEF WorkerDropRef, TypeOK
<1>20. CASE WorkerPutOpToFree
    BY <1>20, PutMembers DEF WorkerPutOpToFree, TypeOK
<1>21. CASE WorkerCheckWait
    BY <1>21 DEF WorkerCheckWait, TypeOK
<1>22. CASE WorkerWriteResult
    BY <1>22 DEF WorkerWriteResult, TypeOK
<1>23. CASE WorkerRaiseSignal
    <2>1. done' \in [Ops -> Int]
        BY <1>23 DEF WorkerRaiseSignal, TypeOK
    <2> QED BY <1>23, <2>1 DEF WorkerRaiseSignal, TypeOK
<1>24. CASE WorkerOopses
    BY <1>24 DEF WorkerOopses, TypeOK
<1>25. CASE WorkerExit
    BY <1>25 DEF WorkerExit, TypeOK
<1>26. CASE ThreadStop
    BY <1>26 DEF ThreadStop, WakeThread, TypeOK
<1>27. CASE ThreadDeinit
    BY <1>27 DEF ThreadDeinit, ResetContext, TypeOK, ZeroedSignal
<1>28. CASE ThreadInit
    BY <1>28, InitialQueue DEF ThreadInit, ResetContext, TypeOK
<1>29. CASE UNCHANGED vars
    BY <1>29 DEF vars, TypeOK
<1> QED
    BY <1>1, <1>2, <1>3, <1>4, <1>5, <1>6, <1>7, <1>8, <1>9, <1>10,
       <1>11, <1>12, <1>13, <1>14, <1>15, <1>16, <1>17, <1>18, <1>19,
       <1>20, <1>21, <1>22, <1>23, <1>24, <1>25, <1>26, <1>27, <1>28,
       <1>29 DEF Next, Sender, Worker

\* Type correctness of the message thread: queues hold ops, every caller in the
\* middle of a call and the thread in the middle of its loop work on an op.
THEOREM TypeCorrect == Spec => []TypeOK
<1> QED BY TypeInit, TypeNext, PTL DEF Spec

-----------------------------------------------------------------------------
(* Ownership of ops *)

\* The value of my and cur when there is no op (NULL) is not an op.
LEMMA NoOpIsNoOp == NoOp \notin Ops
BY QSizeAssumption DEF NoOp, Ops

\* At the start every op is in the free queue, once, and nobody holds one.
LEMMA OwnershipInit == Init => Ownership
<1> SUFFICES ASSUME Init PROVE Ownership
    OBVIOUS
<1> USE DEF Init, Holds, ThreadHolds, RefPC, PrivatePC, Senders
<1>1. NoRepeat(freeQ) /\ NoRepeat(activeQ) /\ \A o \in Ops : ~InQ(activeQ, o)
    BY InitialQueue, EmptyQueue
<1>2. \A s \in Senders : pc[s] = "idle"
    OBVIOUS
<1>3. FreeUnheld /\ HandedNotPrivate /\ ActiveNotRunning /\ ThreadFreesUnheld
      /\ HeldOnce
    BY <1>1, <1>2 DEF FreeUnheld, HandedNotPrivate, Handed, ActiveNotRunning,
       ThreadFreesUnheld, HeldOnce
<1>4. RefCountExact
    <2>1. \A o \in Ops : CallerRefs(o) = 0 /\ ThreadRefs(o) = 0
        BY <1>1, <1>2 DEF CallerRefs, ThreadRefs
    <2> QED BY <2>1 DEF RefCountExact
<1>5. TimeoutKept /\ IdleWhenStopped
    BY <1>2 DEF TimeoutKept, IdleWhenStopped
<1> QED BY <1>1, <1>3, <1>4, <1>5 DEF Ownership

\* Exclusive use of ops survives every step after which queues, thread and
\* callers hold no op they did not hold before.
LEMMA FewerHolders ==
    ASSUME TypeOK, Ownership, NoRepeat(freeQ'), NoRepeat(activeQ'),
           \A o \in Ops :
               /\ InQ(freeQ', o) => InQ(freeQ, o)
               /\ InQ(activeQ', o) => InQ(activeQ, o)
               /\ ThreadHolds(o)' => ThreadHolds(o)
               /\ \A s \in Senders : Holds(s, o)' => Holds(s, o),
           \A s \in Senders : pc'[s] \in PrivatePC =>
               (pc[s] \in PrivatePC /\ my'[s] = my[s]) \/ ~Handed(my'[s]),
           wpc' = "free" => cur' \in Ops /\ \A s \in Senders : ~Holds(s, cur'),
           RefCountExact', TimeoutKept', IdleWhenStopped'
    PROVE  Ownership'
<1> USE DEF Ownership
<1>1. FreeUnheld'
    BY DEF FreeUnheld
<1>2. HandedNotPrivate' /\ ActiveNotRunning'
    BY DEF HandedNotPrivate, Handed, ActiveNotRunning
<1>3. ThreadFreesUnheld'
    BY DEF ThreadFreesUnheld, TypeOK
<1>4. HeldOnce'
    BY DEF HeldOnce
<1> QED BY <1>1, <1>2, <1>3, <1>4

\* A step that writes no timeout and gives nobody an op keeps TimeoutKept.
LEMMA SameTimeouts ==
    ASSUME TypeOK, TimeoutKept, UNCHANGED timeoutValue,
           \A s \in Senders : pc'[s] \in RefPC \cup {"arm"} =>
                                  pc[s] \in RefPC \cup {"arm"} /\ my'[s] = my[s]
    PROVE  TimeoutKept'
BY DEF TimeoutKept, Senders

\* A step that leaves the queues, the counts and everybody's hold on ops alone
\* preserves Ownership.
LEMMA SameOwners ==
    ASSUME TypeOK, Ownership,
           UNCHANGED <<freeQ, activeQ, ref, timeoutValue, cur>>,
           wpc' \in {"run", "dec"} <=> wpc \in {"run", "dec"},
           wpc' = "free" <=> wpc = "free",
           \A s \in Senders :
               /\ pc'[s] \in PrivatePC <=> pc[s] \in PrivatePC
               /\ s \in WaitSenders => (pc'[s] \in RefPC <=> pc[s] \in RefPC)
               /\ pc'[s] \in RefPC => pc[s] \in RefPC
               /\ pc'[s] = "put" <=> pc[s] = "put"
               /\ pc'[s] = "arm" => pc[s] = "arm"
               /\ pc'[s] # "idle" => my'[s] = my[s],
           state' # "up" => \A s \in Senders : pc'[s] = "idle"
    PROVE  Ownership'
<1>1. "idle" \notin PrivatePC /\ "idle" \notin RefPC /\ "idle" # "put"
      /\ "idle" # "arm"
    BY DEF PrivatePC, RefPC
<1>2. \A s \in Senders, o \in Ops : Holds(s, o)' <=> Holds(s, o)
    BY <1>1 DEF Holds
<1>3. \A o \in Ops : ThreadHolds(o)' <=> ThreadHolds(o)
    BY DEF ThreadHolds
<1>4. RefCountExact'
    <2>1. ASSUME NEW o \in Ops
          PROVE  CallerRefs(o)' = CallerRefs(o) /\ ThreadRefs(o)' = ThreadRefs(o)
        BY <1>1 DEF CallerRefs, ThreadRefs, Senders
    <2> QED BY <2>1 DEF RefCountExact, Ownership
<1>5. TimeoutKept'
    BY <1>1, SameTimeouts DEF Ownership
<1>6. IdleWhenStopped'
    BY DEF IdleWhenStopped
<1> QED
    BY <1>1, <1>2, <1>3, <1>4, <1>5, <1>6, FewerHolders
    DEF Ownership, ThreadFreesUnheld, TypeOK

\* A caller takes the oldest free op.
LEMMA GetFreeOpOwners ==
    ASSUME TypeOK, Ownership, NEW s \in Senders, GetFreeOp(s)
    PROVE  Ownership'
<1> DEFINE o == Head(freeQ)
<1> USE DEF Ownership
<1>1. /\ pc[s] = "idle" /\ pc' = [pc EXCEPT ![s] = "fill"]
      /\ my' = [my EXCEPT ![s] = o]
      /\ timeoutValue' = [timeoutValue EXCEPT ![o] = 0]
      /\ ref' = [ref EXCEPT ![o] = 0]
      /\ freeQ # <<>> /\ freeQ' = Tail(freeQ)
      /\ UNCHANGED <<activeQ, wpc, cur, state>> /\ state = "up"
    BY DEF GetFreeOp, Goto, workerVars
<1>2. /\ o \in Ops /\ InQ(freeQ, o) /\ NoRepeat(freeQ')
      /\ \A p \in Ops : InQ(freeQ', p) <=> InQ(freeQ, p) /\ p # o
    BY <1>1, GetMembers DEF TypeOK
<1> HIDE DEF o
<1>3. /\ "fill" \in PrivatePC /\ "fill" \notin RefPC /\ "idle" \notin PrivatePC
      /\ "idle" \notin RefPC /\ "put" \in PrivatePC /\ "arm" \in PrivatePC
    BY DEF PrivatePC, RefPC
<1>4. /\ pc'[s] = "fill" /\ my'[s] = o
      /\ \A t \in Senders : t # s => pc'[t] = pc[t] /\ my'[t] = my[t]
    BY <1>1 DEF TypeOK
<1>5. \A t \in Senders, p \in Ops :
          Holds(t, p)' <=> (t = s /\ p = o) \/ (t # s /\ Holds(t, p))
    BY <1>3, <1>4 DEF Holds
<1>6. \A p \in Ops : ThreadHolds(p)' <=> ThreadHolds(p)
    BY <1>1 DEF ThreadHolds
<1>7. /\ ~InQ(activeQ, o) /\ ~ThreadHolds(o) /\ \A t \in Senders : ~Holds(t, o)
    BY <1>2 DEF FreeUnheld
<1>8. FreeUnheld'
    BY <1>1, <1>2, <1>5, <1>6 DEF FreeUnheld
<1>9. HandedNotPrivate' /\ ActiveNotRunning'
    BY <1>1, <1>3, <1>4, <1>6, <1>7 DEF HandedNotPrivate, Handed, ActiveNotRunning
<1>10. ThreadFreesUnheld'
    <2>1. wpc = "free" => cur # o
        BY <1>2, <1>7 DEF ThreadHolds
    <2> QED BY <1>1, <1>5, <2>1 DEF ThreadFreesUnheld, TypeOK
<1>11. HeldOnce'
    BY <1>5, <1>7 DEF HeldOnce
<1>12. RefCountExact'
    <2>1. ASSUME NEW p \in Ops
          PROVE  CallerRefs(p)' = CallerRefs(p) /\ ThreadRefs(p)' = ThreadRefs(p)
        BY <1>1, <1>3, <1>4 DEF CallerRefs, ThreadRefs, Senders
    <2>2. CallerRefs(o) = 0 /\ ThreadRefs(o) = 0
        BY <1>3, <1>7 DEF CallerRefs, ThreadRefs, Holds, ThreadHolds, Senders
    <2> QED BY <1>1, <1>2, <2>1, <2>2 DEF RefCountExact, TypeOK
<1>13. TimeoutKept'
    <2>1. ASSUME NEW t \in WaitSenders, pc'[t] \in RefPC \cup {"arm"}
          PROVE  timeoutValue'[my'[t]] = 1
        <3>1. t \in Senders /\ t # s /\ pc[t] \in RefPC \cup {"arm"}
            BY <1>3, <1>4, <2>1 DEF Senders
        <3>2. my[t] \in Ops /\ Holds(t, my[t])
            BY <1>3, <3>1 DEF Holds, TypeOK, RefPC
        <3>3. my[t] # o /\ timeoutValue[my[t]] = 1
            BY <1>7, <3>1, <3>2 DEF TimeoutKept
        <3> QED BY <1>1, <1>4, <3>1, <3>2, <3>3 DEF TypeOK
    <2>2. ASSUME WaitSenders = {} PROVE \A p \in Ops : timeoutValue'[p] = 0
        BY <1>1, <2>2 DEF TimeoutKept, TypeOK
    <2> QED BY <2>1, <2>2 DEF TimeoutKept
<1>14. IdleWhenStopped'
    BY <1>1 DEF IdleWhenStopped
<1> QED
    BY <1>1, <1>2, <1>8, <1>9, <1>10, <1>11, <1>12, <1>13, <1>14

\* FillOp, ArmOp and TakeRefForThread work on an op that only the caller knows.
LEMMA FillOpOwners ==
    ASSUME TypeOK, Ownership, NEW s \in Senders, FillOp(s)
    PROVE  Ownership'
<1>1. /\ pc[s] = "fill" /\ pc'[s] = "arm" /\ my[s] \in Ops
      /\ \A t \in Senders : t # s => pc'[t] = pc[t]
      /\ timeoutValue'[my[s]] = IF s \in WaitSenders THEN 1 ELSE 0
      /\ \A o \in Ops : o # my[s] => timeoutValue'[o] = timeoutValue[o]
      /\ UNCHANGED <<freeQ, activeQ, ref, my, wpc, cur, state>>
    BY DEF FillOp, Goto, workerVars, TypeOK
<1>2. \A l \in {"fill", "arm"} : l \in PrivatePC /\ l \notin RefPC /\ l # "put"
    BY DEF PrivatePC, RefPC
<1>3. \A t \in Senders, o \in Ops : Holds(t, o)' <=> Holds(t, o)
    BY <1>1, <1>2 DEF Holds
<1>4. \A o \in Ops : ThreadHolds(o)' <=> ThreadHolds(o)
    BY <1>1 DEF ThreadHolds
<1>5. RefCountExact'
    <2>1. ASSUME NEW o \in Ops
          PROVE  CallerRefs(o)' = CallerRefs(o) /\ ThreadRefs(o)' = ThreadRefs(o)
        BY <1>1, <1>2 DEF CallerRefs, ThreadRefs, Senders
    <2> QED BY <1>1, <2>1 DEF RefCountExact, Ownership
<1>6. TimeoutKept'
    <2>1. ASSUME NEW t \in WaitSenders, pc'[t] \in RefPC \cup {"arm"}
          PROVE  timeoutValue'[my'[t]] = 1
        <3>1. CASE t = s
            BY <1>1, <3>1
        <3>2. CASE t # s
            <4>1. t \in Senders /\ pc[t] \in RefPC \cup {"arm"}
                BY <1>1, <2>1, <3>2 DEF Senders
            <4>2. my[t] \in Ops /\ Holds(t, my[t]) /\ Holds(s, my[s])
                BY <1>1, <1>2, <4>1 DEF Holds, TypeOK, RefPC
            <4>3. my[t] # my[s]
                BY <1>1, <3>2, <4>1, <4>2 DEF HeldOnce, Ownership
            <4> QED BY <1>1, <4>1, <4>2, <4>3 DEF TimeoutKept, Ownership
        <3> QED BY <3>1, <3>2
    <2>2. ASSUME WaitSenders = {} PROVE \A o \in Ops : timeoutValue'[o] = 0
        BY <1>1, <2>2 DEF TimeoutKept, Ownership
    <2> QED BY <2>1, <2>2 DEF TimeoutKept
<1>7. IdleWhenStopped'
    BY <1>1 DEF IdleWhenStopped, Ownership
<1> QED
    BY <1>1, <1>2, <1>3, <1>4, <1>5, <1>6, <1>7, FewerHolders
    DEF Ownership, ThreadFreesUnheld, TypeOK

\* The caller's own reference: taken exactly when the caller will wait.
LEMMA ArmOpOwners ==
    ASSUME Uniform, TypeOK, Ownership, NEW s \in Senders, ArmOp(s)
    PROVE  Ownership'
<1> DEFINE o == my[s]
<1>1. /\ pc[s] = "arm" /\ pc'[s] = "ref" /\ o \in Ops
      /\ \A t \in Senders : t # s => pc'[t] = pc[t]
      /\ UNCHANGED <<freeQ, activeQ, timeoutValue, my, wpc, cur, state>>
    BY DEF ArmOp, Goto, workerVars, TypeOK
<1>2. /\ ref'[o] = (IF timeoutValue[o] # 0 THEN 1 ELSE 0)
      /\ \A p \in Ops : p # o => ref'[p] = ref[p]
    BY <1>1 DEF ArmOp, TypeOK
<1>3. /\ "arm" \in PrivatePC /\ "ref" \in PrivatePC /\ "put" \in PrivatePC
      /\ "arm" \notin RefPC /\ "ref" \in RefPC /\ "idle" \notin RefPC
    BY DEF PrivatePC, RefPC
<1>4. \A t \in Senders, p \in Ops : Holds(t, p)' <=> Holds(t, p)
    BY <1>1, <1>3 DEF Holds
<1>5. \A p \in Ops : ThreadHolds(p)' <=> ThreadHolds(p)
    BY <1>1 DEF ThreadHolds
<1>6. Holds(s, o) /\ ~InQ(activeQ, o) /\ ~ThreadHolds(o)
      /\ \A t \in Senders : t # s => ~Holds(t, o)
    BY <1>1, <1>3 DEF Holds, Ownership, HandedNotPrivate, Handed, HeldOnce
<1>7. timeoutValue[o] = IF s \in WaitSenders THEN 1 ELSE 0
    <2>1. s \in WaitSenders => timeoutValue[o] = 1
        BY <1>1 DEF Ownership, TimeoutKept
    <2>2. s \notin WaitSenders => timeoutValue[o] = 0
        BY <1>1 DEF Ownership, TimeoutKept, Uniform, Senders
    <2> QED BY <2>1, <2>2
<1>8. RefCountExact'
    <2>1. ASSUME NEW p \in Ops, p # o
          PROVE  CallerRefs(p)' = CallerRefs(p) /\ ThreadRefs(p)' = ThreadRefs(p)
        BY <1>1, <2>1 DEF CallerRefs, ThreadRefs, Senders
    <2>2. ThreadRefs(o)' = 0
        BY <1>1, <1>3, <1>6 DEF ThreadRefs, ThreadHolds, Holds
    <2>3. CallerRefs(o)' = IF s \in WaitSenders THEN 1 ELSE 0
        BY <1>1, <1>3, <1>6 DEF CallerRefs, Holds, Senders
    <2> QED BY <1>1, <1>2, <1>7, <2>1, <2>2, <2>3 DEF RefCountExact, Ownership
<1>9. TimeoutKept'
    BY <1>1, SameTimeouts DEF Ownership
<1>10. IdleWhenStopped'
    BY <1>1 DEF IdleWhenStopped, Ownership
<1> QED
    BY <1>1, <1>3, <1>4, <1>5, <1>8, <1>9, <1>10, FewerHolders
    DEF Ownership, ThreadFreesUnheld, TypeOK

\* atomic_inc for the thread: the caller now holds both references.
LEMMA TakeRefOwners ==
    ASSUME TypeOK, Ownership, NEW s \in Senders, TakeRefForThread(s)
    PROVE  Ownership'
<1> DEFINE o == my[s]
<1>1. /\ pc[s] = "ref" /\ pc'[s] = "put" /\ o \in Ops
      /\ \A t \in Senders : t # s => pc'[t] = pc[t]
      /\ ref'[o] = ref[o] + 1 /\ \A p \in Ops : p # o => ref'[p] = ref[p]
      /\ UNCHANGED <<freeQ, activeQ, timeoutValue, my, wpc, cur, state>>
    BY DEF TakeRefForThread, Goto, workerVars, TypeOK
<1>2. \A l \in {"ref", "put"} : l \in PrivatePC /\ l \in RefPC
    BY DEF PrivatePC, RefPC
<1>3. \A t \in Senders, p \in Ops : Holds(t, p)' <=> Holds(t, p)
    BY <1>1, <1>2 DEF Holds
<1>4. \A p \in Ops : ThreadHolds(p)' <=> ThreadHolds(p)
    BY <1>1 DEF ThreadHolds
<1>5. Holds(s, o) /\ ~InQ(activeQ, o) /\ ~ThreadHolds(o)
      /\ \A t \in Senders : t # s => ~Holds(t, o)
    BY <1>1, <1>2 DEF Holds, Ownership, HandedNotPrivate, Handed, HeldOnce
<1>6. RefCountExact'
    <2>1. ASSUME NEW p \in Ops, p # o
          PROVE  CallerRefs(p)' = CallerRefs(p) /\ ThreadRefs(p)' = ThreadRefs(p)
        BY <1>1, <2>1 DEF CallerRefs, ThreadRefs, Senders
    <2>2. ThreadRefs(o) = 0 /\ ThreadRefs(o)' = 1
        BY <1>1, <1>2, <1>5 DEF ThreadRefs, ThreadHolds, Holds
    <2>3. CallerRefs(o)' = CallerRefs(o)
        BY <1>1, <1>2 DEF CallerRefs, Senders
    <2>4. ref[o] = CallerRefs(o)
        BY <1>1, <2>2 DEF RefCountExact, Ownership, CallerRefs
    <2> QED BY <1>1, <2>1, <2>2, <2>3, <2>4 DEF RefCountExact, Ownership
<1>7. TimeoutKept'
    BY <1>1, <1>2, SameTimeouts DEF Ownership
<1>8. IdleWhenStopped'
    BY <1>1 DEF IdleWhenStopped, Ownership
<1> QED
    BY <1>1, <1>2, <1>3, <1>4, <1>6, <1>7, <1>8, FewerHolders
    DEF Ownership, ThreadFreesUnheld, TypeOK

\* The op passes from the caller's private hands to the active queue.
LEMMA PutActiveOwners ==
    ASSUME TypeOK, Ownership, NEW s \in Senders, PutOpToActive(s)
    PROVE  Ownership'
<1> DEFINE o == my[s]
<1>1. /\ pc[s] = "put" /\ pc'[s] = "wake" /\ o \in Ops
      /\ \A t \in Senders : t # s => pc'[t] = pc[t]
      /\ activeQ' = Append(activeQ, o)
      /\ UNCHANGED <<freeQ, ref, timeoutValue, my, wpc, cur, state>>
    BY DEF PutOpToActive, Goto, opVars, workerVars, TypeOK
<1>2. /\ "put" \in PrivatePC /\ "put" \in RefPC
      /\ "wake" \notin PrivatePC /\ "wake" \in RefPC
    BY DEF PrivatePC, RefPC
<1>3. \A t \in Senders, p \in Ops : Holds(t, p)' => Holds(t, p)
    BY <1>1, <1>2 DEF Holds
<1>4. \A p \in Ops : ThreadHolds(p)' <=> ThreadHolds(p)
    BY <1>1 DEF ThreadHolds
<1>5. Holds(s, o) /\ ~InQ(activeQ, o) /\ ~ThreadHolds(o) /\ ~InQ(freeQ, o)
      /\ \A t \in Senders : t # s => ~Holds(t, o)
    BY <1>1, <1>2 DEF Holds, Ownership, HandedNotPrivate, Handed, HeldOnce,
       FreeUnheld
<1>6. /\ NoRepeat(activeQ')
      /\ \A p \in Ops : InQ(activeQ', p) <=> InQ(activeQ, p) \/ p = o
    BY <1>1, <1>5, PutMembers DEF TypeOK, Ownership
<1>7. FreeUnheld'
    BY <1>1, <1>3, <1>4, <1>5, <1>6 DEF FreeUnheld, Ownership
<1>8. HandedNotPrivate'
    <2>1. ASSUME NEW p \in Ops, Handed(p)', NEW t \in Senders,
                 my'[t] = p, pc'[t] \in PrivatePC
          PROVE  FALSE
        <3>1. t # s /\ pc[t] \in PrivatePC /\ my[t] = p
            BY <1>1, <1>2, <2>1
        <3>2. CASE p = o
            BY <1>5, <3>1, <3>2 DEF Holds
        <3>3. CASE p # o
            BY <1>4, <1>6, <2>1, <3>1, <3>3 DEF Handed, HandedNotPrivate, Ownership
        <3> QED BY <3>2, <3>3
    <2> QED BY <2>1 DEF HandedNotPrivate
<1>9. ActiveNotRunning' /\ ThreadFreesUnheld' /\ HeldOnce'
    BY <1>1, <1>3, <1>4, <1>5, <1>6 DEF ActiveNotRunning, ThreadFreesUnheld,
       HeldOnce, Ownership, TypeOK
<1>10. RefCountExact'
    <2>1. ASSUME NEW p \in Ops, p # o
          PROVE  ThreadRefs(p)' = ThreadRefs(p)
        BY <1>1, <1>6, <2>1 DEF ThreadRefs
    <2>2. ThreadRefs(o) = 1 /\ ThreadRefs(o)' = 1
        BY <1>1, <1>6 DEF ThreadRefs
    <2>3. ASSUME NEW p \in Ops PROVE CallerRefs(p)' = CallerRefs(p)
        BY <1>1, <1>2 DEF CallerRefs, Senders
    <2> QED BY <1>1, <2>1, <2>2, <2>3 DEF RefCountExact, Ownership
<1>11. TimeoutKept'
    BY <1>1, <1>2, SameTimeouts DEF Ownership
<1>12. IdleWhenStopped'
    BY <1>1 DEF IdleWhenStopped, Ownership
<1> QED
    BY <1>1, <1>6, <1>7, <1>8, <1>9, <1>10, <1>11, <1>12 DEF Ownership

\* A put that fails: the caller takes back the reference of the thread.
LEMMA PutActiveFailsOwners ==
    ASSUME TypeOK, Ownership, NEW s \in Senders, PutOpToActiveFails(s)
    PROVE  Ownership'
<1> DEFINE o == my[s]
<1>1. /\ pc[s] = "put" /\ pc'[s] = "drop" /\ o \in Ops
      /\ \A t \in Senders : t # s => pc'[t] = pc[t]
      /\ ref'[o] = ref[o] - 1 /\ \A p \in Ops : p # o => ref'[p] = ref[p]
      /\ UNCHANGED <<freeQ, activeQ, timeoutValue, my, wpc, cur, state>>
    BY DEF PutOpToActiveFails, Goto, workerVars, TypeOK
<1>2. /\ "put" \in PrivatePC /\ "put" \in RefPC
      /\ "drop" \notin PrivatePC /\ "drop" \in RefPC
    BY DEF PrivatePC, RefPC
<1>3. \A t \in Senders, p \in Ops : Holds(t, p)' => Holds(t, p)
    BY <1>1, <1>2 DEF Holds
<1>4. \A p \in Ops : ThreadHolds(p)' <=> ThreadHolds(p)
    BY <1>1 DEF ThreadHolds
<1>5. Holds(s, o) /\ ~InQ(activeQ, o) /\ ~ThreadHolds(o)
      /\ \A t \in Senders : t # s => ~Holds(t, o)
    BY <1>1, <1>2 DEF Holds, Ownership, HandedNotPrivate, Handed, HeldOnce
<1>6. RefCountExact'
    <2>1. ASSUME NEW p \in Ops, p # o PROVE ThreadRefs(p)' = ThreadRefs(p)
        BY <1>1, <2>1 DEF ThreadRefs
    <2>2. ThreadRefs(o) = 1 /\ ThreadRefs(o)' = 0
        BY <1>1, <1>2, <1>5 DEF ThreadRefs, ThreadHolds, Holds
    <2>3. ASSUME NEW p \in Ops
          PROVE  CallerRefs(p)' = CallerRefs(p) /\ CallerRefs(p) \in {0, 1}
        BY <1>1, <1>2 DEF CallerRefs, Senders
    <2>4. ref[o] = CallerRefs(o) + 1
        BY <1>1, <2>2 DEF RefCountExact, Ownership
    <2> QED BY <1>1, <2>1, <2>2, <2>3, <2>4 DEF RefCountExact, Ownership
<1>7. TimeoutKept'
    BY <1>1, <1>2, SameTimeouts DEF Ownership
<1>8. IdleWhenStopped'
    BY <1>1 DEF IdleWhenStopped, Ownership
<1> QED
    BY <1>1, <1>2, <1>3, <1>4, <1>6, <1>7, <1>8, FewerHolders
    DEF Ownership, ThreadFreesUnheld, TypeOK

\* The caller gives up its reference, if it has one.
LEMMA DropRefOwners ==
    ASSUME Uniform, TypeOK, Ownership, NEW s \in Senders, DropRef(s)
    PROVE  Ownership'
<1>0. PICK o \in Ops : o = my[s]
    BY DEF DropRef, TypeOK
<1>1. /\ pc[s] = "drop" /\ o = my[s] /\ o \in Ops
      /\ UNCHANGED <<freeQ, activeQ, timeoutValue, wpc, cur, state>>
    BY <1>0 DEF DropRef, workerVars, TypeOK
<1>2. /\ "drop" \notin PrivatePC /\ "drop" \in RefPC /\ "free" \in PrivatePC
      /\ "free" \notin RefPC /\ "idle" \notin PrivatePC /\ "idle" \notin RefPC
    BY DEF PrivatePC, RefPC
<1>3. CASE timeoutValue[o] = 0
    <2>1. /\ pc'[s] = "idle" /\ UNCHANGED ref
          /\ \A t \in Senders : t # s => pc'[t] = pc[t] /\ my'[t] = my[t]
        BY <1>1, <1>3 DEF DropRef, Return, TypeOK
    <2>2. s \notin WaitSenders
        BY <1>1, <1>2, <1>3 DEF Ownership, TimeoutKept
    <2>3. state' # "up" => \A t \in Senders : pc'[t] = "idle"
        BY <1>1 DEF Ownership, IdleWhenStopped
    <2> QED BY <1>1, <1>2, <2>1, <2>2, <2>3, SameOwners
<1>4. CASE timeoutValue[o] # 0
    <2>1. /\ ref'[o] = ref[o] - 1 /\ \A p \in Ops : p # o => ref'[p] = ref[p]
          /\ \A t \in Senders : t # s => pc'[t] = pc[t] /\ my'[t] = my[t]
          /\ pc'[s] \in {"idle", "free"} /\ (pc'[s] = "free" => my'[s] = o)
          /\ pc'[s] = "free" => ref'[o] = 0
        <3>1. ref' = [ref EXCEPT ![o] = @ - 1]
            BY <1>1, <1>4 DEF DropRef
        <3>2. CASE ref'[o] = 0
            BY <1>1, <1>4, <3>1, <3>2 DEF DropRef, Goto, TypeOK
        <3>3. CASE ref'[o] # 0
            BY <1>1, <1>4, <3>1, <3>3 DEF DropRef, Return, TypeOK
        <3> QED BY <3>2, <3>3
    <2>2. s \in WaitSenders
        BY <1>1, <1>4 DEF Ownership, TimeoutKept, Uniform, Senders
    <2>3. Holds(s, o) /\ \A t \in Senders : t # s => ~Holds(t, o)
        BY <1>1, <1>2, <2>2 DEF Holds, Ownership, HeldOnce
    <2>4. CallerRefs(o) = 1 /\ CallerRefs(o)' = 0
        <3>1. my[s] = o /\ pc[s] \in RefPC
            BY <1>1, <1>2 DEF RefPC
        <3>2. \A t \in WaitSenders : ~(my'[t] = o /\ pc'[t] \in RefPC)
            <4>1. ASSUME NEW t \in WaitSenders, my'[t] = o, pc'[t] \in RefPC
                  PROVE  FALSE
                <5>1. CASE t = s
                    BY <2>1, <4>1, <5>1 DEF RefPC
                <5>2. CASE t # s
                    BY <2>1, <2>3, <4>1, <5>2 DEF Holds, Senders
                <5> QED BY <5>1, <5>2
            <4> QED BY <4>1
        <3> QED BY <2>2, <3>1, <3>2 DEF CallerRefs
    <2>5. ASSUME NEW p \in Ops, p # o PROVE CallerRefs(p)' = CallerRefs(p)
        BY <1>1, <1>2, <2>1, <2>5, NoOpIsNoOp DEF CallerRefs, Senders
    <2>6. ASSUME NEW p \in Ops
          PROVE  ThreadRefs(p)' = ThreadRefs(p) /\ ThreadRefs(p) \in {0, 1}
        BY <1>1, <2>1 DEF ThreadRefs
    <2>7. ref[o] = 1 + ThreadRefs(o)
        BY <1>1, <2>4 DEF Ownership, RefCountExact
    <2>8. RefCountExact'
        <3>1. ASSUME NEW p \in Ops
              PROVE  ref'[p] = CallerRefs(p)' + ThreadRefs(p)'
            <4>1. CASE p = o
                BY <1>1, <2>1, <2>4, <2>6, <2>7, <4>1
            <4>2. CASE p # o
                BY <2>1, <2>5, <2>6, <4>2 DEF Ownership, RefCountExact
            <4> QED BY <4>1, <4>2
        <3> QED BY <3>1 DEF RefCountExact
    <2>9. pc'[s] = "free" => ~Handed(o)
        <3>1. pc'[s] = "free" => ThreadRefs(o) = 0
            <4>1. ThreadRefs(o) \in {0, 1}
                BY <1>1, <2>6
            <4> QED BY <2>1, <2>7, <4>1
        <3>2. ~(wpc = "free" /\ cur = o)
            BY <2>3 DEF Ownership, ThreadFreesUnheld
        <3> QED BY <3>1, <3>2 DEF ThreadRefs, Handed, ThreadHolds
    <2>10. \A t \in Senders, p \in Ops : Holds(t, p)' => Holds(t, p)
        BY <1>1, <1>2, <2>1, <2>2 DEF Holds
    <2>11. \A p \in Ops : ThreadHolds(p)' <=> ThreadHolds(p)
        BY <1>1 DEF ThreadHolds
    <2>12. TimeoutKept'
        BY <1>1, <1>2, <2>1, SameTimeouts DEF Ownership
    <2>13. IdleWhenStopped'
        BY <1>1 DEF IdleWhenStopped, Ownership
    <2>14. \A t \in Senders : pc'[t] \in PrivatePC =>
               (pc[t] \in PrivatePC /\ my'[t] = my[t]) \/ ~Handed(my'[t])
        BY <1>2, <2>1, <2>9
    <2> QED
        BY <1>1, <2>8, <2>10, <2>11, <2>12, <2>13, <2>14, FewerHolders
        DEF Ownership, ThreadFreesUnheld, TypeOK
<1> QED BY <1>3, <1>4

\* The op passes from the caller's private hands to the free queue.
LEMMA PutFreeOwners ==
    ASSUME TypeOK, Ownership, NEW s \in Senders, PutOpToFree(s)
    PROVE  Ownership'
<1> DEFINE o == my[s]
<1>1. /\ pc[s] = "free" /\ pc'[s] = "idle" /\ o \in Ops
      /\ \A t \in Senders : t # s => pc'[t] = pc[t] /\ my'[t] = my[t]
      /\ freeQ' = Append(freeQ, o)
      /\ UNCHANGED <<activeQ, ref, timeoutValue, wpc, cur, state>>
    BY DEF PutOpToFree, Return, opVars, workerVars, TypeOK
<1>2. /\ "free" \in PrivatePC /\ "free" \notin RefPC
      /\ "idle" \notin PrivatePC /\ "idle" \notin RefPC
    BY DEF PrivatePC, RefPC
<1>3. \A t \in Senders, p \in Ops : Holds(t, p)' <=> t # s /\ Holds(t, p)
    BY <1>1, <1>2 DEF Holds
<1>4. \A p \in Ops : ThreadHolds(p)' <=> ThreadHolds(p)
    BY <1>1 DEF ThreadHolds
<1>5. Holds(s, o) /\ ~InQ(activeQ, o) /\ ~ThreadHolds(o) /\ ~InQ(freeQ, o)
      /\ \A t \in Senders : t # s => ~Holds(t, o)
    BY <1>1, <1>2 DEF Holds, Ownership, HandedNotPrivate, Handed, HeldOnce,
       FreeUnheld
<1>6. /\ NoRepeat(freeQ')
      /\ \A p \in Ops : InQ(freeQ', p) <=> InQ(freeQ, p) \/ p = o
    BY <1>1, <1>5, PutMembers DEF TypeOK, Ownership
<1>7. FreeUnheld'
    BY <1>1, <1>3, <1>4, <1>5, <1>6 DEF FreeUnheld, Ownership
<1>8. HandedNotPrivate' /\ ActiveNotRunning'
    BY <1>1, <1>2, <1>4 DEF HandedNotPrivate, Handed, ActiveNotRunning, Ownership
<1>9. ThreadFreesUnheld' /\ HeldOnce'
    BY <1>1, <1>3 DEF ThreadFreesUnheld, HeldOnce, Ownership, TypeOK
<1>10. RefCountExact'
    <2>1. ASSUME NEW p \in Ops
          PROVE  CallerRefs(p)' = CallerRefs(p) /\ ThreadRefs(p)' = ThreadRefs(p)
        BY <1>1, <1>2 DEF CallerRefs, ThreadRefs, Senders
    <2> QED BY <1>1, <2>1 DEF RefCountExact, Ownership
<1>11. TimeoutKept'
    BY <1>1, <1>2, SameTimeouts DEF Ownership
<1>12. IdleWhenStopped'
    BY <1>1 DEF IdleWhenStopped, Ownership
<1> QED
    BY <1>1, <1>6, <1>7, <1>8, <1>9, <1>10, <1>11, <1>12 DEF Ownership

\* The caller is killed while it frees its op: the op is in nobody's hands.
LEMMA PutFreeFailsOwners ==
    ASSUME TypeOK, Ownership, NEW s \in Senders, PutOpToFreeFails(s)
    PROVE  Ownership'
<1>1. /\ pc[s] = "free" /\ pc'[s] = "idle"
      /\ \A t \in Senders : t # s => pc'[t] = pc[t] /\ my'[t] = my[t]
      /\ UNCHANGED <<freeQ, activeQ, ref, timeoutValue, wpc, cur, state>>
    BY DEF PutOpToFreeFails, Return, opVars, workerVars, TypeOK
<1>2. /\ "free" \notin RefPC /\ "idle" \notin PrivatePC /\ "idle" \notin RefPC
    BY DEF PrivatePC, RefPC
<1>3. \A t \in Senders, p \in Ops : Holds(t, p)' => Holds(t, p)
    BY <1>1, <1>2 DEF Holds
<1>4. \A p \in Ops : ThreadHolds(p)' <=> ThreadHolds(p)
    BY <1>1 DEF ThreadHolds
<1>5. RefCountExact'
    <2>1. ASSUME NEW p \in Ops
          PROVE  CallerRefs(p)' = CallerRefs(p) /\ ThreadRefs(p)' = ThreadRefs(p)
        BY <1>1, <1>2 DEF CallerRefs, ThreadRefs, Senders
    <2> QED BY <1>1, <2>1 DEF RefCountExact, Ownership
<1>6. TimeoutKept'
    BY <1>1, <1>2, SameTimeouts DEF Ownership
<1>7. IdleWhenStopped'
    BY <1>1 DEF IdleWhenStopped, Ownership
<1> QED
    BY <1>1, <1>2, <1>3, <1>4, <1>5, <1>6, <1>7, FewerHolders
    DEF Ownership, ThreadFreesUnheld, TypeOK

\* The thread takes the oldest active op.
LEMMA WorkerGetOwners ==
    ASSUME TypeOK, Ownership, WorkerGetOp
    PROVE  Ownership'
<1> DEFINE o == Head(activeQ)
<1>1. /\ wpc = "wait" /\ wpc' = "run" /\ cur' = o
      /\ activeQ # <<>> /\ activeQ' = Tail(activeQ)
      /\ UNCHANGED <<freeQ, ref, timeoutValue, pc, my, state>>
    BY DEF WorkerGetOp, WorkerGoto, opVars, senderVars
<1>2. /\ o \in Ops /\ InQ(activeQ, o) /\ NoRepeat(activeQ')
      /\ \A p \in Ops : InQ(activeQ', p) <=> InQ(activeQ, p) /\ p # o
    BY <1>1, GetMembers DEF TypeOK, Ownership
<1> HIDE DEF o
<1>3. \A t \in Senders, p \in Ops : Holds(t, p)' <=> Holds(t, p)
    BY <1>1 DEF Holds
<1>4. \A p \in Ops : ~ThreadHolds(p) /\ (ThreadHolds(p)' <=> p = o)
    BY <1>1 DEF ThreadHolds
<1>5. FreeUnheld'
    BY <1>1, <1>2, <1>3, <1>4 DEF FreeUnheld, Ownership
<1>6. HandedNotPrivate' /\ ActiveNotRunning'
    BY <1>1, <1>2, <1>4 DEF HandedNotPrivate, Handed, ActiveNotRunning, Ownership
<1>7. ThreadFreesUnheld' /\ HeldOnce'
    BY <1>1, <1>3 DEF ThreadFreesUnheld, HeldOnce, Ownership
<1>8. RefCountExact'
    <2>1. ASSUME NEW p \in Ops
          PROVE  CallerRefs(p)' = CallerRefs(p) /\ ThreadRefs(p)' = ThreadRefs(p)
        BY <1>1, <1>2 DEF CallerRefs, ThreadRefs
    <2> QED BY <1>1, <2>1 DEF RefCountExact, Ownership
<1>9. TimeoutKept' /\ IdleWhenStopped'
    BY <1>1 DEF TimeoutKept, IdleWhenStopped, Ownership
<1> QED
    BY <1>1, <1>2, <1>5, <1>6, <1>7, <1>8, <1>9 DEF Ownership

\* The thread gives up its reference; if it was the last one nobody holds the
\* op.
LEMMA WorkerDropOwners ==
    ASSUME TypeOK, Ownership, WorkerDropRef
    PROVE  Ownership'
<1>1. /\ wpc = "dec" /\ cur \in Ops
      /\ wpc' \in {"free", "check"} /\ (wpc' = "free" => ref'[cur] = 0)
      /\ ref'[cur] = ref[cur] - 1 /\ \A p \in Ops : p # cur => ref'[p] = ref[p]
      /\ UNCHANGED <<freeQ, activeQ, timeoutValue, pc, my, cur, state>>
    BY DEF WorkerDropRef, WorkerGoto, senderVars, TypeOK
<1>2. "put" \in PrivatePC
    BY DEF PrivatePC
<1>3. \A t \in Senders, p \in Ops : Holds(t, p)' <=> Holds(t, p)
    BY <1>1 DEF Holds
<1>4. \A p \in Ops : ThreadHolds(p)' => ThreadHolds(p)
    BY <1>1 DEF ThreadHolds
<1>5. /\ ThreadHolds(cur) /\ ~InQ(activeQ, cur)
      /\ \A t \in Senders : ~(my[t] = cur /\ pc[t] \in PrivatePC)
    BY <1>1 DEF ThreadHolds, Ownership, ActiveNotRunning, HandedNotPrivate, Handed
<1>6. ThreadRefs(cur) = 1 /\ ThreadRefs(cur)' = 0
    BY <1>1, <1>2, <1>5 DEF ThreadRefs
<1>7. ASSUME NEW p \in Ops
      PROVE  CallerRefs(p)' = CallerRefs(p) /\ CallerRefs(p) \in {0, 1}
    BY <1>1 DEF CallerRefs
<1>8. ASSUME NEW p \in Ops, p # cur PROVE ThreadRefs(p)' = ThreadRefs(p)
    BY <1>1, <1>8 DEF ThreadRefs
<1>9. ref[cur] = CallerRefs(cur) + 1
    BY <1>1, <1>6 DEF RefCountExact, Ownership
<1>10. RefCountExact'
    BY <1>1, <1>6, <1>7, <1>8, <1>9 DEF RefCountExact, Ownership
<1>11. wpc' = "free" => \A t \in Senders : ~Holds(t, cur)
    <2>1. wpc' = "free" => CallerRefs(cur) = 0
        BY <1>1, <1>7, <1>9
    <2> QED BY <1>5, <2>1 DEF CallerRefs, Holds
<1>12. TimeoutKept' /\ IdleWhenStopped'
    BY <1>1 DEF TimeoutKept, IdleWhenStopped, Ownership
<1> QED
    BY <1>1, <1>3, <1>4, <1>10, <1>11, <1>12, FewerHolders DEF Ownership

\* The op passes from the thread to the free queue.
LEMMA WorkerPutFreeOwners ==
    ASSUME TypeOK, Ownership, WorkerPutOpToFree
    PROVE  Ownership'
<1>1. /\ wpc = "free" /\ wpc' = "wait" /\ cur \in Ops
      /\ freeQ' = freeQ \/ freeQ' = Append(freeQ, cur)
      /\ UNCHANGED <<activeQ, ref, timeoutValue, pc, my, cur, state>>
    BY DEF WorkerPutOpToFree, WorkerGoto, opVars, senderVars, TypeOK
<1>2. \A t \in Senders, p \in Ops : Holds(t, p)' <=> Holds(t, p)
    BY <1>1 DEF Holds
<1>3. \A p \in Ops : ~ThreadHolds(p)'
    BY <1>1 DEF ThreadHolds
<1>4. ThreadHolds(cur) /\ ~InQ(freeQ, cur) /\ ~InQ(activeQ, cur)
      /\ \A t \in Senders : ~Holds(t, cur)
    BY <1>1 DEF ThreadHolds, Ownership, FreeUnheld, ActiveNotRunning,
       ThreadFreesUnheld
<1>5. /\ NoRepeat(freeQ')
      /\ \A p \in Ops : InQ(freeQ', p) => InQ(freeQ, p) \/ p = cur
    <2>1. CASE freeQ' = freeQ
        BY <2>1 DEF Ownership
    <2>2. CASE freeQ' = Append(freeQ, cur)
        BY <1>1, <1>4, <2>2, PutMembers DEF TypeOK, Ownership
    <2> QED BY <1>1, <2>1, <2>2
<1>6. FreeUnheld'
    <2>1. ASSUME NEW p \in Ops, InQ(freeQ', p)
          PROVE  ~InQ(activeQ', p) /\ \A t \in Senders : ~Holds(t, p)'
        <3>1. CASE p = cur
            BY <1>1, <1>2, <1>4, <3>1
        <3>2. CASE p # cur
            BY <1>1, <1>2, <1>5, <2>1, <3>2 DEF FreeUnheld, Ownership
        <3> QED BY <3>1, <3>2
    <2> QED BY <1>3, <2>1 DEF FreeUnheld, InQ
<1>7. HandedNotPrivate' /\ ActiveNotRunning'
    BY <1>1, <1>3 DEF HandedNotPrivate, Handed, ActiveNotRunning, Ownership
<1>8. ThreadFreesUnheld' /\ HeldOnce'
    BY <1>1, <1>2 DEF ThreadFreesUnheld, HeldOnce, Ownership
<1>9. RefCountExact'
    <2>1. ASSUME NEW p \in Ops
          PROVE  CallerRefs(p)' = CallerRefs(p) /\ ThreadRefs(p)' = ThreadRefs(p)
        BY <1>1 DEF CallerRefs, ThreadRefs
    <2> QED BY <1>1, <2>1 DEF RefCountExact, Ownership
<1>10. TimeoutKept' /\ IdleWhenStopped'
    BY <1>1 DEF TimeoutKept, IdleWhenStopped, Ownership
<1> QED
    BY <1>1, <1>5, <1>6, <1>7, <1>8, <1>9, <1>10 DEF Ownership

\* msg_thread_deinit and msg_thread_init: nobody is in a call, the thread does
\* not run, no op is active.
LEMMA ResetOwners ==
    ASSUME TypeOK, Ownership, ThreadDeinit \/ ThreadInit
    PROVE  Ownership'
<1>1. /\ state # "up" /\ UNCHANGED <<pc, my>>
      /\ wpc' \in {"wait", "exited", "dead"}
      /\ freeQ' = <<>> \/ freeQ' = [i \in 1 .. QSize |-> i]
      /\ activeQ' = <<>>
      /\ \A o \in Ops : ref'[o] = 0 /\ timeoutValue'[o] = 0
    BY DEF ThreadDeinit, ThreadInit, ResetContext, senderVars, TypeOK
<1>2. /\ NoRepeat(freeQ') /\ NoRepeat(activeQ')
      /\ \A o \in Ops : ~InQ(activeQ', o)
    BY <1>1, EmptyQueue, InitialQueue
<1>3. \A s \in Senders : /\ pc'[s] = "idle" /\ pc'[s] \notin PrivatePC
                         /\ pc'[s] \notin RefPC /\ pc'[s] \notin {"put", "arm"}
    BY <1>1 DEF Ownership, IdleWhenStopped, PrivatePC, RefPC
<1>4. \A o \in Ops : ~ThreadHolds(o)' /\ \A s \in Senders : ~Holds(s, o)'
    BY <1>1, <1>3 DEF ThreadHolds, Holds
<1>5. FreeUnheld' /\ HandedNotPrivate' /\ ActiveNotRunning' /\ HeldOnce'
    BY <1>2, <1>3, <1>4 DEF FreeUnheld, HandedNotPrivate, Handed,
       ActiveNotRunning, HeldOnce
<1>6. ThreadFreesUnheld' /\ IdleWhenStopped'
    BY <1>1, <1>3 DEF ThreadFreesUnheld, IdleWhenStopped
<1>7. RefCountExact'
    <2>1. \A o \in Ops : CallerRefs(o)' = 0 /\ ThreadRefs(o)' = 0
        BY <1>1, <1>2, <1>3 DEF CallerRefs, ThreadRefs, Senders
    <2> QED BY <1>1, <2>1 DEF RefCountExact
<1>8. TimeoutKept'
    BY <1>1, <1>3 DEF TimeoutKept, Senders
<1> QED BY <1>2, <1>5, <1>6, <1>7, <1>8 DEF Ownership

\* Between the put and the drop a caller only moves on.
LEMMA CallerMovesOwners ==
    ASSUME TypeOK, Ownership, NEW s \in Senders,
           pc[s] \in {"wake", "check", "wait", "result"},
           NEW label \in {"check", "wait", "result", "drop"},
           pc' = [pc EXCEPT ![s] = label],
           UNCHANGED <<freeQ, activeQ, ref, timeoutValue, cur, my, state>>,
           UNCHANGED wpc \/ WakeThread
    PROVE  Ownership'
<1>1. \A l \in {"wake", "check", "wait", "result", "drop"} :
          l \in RefPC /\ l \notin PrivatePC /\ l \notin {"put", "arm", "idle"}
    BY DEF RefPC, PrivatePC
<1>2. state = "up"
    BY <1>1 DEF Ownership, IdleWhenStopped
<1>3. pc'[s] = label /\ \A u \in Senders : u # s => pc'[u] = pc[u]
    BY DEF TypeOK
<1>4. ASSUME NEW u \in Senders
      PROVE  /\ pc'[u] \in PrivatePC <=> pc[u] \in PrivatePC
             /\ pc'[u] \in RefPC <=> pc[u] \in RefPC
             /\ pc'[u] = "put" <=> pc[u] = "put"
             /\ pc'[u] = "arm" => pc[u] = "arm"
    <2>1. CASE u = s
        BY <1>1, <1>3, <2>1
    <2>2. CASE u # s
        BY <1>3, <2>2
    <2> QED BY <2>1, <2>2
<1> QED
    BY <1>2, <1>4, SameOwners DEF WakeThread

\* Every step keeps Ownership, one case per action.
LEMMA OwnershipNext ==
    ASSUME Uniform, TypeOK, Ownership, [Next]_vars
    PROVE  Ownership'
<1> USE DEF Goto, Return, WorkerGoto, opVars, senderVars, workerVars
<1>1. state # "up" => \A s \in Senders : pc[s] = "idle"
    BY DEF Ownership, IdleWhenStopped
<1>2. ASSUME NEW s \in Senders, GetFreeOpFails(s) PROVE Ownership'
    BY <1>1, <1>2, SameOwners DEF GetFreeOpFails, TypeOK
<1>3. ASSUME NEW s \in Senders, TriggerEvent(s) PROVE Ownership'
    <2>1. /\ pc[s] = "wake" /\ pc' = [pc EXCEPT ![s] = "check"] /\ WakeThread
          /\ UNCHANGED <<freeQ, activeQ, ref, timeoutValue, cur, my, state>>
        BY <1>3 DEF TriggerEvent
    <2> QED BY <2>1, CallerMovesOwners
<1>4. ASSUME NEW s \in Senders, CheckWait(s) PROVE Ownership'
    <2>1. /\ pc[s] = "check"
          /\ UNCHANGED <<freeQ, activeQ, ref, timeoutValue, cur, wpc, my, state>>
          /\ pc' = [pc EXCEPT ![s] = "drop"] \/ pc' = [pc EXCEPT ![s] = "wait"]
        BY <1>4 DEF CheckWait
    <2> QED BY <2>1, CallerMovesOwners
<1>5. ASSUME NEW s \in Senders,
             WaitSignalled(s) \/ WaitTimesOut(s) \/ ReadResult(s)
      PROVE  Ownership'
    <2>1. /\ pc[s] \in {"wait", "result"}
          /\ UNCHANGED <<freeQ, activeQ, ref, timeoutValue, cur, wpc, my, state>>
          /\ pc' = [pc EXCEPT ![s] = "result"] \/ pc' = [pc EXCEPT ![s] = "drop"]
        BY <1>5 DEF WaitSignalled, WaitTimesOut, ReadResult
    <2> QED BY <2>1, CallerMovesOwners
<1>6. CASE WorkerSleeps \/ RunHandler \/ WorkerCheckWait \/ WorkerWriteResult
           \/ WorkerRaiseSignal \/ WorkerOopses \/ WorkerExit
    BY <1>1, <1>6, SameOwners DEF WorkerSleeps, RunHandler, WorkerCheckWait,
       WorkerWriteResult, WorkerRaiseSignal, WorkerOopses, WorkerExit
<1>7. CASE ThreadStop
    BY <1>7, SameOwners DEF ThreadStop, WakeThread
<1>8. CASE UNCHANGED vars
    BY <1>1, <1>8, SameOwners DEF vars
<1> QED
    BY <1>2, <1>3, <1>4, <1>5, <1>6, <1>7, <1>8, GetFreeOpOwners, FillOpOwners,
       ArmOpOwners, TakeRefOwners, PutActiveOwners, PutActiveFailsOwners,
       DropRefOwners, PutFreeOwners, PutFreeFailsOwners, WorkerGetOwners,
       WorkerDropOwners, WorkerPutFreeOwners, ResetOwners
    DEF Next, Sender, Worker

\* Every op has one place and an exact reference count, for any number of
\* callers, any pool size and any timing, provided the callers of the thread
\* either all wait or never wait.
THEOREM OwnershipHolds == Uniform => (Spec => []Ownership)
<1> SUFFICES ASSUME Uniform PROVE Spec => []Ownership
    OBVIOUS
<1>1. TypeOK /\ Ownership /\ [Next]_vars => Ownership'
    BY OwnershipNext
<1> QED BY <1>1, OwnershipInit, TypeCorrect, PTL DEF Spec

\* Reference counts are exact.
THEOREM RefCountsExact == Uniform => (Spec => []RefCountExact)
<1>1. Ownership => RefCountExact
    BY DEF Ownership
<1> QED BY <1>1, OwnershipHolds, PTL

\* No double free and no use of a free op.
THEOREM NoDoubleFree == Uniform => (Spec => []OwnedOnce)
<1>1. TypeOK /\ Ownership => OwnedOnce
    <2> SUFFICES ASSUME TypeOK, Ownership PROVE OwnedOnce
        OBVIOUS
    <2>1. ASSUME NEW i \in 1 .. Len(freeQ)
          PROVE  freeQ[i] \in Ops /\ InQ(freeQ, freeQ[i])
        BY <2>1 DEF TypeOK, InQ
    <2> QED BY <2>1 DEF OwnedOnce, Ownership, FreeUnheld, HeldOnce, NoRepeat
<1> QED BY <1>1, OwnershipHolds, TypeCorrect, PTL


-----------------------------------------------------------------------------
(* Room in the queues *)

\* A queue without repetition that misses an op of the pool has a free slot:
\* MSG_OP_PUT's size test cannot fail for that op.
LEMMA MissingOpLeavesRoom ==
    ASSUME NEW q \in Seq(Ops), NoRepeat(q), NEW o \in Ops, ~InQ(q, o)
    PROVE  ~Full(q)
<1> DEFINE S == 1 .. Len(q)
           T == Ops \ {o}
<1>1. Len(q) \in Nat /\ QSize \in Nat /\ QSize >= 1
    BY QSizeAssumption
<1>2. IsFiniteSet(S) /\ Cardinality(S) = Len(q)
    BY <1>1, FS_Interval
<1>3. IsFiniteSet(T) /\ Cardinality(T) = QSize - 1
    <2>1. IsFiniteSet(Ops) /\ Cardinality(Ops) = QSize
        BY <1>1, FS_Interval DEF Ops
    <2> QED BY <2>1, FS_RemoveElement
<1>4. q \in [S -> T]
    <2>1. q \in [S -> Ops]
        OBVIOUS
    <2>2. \A i \in S : q[i] # o
        BY DEF InQ
    <2> QED BY <2>1, <2>2
<1>5. ASSUME Cardinality(T) < Cardinality(S)
      PROVE  FALSE
    <2>1. \E i, j \in S : i # j /\ q[i] = q[j]
        <3> HIDE DEF S, T
        <3> QED BY <1>2, <1>3, <1>4, <1>5, FS_PigeonHole
    <2> QED BY <2>1 DEF NoRepeat
<1> QED BY <1>1, <1>2, <1>3, <1>5 DEF Full

\* Whoever is about to put an op on a queue has an op that is not on it.
LEMMA OwnershipLeavesRoom == TypeOK /\ Ownership => PutFindsRoom
<1> SUFFICES ASSUME TypeOK, Ownership PROVE PutFindsRoom
    OBVIOUS
<1>1. ASSUME NEW s \in Senders, pc[s] \in {"put", "free"}
      PROVE  my[s] \in Ops /\ ~InQ(activeQ, my[s]) /\ ~InQ(freeQ, my[s])
    <2>1. my[s] \in Ops /\ Holds(s, my[s]) /\ pc[s] \in PrivatePC
        BY <1>1 DEF TypeOK, Holds, PrivatePC
    <2> QED BY <2>1 DEF Ownership, FreeUnheld, HandedNotPrivate, Handed
<1>2. wpc = "free" => cur \in Ops /\ ~InQ(freeQ, cur)
    BY DEF TypeOK, Ownership, FreeUnheld, ThreadHolds
<1> QED
    BY <1>1, <1>2, MissingOpLeavesRoom DEF PutFindsRoom, TypeOK, Ownership

\* A put never meets a full queue, for any number of callers and any pool size:
\* no op is dropped for want of room in msg_thread.c.
THEOREM PutAlwaysFindsRoom == Uniform => (Spec => []PutFindsRoom)
<1> QED BY OwnershipHolds, TypeCorrect, OwnershipLeavesRoom, PTL

-----------------------------------------------------------------------------
(* No op is lost *)

\* An op has a place: a queue, the thread, or a caller.
Placed(o) ==
    \/ InQ(freeQ, o) \/ InQ(activeQ, o) \/ ThreadHolds(o)
    \/ \E s \in Senders : Holds(s, o)

\* msg_thread_init places every op on the free queue.
LEMMA InitialQueueFull == \A o \in Ops : InQ([i \in 1 .. QSize |-> i], o)
BY QSizeAssumption DEF InQ, Ops

\* An op stays placed when the queues keep what they have, the thread works on
\* the same op and every caller keeps the ops it holds.
LEMMA SamePlaces ==
    ASSUME NEW o \in Ops, Placed(o), UNCHANGED <<freeQ, activeQ, cur>>,
           UNCHANGED wpc \/ WakeThread,
           \A t \in Senders : Holds(t, o) => Holds(t, o)'
    PROVE  Placed(o)'
BY DEF Placed, ThreadHolds, WakeThread

\* The op of a call that gives up its reference while the thread has one is
\* still queued or in the thread's hands.
LEMMA DropKeepsPlace ==
    ASSUME Uniform, TypeOK, Ownership, NEW s \in Senders, DropRef(s),
           NEW o \in Ops, Placed(o)
    PROVE  Placed(o)'
<1>1. /\ pc[s] = "drop" /\ my[s] \in Ops
      /\ UNCHANGED <<freeQ, activeQ, timeoutValue, wpc, cur>>
    BY DEF DropRef, workerVars, TypeOK
<1>2. /\ "drop" \notin PrivatePC /\ "drop" \in RefPC /\ "free" \in PrivatePC
      /\ "put" \in PrivatePC
    BY DEF PrivatePC, RefPC
<1>3. CASE timeoutValue[my[s]] = 0
    <2>1. \A t \in Senders : t # s => pc'[t] = pc[t] /\ my'[t] = my[t]
        BY <1>1, <1>3 DEF DropRef, Return, TypeOK
    <2>2. s \notin WaitSenders
        BY <1>1, <1>2, <1>3 DEF Ownership, TimeoutKept
    <2>3. \A t \in Senders : Holds(t, o) => Holds(t, o)'
        BY <1>1, <1>2, <2>1, <2>2 DEF Holds
    <2> QED BY <1>1, <2>3, SamePlaces
<1>4. CASE timeoutValue[my[s]] # 0
    <2>1. s \in WaitSenders
        BY <1>1, <1>4 DEF Ownership, TimeoutKept, Uniform, Senders
    <2>2. Holds(s, my[s]) /\ \A t \in Senders : t # s => ~Holds(t, my[s])
        BY <1>1, <1>2, <2>1 DEF Holds, Ownership, HeldOnce
    <2>3. ref' = [ref EXCEPT ![my[s]] = @ - 1]
        BY <1>1, <1>4 DEF DropRef
    <2>4. CASE ref'[my[s]] = 0
        <3>1. /\ pc'[s] = "free" /\ UNCHANGED my
              /\ \A t \in Senders : t # s => pc'[t] = pc[t]
            BY <1>1, <1>4, <2>4 DEF DropRef, Goto, TypeOK
        <3>2. \A t \in Senders : Holds(t, o) => Holds(t, o)'
            BY <1>2, <3>1 DEF Holds
        <3> QED BY <1>1, <3>2, SamePlaces
    <2>5. CASE ref'[my[s]] # 0
        <3>1. \A t \in Senders : t # s => pc'[t] = pc[t] /\ my'[t] = my[t]
            BY <1>1, <1>4, <2>5 DEF DropRef, Return, TypeOK
        <3>2. CallerRefs(my[s]) = 1
            BY <1>1, <1>2, <2>1 DEF CallerRefs
        <3>3. ThreadRefs(my[s]) # 0
            BY <1>1, <2>3, <2>5, <3>2 DEF Ownership, RefCountExact, TypeOK
        <3>4. InQ(activeQ, my[s]) \/ ThreadHolds(my[s])
            <4>1. \A t \in Senders : ~(my[t] = my[s] /\ pc[t] = "put")
                BY <1>1, <1>2, <2>2 DEF Holds
            <4> QED BY <3>3, <4>1 DEF ThreadRefs, ThreadHolds
        <3>5. CASE o = my[s]
            BY <1>1, <3>4, <3>5 DEF Placed, ThreadHolds
        <3>6. CASE o # my[s]
            <4>1. \A t \in Senders : Holds(t, o) => Holds(t, o)'
                BY <3>1, <3>6 DEF Holds
            <4> QED BY <1>1, <4>1, SamePlaces
        <3> QED BY <3>5, <3>6
    <2> QED BY <2>4, <2>5
<1> QED BY <1>3, <1>4

\* A caller's step either leaves its op with the caller or passes it on.
LEMMA CallerKeepsPlaces ==
    ASSUME Uniform, Killable = {}, TypeOK, Ownership, NEW s \in Senders,
           GetFreeOp(s) \/ GetFreeOpFails(s) \/ Sender(s), NEW o \in Ops,
           Placed(o)
    PROVE  Placed(o)'
<1> USE DEF Goto, Return, opVars, workerVars, TypeOK
<1>0. /\ \A l \in {"fill", "arm", "ref", "put", "free"} : l \in PrivatePC
      /\ \A l \in {"idle", "wake", "check", "wait", "result", "drop"} :
            l \notin PrivatePC
      /\ \A l \in {"ref", "put", "wake", "check", "wait", "result", "drop"} :
            l \in RefPC
      /\ \A l \in {"idle", "fill", "arm", "free"} : l \notin RefPC
    BY DEF PrivatePC, RefPC
<1>1. CASE GetFreeOp(s)
    <2>1. /\ freeQ # <<>> /\ freeQ' = Tail(freeQ) /\ pc[s] = "idle"
          /\ pc'[s] = "fill" /\ my'[s] = Head(freeQ)
          /\ \A t \in Senders : t # s => pc'[t] = pc[t] /\ my'[t] = my[t]
          /\ UNCHANGED <<activeQ, wpc, cur>>
        BY <1>1 DEF GetFreeOp
    <2>2. InQ(freeQ, o) => InQ(freeQ', o) \/ o = Head(freeQ)
        BY <2>1, GetMembers
    <2>3. ~Holds(s, o)
        BY <1>0, <2>1 DEF Holds
    <2>4. \A t \in Senders : Holds(t, o) => Holds(t, o)'
        BY <2>1, <2>3 DEF Holds
    <2>5. o = Head(freeQ) => Holds(s, o)'
        BY <1>0, <2>1 DEF Holds
    <2> QED BY <2>1, <2>2, <2>4, <2>5 DEF Placed, ThreadHolds
<1>2. CASE GetFreeOpFails(s)
    <2>1. /\ pc[s] = "idle" /\ UNCHANGED <<freeQ, activeQ, wpc, cur>>
          /\ \A t \in Senders : t # s => pc'[t] = pc[t] /\ my'[t] = my[t]
        BY <1>2 DEF GetFreeOpFails
    <2>2. \A t \in Senders : Holds(t, o) => Holds(t, o)'
        BY <1>0, <2>1 DEF Holds
    <2> QED BY <2>1, <2>2, SamePlaces
<1>3. CASE FillOp(s) \/ ArmOp(s) \/ TakeRefForThread(s)
    <2>1. /\ pc[s] \in {"fill", "arm", "ref"} /\ pc'[s] \in {"arm", "ref", "put"}
          /\ \A t \in Senders : t # s => pc'[t] = pc[t]
          /\ UNCHANGED <<freeQ, activeQ, wpc, cur, my>>
        BY <1>3 DEF FillOp, ArmOp, TakeRefForThread
    <2>2. \A t \in Senders : Holds(t, o) => Holds(t, o)'
        BY <1>0, <2>1 DEF Holds
    <2> QED BY <2>1, <2>2, SamePlaces
<1>4. CASE PutOpToActive(s)
    <2>1. /\ my[s] \in Ops /\ activeQ' = Append(activeQ, my[s])
          /\ \A t \in Senders : t # s => pc'[t] = pc[t]
          /\ UNCHANGED <<freeQ, my, wpc, cur>>
        BY <1>4 DEF PutOpToActive
    <2>2. InQ(activeQ', o) <=> InQ(activeQ, o) \/ o = my[s]
        BY <2>1, PutMembers
    <2>3. o # my[s] => \A t \in Senders : Holds(t, o) => Holds(t, o)'
        BY <2>1 DEF Holds
    <2> QED BY <2>1, <2>2, <2>3 DEF Placed, ThreadHolds
<1>5. ~PutOpToActiveFails(s) /\ ~PutOpToFreeFails(s)
    BY OwnershipLeavesRoom DEF PutOpToActiveFails, PutOpToFreeFails, PutFindsRoom
<1>6. CASE \/ TriggerEvent(s) \/ CheckWait(s) \/ WaitSignalled(s)
           \/ WaitTimesOut(s) \/ ReadResult(s)
    <2>1. /\ pc[s] \in {"wake", "check", "wait", "result"}
          /\ pc'[s] \in {"check", "wait", "result", "drop"}
          /\ \A t \in Senders : t # s => pc'[t] = pc[t]
          /\ UNCHANGED <<freeQ, activeQ, cur, my>>
          /\ UNCHANGED wpc \/ WakeThread
        BY <1>6 DEF TriggerEvent, CheckWait, WaitSignalled, WaitTimesOut, ReadResult
    <2>2. \A t \in Senders : Holds(t, o) => Holds(t, o)'
        BY <1>0, <2>1 DEF Holds
    <2> QED BY <2>1, <2>2, SamePlaces
<1>7. CASE PutOpToFree(s)
    <2>1. /\ my[s] \in Ops /\ freeQ' = Append(freeQ, my[s])
          /\ \A t \in Senders : t # s => pc'[t] = pc[t] /\ my'[t] = my[t]
          /\ UNCHANGED <<activeQ, wpc, cur>>
        BY <1>7 DEF PutOpToFree
    <2>2. InQ(freeQ', o) <=> InQ(freeQ, o) \/ o = my[s]
        BY <2>1, PutMembers
    <2>3. o # my[s] => \A t \in Senders : Holds(t, o) => Holds(t, o)'
        BY <2>1 DEF Holds
    <2> QED BY <2>1, <2>2, <2>3 DEF Placed, ThreadHolds
<1> QED
    BY <1>1, <1>2, <1>3, <1>4, <1>5, <1>6, <1>7, DropKeepsPlace DEF Sender

\* The thread passes an op on to the free queue or leaves it to the caller that
\* holds the remaining reference.
LEMMA WorkerKeepsPlaces ==
    ASSUME TypeOK, Ownership, Worker, NEW o \in Ops, Placed(o)
    PROVE  Placed(o)'
<1> USE DEF WorkerGoto, opVars, senderVars, TypeOK
<1>0. UNCHANGED <<pc, my>>
    BY DEF Worker, WorkerSleeps, WorkerGetOp, RunHandler, WorkerDropRef,
       WorkerPutOpToFree, WorkerCheckWait, WorkerWriteResult, WorkerRaiseSignal,
       WorkerOopses, WorkerExit
<1>1. \A t \in Senders : Holds(t, o) => Holds(t, o)'
    BY <1>0 DEF Holds
<1>2. CASE WorkerGetOp
    <2>1. /\ wpc = "wait" /\ wpc' = "run" /\ cur' = Head(activeQ)
          /\ activeQ # <<>> /\ activeQ' = Tail(activeQ) /\ UNCHANGED freeQ
        BY <1>2 DEF WorkerGetOp
    <2>2. InQ(activeQ, o) => InQ(activeQ', o) \/ o = Head(activeQ)
        BY <2>1, GetMembers
    <2> QED BY <1>1, <2>1, <2>2 DEF Placed, ThreadHolds
<1>3. CASE WorkerDropRef
    <2>1. /\ wpc = "dec" /\ cur \in Ops /\ wpc' \in {"free", "check"}
          /\ wpc' = "check" => ref[cur] # 1
          /\ UNCHANGED <<freeQ, activeQ, cur>>
        BY <1>3 DEF WorkerDropRef
    <2>2. wpc' = "check" => \E s \in Senders : Holds(s, cur)
        <3>1. ThreadRefs(cur) = 1
            BY <2>1 DEF ThreadRefs
        <3>2. wpc' = "check" => CallerRefs(cur) # 0
            <4>1. ref[cur] = CallerRefs(cur) + 1
                BY <2>1, <3>1 DEF Ownership, RefCountExact
            <4> QED BY <2>1, <4>1
        <3> QED BY <3>2 DEF CallerRefs, Holds, Senders
    <2>3. wpc' = "check" /\ o = cur => \E s \in Senders : Holds(s, o)'
        BY <1>1, <2>2
    <2> QED BY <1>1, <2>1, <2>3 DEF Placed, ThreadHolds
<1>4. CASE WorkerPutOpToFree
    <2>1. /\ wpc = "free" /\ cur \in Ops /\ freeQ' = Append(freeQ, cur)
          /\ UNCHANGED <<activeQ, cur>>
        BY <1>4, OwnershipLeavesRoom DEF WorkerPutOpToFree, PutFindsRoom
    <2>2. InQ(freeQ', o) <=> InQ(freeQ, o) \/ o = cur
        BY <2>1, PutMembers
    <2> QED BY <1>1, <2>1, <2>2 DEF Placed, ThreadHolds
<1>5. CASE WorkerSleeps \/ RunHandler \/ WorkerCheckWait \/ WorkerWriteResult
           \/ WorkerRaiseSignal \/ WorkerOopses \/ WorkerExit
    <2>1. /\ UNCHANGED <<freeQ, activeQ, cur>>
          /\ wpc \in {"run", "dec", "free"} => wpc' \in {"run", "dec", "free"}
        BY <1>5 DEF WorkerSleeps, RunHandler, WorkerCheckWait, WorkerWriteResult,
           WorkerRaiseSignal, WorkerOopses, WorkerExit
    <2> QED BY <1>1, <2>1 DEF Placed, ThreadHolds
<1> QED BY <1>2, <1>3, <1>4, <1>5 DEF Worker

\* No step loses an op.
LEMMA NoOpLostNext ==
    ASSUME Uniform, Killable = {}, TypeOK, Ownership, NoOpLost, [Next]_vars
    PROVE  NoOpLost'
<1> SUFFICES ASSUME state' # "down", NEW o \in Ops
             PROVE  Placed(o)'
    BY DEF NoOpLost, Placed
<1>1. state # "down" => Placed(o)
    BY DEF NoOpLost, Placed
<1>2. CASE \E s \in Senders : GetFreeOp(s) \/ GetFreeOpFails(s) \/ Sender(s)
    <2>1. PICK s \in Senders : GetFreeOp(s) \/ GetFreeOpFails(s) \/ Sender(s)
        BY <1>2
    <2>2. UNCHANGED state
        BY <2>1 DEF GetFreeOp, GetFreeOpFails, Sender, FillOp, ArmOp,
           TakeRefForThread, PutOpToActive, PutOpToActiveFails, TriggerEvent,
           CheckWait, WaitSignalled, WaitTimesOut, ReadResult, DropRef,
           PutOpToFree, PutOpToFreeFails
    <2> QED BY <1>1, <2>1, <2>2, CallerKeepsPlaces
<1>3. CASE Worker
    <2>1. UNCHANGED state
        BY <1>3 DEF Worker, WorkerSleeps, WorkerGetOp, RunHandler, WorkerDropRef,
           WorkerPutOpToFree, WorkerCheckWait, WorkerWriteResult,
           WorkerRaiseSignal, WorkerOopses, WorkerExit
    <2> QED BY <1>1, <1>3, <2>1, WorkerKeepsPlaces
<1>4. CASE ThreadStop
    <2>1. /\ state = "up" /\ WakeThread
          /\ UNCHANGED <<freeQ, activeQ, cur, pc, my>>
        BY <1>4 DEF ThreadStop, senderVars
    <2>2. \A t \in Senders : Holds(t, o) => Holds(t, o)'
        BY <2>1 DEF Holds
    <2> QED BY <1>1, <2>1, <2>2, SamePlaces
<1>5. CASE ThreadDeinit
    BY <1>5 DEF ThreadDeinit
<1>6. CASE ThreadInit
    BY <1>6, InitialQueueFull DEF ThreadInit, ResetContext, Placed
<1>7. CASE UNCHANGED vars
    <2>1. UNCHANGED <<state, freeQ, activeQ, cur, wpc, pc, my>>
        BY <1>7 DEF vars, workerVars, senderVars
    <2>2. \A t \in Senders : Holds(t, o) => Holds(t, o)'
        BY <2>1 DEF Holds
    <2> QED BY <1>1, <2>1, <2>2, SamePlaces
<1> QED BY <1>2, <1>3, <1>4, <1>5, <1>6, <1>7 DEF Next

\* The pool does not leak: while nobody is killed, every op is on a queue or
\* with somebody who will give it back, for any number of callers, any pool size
\* and any timing.
THEOREM NoOpEverLost == Uniform /\ Killable = {} => (Spec => []NoOpLost)
<1> SUFFICES ASSUME Uniform, Killable = {} PROVE Spec => []NoOpLost
    OBVIOUS
<1>1. Init => NoOpLost
    BY InitialQueueFull DEF Init, NoOpLost
<1>2. TypeOK /\ Ownership /\ NoOpLost /\ [Next]_vars => NoOpLost'
    BY NoOpLostNext
<1> QED BY <1>1, <1>2, OwnershipHolds, TypeCorrect, PTL DEF Spec
==============================================================================
