---------------------------- MODULE MsgRefinement ----------------------------
(***************************************************************************)
(* How MsgThread implements MsgService.  A call has been executed when its *)
(* op has left the active queue and the handler has returned.              *)
(***************************************************************************)
EXTENDS MsgThread

Executed(s) ==
    \/ pc[s] \in {"wake", "check", "wait"} /\ ~InQ(activeQ, my[s])
                                           /\ ~(wpc = "run" /\ cur = my[s])
    \/ pc[s] = "result"
    \/ pc[s] \in {"drop", "free"} /\ ret[s] # PutFailed

CallState(s) == IF pc[s] = "idle" THEN "idle"
                ELSE IF Executed(s) THEN "executed"
                ELSE "called"

AnswerState(s) == IF pc[s] # "idle" \/ ret[s] = NotCalled THEN "none"
                  ELSE IF ret[s] = <<s, tag[s]>> THEN "own"
                  ELSE IF ret[s] \in {PutFailed, NoFreeOp} THEN "failed"
                  ELSE "wrong"

Service == INSTANCE MsgService WITH
    Callers <- WaitSenders,
    call <- [s \in WaitSenders |-> CallState(s)],
    answer <- [s \in WaitSenders |-> AnswerState(s)]

\* MsgThread with callers that wait and handlers that end in time implements
\* MsgService (msg_thread.c:444-469, 316-384, 557-606).
ImplementsService == Service!Spec

\* The safety part of it: every step of MsgThread is one step of the service for
\* one caller, or none.
ServiceSteps == Service!Init /\ [][Service!Next]_(Service!vars)
=============================================================================
