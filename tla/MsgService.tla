----------------------------- MODULE MsgService ------------------------------
(***************************************************************************)
(* What msg_thread_send_wait promises its callers when handlers end in     *)
(* time: a call runs its handler at most once; it returns its own result   *)
(* exactly when the handler has run and a failure exactly when it has not  *)
(* and never will.                                                         *)
(***************************************************************************)
CONSTANT Callers

VARIABLES
    call,       \* how far each caller's call has come
    answer      \* what the last call returned

vars == <<call, answer>>

TypeOK ==
    /\ call \in [Callers -> {"idle", "called", "executed"}]
    /\ answer \in [Callers -> {"none", "own", "failed"}]

Init ==
    /\ call = [c \in Callers |-> "idle"]
    /\ answer = [c \in Callers |-> "none"]

Call(c) ==
    /\ call[c] = "idle"
    /\ call' = [call EXCEPT ![c] = "called"]
    /\ answer' = [answer EXCEPT ![c] = "none"]

Execute(c) ==
    /\ call[c] = "called"
    /\ call' = [call EXCEPT ![c] = "executed"]
    /\ UNCHANGED answer

Answer(c) ==
    /\ call[c] = "executed"
    /\ call' = [call EXCEPT ![c] = "idle"]
    /\ answer' = [answer EXCEPT ![c] = "own"]

\* The call is refused, at once or after it has started.
Refuse(c) ==
    /\ call[c] \in {"idle", "called"}
    /\ call' = [call EXCEPT ![c] = "idle"]
    /\ answer' = [answer EXCEPT ![c] = "failed"]

Next == \E c \in Callers : Call(c) \/ Execute(c) \/ Answer(c) \/ Refuse(c)

\* A call that has started makes progress until it returns.
Progress(c) == call[c] # "idle" /\ (Execute(c) \/ Answer(c) \/ Refuse(c))

Spec == Init /\ [][Next]_vars /\ \A c \in Callers : WF_vars(Progress(c))
=============================================================================
