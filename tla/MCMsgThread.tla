----------------------------- MODULE MCMsgThread -----------------------------
(* Instances of MsgThread for TLC. *)
EXTENDS MsgRefinement, TLC

CONSTANTS s1, s2, s3

OneSender == {s1}
TwoSenders == {s1, s2}
ThreeSenders == {s1, s2, s3}
NoSenders == {}

\* The callers that cannot be killed are interchangeable.
OthersSymmetry == Permutations({s2, s3})

\* All that a guard or an ownership property reads: payloads, results and return
\* values are only carried along.
ControlView == <<freeQ, activeQ, timeoutValue, ref, done, pc, my, wpc, cur, state>>
=============================================================================
