------------------------- MODULE ConninfraCoreProofs -------------------------
(***************************************************************************)
(* Proofs about ConninfraCore, for any number of radios, readers, callers  *)
(* and triggering drivers: the power records agree whenever core_lock is   *)
(* free, and there is one chip reset at a time.                            *)
(***************************************************************************)
EXTENDS ConninfraCore, SequenceTheorems, TLAPS

-----------------------------------------------------------------------------
(* Types *)

\* A power function returns with its locals reset.
LEMMA ReturnTypes ==
    ASSUME ThreadType, NEW t \in Threads, Return(t)
    PROVE  ThreadType'
  <1>1. 0 \in Drv /\ 0 \in 0 .. DrvMax
    BY DrvAssumption DEF Drv
  <1> QED
    BY <1>1 DEF ThreadType, Return, Goto, ResetPC

\* The power functions keep to the types (conninfra_core.c:189-339).
LEMMA PowerStepTypes ==
    ASSUME CoreType, NEW t \in Threads, PowerStep(t)
    PROVE  CoreType'
  <1>1. ResetType' /\ RequestType' /\ SubType'
    <2>1. UNCHANGED <<rstStatus, trgDrv, cbQ, cbVars, gpc, coreQ, callerVars, subVars>>
      BY DEF PowerStep, PowerOn, PowerOnSet, ReadStatus, PowerOff, PowerOffEnd,
             ForceOff, ForceOffAlreadyOff, ForceOffDrv, ForceOffEnd, rstVars
    <2> QED
      BY <2>1 DEF CoreType, ResetType, RequestType, SubType, cbVars, callerVars, subVars
  <1>2. PowerType'
    <2>1. lock' \in {lock, t, None}
      BY DEF PowerStep, PowerOn, PowerOnSet, ReadStatus, PowerOff, PowerOffEnd,
             ForceOff, ForceOffAlreadyOff, ForceOffDrv, ForceOffEnd, powerVars
    <2>2. infra' \in BOOLEAN /\ chip' \in BOOLEAN
      BY DEF CoreType, PowerType, PowerStep, PowerOn, PowerOnSet, ReadStatus, PowerOff,
             PowerOffEnd, ForceOff, ForceOffAlreadyOff, ForceOffDrv, ForceOffEnd,
             powerVars
    <2>3. drv' \subseteq drv \cup {arg[t]}
      BY DEF PowerStep, PowerOn, PowerOnSet, ReadStatus, PowerOff, PowerOffEnd,
             ForceOff, ForceOffAlreadyOff, ForceOffDrv, ForceOffEnd, powerVars
    <2>4. arg[t] \in Drv
      BY DEF CoreType, ThreadType
    <2> QED
      BY <2>1, <2>2, <2>3, <2>4 DEF CoreType, PowerType
  <1>3. ThreadType'
    <2>1. CASE Return(t)
      BY <2>1, ReturnTypes DEF CoreType
    <2>2. CASE ReadStatus(t)
      <3>1. curr[t] \cup (drv \cap {idx[t]}) \in SUBSET Drv
        BY DEF CoreType, PowerType, ThreadType
      <3>2. idx[t] < DrvMax => idx[t] + 1 \in 0 .. DrvMax
        BY DrvAssumption DEF CoreType, ThreadType
      <3>3. 0 \in 0 .. DrvMax
        BY DrvAssumption
      <3>4. /\ arg' = arg
            /\ tpc' = tpc \/ tpc' = [tpc EXCEPT ![t] = "off_lock"]
            /\ curr' = curr \/ curr' = [curr EXCEPT ![t] = curr[t] \cup (drv \cap {idx[t]})]
            /\ \/ idx' = [idx EXCEPT ![t] = 0]
               \/ idx[t] < DrvMax /\ idx' = [idx EXCEPT ![t] = idx[t] + 1]
        BY <2>2 DEF ReadStatus, Goto
      <3> QED
        BY <3>1, <3>2, <3>3, <3>4 DEF CoreType, ThreadType, PowerPC
    <2>3. CASE ForceOffDrv(t)
      <3>1. UNCHANGED <<tpc, arg, curr>> /\ idx' = [idx EXCEPT ![t] = idx[t] + 1]
        BY <2>3 DEF ForceOffDrv
      <3>2. idx[t] + 1 \in 0 .. DrvMax
        BY <2>3, DrvAssumption DEF CoreType, ThreadType, ForceOffDrv
      <3> QED
        BY <3>1, <3>2 DEF CoreType, ThreadType
    <2>4. CASE ForceOff(t)
      <3>1. 0 \in 0 .. DrvMax
        BY DrvAssumption
      <3>2. /\ UNCHANGED <<arg, curr>> /\ idx' = [idx EXCEPT ![t] = 0]
            /\ tpc' = [tpc EXCEPT ![t] = "force"]
        BY <2>4 DEF ForceOff, Goto
      <3> QED
        BY <3>1, <3>2 DEF CoreType, ThreadType, PowerPC
    <2>5. CASE UNCHANGED locals /\ (Goto(t, "on_set") \/ Goto(t, "off_end"))
      BY <2>5 DEF CoreType, ThreadType, PowerPC, Goto, locals
    <2> QED
      BY <2>1, <2>2, <2>3, <2>4, <2>5
      DEF PowerStep, PowerOn, PowerOnSet, PowerOff, PowerOffEnd, ForceOffAlreadyOff,
          ForceOffEnd
  <1> QED
    BY <1>1, <1>2, <1>3 DEF CoreType

\* A thread that only moves on, to a place it can be at.
LEMMA GotoTypes ==
    ASSUME ThreadType, NEW t \in Threads, UNCHANGED locals,
           NEW label \in {"idle"} \cup PowerPC \cup AccessPC \cup ResetPC,
           Goto(t, label)
    PROVE  ThreadType'
  BY DEF ThreadType, Goto, locals

\* Hardware accesses (conninfra_core.c:456-683, 800-881) and the next request.
LEMMA AccessTypes ==
    ASSUME CoreType, NEW t \in Threads, AccessStarts(t) \/ AccessEnds(t)
    PROVE  CoreType'
  <1>1. ResetType' /\ RequestType' /\ SubType'
    BY DEF CoreType, ResetType, RequestType, SubType, AccessStarts, AccessEnds, rstVars,
           cbVars, callerVars, subVars
  <1>2. PowerType'
    BY DEF CoreType, PowerType, AccessStarts, AccessEnds
  <1>3. UNCHANGED locals /\ (Goto(t, "idle") \/ Goto(t, "access"))
    BY DEF AccessStarts, AccessEnds, locals
  <1>4. ThreadType'
    BY <1>3, GotoTypes DEF CoreType, AccessPC
  <1> QED
    BY <1>1, <1>2, <1>4 DEF CoreType

\* conninfra_cored takes a request: its function gets the request's argument.
LEMMA CoredGetOpTypes ==
    ASSUME CoreType, CoredGetOp
    PROVE  CoreType'
  <1> DEFINE op == Head(coreQ)
             label == CASE op[1] = "on" -> "on_lock"
                        [] op[1] = "off" -> "off_read"
                        [] OTHER -> "acc_lock"
  <1>1. PowerType' /\ ResetType' /\ SubType'
    BY DEF CoreType, PowerType, ResetType, SubType, CoredGetOp, powerVars, rstVars, cbVars,
           subVars
  <1>2. op \in Calls /\ Tail(coreQ) \in Seq(Calls)
    BY DEF CoreType, RequestType, CoredGetOp
  <1>3. RequestType'
    BY <1>2 DEF CoreType, RequestType, CoredGetOp, callerVars
  <1>4. op[2] \in Drv
    BY <1>2, CallsAssumption
  <1>5. label \in PowerPC \cup AccessPC
    BY DEF PowerPC, AccessPC
  <1>6. /\ arg' = [arg EXCEPT ![Cored] = op[2]] /\ UNCHANGED <<curr, idx>>
        /\ tpc' = [tpc EXCEPT ![Cored] = label]
    BY DEF CoredGetOp, Goto
  <1> HIDE DEF op, label
  <1>7. ThreadType'
    BY <1>4, <1>5, <1>6 DEF CoreType, ThreadType
  <1> QED
    BY <1>1, <1>3, <1>7 DEF CoreType

\* The steps of opfunc_chip_rst itself (conninfra_core.c:349-454).
LEMMA ChipRstTypes ==
    ASSUME CoreType, ChipRst
    PROVE  CoreType'
  <1>1. PowerType' /\ RequestType'
    BY DEF CoreType, PowerType, RequestType, ChipRst, CbGetOp, RstNothingOn, RstBegin,
           RstPre, RstWaitPre, RstPowerOn, RstPowered, RstPost, RstWaitPost, RstOpen,
           powerVars, callerVars
  <1>2. ThreadType'
    <2>1. Cb \in Threads /\ Conninfra \in Drv
      BY DrvAssumption DEF Threads, Conninfra, Drv
    <2>2. CASE RstWaitPre
      BY <2>1, <2>2 DEF CoreType, ThreadType, RstWaitPre, Goto, PowerPC
    <2>3. CASE RstPowerOn
      <3>1. rsti < DrvMax => rsti \in Drv
        BY DrvAssumption DEF CoreType, ResetType, Drv
      <3> QED
        BY <2>1, <2>3, <3>1 DEF CoreType, ThreadType, RstPowerOn, Goto, PowerPC
    <2>4. CASE RstPre \/ RstPost
      BY <2>4 DEF CoreType, ThreadType, RstPre, RstPost, threadVars
    <2>5. CASE CbGetOp \/ RstNothingOn \/ RstBegin \/ RstPowered \/ RstWaitPost \/ RstOpen
      <3>1. /\ UNCHANGED locals
            /\ \E label \in {"idle"} \cup ResetPC : Goto(Cb, label)
        BY <2>5 DEF CbGetOp, RstNothingOn, RstBegin, RstPowered, RstWaitPost, RstOpen,
                    locals, ResetPC
      <3> QED
        BY <2>1, <3>1, GotoTypes DEF CoreType
    <2> QED
      BY <2>2, <2>3, <2>4, <2>5 DEF ChipRst
  <1>3. ResetType'
    <2> USE DrvAssumption
        DEF CoreType, ResetType, NoDrv, CHIP_RST_NONE, CHIP_RST_PRE_CB, CHIP_RST_RESET,
            CHIP_RST_POST_CB
    <2>1. CASE CbGetOp
      <3>1. Head(cbQ) \in Drv /\ Tail(cbQ) \in Seq(Triggers)
        BY <2>1, RadiosAssumption DEF CbGetOp
      <3> QED
        BY <2>1, <3>1 DEF CbGetOp, rstVars
    <2>2. CASE RstNothingOn
      BY <2>2 DEF RstNothingOn
    <2>3. CASE RstBegin
      BY <2>3 DEF RstBegin
    <2>4. CASE RstPre
      BY <2>4 DEF RstPre, rstVars, PowerType
    <2>5. CASE RstWaitPre
      BY <2>5 DEF RstWaitPre
    <2>6. CASE RstPowerOn
      BY <2>6 DEF RstPowerOn, rstVars
    <2>7. CASE RstPowered
      BY <2>7 DEF RstPowered
    <2>8. CASE RstPost
      BY <2>8 DEF RstPost, rstVars
    <2>9. CASE RstWaitPost
      BY <2>9 DEF RstWaitPost, cbVars
    <2>10. CASE RstOpen
      BY <2>10 DEF RstOpen
    <2> QED
      BY <2>1, <2>2, <2>3, <2>4, <2>5, <2>6, <2>7, <2>8, <2>9, <2>10 DEF ChipRst
  <1>4. SubType'
    <2>1. CASE RstPre \/ RstPost
      <3>1. rsti \in Drv
        BY <2>1, DrvAssumption DEF CoreType, ResetType, RstPre, RstPost, Drv
      <3>2. \A op \in {"pre", "post"} : Append(subQ[rsti], op) \in Seq({"pre", "post"})
        BY <3>1 DEF CoreType, SubType
      <3> QED
        BY <2>1, <3>1, <3>2 DEF CoreType, SubType, RstPre, RstPost
    <2>2. CASE UNCHANGED subVars
      BY <2>2 DEF CoreType, SubType, subVars
    <2> QED
      BY <2>1, <2>2
      DEF ChipRst, CbGetOp, RstNothingOn, RstBegin, RstWaitPre, RstPowerOn, RstPowered,
          RstWaitPost, RstOpen
  <1> QED
    BY <1>1, <1>2, <1>3, <1>4 DEF CoreType

\* The radios' threads (conninfra_core.c:685-729) and their registration.
LEMMA SubTypes ==
    ASSUME CoreType, NEW d \in Drv, SubNext(d) \/ Register(d)
    PROVE  CoreType'
  <1>1. PowerType' /\ ThreadType' /\ ResetType' /\ RequestType'
    BY DEF CoreType, PowerType, ThreadType, ResetType, RequestType, SubNext, SubGetOp,
           SubCallback, SubOopses, SubDone, Register, powerVars, threadVars, rstVars, cbVars, callerVars
  <1>2. SubType'
    <2>1. CASE SubGetOp(d)
      <3>1. Head(subQ[d]) \in {"pre", "post"} /\ Tail(subQ[d]) \in Seq({"pre", "post"})
        BY <2>1 DEF CoreType, SubType, SubGetOp
      <3> QED
        BY <2>1, <3>1 DEF CoreType, SubType, SubGetOp
    <2>2. CASE SubCallback(d) \/ SubOopses(d) \/ SubDone(d)
      BY <2>2 DEF CoreType, SubType, SubCallback, SubOopses, SubDone
    <2>3. CASE Register(d)
      BY <2>3 DEF CoreType, SubType, Register
    <2> QED
      BY <2>1, <2>2, <2>3 DEF SubNext
  <1> QED
    BY <1>1, <1>2 DEF CoreType

\* conninfra_trigger_whole_chip_rst (conninfra.c:152-169).
LEMMA TriggerTypes ==
    ASSUME CoreType, NEW d \in Triggers, LockRst(d) \/ TriggerNext(d)
    PROVE  CoreType'
  <1>1. PowerType' /\ ThreadType' /\ RequestType' /\ SubType'
    BY DEF CoreType, PowerType, ThreadType, RequestType, SubType, TriggerNext, LockRst,
           MarkTrigger, SendReset, SendResetFails, powerVars, threadVars, callerVars, subVars
  <1>2. d \in Drv /\ Append(cbQ, d) \in Seq(Triggers)
    BY RadiosAssumption DEF CoreType, ResetType
  <1>3. ResetType'
    BY <1>2 DEF CoreType, ResetType, TriggerNext, LockRst, MarkTrigger, SendReset,
           SendResetFails, rstVars, cbVars, CHIP_RST_NONE, CHIP_RST_START, CHIP_RST_POST_CB
  <1> QED
    BY <1>1, <1>3 DEF CoreType

\* The callers of power functions (conninfra.c:118-140).
LEMMA CallerTypes ==
    ASSUME CoreType, NEW c \in Callers, CallerNext(c)
    PROVE  CoreType'
  <1>1. PowerType' /\ ThreadType' /\ ResetType' /\ SubType'
    BY DEF CoreType, PowerType, ThreadType, ResetType, SubType, CallerNext, CheckRst,
           SendRequest, powerVars, threadVars, rstVars, cbVars, subVars
  <1>2. RequestType'
    <2>1. CASE CheckRst(c)
      <3>1. PICK op \in Calls : call' = [call EXCEPT ![c] = op]
        BY <2>1 DEF CheckRst
      <3> QED
        BY <2>1, <3>1 DEF CoreType, RequestType, CheckRst
    <2>2. CASE SendRequest(c)
      <3>1. Append(coreQ, call[c]) \in Seq(Calls)
        BY <2>2 DEF CoreType, RequestType, SendRequest
      <3> QED
        BY <2>2, <3>1 DEF CoreType, RequestType, SendRequest
    <2> QED
      BY <2>1, <2>2 DEF CallerNext
  <1> QED
    BY <1>1, <1>2 DEF CoreType

\* Type correctness of everything but rst_state, whose sum of 2^radio is
\* outside the provers' arithmetic.
THEOREM CoreTypeHolds == Spec => []CoreType
  <1>1. Init => CoreType
    <2> SUFFICES ASSUME Init PROVE CoreType
      OBVIOUS
    <2>1. 0 \in Drv /\ Conninfra \in Drv /\ 0 \in 0 .. DrvMax
      BY DrvAssumption DEF Drv, Conninfra
    <2>2. PowerType
      BY <2>1, AutoUpAssumption DEF Init, PowerType
    <2>3. ThreadType
      BY <2>1 DEF Init, ThreadType
    <2>4. ResetType
      BY <2>1 DEF Init, ResetType, CHIP_RST_NONE, CHIP_RST_POST_CB
    <2>5. RequestType
      BY DEF Init, RequestType
    <2>6. SubType
      BY RadiosAssumption DEF Init, SubType
    <2> QED
      BY <2>2, <2>3, <2>4, <2>5, <2>6 DEF CoreType
  <1>2. CoreType /\ [Next]_vars => CoreType'
    <2> SUFFICES ASSUME CoreType, [Next]_vars PROVE CoreType'
      OBVIOUS
    <2>1. CASE CoredNext
      BY <2>1, PowerStepTypes, AccessTypes, CoredGetOpTypes DEF CoredNext, Threads
    <2>2. CASE CbNext
      BY <2>2, PowerStepTypes, ChipRstTypes DEF CbNext, Threads
    <2>3. CASE \E t \in Readers : AccessStarts(t) \/ AccessEnds(t)
      BY <2>3, AccessTypes DEF Threads
    <2>4. CASE \E d \in Drv : SubNext(d)
      BY <2>4, SubTypes
    <2>5. CASE \E d \in Triggers : LockRst(d) \/ TriggerNext(d)
      BY <2>5, TriggerTypes
    <2>6. CASE \E d \in Registrars : Register(d)
      BY <2>6, SubTypes, RadiosAssumption
    <2>7. CASE \E c \in Callers : CallerNext(c)
      BY <2>7, CallerTypes
    <2>8. CASE UNCHANGED vars
      BY <2>8 DEF CoreType, PowerType, ThreadType, ResetType, RequestType, SubType, vars,
             powerVars, rstVars, threadVars, cbVars, callerVars, subVars
    <2> QED
      BY <2>1, <2>2, <2>3, <2>4, <2>5, <2>6, <2>7, <2>8 DEF Next
  <1> QED
    BY <1>1, <1>2, PTL DEF Spec

-----------------------------------------------------------------------------
(* The power records *)

PC == {"idle"} \cup PowerPC \cup AccessPC \cup ResetPC

\* The free mark is no thread.
LEMMA NoneIsNoThread == None \notin Threads
  BY ThreadsAssumption DEF Threads, None

\* The loop index of thread t, and of no other, may change.
OnlyIndexOf(t) == \A u \in Threads : u # t => idx'[u] = idx[u]

\* A step of a thread that leaves core_lock and the records alone and does not
\* bring it into a critical section (conninfra_core.c:208-339).
LEMMA OutsideKeeps ==
    ASSUME CoreType, PowerRecords, NEW t \in Threads, NEW label \in PC,
           UNCHANGED <<lock, drv, infra>>, OnlyIndexOf(t),
           tpc' = [tpc EXCEPT ![t] = label], label \notin Critical
    PROVE  PowerRecords'
  <1>1. \A u \in Threads : tpc'[u] \in Critical => u # t /\ tpc'[u] = tpc[u]
    BY DEF CoreType, ThreadType
  <1>2. MutualExclusion'
    BY <1>1 DEF PowerRecords, MutualExclusion
  <1>3. RecordsAgree'
    BY DEF PowerRecords, RecordsAgree
  <1>4. RecordsInside'
    BY <1>1 DEF PowerRecords, RecordsInside, Critical, OnlyIndexOf
  <1> QED
    BY <1>2, <1>3, <1>4 DEF PowerRecords

\* A step that leaves all of it alone.
LEMMA FrameKeeps ==
    ASSUME PowerRecords, UNCHANGED <<lock, drv, infra, idx, tpc>>
    PROVE  PowerRecords'
  BY DEF PowerRecords, MutualExclusion, RecordsAgree, RecordsInside

\* A thread finds core_lock free and takes it: nobody else is in a critical
\* section.
LEMMA TakesLock ==
    ASSUME CoreType, PowerRecords, NEW t \in Threads, NEW label,
           lock = None, lock' = t, tpc' = [tpc EXCEPT ![t] = label]
    PROVE  /\ MutualExclusion' /\ RecordsAgree'
           /\ \A u \in Threads : tpc'[u] \in Critical => u = t /\ tpc'[u] = label
  BY NoneIsNoThread
  DEF CoreType, ThreadType, PowerRecords, MutualExclusion, RecordsAgree

\* The thread in a critical section leaves it: nobody is inside, and only the
\* records outside matter.
LEMMA LeavesLock ==
    ASSUME CoreType, PowerRecords, NEW t \in Threads, tpc[t] \in Critical,
           NEW label, label \notin Critical,
           tpc' = [tpc EXCEPT ![t] = label], RecordsAgree'
    PROVE  PowerRecords'
  <1>1. \A u \in Threads : tpc'[u] \notin Critical
    BY DEF CoreType, ThreadType, PowerRecords, MutualExclusion
  <1> QED
    BY <1>1 DEF PowerRecords, MutualExclusion, RecordsInside, Critical

\* A power function returns: its thread is outside.
LEMMA ReturnLeaves ==
    ASSUME CoreType, NEW t \in Threads, Return(t)
    PROVE  \E label \in PC : /\ label \notin Critical
                            /\ tpc' = [tpc EXCEPT ![t] = label]
                            /\ OnlyIndexOf(t)
  <1> DEFINE label == IF t = Cb THEN "rst_on" ELSE "idle"
  <1>1. label \in PC /\ label \notin Critical
    BY DEF PC, Critical, ResetPC
  <1>2. tpc' = [tpc EXCEPT ![t] = label]
    BY DEF Return, Goto
  <1>3. OnlyIndexOf(t)
    BY DEF Return, OnlyIndexOf, CoreType, ThreadType
  <1> HIDE DEF label
  <1> QED
    BY <1>1, <1>2, <1>3

\* opfunc_power_on_internal and opfunc_power_off_internal, step by step.
LEMMA PowerStepKeeps ==
    ASSUME CoreType, PowerRecords, NEW t \in Threads, PowerStep(t)
    PROVE  PowerRecords'
  <1>1. CASE PowerOn(t)
    <2>1. CASE arg[t] \in drv
      BY <1>1, <2>1, ReturnLeaves, OutsideKeeps DEF PowerOn
    <2>2. CASE arg[t] \notin drv
      <3>1. /\ lock = None /\ lock' = t /\ infra' = TRUE
            /\ tpc' = [tpc EXCEPT ![t] = "on_set"]
        BY <1>1, <2>2 DEF PowerOn, Goto
      <3>2. /\ MutualExclusion' /\ RecordsAgree'
            /\ \A u \in Threads : tpc'[u] \in Critical => tpc'[u] = "on_set"
        BY <3>1, TakesLock
      <3>3. RecordsInside'
        BY <3>1, <3>2 DEF RecordsInside, Critical
      <3> QED
        BY <3>2, <3>3 DEF PowerRecords
    <2> QED
      BY <2>1, <2>2
  <1>2. CASE PowerOnSet(t)
    <2>1. infra /\ tpc[t] \in Critical
      BY <1>2 DEF PowerOnSet, PowerRecords, RecordsInside, Critical
    <2>2. RecordsAgree'
      BY <1>2, <2>1 DEF PowerOnSet, RecordsAgree
    <2> QED
      BY <1>2, <2>1, <2>2, ReturnLeaves, LeavesLock DEF PowerOnSet
  <1>3. CASE ReadStatus(t)
    <2>1. UNCHANGED <<lock, drv, infra>>
      BY <1>3 DEF ReadStatus, powerVars
    <2>2. OnlyIndexOf(t)
      BY <1>3 DEF ReadStatus, OnlyIndexOf, CoreType, ThreadType
    <2>3. \E label \in {"off_read", "off_lock"} : tpc' = [tpc EXCEPT ![t] = label]
      BY <1>3 DEF ReadStatus, Goto, CoreType, ThreadType
    <2> QED
      BY <2>1, <2>2, <2>3, OutsideKeeps DEF PC, PowerPC, Critical
  <1>4. CASE PowerOff(t)
    <2>1. CASE arg[t] \notin drv
      BY <1>4, <2>1, ReturnLeaves, OutsideKeeps DEF PowerOff
    <2>2. CASE arg[t] \in drv
      <3>1. /\ lock = None /\ lock' = t /\ infra' = infra
            /\ tpc' = [tpc EXCEPT ![t] = "off_end"]
        BY <1>4, <2>2 DEF PowerOff, Goto
      <3>2. infra
        BY <2>2, <3>1 DEF PowerRecords, RecordsAgree
      <3>3. /\ MutualExclusion' /\ RecordsAgree'
            /\ \A u \in Threads : tpc'[u] \in Critical => tpc'[u] = "off_end"
        BY <3>1, TakesLock
      <3>4. RecordsInside'
        BY <3>1, <3>2, <3>3 DEF RecordsInside, Critical
      <3> QED
        BY <3>3, <3>4 DEF PowerRecords
    <2> QED
      BY <2>1, <2>2
  <1>5. CASE PowerOffEnd(t)
    <2>1. infra /\ tpc[t] \in Critical
      BY <1>5 DEF PowerOffEnd, PowerRecords, RecordsInside, Critical
    <2>2. RecordsAgree'
      BY <1>5, <2>1 DEF PowerOffEnd, RecordsAgree
    <2> QED
      BY <1>5, <2>1, <2>2, ReturnLeaves, LeavesLock DEF PowerOffEnd
  <1>6. CASE ForceOff(t)
    <2>1. /\ lock = None /\ lock' = t /\ drv' = drv
          /\ tpc' = [tpc EXCEPT ![t] = "force"]
          /\ idx' = [idx EXCEPT ![t] = 0]
      BY <1>6 DEF ForceOff, Goto
    <2>2. /\ MutualExclusion' /\ RecordsAgree'
          /\ \A u \in Threads : tpc'[u] \in Critical => u = t /\ tpc'[u] = "force"
      BY <2>1, TakesLock
    <2>3. \A d \in drv' : d >= idx'[t]
      BY <2>1, DrvAssumption DEF CoreType, PowerType, ThreadType, Drv
    <2>4. RecordsInside'
      BY <2>2, <2>3 DEF RecordsInside, Critical
    <2> QED
      BY <2>2, <2>4 DEF PowerRecords
  <1>7. CASE ForceOffAlreadyOff(t)
    <2>1. PICK label \in PC : label \notin Critical /\ tpc' = [tpc EXCEPT ![t] = label]
      BY <1>7, ReturnLeaves DEF ForceOffAlreadyOff
    <2>2. lock = None /\ lock' = t
      BY <1>7 DEF ForceOffAlreadyOff
    <2>3. /\ MutualExclusion' /\ RecordsAgree'
          /\ \A u \in Threads : tpc'[u] \notin Critical
      BY <2>1, <2>2, TakesLock
    <2>4. RecordsInside'
      BY <2>3 DEF RecordsInside, Critical
    <2> QED
      BY <2>3, <2>4 DEF PowerRecords
  <1>8. CASE ForceOffDrv(t)
    <2>1. /\ tpc[t] = "force" /\ UNCHANGED <<lock, infra, tpc>>
          /\ drv' = drv \ {idx[t]} /\ idx' = [idx EXCEPT ![t] = idx[t] + 1]
      BY <1>8 DEF ForceOffDrv
    <2>2. lock = t /\ lock' # None
      BY <2>1, NoneIsNoThread DEF PowerRecords, MutualExclusion, Critical
    <2>3. MutualExclusion' /\ RecordsAgree'
      BY <2>1, <2>2 DEF PowerRecords, MutualExclusion, RecordsAgree
    <2>4. \A u \in Threads : tpc'[u] \in Critical => u = t
      BY <2>1, <2>2 DEF PowerRecords, MutualExclusion
    <2>5. \A d \in drv : d >= idx[t]
      BY <2>1 DEF PowerRecords, RecordsInside
    <2>6. \A d \in drv' : d >= idx'[t]
      BY <2>1, <2>5, DrvAssumption DEF CoreType, PowerType, ThreadType, Drv
    <2>7. RecordsInside'
      BY <2>1, <2>4, <2>6 DEF RecordsInside, Critical
    <2> QED
      BY <2>3, <2>7 DEF PowerRecords
  <1>9. CASE ForceOffEnd(t)
    <2>1. tpc[t] \in Critical
      BY <1>9 DEF ForceOffEnd, Critical
    <2>2. \A d \in drv : d >= DrvMax
      BY <1>9 DEF ForceOffEnd, PowerRecords, RecordsInside
    <2>3. drv = {}
      BY <2>2, DrvAssumption DEF CoreType, PowerType, Drv
    <2>4. RecordsAgree'
      BY <1>9, <2>3 DEF ForceOffEnd, RecordsAgree
    <2> QED
      BY <1>9, <2>1, <2>4, ReturnLeaves, LeavesLock DEF ForceOffEnd
  <1> QED
    BY <1>1, <1>2, <1>3, <1>4, <1>5, <1>6, <1>7, <1>8, <1>9 DEF PowerStep

\* Hardware accesses (conninfra_core.c:456-683, 800-881).
LEMMA AccessKeeps ==
    ASSUME CoreType, PowerRecords, NEW t \in Threads, AccessStarts(t) \/ AccessEnds(t)
    PROVE  PowerRecords'
  <1>1. UNCHANGED <<drv, infra, idx>>
    BY DEF AccessStarts, AccessEnds
  <1>2. CASE AccessStarts(t) /\ infra
    <2>1. /\ lock = None /\ lock' = t
          /\ tpc' = [tpc EXCEPT ![t] = "access"]
      BY <1>2 DEF AccessStarts, Goto
    <2>2. /\ MutualExclusion' /\ RecordsAgree'
          /\ \A u \in Threads : tpc'[u] \in Critical => tpc'[u] = "access"
      BY <2>1, TakesLock
    <2>3. infra' <=> drv' # {}
      BY <1>1, <2>1 DEF PowerRecords, RecordsAgree
    <2>4. RecordsInside'
      BY <2>2, <2>3 DEF RecordsInside, Critical
    <2> QED
      BY <2>2, <2>4 DEF PowerRecords
  <1>3. CASE AccessStarts(t) /\ ~infra
    <2>1. lock' = lock /\ tpc' = [tpc EXCEPT ![t] = "idle"] /\ OnlyIndexOf(t)
      BY <1>1, <1>3 DEF AccessStarts, Goto, OnlyIndexOf
    <2> QED
      BY <1>1, <2>1, OutsideKeeps DEF PC, Critical
  <1>4. CASE AccessEnds(t)
    <2>1. tpc[t] = "access" /\ tpc' = [tpc EXCEPT ![t] = "idle"]
      BY <1>4 DEF AccessEnds, Goto
    <2>2. RecordsAgree'
      BY <1>1, <2>1 DEF PowerRecords, RecordsInside, RecordsAgree
    <2> QED
      BY <2>1, <2>2, LeavesLock DEF Critical
  <1> QED
    BY <1>2, <1>3, <1>4

\* The other steps of conninfra_cored and conninfra_cb touch no record.
LEMMA GetOpAndResetKeep ==
    ASSUME CoreType, PowerRecords, CoredGetOp \/ ChipRst
    PROVE  PowerRecords'
  <1>1. UNCHANGED <<lock, drv, infra, idx>>
    BY DEF CoredGetOp, ChipRst, CbGetOp, RstNothingOn, RstBegin, RstPre, RstWaitPre,
           RstPowerOn, RstPowered, RstPost, RstWaitPost, RstOpen, powerVars, threadVars
  <1>2. CASE UNCHANGED tpc
    BY <1>1, <1>2, FrameKeeps
  <1>3. CASE \E t \in Threads : \E label \in PC \ Critical : Goto(t, label)
    BY <1>1, <1>3, OutsideKeeps DEF Goto, OnlyIndexOf
  <1>4. Cored \in Threads /\ Cb \in Threads
    BY DEF Threads
  <1>5. {"on_lock", "off_read", "acc_lock", "off_lock", "idle"} \cup ResetPC
            \subseteq PC \ Critical
    BY DEF PC, PowerPC, AccessPC, ResetPC, Critical
  <1>6. CASE CoredGetOp
    <2> DEFINE op == Head(coreQ)
               label == CASE op[1] = "on" -> "on_lock"
                          [] op[1] = "off" -> "off_read"
                          [] OTHER -> "acc_lock"
    <2>1. Goto(Cored, label)
      BY <1>6 DEF CoredGetOp
    <2>2. label \in {"on_lock", "off_read", "acc_lock"}
      OBVIOUS
    <2> HIDE DEF label
    <2> QED
      BY <1>3, <1>4, <1>5, <2>1, <2>2
  <1>7. CASE ChipRst
    <2>1. \/ UNCHANGED tpc
          \/ \E label \in {"on_lock", "off_lock", "idle"} \cup ResetPC : Goto(Cb, label)
      BY <1>7 DEF ChipRst, CbGetOp, RstNothingOn, RstBegin, RstPre, RstWaitPre, RstPowerOn,
              RstPowered, RstPost, RstWaitPost, RstOpen, threadVars, ResetPC
    <2> QED
      BY <1>2, <1>3, <1>4, <1>5, <2>1
  <1> QED
    BY <1>6, <1>7

\* Mutual exclusion under core_lock and the power records inside and outside of
\* critical sections, whatever requests and resets race.
THEOREM PowerRecordsHold == Spec => []PowerRecords
  <1>1. Init => PowerRecords
    <2> SUFFICES ASSUME Init PROVE PowerRecords
      OBVIOUS
    <2>1. \A t \in Threads : tpc[t] = "idle"
      BY DEF Init
    <2>2. RecordsAgree
      BY AutoUpAssumption DEF Init, RecordsAgree
    <2> QED
      BY <2>1, <2>2 DEF PowerRecords, MutualExclusion, RecordsInside, Critical
  <1>2. CoreType /\ PowerRecords /\ [Next]_vars => PowerRecords'
    <2> SUFFICES ASSUME CoreType, PowerRecords, [Next]_vars PROVE PowerRecords'
      OBVIOUS
    <2>1. CASE CoredNext
      BY <2>1, PowerStepKeeps, AccessKeeps, GetOpAndResetKeep DEF CoredNext, Threads
    <2>2. CASE CbNext
      BY <2>2, PowerStepKeeps, GetOpAndResetKeep DEF CbNext, Threads
    <2>3. CASE \E t \in Readers : AccessStarts(t) \/ AccessEnds(t)
      BY <2>3, AccessKeeps DEF Threads
    <2>4. CASE UNCHANGED <<lock, drv, infra, idx, tpc>>
      BY <2>4, FrameKeeps
    <2>5. CASE \/ \E d \in Drv : SubNext(d)
               \/ \E d \in Triggers : LockRst(d) \/ TriggerNext(d)
               \/ \E d \in Registrars : Register(d)
               \/ \E c \in Callers : CallerNext(c)
               \/ UNCHANGED vars
      <3>1. UNCHANGED <<powerVars, threadVars>>
        BY <2>5 DEF SubNext, SubGetOp, SubCallback, SubOopses, SubDone, LockRst, TriggerNext,
                    MarkTrigger, SendReset, SendResetFails, Register, CallerNext, CheckRst,
                    SendRequest, vars
      <3> QED
        BY <2>4, <3>1 DEF powerVars, threadVars
    <2> QED
      BY <2>1, <2>2, <2>3, <2>5 DEF Next
  <1> QED
    BY <1>1, <1>2, CoreTypeHolds, PTL DEF Spec

\* Whenever core_lock is free conn_infra is recorded on exactly when a radio is
\* (conninfra_core.c:230-231, 285-301, 312-329).
THEOREM RecordsAlwaysAgree == Spec => []RecordsAgree
  <1>1. PowerRecords => RecordsAgree
    BY DEF PowerRecords
  <1> QED
    BY <1>1, PowerRecordsHold, PTL

-----------------------------------------------------------------------------
(* One reset at a time *)

\* A step of conninfra_cored, of a reader or in the middle of a reset, which
\* leaves the gate, the triggers and the queue alone.
LEMMA MiddleKeepsOneReset ==
    ASSUME OneReset, UNCHANGED <<rstStatus, cbQ, gpc>>,
           tpc'[Cb] = "idle" <=> tpc[Cb] = "idle"
    PROVE  OneReset'
  BY DEF OneReset, Triggering, ResetRuns

\* Power functions and accesses never start or end a reset: on conninfra_cb
\* they return to opfunc_chip_rst (conninfra_core.c:403, 410).
LEMMA PowerInsideReset ==
    ASSUME CoreType, NEW t \in Threads,
           PowerStep(t) \/ (t # Cb /\ (AccessStarts(t) \/ AccessEnds(t)))
    PROVE  UNCHANGED <<rstStatus, cbQ, gpc>> /\ (tpc'[Cb] = "idle" <=> tpc[Cb] = "idle")
  <1>1. UNCHANGED <<rstStatus, cbQ, gpc>>
    BY DEF PowerStep, PowerOn, PowerOnSet, ReadStatus, PowerOff, PowerOffEnd, ForceOff,
           ForceOffAlreadyOff, ForceOffDrv, ForceOffEnd, AccessStarts, AccessEnds, rstVars
  <1>2. CASE t # Cb
    <2>1. tpc' = tpc \/ \E label : tpc' = [tpc EXCEPT ![t] = label]
      BY DEF PowerStep, PowerOn, PowerOnSet, ReadStatus, PowerOff, PowerOffEnd, ForceOff,
             ForceOffAlreadyOff, ForceOffDrv, ForceOffEnd, AccessStarts, AccessEnds, Goto,
             Return
    <2>2. tpc'[Cb] = tpc[Cb]
      BY <1>2, <2>1 DEF CoreType, ThreadType, Threads
    <2> QED
      BY <1>1, <2>2
  <1>3. CASE t = Cb
    <2>1. tpc[Cb] # "idle"
      BY <1>3 DEF PowerStep, PowerOn, PowerOnSet, ReadStatus, PowerOff, PowerOffEnd,
                  ForceOff, ForceOffAlreadyOff, ForceOffDrv, ForceOffEnd
    <2>2. \/ tpc' = tpc
          \/ \E label \in {"rst_on", "on_set", "off_lock", "off_end", "force"} :
                tpc' = [tpc EXCEPT ![Cb] = label]
      BY <1>3 DEF PowerStep, PowerOn, PowerOnSet, ReadStatus, PowerOff, PowerOffEnd,
                  ForceOff, ForceOffAlreadyOff, ForceOffDrv, ForceOffEnd, Goto, Return
    <2>3. tpc'[Cb] # "idle"
      BY <2>1, <2>2 DEF CoreType, ThreadType, Threads
    <2> QED
      BY <1>1, <2>1, <2>3
  <1> QED
    BY <1>2, <1>3

\* conninfra_cb takes the only reset there is.
LEMMA TakesLastReset ==
    ASSUME CoreType, OneReset, CbGetOp
    PROVE  cbQ' = <<>>
  <1>1. cbQ \in Seq(Triggers) /\ cbQ # <<>> /\ cbQ' = Tail(cbQ) /\ Len(cbQ) <= 1
    BY DEF CbGetOp, OneReset, CoreType, ResetType
  <1>2. Tail(cbQ) \in Seq(Triggers) /\ Len(Tail(cbQ)) = Len(cbQ) - 1
    BY <1>1, HeadTailProperties
  <1>3. Len(cbQ) \in Nat \ {0}
    BY <1>1, EmptySeq
  <1>4. Len(Tail(cbQ)) \notin Nat \ {0}
    BY <1>1, <1>2, <1>3
  <1> QED
    BY <1>1, <1>2, <1>4, EmptySeq

\* opfunc_chip_rst (conninfra_core.c:349-454): while it runs nothing is
\* triggered or queued, so it may open the gate at its end.
LEMMA ChipRstKeepsOneReset ==
    ASSUME CoreType, OneReset, ChipRst
    PROVE  OneReset'
  <1>1. CASE CbGetOp
    <2>1. cbQ' = <<>>
      BY <1>1, TakesLastReset
    <2>2. Triggering = {} /\ rstStatus # CHIP_RST_NONE
      BY <1>1 DEF CbGetOp, OneReset
    <2>3. UNCHANGED <<rstStatus, gpc>>
      BY <1>1 DEF CbGetOp, rstVars
    <2>4. Triggering' = {}
      BY <2>2, <2>3 DEF Triggering
    <2> QED
      BY <2>1, <2>2, <2>3, <2>4 DEF OneReset
  <1>2. CASE ~CbGetOp
    <2>1. tpc[Cb] # "idle" /\ UNCHANGED <<cbQ, gpc>>
      BY <1>2 DEF ChipRst, RstNothingOn, RstBegin, RstPre, RstWaitPre, RstPowerOn,
                  RstPowered, RstPost, RstWaitPost, RstOpen
    <2>2. Triggering' = {} /\ cbQ' = <<>>
      BY <2>1 DEF OneReset, ResetRuns, Triggering
    <2>3. rstStatus' = CHIP_RST_NONE => tpc'[Cb] = "idle"
      <3>1. rstStatus # CHIP_RST_NONE
        BY <2>1 DEF OneReset, ResetRuns
      <3>2. CASE RstNothingOn \/ RstOpen
        BY <3>2 DEF RstNothingOn, RstOpen, Goto, CoreType, ThreadType, Threads
      <3>3. CASE RstBegin \/ RstPre \/ RstWaitPre \/ RstPowerOn \/ RstPowered \/ RstPost
                 \/ RstWaitPost
        BY <3>1, <3>3
        DEF RstBegin, RstPre, RstWaitPre, RstPowerOn, RstPowered, RstPost, RstWaitPost,
            rstVars, CHIP_RST_NONE, CHIP_RST_PRE_CB, CHIP_RST_RESET, CHIP_RST_POST_CB
      <3> QED
        BY <1>2, <3>2, <3>3 DEF ChipRst
    <2> QED
      BY <2>2, <2>3 DEF OneReset, ResetRuns
  <1> QED
    BY <1>1, <1>2

\* conninfra_core_lock_rst and conninfra_core_trg_chip_rst
\* (conninfra_core.c:883-930): the gate lets one trigger through.
LEMMA TriggerKeepsOneReset ==
    ASSUME CoreType, OneReset, NEW d \in Triggers, LockRst(d) \/ TriggerNext(d)
    PROVE  OneReset'
  <1>1. UNCHANGED tpc
    BY DEF LockRst, TriggerNext, MarkTrigger, SendReset, SendResetFails, threadVars
  <1>2. CASE LockRst(d)
    <2>1. Triggering = {} /\ cbQ = <<>> /\ ~ResetRuns
      BY <1>2 DEF LockRst, OneReset
    <2>2. cbQ' = <<>> /\ ~ResetRuns' /\ rstStatus' # CHIP_RST_NONE
      BY <1>1, <1>2, <2>1 DEF LockRst, ResetRuns, CHIP_RST_NONE, CHIP_RST_START
    <2>3. Triggering' \subseteq {d}
      BY <1>2, <2>1 DEF LockRst, Triggering, CoreType, ResetType
    <2> QED
      BY <2>2, <2>3 DEF OneReset
  <1>3. CASE TriggerNext(d)
    <2>1. d \in Triggering
      BY <1>3 DEF TriggerNext, MarkTrigger, SendReset, SendResetFails, Triggering
    <2>2. /\ Triggering = {d} /\ cbQ = <<>> /\ ~ResetRuns
          /\ rstStatus # CHIP_RST_NONE
      BY <2>1 DEF OneReset
    <2>3. ~ResetRuns' /\ rstStatus' # CHIP_RST_NONE
      BY <1>1, <1>3, <2>2
      DEF ResetRuns, TriggerNext, MarkTrigger, SendReset, SendResetFails, rstVars
    <2>4. CASE MarkTrigger(d)
      <3>1. cbQ' = <<>> /\ Triggering' = {d}
        BY <2>2, <2>4 DEF MarkTrigger, Triggering, CoreType, ResetType
      <3> QED
        BY <2>3, <3>1 DEF OneReset
    <2>5. CASE SendReset(d)
      <3>1. Len(cbQ') = 1 /\ Triggering' = {}
        BY <2>2, <2>5 DEF SendReset, Triggering, CoreType, ResetType
      <3> QED
        BY <2>3, <3>1 DEF OneReset
    <2>6. CASE SendResetFails(d)
      <3>1. cbQ' = <<>> /\ Triggering' = {}
        BY <2>2, <2>6 DEF SendResetFails, Triggering, CoreType, ResetType
      <3> QED
        BY <2>3, <3>1 DEF OneReset
    <2> QED
      BY <1>3, <2>4, <2>5, <2>6 DEF TriggerNext
  <1> QED
    BY <1>2, <1>3

\* One reset at a time (conninfra_core.c:883-902, 359, 445), for any number of
\* drivers that trigger, killed or not.
THEOREM OneResetHolds == Spec => []OneReset
  <1>1. Init => OneReset
    BY DEF Init, OneReset, Triggering, ResetRuns, Threads
  <1>2. CoreType /\ OneReset /\ [Next]_vars => OneReset'
    <2> SUFFICES ASSUME CoreType, OneReset, [Next]_vars PROVE OneReset'
      OBVIOUS
    <2>1. CASE CoredNext
      <3>1. CASE CoredGetOp
        <4>1. tpc'[Cb] = tpc[Cb]
          BY <3>1, ThreadsAssumption DEF CoredGetOp, Goto, CoreType, ThreadType, Threads
        <4> QED
          BY <3>1, <4>1, MiddleKeepsOneReset DEF CoredGetOp, rstVars
      <3> QED
        BY <2>1, <3>1, PowerInsideReset, MiddleKeepsOneReset, ThreadsAssumption DEF CoredNext, Threads
    <2>2. CASE CbNext
      BY <2>2, PowerInsideReset, MiddleKeepsOneReset, ChipRstKeepsOneReset DEF CbNext, Threads
    <2>3. CASE \E t \in Readers : AccessStarts(t) \/ AccessEnds(t)
      BY <2>3, PowerInsideReset, MiddleKeepsOneReset, ThreadsAssumption DEF Threads
    <2>4. CASE \E d \in Triggers : LockRst(d) \/ TriggerNext(d)
      BY <2>4, TriggerKeepsOneReset
    <2>5. CASE \/ \E d \in Drv : SubNext(d)
               \/ \E d \in Registrars : Register(d)
               \/ \E c \in Callers : CallerNext(c)
               \/ UNCHANGED vars
      <3>1. UNCHANGED <<rstStatus, cbQ, gpc, tpc>>
        BY <2>5 DEF SubNext, SubGetOp, SubCallback, SubOopses, SubDone, Register, CallerNext, CheckRst,
                    SendRequest, vars, rstVars, threadVars
      <3> QED
        BY <3>1, MiddleKeepsOneReset
    <2> QED
      BY <2>1, <2>2, <2>3, <2>4, <2>5 DEF Next
  <1> QED
    BY <1>1, <1>2, CoreTypeHolds, PTL DEF Spec
=============================================================================
